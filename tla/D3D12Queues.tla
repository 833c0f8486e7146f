----------------------------- MODULE D3D12Queues -----------------------------
(***************************************************************************)
(* What the two D3D12 pipelines share: the presenting thread's call, the   *)
(* game's D3D12 queue, the queue of the separate D3D11 device of recovery, *)
(* their fences, and the auto-reset events the thread waits on.            *)
(*                                                                         *)
(* Work takes effect, and signals its fence, when it leaves its queue; an  *)
(* image is the number of the Present it shows and whether it has been     *)
(* through the neural pipeline.                                            *)
(***************************************************************************)
EXTENDS Integers, Sequences, FiniteSetsExt

CONSTANTS
    Modes,        \* how the pipeline may be initialized: "recovery", "on12"
    Descs,        \* <<size, format>> of the back buffer
    HostKeys,     \* runtime and hardware settings of the external host; 0: another backend
    Captures,     \* captured game guides: [kind, guides]
    Faults,       \* which failures happen
    MaxPresents,  \* bound: Presents
    MaxPipelines  \* bound: pipelines initialized one after the other

ASSUME QueuesAssumption ==
    /\ Modes \subseteq {"recovery", "on12"} /\ MaxPresents \in Nat /\ MaxPipelines \in Nat
    /\ Descs \subseteq (Nat \ {0}) \X (Nat \ {0}) /\ HostKeys \subseteq Nat
    /\ Captures \subseteq [kind : {"none", "transient", "foreign", "tagged", "snapshot"},
                           guides : SUBSET {"depth", "motion"}]
    /\ Faults \subseteq {"timeout", "slow", "signal", "signal11", "create", "open", "stage", "process",
                         "build", "host", "record", "evaluate"}

VARIABLES
    mode,     \* recoveryMode_, or "down" without a pipeline
    call,     \* the call in progress
    q12, q11, \* work the two queues still have to execute
    fence,    \* [copy, d11, native]: values reached
    event,    \* [copy, d11]: auto-reset events and the values registered on them
    back,     \* image in the current back buffer
    lapses    \* history: what a fault has broken so far

NoImage == [frame |-> 0, neural |-> FALSE]
NoCapture == [kind |-> "none", guides |-> {}]
NoCall == [pc |-> "idle", frame |-> 0, desc |-> <<0, 0>>, key |-> 0, capture |-> NoCapture,
           togo |-> {}, guides |-> {}, ok |-> FALSE, after |-> "idle",
           fence |-> "copy", value |-> 0, next |-> "idle", otherwise |-> "idle"]

May(fault) == fault \in Faults

\* Work of the command context ctx on generation gen of what it touches.
Work(op, ctx, gen, frame) ==
    [op |-> op, ctx |-> ctx, gen |-> gen, frame |-> frame, guides |-> {}, neural |-> FALSE,
     history |-> 0, signal |-> 0]

---------------------------------------------------------------------------
(* The presenting thread waits for a value of a fence.                     *)

\* GetCompletedValue, SetEventOnCompletion, WaitForSingleObject.
Await(c, f, v, next, otherwise) ==
    IF fence[f] >= v
    THEN call' = [c EXCEPT !.pc = next] /\ UNCHANGED event
    ELSE /\ call' = [c EXCEPT !.pc = "wait", !.fence = f, !.value = v, !.next = next, !.otherwise = otherwise]
         /\ event' = IF f = "native" THEN event ELSE [event EXCEPT ![f].armed = @ \cup {v}]

\* The event ends the wait, whichever registration has set it.
Woken ==
    /\ call.pc = "wait" /\ call.fence # "native" /\ event[call.fence].set
    /\ event' = [event EXCEPT ![call.fence].set = FALSE]
    /\ call' = [call EXCEPT !.pc = call.next]
    /\ lapses' = IF fence[call.fence] < call.value THEN lapses \cup {"staleWake"} ELSE lapses
    /\ UNCHANGED <<mode, q12, q11, fence, back>>

\* waitForGpuFenceValue: every wake is checked against the fence.
Reached ==
    /\ call.pc = "wait" /\ call.fence = "native" /\ fence.native >= call.value
    /\ call' = [call EXCEPT !.pc = call.next]
    /\ UNCHANGED <<mode, q12, q11, fence, event, back, lapses>>

\* 50 ms for D3D11, two seconds or more for the others.
Expired ==
    /\ call.pc = "wait" /\ fence[call.fence] < call.value
    /\ May(IF call.fence = "d11" THEN "slow" ELSE "timeout")
    /\ call' = [call EXCEPT !.pc = call.otherwise]
    /\ UNCHANGED <<mode, q12, q11, fence, event, back, lapses>>

\* A fence reaches a value and sets the events registered for it.
Signalled(f, v) ==
    IF v = 0 THEN UNCHANGED <<fence, event>>
    ELSE /\ fence' = [fence EXCEPT ![f] = v]
         /\ event' = IF f = "native" THEN event
                     ELSE [event EXCEPT ![f].set = @ \/ \E a \in event[f].armed : a <= v,
                                        ![f].armed = {a \in @ : a > v}]

\* The value a submission signals: none if queue->Signal fails, the submitted
\* work running all the same.
Signals(v) == {v} \cup {0 : x \in Faults \cap {"signal"}}

\* process returns and the game's Present is queued behind all that was submitted; the
\* next frame is rendered behind it.
Return(c, ok, queue) ==
    /\ call' = [NoCall EXCEPT !.frame = c.frame]
    /\ q12' = Append(queue, [Work("present", "game", 0, c.frame) EXCEPT !.neural = ok])

\* An early return that leaves everything as it is.
Refused ==
    /\ call.pc = "refused"
    /\ Return(call, FALSE, q12)
    /\ UNCHANGED <<mode, q11, fence, event, back, lapses>>
=============================================================================
