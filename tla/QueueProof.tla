------------------------------ MODULE QueueProof ------------------------------
(***************************************************************************)
(* Which queue presents a D3D12 swapchain: what is concluded from the      *)
(* queue it was created with and from barriers on its back buffers         *)
(* (present_queue_policy.hpp, d3d12_recovery_policy.hpp), and the route    *)
(* that follows (d3d12_route_policy.hpp).                                  *)
(*                                                                         *)
(* The proof that is inferred from barriers expires after five seconds in  *)
(* the code, which only decides what is logged: a route asks for a proof   *)
(* by creation, which does not expire, or for recovery's own evidence.     *)
(***************************************************************************)
EXTENDS Integers

None == "none"
NoProof == [candidate |-> None, trusted |-> None, count |-> 0, proven |-> FALSE]
NoEvidence == [candidate |-> None, score |-> 0, matches |-> 0, created |-> FALSE, seen |-> FALSE]

AtMost(bound, n) == IF n > bound THEN bound ELSE n

\* observePresentQueueEvidence of a barrier; two suffice, more are not counted here.
Observed(p, q) ==
    IF p.proven /\ p.trusted = q THEN p
    ELSE LET n == IF p.candidate = q THEN AtMost(2, p.count + 1) ELSE 1
         IN [p EXCEPT !.candidate = q, !.count = n,
                      !.trusted = IF n = 2 THEN q ELSE IF p.proven \/ @ = q THEN @ ELSE None]

\* ... and of the creation of the swapchain.
Proven(q) == [candidate |-> q, trusted |-> q, count |-> 2, proven |-> TRUE]

\* observeD3D12RecoveryEvidence of a barrier to or from PRESENT.
Scored(r, q) ==
    LET s == IF r.candidate = q THEN r ELSE [NoEvidence EXCEPT !.candidate = q]
    IN [s EXCEPT !.seen = TRUE, !.score = AtMost(100, @ + 45), !.matches = AtMost(2, @ + 1)]

\* ... and of the creation of the swapchain.
Created(r, q) ==
    [candidate |-> q, created |-> TRUE, score |-> 100, seen |-> TRUE,
     matches |-> IF r.candidate = q /\ r.matches > 1 THEN r.matches ELSE 1]

RecoveryTrusted(r) == r.created \/ (r.seen /\ r.matches >= 2 /\ r.score >= 80)

\* chooseD3D12Route; external: the settings ask for the external host.
NoRoute == [queue |-> None, recovery |-> TRUE]
Route(p, r, external) ==
    IF p.proven THEN [queue |-> p.trusted, recovery |-> external]
    ELSE IF RecoveryTrusted(r) THEN [queue |-> r.candidate, recovery |-> TRUE]
    ELSE NoRoute
=============================================================================
