----------------------------- MODULE MCD3D12On12 -----------------------------
(***************************************************************************)
(* Instances of D3D12On12 for TLC.                                         *)
(***************************************************************************)
EXTENDS D3D12On12

Both == {"depth", "motion"}
SomeCaptures == {[kind |-> "none", guides |-> {}], [kind |-> "snapshot", guides |-> Both],
                 [kind |-> "tagged", guides |-> {"depth"}]}
SomeDescs == {<<1, 1>>, <<2, 1>>}

\* View: fence values count from what the fence has reached, and what is written before it
\* is read again does not count.
Ahead(f, v) == IF v <= fence[f] THEN 0 ELSE v - fence[f]
FromNow(queue) == [i \in DOMAIN queue |-> [queue[i] EXCEPT !.signal = Ahead(FenceOf(queue[i].ctx), @)]]
Relative ==
    <<mode, IF call.pc = "wait" THEN [call EXCEPT !.value = Ahead(call.fence, @)]
            ELSE [call EXCEPT !.fence = "copy", !.value = 0, !.next = "idle", !.otherwise = "idle"],
      FromNow(q12), FromNow(q11), back, lapses, image, host, surface,
      IF call.pc = "idle" /\ ~\E i \in DOMAIN q12 : q12[i].op = "copyOut" THEN [color EXCEPT !.image = NoImage] ELSE color,
      [f \in DOMAIN event |-> <<event[f].set, {a - fence[f] : a \in event[f].armed}>>],
      [native EXCEPT !.value = Ahead("native", @), !.last = Ahead("native", @)],
      {[r EXCEPT !.target = Ahead("native", @)] : r \in retired},
      [c \in DOMAIN copies |-> Ahead("copy", copies[c])], [v \in DOMAIN d11 |-> Ahead("d11", d11[v])]>>

\* Constraint: a behaviour is followed up to its first lapse.
Unlapsed == lapses = {}
=============================================================================
