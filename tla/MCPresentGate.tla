----------------------------- MODULE MCPresentGate -----------------------------
(***************************************************************************)
(* Instances of PresentGate for TLC.                                       *)
(***************************************************************************)
EXTENDS PresentGate, TLC

Mark(l, e, p) == [legacy |-> l, enhanced |-> e, present |-> p]
SomeMarks == {Mark(TRUE, FALSE, TRUE), Mark(TRUE, TRUE, TRUE), Mark(TRUE, FALSE, FALSE)}

Usual == [enabled |-> TRUE, elected |-> TRUE, reset |-> FALSE, secondary |-> FALSE, external |-> FALSE, on12 |-> TRUE]
SomeInputs == {Usual, [Usual EXCEPT !.enabled = FALSE], [Usual EXCEPT !.elected = FALSE, !.on12 = FALSE],
               [Usual EXCEPT !.external = TRUE, !.secondary = TRUE, !.reset = TRUE]}

Symmetry == Permutations(Threads) \cup Permutations(Queues)
=============================================================================
