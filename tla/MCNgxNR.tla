------------------------------- MODULE MCNgxNR -------------------------------
(* Instances of NgxNR for TLC.                                               *)
EXTENDS NgxNR

Every == [presents |-> 3, limits |-> {2}, modes |-> {"Synchronized", "Adaptive", "Asynchronous"}, passes |-> {1, 3},
          extents |-> {1}, masks |-> {TRUE},
          faults |-> {"initialize", "textures", "create", "refineCreate", "refine", "handover", "signal", "evaluate", "timeout"}]
Resizing == [Every EXCEPT !.extents = {1, 2}, !.passes = {2}, !.faults = {"refine", "handover", "timeout"}]
Simple == [Every EXCEPT !.presents = 4, !.modes = {"Asynchronous"}, !.passes = {1}, !.faults = {"timeout"}]

\* Every failure for three calls; three calls while the size changes; and four while the queue
\* limit goes up and down.
MCPlans == {Every, Resizing, [Simple EXCEPT !.limits = {1, 2}]}

\* Constraint: a behaviour is followed up to its first lapse.
Unlapsed == lapses = {}
=============================================================================
