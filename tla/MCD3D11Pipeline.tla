--------------------------- MODULE MCD3D11Pipeline ---------------------------
(* Instances of D3D11Pipeline for TLC.                                         *)
EXTENDS D3D11Pipeline

Settings(motion, down, gap, mode) == [motion |-> motion, down |-> down, gap |-> gap, mode |-> mode]
MCSettings == {Settings("Auto", 2, TRUE, "InGameNR"), Settings("Auto", 8, FALSE, "ExternalHostNR"),
               Settings("Zero", 2, TRUE, "Passthrough")}
Found(depth, motion, camera) == [depth |-> depth, motion |-> motion, camera |-> camera]
MCStarts == {{"streamline", "ngx", "host"}, {"host"}, {}}
MCTrackers == {Found(FALSE, FALSE, FALSE), Found(TRUE, FALSE, TRUE), Found(FALSE, TRUE, FALSE)}
Supply(known, age, view, depth, motion, cut, source) ==
    [known |-> known, age |-> age, view |-> view, depth |-> depth, motion |-> motion, cut |-> cut, source |-> source]
MCSupplies == {Supply(TRUE, 0, 1, FALSE, TRUE, FALSE, "adapter"), Supply(FALSE, 0, 0, TRUE, FALSE, FALSE, "adapter"),
               Supply(FALSE, 0, 1, TRUE, TRUE, FALSE, "ngx"),
               Supply(TRUE, 1, 1, FALSE, TRUE, FALSE, "streamline"), Supply(FALSE, 0, 2, TRUE, FALSE, TRUE, "streamline")}
=============================================================================
