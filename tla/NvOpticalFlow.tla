---------------------------- MODULE NvOpticalFlow ----------------------------
(***************************************************************************)
(* The hardware optical flow (nv_optical_flow.cpp): a session for one      *)
(* configuration and two input textures used in turns.                     *)
(***************************************************************************)
EXTENDS Integers

NotTried == <<>>
NoFlow == [ready |-> FALSE, tried |-> NotTried, have |-> FALSE, write |-> 1, previous |-> 1]

ResetFlow(nv) == [nv EXCEPT !.have = FALSE, !.write = 1, !.previous = 1]

\* shutdown leaves attempted_ as it is.
ShutdownFlow(nv) == ResetFlow([nv EXCEPT !.ready = FALSE])

\* A configuration is tried once: configure returns the ready session of the same
\* configuration, and does not try again one that failed.
Configured(nv, config, works) ==
    IF nv.tried = config THEN nv
    ELSE [ShutdownFlow(nv) EXCEPT !.ready = works, !.tried = config]

\* execute: the inputs change places whether or not the accelerator succeeds.
Executed(nv) == [nv EXCEPT !.have = TRUE, !.previous = nv.write, !.write = 3 - nv.write]
=============================================================================
