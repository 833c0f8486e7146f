--------------------------- MODULE MCNrHostSession ---------------------------
(***************************************************************************)
(* Instances of NrHostSession for TLC.                                     *)
(***************************************************************************)
EXTENDS NrHostSession, TLC

\* The textures are interchangeable: no definition names one of them.
TextureSymmetry == Permutations(Textures)

\* What a live session meets: expired waits, submissions that fail, and whatever
\* handing the textures over meets.
LiveFaults ==
  {"timeout", "signal", "evaluate", "hostSignal",
   "transfer", "import"}

\* What may leave somebody asleep, or a request unanswered.
StrandingFaults ==
  {"timeout", "signal", "openProcess",
   "hostSignal", "hostCrash", "bridgeCrash"}

\* What ends a session in which no wait expires.
FatalFaults ==
  {"device", "import", "create", "hostSignal", "hostCrash",
   "bridgeCrash"}

=============================================================================
