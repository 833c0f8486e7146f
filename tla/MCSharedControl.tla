--------------------------- MODULE MCSharedControl ---------------------------
(***************************************************************************)
(* Instances of SharedControl for TLC.                                     *)
(***************************************************************************)
EXTENDS SharedControl, TLC

\* A small D3D11 helper window and the game's D3D12 window, as in
\* renderer_selection_policy_tests.cpp.
HelperAndGame ==
  (1 :> [pixels |-> 1076 * 560, api |-> 11, fps |-> 354, root |-> FALSE])
    @@ (2 :> [pixels |-> 1920 * 1080, api |-> 12, fps |-> 60, root |-> TRUE])

Presents(helper, game) == (1 :> helper) @@ (2 :> game)

\* Each scenario gives room to one kind of contention.
Scenarios ==
  { \* Both games read while settings are written.
    [settings |-> 1, presents |-> Presents(1, 1), polls |-> 0, ticks |-> 0, kills |-> 0],
    \* One game reads while settings are written again and again.
    [settings |-> 3, presents |-> Presents(0, 2), polls |-> 1, ticks |-> 0, kills |-> 0],
    \* Both publish while the controller reads the table; one may be killed, wherever
    \* it is.
    [settings |-> 0, presents |-> Presents(1, 2), polls |-> 1, ticks |-> 0, kills |-> 1],
    \* The lead changes ...
    [settings |-> 0, presents |-> Presents(2, 1), polls |-> 3, ticks |-> 1, kills |-> 0],
    \* ... and statuses go stale.
    [settings |-> 0, presents |-> Presents(1, 1), polls |-> 2, ticks |-> 2, kills |-> 0] }

=============================================================================
