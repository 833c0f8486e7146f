--------------------------- MODULE NeuralBackends ---------------------------
(***************************************************************************)
(* Which neural backend a pipeline runs (D3D11Pipeline::ensureBackend,     *)
(* InGameNR::initialize).  starts: the backends whose initialize succeeds  *)
(* at this moment.                                                         *)
(***************************************************************************)
EXTENDS Integers

BackendModes == {"InGameNR", "ExternalHostNR", "Passthrough"}
NoBackend == [kind |-> "none", mode |-> "Passthrough", fallback |-> FALSE, seen |-> 0]

\* InGameNR::initialize: Streamline if its files are there, then NGX unless the driver
\* is known to crash.
InGame(starts, risky) ==
    CASE "streamline" \in starts -> "streamline"
      [] "streamline" \notin starts /\ "ngx" \in starts /\ ~risky -> "ngx"
      [] OTHER -> "none"

Instance(kind, mode) == [kind |-> kind, mode |-> mode, fallback |-> FALSE, seen |-> 0]
Fallback(mode) == [kind |-> "passthrough", mode |-> mode, fallback |-> TRUE, seen |-> 0]

\* ensureBackend in the x64 bridge; forced: the D3D12 recovery route keeps the neural
\* work out of the game's process.
EnsureBackend(b, mode, forced, starts, risky) ==
    IF b.kind # "none" /\ b.mode = mode THEN b
    ELSE IF mode = "Passthrough" THEN Instance("passthrough", mode)
    ELSE IF mode = "InGameNR" /\ ~forced /\ InGame(starts, risky) # "none" THEN Instance(InGame(starts, risky), mode)
    ELSE IF "host" \in starts THEN Instance("host", mode) ELSE Fallback(mode)

IsNeuralEvaluation(b, mode, evaluated) == mode # "Passthrough" /\ ~b.fallback /\ evaluated
=============================================================================
