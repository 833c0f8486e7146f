-------------------------- MODULE RendererElection --------------------------
(***************************************************************************)
(* renderer_selection_policy.hpp: which of the attached processes executes *)
(* the neural path.  A candidate is what a bridge published of itself:     *)
(*   [pid, pixels, api, fps, root, neural, tick]                           *)
(* where neural stands for neuralActive and processing, which a bridge     *)
(* publishes together, and tick for lastTickMs.                            *)
(***************************************************************************)
EXTENDS Naturals, FiniteSets, Sequences

CONSTANT GraceMs    \* how old a status may be (2500 ms)

ASSUME GraceAssumption == GraceMs \in Nat

\* std::min and saturating subtraction.
Least(a, b) == IF a <= b THEN a ELSE b

rendererCandidateFresh(c, now) ==
  c.pid # 0 /\ c.pixels # 0 /\ c.tick # 0 /\ now >= c.tick /\ now - c.tick <= GraceMs

\* The preference of each graphics API, by its number in GraphicsApi.
ApiBonus(api) ==
  CASE api = 12   -> 1500000
    [] api = 11   -> 500000
    [] api = 4097 -> 350000    \* Vulkan
    [] api = 10   -> 300000
    [] api = 4096 -> 250000    \* OpenGL
    [] api = 9    -> 200000
    [] OTHER      -> 0

\* A helper that presents implausibly often loses up to a million points.
Penalised(score, fps) ==
  LET penalty == Least(1000000, (fps - 240) * 5000)
  IN  IF fps <= 240 THEN score ELSE IF score > penalty THEN score - penalty ELSE 1

rendererScore(c) ==
  LET pixels == Least(c.pixels, 16777216)
      score  == Penalised(pixels + ApiBonus(c.api) + (IF c.root THEN 600000 ELSE 0)
                            + (IF c.neural THEN 500000 ELSE 0), c.fps)
  IN  IF c.pid = 0 \/ c.pixels = 0 THEN 0
      ELSE IF pixels < 640 * 360 THEN score \div 2 ELSE score

\* What a challenger must exceed to replace an incumbent of this score.
Hysteresis(score) == score + score \div 4 + 250000

\* Mutant: the newest writer wins.
NewestWriter(candidates, incumbent, now) ==
  LET fresh  == {i \in DOMAIN candidates : rendererCandidateFresh(candidates[i], now)}
      newest == CHOOSE i \in fresh :
                  \A j \in fresh : candidates[j].tick < candidates[i].tick
                                 \/ (candidates[j].tick = candidates[i].tick /\ j <= i)
  IN  IF fresh = {} THEN 0 ELSE candidates[newest].pid

\* The winner among a sequence of candidates, 0 if none is fresh: the first of the
\* best, unless the incumbent (its last fresh entry) is within the hysteresis.
electPrimaryRenderer(candidates, incumbent, now) ==
  LET fresh   == {i \in DOMAIN candidates : rendererCandidateFresh(candidates[i], now)}
      score   == [i \in fresh |-> rendererScore(candidates[i])]
      best    == CHOOSE i \in fresh :
                   \A j \in fresh : score[j] < score[i] \/ (score[j] = score[i] /\ i <= j)
      mine    == {i \in fresh : candidates[i].pid = incumbent}
      current == CHOOSE i \in mine : \A j \in mine : j <= i
  IN  IF fresh = {} THEN 0
      ELSE IF mine # {} /\ score[best] <= Hysteresis(score[current]) THEN incumbent
      ELSE candidates[best].pid

=============================================================================
