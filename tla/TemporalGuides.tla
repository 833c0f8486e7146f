--------------------------- MODULE TemporalGuides ---------------------------
(***************************************************************************)
(* What the game supplies with a frame, and how guides of several          *)
(* providers become one (temporal_frame.hpp, D3D11GuideExtractor::probe,   *)
(* the head of D3D11Pipeline::process).                                    *)
(*                                                                         *)
(* A guide texture is <<f>>, f being the source frame its provider knows   *)
(* it to be of (0: the provider knows none), or <<>>: there is none.  The  *)
(* trackers' textures, which no provider dates, are Tracked.               *)
(***************************************************************************)
EXTENDS Integers, Sequences

Tracked == <<-1>>
UnknownTime == [frame |-> 0, view |-> 0, cut |-> FALSE]
NoGuide == [temporal |-> UnknownTime, depth |-> <<>>, motion |-> <<>>, cut |-> FALSE, source |-> "none"]
HasTexture(g) == g.depth # <<>> \/ g.motion # <<>>

Priority == [none |-> 0, tracker |-> 150, streamline |-> 350, ngx |-> 400, adapter |-> 500]
GuideSourcePriority(g) == Priority[g.source]

BothKnown(a, b) == a.frame # 0 /\ b.frame # 0

\* View 0 is any view.
TemporalFramesMatch(a, b) ==
    /\ a.view = b.view \/ a.view = 0 \/ b.view = 0
    /\ BothKnown(a, b) => a.frame = b.frame

\* Mutant: metadata of the wrong provider is believed.
KeptTime(t) == t

\* invalidateUnmatchedTemporalMetadata: a cut is all that is still believed.
Invalidated(t) == [t EXCEPT !.frame = 0]

TemporalDiscontinuity(previous, current) ==
    \/ current.cut
    \/ (previous.frame = 0) # (current.frame = 0)
    \/ previous.view # current.view
    \/ BothKnown(previous, current) /\ current.frame - previous.frame # 1

CanReusePresentedColorHistory(previous, current) == ~current.cut /\ previous.view = current.view

\* probe: the game's own adapter first, then what the game gave to DLSS or Streamline,
\* then the depth buffer the tracker follows.
Probe(adapter, captured, depthTracked) ==
    LET hadLocal == HasTexture(adapter)
        joins    == captured # NoGuide /\ (~hadLocal \/ TemporalFramesMatch(adapter.temporal, captured.temporal))
        depth    == IF joins /\ adapter.depth = <<>> THEN captured.depth ELSE adapter.depth
        motion   == IF joins /\ adapter.motion = <<>> THEN captured.motion ELSE adapter.motion
        adopted  == depth # adapter.depth \/ motion # adapter.motion
    IN [temporal |-> CASE joins /\ ~hadLocal -> captured.temporal
                       [] hadLocal /\ adopted /\ ~BothKnown(adapter.temporal, captured.temporal) ->
                             Invalidated(adapter.temporal)
                       [] OTHER -> adapter.temporal,
        depth |-> IF depth = <<>> /\ depthTracked THEN Tracked ELSE depth,
        motion |-> motion,
        cut |-> adapter.cut \/ (joins /\ captured.cut),
        source |-> IF depth = <<>> /\ depthTracked THEN "tracker"
                   ELSE IF adopted THEN captured.source ELSE adapter.source]

\* chooseTemporalGuideMerge and the merge it decides, external being the guide the
\* D3D12 pipelines bring along.
Merge(local, external) ==
    LET wins    == GuideSourcePriority(external) >= GuideSourcePriority(local)
        depth   == IF external.depth # <<>> /\ (local.depth = <<>> \/ wins) THEN external.depth ELSE local.depth
        motion  == IF external.motion # <<>> /\ (local.motion = <<>> \/ wins) THEN external.motion ELSE local.motion
        adopted == depth # local.depth \/ motion # local.motion
    IN CASE external = NoGuide -> local
         [] external # NoGuide /\ ~TemporalFramesMatch(local.temporal, external.temporal) -> IF wins THEN external ELSE local
         [] OTHER ->
              [temporal |-> IF ~adopted THEN local.temporal
                            ELSE IF HasTexture(local) /\ ~BothKnown(local.temporal, external.temporal)
                                 THEN Invalidated(external.temporal) ELSE external.temporal,
               depth |-> depth, motion |-> motion,
               cut |-> local.cut \/ external.cut,
               source |-> IF (depth # <<>> \/ motion # <<>>) /\ wins THEN external.source ELSE local.source]
=============================================================================
