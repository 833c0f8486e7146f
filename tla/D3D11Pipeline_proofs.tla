------------------------- MODULE D3D11Pipeline_proofs -------------------------
(***************************************************************************)
(* Proofs about D3D11Pipeline, for any settings, sizes, guides, backends   *)
(* and failures, and any number of Presents.                               *)
(*                                                                         *)
(* The histories follow because each flag that allows one is set only by   *)
(* Evaluate, which is also what moves processed on, or dropped.  That a    *)
(* reset covers every gap needs two more facts: colour is never kept       *)
(* without a route (so that a change of route is noticed), and a backend   *)
(* that has seen another frame than the last it was not skipped at leaves  *)
(* force set, or was allowed to by the settings, or lost a reset that was  *)
(* due while it skipped.                                                   *)
(***************************************************************************)
EXTENDS D3D11Pipeline, TLAPS

Routes == {"AdapterNative", "TrackedNative", "CameraDepth", "Nvof", "Hlsl", "Zero"}
Sources == {"none", "tracker", "streamline", "ngx", "adapter"}
TimeType == [frame : Nat, view : Nat, cut : BOOLEAN]
TextureType == {<<>>, Tracked} \cup {<<f>> : f \in Nat}
GuideType == [temporal : TimeType, depth : TextureType, motion : TextureType, cut : BOOLEAN, source : Sources]
Pairs == {<<a, b>> : a \in Nat, b \in Nat}
Configurations == {NotTried} \cup Pairs

MemoryType == [color : BOOLEAN, low : BOOLEAN, routed : BOOLEAN, route : Routes, timed : BOOLEAN,
               temporal : TimeType, force : BOOLEAN]
ContentType == [color : Nat, low : Nat, inputs : [1..2 -> Nat]]
FlowType == [ready : BOOLEAN, tried : Configurations, have : BOOLEAN, write : {1, 2}, previous : {1, 2}]
Kinds == {"none", "passthrough", "streamline", "ngx", "host"}
BackendType == [kind : Kinds, mode : BackendModes, fallback : BOOLEAN, seen : Nat]
ResourceType == [extent : Nat, down : Nat]
ContinuityType == [base : Nat, lenient : BOOLEAN, swallowed : BOOLEAN]
PrepareType == [pc : {"prepare"}, settings : SettingsSet, extent : Extents, guide : GuideType, found : Trackers,
                nvof : BOOLEAN, down : Nat \ {0}]
MotionType == [pc : {"motion"}, settings : SettingsSet, temporal : TimeType, cut : BOOLEAN, depth : BOOLEAN,
               motion : BOOLEAN, found : Trackers, nvof : BOOLEAN]
EvaluateType == [pc : {"evaluate"}, settings : SettingsSet, temporal : TimeType, cut : BOOLEAN, route : Routes,
                 flow : Nat, weak : BOOLEAN]
CallType == {IdleCall} \cup PrepareType \cup MotionType \cup EvaluateType

Typed ==
    /\ frame \in Nat /\ processed \in Nat /\ resources \in ResourceType
    /\ memory \in MemoryType /\ content \in ContentType /\ nvof \in FlowType /\ backend \in BackendType
    /\ forced \in BOOLEAN /\ continuity \in ContinuityType
    /\ call \in CallType

\* The colour kept is that of the last processed Present, which had a motion route.
ColorFollows ==
    memory.color => content.color = processed /\ processed # 0 /\ resources.down # 0 /\ memory.routed

\* So is the reduced colour; Motion may choose another route before Evaluate drops it.
LowFollows == memory.low => content.low = processed /\ (call.pc # "evaluate" => memory.route = "Hlsl")

\* The accelerator's other input is the last Present's, or this one's once Motion is done.
FlowFollows ==
    nvof.have =>
        /\ nvof.ready /\ content.inputs[nvof.previous] # 0
        /\ memory.routed /\ memory.route = "Nvof" =>
             content.inputs[nvof.previous] = IF call.pc = "evaluate" THEN frame ELSE processed

\* What a call has found out and done is still so.
CallFits ==
    /\ call.pc # "idle" => frame # 0
    /\ call.pc \in {"prepare", "motion"} => (call.nvof => nvof.ready)
    /\ call.pc \in {"motion", "evaluate"} =>
         resources.extent # 0 /\ resources.down # 0 /\ backend.kind # "none"
    /\ call.pc = "evaluate" => memory.routed /\ memory.route = call.route

\* A flow that is measured from another Present than the last forces a reset.
FlowCovered ==
    call.pc = "evaluate" /\ call.settings.gap /\ memory.color /\ ~memory.force => call.flow \in {0, processed}

\* A backend has seen nothing, or the last Present it was not skipped at, or a reset is due
\* (or was, and is lost).
Covers(seen) == ~continuity.lenient /\ ~continuity.swallowed => seen \in {0, continuity.base}
Dormant(b) ==
    /\ b.kind \in {"none", "passthrough"} => b.seen = 0
    /\ b.kind = "passthrough" /\ b.mode # "Passthrough" => b.fallback
BackendCovered ==
    /\ Dormant(backend)
    /\ ~memory.force => Covers(backend.seen)
    /\ resources.extent = 0 => memory.force

\* Textures of a dated guide are of its frame.
OneFrame(g) ==
    g.temporal.frame # 0 => \A t \in {g.depth, g.motion} : t \in {<<>>, Tracked, <<g.temporal.frame>>}

IInv ==
    /\ Typed /\ ColorFollows /\ LowFollows /\ FlowFollows /\ CallFits /\ FlowCovered /\ BackendCovered
    /\ call.pc = "prepare" => OneFrame(call.guide)

-----------------------------------------------------------------------------
(* The values the state is made of.                                         *)

\* The values Init and the resets are made of have their types, and none keeps a history.
LEMMA StartValues ==
  /\ UnknownTime \in TimeType /\ NoMemory \in MemoryType /\ NoFlow \in FlowType
  /\ [color |-> 0, low |-> 0, inputs |-> <<0, 0>>] \in ContentType
  /\ NoBackend \in BackendType /\ Dormant(NoBackend)
  /\ IdleCall.pc = "idle" /\ IdleCall \in CallType
<1>1. UnknownTime \in TimeType
  BY DEF UnknownTime, TimeType
<1>2. NoMemory \in MemoryType
  BY <1>1 DEF NoMemory, MemoryType, Routes
<1>3. NoFlow \in FlowType
  <2>1. NotTried \in Configurations
    BY DEF Configurations
  <2> QED BY <2>1 DEF NoFlow, FlowType
<1>4. [color |-> 0, low |-> 0, inputs |-> <<0, 0>>] \in ContentType
  BY DEF ContentType
<1>5. NoBackend \in BackendType /\ Dormant(NoBackend)
  BY DEF NoBackend, BackendType, Kinds, BackendModes, Dormant
<1>6. IdleCall.pc = "idle" /\ IdleCall \in CallType
  BY DEF IdleCall, CallType
<1> QED BY <1>1, <1>2, <1>3, <1>4, <1>5, <1>6

-----------------------------------------------------------------------------
(* Guides.                                                                  *)

\* Having no guide is a guide of one frame.
LEMMA NoGuideFits == NoGuide \in GuideType /\ OneFrame(NoGuide)
<1>1. NoGuide \in GuideType
  BY StartValues DEF NoGuide, GuideType, TextureType, Sources
<1>2. OneFrame(NoGuide)
  BY DEF NoGuide, OneFrame
<1> QED BY <1>1, <1>2

\* What a source supplies is of the frame it says.
LEMMA SuppliedFits ==
  ASSUME NEW k \in Supplies, NEW n \in Nat, k.age < n
  PROVE  Supplied(k, n) \in GuideType /\ OneFrame(Supplied(k, n))
<1> DEFINE f == IF k.known THEN n - k.age ELSE 0
           time == [frame |-> f, view |-> k.view, cut |-> k.cut]
           depth == IF k.depth THEN <<f>> ELSE <<>>
           motion == IF k.motion THEN <<f>> ELSE <<>>
<1>1. k \in [known : BOOLEAN, age : Nat, view : Nat, depth : BOOLEAN, motion : BOOLEAN, cut : BOOLEAN,
             source : {"adapter", "ngx", "streamline"}]
  BY PipelineAssumption
<1>2. f \in Nat
  BY <1>1
<1>3. time \in TimeType /\ time.frame = f
  BY <1>1, <1>2 DEF TimeType
<1>4. depth \in TextureType /\ depth \in {<<>>, <<f>>}
  BY <1>2 DEF TextureType
<1>5. motion \in TextureType /\ motion \in {<<>>, <<f>>}
  BY <1>2 DEF TextureType
<1>6. Supplied(k, n) = [temporal |-> time, depth |-> depth, motion |-> motion, cut |-> k.cut, source |-> k.source]
  BY DEF Supplied
<1> HIDE DEF f, time, depth, motion
<1>7. k.cut \in BOOLEAN /\ k.source \in Sources
  BY <1>1 DEF Sources
<1>8. Supplied(k, n) \in GuideType
  BY <1>3, <1>4, <1>5, <1>6, <1>7 DEF GuideType
<1>9. OneFrame(Supplied(k, n))
  BY <1>3, <1>4, <1>5, <1>6 DEF OneFrame
<1> QED BY <1>8, <1>9

\* A time whose frame is not believed.
LEMMA InvalidatedFits ==
  ASSUME NEW t \in TimeType
  PROVE  Invalidated(t) \in TimeType /\ Invalidated(t).frame = 0
BY DEF Invalidated, TimeType

\* Two guides of one frame each join to a guide of one frame.
LEMMA ProbeFits ==
  ASSUME NEW a \in GuideType, OneFrame(a), NEW c \in GuideType, OneFrame(c), NEW tracked \in BOOLEAN
  PROVE  Probe(a, c, tracked) \in GuideType /\ OneFrame(Probe(a, c, tracked))
<1> DEFINE hadLocal == HasTexture(a)
           joins == c # NoGuide /\ (~hadLocal \/ TemporalFramesMatch(a.temporal, c.temporal))
           depth == IF joins /\ a.depth = <<>> THEN c.depth ELSE a.depth
           motion == IF joins /\ a.motion = <<>> THEN c.motion ELSE a.motion
           adopted == depth # a.depth \/ motion # a.motion
           time == CASE joins /\ ~hadLocal -> c.temporal
                     [] hadLocal /\ adopted /\ ~BothKnown(a.temporal, c.temporal) -> Invalidated(a.temporal)
                     [] OTHER -> a.temporal
           shown == IF depth = <<>> /\ tracked THEN Tracked ELSE depth
           cut == a.cut \/ (joins /\ c.cut)
           source == IF depth = <<>> /\ tracked THEN "tracker" ELSE IF adopted THEN c.source ELSE a.source
<1>1. Probe(a, c, tracked) = [temporal |-> time, depth |-> shown, motion |-> motion, cut |-> cut, source |-> source]
  BY Zenon DEF Probe
<1>2. /\ a.temporal \in TimeType /\ a.depth \in TextureType /\ a.motion \in TextureType /\ a.cut \in BOOLEAN /\ a.source \in Sources
      /\ c.temporal \in TimeType /\ c.depth \in TextureType /\ c.motion \in TextureType /\ c.cut \in BOOLEAN /\ c.source \in Sources
  BY DEF GuideType
<1>3. Invalidated(a.temporal) \in TimeType /\ Invalidated(a.temporal).frame = 0
  BY <1>2, InvalidatedFits
<1>4. time \in TimeType
  BY <1>2, <1>3, Zenon
<1>5. depth \in TextureType /\ motion \in TextureType /\ shown \in TextureType
  BY <1>2 DEF TextureType
<1>6. cut \in BOOLEAN /\ source \in Sources
  BY <1>2 DEF Sources
<1>7. ASSUME time.frame # 0
      PROVE  shown \in {<<>>, Tracked, <<time.frame>>} /\ motion \in {<<>>, Tracked, <<time.frame>>}
  <2>1. CASE joins /\ ~hadLocal
    <3>1. time = c.temporal
      BY <2>1
    <3>2. a.depth = <<>> /\ a.motion = <<>>
      BY <2>1 DEF HasTexture
    <3>3. depth = c.depth /\ motion = c.motion
      BY <2>1, <3>2
    <3>4. depth \in {<<>>, Tracked, <<time.frame>>} /\ motion \in {<<>>, Tracked, <<time.frame>>}
      BY <1>7, <3>1, <3>3 DEF OneFrame
    <3> QED BY <3>4
  <2>2. CASE ~(joins /\ ~hadLocal) /\ hadLocal /\ adopted /\ ~BothKnown(a.temporal, c.temporal)
    BY <1>3, <1>7, <2>2
  <2>3. CASE ~(joins /\ ~hadLocal) /\ ~(hadLocal /\ adopted /\ ~BothKnown(a.temporal, c.temporal))
    <3>1. time = a.temporal
      BY <2>3
    <3>2. CASE ~adopted
      <4>1. depth = a.depth /\ motion = a.motion
        BY <3>2
      <4>2. depth \in {<<>>, Tracked, <<time.frame>>} /\ motion \in {<<>>, Tracked, <<time.frame>>}
        BY <1>7, <3>1, <4>1 DEF OneFrame
      <4> QED BY <4>2
    <3>3. CASE adopted
      <4>1. joins
        BY <3>3
      <4>2. hadLocal /\ BothKnown(a.temporal, c.temporal)
        BY <2>3, <3>3, <4>1
      <4>3. c.temporal.frame = a.temporal.frame
        BY <4>1, <4>2 DEF TemporalFramesMatch, BothKnown
      <4>4. \A x \in {a.depth, a.motion, c.depth, c.motion} : x \in {<<>>, Tracked, <<time.frame>>}
        BY <1>7, <3>1, <4>3 DEF OneFrame
      <4>5. depth \in {<<>>, Tracked, <<time.frame>>} /\ motion \in {<<>>, Tracked, <<time.frame>>}
        BY <4>4
      <4> QED BY <4>5
    <3> QED BY <3>2, <3>3
  <2> QED BY <2>1, <2>2, <2>3
<1> HIDE DEF time, shown, motion, cut, source
<1>8. Probe(a, c, tracked) \in GuideType
  BY <1>1, <1>4, <1>5, <1>6 DEF GuideType
<1>9. OneFrame(Probe(a, c, tracked))
  BY <1>1, <1>7 DEF OneFrame
<1> QED BY <1>8, <1>9

\* Joining two providers' guides of one frame each keeps one frame: a texture adopted from
\* another frame takes the metadata with it.
LEMMA MergeFits ==
  ASSUME NEW a \in GuideType, OneFrame(a), NEW x \in GuideType, OneFrame(x)
  PROVE  Merge(a, x) \in GuideType /\ OneFrame(Merge(a, x))
<1> DEFINE wins == GuideSourcePriority(x) >= GuideSourcePriority(a)
           depth == IF x.depth # <<>> /\ (a.depth = <<>> \/ wins) THEN x.depth ELSE a.depth
           motion == IF x.motion # <<>> /\ (a.motion = <<>> \/ wins) THEN x.motion ELSE a.motion
           adopted == depth # a.depth \/ motion # a.motion
           time == IF ~adopted THEN a.temporal
                   ELSE IF HasTexture(a) /\ ~BothKnown(a.temporal, x.temporal)
                        THEN Invalidated(x.temporal) ELSE x.temporal
           cut == a.cut \/ x.cut
           source == IF (depth # <<>> \/ motion # <<>>) /\ wins THEN x.source ELSE a.source
           both == [temporal |-> time, depth |-> depth, motion |-> motion, cut |-> cut, source |-> source]
<1>1. \/ Merge(a, x) = a
      \/ Merge(a, x) = x
      \/ TemporalFramesMatch(a.temporal, x.temporal) /\ Merge(a, x) = both
  BY Zenon DEF Merge
<1>2. /\ a.temporal \in TimeType /\ a.depth \in TextureType /\ a.motion \in TextureType /\ a.cut \in BOOLEAN /\ a.source \in Sources
      /\ x.temporal \in TimeType /\ x.depth \in TextureType /\ x.motion \in TextureType /\ x.cut \in BOOLEAN /\ x.source \in Sources
  BY DEF GuideType
<1>3. CASE TemporalFramesMatch(a.temporal, x.temporal) /\ Merge(a, x) = both
  <2>1. Invalidated(x.temporal) \in TimeType /\ Invalidated(x.temporal).frame = 0
    BY <1>2, InvalidatedFits
  <2>2. time \in TimeType
    BY <1>2, <2>1
  <2>3. depth \in TextureType /\ motion \in TextureType
    BY <1>2
  <2>4. cut \in BOOLEAN /\ source \in Sources
    BY <1>2
  <2>5. ASSUME time.frame # 0
        PROVE  depth \in {<<>>, Tracked, <<time.frame>>} /\ motion \in {<<>>, Tracked, <<time.frame>>}
    <3>1. CASE ~adopted
      <4>1. time = a.temporal /\ depth = a.depth /\ motion = a.motion
        BY <3>1
      <4> QED BY <2>5, <4>1 DEF OneFrame
    <3>2. CASE adopted /\ ~HasTexture(a)
      <4>1. a.depth = <<>> /\ a.motion = <<>> /\ time = x.temporal
        BY <3>2 DEF HasTexture
      <4>2. depth \in {<<>>, x.depth} /\ motion \in {<<>>, x.motion}
        BY <4>1
      <4>3. x.depth \in {<<>>, Tracked, <<time.frame>>} /\ x.motion \in {<<>>, Tracked, <<time.frame>>}
        BY <2>5, <4>1 DEF OneFrame
      <4> HIDE DEF depth, motion, time
      <4> QED BY <4>2, <4>3
    <3>3. CASE adopted /\ HasTexture(a)
      <4>1. BothKnown(a.temporal, x.temporal) /\ time = x.temporal
        BY <2>1, <2>5, <3>3
      <4>2. a.temporal.frame = time.frame /\ a.temporal.frame # 0
        BY <1>3, <4>1 DEF TemporalFramesMatch, BothKnown
      <4>3. \A y \in {a.depth, a.motion, x.depth, x.motion} : y \in {<<>>, Tracked, <<time.frame>>}
        BY <2>5, <4>1, <4>2 DEF OneFrame
      <4>4. depth \in {a.depth, x.depth} /\ motion \in {a.motion, x.motion}
        OBVIOUS
      <4> HIDE DEF depth, motion, time
      <4> QED BY <4>3, <4>4
    <3> QED BY <3>1, <3>2, <3>3
  <2> HIDE DEF time, depth, motion, cut, source
  <2>6. both \in GuideType
    BY <2>2, <2>3, <2>4 DEF GuideType
  <2>7. OneFrame(both)
    BY <2>5 DEF OneFrame
  <2> QED BY <1>3, <2>6, <2>7
<1> QED BY <1>1, <1>3

\* Every guide a Present may come with is of one frame.
LEMMA MergedFits ==
  ASSUME NEW n \in 1..MaxPresents, NEW t \in Trackers, NEW g \in MergedGuides[n][t]
  PROVE  g \in GuideType /\ OneFrame(g)
<1>1. ASSUME NEW source, NEW x \in Guides(source, n)
      PROVE  x \in GuideType /\ OneFrame(x)
  <2>1. CASE x = NoGuide
    BY <2>1, NoGuideFits
  <2>2. CASE x # NoGuide
    <3>1. PICK k \in Supplies : k.age < n /\ x = Supplied(k, n)
      BY <2>2, <1>1 DEF Guides
    <3>2. n \in Nat
      OBVIOUS
    <3> QED BY <3>1, <3>2, SuppliedFits
  <2> QED BY <2>1, <2>2
<1>2. PICK a \in Guides("adapter", n), c \in Guides("ngx", n), x \in Guides("streamline", n) :
         g = Merge(Probe(a, c, t.depth), x)
  BY DEF MergedGuides
<1>3. t.depth \in BOOLEAN
  BY PipelineAssumption
<1>4. Probe(a, c, t.depth) \in GuideType /\ OneFrame(Probe(a, c, t.depth))
  BY <1>1, <1>3, ProbeFits
<1> QED BY <1>1, <1>2, <1>4, MergeFits

-----------------------------------------------------------------------------
(* Optical flow, backends, routes.                                          *)

\* Resetting or shutting the accelerator down drops its other input; executing swaps the two.
LEMMA FlowKeepsType ==
  ASSUME NEW nv \in FlowType
  PROVE  /\ ResetFlow(nv) \in FlowType /\ ~ResetFlow(nv).have /\ ResetFlow(nv).ready = nv.ready
         /\ ShutdownFlow(nv) \in FlowType /\ ~ShutdownFlow(nv).have
         /\ Executed(nv) \in FlowType /\ Executed(nv).previous = nv.write /\ Executed(nv).ready = nv.ready
<1>1. ResetFlow(nv) \in FlowType /\ ~ResetFlow(nv).have /\ ResetFlow(nv).ready = nv.ready
  BY DEF ResetFlow, FlowType
<1>2. ShutdownFlow(nv) \in FlowType /\ ~ShutdownFlow(nv).have
  BY DEF ShutdownFlow, ResetFlow, FlowType
<1>3. Executed(nv) \in FlowType /\ Executed(nv).previous = nv.write /\ Executed(nv).ready = nv.ready
  <2>1. 3 - nv.write \in {1, 2}
    BY DEF FlowType
  <2>2. Executed(nv) \in FlowType
    BY <2>1 DEF Executed, FlowType
  <2>3. Executed(nv).previous = nv.write
    BY DEF Executed, FlowType
  <2>4. Executed(nv).ready = nv.ready
    BY DEF Executed, FlowType
  <2> QED BY <2>2, <2>3, <2>4
<1> QED BY <1>1, <1>2, <1>3

\* A configuration that keeps its history was the one in use.
LEMMA ConfiguredKeeps ==
  ASSUME NEW nv \in FlowType, NEW config \in Configurations, NEW works \in BOOLEAN
  PROVE  /\ Configured(nv, config, works) \in FlowType
         /\ Configured(nv, config, works).have => Configured(nv, config, works) = nv
<1>1. CASE nv.tried = config
  BY <1>1 DEF Configured
<1>2. CASE nv.tried # config
  <2>1. Configured(nv, config, works) = [ShutdownFlow(nv) EXCEPT !.ready = works, !.tried = config]
    BY <1>2 DEF Configured
  <2>2. ShutdownFlow(nv) \in FlowType /\ ~ShutdownFlow(nv).have
    BY FlowKeepsType
  <2> QED BY <2>1, <2>2 DEF FlowType
<1> QED BY <1>1, <1>2

\* e is a backend of this mode, with b's history or none.
Ensured(b, e, mode) ==
    /\ e \in BackendType /\ Dormant(e) /\ e.mode = mode /\ e.kind # "none" /\ e.seen \in {0, b.seen}

\* ensureBackend leaves one, whether it keeps the old backend or starts another.
LEMMA EnsuredFits ==
  ASSUME NEW b \in BackendType, Dormant(b), NEW mode \in BackendModes, NEW forces \in BOOLEAN,
         NEW starts, NEW risky \in BOOLEAN
  PROVE  Ensured(b, EnsureBackend(b, mode, forces, starts, risky), mode)
<1> DEFINE kind == InGame(starts, risky)
           e == EnsureBackend(b, mode, forces, starts, risky)
<1> SUFFICES e \in BackendType /\ Dormant(e) /\ e.mode = mode /\ e.kind # "none" /\ e.seen \in {0, b.seen}
  BY Zenon DEF Ensured
<1>1. kind \in {"streamline", "ngx", "none"}
  BY Zenon DEF InGame
<1>2. \/ e = b /\ b.kind # "none" /\ b.mode = mode
      \/ e = Instance("passthrough", mode) /\ mode = "Passthrough"
      \/ e = Instance(kind, mode) /\ kind # "none"
      \/ e = Instance("host", mode)
      \/ e = Fallback(mode)
  BY Zenon DEF EnsureBackend
<1>3. b.seen \in Nat
  BY DEF BackendType
<1> HIDE DEF e, kind
<1>4. \A k \in Kinds, f \in BOOLEAN : [kind |-> k, mode |-> mode, fallback |-> f, seen |-> 0] \in BackendType
  BY DEF BackendType
<1>5. CASE e = b /\ b.kind # "none" /\ b.mode = mode
  BY <1>3, <1>5 DEF Dormant
<1>6. CASE e = Instance("passthrough", mode) /\ mode = "Passthrough"
  <2>1. e = [kind |-> "passthrough", mode |-> mode, fallback |-> FALSE, seen |-> 0]
    BY <1>6 DEF Instance
  <2>2. e \in BackendType
    BY <1>4, <2>1 DEF Kinds
  <2>3. e.kind = "passthrough" /\ e.mode = mode /\ e.fallback = FALSE /\ e.seen = 0
    BY <2>1
  <2> QED BY <1>6, <2>2, <2>3 DEF Dormant
<1>7. CASE e = Instance(kind, mode) /\ kind # "none"
  <2>0. kind \in {"streamline", "ngx"}
    BY <1>1, <1>7
  <2>1. e = [kind |-> kind, mode |-> mode, fallback |-> FALSE, seen |-> 0]
    BY <1>7 DEF Instance
  <2>2. e \in BackendType
    BY <1>4, <2>1, <2>0 DEF Kinds
  <2>3. e.kind = kind /\ e.mode = mode /\ e.fallback = FALSE /\ e.seen = 0
    BY <2>1
  <2> QED BY <1>7, <2>2, <2>3, <2>0 DEF Dormant
<1>8. CASE e = Instance("host", mode)
  <2>1. e = [kind |-> "host", mode |-> mode, fallback |-> FALSE, seen |-> 0]
    BY <1>8 DEF Instance
  <2>2. e \in BackendType
    BY <1>4, <2>1 DEF Kinds
  <2>3. e.kind = "host" /\ e.mode = mode /\ e.fallback = FALSE /\ e.seen = 0
    BY <2>1
  <2> QED BY <1>8, <2>2, <2>3 DEF Dormant
<1>9. CASE e = Fallback(mode)
  <2>1. e = [kind |-> "passthrough", mode |-> mode, fallback |-> TRUE, seen |-> 0]
    BY <1>9 DEF Fallback
  <2>2. e \in BackendType
    BY <1>4, <2>1 DEF Kinds
  <2>3. e.kind = "passthrough" /\ e.mode = mode /\ e.fallback = TRUE /\ e.seen = 0
    BY <2>1
  <2> QED BY <1>9, <2>2, <2>3 DEF Dormant
<1> QED BY <1>2, <1>5, <1>6, <1>7, <1>8, <1>9

\* The route chosen is one of those available.
LEMMA ChosenIsAvailable ==
  ASSUME NEW available
  PROVE  /\ ChooseMotionRoute(available) \in Routes
         /\ ChooseMotionRoute(available) = "Nvof" => "Nvof" \in available
<1> DEFINE order == <<"AdapterNative", "TrackedNative", "CameraDepth", "Nvof", "Hlsl">>
           usable == {k \in 1..5 : order[k] \in available}
           first == CHOOSE k \in usable : \A j \in usable : k <= j
<1>1. ChooseMotionRoute(available) = IF usable = {} THEN "Zero" ELSE order[first]
  BY Zenon DEF ChooseMotionRoute
<1>2. ASSUME usable # {}
      PROVE  first \in 1..5 /\ order[first] \in available
  <2>1. \E k \in usable : \A j \in usable : k <= j
    BY <1>2
  <2>2. first \in usable
    BY <2>1
  <2> QED BY <2>2
<1>3. \A k \in 1..5 : order[k] \in Routes
  BY DEF Routes
<1>4. CASE usable = {}
  BY <1>1, <1>4 DEF Routes
<1>5. CASE usable # {}
  <2> HIDE DEF first, usable, order
  <2> QED BY <1>1, <1>2, <1>3, <1>5
<1> QED BY <1>4, <1>5

\* The route taken without native motion uses the accelerator only where it is available.
LEMMA FallbackIsAvailable ==
  ASSUME NEW source, NEW nvofAvailable \in BOOLEAN
  PROVE  /\ FallbackMotionRoute(source, nvofAvailable) \in {"Nvof", "Hlsl", "Zero"}
         /\ FallbackMotionRoute(source, nvofAvailable) = "Nvof" => nvofAvailable
BY Zenon DEF FallbackMotionRoute

\* The hardware flow is a Present's route only if it was configured for it.
LEMMA RouteIsAvailable ==
  ASSUME NEW s \in SettingsSet, NEW viewOk \in BOOLEAN, NEW cameraReady \in BOOLEAN, call.nvof \in BOOLEAN
  PROVE  LET route == RouteWithView(WantedRoute(s, cameraReady), viewOk, s, cameraReady)
         IN route \in Routes /\ (route = "Nvof" => call.nvof)
<1> DEFINE wanted == WantedRoute(s, cameraReady)
           native == IF s.motion # "Auto" THEN {}
                     ELSE (IF call.motion THEN {"AdapterNative"} ELSE {})
                          \cup (IF call.found.motion THEN {"TrackedNative"} ELSE {})
                          \cup (IF cameraReady THEN {"CameraDepth"} ELSE {})
           available == native \cup (IF call.nvof THEN {"Nvof"} ELSE {}) \cup {"Hlsl"}
<1>1. wanted = IF s.motion = "Zero" THEN "Zero" ELSE ChooseMotionRoute(available)
  BY DEF WantedRoute
<1>2. "Nvof" \in available => call.nvof
  OBVIOUS
<1> HIDE DEF available, wanted
<1>3. wanted \in Routes /\ (wanted = "Nvof" => call.nvof)
  <2>1. "Zero" \in Routes
    BY DEF Routes
  <2> QED BY <1>1, <1>2, <2>1, ChosenIsAvailable
<1>4. RouteWithView(wanted, viewOk, s, cameraReady) \in {wanted, "CameraDepth", FallbackMotionRoute(s.motion, call.nvof)}
  BY DEF RouteWithView
<1>5. RouteWithView(wanted, viewOk, s, cameraReady) \in Routes
      /\ (RouteWithView(wanted, viewOk, s, cameraReady) = "Nvof" => call.nvof)
  BY <1>3, <1>4, FallbackIsAvailable DEF Routes
<1> QED BY <1>5 DEF wanted

-----------------------------------------------------------------------------
(* The steps.                                                               *)

\* The place a call has reached fixes its fields.
LEMMA CallShape ==
  ASSUME call \in CallType
  PROVE  /\ call.pc = "prepare" => call \in PrepareType
         /\ call.pc = "motion" => call \in MotionType
         /\ call.pc = "evaluate" => call \in EvaluateType
         /\ call.pc \in {"idle", "prepare", "motion", "evaluate"}
BY StartValues DEF CallType, PrepareType, MotionType, EvaluateType

\* A pipeline that remembers nothing allows no history and forces a reset.
LEMMA NoMemoryFields ==
  ~NoMemory.color /\ ~NoMemory.low /\ ~NoMemory.routed /\ NoMemory.force
BY DEF NoMemory

\* A new pipeline satisfies the invariant.
LEMMA Initially == Init => IInv
<1> SUFFICES ASSUME Init PROVE IInv
  OBVIOUS
<1> USE DEF Init
<1>1. Typed
  <2>1. resources \in ResourceType
    BY DEF ResourceType
  <2>2. continuity \in ContinuityType
    BY DEF NoGap, ContinuityType
  <2> QED BY <2>1, <2>2, StartValues DEF Typed
<1>2. ColorFollows /\ LowFollows
  BY NoMemoryFields DEF ColorFollows, LowFollows
<1>3. FlowFollows
  BY DEF FlowFollows, NoFlow
<1>4. call.pc = "idle"
  BY StartValues
<1>5. CallFits /\ FlowCovered
  BY <1>4 DEF CallFits, FlowCovered
<1>6. BackendCovered
  BY StartValues, NoMemoryFields DEF BackendCovered, Covers
<1> QED BY <1>1, <1>2, <1>3, <1>4, <1>5, <1>6 DEF IInv

\* A step that ends a call, or is taken between two, and drops every history.
LEMMA DroppedKeeps ==
  ASSUME IInv, memory' = NoMemory, content' = [color |-> 0, low |-> 0, inputs |-> <<0, 0>>],
         nvof' \in FlowType, ~nvof'.have, backend' \in BackendType, Dormant(backend'),
         resources' \in ResourceType, frame' \in Nat, call' = IdleCall, UNCHANGED <<processed, forced, continuity>>
  PROVE  IInv'
<1> USE DEF IInv
<1>1. Typed'
  BY StartValues DEF Typed
<1>2. ColorFollows' /\ LowFollows' /\ FlowFollows'
  BY NoMemoryFields DEF ColorFollows, LowFollows, FlowFollows
<1>3. call'.pc = "idle"
  BY StartValues
<1>4. CallFits' /\ FlowCovered'
  BY <1>3 DEF CallFits, FlowCovered
<1>5. BackendCovered'
  BY NoMemoryFields DEF BackendCovered, Covers
<1> QED BY <1>1, <1>2, <1>3, <1>4, <1>5

\* What releaseViews leaves.
LEMMA ReleasedFits ==
  ASSUME Typed, ReleaseViews
  PROVE  /\ memory' = NoMemory /\ content' = [color |-> 0, low |-> 0, inputs |-> <<0, 0>>]
         /\ nvof' \in FlowType /\ ~nvof'.have /\ nvof'.ready = nvof.ready
BY FlowKeepsType DEF Typed, ReleaseViews

\* ensureResources fails: everything kept was dropped first.
LEMMA PrepareFailsKeeps == IInv /\ PrepareFails => IInv'
<1> SUFFICES ASSUME IInv, PrepareFails PROVE IInv'
  OBVIOUS
<1>1. call \in PrepareType
  BY CallShape DEF IInv, Typed, PrepareFails
<1>2. resources' \in ResourceType
  <2>1. call.extent \in Nat
    BY <1>1, PipelineAssumption DEF PrepareType
  <2>2. call.down \in Nat
    BY <1>1 DEF PrepareType
  <2> QED BY <2>1, <2>2 DEF PrepareFails, ResourceType
<1>3. /\ memory' = NoMemory /\ content' = [color |-> 0, low |-> 0, inputs |-> <<0, 0>>]
      /\ nvof' \in FlowType /\ ~nvof'.have
  BY ReleasedFits DEF IInv, PrepareFails
<1>4. backend' \in BackendType /\ Dormant(backend') /\ frame' \in Nat
  BY DEF IInv, Typed, BackendCovered, Covers, PrepareFails, Dormant
<1>5. call' = IdleCall /\ UNCHANGED <<processed, forced, continuity>>
  BY DEF PrepareFails
<1> QED BY <1>2, <1>3, <1>4, <1>5, DroppedKeeps

\* reset: everything kept is dropped with the backend.
LEMMA ResetKeeps == IInv /\ Reset => IInv'
<1> SUFFICES ASSUME IInv, Reset PROVE IInv'
  OBVIOUS
<1>1. resources' \in ResourceType
  BY DEF Reset, ResourceType
<1>2. /\ memory' = NoMemory /\ content' = [color |-> 0, low |-> 0, inputs |-> <<0, 0>>]
      /\ nvof' \in FlowType /\ ~nvof'.have
  BY ReleasedFits DEF IInv, Reset
<1>3. backend' \in BackendType /\ Dormant(backend')
  <2>1. backend \in BackendType /\ Dormant(backend)
    BY DEF IInv, Typed, BackendCovered, Covers
  <2>2. backend' = [backend EXCEPT !.seen = 0]
    BY DEF Reset
  <2> QED BY <2>1, <2>2 DEF BackendType, Dormant
<1>4. call' = IdleCall
  BY CallShape DEF IInv, Typed, Reset, CallType, PrepareType, MotionType, EvaluateType
<1>5. frame' \in Nat /\ UNCHANGED <<processed, forced, continuity>>
  BY DEF IInv, Typed, Reset
<1> QED BY <1>1, <1>2, <1>3, <1>4, <1>5, DroppedKeeps

\* A Present that is passed over between two calls.
LEMMA PassOverKeeps == IInv /\ PassOver => IInv'
<1> SUFFICES ASSUME IInv, PassOver PROVE IInv'
  OBVIOUS
<1> USE DEF IInv, PassOver
<1>1. Typed'
  BY DEF Typed
<1>2. ColorFollows' /\ LowFollows' /\ FlowFollows'
  BY DEF ColorFollows, LowFollows, FlowFollows
<1>3. CallFits' /\ FlowCovered' /\ BackendCovered'
  BY DEF CallFits, FlowCovered, BackendCovered, Covers, Dormant
<1> QED BY <1>1, <1>2, <1>3

\* retryNeural: the backend goes, a reset is forced, the histories stay.
LEMMA RetryKeeps == IInv /\ RetryNeural => IInv'
<1> SUFFICES ASSUME IInv, RetryNeural PROVE IInv'
  OBVIOUS
<1> USE DEF IInv, RetryNeural
<1>1. /\ memory' \in MemoryType /\ memory'.force
      /\ memory'.color = memory.color /\ memory'.low = memory.low /\ memory'.routed = memory.routed /\ memory'.route = memory.route
  BY DEF Typed, MemoryType
<1>2. Typed'
  BY <1>1, StartValues DEF Typed
<1>3. ColorFollows' /\ LowFollows' /\ FlowFollows'
  BY <1>1 DEF ColorFollows, LowFollows, FlowFollows
<1>4. CallFits' /\ FlowCovered'
  BY DEF CallFits, FlowCovered
<1>5. BackendCovered'
  BY <1>1, StartValues DEF BackendCovered, Covers
<1> QED BY <1>2, <1>3, <1>4, <1>5

\* setForceExternalHost: the backend goes when the choice changes.
LEMMA ForceKeeps == ASSUME NEW value \in BOOLEAN PROVE IInv /\ SetForceExternalHost(value) => IInv'
<1> SUFFICES ASSUME IInv, SetForceExternalHost(value) PROVE IInv'
  OBVIOUS
<1> USE DEF IInv, SetForceExternalHost
<1>1. Typed'
  BY StartValues DEF Typed
<1>2. ColorFollows' /\ LowFollows' /\ FlowFollows'
  BY DEF ColorFollows, LowFollows, FlowFollows
<1>3. CallFits' /\ FlowCovered'
  BY DEF CallFits, FlowCovered
<1>4. BackendCovered'
  BY StartValues DEF BackendCovered, Covers, NoBackend
<1> QED BY <1>1, <1>2, <1>3, <1>4

\* A natively processed Present drops the histories and keeps at most the backend.
LEMMA NativelyKeeps == ASSUME NEW starts PROVE IInv /\ ProcessNatively(starts) => IInv'
<1> SUFFICES ASSUME IInv, ProcessNatively(starts) PROVE IInv'
  OBVIOUS
<1> DEFINE b == EnsureBackend(backend, "ExternalHostNR", forced, starts, FALSE)
<1>1. b \in BackendType /\ Dormant(b) /\ b.mode = "ExternalHostNR" /\ b.kind # "none" /\ b.seen \in {0, backend.seen}
  <2>1. backend \in BackendType /\ Dormant(backend) /\ forced \in BOOLEAN
    BY DEF IInv, Typed, BackendCovered, Covers
  <2>2. "ExternalHostNR" \in BackendModes
    BY DEF BackendModes
  <2>3. FALSE \in BOOLEAN
    OBVIOUS
  <2>4. Ensured(backend, b, "ExternalHostNR")
    BY <2>1, <2>2, <2>3, EnsuredFits, Zenon
  <2> HIDE DEF b
  <2> QED BY <2>4 DEF Ensured
<1>2. /\ call.pc = "idle" /\ call' = call /\ frame' = frame + 1 /\ UNCHANGED <<processed, forced, continuity>>
      /\ \/ b.fallback /\ backend' = b /\ UNCHANGED <<resources, memory, content, nvof>>
         \/ ~b.fallback /\ backend' = [b EXCEPT !.seen = frame + 1] /\ SuspendForNative
  BY Zenon DEF ProcessNatively
<1>3. frame' \in Nat
  BY <1>2 DEF IInv, Typed
<1>4. call' = IdleCall
  BY <1>2, CallShape DEF IInv, Typed, CallType, PrepareType, MotionType, EvaluateType
<1> HIDE DEF b
<1>5. ASSUME backend' \in BackendType, Dormant(backend'), UNCHANGED <<resources, memory, content, nvof>>,
             ~memory.force => Covers(backend'.seen)
      PROVE  IInv'
  <2>1. Typed'
    BY <1>2, <1>3, <1>5 DEF IInv, Typed
  <2>2. ColorFollows' /\ LowFollows' /\ FlowFollows'
    BY <1>2, <1>5 DEF IInv, ColorFollows, LowFollows, FlowFollows
  <2>3. CallFits' /\ FlowCovered'
    BY <1>2, <1>5 DEF IInv, CallFits, FlowCovered
  <2>4. BackendCovered'
    BY <1>2, <1>5 DEF IInv, BackendCovered, Covers
  <2> QED BY <1>2, <2>1, <2>2, <2>3, <2>4 DEF IInv
<1>6. CASE b.fallback /\ backend' = b /\ UNCHANGED <<resources, memory, content, nvof>>
  <2>1. ~memory.force => Covers(backend'.seen)
    BY <1>1, <1>6 DEF IInv, BackendCovered, Covers
  <2> QED BY <1>1, <1>5, <1>6, <2>1
<1>7. CASE ~b.fallback /\ backend' = [b EXCEPT !.seen = frame + 1] /\ SuspendForNative
  <2>1. b.kind \notin {"none", "passthrough"}
    BY <1>1, <1>7 DEF Dormant
  <2>2. backend' \in BackendType /\ Dormant(backend')
    <3>1. frame + 1 \in Nat
      BY DEF IInv, Typed
    <3> QED BY <1>1, <1>7, <2>1, <3>1 DEF BackendType, Dormant
  <2>3. CASE resources.extent = 0
    <3>1. memory.force
      BY <2>3 DEF IInv, BackendCovered, Covers
    <3>2. UNCHANGED <<resources, memory, content, nvof>>
      BY <1>7, <2>3 DEF SuspendForNative
    <3> QED BY <1>5, <2>2, <3>1, <3>2
  <2>4. CASE resources.extent # 0
    <3>1. /\ resources' = [extent |-> 0, down |-> 0] /\ memory' = NoMemory
          /\ content' = [color |-> 0, low |-> 0, inputs |-> <<0, 0>>] /\ nvof' = ShutdownFlow(nvof)
      BY <1>7, <2>4 DEF SuspendForNative
    <3>2. nvof' \in FlowType /\ ~nvof'.have
      BY <3>1, FlowKeepsType DEF IInv, Typed
    <3>3. resources' \in ResourceType
      BY <3>1 DEF ResourceType
    <3> QED BY <1>2, <1>3, <1>4, <2>2, <3>1, <3>2, <3>3, DroppedKeeps
  <2> QED BY <2>3, <2>4
<1> QED BY <1>2, <1>6, <1>7

\* A discontinuity drops histories and what they show; nothing else is touched.
LEMMA GatherKeeps ==
  ASSUME NEW n \in 1..MaxPresents, n = frame + 1, NEW t \in Trackers, NEW g \in MergedGuides[n][t],
         NEW s \in SettingsSet, NEW extent \in Extents, IInv, Gather(s, extent, g, t)
  PROVE  IInv'
<1> DEFINE breaks == memory.timed /\ TemporalDiscontinuity(memory.temporal, g.temporal)
           keeps == CanReusePresentedColorHistory(memory.temporal, g.temporal)
           flow == IF breaks THEN ResetFlow(nvof) ELSE nvof
           asked == s.motion # "Zero" /\ ~PredictedNative(s, g, t)
           config == <<extent, Grid(s)>>
           flowNow == IF asked THEN Configured(flow, config, NvofHardware) ELSE flow
           next == [pc |-> "prepare", settings |-> s, extent |-> extent, guide |-> g, found |-> t,
                    nvof |-> asked /\ flowNow.ready,
                    down |-> IF asked /\ flowNow.ready THEN Grid(s) ELSE s.down]
           left == [memory EXCEPT !.force = TRUE, !.color = @ /\ keeps, !.low = FALSE]
<1>1. /\ call.pc = "idle" /\ frame' = frame + 1
      /\ memory' = IF ~breaks THEN memory ELSE left
      /\ nvof' = flowNow
      /\ content' = [content EXCEPT !.inputs = FlowInputs(flowNow), !.color = IF memory'.color THEN @ ELSE 0,
                                    !.low = IF memory'.low THEN @ ELSE 0]
      /\ call' = next
      /\ UNCHANGED <<processed, resources, backend, forced, continuity>>
  BY Zenon DEF Gather
<1>2. /\ frame \in Nat /\ memory \in MemoryType /\ content \in ContentType /\ nvof \in FlowType
      /\ g \in GuideType /\ OneFrame(g)
  BY MergedFits DEF IInv, Typed
<1>3. s.down \in Nat \ {0} /\ Grid(s) \in Nat \ {0} /\ extent \in Nat
  <2>1. s.down \in Nat \ {0}
    BY PipelineAssumption
  <2> QED BY <2>1, PipelineAssumption DEF Grid
<1>4. flowNow \in FlowType /\ (flowNow.have => flowNow = nvof)
  <2>1. flow \in FlowType /\ (flow.have => flow = nvof)
    BY <1>2, FlowKeepsType
  <2>2. config \in Configurations
    BY <1>3 DEF Configurations, Pairs
  <2>3. NvofHardware \in BOOLEAN
    BY PipelineAssumption
  <2> HIDE DEF flow, config
  <2>4. /\ Configured(flow, config, NvofHardware) \in FlowType
        /\ Configured(flow, config, NvofHardware).have => Configured(flow, config, NvofHardware) = flow
    BY <2>1, <2>2, <2>3, ConfiguredKeeps
  <2> QED BY <2>1, <2>4
<1>5. asked \in BOOLEAN
  OBVIOUS
<1> HIDE DEF flowNow, flow, config, asked
<1>6. call' \in PrepareType /\ call'.pc = "prepare" /\ call'.guide = g /\ (call'.nvof => flowNow.ready)
  <2>1. flowNow.ready \in BOOLEAN
    BY <1>4 DEF FlowType
  <2>2. next \in PrepareType
    BY <1>2, <1>3, <1>5, <2>1 DEF PrepareType
  <2>3. next.pc = "prepare" /\ next.guide = g /\ next.nvof = (asked /\ flowNow.ready)
    OBVIOUS
  <2> HIDE DEF next
  <2> QED BY <1>1, <2>2, <2>3
<1>7. /\ memory' \in MemoryType /\ (memory.force => memory'.force)
      /\ (memory'.color => memory.color) /\ (memory'.low => memory.low)
      /\ memory'.routed = memory.routed /\ memory'.route = memory.route
  <2>1. keeps \in BOOLEAN
    BY DEF CanReusePresentedColorHistory
  <2> HIDE DEF keeps, breaks
  <2>2. left \in MemoryType /\ left.force /\ (left.color => memory.color) /\ ~left.low
        /\ left.routed = memory.routed /\ left.route = memory.route
    BY <1>2, <2>1 DEF MemoryType
  <2> HIDE DEF left
  <2> QED BY <1>1, <1>2, <2>2
<1> HIDE DEF next, left, keeps, breaks
<1>8. /\ content' \in ContentType
      /\ memory'.color => content'.color = content.color
      /\ memory'.low => content'.low = content.low
      /\ flowNow.have => content'.inputs = content.inputs
  <2>1. FlowInputs(flowNow) \in [1..2 -> Nat] /\ (flowNow.have => FlowInputs(flowNow) = content.inputs)
    <3>1. <<0, 0>> \in [1..2 -> Nat]
      OBVIOUS
    <3>2. content.inputs \in [1..2 -> Nat]
      BY <1>2 DEF ContentType
    <3> QED BY <3>1, <3>2 DEF FlowInputs
  <2> QED BY <1>1, <1>2, <2>1 DEF ContentType
<1>9. Typed'
  BY <1>1, <1>2, <1>4, <1>6, <1>7, <1>8 DEF IInv, Typed, CallType
<1>10. ColorFollows' /\ LowFollows'
  BY <1>1, <1>6, <1>7, <1>8 DEF IInv, ColorFollows, LowFollows
<1>11. FlowFollows'
  BY <1>1, <1>4, <1>6, <1>7, <1>8 DEF IInv, FlowFollows
<1>12. CallFits' /\ FlowCovered'
  BY <1>1, <1>2, <1>6 DEF CallFits, FlowCovered
<1>13. BackendCovered'
  BY <1>1, <1>7 DEF IInv, BackendCovered, Covers
<1> QED BY <1>2, <1>6, <1>9, <1>10, <1>11, <1>12, <1>13 DEF IInv

\* ensureResources: a change of size drops what was kept, then a backend is chosen.
LEMMA PrepareKeeps == IInv /\ Prepare => IInv'
<1> SUFFICES ASSUME IInv, Prepare PROVE IInv'
  OBVIOUS
<1> DEFINE wanted == [extent |-> call.extent, down |-> call.down]
           isReset == [backend EXCEPT !.seen = 0]
           old == IF resources = wanted THEN backend ELSE isReset
           next == [pc |-> "motion", settings |-> call.settings, temporal |-> call.guide.temporal,
                    cut |-> call.guide.cut, depth |-> call.guide.depth # <<>>, motion |-> call.guide.motion # <<>>,
                    found |-> call.found, nvof |-> call.nvof]
<1>1. PICK starts \in Starts : backend' = EnsureBackend(old, call.settings.mode, forced, starts, FALSE)
  BY Zenon DEF Prepare
<1>2. /\ call.pc = "prepare"
      /\ \/ resources = wanted /\ UNCHANGED <<resources, memory, content, nvof>>
         \/ resources # wanted /\ resources' = wanted /\ ReleaseViews
      /\ call' = next \/ call' = IdleCall
      /\ UNCHANGED <<frame, processed, forced, continuity>>
  BY Zenon DEF Prepare
<1>3. call \in PrepareType
  BY <1>2, CallShape DEF IInv, Typed
<1>4. wanted \in ResourceType /\ wanted.extent # 0 /\ wanted.down # 0
  <2>1. call.extent \in Nat /\ call.extent # 0 /\ call.down \in Nat /\ call.down # 0
    BY <1>3, PipelineAssumption DEF PrepareType
  <2> QED BY <2>1 DEF ResourceType
<1>5. resources' = wanted
  BY <1>2
<1>6. backend' \in BackendType /\ Dormant(backend') /\ backend'.kind # "none" /\ backend'.seen \in {0, backend.seen}
  <2>1. backend \in BackendType /\ Dormant(backend) /\ forced \in BOOLEAN
    BY DEF IInv, Typed, BackendCovered, Covers
  <2>2. old \in BackendType /\ Dormant(old) /\ old.seen \in {0, backend.seen}
    <3>1. isReset \in BackendType /\ Dormant(isReset) /\ isReset.seen = 0
      BY <2>1 DEF BackendType, Dormant
    <3> HIDE DEF isReset, wanted
    <3> QED BY <2>1, <3>1 DEF Dormant
  <2>3. call.settings.mode \in BackendModes
    BY <1>3, PipelineAssumption DEF PrepareType
  <2>4. FALSE \in BOOLEAN
    OBVIOUS
  <2> HIDE DEF old
  <2>5. backend' \in BackendType /\ Dormant(backend') /\ backend'.kind # "none" /\ backend'.seen \in {0, old.seen}
    <3>1. Ensured(old, backend', call.settings.mode)
      BY <1>1, <2>1, <2>2, <2>3, <2>4, EnsuredFits, Zenon
    <3> QED BY <3>1 DEF Ensured
  <2> QED BY <2>2, <2>5
<1>7. call' \in CallType /\ call'.pc \in {"idle", "motion"} /\ (call'.pc = "motion" => call'.nvof = call.nvof)
  <2>1. next \in MotionType
    <3>1. call.guide.temporal \in TimeType /\ call.guide.cut \in BOOLEAN
      BY <1>3 DEF PrepareType, GuideType
    <3>2. (call.guide.depth # <<>>) \in BOOLEAN /\ (call.guide.motion # <<>>) \in BOOLEAN
      OBVIOUS
    <3> QED BY <1>3, <3>1, <3>2 DEF PrepareType, MotionType
  <2>2. next.pc = "motion" /\ next.nvof = call.nvof
    OBVIOUS
  <2> HIDE DEF next
  <2> QED BY <1>2, <2>1, <2>2, StartValues DEF CallType
<1> HIDE DEF wanted, old, isReset, next
<1>8. CASE UNCHANGED <<resources, memory, content, nvof>>
  <2>1. Typed'
    BY <1>2, <1>6, <1>7, <1>8 DEF IInv, Typed
  <2>2. ColorFollows' /\ LowFollows' /\ FlowFollows'
    BY <1>2, <1>7, <1>8 DEF IInv, ColorFollows, LowFollows, FlowFollows
  <2>3. CallFits' /\ FlowCovered'
    BY <1>2, <1>4, <1>5, <1>6, <1>7, <1>8 DEF IInv, CallFits, FlowCovered
  <2>4. BackendCovered'
    BY <1>2, <1>6, <1>8 DEF IInv, BackendCovered, Covers
  <2> QED BY <1>7, <2>1, <2>2, <2>3, <2>4 DEF IInv
<1>9. CASE resources # wanted /\ resources' = wanted /\ ReleaseViews
  <2>1. /\ memory' = NoMemory /\ content' = [color |-> 0, low |-> 0, inputs |-> <<0, 0>>]
        /\ nvof' \in FlowType /\ ~nvof'.have /\ nvof'.ready = nvof.ready
    BY <1>9, ReleasedFits DEF IInv
  <2>2. Typed'
    BY <1>2, <1>4, <1>5, <1>6, <1>7, <2>1, StartValues DEF IInv, Typed
  <2>3. ColorFollows' /\ LowFollows' /\ FlowFollows'
    BY <2>1, NoMemoryFields DEF ColorFollows, LowFollows, FlowFollows
  <2>4. CallFits' /\ FlowCovered'
    BY <1>2, <1>4, <1>5, <1>6, <1>7, <2>1 DEF IInv, CallFits, FlowCovered
  <2>5. BackendCovered'
    BY <1>6, <2>1, NoMemoryFields DEF BackendCovered, Covers
  <2> QED BY <1>7, <2>2, <2>3, <2>4, <2>5 DEF IInv
<1> QED BY <1>2, <1>8, <1>9

\* The flow that is recorded, and what the accelerator's inputs show afterwards.
LEMMA MotionKeeps ==
  ASSUME NEW depthOk \in BOOLEAN, NEW viewOk \in BOOLEAN, NEW executeOk \in BOOLEAN,
         IInv, Motion(depthOk, viewOk, executeOk)
  PROVE  IInv'
<1> DEFINE s == call.settings
           realDepth == call.depth /\ depthOk
           cameraReady == realDepth /\ call.found.camera
           route == RouteWithView(WantedRoute(s, cameraReady), viewOk, s, cameraReady)
           failed == route = "Nvof" /\ nvof.have /\ ~executeOk
           final == IF failed THEN FallbackMotionRoute(s.motion, FALSE) ELSE route
           flow == CASE final = "Nvof" /\ nvof.have -> content.inputs[nvof.previous]
                     [] final = "Hlsl" /\ memory.low -> content.low
                     [] OTHER -> 0
           weak == final = "Zero" /\ ~realDepth
           next == [pc |-> "evaluate", settings |-> s, temporal |-> call.temporal, cut |-> call.cut,
                    route |-> final, flow |-> flow, weak |-> weak]
           left == [memory EXCEPT !.routed = TRUE, !.route = final, !.force = @ \/ RouteChanged(final, s.gap)]
<1>1. /\ call.pc = "motion"
      /\ \/ /\ route = "Nvof" /\ nvof' = Executed(nvof)
            /\ content' = [content EXCEPT !.inputs[nvof.write] = frame]
         \/ route = "Hlsl" /\ UNCHANGED <<nvof, content>>
         \/ /\ route \notin {"Nvof", "Hlsl"} /\ nvof' = ResetFlow(nvof)
            /\ content' = [content EXCEPT !.inputs = <<0, 0>>]
      /\ memory' = left /\ call' = next
      /\ UNCHANGED <<frame, processed, resources, backend, forced, continuity>>
  BY Zenon DEF Motion
<1>2. call \in MotionType
  BY <1>1, CallShape DEF IInv, Typed
<1>3. s \in SettingsSet /\ s.gap \in BOOLEAN /\ realDepth \in BOOLEAN /\ cameraReady \in BOOLEAN /\ call.nvof \in BOOLEAN
      /\ call.temporal \in TimeType /\ call.cut \in BOOLEAN
  BY <1>2, PipelineAssumption DEF MotionType
<1>4. /\ frame \in Nat /\ frame # 0 /\ processed \in Nat /\ memory \in MemoryType /\ content \in ContentType /\ nvof \in FlowType
      /\ (call.nvof => nvof.ready)
  BY <1>1 DEF IInv, Typed, CallFits
<1>5. route \in Routes /\ (route = "Nvof" => nvof.ready)
  <2> HIDE DEF s, cameraReady
  <2> QED BY <1>3, <1>4, RouteIsAvailable
<1>6. final \in Routes /\ (final = "Nvof" => route = "Nvof")
  <2>1. FALSE \in BOOLEAN
    OBVIOUS
  <2>2. FallbackMotionRoute(s.motion, FALSE) \in {"Hlsl", "Zero"}
    BY <2>1, FallbackIsAvailable
  <2> HIDE DEF route, failed
  <2> QED BY <1>5, <2>2 DEF Routes
<1> HIDE DEF s, realDepth, cameraReady, route, failed, final
<1>7. /\ flow \in {0, content.inputs[nvof.previous], content.low}
      /\ final = "Nvof" => flow = IF nvof.have THEN content.inputs[nvof.previous] ELSE 0
      /\ final # "Nvof" => flow = IF final = "Hlsl" /\ memory.low THEN content.low ELSE 0
  BY Zenon
<1>8. flow \in Nat
  <2>1. content.low \in Nat /\ content.inputs \in [1..2 -> Nat] /\ nvof.previous \in 1..2
    BY <1>4 DEF ContentType, FlowType
  <2> HIDE DEF flow
  <2> QED BY <1>7, <2>1
<1>9. weak \in BOOLEAN
  BY <1>3
<1> HIDE DEF flow, weak
<1>10. /\ call' \in EvaluateType /\ call'.pc = "evaluate" /\ call'.route = final /\ call'.flow = flow
       /\ call'.settings.gap = s.gap
  BY <1>1, <1>3, <1>6, <1>8, <1>9 DEF EvaluateType
<1>11. /\ memory' \in MemoryType /\ memory'.routed /\ memory'.route = final
       /\ memory'.color = memory.color /\ memory'.low = memory.low
       /\ memory'.force = (memory.force \/ RouteChanged(final, s.gap))
  <2>1. RouteChanged(final, s.gap) \in BOOLEAN
    BY DEF RouteChanged
  <2>2. left \in MemoryType /\ left.routed = TRUE /\ left.route = final
        /\ left.color = memory.color /\ left.low = memory.low
        /\ left.force = (memory.force \/ RouteChanged(final, s.gap))
    BY <1>4, <1>6, <2>1 DEF MemoryType
  <2> HIDE DEF left
  <2> QED BY <1>1, <2>2
<1> HIDE DEF next, left
<1>12. /\ nvof' \in FlowType /\ content' \in ContentType /\ content'.color = content.color /\ content'.low = content.low
       /\ nvof'.have => nvof'.ready /\ content'.inputs[nvof'.previous] # 0
       /\ nvof'.have /\ final = "Nvof" => content'.inputs[nvof'.previous] = frame
  <2>1. CASE route = "Nvof"
    <3>1. nvof' = Executed(nvof) /\ content' = [content EXCEPT !.inputs[nvof.write] = frame]
      BY <1>1, <2>1
    <3>2. nvof' \in FlowType /\ nvof'.previous = nvof.write /\ nvof'.ready
      BY <1>4, <1>5, <2>1, <3>1, FlowKeepsType
    <3>3. nvof.write \in 1..2 /\ content.inputs \in [1..2 -> Nat]
      BY <1>4 DEF FlowType, ContentType
    <3>4. content' = [content EXCEPT !.inputs = [content.inputs EXCEPT ![nvof.write] = frame]]
      BY <3>1
    <3>5. [content.inputs EXCEPT ![nvof.write] = frame] \in [1..2 -> Nat]
          /\ [content.inputs EXCEPT ![nvof.write] = frame][nvof.write] = frame
      BY <1>4, <3>3
    <3>6. content' \in ContentType /\ content'.color = content.color /\ content'.low = content.low
          /\ content'.inputs = [content.inputs EXCEPT ![nvof.write] = frame]
      BY <1>4, <3>4, <3>5 DEF ContentType
    <3> QED BY <1>4, <3>2, <3>5, <3>6
  <2>2. CASE route = "Hlsl"
    BY <1>1, <1>4, <1>6, <2>2 DEF IInv, FlowFollows
  <2>3. CASE route \notin {"Nvof", "Hlsl"}
    <3>1. nvof' \in FlowType /\ ~nvof'.have
      BY <1>1, <1>4, <2>3, FlowKeepsType
    <3>2. content' = [content EXCEPT !.inputs = <<0, 0>>] /\ <<0, 0>> \in [1..2 -> Nat]
      BY <1>1, <2>3
    <3>3. content' \in ContentType /\ content'.color = content.color /\ content'.low = content.low
      BY <1>4, <3>2 DEF ContentType
    <3> QED BY <3>1, <3>3
  <2> QED BY <2>1, <2>2, <2>3
<1>13. Typed'
  BY <1>1, <1>10, <1>11, <1>12 DEF IInv, Typed, CallType
<1>14. ColorFollows' /\ LowFollows'
  BY <1>1, <1>10, <1>11, <1>12 DEF IInv, ColorFollows, LowFollows
<1>15. FlowFollows'
  BY <1>1, <1>10, <1>11, <1>12 DEF FlowFollows
<1>16. CallFits'
  BY <1>1, <1>4, <1>10, <1>11 DEF IInv, CallFits
<1>17. FlowCovered'
  <2> SUFFICES ASSUME s.gap, memory.color, ~memory'.force
               PROVE  flow \in {0, processed}
    BY <1>1, <1>10, <1>11 DEF FlowCovered
  <2>1. memory.routed /\ ~RouteChanged(final, s.gap)
    BY <1>11 DEF IInv, ColorFollows
  <2>2. memory.route = final
    BY <2>1 DEF RouteChanged
  <2>3. CASE final = "Nvof"
    BY <1>1, <1>7, <2>1, <2>2, <2>3 DEF IInv, FlowFollows
  <2>4. CASE final # "Nvof"
    BY <1>7, <2>4 DEF IInv, LowFollows
  <2> QED BY <2>3, <2>4
<1>18. BackendCovered'
  BY <1>1, <1>11 DEF IInv, BackendCovered, Covers, Dormant
<1> QED BY <1>10, <1>13, <1>14, <1>15, <1>16, <1>17, <1>18 DEF IInv

\* The evaluation: what is kept from here on is of this Present, which is now the last processed.
LEMMA EvaluateKeeps == ASSUME NEW outcome \in Outcomes, IInv, Evaluate(outcome) PROVE IInv'
<1> DEFINE s == call.settings
           succeeded == backend.kind = "passthrough" \/ outcome \in {"evaluated", "skipped"}
           skipped == outcome = "skipped"
           accumulates == outcome \in {"evaluated", "late"} /\ backend.kind # "passthrough"
           low == call.route = "Hlsl"
           left == [memory EXCEPT !.color = TRUE, !.low = low, !.timed = TRUE, !.temporal = call.temporal,
                                  !.force = ~succeeded /\ (@ \/ s.gap)]
           shown == CASE call.route = "Hlsl" -> frame [] ~low -> 0 [] OTHER -> content.low
           due == ResetHistory
           next == [base |-> IF skipped THEN continuity.base ELSE frame,
                    lenient |-> ~s.gap \/ (skipped /\ continuity.lenient),
                    swallowed |-> skipped /\ (continuity.swallowed \/ due)]
<1>0. outcome \in {"evaluated", "failed", "late", "skipped"}
  BY DEF Outcomes
<1>1. /\ call.pc = "evaluate"
      /\ skipped => backend.kind = "ngx"
      /\ backend' = IF accumulates THEN [backend EXCEPT !.seen = frame] ELSE backend
      /\ memory' = left
      /\ content' = [content EXCEPT !.color = frame, !.low = shown]
      /\ processed' = frame /\ continuity' = next /\ call' = IdleCall
      /\ UNCHANGED <<frame, resources, nvof, forced>>
  <2>1. Histories(call.route).color = TRUE /\ Histories(call.route).low = low
    BY DEF Histories
  <2> QED BY <2>1 DEF Evaluate
<1>2. call \in EvaluateType
  BY <1>1, CallShape DEF IInv, Typed
<1>3. s.gap \in BOOLEAN /\ call.temporal \in TimeType
  BY <1>2, PipelineAssumption DEF EvaluateType
<1>4. /\ frame \in Nat /\ frame # 0 /\ memory \in MemoryType /\ content \in ContentType /\ nvof \in FlowType
      /\ backend \in BackendType /\ Dormant(backend) /\ backend.kind # "none"
      /\ resources.extent # 0 /\ resources.down # 0
      /\ memory.routed /\ memory.route = call.route
  BY <1>1 DEF IInv, Typed, CallFits, BackendCovered, Covers
<1>5. low \in BOOLEAN /\ succeeded \in BOOLEAN
  OBVIOUS
<1>51. (memory.force => due) /\ due \in BOOLEAN
  <2>1. memory \in MemoryType /\ call.cut \in BOOLEAN /\ call.weak \in BOOLEAN
    BY <1>2, <1>4 DEF EvaluateType
  <2> QED BY <2>1 DEF ResetHistory, MemoryType
<1>6. shown \in Nat /\ (low => shown = frame)
  <2>1. content.low \in Nat
    BY <1>4 DEF ContentType
  <2>2. (low => shown = frame) /\ (~low => shown = 0)
    BY Zenon
  <2> HIDE DEF shown
  <2> QED BY <1>4, <2>2
<1> HIDE DEF s, shown, due
<1>7. /\ memory' \in MemoryType /\ memory'.low = low /\ memory'.routed /\ memory'.route = call.route
      /\ memory'.force = (~succeeded /\ (memory.force \/ s.gap))
  <2>1. left \in MemoryType /\ left.low = low /\ left.routed = memory.routed /\ left.route = memory.route
        /\ left.force = (~succeeded /\ (memory.force \/ s.gap))
    BY <1>3, <1>4, <1>5 DEF MemoryType
  <2> HIDE DEF left
  <2> QED BY <1>1, <1>4, <2>1
<1>8. content' \in ContentType /\ content'.color = frame /\ content'.low = shown /\ content'.inputs = content.inputs
  BY <1>1, <1>4, <1>6 DEF ContentType
<1>9. backend' \in BackendType /\ Dormant(backend')
  <2>1. CASE accumulates
    <3>1. backend' = [backend EXCEPT !.seen = frame] /\ backend.kind # "passthrough"
      BY <1>1, <2>1
    <3> QED BY <1>4, <3>1 DEF BackendType, Dormant
  <2>2. CASE ~accumulates
    BY <1>1, <1>4, <2>2
  <2> QED BY <2>1, <2>2
<1>91. continuity' \in ContinuityType
  BY <1>1, <1>3, <1>4, <1>51 DEF IInv, Typed, ContinuityType
<1>10. Typed'
  BY <1>1, <1>3, <1>4, <1>7, <1>8, <1>9, <1>91, StartValues DEF IInv, Typed
<1>11. call'.pc = "idle"
  BY <1>1, StartValues
<1>12. ColorFollows' /\ LowFollows'
  BY <1>1, <1>4, <1>6, <1>7, <1>8 DEF ColorFollows, LowFollows
<1>13. FlowFollows'
  BY <1>1, <1>4, <1>7, <1>8, <1>11 DEF IInv, FlowFollows
<1>14. CallFits' /\ FlowCovered'
  BY <1>11 DEF CallFits, FlowCovered
<1>15. ASSUME ~memory'.force, ~continuity'.lenient, ~continuity'.swallowed
       PROVE  backend'.seen \in {0, continuity'.base}
  <2>1. /\ continuity'.base = IF skipped THEN continuity.base ELSE frame
        /\ continuity'.lenient = (~s.gap \/ (skipped /\ continuity.lenient))
        /\ continuity'.swallowed = (skipped /\ (continuity.swallowed \/ due))
    BY <1>1
  <2>2. s.gap /\ succeeded
    BY <1>3, <1>5, <1>7, <1>15, <2>1
  <2>3. CASE skipped
    <3>1. ~continuity.lenient /\ ~continuity.swallowed /\ ~memory.force
      BY <1>15, <1>51, <2>1, <2>3
    <3>2. backend.seen \in {0, continuity.base}
      BY <3>1 DEF IInv, BackendCovered, Covers
    <3>3. backend' = backend /\ continuity'.base = continuity.base
      BY <1>1, <2>1, <2>3
    <3> QED BY <3>2, <3>3
  <2>4. CASE ~skipped /\ backend.kind = "passthrough"
    <3>1. backend' = backend /\ backend.seen = 0
      BY <1>1, <1>4, <2>4 DEF Dormant
    <3> QED BY <3>1
  <2>5. CASE ~skipped /\ backend.kind # "passthrough"
    <3>1. backend' = [backend EXCEPT !.seen = frame] /\ continuity'.base = frame
      BY <1>0, <1>1, <2>1, <2>2, <2>5
    <3> QED BY <1>4, <3>1 DEF BackendType
  <2> QED BY <2>3, <2>4, <2>5
<1>16. BackendCovered'
  BY <1>1, <1>4, <1>9, <1>15 DEF BackendCovered, Covers
<1> QED BY <1>10, <1>11, <1>12, <1>13, <1>14, <1>16 DEF IInv

\* Every step keeps the invariant.
LEMMA NextKeeps == IInv /\ [Next]_vars => IInv'
<1> SUFFICES ASSUME IInv, [Next]_vars PROVE IInv'
  OBVIOUS
<1>1. \A fault : \A x \in May(fault) : x \in BOOLEAN
  BY DEF May
<1>2. CASE Process
  <2>1. ASSUME frame < MaxPresents, NEW t \in Trackers, NEW g \in MergedGuides[frame + 1][t],
               NEW s \in SettingsSet, NEW extent \in Extents, Gather(s, extent, g, t)
        PROVE  IInv'
    <3>1. frame + 1 \in 1..MaxPresents
      BY <2>1, PipelineAssumption DEF IInv, Typed
    <3> QED BY <2>1, <3>1, GatherKeeps
  <2>2. ASSUME NEW depthOk \in May("depth"), NEW viewOk \in May("view"), NEW executeOk \in May("execute"),
               Motion(depthOk, viewOk, executeOk)
        PROVE  IInv'
    BY <1>1, <2>2, MotionKeeps
  <2>3. ASSUME NEW outcome \in Outcomes, Evaluate(outcome)
        PROVE  IInv'
    BY <2>3, EvaluateKeeps
  <2> QED BY <1>2, <2>1, <2>2, <2>3, PrepareKeeps, PrepareFailsKeeps DEF Process
<1>3. CASE PassOver
  BY <1>3, PassOverKeeps
<1>4. CASE Reset
  BY <1>4, ResetKeeps
<1>5. CASE \E starts \in Starts : ProcessNatively(starts)
  BY <1>5, NativelyKeeps
<1>6. CASE RetryNeural
  BY <1>6, RetryKeeps
<1>7. CASE \E value \in BOOLEAN : SetForceExternalHost(value)
  BY <1>7, ForceKeeps
<1>8. CASE UNCHANGED vars
  <2> USE <1>8 DEF vars
  <2>1. Typed' /\ ColorFollows' /\ LowFollows' /\ FlowFollows'
    BY DEF IInv, Typed, ColorFollows, LowFollows, FlowFollows
  <2>2. CallFits' /\ FlowCovered' /\ BackendCovered'
    BY DEF IInv, CallFits, FlowCovered, BackendCovered, Covers, Dormant
  <2> QED BY <2>1, <2>2 DEF IInv, OneFrame
<1> QED BY <1>2, <1>3, <1>4, <1>5, <1>6, <1>7, <1>8 DEF Next

\* The invariant holds in every state.
LEMMA Invariant == Spec => []IInv
<1> QED BY Initially, NextKeeps, PTL DEF Spec

-----------------------------------------------------------------------------

\* Between two calls of process, colour, reduced colour and the accelerator's input, as
\* far as a flag allows their use, are those of the last processed Present.
THEOREM HistoriesAreCurrent == Spec => []HistoriesFollow
<1>1. IInv => HistoriesFollow
  BY DEF IInv, ColorFollows, LowFollows, FlowFollows, HistoriesFollow
<1> QED BY <1>1, Invariant, PTL

\* With resetOnTemporalGap the backend is told to start again whenever the flow is not from
\* the last processed Present, or its history not from the last one it did not skip,
\* whichever route, backend or failure came between: unless a reset was due at one it
\* skipped.  From the next frame it answers for, this holds again.
THEOREM EveryGapResets == Spec => []ResetCoversGaps
<1>1. IInv => ResetCoversGaps
  BY DEF IInv, FlowCovered, BackendCovered, Covers, ResetHistory, ResetCoversGaps
<1> QED BY <1>1, Invariant, PTL

\* Joining the guides of up to three providers never puts the frame number of one on
\* another's texture.
THEOREM GuidesAreOfOneFrame == Spec => []GuidesOfOneFrame
<1>1. IInv => GuidesOfOneFrame
  BY DEF IInv, OneFrame, GuidesOfOneFrame
<1> QED BY <1>1, Invariant, PTL
=============================================================================
