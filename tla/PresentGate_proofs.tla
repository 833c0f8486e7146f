-------------------------- MODULE PresentGate_proofs --------------------------
(***************************************************************************)
(* Proofs about PresentGate, for any threads, swapchains and queues.       *)
(*                                                                         *)
(* WorksOnShownQueue needs what the proof and the evidence of a swapchain  *)
(* know of the queues that presented it (Trust), that the queue kept is    *)
(* the route's, and that a pipeline is on the queue it is named for.       *)
(* CleanFirst needs that a Present in process owns its swapchain, where a  *)
(* suspension is between the failure and the resync, and that nobody is    *)
(* about to set or to lift one when a Present that is alone claims.        *)
(***************************************************************************)
EXTENDS PresentGate, TLAPS

\* A proof by creation trusts the swapchain's own queue or one seen to present it twice.
ProofShown(p, h) ==
    /\ p.proven <=> h.made # None
    /\ p.proven =>
         /\ p.trusted # None /\ p.candidate # None /\ Shown(h, p.trusted)
         /\ p.candidate # p.trusted => p.count <= h.count[p.candidate]

\* Without one, the matches of the evidence are sightings of the last queue.
EvidenceShown(r, h) ==
    h.made = None =>
      /\ ~r.created
      /\ r.candidate = None => r.matches = 0
      /\ r.candidate # None => h.latest = r.candidate /\ r.matches <= h.count[r.candidate]

Trust == \A s \in Chains : ProofShown(gate[s].proof, seen[s]) /\ EvidenceShown(gate[s].evidence, seen[s])

\* Where none was kept against the route, the queue kept is the route's, and a pipeline is
\* on the queue it is named for.
Named ==
    \A s \in Chains \ strayed :
        /\ gate[s].q12 \in {None, Route(gate[s].proof, gate[s].evidence, FALSE).queue}
        /\ gate[s].pipe.on = gate[s].pipe.label

\* A Present in process owns its swapchain, and no other does.
Working == {"process", "route", "use"}
OwnerOf(t) ==
    /\ calls[t].pc \notin {"idle", "note"} => calls[t].chain \in Chains
    /\ calls[t].pc \in Working => calls[t].owns
    /\ calls[t].pc = "note" => calls[t].queue \in Queues
    /\ calls[t].pc = "claim" => calls[t].kind = "plain" /\ ~calls[t].owns
    /\ calls[t].owns =>
         /\ calls[t].pc \in Working \cup {"present", "update"}
         /\ calls[t].kind = "plain" /\ gate[calls[t].chain].busy
OneOwner ==
    \A t, u \in Threads : calls[t].owns /\ calls[u].owns /\ calls[t].chain = calls[u].chain => t = u
Owned == (\A t \in Threads : OwnerOf(t)) /\ OneOwner

\* Its owner has seen the Present fail and is about to suspend processing, ...
Failing(s) == \E t \in Threads : calls[t].chain = s /\ calls[t].pc = "update" /\ calls[t].owns /\ ~calls[t].ok
\* ... or somebody has ended the suspension and is about to ask for the resync.
Resyncing(s) == \E t \in Threads : calls[t].chain = s /\ calls[t].pc = "resync"

\* Until a clean Present is recorded processing is suspended, and until the resync a lost
\* history is known to be.
Remembered ==
    /\ \A s \in Chains : unclean[s] => gate[s].suppressed \/ Failing(s)
    /\ \A s \in Chains : gate[s].pipe.lost => gate[s].suppressed \/ Failing(s) \/ gate[s].resync \/ Resyncing(s)

\* A Present that is alone claims when no other is in progress; it works while processing is
\* not suspended and nobody is about to ask for a resync.
Quiet(t) ==
    LET s == calls[t].chain
    IN /\ calls[t].pc = "claim" /\ calls[t].alone =>
            ~gate[s].suppressed /\ \A u \in Threads \ {t} : calls[u].chain # s
       /\ calls[t].pc \in Working /\ calls[t].alone =>
            /\ ~gate[s].suppressed /\ ~Resyncing(s)
            /\ calls[t].pc # "process" => ~gate[s].pipe.lost

Suspended == Remembered /\ \A t \in Threads : Quiet(t)

IInv == TypeOK /\ Owned /\ Trust /\ Named /\ Suspended

-----------------------------------------------------------------------------
\* Counting up to a bound.
LEMMA AtMostIsNat ==
  ASSUME NEW bound \in Nat, NEW n \in Nat
  PROVE  AtMost(bound, n) \in 0..bound
BY DEF AtMost

\* Evidence about a queue is typed, and makes its candidate.
LEMMA ScoredIsTyped ==
  ASSUME NEW r \in EvidenceType, NEW q \in Queues
  PROVE  Scored(r, q) \in EvidenceType
<1> DEFINE old == IF r.candidate = q THEN r ELSE [NoEvidence EXCEPT !.candidate = q]
           score == AtMost(100, old.score + 45)
           matches == AtMost(2, old.matches + 1)
<1>1. old \in EvidenceType
  <2>1. NoEvidence \in EvidenceType
    BY DEF NoEvidence, EvidenceType, SomeQueue
  <2>2. CASE r.candidate = q
    BY <2>2
  <2>3. CASE r.candidate # q
    <3>1. [NoEvidence EXCEPT !.candidate = q] \in EvidenceType
      BY <2>1 DEF EvidenceType, SomeQueue
    <3> QED BY <3>1, <2>3
  <2> QED BY <2>2, <2>3
<1>2. score \in Nat /\ matches \in 0..2
  <2>1. old.score \in Nat /\ old.matches \in Nat
    BY <1>1 DEF EvidenceType
  <2> HIDE DEF old
  <2> QED BY <2>1 DEF AtMost
<1>3. Scored(r, q) = [old EXCEPT !.candidate = q, !.seen = TRUE, !.score = score, !.matches = matches]
  BY Zenon DEF Scored
<1> HIDE DEF old, score, matches
<1> QED BY <1>1, <1>2, <1>3 DEF EvidenceType, SomeQueue

\* A barrier keeps the proof's type, ...
LEMMA ObservedIsTyped ==
  ASSUME NEW p \in ProofType, NEW q \in Queues
  PROVE  Observed(p, q) \in ProofType
<1> DEFINE n == IF p.candidate = q THEN AtMost(2, p.count + 1) ELSE 1
           trusted == IF n = 2 THEN q ELSE IF p.proven \/ p.trusted = q THEN p.trusted ELSE None
<1>1. n \in 0..2
  <2>1. p.count \in Nat
    BY DEF ProofType
  <2> QED BY <2>1 DEF AtMost
<1>2. trusted \in SomeQueue
  BY DEF ProofType, SomeQueue
<1>3. Observed(p, q) = IF p.proven /\ p.trusted = q THEN p
                       ELSE [p EXCEPT !.candidate = q, !.count = n, !.trusted = trusted]
  BY Zenon DEF Observed
<1> HIDE DEF n, trusted
<1> QED BY <1>1, <1>2, <1>3 DEF ProofType, SomeQueue

\* What a sighting adds to the history.
LEMMA CountedAdds ==
  ASSUME NEW h \in SeenType, NEW q \in Queues, NEW m \in Marks, m.present
  PROVE  /\ Counted(h, q, m) \in SeenType
         /\ Counted(h, q, m).made = h.made /\ Counted(h, q, m).latest = q
         /\ \A x \in Queues \ {q} : Counted(h, q, m).count[x] = h.count[x]
         /\ m.legacy /\ m.enhanced => Counted(h, q, m).count[q] = AtMost(2, h.count[q] + 2)
         /\ ~(m.legacy /\ m.enhanced) => Counted(h, q, m).count[q] = AtMost(2, h.count[q] + 1)
<1> DEFINE k == IF m.legacy /\ m.enhanced THEN 2 ELSE 1
           n == AtMost(2, h.count[q] + k)
           count == [h.count EXCEPT ![q] = n]
<1>1. h.made \in SomeQueue /\ h.count \in [Queues -> 0..2] /\ q \in SomeQueue
  BY DEF SeenType, SomeQueue
<1>2. n \in 0..2
  <2>1. h.count[q] \in 0..2 /\ k \in 1..2
    BY <1>1
  <2> HIDE DEF k
  <2> QED BY <2>1 DEF AtMost
<1>3. Counted(h, q, m) = [made |-> h.made, latest |-> q, count |-> count]
  BY Zenon DEF Counted
<1>4. count \in [Queues -> 0..2] /\ count[q] = n /\ \A x \in Queues \ {q} : count[x] = h.count[x]
  <2> HIDE DEF n
  <2> QED BY <1>1, <1>2
<1>5. /\ m.legacy /\ m.enhanced => n = AtMost(2, h.count[q] + 2)
      /\ ~(m.legacy /\ m.enhanced) => n = AtMost(2, h.count[q] + 1)
  BY Zenon
<1> HIDE DEF count, n
<1> QED BY <1>1, <1>3, <1>4, <1>5 DEF SeenType

\* ... of which the proof counts one.
LEMMA SightingCounts ==
  ASSUME NEW h \in SeenType, NEW q \in Queues, NEW m \in Marks, m.present, NEW n \in 0..2
  PROVE  /\ \A x \in Queues : h.count[x] <= Counted(h, q, m).count[x] /\ Counted(h, q, m).count[x] \in 0..2
         /\ n <= h.count[q] => AtMost(2, n + 1) <= Counted(h, q, m).count[q]
         /\ 1 <= Counted(h, q, m).count[q]
<1> DEFINE old == h.count[q]
           new == Counted(h, q, m).count[q]
<1>1. old \in 0..2 /\ \A x \in Queues : h.count[x] \in 0..2
  BY DEF SeenType
<1>2. new = AtMost(2, old + 2) \/ new = AtMost(2, old + 1)
  BY CountedAdds, Zenon
<1>3. \A x \in Queues \ {q} : Counted(h, q, m).count[x] = h.count[x]
  BY CountedAdds, Zenon
<1>4. new \in 0..2 /\ old <= new /\ 1 <= new /\ (n <= old => AtMost(2, n + 1) <= new)
  <2> HIDE DEF old, new
  <2> QED BY <1>1, <1>2 DEF AtMost
<1> QED BY <1>1, <1>3, <1>4

\* A sighting of a queue leaves the proof within what was seen.
LEMMA ObservedIsShown ==
  ASSUME NEW p \in ProofType, NEW h \in SeenType, NEW q \in Queues, NEW m \in Marks, m.present,
         ProofShown(p, h)
  PROVE  ProofShown(Observed(p, q), Counted(h, q, m))
<1> DEFINE o == Observed(p, q)
           g == Counted(h, q, m)
           n == IF p.candidate = q THEN AtMost(2, p.count + 1) ELSE 1
           trusted == IF n = 2 THEN q ELSE IF p.proven \/ p.trusted = q THEN p.trusted ELSE None
<1> SUFFICES ProofShown(o, g)
  OBVIOUS
<1>0. q # None /\ p.trusted \in SomeQueue /\ p.candidate \in SomeQueue
  BY GateAssumption DEF ProofType
<1>1. /\ g.made = h.made
      /\ \A x \in Queues : h.count[x] <= g.count[x] /\ g.count[x] \in 0..2 /\ h.count[x] \in 0..2
  BY CountedAdds, SightingCounts DEF SeenType
<1>2. /\ p.candidate = q /\ p.count <= h.count[q] => n <= g.count[q]
      /\ p.candidate # q => n <= g.count[q]
  <2>1. p.count \in 0..2
    BY DEF ProofType
  <2> QED BY <2>1, SightingCounts
<1>3. CASE ~p.proven
  <2>1. ~o.proven
    BY <1>3 DEF Observed, ProofType
  <2> QED BY <2>1, <1>1, <1>3 DEF ProofShown
<1>4. CASE p.proven /\ p.trusted = q
  <2>1. o = p
    BY <1>4 DEF Observed
  <2> HIDE DEF o, g, n, trusted
  <2> QED BY <2>1, <1>0, <1>1, <1>4 DEF ProofShown, Shown, ProofType, SomeQueue
<1>5. CASE p.proven /\ p.trusted # q
  <2>1. o.proven /\ o.candidate = q /\ o.count = n /\ o.trusted = trusted
    BY <1>5 DEF Observed, ProofType
  <2>2. n = 2 => p.candidate = q
    BY DEF AtMost
  <2>3. trusted = IF n = 2 THEN q ELSE p.trusted
    BY <1>5
  <2>4. n <= g.count[q]
    BY <1>2, <1>5 DEF ProofShown
  <2> HIDE DEF o, g, n, trusted
  <2> QED BY <2>1, <2>2, <2>3, <2>4, <1>0, <1>1, <1>5 DEF ProofShown, Shown, SomeQueue
<1> HIDE DEF o, g
<1> QED BY <1>3, <1>4, <1>5

\* A barrier to or from PRESENT counts for its own queue only.
LEMMA ScoredMatches ==
  ASSUME NEW r \in EvidenceType, NEW q \in Queues
  PROVE  /\ Scored(r, q).candidate = q /\ (Scored(r, q).created => r.created)
         /\ r.candidate = q => Scored(r, q).matches = AtMost(2, r.matches + 1)
         /\ r.candidate # q => Scored(r, q).matches = AtMost(2, 0 + 1)
BY DEF Scored, EvidenceType, NoEvidence

\* A list's sightings leave the evidence within what was seen.
LEMMA EvidenceIsShown ==
  ASSUME NEW r \in EvidenceType, NEW h \in SeenType, NEW q \in Queues, NEW m \in Marks, m.present,
         EvidenceShown(r, h),
         NEW once, once = IF m.enhanced THEN Scored(r, q) ELSE r,
         NEW twice, twice = IF m.legacy THEN Scored(once, q) ELSE once
  PROVE  EvidenceShown(twice, Counted(h, q, m)) /\ twice \in EvidenceType
<1> DEFINE g == Counted(h, q, m)
           base == IF r.candidate = q THEN r.matches ELSE 0
<1>1. once \in EvidenceType /\ twice \in EvidenceType
  BY ScoredIsTyped
<1>2. g.made = h.made /\ g.latest = q /\ g.count[q] \in 0..2 /\ q # None
  BY CountedAdds, GateAssumption DEF SeenType
<1>3. ASSUME h.made = None PROVE EvidenceShown(twice, g)
  <2>1. base \in 0..2 /\ h.count[q] \in 0..2 /\ base <= h.count[q] /\ ~r.created
    BY <1>2, <1>3 DEF EvidenceShown, EvidenceType, SeenType
  <2>2. m.legacy \/ m.enhanced
    BY GateAssumption
  <2>3. CASE m.legacy /\ m.enhanced
    <3>1. /\ once.candidate = q /\ ~once.created /\ once.matches = AtMost(2, base + 1)
          /\ twice.candidate = q /\ ~twice.created /\ twice.matches = AtMost(2, once.matches + 1)
      BY <1>1, <2>1, <2>3, ScoredMatches
    <3>2. g.count[q] = AtMost(2, h.count[q] + 2)
      BY <2>3, CountedAdds
    <3>3. twice.matches <= g.count[q]
      <4> HIDE DEF base, g
      <4> QED BY <2>1, <3>1, <3>2 DEF AtMost
    <3> HIDE DEF g
    <3> QED BY <3>1, <3>3, <1>2 DEF EvidenceShown
  <2>4. CASE ~(m.legacy /\ m.enhanced)
    <3>1. twice.candidate = q /\ ~twice.created /\ twice.matches = AtMost(2, base + 1)
      BY <1>1, <2>1, <2>2, <2>4, ScoredMatches
    <3>2. g.count[q] = AtMost(2, h.count[q] + 1)
      BY <2>4, CountedAdds
    <3>3. twice.matches <= g.count[q]
      <4> HIDE DEF base, g
      <4> QED BY <2>1, <3>1, <3>2 DEF AtMost
    <3> HIDE DEF g
    <3> QED BY <3>1, <3>3, <1>2 DEF EvidenceShown
  <2> QED BY <2>3, <2>4
<1>4. ASSUME h.made # None PROVE EvidenceShown(twice, g)
  BY <1>2, <1>4 DEF EvidenceShown
<1> QED BY <1>1, <1>3, <1>4

\* A route names a queue that was shown to present.
LEMMA RouteIsShown ==
  ASSUME NEW p \in ProofType, NEW r \in EvidenceType, NEW h \in SeenType, NEW external \in BOOLEAN,
         ProofShown(p, h), EvidenceShown(r, h), Route(p, r, external).queue # None
  PROVE  Shown(h, Route(p, r, external).queue)
<1>1. CASE p.proven
  BY <1>1 DEF Route, ProofShown
<1>2. CASE ~p.proven
  <2>1. RecoveryTrusted(r) /\ Route(p, r, external).queue = r.candidate
    BY <1>2 DEF Route, NoRoute
  <2>2. h.made = None /\ ~r.created
    BY <1>2 DEF ProofShown, EvidenceShown
  <2>3. r.matches >= 2 /\ r.candidate # None
    BY <2>1, <2>2 DEF RecoveryTrusted
  <2>4. h.latest = r.candidate /\ r.matches <= h.count[r.candidate] /\ r.matches \in 0..2
    BY <2>2, <2>3 DEF EvidenceShown, EvidenceType
  <2>5. r.candidate \in Queues /\ h.count[r.candidate] \in 0..2
    BY <2>3 DEF EvidenceType, SeenType, SomeQueue
  <2> QED BY <2>1, <2>3, <2>4, <2>5 DEF Shown
<1> QED BY <1>1, <1>2

-----------------------------------------------------------------------------
\* What most steps leave alone of a swapchain: what is known of its queues, ...
SameQueues(c, d) ==
    /\ d.proof = c.proof /\ d.evidence = c.evidence /\ d.q12 = c.q12
    /\ d.pipe.on = c.pipe.on /\ d.pipe.label = c.pipe.label
\* ... and whether it is suspended.
SameSuspension(c, d) ==
    /\ d.suppressed = c.suppressed /\ d.busy = c.busy
    /\ d.pipe.lost => c.pipe.lost /\ d.resync = c.resync

\* What is known of the queues stays true if a step leaves it alone.
LEMMA QueuesKept ==
  ASSUME IInv, \A s \in Chains : SameQueues(gate[s], gate'[s]), seen' = seen, strayed' = strayed
  PROVE  Trust' /\ Named'
<1>1. Trust'
  BY DEF IInv, Trust, SameQueues
<1>2. Named'
  BY DEF IInv, Named, SameQueues
<1> QED BY <1>1, <1>2

\* A Present that is alone stays so whatever another thread does about the swapchain.
LEMMA OtherQuiet ==
  ASSUME IInv, NEW t \in Threads, NEW u \in Threads, u # t,
         \A v \in Threads : v # t => calls'[v] = calls[v],
         calls'[t].chain \in {calls[t].chain, None},
         LET c == calls[u].chain
         IN calls[u].pc \in Working \cup {"claim"} /\ calls[u].alone =>
              /\ gate'[c].suppressed => gate[c].suppressed
              /\ calls[u].pc # "claim" /\ gate'[c].pipe.lost => gate[c].pipe.lost
              /\ ~(calls'[t].pc = "resync" /\ calls'[t].chain = c)
  PROVE  Quiet(u)'
<1> DEFINE c == calls[u].chain
<1>1. calls'[u] = calls[u] /\ Quiet(u)
  BY DEF IInv, Suspended
<1>2. calls[u].pc \in Working \cup {"claim"} => c \in Chains /\ c # None
  BY GateAssumption DEF IInv, Owned, OwnerOf, Working
<1>3. ASSUME calls[u].pc = "claim", calls[u].alone
      PROVE  ~gate'[c].suppressed /\ \A v \in Threads \ {u} : calls'[v].chain # c
  BY <1>1, <1>2, <1>3 DEF Quiet
<1>4. ASSUME calls[u].pc \in Working, calls[u].alone
      PROVE  /\ ~gate'[c].suppressed /\ ~(\E v \in Threads : calls'[v].chain = c /\ calls'[v].pc = "resync")
             /\ calls[u].pc # "process" => ~gate'[c].pipe.lost
  BY <1>1, <1>4 DEF Quiet, Resyncing, Working
<1> QED BY <1>1, <1>3, <1>4 DEF Quiet, Resyncing

\* The call of tryBeginPresentWork.
LEMMA ClaimKeeps ==
  ASSUME IInv, NEW t \in Threads, Claim(t)
  PROVE  IInv'
<1> DEFINE s == calls[t].chain
<1>1. s \in Chains /\ gate[s] \in GateType /\ calls[t] \in CallType /\ calls[t].pc = "claim"
      /\ calls[t].kind = "plain" /\ ~calls[t].owns
  BY DEF IInv, TypeOK, Owned, OwnerOf, Claim, At
<1>2. /\ gate' \in [Chains -> GateType]
      /\ \A x \in Chains : x # s => gate'[x] = gate[x]
      /\ gate'[s] = [gate[s] EXCEPT !.busy = TRUE]
  BY <1>1 DEF IInv, TypeOK, Claim, GateType
<1>3. \A x \in Chains : SameQueues(gate[x], gate'[x]) /\ gate'[x].pipe = gate[x].pipe
                        /\ gate'[x].suppressed = gate[x].suppressed /\ gate'[x].resync = gate[x].resync
                        /\ (gate[x].busy => gate'[x].busy)
  BY <1>1, <1>2 DEF SameQueues, GateType
<1>4. /\ calls' \in [Threads -> CallType]
      /\ \A u \in Threads : u # t => calls'[u] = calls[u]
      /\ calls'[t].chain = s /\ calls'[t].kind = "plain" /\ calls'[t].alone = calls[t].alone
      /\ \/ gate[s].busy /\ calls'[t].pc = "present" /\ ~calls'[t].owns
         \/ ~gate[s].busy /\ calls'[t].pc = "process" /\ calls'[t].owns
  BY <1>1 DEF IInv, TypeOK, Claim, CallType, CallPcs
<1>6. TypeOK'
  BY <1>2, <1>4 DEF IInv, TypeOK, Claim
<1>7. Owned'
  <2>1. \A u \in Threads : u # t => OwnerOf(u)'
    BY <1>3, <1>4 DEF IInv, Owned, OwnerOf, Working
  <2>2. OwnerOf(t)'
    BY <1>1, <1>2, <1>4 DEF OwnerOf, Working, GateType
  <2>3. ~gate[s].busy => \A u \in Threads : calls[u].owns => calls[u].chain # s
    BY DEF IInv, Owned, OwnerOf
  <2>4. OneOwner'
    BY <2>3, <1>1, <1>4 DEF IInv, Owned, OneOwner
  <2> QED BY <2>1, <2>2, <2>4 DEF Owned
<1>8. Trust' /\ Named'
  BY <1>3, QueuesKept DEF Claim
<1>9. Remembered'
  <2>1. \A x \in Chains : Failing(x) => Failing(x)'
    BY <1>1, <1>4 DEF Failing
  <2>2. \A x \in Chains : Resyncing(x) => Resyncing(x)'
    BY <1>1, <1>4 DEF Resyncing
  <2>3. unclean' = unclean /\ Remembered
    BY DEF Claim, IInv, Suspended
  <2> QED BY <2>1, <2>2, <2>3, <1>3 DEF Remembered
<1>10. ASSUME NEW u \in Threads PROVE Quiet(u)'
  <2>1. CASE u # t
    <3>1. calls[u].pc \in Working \cup {"claim"} => calls[u].chain \in Chains
      BY DEF IInv, Owned, OwnerOf, Working
    <3>2. calls'[t].pc # "resync"
      BY <1>4
    <3> QED BY <1>3, <1>4, <2>1, <3>1, <3>2, OtherQuiet
  <2>2. CASE u = t
    <3>1. Quiet(t)
      BY DEF IInv, Suspended
    <3>2. calls[t].alone => ~gate'[s].suppressed /\ ~Resyncing(s)'
      BY <1>1, <1>3, <1>4, <3>1 DEF Quiet, Resyncing
    <3> QED BY <1>4, <2>2, <3>2 DEF Quiet, Working
  <2> QED BY <2>1, <2>2
<1> QED BY <1>6, <1>7, <1>8, <1>9, <1>10 DEF IInv, Suspended

\* A step that is not a thread's.
LEMMA OtherCallKeeps ==
  ASSUME IInv, calls' = calls, unclean' = unclean,
         \A s \in Chains : SameSuspension(gate[s], gate'[s])
  PROVE  Owned' /\ Suspended'
<1>1. Owned'
  <2>1. \A t \in Threads : OwnerOf(t)'
    BY DEF IInv, Owned, OwnerOf, SameSuspension, Working
  <2>2. OneOwner'
    BY DEF IInv, Owned, OneOwner
  <2> QED BY <2>1, <2>2 DEF Owned
<1>2. Suspended'
  <2>1. /\ \A s \in Chains : Failing(s)' <=> Failing(s)
        /\ \A s \in Chains : Resyncing(s)' <=> Resyncing(s)
    BY DEF Failing, Resyncing
  <2>2. Remembered'
    BY <2>1 DEF IInv, Suspended, Remembered, SameSuspension
  <2>3. ASSUME NEW t \in Threads PROVE Quiet(t)'
    <3>1. Quiet(t) /\ (calls[t].pc \in Working \cup {"claim"} => calls[t].chain \in Chains)
      BY DEF IInv, Owned, OwnerOf, Suspended, Working
    <3> QED BY <2>1, <3>1 DEF Quiet, Working, SameSuspension
  <2> QED BY <2>2, <2>3 DEF Suspended
<1> QED BY <1>1, <1>2

\* A step of a thread that does not own the swapchain it presents.
LEMMA OutsiderKeeps ==
  ASSUME IInv, NEW t \in Threads, unclean' = unclean,
         \A s \in Chains : SameSuspension(gate[s], gate'[s]),
         \A u \in Threads : u # t => calls'[u] = calls[u],
         calls'[t].chain \in {calls[t].chain, None},
         ~calls[t].owns, calls[t].pc # "resync", ~calls'[t].owns,
         calls'[t].pc \in {"idle", "note"},
         calls'[t].pc = "note" => calls'[t].queue \in Queues
  PROVE  Owned' /\ Suspended'
<1>1. Owned'
  <2>1. \A u \in Threads : u # t => OwnerOf(u)'
    BY DEF IInv, Owned, OwnerOf, SameSuspension, Working
  <2>2. OwnerOf(t)'
    BY DEF OwnerOf, Working
  <2>3. OneOwner'
    BY DEF IInv, Owned, OneOwner
  <2> QED BY <2>1, <2>2, <2>3 DEF Owned
<1>2. Suspended'
  <2>1. /\ \A s \in Chains : Failing(s) => Failing(s)'
        /\ \A s \in Chains : Resyncing(s) => Resyncing(s)'
    BY DEF Failing, Resyncing
  <2>2. Remembered'
    BY <2>1 DEF IInv, Suspended, Remembered, SameSuspension
  <2>3. ASSUME NEW u \in Threads, u # t PROVE Quiet(u)'
    <3>1. calls[u].pc \in Working \cup {"claim"} => calls[u].chain \in Chains
      BY DEF IInv, Owned, OwnerOf, Working
    <3> QED BY <2>3, <3>1, OtherQuiet DEF SameSuspension
  <2>4. Quiet(t)'
    BY DEF Quiet, Working
  <2> QED BY <2>2, <2>3, <2>4 DEF Suspended
<1> QED BY <1>1, <1>2

\* A step of the owner inside process.
LEMMA OwnerKeeps ==
  ASSUME IInv, NEW t \in Threads, unclean' = unclean,
         \A s \in Chains : SameSuspension(gate[s], gate'[s]),
         \A u \in Threads : u # t => calls'[u] = calls[u],
         calls[t].pc \in Working, calls'[t].pc \in Working \cup {"present"},
         calls'[t].owns = calls[t].owns, calls'[t].kind = calls[t].kind, calls'[t].chain = calls[t].chain,
         calls'[t].alone = calls[t].alone, calls'[t].pc # "process",
         calls[t].alone /\ calls'[t].pc \in {"route", "use"} => ~gate'[calls[t].chain].pipe.lost
  PROVE  Owned' /\ Suspended'
<1>1. Owned'
  <2>1. \A u \in Threads : u # t => OwnerOf(u)'
    BY DEF IInv, Owned, OwnerOf, SameSuspension, Working
  <2>2. OwnerOf(t)'
    BY DEF IInv, Owned, OwnerOf, SameSuspension, Working
  <2>3. OneOwner'
    BY DEF IInv, Owned, OneOwner
  <2> QED BY <2>1, <2>2, <2>3 DEF Owned
<1>2. Suspended'
  <2>1. /\ \A s \in Chains : Failing(s) => Failing(s)'
        /\ \A s \in Chains : Resyncing(s) <=> Resyncing(s)'
    BY DEF Failing, Resyncing, Working
  <2>2. Remembered'
    BY <2>1 DEF IInv, Suspended, Remembered, SameSuspension
  <2>3. ASSUME NEW u \in Threads, u # t PROVE Quiet(u)'
    <3>1. calls[u].pc \in Working \cup {"claim"} => calls[u].chain \in Chains
      BY DEF IInv, Owned, OwnerOf, Working
    <3>2. calls'[t].pc # "resync"
      BY DEF Working
    <3> QED BY <2>3, <3>1, <3>2, OtherQuiet DEF SameSuspension
  <2>4. Quiet(t)'
    <3>1. Quiet(t) /\ calls[t].chain \in Chains
      BY DEF IInv, Owned, OwnerOf, Suspended, Working
    <3> QED BY <2>1, <3>1 DEF Quiet, Working, SameSuspension
  <2> QED BY <2>2, <2>3, <2>4 DEF Suspended
<1> QED BY <1>1, <1>2

-----------------------------------------------------------------------------
\* What does not change is kept.
LEMMA SameKeeps ==
  ASSUME NEW c, NEW d, d = c
  PROVE  SameQueues(c, d) /\ SameSuspension(c, d)
BY DEF SameQueues, SameSuspension

\* A list touches back buffers.
LEMMA RecordKeeps ==
  ASSUME IInv, NEW t \in Threads, NEW S \in SUBSET Chains, NEW m \in Marks, Record(t, S, m)
  PROVE  IInv'
<1>1. TypeOK'
  <2>1. [chains |-> S, mark |-> m] \in TouchType
    BY DEF TouchType
  <2>2. touches' \in [Threads -> TouchType]
    BY <2>1 DEF IInv, TypeOK, Record
  <2>3. game' \in GameType
    <3> DEFINE left == game.calls - 1
               lists == game.lists - 1
    <3>1. left \in Nat /\ lists \in Nat /\ game \in GameType
      BY DEF IInv, TypeOK, GameType, Record
    <3>2. game' = [game EXCEPT !.calls = left, !.lists = lists]
      BY DEF Record
    <3> HIDE DEF left, lists
    <3> QED BY <3>1, <3>2 DEF GameType
  <2> QED BY <2>2, <2>3 DEF IInv, TypeOK, Record
<1>2. \A s \in Chains : SameQueues(gate[s], gate'[s]) /\ SameSuspension(gate[s], gate'[s])
  BY SameKeeps DEF Record
<1> QED BY <1>1, <1>2, QueuesKept, OtherCallKeeps DEF IInv, Record

\* A list is executed.
LEMMA ExecuteKeeps ==
  ASSUME IInv, NEW t \in Threads, NEW q \in Queues, Execute(t, q)
  PROVE  IInv'
<1> DEFINE owners == {s \in touches[t].chains : gate[s].registered}
           touch == [touches[t] EXCEPT !.chains = owners]
           mine == [Idle EXCEPT !.pc = "note", !.queue = q, !.touch = touch]
<1>1. touch \in TouchType
  BY DEF IInv, TypeOK, TouchType
<1>2. /\ mine \in CallType /\ mine.pc = "note" /\ ~mine.owns /\ mine.queue = q /\ mine.chain = None
      /\ NoTouch \in TouchType
  <2>1. NoTouch \in TouchType
    BY DEF NoTouch, TouchType
  <2>2. Idle \in CallType /\ Idle.owns = FALSE /\ Idle.chain = None
    BY <2>1 DEF Idle, CallType, CallPcs, SomeQueue
  <2> HIDE DEF touch
  <2> QED BY <1>1, <2>1, <2>2 DEF CallType, CallPcs, SomeQueue
<1>3. calls' = calls \/ calls' = [calls EXCEPT ![t] = mine]
  BY Zenon DEF Execute
<1> HIDE DEF mine
<1>4. TypeOK'
  BY <1>2, <1>3 DEF IInv, TypeOK, Execute
<1>5. \A s \in Chains : SameQueues(gate[s], gate'[s]) /\ SameSuspension(gate[s], gate'[s])
  BY SameKeeps DEF Execute
<1>6. Trust' /\ Named'
  BY <1>5, QueuesKept DEF Execute
<1>7. calls[t].pc = "idle" /\ ~calls[t].owns
  BY DEF Execute, IInv, Owned, OwnerOf, Working
<1>8. CASE calls' = calls
  BY <1>4, <1>5, <1>6, <1>8, OtherCallKeeps DEF IInv, Execute
<1>9. CASE calls' = [calls EXCEPT ![t] = mine]
  <2>1. calls'[t] = mine /\ \A u \in Threads : u # t => calls'[u] = calls[u]
    BY <1>9 DEF IInv, TypeOK
  <2>2. Owned' /\ Suspended'
    BY <1>2, <1>5, <1>7, <2>1, OutsiderKeeps DEF Execute
  <2> QED BY <1>4, <1>6, <2>2 DEF IInv
<1> QED BY <1>3, <1>8, <1>9

\* A call that is no Present is counted.
LEMMA EventSpends ==
  ASSUME TypeOK, Event
  PROVE  game' \in GameType
<1> DEFINE left == game.calls - 1
           events == game.events - 1
<1>1. left \in Nat /\ events \in Nat /\ game \in GameType
  BY DEF TypeOK, GameType, Event
<1>2. game' = [game EXCEPT !.calls = left, !.events = events]
  BY DEF Event
<1> HIDE DEF left, events
<1> QED BY <1>1, <1>2 DEF GameType

\* Reset forgets the history.
LEMMA ResetIsTyped ==
  ASSUME NEW c \in GateType
  PROVE  /\ Reset(c) \in GateType /\ ~Reset(c).pipe.lost
         /\ SameQueues(c, Reset(c)) /\ SameSuspension(c, Reset(c))
         /\ Reset(c).resync = c.resync /\ Reset(c).built = c.built
BY DEF Reset, GateType, PipeType, SameQueues, SameSuspension

\* The refreshed flag and what the lists have touched are of their types.
LEMMA RefreshIsTyped ==
  ASSUME TypeOK, NEW g, Refresh(g)
  PROVE  capturing' \in BOOLEAN /\ touches' \in [Threads -> TouchType]
<1>1. NoTouch \in TouchType
  BY DEF NoTouch, TouchType
<1>2. Wanted(g) \in BOOLEAN
  BY Zenon DEF Wanted
<1> QED BY <1>1, <1>2 DEF Refresh, TypeOK

\* Swapchains are resized, ...
LEMMA ResizeKeeps ==
  ASSUME IInv, NEW s \in Chains, Resize(s)
  PROVE  IInv'
<1> DEFINE reset == Reset(gate[s])
           mine == [reset EXCEPT !.registered = FALSE, !.dirty = TRUE]
<1>1. /\ reset \in GateType /\ ~reset.pipe.lost
      /\ SameQueues(gate[s], reset) /\ SameSuspension(gate[s], reset)
  BY ResetIsTyped DEF IInv, TypeOK
<1>2. mine \in GateType /\ SameQueues(gate[s], mine) /\ SameSuspension(gate[s], mine)
  <2> HIDE DEF reset
  <2> QED BY <1>1 DEF GateType, SameQueues, SameSuspension
<1>3. gate' = [gate EXCEPT ![s] = mine]
  BY Zenon DEF Resize
<1> HIDE DEF mine
<1>4. gate' \in [Chains -> GateType] /\ \A x \in Chains : SameQueues(gate[x], gate'[x]) /\ SameSuspension(gate[x], gate'[x])
  BY <1>2, <1>3, SameKeeps DEF IInv, TypeOK
<1>5. TypeOK'
  <2>1. capturing' \in BOOLEAN /\ touches' \in [Threads -> TouchType] /\ game' \in GameType
    BY RefreshIsTyped, EventSpends DEF IInv, Resize
  <2> QED BY <1>4, <2>1 DEF IInv, TypeOK, Resize
<1> QED BY <1>4, <1>5, QueuesKept, OtherCallKeeps DEF IInv, Resize

\* ... recolored ...
LEMMA RecolorKeeps ==
  ASSUME IInv, NEW s \in Chains, Recolor(s)
  PROVE  IInv'
<1> DEFINE mine == [gate[s] EXCEPT !.dirty = TRUE]
<1>1. mine \in GateType /\ SameQueues(gate[s], mine) /\ SameSuspension(gate[s], mine)
  BY DEF IInv, TypeOK, GateType, SameQueues, SameSuspension
<1>2. gate' = [gate EXCEPT ![s] = mine]
  BY Zenon DEF Recolor
<1> HIDE DEF mine
<1>3. gate' \in [Chains -> GateType] /\ \A x \in Chains : SameQueues(gate[x], gate'[x]) /\ SameSuspension(gate[x], gate'[x])
  BY <1>1, <1>2, SameKeeps DEF IInv, TypeOK
<1>4. TypeOK'
  BY <1>3, EventSpends DEF IInv, TypeOK, Recolor
<1> QED BY <1>3, <1>4, QueuesKept, OtherCallKeeps DEF IInv, Recolor

\* ... and idle.
LEMMA QuietenKeeps ==
  ASSUME IInv, NEW s \in Chains, Quieten(s)
  PROVE  IInv'
<1>1. TypeOK'
  BY EventSpends DEF IInv, TypeOK, Quieten
<1>2. \A x \in Chains : SameQueues(gate[x], gate'[x]) /\ SameSuspension(gate[x], gate'[x])
  BY SameKeeps DEF Quieten
<1> QED BY <1>1, <1>2, QueuesKept, OtherCallKeeps DEF IInv, Quieten

\* A swapchain is created: its queue is proven.
LEMMA CreateKeeps ==
  ASSUME IInv, NEW s \in Chains, NEW q \in Queues, Create(s, q)
  PROVE  IInv'
<1> DEFINE evidence == Created(gate[s].evidence, q)
           mine == [gate[s] EXCEPT !.proof = Proven(q), !.evidence = evidence, !.q12 = q]
           history == [made |-> q, latest |-> q, count |-> [x \in Queues |-> 0]]
<1>1. Proven(q) \in ProofType /\ Proven(q).proven /\ Proven(q).trusted = q /\ Proven(q).candidate = q
  BY DEF Proven, ProofType, SomeQueue
<1>2. evidence \in EvidenceType
  <2> DEFINE r == gate[s].evidence
             matches == IF r.candidate = q /\ r.matches > 1 THEN r.matches ELSE 1
  <2>1. matches \in 0..2
    BY DEF IInv, TypeOK, GateType, EvidenceType
  <2>2. evidence = [candidate |-> q, created |-> TRUE, score |-> 100, seen |-> TRUE, matches |-> matches]
    BY Zenon DEF Created
  <2> HIDE DEF evidence, matches
  <2> QED BY <2>1, <2>2 DEF EvidenceType, SomeQueue
<1>3. history \in SeenType /\ history.made = q /\ q # None
  BY GateAssumption DEF SeenType, SomeQueue
<1> HIDE DEF evidence, history
<1>4. /\ mine \in GateType /\ mine.proof = Proven(q) /\ mine.evidence = evidence /\ mine.q12 = q
      /\ mine.pipe = gate[s].pipe /\ SameSuspension(gate[s], mine)
  <2>1. gate[s] \in GateType /\ Proven(q) \in ProofType /\ evidence \in EvidenceType /\ q \in SomeQueue
    BY <1>1, <1>2 DEF IInv, TypeOK, SomeQueue
  <2>2. mine \in GateType
    BY <2>1 DEF GateType
  <2> QED BY <2>1, <2>2 DEF GateType, SameSuspension
<1>5. gate' = [gate EXCEPT ![s] = mine]
  BY DEF Create, evidence, IInv, TypeOK
<1>6. seen' = [seen EXCEPT ![s] = history]
  BY Zenon DEF Create, history
<1> HIDE DEF mine
<1>7. /\ gate' \in [Chains -> GateType] /\ seen' \in [Chains -> SeenType]
      /\ gate'[s] = mine /\ seen'[s] = history
      /\ \A x \in Chains : x # s => gate'[x] = gate[x] /\ seen'[x] = seen[x]
  BY <1>3, <1>4, <1>5, <1>6 DEF IInv, TypeOK
<1>8. TypeOK'
  <2>1. capturing' \in BOOLEAN /\ touches' \in [Threads -> TouchType] /\ game' \in GameType
    BY RefreshIsTyped, EventSpends DEF IInv, Create
  <2> QED BY <1>7, <2>1 DEF IInv, TypeOK, Create
<1>9. Trust'
  <2>1. ProofShown(mine.proof, history) /\ EvidenceShown(mine.evidence, history)
    BY <1>1, <1>3, <1>4 DEF ProofShown, EvidenceShown, Shown
  <2> QED BY <1>7, <2>1 DEF IInv, Trust
<1>10. Named'
  <2>1. Route(mine.proof, mine.evidence, FALSE).queue = q
    BY <1>1, <1>4 DEF Route
  <2>2. mine.q12 = Route(mine.proof, mine.evidence, FALSE).queue
    BY <1>4, <2>1
  <2>3. Named /\ strayed' = strayed /\ (s \notin strayed => mine.pipe.on = mine.pipe.label)
    BY <1>4 DEF IInv, Named, Create
  <2> QED BY <1>7, <2>2, <2>3 DEF Named
<1>11. Owned' /\ Suspended'
  <2>1. \A x \in Chains : SameSuspension(gate[x], gate'[x])
    BY <1>4, <1>7, SameKeeps
  <2> QED BY <2>1, OtherCallKeeps DEF Create
<1> QED BY <1>8, <1>9, <1>10, <1>11 DEF IInv

\* A Present begins.
LEMMA BeginKeeps ==
  ASSUME IInv, NEW t \in Threads, NEW s \in Chains, NEW kind \in Kinds, Begin(t, s, kind)
  PROVE  IInv'
<1> DEFINE pc == IF kind = "plain" /\ ~gate[s].suppressed THEN "claim" ELSE "present"
           alone == \A v \in Threads \ {t} : calls[v].chain # s
           mine == [Idle EXCEPT !.pc = pc, !.chain = s, !.kind = kind, !.alone = alone]
<1>1. /\ mine \in CallType /\ ~mine.owns /\ mine.chain = s /\ mine.pc = pc /\ mine.kind = kind /\ mine.alone = alone
  <2>1. NoTouch \in TouchType
    BY DEF NoTouch, TouchType
  <2>2. Idle \in CallType /\ Idle.owns = FALSE
    BY <2>1 DEF Idle, CallType, CallPcs, SomeQueue
  <2>3. alone \in BOOLEAN
    OBVIOUS
  <2> HIDE DEF alone
  <2> QED BY <2>2, <2>3 DEF CallType, CallPcs
<1>2. pc \in {"claim", "present"} /\ (pc = "claim" => kind = "plain" /\ ~gate[s].suppressed)
  OBVIOUS
<1>3. /\ calls' = [u \in Threads |-> IF u = t THEN mine
                                    ELSE IF calls[u].chain = s /\ calls[u].pc = "claim" THEN [calls[u] EXCEPT !.alone = FALSE]
                                    ELSE calls[u]]
      /\ calls[t].pc = "idle" /\ ~calls[t].owns
  <2>1. calls[t].pc = "idle" /\ ~calls[t].owns
    BY DEF Begin, At, IInv, Owned, OwnerOf, Working
  <2> QED BY <2>1, Zenon DEF Begin
<1> HIDE DEF mine
<1>9. /\ calls' \in [Threads -> CallType] /\ calls'[t] = mine
       /\ \A u \in Threads : u # t =>
            /\ calls'[u].pc = calls[u].pc /\ calls'[u].chain = calls[u].chain /\ calls'[u].owns = calls[u].owns
            /\ calls'[u].kind = calls[u].kind /\ calls'[u].queue = calls[u].queue /\ calls'[u].ok = calls[u].ok
            /\ calls'[u].alone => calls[u].alone /\ ~(calls[u].chain = s /\ calls[u].pc = "claim")
  <2>1. \A u \in Threads : calls[u] \in CallType /\ [calls[u] EXCEPT !.alone = FALSE] \in CallType
    BY DEF IInv, TypeOK, CallType
  <2> QED BY <1>1, <1>3, <2>1 DEF CallType
<1> HIDE DEF pc, alone
<1>4. TypeOK'
  <2>1. game' \in GameType
    <3> DEFINE left == game.calls - 1
    <3>1. left \in Nat /\ game \in GameType
      <4>1. game.calls > 0
        BY Zenon DEF Begin
      <4> QED BY <4>1 DEF IInv, TypeOK, GameType
    <3>2. game' = [game EXCEPT !.calls = game.calls - 1]
      BY Zenon DEF Begin
    <3>3. game' = [game EXCEPT !.calls = left]
      BY <3>2
    <3> HIDE DEF left
    <3> QED BY <3>1, <3>3 DEF GameType
  <2> QED BY <1>9, <2>1 DEF IInv, TypeOK, Begin
<1>5. \A x \in Chains : SameQueues(gate[x], gate'[x]) /\ SameSuspension(gate[x], gate'[x])
  BY SameKeeps DEF Begin
<1>6. Trust' /\ Named'
  BY <1>5, QueuesKept DEF Begin
<1>7. Owned'
  <2>1. \A u \in Threads : u # t => OwnerOf(u)'
    BY <1>5, <1>9 DEF IInv, Owned, OwnerOf, SameSuspension, Working
  <2>2. OwnerOf(t)'
    BY <1>1, <1>2, <1>9 DEF OwnerOf, Working
  <2>3. OneOwner'
    BY <1>1, <1>9 DEF IInv, Owned, OneOwner
  <2> QED BY <2>1, <2>2, <2>3 DEF Owned
<1>8. Suspended'
  <2>1. /\ \A x \in Chains : Failing(x) => Failing(x)'
        /\ \A x \in Chains : Resyncing(x) <=> Resyncing(x)'
    BY <1>1, <1>2, <1>3, <1>9 DEF Failing, Resyncing
  <2>2. Remembered'
    BY <1>5, <2>1 DEF Begin, IInv, Suspended, Remembered, SameSuspension
  <2>3. ASSUME NEW u \in Threads, u # t PROVE Quiet(u)'
    <3>1. Quiet(u) /\ (calls[u].pc \in Working \cup {"claim"} => calls[u].chain \in Chains)
      BY DEF IInv, Owned, OwnerOf, Suspended, Working
    <3>2. calls'[u].pc \in Working /\ calls'[u].alone =>
            /\ ~gate'[calls'[u].chain].suppressed /\ ~Resyncing(calls[u].chain)'
            /\ calls'[u].pc # "process" => ~gate'[calls'[u].chain].pipe.lost
      BY <1>5, <1>9, <2>1, <2>3, <3>1 DEF Quiet, Working, SameSuspension
    <3>3. calls'[u].pc = "claim" /\ calls'[u].alone =>
            ~gate'[calls'[u].chain].suppressed /\ \A v \in Threads \ {u} : calls'[v].chain # calls'[u].chain
      BY <1>1, <1>5, <1>9, <2>3, <3>1 DEF Quiet, Working, SameSuspension
    <3>4. calls'[u].chain = calls[u].chain
      BY <1>9, <2>3
    <3> QED BY <3>2, <3>3, <3>4 DEF Quiet, Resyncing
  <2>4. Quiet(t)'
    <3>1. calls'[t].alone => \A v \in Threads \ {t} : calls'[v].chain # s
      BY <1>1, <1>9 DEF alone
    <3>2. calls'[t].pc = "claim" => ~gate'[s].suppressed
      BY <1>1, <1>2, <1>5, <1>9 DEF SameSuspension
    <3> QED BY <1>1, <1>2, <1>9, <3>1, <3>2 DEF Quiet, Working
  <2> QED BY <2>2, <2>3, <2>4 DEF Suspended
<1> QED BY <1>4, <1>6, <1>7, <1>8 DEF IInv

\* What a list that was executed shows.
LEMMA NotedIsShown ==
  ASSUME NEW c \in GateType, NEW h \in SeenType, NEW q \in Queues, NEW m \in Marks \cup {NoTouch.mark},
         ProofShown(c.proof, h), EvidenceShown(c.evidence, h)
  PROVE  /\ Noted(c, q, m) \in GateType /\ Counted(h, q, m) \in SeenType
         /\ ProofShown(Noted(c, q, m).proof, Counted(h, q, m))
         /\ EvidenceShown(Noted(c, q, m).evidence, Counted(h, q, m))
         /\ Noted(c, q, m).pipe = c.pipe /\ SameSuspension(c, Noted(c, q, m))
<1> DEFINE once == IF m.enhanced THEN Scored(c.evidence, q) ELSE c.evidence
           twice == IF m.legacy THEN Scored(once, q) ELSE once
           evidence == IF m.present THEN twice ELSE c.evidence
           proof == IF m.present THEN Observed(c.proof, q) ELSE c.proof
           q12 == IF proof.trusted # None \/ RecoveryTrusted(evidence) THEN q ELSE IF proof.proven THEN c.q12 ELSE None
           d == Noted(c, q, m)
<1>1. c.proof \in ProofType /\ c.evidence \in EvidenceType
  BY DEF GateType
<1>2. /\ proof \in ProofType /\ evidence \in EvidenceType /\ Counted(h, q, m) \in SeenType
      /\ ProofShown(proof, Counted(h, q, m)) /\ EvidenceShown(evidence, Counted(h, q, m))
  <2>1. CASE m.present
    <3>1. m \in Marks
      BY <2>1 DEF NoTouch
    <3>2. EvidenceShown(twice, Counted(h, q, m)) /\ twice \in EvidenceType
      BY <1>1, <2>1, <3>1, EvidenceIsShown, Zenon
    <3>3. ProofShown(proof, Counted(h, q, m)) /\ proof \in ProofType
      BY <1>1, <2>1, <3>1, ObservedIsShown, ObservedIsTyped
    <3>4. Counted(h, q, m) \in SeenType
      BY <2>1, <3>1, CountedAdds, Zenon
    <3>5. evidence = twice
      BY <2>1
    <3> HIDE DEF evidence, twice, once, proof
    <3> QED BY <3>2, <3>3, <3>4, <3>5
  <2>2. CASE ~m.present
    BY <1>1, <2>2 DEF Counted
  <2> QED BY <2>1, <2>2
<1>3. d = [c EXCEPT !.proof = proof, !.evidence = evidence, !.q12 = q12]
  <2>1. CASE m.present
    BY <2>1, Zenon DEF Noted
  <2>2. CASE ~m.present
    BY <2>2, Zenon DEF Noted
  <2> QED BY <2>1, <2>2
<1>4. q12 \in SomeQueue /\ c.q12 \in SomeQueue
  BY DEF SomeQueue, GateType
<1> HIDE DEF d, proof, evidence, q12
<1>5. d \in GateType
  BY <1>2, <1>3, <1>4 DEF GateType
<1>6. d.proof = proof /\ d.evidence = evidence /\ d.pipe = c.pipe /\ SameSuspension(c, d)
  BY <1>3 DEF GateType, SameSuspension
<1> QED BY <1>2, <1>5, <1>6 DEF d

\* The queue of a list is noted.
LEMMA NoteKeeps ==
  ASSUME IInv, NEW t \in Threads, NEW s \in Chains, Note(t, s)
  PROVE  IInv'
<1> DEFINE c == calls[t]
           rest == c.touch.chains \ {s}
           mine == Noted(gate[s], c.queue, c.touch.mark)
           history == Counted(seen[s], c.queue, c.touch.mark)
           call == IF rest = {} THEN Idle ELSE [c EXCEPT !.touch.chains = rest]
           route == Route(mine.proof, mine.evidence, FALSE).queue
<1>1. /\ c.pc = "note" /\ c.queue \in Queues /\ ~c.owns /\ c \in CallType
      /\ c.touch.mark \in Marks \cup {NoTouch.mark} /\ c.touch.chains \subseteq Chains
      /\ gate[s] \in GateType /\ seen[s] \in SeenType
      /\ ProofShown(gate[s].proof, seen[s]) /\ EvidenceShown(gate[s].evidence, seen[s])
  BY DEF IInv, TypeOK, Owned, OwnerOf, Trust, Working, CallType, TouchType, Note
<1>2. /\ mine \in GateType /\ history \in SeenType
      /\ ProofShown(mine.proof, history) /\ EvidenceShown(mine.evidence, history)
      /\ mine.pipe = gate[s].pipe /\ SameSuspension(gate[s], mine)
  BY <1>1, NotedIsShown
<1>3. /\ gate' = [gate EXCEPT ![s] = mine] /\ seen' = [seen EXCEPT ![s] = history]
  BY Zenon DEF Note
<1>4. calls' = [calls EXCEPT ![t] = call]
  BY DEF Note, IInv, TypeOK
<1>5. call \in CallType /\ ~call.owns /\ call.pc \in {"idle", "note"} /\ call.queue \in Queues \cup {None}
      /\ call.chain \in {c.chain, None}
      /\ (call.pc = "note" => call.queue \in Queues)
  <2>1. CASE rest = {}
    <3>1. NoTouch \in TouchType
      BY DEF NoTouch, TouchType
    <3> QED BY <2>1, <3>1 DEF Idle, CallType, CallPcs, SomeQueue
  <2>2. CASE rest # {}
    <3>1. call = [c EXCEPT !.touch.chains = rest] /\ rest \subseteq Chains
      BY <1>1, <2>2
    <3>2. call \in CallType
      BY <1>1, <3>1 DEF CallType, TouchType
    <3> QED BY <1>1, <3>1, <3>2 DEF CallType
  <2> QED BY <2>1, <2>2
<1>6. strayed \subseteq strayed' /\ strayed' \subseteq Chains /\ (s \notin strayed' => mine.q12 \in {None, route})
  <2> DEFINE after == [gate EXCEPT ![s] = Noted(@, c.queue, c.touch.mark)]
  <2>1. after[s] = mine
    BY DEF IInv, TypeOK
  <2>2. strayed' = IF after[s].q12 \in {None, Route(after[s].proof, after[s].evidence, FALSE).queue}
                   THEN strayed ELSE strayed \cup {s}
    BY Zenon DEF Note
  <2>3. strayed \subseteq Chains
    BY DEF IInv, TypeOK
  <2>4. strayed' = IF mine.q12 \in {None, route} THEN strayed ELSE strayed \cup {s}
    BY <2>1, <2>2, Zenon
  <2> HIDE DEF mine, route
  <2> QED BY <2>3, <2>4
<1> HIDE DEF mine, history, call
<1>7. /\ gate' \in [Chains -> GateType] /\ seen' \in [Chains -> SeenType] /\ calls' \in [Threads -> CallType]
      /\ gate'[s] = mine /\ seen'[s] = history /\ calls'[t] = call
      /\ \A x \in Chains : x # s => gate'[x] = gate[x] /\ seen'[x] = seen[x]
      /\ \A u \in Threads : u # t => calls'[u] = calls[u]
  BY <1>2, <1>3, <1>4, <1>5 DEF IInv, TypeOK
<1>8. TypeOK'
  <2>1. capturing' \in BOOLEAN /\ touches' \in [Threads -> TouchType]
    BY RefreshIsTyped DEF IInv, Note
  <2> QED BY <1>6, <1>7, <2>1 DEF IInv, TypeOK, Note
<1>9. Trust'
  BY <1>2, <1>7 DEF IInv, Trust
<1>10. Named'
  <2> SUFFICES ASSUME NEW x \in Chains \ strayed'
               PROVE  /\ gate'[x].q12 \in {None, Route(gate'[x].proof, gate'[x].evidence, FALSE).queue}
                      /\ gate'[x].pipe.on = gate'[x].pipe.label
    BY DEF Named
  <2>1. x \in Chains \ strayed
    BY <1>6
  <2>2. /\ gate[x].q12 \in {None, Route(gate[x].proof, gate[x].evidence, FALSE).queue}
        /\ gate[x].pipe.on = gate[x].pipe.label
    BY <2>1 DEF IInv, Named
  <2>3. CASE x = s
    BY <1>2, <1>6, <1>7, <2>2, <2>3
  <2>4. CASE x # s
    <3>1. gate'[x] = gate[x]
      BY <1>7, <2>4
    <3> QED BY <2>2, <3>1
  <2> QED BY <2>3, <2>4
<1>11. Owned' /\ Suspended'
  <2>1. \A x \in Chains : SameSuspension(gate[x], gate'[x])
    BY <1>2, <1>7, SameKeeps
  <2> QED BY <1>1, <1>5, <1>7, <2>1, OutsiderKeeps DEF Note
<1> QED BY <1>8, <1>9, <1>10, <1>11 DEF IInv

-----------------------------------------------------------------------------
(* process.                                                                *)

\* It begins with the resync that is due ...
LEMMA StartedForgets ==
  ASSUME NEW c \in GateType
  PROVE  /\ Started(c) \in GateType /\ SameQueues(c, Started(c)) /\ SameSuspension(c, Started(c))
         /\ Started(c).pipe.lost => ~c.resync
<1> DEFINE reset == Reset(c)
           d == IF c.resync THEN [reset EXCEPT !.resync = FALSE, !.stable = 1] ELSE c
           stable == AtMost(Stable, d.stable + 1)
<1>1. /\ reset \in GateType /\ ~reset.pipe.lost
      /\ SameQueues(c, reset) /\ SameSuspension(c, reset)
  BY ResetIsTyped
<1>2. /\ d \in GateType /\ SameQueues(c, d) /\ SameSuspension(c, d)
      /\ d.pipe.lost => ~c.resync
  <2> HIDE DEF reset
  <2>1. CASE c.resync
    <3>1. d = [reset EXCEPT !.resync = FALSE, !.stable = 1]
      BY <2>1
    <3>2. d \in GateType
      BY <1>1, <3>1 DEF GateType
    <3> QED BY <1>1, <3>1, <3>2 DEF GateType, SameQueues, SameSuspension
  <2>2. CASE ~c.resync
    BY <2>2, SameKeeps
  <2> QED BY <2>1, <2>2
<1>3. stable \in Nat
  <2>1. d.stable \in Nat
    BY <1>2 DEF GateType
  <2> HIDE DEF d
  <2> QED BY <2>1, GateAssumption DEF AtMost
<1>4. Started(c) = [d EXCEPT !.stable = stable]
  BY Zenon DEF Started
<1> HIDE DEF d, stable
<1>5. Started(c) \in GateType
  BY <1>2, <1>3, <1>4 DEF GateType
<1> QED BY <1>2, <1>4, <1>5 DEF GateType, SameQueues, SameSuspension

\* ... and goes on with the settings and the colors.
LEMMA ColoredForgets ==
  ASSUME NEW c \in GateType, NEW in \in Inputs
  PROVE  Colored(c, in) \in GateType /\ SameQueues(c, Colored(c, in)) /\ SameSuspension(c, Colored(c, in))
<1> DEFINE d == IF in.reset THEN Reset(c) ELSE c
           reset == Reset(d)
           steady == AtMost(Steady, d.steady + 1)
<1>1. d \in GateType /\ SameQueues(c, d) /\ SameSuspension(c, d)
  BY ResetIsTyped, SameKeeps
<1> HIDE DEF d
<1>2. reset \in GateType /\ SameQueues(d, reset) /\ SameSuspension(d, reset)
  BY <1>1, ResetIsTyped
<1>3. steady \in Nat
  <2>1. d.steady \in Nat
    BY <1>1 DEF GateType
  <2> QED BY <2>1, GateAssumption DEF AtMost
<1>4. Colored(c, in) = IF d.dirty THEN [reset EXCEPT !.dirty = FALSE, !.steady = 1, !.stable = 1]
                                  ELSE [d EXCEPT !.steady = steady]
  BY Zenon DEF Colored, d
<1> HIDE DEF reset, steady
<1>5. Colored(c, in) \in GateType /\ SameQueues(d, Colored(c, in)) /\ SameSuspension(d, Colored(c, in))
  <2>1. CASE d.dirty
    <3>1. Colored(c, in) = [reset EXCEPT !.dirty = FALSE, !.steady = 1, !.stable = 1]
      BY <1>4, <2>1
    <3>2. Colored(c, in) \in GateType
      <4> DEFINE clean == [reset EXCEPT !.dirty = FALSE]
      <4>1. clean \in GateType
        BY <1>2 DEF GateType
      <4> DEFINE calm == [clean EXCEPT !.steady = 1]
      <4>2. Colored(c, in) = [calm EXCEPT !.stable = 1]
        BY <3>1
      <4> HIDE DEF clean
      <4>3. calm \in GateType
        BY <4>1 DEF GateType
      <4> HIDE DEF calm
      <4> QED BY <4>2, <4>3 DEF GateType
    <3> QED BY <1>2, <3>1, <3>2 DEF GateType, SameQueues, SameSuspension
  <2>2. CASE ~d.dirty
    <3>1. Colored(c, in) = [d EXCEPT !.steady = steady]
      BY <1>4, <2>2
    <3>2. Colored(c, in) \in GateType
      BY <1>1, <1>3, <3>1 DEF GateType
    <3> QED BY <1>1, <3>1, <3>2 DEF GateType, SameQueues, SameSuspension
  <2> QED BY <2>1, <2>2
<1> QED BY <1>1, <1>5 DEF SameQueues, SameSuspension

\* A Present that owns its swapchain is processed; a lost history that nobody is about
\* to give up is given up by now.
LEMMA ProcessKeeps ==
  ASSUME IInv, NEW t \in Threads, NEW in \in Inputs, Process(t, in)
  PROVE  IInv'
<1> DEFINE s == calls[t].chain
           d == Started(gate[s])
           c == IF in.enabled THEN Colored(d, in) ELSE d
<1>1. /\ calls[t].pc = "process" /\ calls[t].owns /\ s \in Chains
      /\ gate[s] \in GateType /\ calls[t] \in CallType
  BY DEF IInv, TypeOK, Owned, OwnerOf, Process, At, Working
<1>2. /\ d \in GateType /\ SameQueues(gate[s], d) /\ SameSuspension(gate[s], d)
      /\ d.pipe.lost => ~gate[s].resync
  BY <1>1, StartedForgets
<1> HIDE DEF d
<1>3. c \in GateType /\ SameQueues(d, c) /\ SameSuspension(d, c)
  BY <1>2, ColoredForgets, SameKeeps
<1>4. gate' = [gate EXCEPT ![s] = c]
  BY Zenon DEF Process, d
<1>5. PICK pc \in {"route", "present"} : calls' = [calls EXCEPT ![t].pc = pc]
  BY DEF Process, Goes
<1> HIDE DEF c
<1>6. /\ gate' \in [Chains -> GateType] /\ gate'[s] = c
      /\ \A x \in Chains : SameQueues(gate[x], gate'[x]) /\ SameSuspension(gate[x], gate'[x])
  <2>1. SameQueues(gate[s], c) /\ SameSuspension(gate[s], c)
    BY <1>2, <1>3 DEF SameQueues, SameSuspension
  <2> QED BY <1>1, <1>3, <1>4, <2>1, SameKeeps DEF IInv, TypeOK
<1>7. /\ calls' \in [Threads -> CallType] /\ calls'[t].pc = pc
      /\ \A u \in Threads : u # t => calls'[u] = calls[u]
      /\ calls'[t].owns = calls[t].owns /\ calls'[t].kind = calls[t].kind /\ calls'[t].chain = s
      /\ calls'[t].alone = calls[t].alone
  BY <1>1, <1>5 DEF IInv, TypeOK, CallType, CallPcs
<1>8. TypeOK'
  <2>1. primary' \in Chains \cup {None}
    BY <1>1 DEF IInv, TypeOK, Process
  <2> QED BY <1>6, <1>7, <2>1 DEF IInv, TypeOK, Process
<1>9. ASSUME calls[t].alone PROVE ~gate'[s].pipe.lost
  <2>1. SUFFICES ASSUME gate'[s].pipe.lost PROVE FALSE
    OBVIOUS
  <2>2. gate[s].pipe.lost /\ ~gate[s].resync
    BY <1>2, <1>3, <1>6, <2>1 DEF SameSuspension
  <2>3. ~gate[s].suppressed /\ ~Resyncing(s)
    BY <1>1, <1>9 DEF IInv, Suspended, Quiet, Working
  <2>4. ~Failing(s)
    BY <1>1 DEF Failing, IInv, Owned, OneOwner
  <2> QED BY <1>1, <2>2, <2>3, <2>4 DEF IInv, Suspended, Remembered
<1>10. Trust' /\ Named'
  BY <1>6, QueuesKept DEF Process
<1>11. Owned' /\ Suspended'
  BY <1>1, <1>5, <1>6, <1>7, <1>9, OwnerKeeps DEF Process, Working
<1> QED BY <1>8, <1>10, <1>11 DEF IInv

\* The D3D11 branch.
LEMMA RouteD3D11Keeps ==
  ASSUME IInv, NEW t \in Threads, RouteD3D11(t)
  PROVE  IInv'
<1> DEFINE s == calls[t].chain
<1>1. /\ calls[t].pc = "route" /\ s \in Chains /\ gate[s] \in GateType /\ calls[t] \in CallType
  BY DEF IInv, TypeOK, Owned, OwnerOf, RouteD3D11, At, Working
<1>2. PICK pc \in {"use", "present"} : calls' = [calls EXCEPT ![t].pc = pc]
  BY DEF RouteD3D11, Goes
<1>3. PICK built \in BOOLEAN : gate' = [gate EXCEPT ![s].built = built]
  <2>1. CASE gate' = gate
    BY <1>1, <2>1 DEF IInv, TypeOK, GateType
  <2>2. CASE gate' # gate
    <3>1. PICK done \in BOOLEAN : gate' = [gate EXCEPT ![s].built = @ \/ done]
      BY <2>2 DEF RouteD3D11
    <3>2. gate[s].built \/ done \in BOOLEAN
      BY <1>1 DEF GateType
    <3> QED BY <1>1, <3>1, <3>2 DEF IInv, TypeOK
  <2> QED BY <2>1, <2>2
<1>4. /\ gate' \in [Chains -> GateType] /\ gate'[s].pipe = gate[s].pipe
      /\ \A x \in Chains : SameQueues(gate[x], gate'[x]) /\ SameSuspension(gate[x], gate'[x])
  <2> DEFINE mine == [gate[s] EXCEPT !.built = built]
  <2>1. mine \in GateType /\ SameQueues(gate[s], mine) /\ SameSuspension(gate[s], mine) /\ mine.pipe = gate[s].pipe
    BY <1>1 DEF GateType, SameQueues, SameSuspension
  <2>2. gate' = [gate EXCEPT ![s] = mine]
    BY <1>3
  <2> HIDE DEF mine
  <2> QED BY <1>1, <2>1, <2>2, SameKeeps DEF IInv, TypeOK
<1>5. /\ calls' \in [Threads -> CallType] /\ calls'[t].pc = pc
      /\ \A u \in Threads : u # t => calls'[u] = calls[u]
      /\ calls'[t].owns = calls[t].owns /\ calls'[t].kind = calls[t].kind /\ calls'[t].chain = s
      /\ calls'[t].alone = calls[t].alone
  BY <1>1, <1>2 DEF IInv, TypeOK, CallType, CallPcs
<1>6. TypeOK'
  BY <1>4, <1>5 DEF IInv, TypeOK, RouteD3D11
<1>7. Trust' /\ Named'
  BY <1>4, QueuesKept DEF RouteD3D11
<1>8. calls[t].alone => ~gate'[s].pipe.lost
  BY <1>1, <1>4 DEF IInv, Suspended, Quiet, Working
<1>9. Owned' /\ Suspended'
  BY <1>1, <1>2, <1>4, <1>5, <1>8, OwnerKeeps DEF RouteD3D11, Working
<1> QED BY <1>6, <1>7, <1>9 DEF IInv

\* A route is of its type; the external host has no say in its queue.
LEMMA RouteIsTyped ==
  ASSUME NEW p \in ProofType, NEW r \in EvidenceType, NEW external \in BOOLEAN
  PROVE  /\ Route(p, r, external).queue \in SomeQueue /\ Route(p, r, external).recovery \in BOOLEAN
         /\ Route(p, r, external).queue = Route(p, r, FALSE).queue
BY DEF Route, NoRoute, ProofType, EvidenceType, SomeQueue

\* The D3D12 branch: the pipeline is kept, or another on the route's queue replaces it.
LEMMA RouteD3D12Chooses ==
  ASSUME IInv, NEW t \in Threads, NEW in \in Inputs, RouteD3D12(t, in)
  PROVE  LET s == calls[t].chain
             route == Route(gate[s].proof, gate[s].evidence, in.external)
             proven == IF route.queue = None THEN None ELSE gate[s].q12
         IN \E pipe \in PipeType, built \in BOOLEAN, pc \in {"use", "present"}, on \in SomeQueue, id \in SomeQueue :
              /\ gate' = [gate EXCEPT ![s].registered = TRUE, ![s].pipe = pipe, ![s].built = built]
              /\ calls' = [calls EXCEPT ![t].pc = pc, ![t].queue = on, ![t].id = id]
              /\ pipe.lost => gate[s].pipe.lost
              /\ \/ pipe.on = gate[s].pipe.on /\ pipe.label = gate[s].pipe.label
                 \/ pipe.on = proven /\ pipe.label = route.queue /\ proven # None
                 \/ pipe.on = None /\ pipe.label = None
              /\ pc = "use" => on = pipe.on /\ id = route.queue /\ pipe.label = route.queue /\ proven # None
<1> DEFINE s == calls[t].chain
           c == gate[s]
           route == Route(c.proof, c.evidence, in.external)
           proven == IF route.queue = None THEN None ELSE c.q12
           fresh == [NoPipe EXCEPT !.on = proven, !.label = route.queue, !.recovery = route.recovery]
<1>1. /\ s \in Chains /\ c \in GateType /\ calls[t] \in CallType /\ in.external \in BOOLEAN
  BY GateAssumption DEF IInv, TypeOK, Owned, OwnerOf, RouteD3D12, At, Working
<1>2. /\ c.pipe \in PipeType /\ c.built \in BOOLEAN /\ proven \in SomeQueue
      /\ route.queue \in SomeQueue /\ route.recovery \in BOOLEAN
      /\ calls[t].queue \in SomeQueue /\ calls[t].id \in SomeQueue
  BY <1>1, RouteIsTyped DEF GateType, CallType, SomeQueue
<1>3. NoPipe \in PipeType /\ NoPipe.on = None /\ NoPipe.label = None /\ ~NoPipe.lost
  BY DEF NoPipe, PipeType, SomeQueue
<1> HIDE DEF route, proven
<1>4. fresh \in PipeType /\ fresh.on = proven /\ fresh.label = route.queue /\ ~fresh.lost
  BY <1>2, <1>3 DEF PipeType
<1> HIDE DEF fresh
<1>5. CASE ~(Ready(c) /\ proven # None /\ in.on12)
  <2>1. gate' = [gate EXCEPT ![s].registered = TRUE] /\ calls' = [calls EXCEPT ![t].pc = "present"]
    BY <1>5 DEF RouteD3D12, Goes, proven, route
  <2>2. /\ gate' = [gate EXCEPT ![s].registered = TRUE, ![s].pipe = c.pipe, ![s].built = c.built]
        /\ calls' = [calls EXCEPT ![t].pc = "present", ![t].queue = calls[t].queue, ![t].id = calls[t].id]
    BY <1>1, <2>1 DEF IInv, TypeOK, GateType, CallType
  <2> QED BY <1>2, <2>2 DEF proven, route
<1>6. CASE Ready(c) /\ proven # None /\ in.on12
  <2>1. PICK done \in BOOLEAN :
          LET pipe == IF Keeps(c, route) THEN c.pipe ELSE IF done THEN fresh ELSE NoPipe
              built == Keeps(c, route) \/ done
          IN /\ gate' = [[gate EXCEPT ![s].registered = TRUE] EXCEPT ![s].pipe = pipe, ![s].built = built]
             /\ calls' = [calls EXCEPT ![t].pc = IF built THEN "use" ELSE "present",
                                       ![t].queue = pipe.on, ![t].id = route.queue]
    BY <1>6, Zenon DEF RouteD3D12, proven, route, fresh
  <2> DEFINE pipe == IF Keeps(c, route) THEN c.pipe ELSE IF done THEN fresh ELSE NoPipe
             built == Keeps(c, route) \/ done
  <2>2. pipe \in PipeType /\ built \in BOOLEAN /\ pipe.on \in SomeQueue /\ (pipe.lost => c.pipe.lost)
    BY <1>2, <1>3, <1>4 DEF PipeType, Keeps
  <2>3. /\ \/ pipe.on = c.pipe.on /\ pipe.label = c.pipe.label
           \/ pipe.on = proven /\ pipe.label = route.queue /\ proven # None
           \/ pipe.on = None /\ pipe.label = None
        /\ built => pipe.label = route.queue
    BY <1>3, <1>4, <1>6 DEF Keeps
  <2> HIDE DEF pipe, built
  <2>4. gate' = [gate EXCEPT ![s].registered = TRUE, ![s].pipe = pipe, ![s].built = built]
    BY <1>1, <2>1 DEF IInv, TypeOK, GateType, pipe, built
  <2>5. PICK pc \in {"use", "present"} :
          calls' = [calls EXCEPT ![t].pc = pc, ![t].queue = pipe.on, ![t].id = route.queue] /\ (pc = "use" => built)
    BY <2>1 DEF pipe, built
  <2> QED BY <1>2, <1>6, <2>2, <2>3, <2>4, <2>5 DEF proven, route
<1> QED BY <1>5, <1>6

\* ... which leaves queue and pipeline in agreement and the owner alone.
LEMMA RouteD3D12Keeps ==
  ASSUME IInv, NEW t \in Threads, NEW in \in Inputs, RouteD3D12(t, in)
  PROVE  IInv'
<1> DEFINE s == calls[t].chain
           route == Route(gate[s].proof, gate[s].evidence, in.external)
           proven == IF route.queue = None THEN None ELSE gate[s].q12
<1>1. /\ calls[t].pc = "route" /\ s \in Chains /\ gate[s] \in GateType /\ calls[t] \in CallType
      /\ in.external \in BOOLEAN
  BY GateAssumption DEF IInv, TypeOK, Owned, OwnerOf, RouteD3D12, At, Working
<1>2. PICK pipe \in PipeType, built \in BOOLEAN, pc \in {"use", "present"}, on \in SomeQueue, id \in SomeQueue :
        /\ gate' = [gate EXCEPT ![s].registered = TRUE, ![s].pipe = pipe, ![s].built = built]
        /\ calls' = [calls EXCEPT ![t].pc = pc, ![t].queue = on, ![t].id = id]
        /\ pipe.lost => gate[s].pipe.lost
        /\ \/ pipe.on = gate[s].pipe.on /\ pipe.label = gate[s].pipe.label
           \/ pipe.on = proven /\ pipe.label = route.queue /\ proven # None
           \/ pipe.on = None /\ pipe.label = None
        /\ pc = "use" => on = pipe.on /\ id = route.queue /\ pipe.label = route.queue /\ proven # None
  BY RouteD3D12Chooses
<1>3. s \notin strayed => proven \in {None, route.queue} /\ gate[s].pipe.on = gate[s].pipe.label
  <2>1. route.queue = Route(gate[s].proof, gate[s].evidence, FALSE).queue
    BY <1>1, RouteIsTyped DEF GateType
  <2>2. s \notin strayed => gate[s].q12 \in {None, Route(gate[s].proof, gate[s].evidence, FALSE).queue}
                            /\ gate[s].pipe.on = gate[s].pipe.label
    BY <1>1 DEF IInv, Named
  <2> HIDE DEF route
  <2> QED BY <2>1, <2>2
<1>4. /\ gate' \in [Chains -> GateType] /\ gate'[s].pipe = pipe
      /\ gate'[s].proof = gate[s].proof /\ gate'[s].evidence = gate[s].evidence /\ gate'[s].q12 = gate[s].q12
      /\ \A x \in Chains : x # s => gate'[x] = gate[x]
      /\ \A x \in Chains : SameSuspension(gate[x], gate'[x])
  <2> DEFINE once == [gate[s] EXCEPT !.registered = TRUE]
             twice == [once EXCEPT !.pipe = pipe]
             mine == [twice EXCEPT !.built = built]
  <2>1. gate' = [gate EXCEPT ![s] = mine]
    BY <1>1, <1>2 DEF IInv, TypeOK, GateType
  <2>2. once \in GateType /\ once.proof = gate[s].proof /\ once.evidence = gate[s].evidence /\ once.q12 = gate[s].q12
        /\ once.suppressed = gate[s].suppressed /\ once.busy = gate[s].busy /\ once.resync = gate[s].resync
    BY <1>1 DEF GateType
  <2> HIDE DEF once
  <2>3. twice \in GateType /\ twice.proof = once.proof /\ twice.evidence = once.evidence /\ twice.q12 = once.q12
        /\ twice.suppressed = once.suppressed /\ twice.busy = once.busy /\ twice.resync = once.resync /\ twice.pipe = pipe
    BY <2>2 DEF GateType
  <2> HIDE DEF twice
  <2>4. mine \in GateType /\ mine.proof = twice.proof /\ mine.evidence = twice.evidence /\ mine.q12 = twice.q12
        /\ mine.suppressed = twice.suppressed /\ mine.busy = twice.busy /\ mine.resync = twice.resync /\ mine.pipe = pipe
    BY <2>3 DEF GateType
  <2> HIDE DEF mine
  <2>5. SameSuspension(gate[s], mine)
    BY <1>2, <2>2, <2>3, <2>4 DEF SameSuspension
  <2> QED BY <1>1, <2>1, <2>2, <2>3, <2>4, <2>5, SameKeeps DEF IInv, TypeOK
<1>5. /\ calls' \in [Threads -> CallType] /\ calls'[t].pc = pc
      /\ \A u \in Threads : u # t => calls'[u] = calls[u]
      /\ calls'[t].owns = calls[t].owns /\ calls'[t].kind = calls[t].kind /\ calls'[t].chain = s
      /\ calls'[t].alone = calls[t].alone
  <2> DEFINE once == [calls[t] EXCEPT !.pc = pc]
             mine == [once EXCEPT !.queue = on, !.id = id]
  <2>1. once \in CallType /\ once.pc = pc /\ once.owns = calls[t].owns /\ once.kind = calls[t].kind /\ once.chain = s
        /\ once.alone = calls[t].alone
    BY <1>1, <1>2 DEF CallType, CallPcs
  <2>2. calls' = [calls EXCEPT ![t] = mine]
    BY <1>1, <1>2 DEF IInv, TypeOK, CallType
  <2> HIDE DEF once
  <2>3. mine \in CallType /\ mine.pc = pc /\ mine.owns = calls[t].owns /\ mine.kind = calls[t].kind /\ mine.chain = s
        /\ mine.alone = calls[t].alone
    BY <1>1, <1>2, <2>1 DEF CallType
  <2> HIDE DEF mine
  <2> QED BY <2>2, <2>3 DEF IInv, TypeOK
<1> HIDE DEF route, proven
<1>6. TypeOK'
  <2>1. capturing' \in BOOLEAN /\ touches' \in [Threads -> TouchType]
    <3>1. CASE gate[s].registered
      BY <3>1 DEF IInv, TypeOK, RouteD3D12
    <3>2. CASE ~gate[s].registered
      BY <3>2, RefreshIsTyped DEF IInv, RouteD3D12
    <3> QED BY <3>1, <3>2
  <2>2. mode' \in {"SnapshotOnly", "Full"}
    BY Zenon DEF RouteD3D12
  <2> QED BY <1>4, <1>5, <2>1, <2>2 DEF IInv, TypeOK, RouteD3D12
<1>7. Trust'
  BY <1>1, <1>4 DEF IInv, Trust, RouteD3D12
<1>8. Named'
  <2>1. Named /\ strayed' = strayed
    BY DEF IInv, RouteD3D12
  <2>2. s \notin strayed => pipe.on = pipe.label
    BY <1>2, <1>3
  <2> QED BY <1>1, <1>4, <2>1, <2>2 DEF Named
<1>9. calls[t].alone => ~gate'[s].pipe.lost
  BY <1>1, <1>2, <1>4 DEF IInv, Suspended, Quiet, Working
<1>10. Owned' /\ Suspended'
  <2>1. calls[t].pc \in Working /\ calls'[t].pc \in Working \cup {"present"} /\ calls'[t].pc # "process"
    BY <1>1, <1>2, <1>5 DEF Working
  <2>2. unclean' = unclean
    BY DEF RouteD3D12
  <2>3. calls[t].alone /\ calls'[t].pc \in {"route", "use"} => ~gate'[calls[t].chain].pipe.lost
    BY <1>9
  <2> HIDE DEF s
  <2> QED BY <1>4, <1>5, <2>1, <2>2, <2>3, OwnerKeeps DEF s
<1> QED BY <1>6, <1>7, <1>8, <1>10 DEF IInv

\* The pipeline is done.
LEMMA LeaveKeeps ==
  ASSUME IInv, NEW t \in Threads, Leave(t)
  PROVE  IInv'
<1> DEFINE s == calls[t].chain
<1>1. calls[t].pc = "use" /\ calls[t] \in CallType
  BY DEF IInv, TypeOK, Leave, At
<1>2. /\ calls' \in [Threads -> CallType] /\ calls'[t].pc = "present"
      /\ \A u \in Threads : u # t => calls'[u] = calls[u]
      /\ calls'[t].owns = calls[t].owns /\ calls'[t].kind = calls[t].kind /\ calls'[t].chain = s
      /\ calls'[t].alone = calls[t].alone
  <2> DEFINE once == [calls[t] EXCEPT !.pc = "present"]
             mine == [once EXCEPT !.queue = None, !.id = None]
  <2>1. once \in CallType /\ once.pc = "present" /\ once.owns = calls[t].owns /\ once.kind = calls[t].kind /\ once.chain = s
        /\ once.alone = calls[t].alone
    BY <1>1 DEF CallType, CallPcs
  <2>2. calls' = [calls EXCEPT ![t] = mine]
    BY <1>1 DEF IInv, TypeOK, CallType, Leave
  <2> HIDE DEF once
  <2>3. mine \in CallType /\ mine.pc = "present" /\ mine.owns = calls[t].owns /\ mine.kind = calls[t].kind /\ mine.chain = s
        /\ mine.alone = calls[t].alone
    BY <2>1 DEF CallType, SomeQueue
  <2> HIDE DEF mine
  <2> QED BY <2>2, <2>3 DEF IInv, TypeOK
<1>3. \A x \in Chains : SameQueues(gate[x], gate'[x]) /\ SameSuspension(gate[x], gate'[x])
  BY SameKeeps DEF Leave
<1>4. TypeOK'
  BY <1>2 DEF IInv, TypeOK, Leave
<1>5. Trust' /\ Named'
  BY <1>3, QueuesKept DEF Leave
<1>6. Owned' /\ Suspended'
  <2>1. calls'[t].pc \notin {"route", "use", "process"} /\ calls[t].pc \in Working /\ calls'[t].pc \in Working \cup {"present"}
    BY <1>1, <1>2 DEF Working
  <2>2. unclean' = unclean
    BY DEF Leave
  <2> QED BY <1>2, <1>3, <2>1, <2>2, OwnerKeeps
<1> QED BY <1>4, <1>5, <1>6 DEF IInv

-----------------------------------------------------------------------------
(* The Present itself, and what it says of the suspension.                 *)

\* The original Present returns; where it fails after it was processed, the one who
\* knows is about to suspend processing, and nobody else works on the swapchain.
LEMMA ReturnKeeps ==
  ASSUME IInv, NEW t \in Threads, NEW ok \in BOOLEAN, Return(t, ok)
  PROVE  IInv'
<1> DEFINE s == calls[t].chain
           fails == calls[t].owns /\ ~ok
           lost == gate[s].pipe.lost \/ (fails /\ gate[s].built)
           failed == unclean[s] \/ fails
<1>1. /\ calls[t].pc = "present" /\ s \in Chains /\ gate[s] \in GateType /\ calls[t] \in CallType
      /\ unclean[s] \in BOOLEAN
  BY DEF IInv, TypeOK, Owned, OwnerOf, Return, At
<1>2. lost \in BOOLEAN /\ failed \in BOOLEAN /\ (lost => gate[s].pipe.lost \/ fails) /\ (failed => unclean[s] \/ fails)
  OBVIOUS
<1>3. unclean' = [unclean EXCEPT ![s] = failed] /\ strayed' = strayed /\ seen' = seen
  BY DEF Return, IInv, TypeOK
<1>4. gate' = [gate EXCEPT ![s].pipe.lost = lost]
  BY Zenon DEF Return
<1> HIDE DEF lost, failed
<1>5. /\ gate' \in [Chains -> GateType] /\ gate'[s].pipe.lost = lost
      /\ \A x \in Chains : x # s => gate'[x] = gate[x]
      /\ \A x \in Chains : SameQueues(gate[x], gate'[x]) /\ gate'[x].suppressed = gate[x].suppressed
                           /\ gate'[x].busy = gate[x].busy /\ gate'[x].resync = gate[x].resync
  <2> DEFINE pipe == [gate[s].pipe EXCEPT !.lost = lost]
             mine == [gate[s] EXCEPT !.pipe = pipe]
  <2>1. pipe \in PipeType /\ pipe.on = gate[s].pipe.on /\ pipe.label = gate[s].pipe.label /\ pipe.lost = lost
    BY <1>1, <1>2 DEF GateType, PipeType
  <2>2. gate' = [gate EXCEPT ![s] = mine]
    BY <1>1, <1>4 DEF IInv, TypeOK, GateType
  <2> HIDE DEF pipe
  <2>3. /\ mine \in GateType /\ mine.pipe = pipe /\ SameQueues(gate[s], mine)
        /\ mine.suppressed = gate[s].suppressed /\ mine.busy = gate[s].busy /\ mine.resync = gate[s].resync
    BY <1>1, <2>1 DEF GateType, SameQueues
  <2> HIDE DEF mine
  <2> QED BY <1>1, <2>1, <2>2, <2>3, SameKeeps DEF IInv, TypeOK
<1>6. /\ calls' \in [Threads -> CallType] /\ calls'[t].pc = "update" /\ calls'[t].ok = ok
      /\ \A u \in Threads : u # t => calls'[u] = calls[u]
      /\ calls'[t].owns = calls[t].owns /\ calls'[t].kind = calls[t].kind /\ calls'[t].chain = s
  BY <1>1 DEF IInv, TypeOK, CallType, CallPcs, Return
<1>7. TypeOK'
  BY <1>1, <1>2, <1>3, <1>5, <1>6 DEF IInv, TypeOK, Return
<1>8. Trust' /\ Named'
  BY <1>3, <1>5, QueuesKept
<1>9. Owned'
  <2>1. \A u \in Threads : u # t => OwnerOf(u)'
    BY <1>5, <1>6 DEF IInv, Owned, OwnerOf, Working
  <2>2. OwnerOf(t)'
    BY <1>1, <1>5, <1>6 DEF IInv, Owned, OwnerOf, Working
  <2>3. OneOwner'
    BY <1>6 DEF IInv, Owned, OneOwner
  <2> QED BY <2>1, <2>2, <2>3 DEF Owned
<1>10. Suspended'
  <2>1. Suspended /\ Remembered
    BY DEF IInv, Suspended
  <2>2. /\ \A x \in Chains : Failing(x) => Failing(x)'
        /\ \A x \in Chains : Resyncing(x) => Resyncing(x)'
    BY <1>1, <1>6 DEF Failing, Resyncing
  <2>3. \A x \in Chains : x = s /\ fails => Failing(x)'
    BY <1>6 DEF Failing
  <2>4. ASSUME NEW u \in Threads, u # t PROVE Quiet(u)'
    <3>1. calls[u].pc \in Working \cup {"claim"} => calls[u].chain \in Chains
      BY DEF IInv, Owned, OwnerOf, Working
    <3>2. calls[u].pc \in Working => (gate'[calls[u].chain].pipe.lost => gate[calls[u].chain].pipe.lost)
      BY <1>1, <1>2, <1>5, <2>4, <3>1 DEF IInv, Owned, OwnerOf, OneOwner
    <3>3. calls'[t].pc # "resync"
      BY <1>6
    <3> QED BY <1>5, <1>6, <2>4, <3>1, <3>2, <3>3, OtherQuiet
  <2>5. Quiet(t)'
    BY <1>6 DEF Quiet, Working
  <2>6. \A x \in Chains : unclean'[x] => gate'[x].suppressed \/ Failing(x)'
    <3> SUFFICES ASSUME NEW x \in Chains, unclean'[x] PROVE gate'[x].suppressed \/ Failing(x)'
      OBVIOUS
    <3>1. unclean[x] \/ (x = s /\ fails)
      BY <1>1, <1>2, <1>3 DEF IInv, TypeOK
    <3>2. unclean[x] => gate'[x].suppressed \/ Failing(x)'
      BY <2>1, <2>2, <1>5, Zenon DEF Remembered
    <3> HIDE DEF fails, s
    <3> QED BY <2>3, <3>1, <3>2, Zenon
  <2>7. \A x \in Chains : gate'[x].pipe.lost => gate'[x].suppressed \/ Failing(x)' \/ gate'[x].resync \/ Resyncing(x)'
    <3> SUFFICES ASSUME NEW x \in Chains, gate'[x].pipe.lost
                 PROVE  gate'[x].suppressed \/ Failing(x)' \/ gate'[x].resync \/ Resyncing(x)'
      OBVIOUS
    <3>1. gate[x].pipe.lost \/ (x = s /\ fails)
      BY <1>2, <1>5
    <3>2. gate[x].pipe.lost => gate'[x].suppressed \/ Failing(x)' \/ gate'[x].resync \/ Resyncing(x)'
      BY <2>1, <2>2, <1>5, Zenon DEF Remembered
    <3> HIDE DEF fails, s
    <3> QED BY <2>3, <3>1, <3>2, Zenon
  <2> QED BY <2>4, <2>5, <2>6, <2>7 DEF Suspended, Remembered
<1> QED BY <1>7, <1>8, <1>9, <1>10 DEF IInv

\* The suspension is set by the owner, whose failure it remembers, or ended by somebody
\* who is about to ask for the resync; no processed Present is in between.
LEMMA UpdateKeeps ==
  ASSUME IInv, NEW t \in Threads, Update(t)
  PROVE  IInv'
<1> DEFINE s == calls[t].chain
           c == calls[t]
           arms == c.kind = "plain" /\ c.owns /\ ~c.ok
           clean == c.kind = "plain" /\ ~c.owns /\ c.ok
           clears == clean /\ gate[s].suppressed
           failed == unclean[s] /\ ~clean
           suppressed == (gate[s].suppressed \/ arms) /\ ~clears
           busy == gate[s].busy /\ ~c.owns
           call == IF clears THEN [c EXCEPT !.pc = "resync"] ELSE Idle
<1>1. /\ c.pc = "update" /\ s \in Chains /\ gate[s] \in GateType /\ c \in CallType
      /\ (c.owns => c.kind = "plain")
  BY DEF IInv, TypeOK, Owned, OwnerOf, Update, At
<1>2. suppressed \in BOOLEAN /\ busy \in BOOLEAN /\ failed \in BOOLEAN /\ (failed => unclean[s])
  OBVIOUS
<1>3. gate' = [gate EXCEPT ![s].suppressed = suppressed, ![s].busy = busy]
  BY Zenon DEF Update
<1>4. unclean' = [unclean EXCEPT ![s] = failed] /\ seen' = seen /\ strayed' = strayed
  BY Zenon DEF Update
<1>5. call \in CallType /\ ~call.owns /\ call.pc \in {"idle", "resync"} /\ (call.pc = "resync" => call.chain = s)
      /\ (clears <=> call.pc = "resync") /\ call.chain \in {s, None}
  <2>1. CASE clears
    BY <1>1, <2>1 DEF CallType, CallPcs
  <2>2. CASE ~clears
    <3>1. NoTouch \in TouchType
      BY DEF NoTouch, TouchType
    <3> QED BY <2>2, <3>1 DEF Idle, CallType, CallPcs, SomeQueue
  <2> QED BY <2>1, <2>2
<1>6. calls' = [calls EXCEPT ![t] = call]
  BY DEF Update, IInv, TypeOK
<1>7. /\ ~clears => (suppressed <=> gate[s].suppressed \/ arms)
      /\ clears => ~arms
      /\ busy <=> gate[s].busy /\ ~c.owns
      /\ suppressed => gate[s].suppressed \/ arms
      /\ gate[s].suppressed => suppressed \/ clears
      /\ arms => c.owns
      /\ c.owns /\ ~c.ok => arms /\ suppressed
      /\ clears => gate[s].suppressed /\ ~failed
  BY <1>1
<1> HIDE DEF suppressed, busy, call, arms, clean, clears, failed
<1>8. /\ gate' \in [Chains -> GateType] /\ gate'[s].suppressed = suppressed /\ gate'[s].busy = busy
      /\ \A x \in Chains : x # s => gate'[x] = gate[x]
      /\ \A x \in Chains : SameQueues(gate[x], gate'[x]) /\ gate'[x].pipe.lost = gate[x].pipe.lost
                           /\ gate'[x].resync = gate[x].resync
  <2> DEFINE once == [gate[s] EXCEPT !.suppressed = suppressed]
             mine == [once EXCEPT !.busy = busy]
  <2>1. gate' = [gate EXCEPT ![s] = mine]
    BY <1>1, <1>3 DEF IInv, TypeOK, GateType
  <2>2. once \in GateType /\ SameQueues(gate[s], once) /\ once.suppressed = suppressed
        /\ once.pipe = gate[s].pipe /\ once.resync = gate[s].resync
    BY <1>1, <1>2 DEF GateType, SameQueues
  <2> HIDE DEF once
  <2>3. mine \in GateType /\ SameQueues(once, mine) /\ mine.suppressed = suppressed /\ mine.busy = busy
        /\ mine.pipe = once.pipe /\ mine.resync = once.resync
    BY <1>2, <2>2 DEF GateType, SameQueues
  <2> HIDE DEF mine
  <2>4. SameQueues(gate[s], mine)
    BY <2>2, <2>3 DEF SameQueues
  <2> QED BY <1>1, <2>1, <2>2, <2>3, <2>4, SameKeeps DEF IInv, TypeOK
<1>9. /\ calls' \in [Threads -> CallType] /\ calls'[t] = call
      /\ \A u \in Threads : u # t => calls'[u] = calls[u]
  BY <1>5, <1>6 DEF IInv, TypeOK
<1>10. TypeOK'
  BY <1>1, <1>2, <1>4, <1>8, <1>9 DEF IInv, TypeOK, Update
<1>11. Trust' /\ Named'
  BY <1>4, <1>8, QueuesKept
<1>12. Owned'
  <2>1. \A u \in Threads : u # t => OwnerOf(u)'
    <3> SUFFICES ASSUME NEW u \in Threads, u # t PROVE OwnerOf(u)'
      OBVIOUS
    <3>1. calls'[u] = calls[u] /\ OwnerOf(u)
      BY <1>9 DEF IInv, Owned
    <3>2. calls[u].owns => calls[u].chain \in Chains
      BY <3>1 DEF OwnerOf, Working
    <3>3. calls[u].owns => gate'[calls[u].chain].busy
      BY <1>7, <1>8, <3>1, <3>2 DEF IInv, Owned, OwnerOf, OneOwner
    <3> QED BY <3>1, <3>3 DEF OwnerOf
  <2>2. OwnerOf(t)'
    BY <1>1, <1>5, <1>9 DEF OwnerOf, Working
  <2>3. OneOwner'
    BY <1>5, <1>9 DEF IInv, Owned, OneOwner
  <2> QED BY <2>1, <2>2, <2>3 DEF Owned
<1>13. Suspended'
  <2>1. Suspended /\ Remembered
    BY DEF IInv, Suspended
  <2>2. \A x \in Chains : Failing(x) => Failing(x)' \/ (x = s /\ suppressed)
    BY <1>7, <1>9 DEF Failing
  <2>3. \A x \in Chains : Resyncing(x) => Resyncing(x)'
    BY <1>1, <1>9 DEF Resyncing
  <2>4. \A x \in Chains : x = s /\ clears => Resyncing(x)'
    BY <1>5, <1>9 DEF Resyncing
  <2>5. ASSUME NEW u \in Threads, u # t PROVE Quiet(u)'
    <3> DEFINE x == calls[u].chain
    <3>1. Quiet(u) /\ (calls[u].pc \in Working \cup {"claim"} => x \in Chains)
      BY DEF IInv, Owned, OwnerOf, Suspended, Working
    <3>2. ASSUME calls[u].pc = "claim", calls[u].alone PROVE x # s
      BY <2>5, <3>1, <3>2 DEF Quiet
    <3>3. ASSUME calls[u].pc \in Working, calls[u].alone, x = s PROVE ~arms /\ ~clears
      <4>1. ~gate[s].suppressed /\ calls[u].owns
        BY <3>1, <3>3 DEF Quiet, IInv, Owned, OwnerOf
      <4>2. ~c.owns
        BY <2>5, <3>3, <4>1 DEF IInv, Owned, OneOwner
      <4> QED BY <1>7, <4>1, <4>2
    <3>4. calls[u].pc \in Working \cup {"claim"} /\ calls[u].alone =>
            /\ gate'[x].suppressed => gate[x].suppressed
            /\ calls[u].pc # "claim" /\ gate'[x].pipe.lost => gate[x].pipe.lost
            /\ ~(calls'[t].pc = "resync" /\ calls'[t].chain = x)
      <4>1. calls[u].pc \in Working \cup {"claim"} /\ calls[u].alone => x # s \/ (~arms /\ ~clears)
        BY <3>2, <3>3
      <4> HIDE DEF x, s
      <4> QED BY <1>5, <1>7, <1>8, <1>9, <3>1, <4>1 DEF x
    <3>5. calls'[t].chain \in {calls[t].chain, None}
      BY <1>5, <1>9
    <3> HIDE DEF c, s
    <3> QED BY <1>9, <2>5, <3>4, <3>5, OtherQuiet
  <2>6. Quiet(t)'
    BY <1>5, <1>9 DEF Quiet, Working
  <2>7. \A x \in Chains : unclean'[x] => gate'[x].suppressed \/ Failing(x)'
    <3> SUFFICES ASSUME NEW x \in Chains, unclean'[x] PROVE gate'[x].suppressed \/ Failing(x)'
      OBVIOUS
    <3>1. unclean[x] /\ ~(x = s /\ clears)
      BY <1>1, <1>2, <1>4, <1>7 DEF IInv, TypeOK
    <3>2. gate[x].suppressed \/ Failing(x)
      BY <2>1, <3>1 DEF Remembered
    <3>3. gate[x].suppressed => gate'[x].suppressed \/ (x = s /\ clears)
      BY <1>7, <1>8
    <3>4. Failing(x) => Failing(x)' \/ gate'[x].suppressed
      BY <2>2, <1>8
    <3> QED BY <3>1, <3>2, <3>3, <3>4
  <2>8. \A x \in Chains : gate'[x].pipe.lost => gate'[x].suppressed \/ Failing(x)' \/ gate'[x].resync \/ Resyncing(x)'
    <3> SUFFICES ASSUME NEW x \in Chains, gate'[x].pipe.lost
                 PROVE  gate'[x].suppressed \/ Failing(x)' \/ gate'[x].resync \/ Resyncing(x)'
      OBVIOUS
    <3>1. gate[x].suppressed \/ Failing(x) \/ gate'[x].resync \/ Resyncing(x)'
      BY <2>1, <2>3, <1>8, Zenon DEF Remembered
    <3>2. gate[x].suppressed => gate'[x].suppressed \/ (x = s /\ clears)
      BY <1>7, <1>8
    <3>3. Failing(x) => Failing(x)' \/ gate'[x].suppressed
      BY <2>2, <1>8
    <3> HIDE DEF s
    <3> QED BY <2>4, <3>1, <3>2, <3>3, Zenon
  <2> QED BY <2>5, <2>6, <2>7, <2>8 DEF Suspended, Remembered
<1> QED BY <1>10, <1>11, <1>12, <1>13 DEF IInv

\* The resync is asked for.
LEMMA ResyncKeeps ==
  ASSUME IInv, NEW t \in Threads, Resync(t)
  PROVE  IInv'
<1> DEFINE s == calls[t].chain
           mine == [gate[s] EXCEPT !.resync = TRUE]
<1>1. calls[t].pc = "resync" /\ ~calls[t].owns /\ s \in Chains /\ gate[s] \in GateType
  BY DEF IInv, TypeOK, Owned, OwnerOf, Working, Resync, At
<1>2. /\ mine \in GateType /\ SameQueues(gate[s], mine) /\ mine.pipe = gate[s].pipe /\ mine.resync
      /\ mine.suppressed = gate[s].suppressed /\ mine.busy = gate[s].busy
  BY <1>1 DEF GateType, SameQueues
<1>3. gate' = [gate EXCEPT ![s] = mine]
  BY <1>1 DEF Resync, IInv, TypeOK
<1> HIDE DEF mine
<1>4. /\ gate' \in [Chains -> GateType] /\ gate'[s].resync
      /\ \A x \in Chains : x # s => gate'[x] = gate[x]
      /\ \A x \in Chains : SameQueues(gate[x], gate'[x]) /\ gate'[x].pipe.lost = gate[x].pipe.lost
                           /\ gate'[x].suppressed = gate[x].suppressed /\ gate'[x].busy = gate[x].busy
  BY <1>1, <1>2, <1>3, SameKeeps DEF IInv, TypeOK
<1>5. Idle \in CallType /\ ~Idle.owns /\ Idle.pc = "idle" /\ Idle.chain = None
  <2>1. NoTouch \in TouchType
    BY DEF NoTouch, TouchType
  <2> QED BY <2>1 DEF Idle, CallType, CallPcs, SomeQueue
<1>6. /\ calls' \in [Threads -> CallType] /\ calls'[t] = Idle
      /\ \A u \in Threads : u # t => calls'[u] = calls[u]
  BY <1>5 DEF IInv, TypeOK, Resync
<1>7. unclean' = unclean /\ seen' = seen /\ strayed' = strayed
  BY DEF Resync
<1>8. TypeOK'
  BY <1>4, <1>6 DEF IInv, TypeOK, Resync
<1>9. Trust' /\ Named'
  BY <1>4, <1>7, QueuesKept
<1>10. Owned'
  <2>1. \A u \in Threads : u # t => OwnerOf(u)'
    BY <1>4, <1>6 DEF IInv, Owned, OwnerOf, Working
  <2>2. OwnerOf(t)'
    BY <1>5, <1>6 DEF OwnerOf, Working
  <2>3. OneOwner'
    BY <1>5, <1>6 DEF IInv, Owned, OneOwner
  <2> QED BY <2>1, <2>2, <2>3 DEF Owned
<1>11. Suspended'
  <2>1. Remembered
    BY DEF IInv, Suspended
  <2>2. \A x \in Chains : Failing(x) => Failing(x)'
    BY <1>1, <1>6 DEF Failing
  <2>3. \A x \in Chains : Resyncing(x) => Resyncing(x)' \/ x = s
    BY <1>6 DEF Resyncing
  <2>4. ASSUME NEW u \in Threads, u # t PROVE Quiet(u)'
    <3>1. calls[u].pc \in Working \cup {"claim"} => calls[u].chain \in Chains
      BY DEF IInv, Owned, OwnerOf, Working
    <3> QED BY <1>4, <1>5, <1>6, <2>4, <3>1, OtherQuiet
  <2>5. Quiet(t)'
    BY <1>5, <1>6 DEF Quiet, Working
  <2>6. \A x \in Chains : unclean'[x] => gate'[x].suppressed \/ Failing(x)'
    BY <2>1, <2>2, <1>4, <1>7, Zenon DEF Remembered
  <2>7. \A x \in Chains : gate'[x].pipe.lost => gate'[x].suppressed \/ Failing(x)' \/ gate'[x].resync \/ Resyncing(x)'
    <3> SUFFICES ASSUME NEW x \in Chains, gate'[x].pipe.lost
                 PROVE  gate'[x].suppressed \/ Failing(x)' \/ gate'[x].resync \/ Resyncing(x)'
      OBVIOUS
    <3>1. gate[x].suppressed \/ Failing(x) \/ gate[x].resync \/ Resyncing(x)
      BY <2>1, <1>4, Zenon DEF Remembered
    <3>2. x # s => gate'[x] = gate[x]
      BY <1>4
    <3> QED BY <2>2, <2>3, <1>4, <3>1, <3>2, Zenon
  <2> QED BY <2>4, <2>5, <2>6, <2>7 DEF Suspended, Remembered
<1> QED BY <1>8, <1>9, <1>10, <1>11 DEF IInv

-----------------------------------------------------------------------------
(* The theorems.                                                           *)

\* Initially a queue is known of the swapchains that were created under the hooks.
LEMMA InitIInv ==
  ASSUME Init
  PROVE  IInv
<1>1. PICK made \in [Chains -> Queues \cup {None}] :
        /\ gate = [s \in Chains |-> NewGate(made[s])]
        /\ seen = [s \in Chains |-> [made |-> made[s], latest |-> made[s], count |-> [q \in Queues |-> 0]]]
  BY DEF Init
<1>2. Idle \in CallType /\ Idle.pc = "idle" /\ ~Idle.owns /\ NoTouch \in TouchType
  <2>1. NoTouch \in TouchType
    BY DEF NoTouch, TouchType
  <2> QED BY <2>1 DEF Idle, CallType, CallPcs, SomeQueue
<1>3. ASSUME NEW q \in Queues \cup {None}
      PROVE  LET h == [made |-> q, latest |-> q, count |-> [x \in Queues |-> 0]]
                 c == NewGate(q)
             IN /\ c \in GateType /\ h \in SeenType /\ ~c.suppressed /\ ~c.pipe.lost
                /\ ProofShown(c.proof, h) /\ EvidenceShown(c.evidence, h)
                /\ c.q12 \in {None, Route(c.proof, c.evidence, FALSE).queue} /\ c.pipe.on = c.pipe.label
  <2> DEFINE proof == IF q = None THEN NoProof ELSE Proven(q)
             evidence == IF q = None THEN NoEvidence ELSE Created(NoEvidence, q)
             h == [made |-> q, latest |-> q, count |-> [x \in Queues |-> 0]]
             c == NewGate(q)
  <2>1. proof \in ProofType /\ (proof.proven <=> q # None) /\ (q # None => proof.trusted = q /\ proof.candidate = q)
    BY DEF NoProof, Proven, ProofType, SomeQueue
  <2>2. evidence \in EvidenceType /\ (q = None => ~evidence.created /\ evidence.candidate = None /\ evidence.matches = 0)
    <3>1. NoEvidence.matches = 0 /\ NoEvidence \in EvidenceType
      BY DEF NoEvidence, EvidenceType, SomeQueue
    <3>2. Created(NoEvidence, q) = [candidate |-> q, created |-> TRUE, score |-> 100, seen |-> TRUE, matches |-> 1]
      BY <3>1 DEF Created
    <3>3. Created(NoEvidence, q) \in EvidenceType
      BY <3>2 DEF EvidenceType, SomeQueue
    <3> QED BY <3>1, <3>3 DEF NoEvidence
  <2>3. h \in SeenType /\ h.made = q
    BY DEF SeenType, SomeQueue
  <2>4. NoPipe \in PipeType /\ ~NoPipe.lost /\ NoPipe.on = NoPipe.label
    BY DEF NoPipe, PipeType, SomeQueue
  <2>5. c = [proof |-> proof, evidence |-> evidence,
             q12 |-> q, registered |-> FALSE, stable |-> 0, suppressed |-> FALSE, resync |-> FALSE, busy |-> FALSE,
             dirty |-> FALSE, steady |-> 0, built |-> FALSE, pipe |-> NoPipe]
    BY Zenon DEF NewGate
  <2> HIDE DEF proof, evidence, h, c
  <2>6. c \in GateType
    BY <2>1, <2>2, <2>4, <2>5 DEF GateType, SomeQueue
  <2>7. c.proof = proof /\ c.evidence = evidence /\ c.q12 = q /\ c.pipe = NoPipe /\ ~c.suppressed
    BY <2>5
  <2>8. ProofShown(proof, h) /\ EvidenceShown(evidence, h)
    BY <2>1, <2>2, <2>3 DEF ProofShown, EvidenceShown, Shown
  <2>9. q \in {None, Route(proof, evidence, FALSE).queue}
    BY <2>1 DEF Route
  <2> QED BY <2>3, <2>4, <2>6, <2>7, <2>8, <2>9 DEF c, h
<1>4. \A s \in Chains :
        /\ gate[s] \in GateType /\ seen[s] \in SeenType /\ ~gate[s].suppressed /\ ~gate[s].pipe.lost
        /\ ProofShown(gate[s].proof, seen[s]) /\ EvidenceShown(gate[s].evidence, seen[s])
        /\ gate[s].q12 \in {None, Route(gate[s].proof, gate[s].evidence, FALSE).queue}
        /\ gate[s].pipe.on = gate[s].pipe.label
  <2> SUFFICES ASSUME NEW s \in Chains
               PROVE  /\ gate[s] \in GateType /\ seen[s] \in SeenType /\ ~gate[s].suppressed /\ ~gate[s].pipe.lost
                      /\ ProofShown(gate[s].proof, seen[s]) /\ EvidenceShown(gate[s].evidence, seen[s])
                      /\ gate[s].q12 \in {None, Route(gate[s].proof, gate[s].evidence, FALSE).queue}
                      /\ gate[s].pipe.on = gate[s].pipe.label
    OBVIOUS
  <2>1. made[s] \in Queues \cup {None}
    OBVIOUS
  <2>2. gate[s] = NewGate(made[s]) /\ seen[s] = [made |-> made[s], latest |-> made[s], count |-> [x \in Queues |-> 0]]
    BY <1>1, Zenon
  <2> QED BY <2>1, <2>2, <1>3, Zenon
<1>5. gate \in [Chains -> GateType] /\ seen \in [Chains -> SeenType]
  BY <1>1, <1>4
<1>6. calls = [t \in Threads |-> Idle] /\ unclean = [s \in Chains |-> FALSE] /\ strayed = {}
  BY DEF Init
<1>7. TypeOK
  <2>1. game \in GameType
    BY GateAssumption DEF Init, GameType
  <2> QED BY <1>2, <1>5, <1>6, <2>1 DEF Init, TypeOK
<1>8. Owned
  BY <1>2, <1>6 DEF Owned, OwnerOf, OneOwner, Working
<1>9. Trust /\ Named
  BY <1>4 DEF Trust, Named
<1>10. Suspended
  BY <1>2, <1>4, <1>6 DEF Suspended, Remembered, Quiet, Working
<1> QED BY <1>7, <1>8, <1>9, <1>10 DEF IInv

\* Every step keeps the invariant.
LEMMA NextKeeps ==
  ASSUME IInv, [Next]_vars
  PROVE  IInv'
<1>1. CASE UNCHANGED vars
  <2>1. \A x \in Chains : SameQueues(gate[x], gate'[x]) /\ SameSuspension(gate[x], gate'[x])
    BY <1>1, SameKeeps DEF vars
  <2>2. TypeOK'
    BY <1>1 DEF vars, IInv, TypeOK
  <2>3. Trust' /\ Named'
    BY <1>1, <2>1, QueuesKept DEF vars
  <2>4. Owned' /\ Suspended'
    BY <1>1, <2>1, OtherCallKeeps DEF vars
  <2> QED BY <2>2, <2>3, <2>4 DEF IInv
<1>2. ASSUME NEW t \in Threads, NEW S \in SUBSET (Chains \ Native) \ {{}}, NEW m \in Marks, Record(t, S, m)
      PROVE  IInv'
  BY <1>2, RecordKeeps
<1>3. ASSUME NEW t \in Threads, NEW q \in Queues, Execute(t, q)
      PROVE  IInv'
  BY <1>3, ExecuteKeeps
<1>4. ASSUME NEW t \in Threads, NEW s \in Chains, Note(t, s)
      PROVE  IInv'
  BY <1>4, NoteKeeps
<1>5. ASSUME NEW t \in Threads, NEW s \in Chains, NEW kind \in Kinds, Begin(t, s, kind)
      PROVE  IInv'
  BY <1>5, BeginKeeps
<1>6. ASSUME NEW t \in Threads, NEW in \in Inputs, Process(t, in) \/ RouteD3D12(t, in)
      PROVE  IInv'
  BY <1>6, ProcessKeeps, RouteD3D12Keeps
<1>7. ASSUME NEW t \in Threads, Claim(t) \/ RouteD3D11(t) \/ Leave(t) \/ Update(t) \/ Resync(t)
      PROVE  IInv'
  BY <1>7, ClaimKeeps, RouteD3D11Keeps, LeaveKeeps, UpdateKeeps, ResyncKeeps
<1>8. ASSUME NEW t \in Threads, NEW ok \in BOOLEAN, Return(t, ok)
      PROVE  IInv'
  BY <1>8, ReturnKeeps
<1>9. ASSUME NEW s \in Chains, NEW q \in Queues, Create(s, q)
      PROVE  IInv'
  BY <1>9, CreateKeeps
<1>10. ASSUME NEW s \in Chains, Resize(s) \/ Recolor(s) \/ Quieten(s)
       PROVE  IInv'
  BY <1>10, ResizeKeeps, RecolorKeeps, QuietenKeeps
<1> QED BY <1>1, <1>2, <1>3, <1>4, <1>5, <1>6, <1>7, <1>8, <1>9, <1>10 DEF Next

\* The invariant holds of every state.
THEOREM Invariant == Spec => []IInv
<1>1. Init => IInv
  BY InitIInv
<1>2. IInv /\ [Next]_vars => IInv'
  BY NextKeeps
<1> QED BY <1>1, <1>2, PTL DEF Spec

\* Every state of the detours is of its type (dxgi_hooks.cpp:38-60).
THEOREM TypeCorrect == Spec => []TypeOK
<1>1. IInv => TypeOK
  BY DEF IInv
<1> QED BY <1>1, Invariant, PTL

\* A pipeline works for a Present that was alone from its look at the suspension to its
\* claim only after a clean Present was recorded since the last failure, and with no
\* history from before it (dxgi_hooks.cpp:155-172, 269-277).
THEOREM ResumesClean == Spec => []CleanFirst
<1>1. IInv => CleanFirst
  <2> SUFFICES ASSUME IInv, NEW t \in Threads, calls[t].pc = "use", calls[t].alone
               PROVE  LET s == calls[t].chain IN ~unclean[s] /\ ~gate[s].pipe.lost
    BY DEF CleanFirst
  <2> DEFINE s == calls[t].chain
  <2>1. calls[t].owns /\ s \in Chains /\ ~gate[s].suppressed /\ ~gate[s].pipe.lost
    BY DEF IInv, Owned, OwnerOf, Suspended, Quiet, Working
  <2>2. ~Failing(s)
    BY <2>1 DEF IInv, Owned, OneOwner, Failing
  <2> QED BY <2>1, <2>2 DEF IInv, Suspended, Remembered
<1> QED BY <1>1, Invariant, PTL

\* Only the D3D12 branch starts a D3D12 pipeline's work.
LEMMA OnlyD3D12Starts ==
  ASSUME IInv, Next, NEW t \in Threads, calls'[t].pc = "use", calls[t].pc # "use", calls[t].chain \notin Native
  PROVE  \E in \in Inputs : RouteD3D12(t, in)
<1>1. calls \in [Threads -> CallType]
  BY DEF IInv, TypeOK
<1>2. Idle.pc = "idle"
  BY DEF Idle
<1>3. calls' # calls
  OBVIOUS
<1>4. ASSUME NEW u \in Threads, NEW call, calls' = [calls EXCEPT ![u] = call], call.pc # "use"
      PROVE  FALSE
  BY <1>1, <1>4
<1>5. ASSUME NEW u \in Threads, NEW S \in SUBSET (Chains \ Native) \ {{}}, NEW m \in Marks, Record(u, S, m)
      PROVE  FALSE
  BY <1>3, <1>5 DEF Record
<1>6. ASSUME NEW u \in Threads, NEW q \in Queues, Execute(u, q)
      PROVE  FALSE
  <2> DEFINE touch == [touches[u] EXCEPT !.chains = {s \in touches[u].chains : gate[s].registered}]
             call == [Idle EXCEPT !.pc = "note", !.queue = q, !.touch = touch]
  <2>1. calls' = [calls EXCEPT ![u] = call]
    BY <1>3, <1>6, Zenon DEF Execute
  <2>2. call.pc = "note"
    <3> HIDE DEF touch
    <3> QED BY DEF Idle
  <2> HIDE DEF call
  <2> QED BY <1>4, <2>1, <2>2
<1>7. ASSUME NEW u \in Threads, NEW s \in Chains, Note(u, s)
      PROVE  FALSE
  <2>1. calls[u].pc = "note" /\ calls[u] \in CallType
    BY <1>1, <1>7 DEF Note
  <2> DEFINE rest == calls[u].touch.chains \ {s}
             call == IF rest = {} THEN Idle ELSE [calls[u] EXCEPT !.touch.chains = rest]
  <2>2. calls' = [calls EXCEPT ![u] = call]
    BY <1>1, <1>7 DEF Note
  <2>3. call.pc # "use"
    BY <1>2, <2>1 DEF CallType
  <2> HIDE DEF call
  <2> QED BY <1>4, <2>2, <2>3
<1>8. ASSUME NEW u \in Threads, NEW s \in Chains, NEW kind \in Kinds, Begin(u, s, kind)
      PROVE  FALSE
  <2>1. calls'[u].pc # "use" /\ \A x \in Threads : x # u => calls'[x].pc = calls[x].pc
    <3> DEFINE pc == IF kind = "plain" /\ ~gate[s].suppressed THEN "claim" ELSE "present"
               alone == \A v \in Threads \ {u} : calls[v].chain # s
               call == [Idle EXCEPT !.pc = pc, !.chain = s, !.kind = kind, !.alone = alone]
    <3>1. calls' = [x \in Threads |-> IF x = u THEN call
                                     ELSE IF calls[x].chain = s /\ calls[x].pc = "claim" THEN [calls[x] EXCEPT !.alone = FALSE]
                                     ELSE calls[x]]
      BY <1>8, Zenon DEF Begin
    <3>2. call.pc = pc /\ pc # "use"
      <4> HIDE DEF alone
      <4> QED BY DEF Idle
    <3>3. \A x \in Threads : calls[x] \in CallType
      BY <1>1
    <3> HIDE DEF call, pc
    <3> QED BY <3>1, <3>2, <3>3 DEF CallType
  <2> QED BY <2>1
<1>9. ASSUME NEW u \in Threads, Claim(u) \/ (\E in \in Inputs : Process(u, in)) \/ Leave(u) \/ (\E ok \in BOOLEAN : Return(u, ok))
      PROVE  FALSE
  <2>1. calls[u] \in CallType
    BY <1>1
  <2>2. calls'[u].pc # "use" /\ \A x \in Threads : x # u => calls'[x] = calls[x]
    BY <1>1, <1>9, <2>1 DEF Claim, Process, Leave, Return, Goes, CallType
  <2> QED BY <2>2
<1>10. ASSUME NEW u \in Threads, Update(u) \/ Resync(u)
       PROVE  FALSE
  <2>1. calls[u] \in CallType
    BY <1>1
  <2>2. calls'[u].pc # "use" /\ \A x \in Threads : x # u => calls'[x] = calls[x]
    BY <1>1, <1>2, <1>10, <2>1 DEF Update, Resync, CallType
  <2> QED BY <2>2
<1>11. ASSUME NEW u \in Threads, RouteD3D11(u)
       PROVE  FALSE
  <2>1. calls[u].chain \in Native /\ calls[u] \in CallType
    BY <1>1, <1>11 DEF RouteD3D11
  <2>2. \A x \in Threads : x # u => calls'[x] = calls[x]
    BY <1>1, <1>11 DEF RouteD3D11, Goes
  <2> QED BY <2>1, <2>2
<1>12. ASSUME NEW s \in Chains, (\E q \in Queues : Create(s, q)) \/ Resize(s) \/ Recolor(s) \/ Quieten(s)
       PROVE  FALSE
  BY <1>3, <1>12 DEF Create, Resize, Recolor, Quieten
<1>13. ASSUME NEW u \in Threads, NEW in \in Inputs, RouteD3D12(u, in)
       PROVE  \E i \in Inputs : RouteD3D12(t, i)
  <2>1. \A x \in Threads : x # u => calls'[x] = calls[x]
    <3> DEFINE s == calls[u].chain
               route == Route(gate[s].proof, gate[s].evidence, in.external)
               proven == IF route.queue = None THEN None ELSE gate[s].q12
    <3>1. PICK pipe \in PipeType, built \in BOOLEAN, pc \in {"use", "present"}, on \in SomeQueue, id \in SomeQueue :
            /\ gate' = [gate EXCEPT ![s].registered = TRUE, ![s].pipe = pipe, ![s].built = built]
            /\ calls' = [calls EXCEPT ![u].pc = pc, ![u].queue = on, ![u].id = id]
            /\ pipe.lost => gate[s].pipe.lost
            /\ \/ pipe.on = gate[s].pipe.on /\ pipe.label = gate[s].pipe.label
               \/ pipe.on = proven /\ pipe.label = route.queue /\ proven # None
               \/ pipe.on = None /\ pipe.label = None
            /\ pc = "use" => on = pipe.on /\ id = route.queue /\ pipe.label = route.queue /\ proven # None
      BY <1>13, RouteD3D12Chooses
    <3> QED BY <1>1, <3>1
  <2> QED BY <1>13, <2>1
<1> QED BY <1>5, <1>6, <1>7, <1>8, <1>9, <1>10, <1>11, <1>12, <1>13 DEF Next

\* A D3D12 pipeline starts to work on its route's queue, which was shown to present the
\* swapchain (dxgi_hooks.cpp:231-249, d3d12_route_policy.hpp).
THEOREM WorksOnShown == Spec => WorksOnShownQueue
<1>1. ASSUME IInv, Next PROVE StartsOnShown
  <2> SUFFICES ASSUME NEW t \in Threads, calls'[t].pc = "use", calls[t].pc # "use",
                      calls[t].chain \notin Native \cup strayed
               PROVE  calls'[t].queue = calls'[t].id /\ Shown(seen[calls[t].chain], calls'[t].id)
    BY DEF StartsOnShown
  <2>1. PICK in \in Inputs : RouteD3D12(t, in)
    BY <1>1, OnlyD3D12Starts
  <2> DEFINE s == calls[t].chain
             route == Route(gate[s].proof, gate[s].evidence, in.external)
             proven == IF route.queue = None THEN None ELSE gate[s].q12
  <2>2. /\ s \in Chains /\ gate[s].proof \in ProofType /\ gate[s].evidence \in EvidenceType /\ seen[s] \in SeenType
        /\ in.external \in BOOLEAN /\ calls[t] \in CallType
        /\ ProofShown(gate[s].proof, seen[s]) /\ EvidenceShown(gate[s].evidence, seen[s])
    <3>1. s \in Chains
      BY <1>1, <2>1 DEF IInv, Owned, OwnerOf, RouteD3D12, At
    <3> QED BY <1>1, <3>1, GateAssumption DEF IInv, TypeOK, GateType, Trust
  <2>3. PICK pipe \in PipeType, built \in BOOLEAN, pc \in {"use", "present"}, on \in SomeQueue, id \in SomeQueue :
          /\ gate' = [gate EXCEPT ![s].registered = TRUE, ![s].pipe = pipe, ![s].built = built]
          /\ calls' = [calls EXCEPT ![t].pc = pc, ![t].queue = on, ![t].id = id]
          /\ pipe.lost => gate[s].pipe.lost
          /\ \/ pipe.on = gate[s].pipe.on /\ pipe.label = gate[s].pipe.label
             \/ pipe.on = proven /\ pipe.label = route.queue /\ proven # None
             \/ pipe.on = None /\ pipe.label = None
          /\ pc = "use" => on = pipe.on /\ id = route.queue /\ pipe.label = route.queue /\ proven # None
    BY <1>1, <2>1, RouteD3D12Chooses
  <2>4. calls'[t].queue = on /\ calls'[t].id = id /\ pc = "use"
    BY <1>1, <2>2, <2>3 DEF IInv, TypeOK, CallType
  <2>5. s \notin strayed
    OBVIOUS
  <2>6. proven \in {None, route.queue} /\ gate[s].pipe.on = gate[s].pipe.label
    <3>1. route.queue = Route(gate[s].proof, gate[s].evidence, FALSE).queue
      BY <2>2, RouteIsTyped
    <3>2. gate[s].q12 \in {None, Route(gate[s].proof, gate[s].evidence, FALSE).queue}
          /\ gate[s].pipe.on = gate[s].pipe.label
      BY <1>1, <2>2, <2>5 DEF IInv, Named
    <3> HIDE DEF route
    <3> QED BY <3>1, <3>2
  <2>7. route.queue # None
    BY <2>3, <2>4
  <2>8. Shown(seen[s], route.queue)
    BY <2>2, <2>7, RouteIsShown
  <2> HIDE DEF route, proven
  <2>9. on = id /\ id = route.queue
    BY <2>3, <2>4, <2>6
  <2> QED BY <2>4, <2>8, <2>9
<1>2. IInv /\ [Next]_vars => [StartsOnShown]_vars
  BY <1>1
<1> QED BY <1>2, Invariant, PTL DEF Spec, WorksOnShownQueue
===============================================================================
