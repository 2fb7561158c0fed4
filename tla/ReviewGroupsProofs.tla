------------------------- MODULE ReviewGroupsProofs -------------------------
(***************************************************************************)
(* Theorems about ReviewGroups, for any findings, workers, releases and    *)
(* profiles, on PostgreSQL and on SQLite: one generation is active, what   *)
(* was reported as grouped stays under review, decisions stay linked, both *)
(* procedures group alike, and the queue is fair.                          *)
(*                                                                         *)
(* What an activated generation holds can only grow because the digest is  *)
(* read under the snapshot's lock: every complete generation holds less    *)
(* than a worker that has read its digest, and than the active one.        *)
(***************************************************************************)
EXTENDS ReviewGroups, FiniteSetTheorems, WellFoundedInduction, TLAPS

\* The work of a worker is a record of four fields.
Shaped(x) == x = [at |-> x.at, kind |-> x.kind, digest |-> x.digest, groups |-> x.groups]

WorkShape == work = [w \in Workers |-> work[w]] /\ \A w \in Workers : Shaped(work[w])

Busy(w) == work[w].at # "idle"

\* One worker at a time holds the snapshot.
OneBusy == \A v, w \in Workers : Busy(v) /\ Busy(w) => v = w

\* A digest that was read is of stored findings, and of all that any complete
\* generation holds.
DigestIsNewest ==
    \A w \in Workers : Busy(w) =>
        /\ work[w].digest.findings \subseteq Stored
        /\ \A r \in runs : r.digest.findings \subseteq work[w].digest.findings

RunsAreStored == \A r \in runs : r.digest.findings \subseteq Stored

ActiveIsNewest == \A r \in runs, d \in active : r.digest.findings \subseteq d.findings

\* Whatever was reported as grouped is in some complete generation.
GroupedIsRun == \A f \in grouped : \E r \in runs : f \in r.digest.findings

GroupsInv ==
    /\ WorkShape /\ OneBusy /\ DigestIsNewest /\ RunsAreStored
    /\ OneActiveGeneration /\ ActiveIsNewest /\ GroupedIsRun

-----------------------------------------------------------------------------

LEMMA InitGroups == Init => GroupsInv
BY DEF Init, GroupsInv, WorkShape, Shaped, Step, Idle, OneBusy, Busy, DigestIsNewest, RunsAreStored,
       OneActiveGeneration, ActiveIsNewest, GroupedIsRun

\* Whatever stops a worker changes no table.
LEMMA StopKeeps ==
    ASSUME GroupsInv, NEW w \in Workers, Stop(w)
    PROVE  GroupsInv'
<1>1. work' = [v \in Workers |-> IF v = w THEN Idle ELSE work[v]]
  BY DEF Stop, GroupsInv, WorkShape
<1>2. UNCHANGED <<found, runs, active, grouped>>
  BY DEF Stop, tables
<1>3. WorkShape' /\ \A v \in Workers : Busy(v)' => Busy(v) /\ work'[v] = work[v]
  BY <1>1 DEF GroupsInv, WorkShape, Shaped, Step, Idle, Busy
<1>4. OneBusy' /\ DigestIsNewest'
  BY <1>2, <1>3 DEF GroupsInv, OneBusy, DigestIsNewest, Busy, Stored
<1>5. RunsAreStored' /\ OneActiveGeneration' /\ ActiveIsNewest' /\ GroupedIsRun'
  BY <1>2 DEF GroupsInv, RunsAreStored, OneActiveGeneration, ActiveIsNewest, GroupedIsRun, Stored
<1> QED BY <1>3, <1>4, <1>5 DEF GroupsInv

LEMMA AddFindingKeeps ==
    ASSUME GroupsInv, NEW f \in Findings, NEW p, AddFinding(f, p)
    PROVE  GroupsInv'
<1>1. Stored \subseteq Stored' /\ UNCHANGED <<runs, active, grouped, work>>
  BY DEF AddFinding, Stored, tables
<1> QED BY <1>1 DEF GroupsInv, WorkShape, OneBusy, Busy, DigestIsNewest, RunsAreStored,
                OneActiveGeneration, ActiveIsNewest, GroupedIsRun

\* The digest is read while nobody else holds the snapshot.
LEMMA BeginKeeps ==
    ASSUME GroupsInv, NEW w \in Workers, NEW kind, NEW r, Begin(w, kind, r)
    PROVE  GroupsInv'
<1> DEFINE new == Step("digested", kind, Digest(r), {})
<1>1. work' = [v \in Workers |-> IF v = w THEN new ELSE work[v]]
  BY DEF Begin, GroupsInv, WorkShape
<1>2. UNCHANGED <<found, runs, active, grouped>>
  BY DEF Begin, tables
<1>3. Shaped(new) /\ new.digest.findings = Stored
  BY DEF Shaped, Step, Digest
<1> HIDE DEF new
<1>4. WorkShape'
  BY <1>1, <1>3 DEF GroupsInv, WorkShape
<1>5. \A v \in Workers : v # w => ~Busy(v)'
  BY <1>1 DEF Begin, SnapshotFree, Busy
<1>6. OneBusy'
  BY <1>5 DEF OneBusy
<1>7. work'[w].digest.findings = Stored
  BY <1>1, <1>3
<1>8. DigestIsNewest'
  BY <1>2, <1>5, <1>7 DEF GroupsInv, DigestIsNewest, RunsAreStored, Stored
<1>9. RunsAreStored' /\ OneActiveGeneration' /\ ActiveIsNewest' /\ GroupedIsRun'
  BY <1>2 DEF GroupsInv, RunsAreStored, OneActiveGeneration, ActiveIsNewest, GroupedIsRun, Stored
<1> QED BY <1>4, <1>6, <1>8, <1>9 DEF GroupsInv

LEMMA BuildKeeps ==
    ASSUME GroupsInv, NEW w \in Workers, Build(w)
    PROVE  GroupsInv'
<1> DEFINE groups == Indexed(Stored, found, Ids[work[w].digest.release])
           new    == Step("built", work[w].kind, work[w].digest, groups)
<1>1. work' = [v \in Workers |-> IF v = w THEN new ELSE work[v]]
  BY DEF Build, GroupsInv, WorkShape
<1>2. UNCHANGED <<found, runs, active, grouped>> /\ Busy(w)
  BY DEF Build, tables, Busy
<1> HIDE DEF groups
<1>4. Shaped(new) /\ new.digest = work[w].digest
  BY DEF Shaped, Step
<1> HIDE DEF new
<1>5. WorkShape'
  BY <1>1, <1>4 DEF GroupsInv, WorkShape
<1>6. \A v \in Workers : (Busy(v)' => Busy(v)) /\ work'[v].digest = work[v].digest
  BY <1>1, <1>2, <1>4 DEF Busy
<1>7. OneBusy' /\ DigestIsNewest'
  BY <1>2, <1>6 DEF GroupsInv, OneBusy, DigestIsNewest, Stored
<1>8. RunsAreStored' /\ OneActiveGeneration' /\ ActiveIsNewest' /\ GroupedIsRun'
  BY <1>2 DEF GroupsInv, RunsAreStored, OneActiveGeneration, ActiveIsNewest, GroupedIsRun, Stored
<1> QED BY <1>5, <1>7, <1>8 DEF GroupsInv

\* After a commit nobody is busy, so nothing is left to say of digests.
LEMMA CommitFrees ==
    ASSUME GroupsInv, NEW w \in Workers, Busy(w), work' = [work EXCEPT ![w] = Idle]
    PROVE  WorkShape' /\ OneBusy' /\ DigestIsNewest'
<1>1. work' = [v \in Workers |-> IF v = w THEN Idle ELSE work[v]]
  BY DEF GroupsInv, WorkShape
<1>2. \A v \in Workers : ~Busy(v)'
  BY <1>1 DEF GroupsInv, OneBusy, Busy, Step, Idle
<1>3. Shaped(Idle) BY DEF Shaped, Step, Idle
<1>4. WorkShape'
  <2>1. \A v \in Workers : Shaped(work[v]) BY DEF GroupsInv, WorkShape
  <2>2. \A v \in Workers : Shaped(work'[v]) BY <1>1, <1>3, <2>1
  <2> QED BY <1>1, <2>2 DEF WorkShape, Shaped
<1> QED BY <1>2, <1>4 DEF OneBusy, DigestIsNewest

LEMMA CommitReusedKeeps ==
    ASSUME GroupsInv, NEW w \in Workers, CommitReused(w)
    PROVE  GroupsInv'
<1> DEFINE d == work[w].digest
<1>1. Busy(w) /\ work' = [work EXCEPT ![w] = Idle] /\ UNCHANGED <<found, runs>>
  BY DEF CommitReused, Busy
<1>2. WorkShape' /\ OneBusy' /\ DigestIsNewest'
  BY <1>1, CommitFrees
<1>3. PICK q \in runs : q.digest = d
  BY DEF CommitReused, Prior
<1>4. \A r \in runs : r.digest.findings \subseteq d.findings
  BY <1>1 DEF GroupsInv, DigestIsNewest
<1>5. active' = {d} \/ active' = active
  BY DEF CommitReused, Activated
<1>6. OneActiveGeneration' /\ ActiveIsNewest'
  <2>1. CASE active' = {d}
    BY <2>1, <1>1, <1>3, <1>4 DEF OneActiveGeneration, ActiveIsNewest
  <2>2. CASE active' = active
    BY <2>2, <1>1 DEF GroupsInv, OneActiveGeneration, ActiveIsNewest
  <2> QED BY <1>5, <2>1, <2>2
<1>7. GroupedIsRun'
  BY <1>1, <1>3 DEF GroupsInv, GroupedIsRun, CommitReused
<1>8. RunsAreStored'
  BY <1>1 DEF GroupsInv, RunsAreStored, Stored
<1> QED BY <1>2, <1>6, <1>7, <1>8 DEF GroupsInv

LEMMA CommitBuiltKeeps ==
    ASSUME GroupsInv, NEW w \in Workers, CommitBuilt(w)
    PROVE  GroupsInv'
<1> DEFINE d   == work[w].digest
           run == [digest |-> d, no |-> Cardinality(runs) + 1, groups |-> work[w].groups]
<1>1. Busy(w) /\ work' = [work EXCEPT ![w] = Idle] /\ UNCHANGED found
  BY DEF CommitBuilt, Busy
<1>2. runs' = runs \cup {run} /\ active' = {d} /\ grouped' = grouped \cup d.findings
  BY DEF CommitBuilt, Activated
<1>3. run.digest = d
  OBVIOUS
<1> HIDE DEF run
<1>4. WorkShape' /\ OneBusy' /\ DigestIsNewest'
  BY <1>1, CommitFrees
<1>5. \A r \in runs' : r.digest.findings \subseteq d.findings
  BY <1>1, <1>2, <1>3 DEF GroupsInv, DigestIsNewest
<1>6. OneActiveGeneration' /\ ActiveIsNewest'
  BY <1>2, <1>3, <1>5 DEF OneActiveGeneration, ActiveIsNewest
<1>7. d.findings \subseteq Stored
  BY <1>1 DEF GroupsInv, DigestIsNewest
<1>8. RunsAreStored' /\ GroupedIsRun'
  BY <1>1, <1>2, <1>3, <1>7 DEF GroupsInv, RunsAreStored, GroupedIsRun, Stored
<1> QED BY <1>4, <1>6, <1>8 DEF GroupsInv

-----------------------------------------------------------------------------

LEMMA NextGroups == GroupsInv /\ [Next]_vars => GroupsInv'
<1> SUFFICES ASSUME GroupsInv, [Next]_vars PROVE GroupsInv'
  OBVIOUS
<1>1. CASE UNCHANGED vars
  BY <1>1 DEF vars, GroupsInv, WorkShape, OneBusy, Busy, DigestIsNewest, RunsAreStored, Stored,
              OneActiveGeneration, ActiveIsNewest, GroupedIsRun
<1>2. ASSUME NEW f \in Findings, NEW p \in Profiles[f], AddFinding(f, p) PROVE GroupsInv'
  BY <1>2, AddFindingKeeps
<1>3. ASSUME NEW w \in Workers, NEW kind, NEW r \in Releases, Begin(w, kind, r) PROVE GroupsInv'
  BY <1>3, BeginKeeps
<1>4. ASSUME NEW w \in Workers, Build(w) \/ Incomplete(w) \/ Fail(w) \/ CommitReused(w) \/ CommitBuilt(w)
      PROVE  GroupsInv'
  BY <1>4, BuildKeeps, StopKeeps, CommitReusedKeeps, CommitBuiltKeeps DEF Incomplete, Fail
<1>5. ASSUME NEW g, NEW verdict, Decide(g, verdict) PROVE GroupsInv'
  BY <1>5 DEF Decide, GroupsInv, WorkShape, OneBusy, Busy, DigestIsNewest, RunsAreStored, Stored,
              OneActiveGeneration, ActiveIsNewest, GroupedIsRun
<1> QED BY <1>1, <1>2, <1>3, <1>4, <1>5 DEF Next

LEMMA GroupsInductive == Spec => []GroupsInv
BY InitGroups, NextGroups, PTL DEF Spec

\* At most one generation of a snapshot is active, a complete one, and there is
\* one as soon as any was published, whatever failures, reactivations and
\* releases came between.
THEOREM OneGeneration == Spec => []OneActiveGeneration
BY GroupsInductive, PTL DEF GroupsInv

\* What a grouping stage has reported as grouped never drops out of the active
\* generation.
THEOREM GroupedStays == Spec => []GroupedStaysGrouped
<1>1. GroupsInv => GroupedStaysGrouped
  <2> SUFFICES ASSUME GroupsInv, NEW f \in grouped PROVE f \in UNION {d.findings : d \in active}
    BY DEF GroupedStaysGrouped
  <2>1. PICK r \in runs : f \in r.digest.findings
    BY DEF GroupsInv, GroupedIsRun
  <2>2. PICK d \in active : TRUE
    BY <2>1 DEF GroupsInv, OneActiveGeneration
  <2>3. f \in d.findings
    BY <2>1, <2>2 DEF GroupsInv, ActiveIsNewest
  <2> QED BY <2>2, <2>3
<1> QED BY <1>1, GroupsInductive, PTL

-----------------------------------------------------------------------------
(* Decisions stay within reach.                                            *)

\* Generations are numbered in the order they were published, and what a worker
\* has built is of a digest that no generation has.
Numbered == IsFiniteSet(runs) /\ \A r \in runs : r.no \in Nat /\ r.no <= Cardinality(runs)
BuiltIsNew == \A w \in Workers : work[w].at = "built" => Prior(work[w].digest) = {}

LinksInv == GroupsInv /\ Numbered /\ BuiltIsNew /\ ReplacementsAreLinked

\* A step that publishes no generation.
LEMMA NothingPublished ==
    ASSUME LinksInv, GroupsInv', runs' = runs, links \subseteq links',
           \A w \in Workers : work'[w].at = "built" =>
               \/ work[w].at = "built" /\ work'[w].digest = work[w].digest
               \/ Prior(work'[w].digest) = {}
    PROVE  LinksInv'
<1>1. \A d : Prior(d)' = Prior(d)
  BY DEF Prior
<1>2. Numbered' /\ BuiltIsNew'
  BY <1>1 DEF LinksInv, Numbered, BuiltIsNew
<1>3. ReplacementsAreLinked'
  BY DEF LinksInv, ReplacementsAreLinked, Overlap, GroupsOf, Id, GroupId
<1> QED BY <1>2, <1>3 DEF LinksInv

\* A generation that is published is linked from every earlier one.
LEMMA CommitBuiltLinks ==
    ASSUME LinksInv, NEW w \in Workers, CommitBuilt(w)
    PROVE  LinksInv'
<1> DEFINE d   == work[w].digest
           run == [digest |-> d, no |-> Cardinality(runs) + 1, groups |-> work[w].groups]
<1>1. Busy(w) /\ Prior(d) = {} /\ IsFiniteSet(runs) /\ Cardinality(runs) \in Nat
  BY FS_CardinalityType DEF CommitBuilt, Busy, LinksInv, BuiltIsNew, Numbered
<1>2. runs' = runs \cup {run} /\ links' = links \cup NewLinks(w) /\ work' = [work EXCEPT ![w] = Idle]
  BY DEF CommitBuilt
<1>3. run.digest = d /\ run.no = Cardinality(runs) + 1 /\ run.groups = work[w].groups
  OBVIOUS
<1> HIDE DEF run
<1>4. run \notin runs
  BY <1>1, <1>3 DEF Prior
<1>5. IsFiniteSet(runs') /\ Cardinality(runs') = Cardinality(runs) + 1
  BY <1>1, <1>2, <1>4, FS_AddElement
<1>6. Numbered'
  <2>1. ASSUME NEW r \in runs' PROVE r.no \in Nat /\ r.no <= Cardinality(runs) + 1
    <3>1. r \in runs => r.no \in Nat /\ r.no <= Cardinality(runs)
      BY DEF LinksInv, Numbered
    <3> QED BY <1>1, <1>2, <1>3, <3>1
  <2> QED BY <1>5, <2>1 DEF Numbered
<1>7. BuiltIsNew'
  <2>1. work' = [v \in Workers |-> IF v = w THEN Idle ELSE work[v]]
    BY <1>2 DEF LinksInv, GroupsInv, WorkShape
  <2>2. \A v \in Workers : work'[v].at # "built"
    BY <1>1, <2>1 DEF LinksInv, GroupsInv, OneBusy, Busy, Step, Idle
  <2> QED BY <2>2 DEF BuiltIsNew
<1>8. ASSUME NEW r \in runs', NEW q \in runs', r.no < q.no,
             NEW pair \in Overlap(GroupsOf({r}), GroupsOf({q}))
      PROVE  <<Id(pair[1]), Id(pair[2])>> \in links'
  <2>1. CASE q \in runs
    <3>1. r \in runs
      BY <1>1, <1>2, <1>3, <1>8, <2>1 DEF LinksInv, Numbered
    <3> QED BY <1>2, <1>8, <2>1, <3>1 DEF LinksInv, ReplacementsAreLinked
  <2>2. CASE q = run
    <3>1. r \in runs /\ r.digest # d
      BY <1>1, <1>2, <1>3, <1>8, <2>2 DEF Prior
    <3> DEFINE new == {[of |-> d, group |-> g] : g \in work[w].groups}
    <3>2. GroupsOf({q}) = new
      BY <1>3, <2>2 DEF GroupsOf
    <3>3. GroupsOf({r}) \subseteq GroupsOf(Earlier(d))
      BY <3>1 DEF GroupsOf, Earlier
    <3>4. pair \in Overlap(GroupsOf(Earlier(d)), new)
      BY <1>8, <3>2, <3>3 DEF Overlap
    <3>5. <<Id(pair[1]), Id(pair[2])>> \in NewLinks(w)
      BY <3>4 DEF NewLinks
    <3> QED BY <1>2, <3>5
  <2> QED BY <1>2, <2>1, <2>2
<1>9. ReplacementsAreLinked'
  BY <1>8 DEF ReplacementsAreLinked, Overlap, GroupsOf, Id, GroupId
<1> QED BY <1>6, <1>7, <1>9, CommitBuiltKeeps DEF LinksInv

LEMMA InitLinks == Init => LinksInv
BY InitGroups, FS_EmptySet DEF Init, LinksInv, Numbered, BuiltIsNew, ReplacementsAreLinked, Step, Idle

LEMMA NextLinks == LinksInv /\ [Next]_vars => LinksInv'
<1> SUFFICES ASSUME LinksInv, [Next]_vars PROVE LinksInv'
  OBVIOUS
<1>0. GroupsInv' /\ WorkShape
  BY NextGroups DEF LinksInv, GroupsInv
<1>1. CASE UNCHANGED vars
  BY <1>0, <1>1, NothingPublished DEF vars
<1>2. ASSUME NEW f \in Findings, NEW p \in Profiles[f], AddFinding(f, p) PROVE LinksInv'
  BY <1>0, <1>2, NothingPublished DEF AddFinding, tables
<1>3. ASSUME NEW w \in Workers, NEW kind, NEW r \in Releases, Begin(w, kind, r) PROVE LinksInv'
  <2>1. work' = [v \in Workers |-> IF v = w THEN Step("digested", kind, Digest(r), {}) ELSE work[v]]
    BY <1>0, <1>3 DEF Begin, WorkShape
  <2> QED BY <1>0, <1>3, <2>1, NothingPublished DEF Begin, tables, Step
<1>4. ASSUME NEW w \in Workers, Build(w) PROVE LinksInv'
  <2> DEFINE groups == Indexed(Stored, found, Ids[work[w].digest.release])
  <2>1. work' = [v \in Workers |-> IF v = w THEN Step("built", work[w].kind, work[w].digest, groups)
            ELSE work[v]]
    BY <1>0, <1>4 DEF Build, WorkShape
  <2> HIDE DEF groups
  <2>2. Prior(work[w].digest) = {} /\ UNCHANGED <<runs, links>>
    BY <1>4 DEF Build, tables
  <2> QED BY <1>0, <2>1, <2>2, NothingPublished DEF Step
<1>5. ASSUME NEW w \in Workers, Stop(w) PROVE LinksInv'
  <2>1. work' = [v \in Workers |-> IF v = w THEN Idle ELSE work[v]]
    BY <1>0, <1>5 DEF Stop, WorkShape
  <2> QED BY <1>0, <1>5, <2>1, NothingPublished DEF Stop, tables, Step, Idle
<1>6. ASSUME NEW w \in Workers, CommitReused(w) PROVE LinksInv'
  <2>1. work' = [v \in Workers |-> IF v = w THEN Idle ELSE work[v]]
    BY <1>0, <1>6 DEF CommitReused, WorkShape
  <2> QED BY <1>0, <1>6, <2>1, NothingPublished DEF CommitReused, Step, Idle
<1>7. ASSUME NEW w \in Workers, CommitBuilt(w) PROVE LinksInv'
  BY <1>7, CommitBuiltLinks
<1>8. ASSUME NEW g, NEW verdict, Decide(g, verdict) PROVE LinksInv'
  BY <1>0, <1>8, NothingPublished DEF Decide
<1> QED BY <1>1, <1>2, <1>3, <1>4, <1>5, <1>6, <1>7, <1>8 DEF Next, Incomplete, Fail

\* However often a snapshot is grouped anew, by whatever release, and whichever
\* generation is active: from any group of any generation the links lead to all
\* groups of later generations that share a finding with it.
THEOREM LinksReach == Spec => []ReplacementsAreLinked
<1>1. LinksInv => ReplacementsAreLinked
  BY DEF LinksInv
<1> QED BY <1>1, InitLinks, NextLinks, PTL DEF Spec

-----------------------------------------------------------------------------
(* Both procedures take the findings one by one.                           *)

LEMMA LeastNumber == ASSUME NEW S, S \subseteq Nat, S # {} PROVE \E m \in S : \A k \in S : m <= k
<1> DEFINE R == OpToRel(<, Nat)
<1>1. IsWellFoundedOn(R, Nat)
  BY NatLessThanWellFounded
<1>2. \A x, y \in Nat : <<y, x>> \in R <=> y < x
  BY DEF OpToRel
<1> HIDE DEF R
<1>3. PICK m \in S : \A k \in S : <<k, m>> \notin R
  BY <1>1, WFMin
<1>4. ASSUME NEW k \in S PROVE m <= k
  <2>1. m \in Nat /\ k \in Nat
    OBVIOUS
  <2>2. ~(k < m)
    BY <1>2, <1>3, <2>1
  <2> QED BY <2>1, <2>2
<1> QED BY <1>4

\* A set of numbers that has 0 and with every number the next has them all.
LEMMA Counting ==
    ASSUME NEW n \in Nat, NEW T, 0 \in T, \A m \in 1 .. n : m - 1 \in T => m \in T
    PROVE  0 .. n \subseteq T
<1> DEFINE S == (0 .. n) \ T
<1> SUFFICES ASSUME S # {} PROVE FALSE
  OBVIOUS
<1>0. S \subseteq Nat
  OBVIOUS
<1>1. PICK m \in S : \A k \in S : m <= k
  <2> HIDE DEF S
  <2> QED BY <1>0, LeastNumber
<1>2. m \in 1 .. n /\ m - 1 \in 0 .. n
  BY <1>1
<1>3. m - 1 \notin S
  BY <1>1, <1>2
<1> QED BY <1>1, <1>2, <1>3

\* The groups of the reference after each finding.
Refers(a, S, prof, ids) ==
    /\ a[0] = {}
    /\ \A f \in 1 .. MaxFindings : a[f] = IF f \in S THEN Placed(a[f - 1], f, prof, ids) ELSE a[f - 1]

LEMMA ReferenceUnfolds ==
    ASSUME NEW S, NEW prof, NEW ids
    PROVE  \E a : Reference(S, prof, ids) = a[MaxFindings] /\ Refers(a, S, prof, ids)
<1> DEFINE Body(g, n) == [f \in 0 .. n |-> IF f = 0 THEN {}
                                           ELSE IF f \in S THEN Placed(g[f - 1], f, prof, ids)
                                               ELSE g[f - 1]]
           after == CHOOSE g : g = Body(g, MaxFindings)
           T == {n \in Nat : \E g : g = Body(g, n)}
<1>1. 0 \in T
  <2> DEFINE g == [f \in 0 .. 0 |-> {}]
  <2>1. g = Body(g, 0)
    OBVIOUS
  <2> HIDE DEF g, Body
  <2> QED BY <2>1
<1>2. ASSUME NEW m \in 1 .. MaxFindings, m - 1 \in T PROVE m \in T
  <2>0. m \in Nat /\ 0 .. m = (0 .. m - 1) \cup {m}
    BY FindingsAssumption
  <2>1. PICK g : g = Body(g, m - 1)
    BY <1>2
  <2> DEFINE next == IF m \in S THEN Placed(g[m - 1], m, prof, ids) ELSE g[m - 1]
             h == [f \in 0 .. m |-> IF f = m THEN next ELSE g[f]]
  <2>2. h[m] = next /\ \A f \in 0 .. m - 1 : h[f] = g[f]
    BY <2>0
  <2>3. ASSUME NEW f \in 0 .. m
        PROVE  h[f] = IF f = 0 THEN {} ELSE IF f \in S THEN Placed(h[f - 1], f, prof, ids) ELSE h[f - 1]
    <3>1. CASE f = m
      <4>1. h[m - 1] = g[m - 1]
        BY <2>0, <2>2
      <4> HIDE DEF h
      <4> QED BY <2>0, <2>2, <3>1, <4>1
    <3>2. CASE f \in 0 .. m - 1
      <4>1. g[f] = IF f = 0 THEN {} ELSE IF f \in S THEN Placed(g[f - 1], f, prof, ids) ELSE g[f - 1]
        BY <2>1, <3>2
      <4>2. h[f] = g[f] /\ (f # 0 => h[f - 1] = g[f - 1])
        BY <2>0, <2>2, <3>2
      <4> HIDE DEF h
      <4> QED BY <4>1, <4>2
    <3> QED BY <2>0, <3>1, <3>2
  <2>4. h = Body(h, m)
    BY <2>3
  <2> HIDE DEF h, Body
  <2> QED BY <2>0, <2>4
<1>3. MaxFindings \in T
  <2> HIDE DEF T
  <2>1. 0 .. MaxFindings \subseteq T
    BY <1>1, <1>2, Counting, FindingsAssumption
  <2> QED BY <2>1, FindingsAssumption
<1>4. after = Body(after, MaxFindings)
  <2> HIDE DEF Body
  <2> QED BY <1>3
<1>5. Reference(S, prof, ids) = after[MaxFindings]
  BY DEF Reference
<1> HIDE DEF after
<1>6. after[0] = {}
  <2>1. after[0] = Body(after, MaxFindings)[0]
    BY <1>4
  <2> QED BY <2>1, FindingsAssumption
<1>7. ASSUME NEW f \in 1 .. MaxFindings
      PROVE  after[f] = IF f \in S THEN Placed(after[f - 1], f, prof, ids) ELSE after[f - 1]
  <2>1. after[f] = Body(after, MaxFindings)[f]
    BY <1>4
  <2> QED BY <2>1, FindingsAssumption
<1> QED BY <1>5, <1>6, <1>7 DEF Refers

\* The index after each finding.
Shown(g) == [rep |-> g.rep, members |-> g.members]

Groups(rows) == {Shown(g) : g \in rows}

NoRows == [rows |-> {}, eligible |-> {}]

Indexes(a, S, prof, ids) ==
    /\ a[0] = NoRows
    /\ \A f \in 1 .. MaxFindings : a[f] = IF f \in S THEN Entered(a[f - 1], f, prof, ids) ELSE a[f - 1]

LEMMA IndexedUnfolds ==
    ASSUME NEW S, NEW prof, NEW ids
    PROVE  \E a : /\ Indexed(S, prof, ids) = Groups(a[MaxFindings].rows)
                 /\ Indexes(a, S, prof, ids)
<1> DEFINE Body(g, n) == [f \in 0 .. n |-> IF f = 0 THEN NoRows
                                           ELSE IF f \in S THEN Entered(g[f - 1], f, prof, ids)
                                               ELSE g[f - 1]]
           after == CHOOSE g : g = Body(g, MaxFindings)
           T == {n \in Nat : \E g : g = Body(g, n)}
<1>1. 0 \in T
  <2> DEFINE g == [f \in 0 .. 0 |-> NoRows]
  <2>1. g = Body(g, 0)
    OBVIOUS
  <2> HIDE DEF g, Body
  <2> QED BY <2>1
<1>2. ASSUME NEW m \in 1 .. MaxFindings, m - 1 \in T PROVE m \in T
  <2>0. m \in Nat /\ 0 .. m = (0 .. m - 1) \cup {m}
    BY FindingsAssumption
  <2>1. PICK g : g = Body(g, m - 1)
    BY <1>2
  <2> DEFINE next == IF m \in S THEN Entered(g[m - 1], m, prof, ids) ELSE g[m - 1]
             h == [f \in 0 .. m |-> IF f = m THEN next ELSE g[f]]
  <2>2. h[m] = next /\ \A f \in 0 .. m - 1 : h[f] = g[f]
    BY <2>0
  <2>3. ASSUME NEW f \in 0 .. m
        PROVE  h[f] = IF f = 0 THEN NoRows ELSE IF f \in S THEN Entered(h[f - 1], f, prof, ids)
            ELSE h[f - 1]
    <3>1. CASE f = m
      <4>1. h[m - 1] = g[m - 1]
        BY <2>0, <2>2
      <4> HIDE DEF h
      <4> QED BY <2>0, <2>2, <3>1, <4>1
    <3>2. CASE f \in 0 .. m - 1
      <4>1. g[f] = IF f = 0 THEN NoRows ELSE IF f \in S THEN Entered(g[f - 1], f, prof, ids) ELSE g[f - 1]
        BY <2>1, <3>2
      <4>2. h[f] = g[f] /\ (f # 0 => h[f - 1] = g[f - 1])
        BY <2>0, <2>2, <3>2
      <4> HIDE DEF h
      <4> QED BY <4>1, <4>2
    <3> QED BY <2>0, <3>1, <3>2
  <2>4. h = Body(h, m)
    BY <2>3
  <2> HIDE DEF h, Body
  <2> QED BY <2>0, <2>4
<1>3. MaxFindings \in T
  <2> HIDE DEF T
  <2>1. 0 .. MaxFindings \subseteq T
    BY <1>1, <1>2, Counting, FindingsAssumption
  <2> QED BY <2>1, FindingsAssumption
<1>4. after = Body(after, MaxFindings)
  <2> HIDE DEF Body
  <2> QED BY <1>3
<1>5. Indexed(S, prof, ids) = Groups(after[MaxFindings].rows)
  BY DEF Indexed, Groups, Shown, NoRows
<1> HIDE DEF after
<1>6. after[0] = NoRows
  <2>1. after[0] = Body(after, MaxFindings)[0]
    BY <1>4
  <2> QED BY <2>1, FindingsAssumption
<1>7. ASSUME NEW f \in 1 .. MaxFindings
      PROVE  after[f] = IF f \in S THEN Entered(after[f - 1], f, prof, ids) ELSE after[f - 1]
  <2>1. after[f] = Body(after, MaxFindings)[f]
    BY <1>4
  <2> QED BY <2>1, FindingsAssumption
<1> QED BY <1>5, <1>6, <1>7 DEF Indexes

-----------------------------------------------------------------------------
(* Groups are episodes.                                                    *)

\* The findings of S up to f, grouped.
GroupedTo(groups, S, f, prof) ==
    /\ \A g \in groups :
           /\ g = Shown(g) /\ g.rep \in g.members /\ g.members \subseteq S \cap (1 .. f)
           /\ IsFiniteSet(g.members) /\ Cardinality(g.members) <= MaxMembers
           /\ \A m \in g.members \ {g.rep} :
                  /\ g.rep < m /\ prof[m].bounded /\ prof[g.rep].bounded
                  /\ SameEpisode(prof[m], prof[g.rep]) /\ prof[m].anchors \cap prof[g.rep].anchors # {}
    /\ \A e \in S \cap (1 .. f) : \E g \in groups : e \in g.members
    /\ \A g, h \in groups : g.members \cap h.members # {} => g = h

\* The ids of the groups are in some order.
Ordered(ids) == \A f \in Findings : ids[f] \in Nat /\ \A g \in Findings : ids[f] = ids[g] => f = g

LEMMA FirstIsLeast ==
    ASSUME NEW groups, groups # {}, NEW ids, \A g \in groups : ids[g.rep] \in Nat
    PROVE  First(groups, ids) \in groups /\ \A h \in groups : ids[First(groups, ids).rep] <= ids[h.rep]
<1> DEFINE S == {ids[g.rep] : g \in groups}
<1>1. S \subseteq Nat /\ S # {}
  OBVIOUS
<1> HIDE DEF S
<1>2. PICK m \in S : \A k \in S : m <= k
  BY <1>1, LeastNumber
<1>3. \E g \in groups : \A h \in groups : ids[g.rep] <= ids[h.rep]
  BY <1>2 DEF S
<1> QED BY <1>3 DEF First

\* A finding put alone makes a group of its own.
LEMMA AloneGroups ==
    ASSUME NEW S, NEW f \in Findings, f \in S, NEW groups, NEW prof, GroupedTo(groups, S, f - 1, prof)
    PROVE  GroupedTo(groups \cup {Alone(f)}, S, f, prof)
<1> DEFINE new == Alone(f)
<1>1. new.rep = f /\ new.members = {f} /\ new = Shown(new)
  BY DEF Alone, Shown
<1>2. IsFiniteSet(new.members) /\ Cardinality(new.members) = 1
  BY <1>1, FS_Singleton
<1> HIDE DEF new
<1>3. f \in Nat /\ f \in 1 .. f /\ (1 .. f) = (1 .. f - 1) \cup {f} /\ f \notin 1 .. f - 1
  BY FindingsAssumption DEF Findings
<1>4. \A g \in groups : f \notin g.members
  BY <1>3 DEF GroupedTo
<1>5. ASSUME NEW g \in groups \cup {new}
      PROVE  /\ g = Shown(g) /\ g.rep \in g.members /\ g.members \subseteq S \cap (1 .. f)
             /\ IsFiniteSet(g.members) /\ Cardinality(g.members) <= MaxMembers
             /\ \A m \in g.members \ {g.rep} :
                    /\ g.rep < m /\ prof[m].bounded /\ prof[g.rep].bounded
                    /\ SameEpisode(prof[m], prof[g.rep]) /\ prof[m].anchors \cap prof[g.rep].anchors # {}
  <2>1. CASE g \in groups
    BY <1>3, <2>1 DEF GroupedTo
  <2>2. CASE g = new
    <3>1. Cardinality(new.members) <= MaxMembers
      BY <1>2, MembersAssumption
    <3>2. new.members \ {new.rep} = {} /\ new.rep \in new.members /\ new.members \subseteq S \cap (1 .. f)
      BY <1>1, <1>3
    <3> QED BY <1>1, <1>2, <2>2, <3>1, <3>2
  <2> QED BY <2>1, <2>2
<1>6. \A e \in S \cap (1 .. f) : \E g \in groups \cup {new} : e \in g.members
  BY <1>1, <1>3 DEF GroupedTo
<1>7. \A g, h \in groups \cup {new} : g.members \cap h.members # {} => g = h
  BY <1>1, <1>4 DEF GroupedTo
<1> QED BY <1>5, <1>6, <1>7 DEF GroupedTo, new

\* A finding joins an open group.
LEMMA JoinedGroups ==
    ASSUME NEW S, NEW f \in Findings, f \in S, NEW groups, NEW prof, GroupedTo(groups, S, f - 1, prof),
           NEW old \in Open(groups, prof, prof[f]), NEW new, new.rep = old.rep,
           new.members = old.members \cup {f},
           new = Shown(new)
    PROVE  GroupedTo((groups \ {old}) \cup {new}, S, f, prof)
<1>1. /\ old \in groups /\ Connectable(prof[f]) /\ SameEpisode(prof[f], prof[old.rep])
      /\ Cardinality(old.members) < MaxMembers /\ Backbone(prof[old.rep]) \cap prof[f].anchors # {}
  BY DEF Open
<1>2. /\ f \in Nat /\ f \in 1 .. f /\ (1 .. f) = (1 .. f - 1) \cup {f} /\ f \notin 1 .. f - 1
      /\ \A m \in 1 .. f - 1 : m < f
  BY FindingsAssumption DEF Findings
<1>3. \A g \in groups : f \notin g.members /\ g.rep # f
  BY <1>2 DEF GroupedTo
<1>4. IsFiniteSet(new.members) /\ Cardinality(new.members) <= MaxMembers
  <2>1. IsFiniteSet(old.members) /\ Cardinality(old.members) \in Nat
    BY <1>1, FS_CardinalityType DEF GroupedTo
  <2>2. IsFiniteSet(old.members \cup {f})
            /\ Cardinality(old.members \cup {f}) = Cardinality(old.members) + 1
    BY <1>1, <1>3, <2>1, FS_AddElement
  <2> QED BY <1>1, <2>1, <2>2, MembersAssumption
<1>5. ASSUME NEW m \in new.members \ {new.rep}
      PROVE  /\ new.rep < m /\ prof[m].bounded /\ prof[new.rep].bounded
             /\ SameEpisode(prof[m], prof[new.rep]) /\ prof[m].anchors \cap prof[new.rep].anchors # {}
  <2>1. CASE m \in old.members
    BY <1>1, <2>1 DEF GroupedTo
  <2>2. CASE m = f
    <3>1. old.rep < f
      BY <1>1, <1>2 DEF GroupedTo
    <3>2. prof[f].bounded /\ prof[old.rep].bounded /\ prof[f].anchors \cap prof[old.rep].anchors # {}
      BY <1>1 DEF Connectable, Backbone
    <3> QED BY <1>1, <2>2, <3>1, <3>2
  <2> QED BY <2>1, <2>2
<1>6. new.rep \in new.members /\ new.members \subseteq S \cap (1 .. f)
  BY <1>1, <1>2 DEF GroupedTo
<1>7. \A g \in groups : g.members \subseteq S \cap (1 .. f)
  BY <1>2 DEF GroupedTo
<1>8. \A e \in S \cap (1 .. f) : \E g \in (groups \ {old}) \cup {new} : e \in g.members
  <2>1. ASSUME NEW e \in S \cap (1 .. f) PROVE \E g \in (groups \ {old}) \cup {new} : e \in g.members
    <3>1. CASE e = f
      BY <3>1
    <3>2. CASE e # f
      <4>1. PICK g \in groups : e \in g.members
        BY <1>2, <3>2 DEF GroupedTo
      <4> QED BY <4>1
    <3> QED BY <3>1, <3>2
  <2> QED BY <2>1
<1>9. \A g, h \in (groups \ {old}) \cup {new} : g.members \cap h.members # {} => g = h
  BY <1>1, <1>3 DEF GroupedTo
<1> QED BY <1>4, <1>5, <1>6, <1>7, <1>8, <1>9 DEF GroupedTo

LEMMA PlacedGroups ==
    ASSUME NEW S, S \subseteq Findings, NEW f \in Findings, f \in S, NEW groups, NEW prof, NEW ids,
           Ordered(ids),
           GroupedTo(groups, S, f - 1, prof)
    PROVE  GroupedTo(Placed(groups, f, prof, ids), S, f, prof)
<1> DEFINE open == Open(groups, prof, prof[f])
           old  == First(open, ids)
           new  == [old EXCEPT !.members = @ \cup {f}]
<1>1. CASE open = {}
  BY <1>1, AloneGroups DEF Placed
<1>2. CASE open # {}
  <2>1. \A g \in open : g \in groups
    BY DEF Open
  <2>2. \A g \in open : ids[g.rep] \in Nat
    BY <2>1 DEF GroupedTo, Ordered
  <2> HIDE DEF open
  <2>3. old \in open
    BY <1>2, <2>2, FirstIsLeast
  <2>4. old = Shown(old)
    BY <2>1, <2>3 DEF GroupedTo
  <2>5. Placed(groups, f, prof, ids) = (groups \ {old}) \cup {new}
    BY <1>2 DEF Placed, open
  <2> HIDE DEF old
  <2>6. new.rep = old.rep /\ new.members = old.members \cup {f} /\ new = Shown(new)
    BY <2>4 DEF Shown
  <2> HIDE DEF new
  <2>7. GroupedTo((groups \ {old}) \cup {new}, S, f, prof)
    BY <2>3, <2>6, JoinedGroups DEF open
  <2> QED BY <2>5, <2>7
<1> QED BY <1>1, <1>2

\* The reference groups the findings it was given, each once.
LEMMA ReferenceGroups ==
    ASSUME NEW S, S \subseteq Findings, NEW prof, NEW ids, Ordered(ids), NEW a, Refers(a, S, prof, ids),
           NEW f \in 0 .. MaxFindings
    PROVE  GroupedTo(a[f], S, f, prof)
<1> DEFINE T == {n \in 0 .. MaxFindings : GroupedTo(a[n], S, n, prof)}
<1>1. 0 \in T
  <2>1. GroupedTo({}, S, 0, prof)
    BY DEF GroupedTo
  <2> QED BY <2>1, FindingsAssumption DEF Refers
<1>2. ASSUME NEW m \in 1 .. MaxFindings, m - 1 \in T PROVE m \in T
  <2>1. GroupedTo(a[m - 1], S, m - 1, prof) /\ m \in Findings
    BY <1>2 DEF Findings
  <2>2. CASE m \in S
    <3>1. GroupedTo(Placed(a[m - 1], m, prof, ids), S, m, prof)
      BY <2>1, <2>2, PlacedGroups
    <3> QED BY <2>2, <3>1, FindingsAssumption DEF Refers
  <2>3. CASE m \notin S
    <3>1. S \cap (1 .. m) = S \cap (1 .. m - 1)
      BY <2>3, FindingsAssumption
    <3>2. GroupedTo(a[m - 1], S, m, prof)
      BY <2>1, <3>1 DEF GroupedTo
    <3> QED BY <2>3, <3>2, FindingsAssumption DEF Refers
  <2> QED BY <2>2, <2>3
<1> HIDE DEF T
<1>3. 0 .. MaxFindings \subseteq T
  BY <1>1, <1>2, Counting, FindingsAssumption
<1> QED BY <1>3 DEF T

-----------------------------------------------------------------------------
(* The disk index groups as the reference does.                            *)

\* The rows show the groups, count their members, and can be looked up by the
\* anchors of their representatives while they have room.
Agreed(groups, index, prof) ==
    /\ groups = Groups(index.rows)
    /\ \A g \in index.rows :
           /\ g = [rep |-> g.rep, members |-> g.members, count |-> g.count]
           /\ g.count = Cardinality(g.members)
           /\ \A token : <<g.rep, token>> \in index.eligible
                             <=> g.count < MaxMembers /\ token \in Backbone(prof[g.rep])
    /\ \A g, h \in index.rows : g.rep = h.rep => g = h
    /\ \A e \in index.eligible : \E g \in index.rows : e[1] = g.rep

\* What a row has, as a group of the reference.
LEMMA RowsAreGroups ==
    ASSUME NEW S, NEW n \in 0 .. MaxFindings, NEW groups, NEW index, NEW prof,
           GroupedTo(groups, S, n, prof), Agreed(groups, index, prof), NEW g \in index.rows
    PROVE  /\ Shown(g) \in groups /\ Shown(g).rep = g.rep /\ Shown(g).members = g.members
           /\ g.rep \in Findings /\ g.rep \in 1 .. n /\ g.members \subseteq 1 .. n /\ IsFiniteSet(g.members)
           /\ g.count \in Nat /\ g.count <= MaxMembers
<1>1. Shown(g) \in groups /\ Shown(g).rep = g.rep /\ Shown(g).members = g.members
  BY DEF Agreed, Groups, Shown
<1>2. g.rep \in 1 .. n /\ g.members \subseteq 1 .. n /\ IsFiniteSet(g.members)
          /\ Cardinality(g.members) <= MaxMembers
  BY <1>1 DEF GroupedTo
<1>3. g.rep \in Findings
  BY <1>2, FindingsAssumption DEF Findings
<1> QED BY <1>1, <1>2, <1>3, FS_CardinalityType DEF Agreed

LEMMA LookedAreOpen ==
    ASSUME NEW S, NEW n \in 0 .. MaxFindings, NEW p, NEW groups, NEW index, NEW prof,
           GroupedTo(groups, S, n, prof), Agreed(groups, index, prof)
    PROVE  Open(groups, prof, p) = Groups(Looked(index, prof, p))
<1>1. ASSUME NEW g \in index.rows PROVE g \in Looked(index, prof, p) <=> Shown(g) \in Open(groups, prof, p)
  <2>1. Shown(g) \in groups /\ Shown(g).rep = g.rep /\ Shown(g).members = g.members
    BY RowsAreGroups
  <2>2. g.count = Cardinality(g.members)
    BY DEF Agreed
  <2>3. g.count < MaxMembers =>
            ((\E token \in p.anchors : <<g.rep, token>> \in index.eligible)
                 <=> Backbone(prof[g.rep]) \cap p.anchors # {})
    BY DEF Agreed
  <2> QED BY <2>1, <2>2, <2>3 DEF Looked, Open
<1>2. Looked(index, prof, p) \subseteq index.rows
  BY DEF Looked
<1>3. \A g \in Open(groups, prof, p) : \E h \in index.rows : g = Shown(h)
  BY DEF Open, Agreed, Groups
<1> QED BY <1>1, <1>2, <1>3 DEF Groups

\* Both choose the group whose id comes first.
LEMMA SameChoice ==
    ASSUME NEW S, NEW n \in 0 .. MaxFindings, NEW p, NEW groups, NEW index, NEW prof, NEW ids, Ordered(ids),
           GroupedTo(groups, S, n, prof), Agreed(groups, index, prof), Looked(index, prof, p) # {}
    PROVE  /\ First(Looked(index, prof, p), ids) \in index.rows
           /\ First(Open(groups, prof, p), ids) = Shown(First(Looked(index, prof, p), ids))
<1> DEFINE looked == Looked(index, prof, p)
           open   == Open(groups, prof, p)
<1>1. ASSUME NEW g \in looked PROVE g \in index.rows /\ g.rep \in Findings /\ Shown(g).rep = g.rep
  <2>1. g \in index.rows
    BY DEF Looked
  <2> HIDE DEF looked, open
  <2>2. g.rep \in Findings
    BY <2>1, RowsAreGroups
  <2>3. Shown(g).rep = g.rep
    BY DEF Shown
  <2> QED BY <2>1, <2>2, <2>3
<1>2. open = Groups(looked)
  BY LookedAreOpen
<1> HIDE DEF looked, open
<1>3. looked # {} /\ open # {}
  BY <1>2 DEF looked, Groups
<1>4. (\A g \in looked : ids[g.rep] \in Nat) /\ (\A g \in open : ids[g.rep] \in Nat)
  BY <1>1, <1>2 DEF Ordered, Groups
<1>5. PICK old \in looked : old = First(looked, ids) /\ \A h \in looked : ids[old.rep] <= ids[h.rep]
  BY <1>3, <1>4, FirstIsLeast
<1>6. PICK g \in open : g = First(open, ids) /\ \A h \in open : ids[g.rep] <= ids[h.rep]
  BY <1>3, <1>4, FirstIsLeast
<1>7. PICK row \in looked : g = Shown(row)
  BY <1>2 DEF Groups
<1>8. ids[old.rep] <= ids[row.rep] /\ ids[row.rep] <= ids[old.rep] /\ ids[old.rep] \in Nat
          /\ ids[row.rep] \in Nat
  <2>1. Shown(old) \in open
    BY <1>2 DEF Groups
  <2> QED BY <1>1, <1>4, <1>5, <1>6, <1>7, <2>1
<1>9. old.rep = row.rep
  BY <1>1, <1>8 DEF Ordered
<1>10. old = row
  BY <1>1, <1>9 DEF Agreed
<1> QED BY <1>1, <1>5, <1>6, <1>7, <1>10 DEF looked, open

LEMMA EnteredAgrees ==
    ASSUME NEW S, NEW f \in Findings, NEW groups, NEW index, NEW prof, NEW ids, Ordered(ids),
           GroupedTo(groups, S, f - 1, prof), Agreed(groups, index, prof)
    PROVE  Agreed(Placed(groups, f, prof, ids), Entered(index, f, prof, ids), prof)
<1> DEFINE looked == Looked(index, prof, prof[f])
           open   == Open(groups, prof, prof[f])
           old    == IF looked = {} THEN NewRow(f) ELSE First(looked, ids)
           new    == [old EXCEPT !.members = @ \cup {f}, !.count = @ + 1]
           known  == IF looked = {} THEN index.eligible \cup Anchored(f, prof[f]) ELSE index.eligible
           after  == Entered(index, f, prof, ids)
<1>1. after.rows = (index.rows \ {old}) \cup {new} /\ after.eligible = Kept(known, new, prof[f])
  BY DEF Entered
<1>0. f - 1 \in 0 .. MaxFindings /\ f \notin 1 .. f - 1
  BY FindingsAssumption DEF Findings
<1>2. open = Groups(looked)
  BY <1>0, LookedAreOpen
<1>3. ASSUME NEW g \in index.rows
      PROVE  /\ g.rep \in Findings /\ g.rep # f /\ f \notin g.members /\ IsFiniteSet(g.members)
             /\ g.count \in Nat /\ g.count <= MaxMembers
  <2> HIDE DEF looked, open, old, new, known, after
  <2>1. /\ g.rep \in Findings /\ g.rep \in 1 .. f - 1 /\ g.members \subseteq 1 .. f - 1
        /\ IsFiniteSet(g.members) /\ g.count \in Nat /\ g.count <= MaxMembers
    BY <1>0, RowsAreGroups
  <2> QED BY <1>0, <2>1
<1>4. looked # {} => old \in index.rows /\ First(open, ids) = Shown(old) /\ old \in looked
  <2>1. looked \subseteq index.rows
    BY DEF Looked
  <2>2. \A g \in looked : ids[g.rep] \in Nat
    BY <1>3, <2>1 DEF Ordered
  <2>3. looked # {} => First(open, ids) = Shown(First(looked, ids))
    BY <1>0, SameChoice
  <2> HIDE DEF looked, open
  <2>4. looked # {} => First(looked, ids) \in looked
    BY <2>2, FirstIsLeast
  <2> QED BY <2>1, <2>3, <2>4
<1>5. looked = {} => old = NewRow(f) /\ known = index.eligible \cup Anchored(f, prof[f])
  OBVIOUS
<1>6. looked # {} => known = index.eligible
  OBVIOUS
<1>7. open = {} <=> looked = {}
  BY <1>2 DEF Groups
<1>20. Placed(groups, f, prof, ids) =
          IF looked = {} THEN groups \cup {Alone(f)}
          ELSE (groups \ {Shown(old)}) \cup {[Shown(old) EXCEPT !.members = @ \cup {f}]}
  BY <1>4, <1>7 DEF Placed
<1>8. old = [rep |-> old.rep, members |-> old.members, count |-> old.count]
  BY <1>4, <1>5 DEF NewRow, Agreed
<1> HIDE DEF looked, open, after, known, old
<1>9. /\ new.rep = old.rep /\ new.members = old.members \cup {f} /\ new.count = old.count + 1
      /\ new = [rep |-> new.rep, members |-> new.members, count |-> new.count]
  <2> DEFINE met == [old EXCEPT !.members = @ \cup {f}]
  <2>1. met = [rep |-> old.rep, members |-> old.members \cup {f}, count |-> old.count]
    BY <1>8
  <2>2. new = [met EXCEPT !.count = old.count + 1]
    OBVIOUS
  <2> HIDE DEF met, new
  <2>3. new = [rep |-> old.rep, members |-> old.members \cup {f}, count |-> old.count + 1]
    BY <2>1, <2>2
  <2> HIDE DEF new
  <2> QED BY <2>3
<1> HIDE DEF new
<1>10. old.count \in Nat /\ old.count < MaxMembers /\ new.count = Cardinality(new.members)
  <2>1. old.count \in Nat /\ old.count < MaxMembers /\ f \notin old.members
        /\ IsFiniteSet(old.members) /\ old.count = Cardinality(old.members)
    <3>1. CASE looked = {}
      BY <1>5, <3>1, FS_EmptySet, MembersAssumption DEF NewRow
    <3>2. CASE looked # {}
      BY <1>3, <1>4, <3>2 DEF Agreed, looked, Looked
    <3> QED BY <3>1, <3>2
  <2>2. Cardinality(old.members \cup {f}) = Cardinality(old.members) + 1
    BY <2>1, FS_AddElement
  <2> QED BY <1>9, <2>1, <2>2
<1>11. \A g \in index.rows : g # old => g.rep # new.rep
  BY <1>3, <1>4, <1>5, <1>9 DEF Agreed, NewRow
<1>12. Placed(groups, f, prof, ids) = Groups(after.rows)
  <2>1. groups = Groups(index.rows)
    BY DEF Agreed
  <2>2. CASE looked = {}
    <3>1. old.rep = f /\ new.members = {f}
      BY <1>5, <1>9, <2>2 DEF NewRow
    <3>2. old \notin index.rows
      BY <1>3, <3>1
    <3>3. Shown(new) = Alone(f)
      BY <1>9, <3>1 DEF Shown, Alone
    <3> QED BY <1>1, <1>20, <2>1, <2>2, <3>2, <3>3 DEF Groups
  <2>3. CASE looked # {}
    <3>1. Shown(new) = [Shown(old) EXCEPT !.members = @ \cup {f}]
      BY <1>9 DEF Shown
    <3>2. \A g \in index.rows : Shown(g) = Shown(old) => g = old
      BY <1>4, <1>11, <1>9, <2>3 DEF Shown
    <3>3. groups \ {Shown(old)} = Groups(index.rows \ {old})
      BY <2>1, <3>2 DEF Groups
    <3>4. Groups(after.rows) = Groups(index.rows \ {old}) \cup {Shown(new)}
      BY <1>1 DEF Groups
    <3> QED BY <1>20, <2>3, <3>1, <3>3, <3>4
  <2> QED BY <2>2, <2>3
<1>13. \A token : <<new.rep, token>> \in known <=> token \in Backbone(prof[new.rep])
  <2>1. CASE looked = {}
    <3>1. new.rep = f
      BY <1>5, <1>9, <2>1 DEF NewRow
    <3>2. \A e \in index.eligible : e[1] # f
      BY <1>3 DEF Agreed
    <3> QED BY <1>5, <2>1, <3>1, <3>2 DEF Anchored
  <2>2. CASE looked # {}
    BY <1>4, <1>6, <1>9, <1>10, <2>2 DEF Agreed
  <2> QED BY <2>1, <2>2
<1>14. \A g \in index.rows : g # old => \A token : <<g.rep, token>> \in known
           <=> <<g.rep, token>> \in index.eligible
  BY <1>3, <1>5, <1>6 DEF Anchored
<1>15. \A e : e \in after.eligible <=> e \in known /\ ~(Full(new) /\ e[1] = new.rep)
  BY <1>1 DEF Kept
<1>16. ~Full(new) <=> new.count < MaxMembers
  BY <1>9, <1>10, MembersAssumption DEF Full
<1>17. ASSUME NEW g \in after.rows
       PROVE  /\ g = [rep |-> g.rep, members |-> g.members, count |-> g.count]
              /\ g.count = Cardinality(g.members)
              /\ \A token : <<g.rep, token>> \in after.eligible
                                <=> g.count < MaxMembers /\ token \in Backbone(prof[g.rep])
  <2>1. CASE g = new
    <3>1. \A token : <<new.rep, token>> \in after.eligible
                         <=> <<new.rep, token>> \in known /\ ~Full(new)
      BY <1>15
    <3>2. \A token : <<new.rep, token>> \in after.eligible
                         <=> new.count < MaxMembers /\ token \in Backbone(prof[new.rep])
      BY <1>13, <1>16, <3>1
    <3> QED BY <1>9, <1>10, <2>1, <3>2
  <2>2. CASE g # new
    <3>1. g \in index.rows /\ g # old
      BY <1>1, <2>2
    <3> QED BY <1>11, <1>14, <1>15, <3>1 DEF Agreed
  <2> QED BY <2>1, <2>2
<1>18. \A g, h \in after.rows : g.rep = h.rep => g = h
  BY <1>1, <1>11 DEF Agreed
<1>19. \A e \in after.eligible : \E g \in after.rows : e[1] = g.rep
  <2>1. ASSUME NEW e \in known PROVE \E g \in after.rows : e[1] = g.rep
    <3>1. CASE e \in index.eligible
      <4>1. PICK g \in index.rows : e[1] = g.rep
        BY <3>1 DEF Agreed
      <4>2. CASE g = old
        BY <1>1, <1>9, <4>1, <4>2
      <4>3. CASE g # old
        BY <1>1, <4>1, <4>3
      <4> QED BY <4>2, <4>3
    <3>2. CASE e \notin index.eligible
      <4>1. e[1] = f /\ new.rep = f
        BY <1>5, <1>6, <1>9, <2>1, <3>2 DEF Anchored, NewRow
      <4> QED BY <1>1, <4>1
    <3> QED BY <3>1, <3>2
  <2> QED BY <1>15, <2>1
<1> QED BY <1>12, <1>17, <1>18, <1>19 DEF Agreed, after

\* The procedure on the disk index groups as the frozen one does.
LEMMA IndexedIsReference ==
    ASSUME NEW S, S \subseteq Findings, NEW prof, NEW ids, Ordered(ids)
    PROVE  Indexed(S, prof, ids) = Reference(S, prof, ids)
<1>1. PICK a : Reference(S, prof, ids) = a[MaxFindings] /\ Refers(a, S, prof, ids)
  BY ReferenceUnfolds
<1>2. PICK b : Indexed(S, prof, ids) = Groups(b[MaxFindings].rows) /\ Indexes(b, S, prof, ids)
  BY IndexedUnfolds
<1> DEFINE T == {n \in 0 .. MaxFindings : Agreed(a[n], b[n], prof)}
<1>3. 0 \in T
  <2>1. a[0] = {} /\ b[0] = NoRows
    BY <1>1, <1>2 DEF Refers, Indexes
  <2>2. Agreed({}, NoRows, prof)
    BY DEF Agreed, NoRows, Groups
  <2> QED BY <2>1, <2>2, FindingsAssumption
<1>4. ASSUME NEW m \in 1 .. MaxFindings, m - 1 \in T PROVE m \in T
  <2>1. m \in Findings /\ m - 1 \in 0 .. MaxFindings /\ m \in 0 .. MaxFindings
    BY FindingsAssumption DEF Findings
  <2>2. GroupedTo(a[m - 1], S, m - 1, prof) /\ Agreed(a[m - 1], b[m - 1], prof)
    BY <1>1, <1>4, <2>1, ReferenceGroups
  <2>3. Agreed(Placed(a[m - 1], m, prof, ids), Entered(b[m - 1], m, prof, ids), prof)
    BY <2>1, <2>2, EnteredAgrees
  <2>4. /\ a[m] = IF m \in S THEN Placed(a[m - 1], m, prof, ids) ELSE a[m - 1]
        /\ b[m] = IF m \in S THEN Entered(b[m - 1], m, prof, ids) ELSE b[m - 1]
    BY <1>1, <1>2 DEF Refers, Indexes
  <2> QED BY <2>1, <2>2, <2>3, <2>4
<1> HIDE DEF T
<1>5. 0 .. MaxFindings \subseteq T
  BY <1>3, <1>4, Counting, FindingsAssumption
<1>6. Agreed(a[MaxFindings], b[MaxFindings], prof)
  BY <1>5, FindingsAssumption DEF T
<1> QED BY <1>1, <1>2, <1>6 DEF Agreed

-----------------------------------------------------------------------------
(* Generations hold the episodes of their findings.                        *)

\* What is grouped depends on the findings that are grouped.
LEMMA ReferenceIsLocal ==
    ASSUME NEW S, S \subseteq Findings, NEW prof, NEW new, NEW ids, Ordered(ids),
           \A f \in S : new[f] = prof[f]
    PROVE  Reference(S, new, ids) = Reference(S, prof, ids)
<1>1. PICK a : Reference(S, prof, ids) = a[MaxFindings] /\ Refers(a, S, prof, ids)
  BY ReferenceUnfolds
<1>2. PICK b : Reference(S, new, ids) = b[MaxFindings] /\ Refers(b, S, new, ids)
  BY ReferenceUnfolds
<1> DEFINE T == {n \in 0 .. MaxFindings : b[n] = a[n]}
<1>3. 0 \in T
  BY <1>1, <1>2, FindingsAssumption DEF Refers
<1>4. ASSUME NEW m \in 1 .. MaxFindings, m - 1 \in T PROVE m \in T
  <2>1. m - 1 \in 0 .. MaxFindings /\ m \in 0 .. MaxFindings /\ b[m - 1] = a[m - 1]
    BY <1>4, FindingsAssumption
  <2>2. GroupedTo(a[m - 1], S, m - 1, prof)
    BY <1>1, <2>1, ReferenceGroups
  <2>3. \A g \in a[m - 1] : new[g.rep] = prof[g.rep]
    BY <2>2 DEF GroupedTo
  <2>4. m \in S => Open(a[m - 1], new, new[m]) = Open(a[m - 1], prof, prof[m])
    BY <2>3 DEF Open
  <2>5. m \in S => Placed(a[m - 1], m, new, ids) = Placed(a[m - 1], m, prof, ids)
    BY <2>4 DEF Placed
  <2> QED BY <1>1, <1>2, <2>1, <2>5 DEF Refers
<1> HIDE DEF T
<1>5. 0 .. MaxFindings \subseteq T
  BY <1>3, <1>4, Counting, FindingsAssumption
<1>6. b[MaxFindings] = a[MaxFindings]
  BY <1>5, FindingsAssumption DEF T
<1> QED BY <1>1, <1>2, <1>6

OfReference(groups, digest) == groups = Reference(digest.findings, found, Ids[digest.release])

ExecutorsInv ==
    /\ GroupsInv /\ Stored \subseteq Findings
    /\ \A r \in runs : r.digest.release \in Releases /\ OfReference(r.groups, r.digest)
    /\ \A w \in Workers : Busy(w) => work[w].digest.release \in Releases
    /\ \A w \in Workers : work[w].at = "built" => OfReference(work[w].groups, work[w].digest)

LEMMA IdsAreOrdered == ASSUME NEW r \in Releases PROVE Ordered(Ids[r])
BY IdsAssumption DEF Ordered

LEMMA InitExecutors == Init => ExecutorsInv
BY InitGroups DEF Init, ExecutorsInv, Stored, Busy, Step, Idle

\* Findings that come later do not change what was grouped before.
LEMMA AddFindingAgrees ==
    ASSUME ExecutorsInv, GroupsInv', NEW f \in Findings, NEW p, AddFinding(f, p)
    PROVE  ExecutorsInv'
<1>1. UNCHANGED <<runs, work>> /\ Stored' = Stored \cup {f} /\ \A g \in Stored : found'[g] = found[g]
  BY DEF AddFinding, tables, Stored
<1>2. ASSUME NEW groups, NEW digest, digest.findings \subseteq Stored, digest.release \in Releases,
             OfReference(groups, digest)
      PROVE  OfReference(groups, digest)'
  <2>1. digest.findings \subseteq Findings /\ \A g \in digest.findings : found'[g] = found[g]
    BY <1>1, <1>2 DEF ExecutorsInv
  <2>2. Reference(digest.findings, found', Ids[digest.release])
            = Reference(digest.findings, found, Ids[digest.release])
    BY <1>2, <2>1, IdsAreOrdered, ReferenceIsLocal
  <2> QED BY <1>2, <2>2 DEF OfReference
<1>3. \A r \in runs : r.digest.release \in Releases /\ OfReference(r.groups, r.digest)'
  <2> SUFFICES ASSUME NEW r \in runs PROVE r.digest.release \in Releases /\ OfReference(r.groups, r.digest)'
    OBVIOUS
  <2>1. r.digest.findings \subseteq Stored /\ r.digest.release \in Releases
            /\ OfReference(r.groups, r.digest)
    BY DEF ExecutorsInv, GroupsInv, RunsAreStored
  <2>2. PICK groups, digest : groups = r.groups /\ digest = r.digest
    OBVIOUS
  <2>3. OfReference(groups, digest)'
    BY <1>2, <2>1, <2>2
  <2> QED BY <2>1, <2>2, <2>3 DEF OfReference
<1>4. \A w \in Workers : work[w].at = "built" => OfReference(work[w].groups, work[w].digest)'
  <2> SUFFICES ASSUME NEW w \in Workers, work[w].at = "built"
               PROVE  Reference(work[w].digest.findings, found', Ids[work[w].digest.release])
                   = work[w].groups
    BY <1>1 DEF OfReference
  <2>1. /\ work[w].digest.findings \subseteq Stored /\ work[w].digest.release \in Releases
        /\ OfReference(work[w].groups, work[w].digest)
    BY DEF ExecutorsInv, GroupsInv, DigestIsNewest, Busy
  <2>2. PICK groups, digest : groups = work[w].groups /\ digest = work[w].digest
    OBVIOUS
  <2>3. OfReference(groups, digest)'
    BY <1>2, <2>1, <2>2
  <2> QED BY <2>2, <2>3 DEF OfReference
<1> QED BY <1>1, <1>3, <1>4 DEF ExecutorsInv, Busy, OfReference

\* The findings that are read are those of the digest, though they are read later.
LEMMA BuildAgrees ==
    ASSUME ExecutorsInv, GroupsInv', NEW w \in Workers, Build(w)
    PROVE  ExecutorsInv'
<1> DEFINE d == work[w].digest
           groups == Indexed(Stored, found, Ids[d.release])
<1>1. Busy(w) /\ d.release \in Releases /\ d.findings \subseteq Stored /\ Stored \subseteq Findings
  BY DEF Build, Busy, ExecutorsInv, GroupsInv, DigestIsNewest
<1>2. d.findings = Stored
  <2>1. IsFiniteSet(Stored)
    <3>1. 1 \in Int /\ MaxFindings \in Int
      BY FindingsAssumption
    <3>2. IsFiniteSet(1 .. MaxFindings)
      BY <3>1, FS_Interval
    <3> QED BY <1>1, <3>2, FS_Subset DEF Findings
  <2>2. Cardinality(Stored) = Cardinality(d.findings)
    BY DEF Build, Expected
  <2> HIDE DEF d
  <2> QED BY <1>1, <2>1, <2>2, FS_Subset
<1>3. groups = Reference(d.findings, found, Ids[d.release])
  BY <1>1, <1>2, IdsAreOrdered, IndexedIsReference
<1>4. work' = [v \in Workers |-> IF v = w THEN Step("built", work[w].kind, d, groups) ELSE work[v]]
  BY DEF Build, ExecutorsInv, GroupsInv, WorkShape
<1>5. UNCHANGED <<found, runs>>
  BY DEF Build, tables
<1> HIDE DEF groups
<1>6. /\ work'[w].at = "built" /\ work'[w].digest = d /\ work'[w].groups = groups
      /\ \A v \in Workers : v # w => work'[v] = work[v]
  BY <1>4 DEF Step
<1>7. \A v \in Workers : Busy(v)' => work'[v].digest.release \in Releases
  BY <1>1, <1>6 DEF ExecutorsInv, Busy
<1>8. \A v \in Workers : work'[v].at = "built" => OfReference(work'[v].groups, work'[v].digest)
  BY <1>3, <1>6 DEF ExecutorsInv, OfReference
<1> QED BY <1>5, <1>7, <1>8 DEF ExecutorsInv, Stored, OfReference, Busy

\* A step that groups nothing.
RunsFollow == \A r \in runs' \ runs : r.digest.release \in Releases /\ OfReference(r.groups, r.digest)
WorkFollows ==
    \A w \in Workers :
        \/ work'[w] = work[w]
        \/ work'[w].at # "built" /\ (work'[w].at # "idle" => work'[w].digest.release \in Releases)

LEMMA NothingGrouped ==
    ASSUME ExecutorsInv, GroupsInv', found' = found, RunsFollow, WorkFollows
    PROVE  ExecutorsInv'
<1>1. \A r \in runs' : r.digest.release \in Releases /\ OfReference(r.groups, r.digest)
  BY DEF ExecutorsInv, RunsFollow
<1>2. \A w \in Workers : Busy(w)' => work'[w].digest.release \in Releases
  BY DEF ExecutorsInv, WorkFollows, Busy
<1>3. \A w \in Workers : work'[w].at = "built" => OfReference(work'[w].groups, work'[w].digest)
  BY DEF ExecutorsInv, WorkFollows
<1> QED BY <1>1, <1>2, <1>3 DEF ExecutorsInv, Stored, OfReference, Busy

LEMMA NextExecutors == ExecutorsInv /\ [Next]_vars => ExecutorsInv'
<1> SUFFICES ASSUME ExecutorsInv, [Next]_vars PROVE ExecutorsInv'
  OBVIOUS
<1>0. GroupsInv' /\ WorkShape
  BY NextGroups DEF ExecutorsInv, GroupsInv
<1>1. CASE UNCHANGED vars
  <2>1. RunsFollow /\ WorkFollows /\ found' = found
    BY <1>1 DEF vars, RunsFollow, WorkFollows
  <2> QED BY <1>0, <2>1, NothingGrouped
<1>2. ASSUME NEW f \in Findings, NEW p \in Profiles[f], AddFinding(f, p) PROVE ExecutorsInv'
  BY <1>0, <1>2, AddFindingAgrees
<1>3. ASSUME NEW w \in Workers, NEW kind, NEW r \in Releases, Begin(w, kind, r) PROVE ExecutorsInv'
  <2>1. work' = [v \in Workers |-> IF v = w THEN Step("digested", kind, Digest(r), {}) ELSE work[v]]
    BY <1>0, <1>3 DEF Begin, WorkShape
  <2>2. RunsFollow /\ WorkFollows /\ found' = found
    BY <1>3, <2>1 DEF Begin, tables, Step, Digest, RunsFollow, WorkFollows
  <2> QED BY <1>0, <2>2, NothingGrouped
<1>4. ASSUME NEW w \in Workers, Build(w) PROVE ExecutorsInv'
  BY <1>0, <1>4, BuildAgrees
<1>5. ASSUME NEW w \in Workers, Stop(w) \/ CommitReused(w) PROVE ExecutorsInv'
  <2>1. work' = [v \in Workers |-> IF v = w THEN Idle ELSE work[v]] /\ UNCHANGED <<found, runs>>
    BY <1>0, <1>5 DEF Stop, CommitReused, WorkShape, tables
  <2>2. RunsFollow /\ WorkFollows
    BY <2>1 DEF Step, Idle, RunsFollow, WorkFollows
  <2> QED BY <1>0, <2>1, <2>2, NothingGrouped
<1>6. ASSUME NEW w \in Workers, CommitBuilt(w) PROVE ExecutorsInv'
  <2> DEFINE run == [digest |-> work[w].digest, no |-> Cardinality(runs) + 1, groups |-> work[w].groups]
  <2>1. work' = [v \in Workers |-> IF v = w THEN Idle ELSE work[v]] /\ found' = found
            /\ runs' = runs \cup {run}
    BY <1>0, <1>6 DEF CommitBuilt, WorkShape
  <2>2. run.digest = work[w].digest /\ run.groups = work[w].groups
    OBVIOUS
  <2> HIDE DEF run
  <2>3. run.digest.release \in Releases /\ OfReference(run.groups, run.digest)
    BY <1>6, <2>2 DEF CommitBuilt, ExecutorsInv, Busy
  <2>4. RunsFollow /\ WorkFollows
    BY <2>1, <2>3 DEF Step, Idle, RunsFollow, WorkFollows
  <2> QED BY <1>0, <2>1, <2>4, NothingGrouped
<1>7. ASSUME NEW g, NEW verdict, Decide(g, verdict) PROVE ExecutorsInv'
  <2>1. RunsFollow /\ WorkFollows /\ found' = found
    BY <1>7 DEF Decide, RunsFollow, WorkFollows
  <2> QED BY <1>0, <2>1, NothingGrouped
<1> QED BY <1>1, <1>2, <1>3, <1>4, <1>5, <1>6, <1>7 DEF Next, Incomplete, Fail

\* What a run's groups are.
LEMMA GroupsOfRun ==
    ASSUME ExecutorsInv, NEW r \in runs
    PROVE  GroupedTo(r.groups, r.digest.findings, MaxFindings, found)
<1> DEFINE S == r.digest.findings
           ids == Ids[r.digest.release]
<1>1. S \subseteq Findings /\ r.digest.release \in Releases /\ r.groups = Reference(S, found, ids)
  BY DEF ExecutorsInv, GroupsInv, RunsAreStored, OfReference
<1>2. PICK a : Reference(S, found, ids) = a[MaxFindings] /\ Refers(a, S, found, ids)
  BY ReferenceUnfolds
<1> QED BY <1>1, <1>2, IdsAreOrdered, ReferenceGroups, FindingsAssumption

\* The reference puts each finding in one group, and groups are episodes.
LEMMA EpisodesFollow ==
    ASSUME ExecutorsInv
    PROVE  GroupsAreEpisodes
<1> SUFFICES ASSUME NEW r \in runs
             PROVE  /\ \A f \in r.digest.findings : Cardinality({g \in r.groups : f \in g.members}) = 1
                    /\ \A g \in r.groups :
                           /\ g.rep \in g.members /\ Cardinality(g.members) <= MaxMembers
                           /\ \A f \in g.members \ {g.rep} :
                                  /\ g.rep < f
                                  /\ found[f].bounded /\ found[g.rep].bounded
                                  /\ SameEpisode(found[f], found[g.rep])
                                  /\ found[f].anchors \cap found[g.rep].anchors # {}
  BY DEF GroupsAreEpisodes
<1>1. /\ GroupedTo(r.groups, r.digest.findings, MaxFindings, found)
      /\ r.digest.findings \subseteq Findings
  BY GroupsOfRun DEF ExecutorsInv, GroupsInv, RunsAreStored
<1>2. ASSUME NEW f \in r.digest.findings PROVE Cardinality({g \in r.groups : f \in g.members}) = 1
  <2>1. PICK g \in r.groups : f \in g.members
    BY <1>1 DEF GroupedTo, Findings
  <2>2. {h \in r.groups : f \in h.members} = {g}
    BY <1>1, <2>1 DEF GroupedTo
  <2> QED BY <2>2, FS_Singleton
<1> QED BY <1>1, <1>2 DEF GroupedTo

\* The procedure on the disk index groups as the frozen reference does, and every
\* generation has the findings its digest names, each in one group that is an
\* episode: for any findings, order of ids and size of groups, and although
\* digest and findings are read at different moments.
THEOREM ExecutorsGroupAlike == Spec => []ExecutorsAgree
<1>1. ExecutorsInv => ExecutorsAgree
  BY EpisodesFollow DEF ExecutorsInv, ExecutorsAgree, OfReference
<1> QED BY <1>1, InitExecutors, NextExecutors, PTL DEF Spec

-----------------------------------------------------------------------------
(* The queue of any set of waiting groups.                                 *)

\* A set of groups that ranks can be counted in.
Rankable(waiting) ==
    /\ IsFiniteSet(waiting)
    /\ \A g \in waiting : g.band \in Nat /\ g.family \in Nat /\ g.score \in Nat /\ g.rank \in Nat
    /\ \A g, h \in waiting : g.rank = h.rank => g = h

\* The groups a waiting group comes after in its band and family, and its key.
Over(waiting, g) == {h \in waiting : h.band = g.band /\ h.family = g.family /\ Higher(h, g)}

KeyOf(waiting, g) ==
    [band |-> g.band, turn |-> FamilyRank(waiting, g), family |-> g.family, rank |-> g.rank,
     score |-> g.score]

LEMMA TurnIsNumber ==
    ASSUME NEW waiting, Rankable(waiting), NEW g \in waiting
    PROVE  /\ IsFiniteSet(Over(waiting, g)) /\ FamilyRank(waiting, g) = Cardinality(Over(waiting, g))
           /\ FamilyRank(waiting, g) \in Nat
<1>1. Over(waiting, g) \in SUBSET waiting /\ IsFiniteSet(waiting)
  BY DEF Over, Rankable
<1>2. IsFiniteSet(Over(waiting, g))
  BY <1>1, FS_Subset
<1>3. FamilyRank(waiting, g) = Cardinality(Over(waiting, g))
  BY DEF FamilyRank, Over
<1> QED BY <1>2, <1>3, FS_CardinalityType

\* A group that ranks higher in its family has the earlier turn.
LEMMA HigherIsSooner ==
    ASSUME NEW waiting, Rankable(waiting), NEW g \in waiting, NEW h \in waiting,
           g.band = h.band, g.family = h.family, Higher(g, h)
    PROVE  FamilyRank(waiting, g) < FamilyRank(waiting, h)
<1>1. /\ IsFiniteSet(Over(waiting, h)) /\ FamilyRank(waiting, g) = Cardinality(Over(waiting, g))
      /\ FamilyRank(waiting, h) = Cardinality(Over(waiting, h))
      /\ FamilyRank(waiting, g) \in Nat /\ FamilyRank(waiting, h) \in Nat
  BY TurnIsNumber
<1>2. \A x \in waiting : x.score \in Nat /\ x.rank \in Nat
  BY DEF Rankable
<1>3. Over(waiting, g) \in SUBSET Over(waiting, h)
  BY <1>2 DEF Over, Higher
<1>4. g \in Over(waiting, h) /\ g \notin Over(waiting, g)
  BY <1>2 DEF Over, Higher
<1>5. /\ Cardinality(Over(waiting, g)) <= Cardinality(Over(waiting, h))
      /\ Cardinality(Over(waiting, g)) # Cardinality(Over(waiting, h))
  BY <1>1, <1>3, <1>4, FS_Subset
<1> QED BY <1>1, <1>5

\* There are as many keys as waiting groups.
LEMMA KeysCount ==
    ASSUME NEW waiting, Rankable(waiting)
    PROVE  IsFiniteSet(Keyed(waiting)) /\ Cardinality(Keyed(waiting)) = Cardinality(waiting)
<1> DEFINE f == [g \in waiting |-> KeyOf(waiting, g)]
<1>1. Keyed(waiting) = {KeyOf(waiting, g) : g \in waiting}
  BY DEF Keyed, KeyOf
<1>2. f \in Surjection(waiting, Keyed(waiting))
  BY <1>1 DEF Surjection
<1>3. \A g, h \in waiting : f[g] = f[h] => g = h
  BY DEF Rankable, KeyOf
<1>4. f \in Injection(waiting, Keyed(waiting))
  BY <1>1, <1>3 DEF Injection, IsInjective
<1> HIDE DEF f
<1> QED BY <1>2, <1>4, FS_Surjection DEF Rankable

\* What the keys hold, and that two of one family never have one turn.
Rankings(keyed) ==
    /\ IsFiniteSet(keyed)
    /\ \A g \in keyed :
           g.band \in Nat /\ g.turn \in Nat /\ g.family \in Nat /\ g.score \in Nat /\ g.rank \in Nat
    /\ \A g, h \in keyed : g.rank = h.rank => g = h
    /\ \A g, h \in keyed : g.band = h.band /\ g.family = h.family =>
           /\ g.turn < h.turn => g.score >= h.score
           /\ g.turn = h.turn => g = h

LEMMA KeysRank ==
    ASSUME NEW waiting, Rankable(waiting)
    PROVE  Rankings(Keyed(waiting))
<1>1. Keyed(waiting) = {KeyOf(waiting, g) : g \in waiting}
  BY DEF Keyed, KeyOf
<1>2. \A g \in waiting :
          /\ KeyOf(waiting, g).band = g.band /\ KeyOf(waiting, g).family = g.family
          /\ KeyOf(waiting, g).score = g.score /\ KeyOf(waiting, g).rank = g.rank
          /\ KeyOf(waiting, g).turn = FamilyRank(waiting, g)
  BY DEF KeyOf
<1>3. ASSUME NEW g \in waiting PROVE FamilyRank(waiting, g) \in Nat
  BY TurnIsNumber
<1>4. ASSUME NEW g \in waiting, NEW h \in waiting, g.band = h.band, g.family = h.family
      PROVE  /\ FamilyRank(waiting, g) < FamilyRank(waiting, h) => g.score >= h.score
             /\ FamilyRank(waiting, g) = FamilyRank(waiting, h) => g = h
  <2>1. Higher(g, h) => FamilyRank(waiting, g) < FamilyRank(waiting, h)
    BY <1>4, HigherIsSooner
  <2>2. Higher(h, g) => FamilyRank(waiting, h) < FamilyRank(waiting, g)
    BY <1>4, HigherIsSooner
  <2>3. g = h \/ Higher(g, h) \/ Higher(h, g)
    BY DEF Rankable, Higher
  <2>4. g.score >= h.score \/ Higher(h, g)
    BY DEF Rankable, Higher
  <2> QED BY <1>3, <2>1, <2>2, <2>3, <2>4
<1>5. \A g \in Keyed(waiting) : \E x \in waiting : g = KeyOf(waiting, x)
  BY <1>1
<1> HIDE DEF KeyOf
<1>6. \A g \in Keyed(waiting) :
          g.band \in Nat /\ g.turn \in Nat /\ g.family \in Nat /\ g.score \in Nat /\ g.rank \in Nat
  BY <1>2, <1>3, <1>5 DEF Rankable
<1>7. ASSUME NEW g \in Keyed(waiting), NEW h \in Keyed(waiting)
      PROVE  /\ g.rank = h.rank => g = h
             /\ g.band = h.band /\ g.family = h.family =>
                    (g.turn < h.turn => g.score >= h.score) /\ (g.turn = h.turn => g = h)
  <2>1. PICK x \in waiting, y \in waiting : g = KeyOf(waiting, x) /\ h = KeyOf(waiting, y)
    BY <1>5
  <2>2. g.rank = h.rank => x = y
    BY <1>2, <2>1 DEF Rankable
  <2>3. g.band = h.band /\ g.family = h.family =>
            (g.turn < h.turn => g.score >= h.score) /\ (g.turn = h.turn => x = y)
    BY <1>2, <1>4, <2>1
  <2> QED BY <2>1, <2>2, <2>3
<1> QED BY <1>6, <1>7, KeysCount DEF Rankings

\* The queue's order is a total one.
LEMMA AheadIsTotal ==
    ASSUME NEW keyed, Rankings(keyed), NEW g \in keyed, NEW h \in keyed
    PROVE  /\ ~Ahead(g, g)
           /\ g = h \/ Ahead(g, h) \/ Ahead(h, g)
           /\ \A x \in keyed : Ahead(x, g) /\ Ahead(g, h) => Ahead(x, h)
BY DEF Rankings, Ahead

Before(keyed, g) == {h \in keyed : Ahead(h, g)}

LEMMA BeforeCounts ==
    ASSUME NEW keyed, Rankings(keyed), NEW g \in keyed
    PROVE  /\ IsFiniteSet(Before(keyed, g)) /\ Cardinality(Before(keyed, g)) \in 0 .. Cardinality(keyed) - 1
           /\ \A h \in keyed : Ahead(g, h) => Cardinality(Before(keyed, g)) < Cardinality(Before(keyed, h))
<1>1. ASSUME NEW h \in keyed PROVE IsFiniteSet(Before(keyed, h)) /\ Cardinality(Before(keyed, h)) \in Nat
  BY FS_Subset, FS_CardinalityType DEF Before, Rankings
<1>2. Before(keyed, g) \in SUBSET keyed /\ Before(keyed, g) # keyed
  BY AheadIsTotal DEF Before
<1>3. Cardinality(keyed) \in Nat /\ Cardinality(Before(keyed, g)) < Cardinality(keyed)
  BY <1>1, <1>2, FS_Subset, FS_CardinalityType DEF Rankings
<1>4. ASSUME NEW h \in keyed, Ahead(g, h)
      PROVE  Cardinality(Before(keyed, g)) < Cardinality(Before(keyed, h))
  <2>1. Before(keyed, g) \in SUBSET Before(keyed, h)
    BY <1>4, AheadIsTotal DEF Before
  <2>2. g \in Before(keyed, h) /\ g \notin Before(keyed, g)
    BY <1>4, AheadIsTotal DEF Before
  <2> QED BY <1>1, <2>1, <2>2, FS_Subset
<1> QED BY <1>1, <1>3, <1>4

LEMMA FirstNumbers == ASSUME NEW n \in Nat PROVE IsFiniteSet(0 .. n - 1) /\ Cardinality(0 .. n - 1) = n
<1>1. 0 \in Int /\ n - 1 \in Int
  OBVIOUS
<1> QED BY <1>1, FS_Interval

\* The queue has as many groups as it can hold.
LEMMA QueueIsFull ==
    ASSUME NEW keyed, Rankings(keyed), NEW capacity \in 0 .. Cardinality(keyed)
    PROVE  Cardinality(Queue(keyed, capacity)) = capacity
<1> DEFINE n     == Cardinality(keyed)
           place == [g \in keyed |-> Cardinality(Before(keyed, g))]
           queue == Queue(keyed, capacity)
           short == [g \in queue |-> place[g]]
<1>1. n \in Nat /\ capacity \in Nat /\ capacity <= n
  BY FS_CardinalityType DEF Rankings
<1>2. \A g \in keyed : place[g] \in 0 .. n - 1
  BY BeforeCounts
<1>3. ASSUME NEW g \in keyed, NEW h \in keyed, place[g] = place[h] PROVE g = h
  <2>1. Ahead(g, h) => place[g] < place[h]
    BY BeforeCounts
  <2>2. Ahead(h, g) => place[h] < place[g]
    BY BeforeCounts
  <2> HIDE DEF place
  <2> QED BY <1>2, <1>3, <2>1, <2>2, AheadIsTotal
<1>4. place \in Injection(keyed, 0 .. n - 1)
  BY <1>2, <1>3 DEF Injection, IsInjective
<1>5. IsFiniteSet(0 .. n - 1) /\ Cardinality(0 .. n - 1) = n
  BY <1>1, FirstNumbers
<1>6. \A k \in 0 .. n - 1 : \E g \in keyed : place[g] = k
  <2>1. place \in Surjection(keyed, 0 .. n - 1)
    <3> HIDE DEF place
    <3> QED BY <1>4, <1>5, FS_Injection
  <2> QED BY <2>1 DEF Surjection
<1>7. queue = {g \in keyed : place[g] < capacity}
  BY DEF Queue, Before
<1> HIDE DEF place, queue
<1>8. \A g \in queue : g \in keyed /\ short[g] = place[g] /\ short[g] \in 0 .. capacity - 1
  BY <1>1, <1>2, <1>7
<1>9. short \in Injection(queue, 0 .. capacity - 1)
  BY <1>3, <1>8 DEF Injection, IsInjective
<1>10. short \in Surjection(queue, 0 .. capacity - 1)
  <2>1. ASSUME NEW k \in 0 .. capacity - 1 PROVE \E g \in queue : short[g] = k
    <3>1. k \in 0 .. n - 1 /\ k < capacity
      BY <1>1
    <3>2. PICK g \in keyed : place[g] = k
      BY <1>6, <3>1
    <3>3. g \in queue
      BY <1>7, <3>1, <3>2
    <3> QED BY <1>8, <3>2, <3>3
  <2> QED BY <1>8, <2>1 DEF Surjection
<1>11. IsFiniteSet(0 .. capacity - 1) /\ Cardinality(0 .. capacity - 1) = capacity
  BY <1>1, FirstNumbers
<1> HIDE DEF short
<1> QED BY <1>9, <1>10, <1>11, FS_Injection DEF queue

\* What is in the queue comes before what is not.
LEMMA QueueIsFirst ==
    ASSUME NEW keyed, Rankings(keyed), NEW capacity \in Nat,
           NEW g \in Queue(keyed, capacity), NEW h \in keyed \ Queue(keyed, capacity)
    PROVE  Ahead(g, h)
<1>1. g \in keyed /\ Cardinality(Before(keyed, g)) < capacity /\ ~(Cardinality(Before(keyed, h)) < capacity)
  BY DEF Queue, Before
<1>2. Ahead(h, g) => Cardinality(Before(keyed, h)) < Cardinality(Before(keyed, g))
  BY <1>1, BeforeCounts
<1>3. Cardinality(Before(keyed, g)) \in Nat /\ Cardinality(Before(keyed, h)) \in Nat
  BY <1>1, BeforeCounts DEF Rankings
<1>4. ~Ahead(h, g) /\ g # h
  BY <1>1, <1>2, <1>3
<1> QED BY <1>1, <1>4, AheadIsTotal

\* The groups of one family and band that are in the queue.
Share(queue, band, family) == {g \in queue : g.band = band /\ g.family = family}

\* When a group waits, its family has taken as many turns as it has groups that
\* come before it: any other family has had at most one more.
LEMMA SharesAreEven ==
    ASSUME NEW waiting, Rankable(waiting), NEW capacity \in Nat,
           NEW h \in Keyed(waiting) \ Queue(Keyed(waiting), capacity), NEW family
    PROVE  Cardinality(Share(Queue(Keyed(waiting), capacity), h.band, family))
               <= Cardinality(Share(Queue(Keyed(waiting), capacity), h.band, h.family)) + 1
<1> DEFINE keyed == Keyed(waiting)
           queue == Queue(keyed, capacity)
           theirs == Share(queue, h.band, family)
           own    == Share(queue, h.band, h.family)
           late   == {g \in keyed \ queue : g.band = h.band /\ g.family = h.family}
           turns  == {g.turn : g \in late}
<1>1. Rankings(keyed) /\ IsFiniteSet(keyed) /\ queue \subseteq keyed /\ h \in late
  BY KeysRank DEF Rankings, Queue
<1>2. keyed = {KeyOf(waiting, g) : g \in waiting}
  BY DEF Keyed, KeyOf
<1>3. ASSUME NEW g \in queue, NEW x \in keyed \ queue PROVE Ahead(g, x)
  BY <1>1, <1>3, QueueIsFirst
<1>4. IsFiniteSet(queue)
  BY <1>1, FS_Subset
<1> HIDE DEF keyed, queue
<1>5. turns \subseteq Nat /\ turns # {}
  BY <1>1 DEF Rankings
<1>6. PICK least \in turns : \A k \in turns : least <= k
  BY <1>5, LeastNumber
<1>7. PICK next \in late : next.turn = least
  BY <1>6
<1>8. least \in Nat
  BY <1>5, <1>6
<1>9. theirs \in SUBSET queue /\ own \in SUBSET queue
  BY DEF Share
<1>10. IsFiniteSet(theirs) /\ IsFiniteSet(own) /\ Cardinality(theirs) \in Nat /\ Cardinality(own) \in Nat
  BY <1>4, <1>9, FS_Subset, FS_CardinalityType
<1>11. Cardinality(theirs) <= least + 1
  <2> DEFINE t == [g \in theirs |-> g.turn]
  <2>1. ASSUME NEW g \in theirs
        PROVE  g \in keyed /\ g.turn \in 0 .. least /\ g.band = h.band /\ g.family = family
    <3>1. g \in queue /\ g \in keyed /\ g.band = h.band /\ g.family = family
      BY <1>1 DEF Share
    <3>2. Ahead(g, next) /\ next.band = h.band /\ next.turn = least
      BY <1>3, <1>7, <3>1
    <3> QED BY <1>1, <1>8, <3>1, <3>2 DEF Ahead, Rankings
  <2>2. t \in Injection(theirs, 0 .. least)
    BY <1>1, <2>1 DEF Injection, IsInjective, Rankings
  <2>3. IsFiniteSet(0 .. least) /\ Cardinality(0 .. least) = least + 1
    <3>1. 0 \in Int /\ least \in Int
      BY <1>8
    <3> QED BY <1>8, <3>1, FS_Interval
  <2> HIDE DEF t
  <2> QED BY <2>2, <2>3, FS_Injection
<1>12. least <= Cardinality(own)
  <2>1. PICK x \in waiting : next = KeyOf(waiting, x)
    BY <1>2, <1>7
  <2>2. x.band = h.band /\ x.family = h.family /\ FamilyRank(waiting, x) = least
    BY <1>7, <2>1 DEF KeyOf
  <2> DEFINE over == Over(waiting, x)
             k == [g \in over |-> KeyOf(waiting, g)]
  <2>3. IsFiniteSet(over) /\ Cardinality(over) = least
    BY <2>2, TurnIsNumber
  <2>4. ASSUME NEW g \in over PROVE KeyOf(waiting, g) \in own
    <3>1. g \in waiting /\ g.band = x.band /\ g.family = x.family /\ Higher(g, x)
      BY DEF Over
    <3>2. FamilyRank(waiting, g) < least /\ FamilyRank(waiting, g) \in Nat
      BY <2>2, <3>1, HigherIsSooner, TurnIsNumber
    <3>3. PICK key : key = KeyOf(waiting, g)
      OBVIOUS
    <3>4. key \in keyed /\ key.band = h.band /\ key.family = h.family /\ key.turn = FamilyRank(waiting, g)
      BY <1>2, <2>2, <3>1, <3>3 DEF KeyOf
    <3>5. key \notin late
      BY <1>6, <1>8, <3>2, <3>4
    <3> QED BY <3>3, <3>4, <3>5 DEF Share
  <2>5. \A g \in over : g \in waiting /\ KeyOf(waiting, g).rank = g.rank
    BY DEF Over, KeyOf
  <2>6. k \in Injection(over, own)
    <3>1. \A g, e \in over : k[g] = k[e] => g = e
      BY <2>5 DEF Rankable
    <3> QED BY <2>4, <3>1 DEF Injection, IsInjective
  <2> HIDE DEF k, over
  <2> QED BY <1>10, <2>3, <2>6, FS_Injection
<1> HIDE DEF theirs, own
<1>13. Cardinality(theirs) <= Cardinality(own) + 1
  BY <1>8, <1>10, <1>11, <1>12
<1> QED BY <1>13 DEF theirs, own, queue, keyed

Fair(waiting, capacity) ==
    LET keyed   == Keyed(waiting)
        queue   == Queue(keyed, capacity)
        backlog == keyed \ queue
    IN  /\ Cardinality(queue) = capacity
        /\ \A g \in queue, h \in backlog :
               /\ g.band <= h.band
               /\ g.band = h.band /\ g.family = h.family => g.score >= h.score
        /\ \A h \in backlog, family \in Families :
               Cardinality(Share(queue, h.band, family)) <= Cardinality(Share(queue, h.band, h.family)) + 1

LEMMA RankableIsFair ==
    ASSUME NEW waiting, Rankable(waiting), NEW capacity \in 0 .. Cardinality(waiting)
    PROVE  Fair(waiting, capacity)
<1> DEFINE keyed == Keyed(waiting)
           queue == Queue(keyed, capacity)
<1>1. Rankings(keyed) /\ Cardinality(keyed) = Cardinality(waiting) /\ capacity \in Nat
  BY KeysRank, KeysCount, FS_CardinalityType DEF Rankable
<1>2. Cardinality(queue) = capacity
  BY <1>1, QueueIsFull
<1>3. ASSUME NEW g \in queue, NEW h \in keyed \ queue
      PROVE  /\ g.band <= h.band
             /\ g.band = h.band /\ g.family = h.family => g.score >= h.score
  <2>1. Ahead(g, h)
    BY <1>1, QueueIsFirst
  <2>2. g \in keyed /\ h \in keyed
    BY DEF Queue
  <2> HIDE DEF keyed, queue
  <2> QED BY <1>1, <2>1, <2>2 DEF Ahead, Rankings
<1>4. ASSUME NEW h \in keyed \ queue, NEW family \in Families
      PROVE  Cardinality(Share(queue, h.band, family)) <= Cardinality(Share(queue, h.band, h.family)) + 1
  BY <1>1, SharesAreEven
<1> QED BY <1>2, <1>3, <1>4 DEF Fair

-----------------------------------------------------------------------------
(* The groups that wait can be ranked.                                     *)

\* One generation to a digest, and profiles that findings may have.
QueueInv ==
    /\ \A r, q \in runs : r.digest = q.digest => r = q
    /\ \A f \in Stored : found[f] \in Profiles[f]

LEMMA InitQueue == Init => QueueInv
BY DEF Init, QueueInv, Stored

LEMMA NextQueue == LinksInv /\ QueueInv /\ [Next]_vars => QueueInv'
<1> SUFFICES ASSUME LinksInv, QueueInv, [Next]_vars PROVE QueueInv'
  OBVIOUS
<1>1. CASE UNCHANGED <<found, runs>>
  BY <1>1 DEF QueueInv, Stored
<1>2. ASSUME NEW f \in Findings, NEW p \in Profiles[f], AddFinding(f, p) PROVE QueueInv'
  <2>1. runs' = runs /\ Stored' = Stored \cup {f}
            /\ found' = [g \in Stored \cup {f} |-> IF g = f THEN p ELSE found[g]]
    BY <1>2 DEF AddFinding, tables, Stored
  <2> QED BY <2>1 DEF QueueInv
<1>3. ASSUME NEW w \in Workers, CommitBuilt(w) PROVE QueueInv'
  <2> DEFINE run == [digest |-> work[w].digest, no |-> Cardinality(runs) + 1, groups |-> work[w].groups]
  <2>1. runs' = runs \cup {run} /\ found' = found /\ run.digest = work[w].digest
    BY <1>3 DEF CommitBuilt
  <2> HIDE DEF run
  <2>2. \A r \in runs : r.digest # run.digest
    BY <1>3, <2>1 DEF CommitBuilt, LinksInv, BuiltIsNew, Prior
  <2> QED BY <2>1, <2>2 DEF QueueInv, Stored
<1> QED BY <1>1, <1>2, <1>3
        DEF Next, vars, tables, Begin, Build, Incomplete, Fail, Stop, CommitReused, Decide

LEMMA WaitingIsRankable ==
    ASSUME LinksInv, ExecutorsInv, QueueInv
    PROVE  Rankable(Waiting)
<1> DEFINE published == GroupsOf({r \in runs : r.digest \in active})
           Entry(g) == [id |-> Id(g), rank |-> Ids[g.of.release][g.group.rep],
                        band |-> Band(marks[Id(g)].status),
                        family |-> found[g.group.rep].family, score |-> found[g.group.rep].score]
<1>1. ASSUME NEW x \in Waiting PROVE \E g \in published : x = Entry(g)
  BY DEF Waiting
<1>2. ASSUME NEW g \in published
      PROVE  \E r \in runs : /\ r.digest \in active /\ g.group \in r.groups
                             /\ g = [of |-> r.digest, group |-> g.group] /\ g.of = r.digest
  BY DEF GroupsOf
<1>3. ASSUME NEW g \in published
      PROVE  g.of.release \in Releases /\ g.group.rep \in Findings /\ g.group.rep \in Stored
  <2>1. PICK r \in runs : g.group \in r.groups /\ g.of = r.digest
    BY <1>2
  <2>2. GroupedTo(r.groups, r.digest.findings, MaxFindings, found)
    BY GroupsOfRun
  <2>3. g.group.rep \in r.digest.findings
    BY <2>1, <2>2 DEF GroupedTo
  <2> QED BY <2>1, <2>3 DEF ExecutorsInv, GroupsInv, RunsAreStored
<1>4. ASSUME NEW g \in published, NEW h \in published
      PROVE  g.of = h.of /\ (g.group.rep = h.group.rep => g = h)
  <2>1. PICK r \in runs : /\ r.digest \in active /\ g.group \in r.groups
                          /\ g = [of |-> r.digest, group |-> g.group] /\ g.of = r.digest
    BY <1>2
  <2>2. PICK q \in runs : /\ q.digest \in active /\ h.group \in q.groups
                          /\ h = [of |-> q.digest, group |-> h.group] /\ h.of = q.digest
    BY <1>2
  <2>3. r.digest = q.digest
    BY <2>1, <2>2 DEF LinksInv, GroupsInv, OneActiveGeneration
  <2>4. r = q
    BY <2>3 DEF QueueInv
  <2>5. GroupedTo(r.groups, r.digest.findings, MaxFindings, found)
    BY GroupsOfRun
  <2>6. g.group.rep = h.group.rep => g.group = h.group
    BY <2>1, <2>2, <2>4, <2>5 DEF GroupedTo
  <2> QED BY <2>1, <2>2, <2>3, <2>6
<1>5. \A g \in published :
          /\ Entry(g).rank = Ids[g.of.release][g.group.rep] /\ Entry(g).band = Band(marks[Id(g)].status)
          /\ Entry(g).family = found[g.group.rep].family /\ Entry(g).score = found[g.group.rep].score
  OBVIOUS
<1> HIDE DEF published, Entry
<1>6. ASSUME NEW x \in Waiting
      PROVE  x.band \in Nat /\ x.family \in Nat /\ x.score \in Nat /\ x.rank \in Nat
  <2>1. PICK g \in published : x = Entry(g)
    BY <1>1
  <2>2. Band(marks[Id(g)].status) \in Nat
    BY DEF Band
  <2>3. found[g.group.rep] \in Profiles[g.group.rep]
    BY <1>3 DEF QueueInv
  <2>4. found[g.group.rep].family \in Nat /\ found[g.group.rep].score \in Nat
    BY <1>3, <2>3, ProfilesAssumption
  <2>5. Ids[g.of.release][g.group.rep] \in Nat
    BY <1>3, IdsAssumption
  <2> QED BY <1>5, <2>1, <2>2, <2>4, <2>5
<1>7. ASSUME NEW x \in Waiting, NEW y \in Waiting, x.rank = y.rank PROVE x = y
  <2>1. PICK g \in published, h \in published : x = Entry(g) /\ y = Entry(h)
    BY <1>1
  <2>2. g.of = h.of /\ (g.group.rep = h.group.rep => g = h)
    BY <1>4
  <2>3. Ids[g.of.release][g.group.rep] = Ids[g.of.release][h.group.rep]
    BY <1>5, <1>7, <2>1, <2>2
  <2>4. g.group.rep = h.group.rep
    BY <1>3, <2>3, IdsAssumption
  <2> QED BY <2>1, <2>2, <2>4
<1>8. IsFiniteSet(Waiting)
  <2> DEFINE Rep(x) == CHOOSE f \in Findings : \E g \in published : x = Entry(g) /\ g.group.rep = f
             reps == [x \in Waiting |-> Rep(x)]
  <2>1. ASSUME NEW x \in Waiting
        PROVE  Rep(x) \in Findings /\ \E g \in published : x = Entry(g) /\ g.group.rep = Rep(x)
    BY <1>1, <1>3
  <2> HIDE DEF Rep
  <2>2. ASSUME NEW x \in Waiting, NEW y \in Waiting, Rep(x) = Rep(y) PROVE x = y
    BY <1>4, <2>1, <2>2
  <2>3. reps \in Injection(Waiting, Findings)
    BY <2>1, <2>2 DEF Injection, IsInjective
  <2>4. IsFiniteSet(Findings)
    <3>1. 1 \in Int /\ MaxFindings \in Int
      BY FindingsAssumption
    <3> QED BY <3>1, FS_Interval DEF Findings
  <2> HIDE DEF reps
  <2> QED BY <2>3, <2>4, FS_Injection
<1> QED BY <1>6, <1>7, <1>8 DEF Rankable

\* Whatever was published, decided and superseded, and however much a queue can
\* hold: it is full, holds the more urgent bands and the higher scores of each
\* family first, and gives the families of a band their turns.
THEOREM QueueStaysFair == Spec => []QueueIsFair
<1>1. LinksInv /\ ExecutorsInv /\ QueueInv => QueueIsFair
  <2> SUFFICES ASSUME LinksInv, ExecutorsInv, QueueInv, NEW capacity \in 0 .. Cardinality(Waiting)
               PROVE  Fair(Waiting, capacity)
    BY DEF QueueIsFair, Fair, Share
  <2> QED BY WaitingIsRankable, RankableIsFair
<1>2. Init => LinksInv /\ ExecutorsInv /\ QueueInv
  BY InitLinks, InitExecutors, InitQueue
<1>3. LinksInv /\ ExecutorsInv /\ QueueInv /\ [Next]_vars => LinksInv' /\ ExecutorsInv' /\ QueueInv'
  BY NextLinks, NextExecutors, NextQueue
<1> QED BY <1>1, <1>2, <1>3, PTL DEF Spec

=============================================================================
