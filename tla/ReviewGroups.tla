---------------------------- MODULE ReviewGroups ----------------------------
(***************************************************************************)
(* Review groups of one snapshot: generations of groups built by workers,  *)
(* at most one of them active; findings that keep arriving; decisions on   *)
(* groups; and the queue a reviewer works from.                            *)
(*                                                                         *)
(* A generation is an InvestigationRun, identified by its input digest: the*)
(* release of the procedure and the findings it grouped.  A worker takes   *)
(* the snapshot's row lock, reads the digest, builds or finds the          *)
(* generation, and commits; whatever stops it leaves nothing behind.       *)
(***************************************************************************)
EXTENDS Grouping

CONSTANTS
    Workers,
    Releases,     \* hashes of the grouping procedure's source
    Ids,          \* per release, the order of the group ids
    Profiles,     \* per finding, the profiles it may have, with its score
    Families,     \* families, numbered in the order of their names
    RowLocks,     \* PostgreSQL: the snapshot's row can be locked
    MaxBuilds,    \* bound: generations
    MaxDecisions  \* bound: decisions on groups

ASSUME IdsAssumption ==
    \A r \in Releases : \A f \in Findings :
        Ids[r][f] \in Nat /\ \A g \in Findings : Ids[r][f] = Ids[r][g] => f = g
ASSUME ProfilesAssumption ==
    Families \subseteq Nat /\ \A f \in Findings : \A p \in Profiles[f] : p.family \in Families /\ p.score \in Nat
ASSUME RunsAssumption == MaxBuilds \in Nat /\ MaxDecisions \in Nat /\ RowLocks \in BOOLEAN

VARIABLES
    found,    \* finding -> profile, the findings stored so far
    runs,     \* complete generations, [digest, no, groups]
    active,   \* digests of the active ones
    marks,    \* group -> its version and status
    links,    \* InvestigationReplacement: <<old group, new group>>
    grouped,  \* findings a finished stage has reported as grouped
    work      \* per worker, the grouping stage it runs

vars == <<found, runs, active, marks, links, grouped, work>>

tables == <<runs, active, marks, links, grouped>>

-----------------------------------------------------------------------------

Step(at, kind, digest, groups) == [at |-> at, kind |-> kind, digest |-> digest, groups |-> groups]

Idle == Step("idle", "none", [release |-> "none", findings |-> {}], {})

Init ==
    /\ found = [f \in {} |-> 0]
    /\ runs = {} /\ active = {} /\ links = {} /\ grouped = {}
    /\ marks = [g \in {} |-> 0]
    /\ work = [w \in Workers |-> Idle]

Stored == DOMAIN found

\* Mutant: the digest does not depend on the findings.
DigestOfRelease(r) == [release |-> r, findings |-> {}]
Digest(r) == [release |-> r, findings |-> Stored]

GroupId(digest, g) == <<digest, g.rep>>

Prior(digest) == {r \in runs : r.digest = digest}

\* A finding added to a finished snapshot (a synthetic review seed) or by the
\* stages before grouping.  Its foreign key waits for a locked snapshot; on
\* SQLite, for a worker that has begun to write.
MayInsert == \A w \in Workers : work[w].at = "idle" \/ (~RowLocks /\ work[w].at = "digested")

AddFinding(f, p) ==
    /\ MayInsert
    /\ f \in Findings \ Stored
    /\ found' = [g \in Stored \cup {f} |-> IF g = f THEN p ELSE found[g]]
    /\ UNCHANGED <<tables, work>>

-----------------------------------------------------------------------------
(* A worker's grouping stage.                                              *)

\* SELECT ... FOR UPDATE of the snapshot; on SQLite there is one worker.
SnapshotFree == \A w \in Workers : work[w].at = "idle"

\* The digest and the number of findings are read first, by a worker of some
\* release: an upgrade or a rollback may have come before.
Begin(w, kind, r) ==
    /\ work[w].at = "idle"
    /\ SnapshotFree
    /\ Prior(Digest(r)) # {} \/ Cardinality(runs) < MaxBuilds
    /\ work' = [work EXCEPT ![w] = Step("digested", kind, Digest(r), {})]
    /\ UNCHANGED <<found, tables>>

Stop(w) == work' = [work EXCEPT ![w] = Idle] /\ UNCHANGED <<found, tables>>

\* Mutant: the number of members is not compared with the digest's.
AnyNumber(w) == TRUE
Expected(w) == Cardinality(Stored) = Cardinality(work[w].digest.findings)

\* The findings are read again, and grouped.
Build(w) ==
    /\ work[w].at = "digested"
    /\ Prior(work[w].digest) = {}
    /\ Expected(w)
    /\ LET groups == Indexed(Stored, found, Ids[work[w].digest.release])
       IN  work' = [work EXCEPT ![w] = Step("built", work[w].kind, work[w].digest, groups)]
    /\ UNCHANGED <<found, tables>>

Incomplete(w) ==
    /\ work[w].at = "digested"
    /\ Prior(work[w].digest) = {}
    /\ ~Expected(w)
    /\ Stop(w)

\* The lease is lost, the disk is full, the process dies.
Fail(w) == work[w].at # "idle" /\ Stop(w)

\* Mutant: only groups of the active generation are linked.
OfActive(digest) == {r \in runs : r.digest \in active}
Earlier(digest) == {r \in runs : r.digest # digest}

\* The groups of some generations, each with the digest it is of.
GroupsOf(S) == UNION {{[of |-> r.digest, group |-> g] : g \in r.groups} : r \in S}

Id(g) == GroupId(g.of, g.group)

Overlap(old, groups) == {pair \in old \X groups : pair[1].group.members \cap pair[2].group.members # {}}

NewLinks(w) ==
    LET new == {[of |-> work[w].digest, group |-> g] : g \in work[w].groups}
    IN  {<<Id(pair[1]), Id(pair[2])>> : pair \in Overlap(GroupsOf(Earlier(work[w].digest)), new)}

\* Mutant: the generation joins the active ones.
Joined(digest) == active \cup {digest}
\* Mutant: a generation that is active stays so.
FirstStays(digest) == IF active = {} THEN {digest} ELSE active
Activated(digest) == {digest}

Fresh == [version |-> 1, status |-> "open"]

\* Mutant: what was decided on earlier generations goes.
OpenedAnew(new) == [g \in new |-> Fresh]
Opened(new) == [g \in DOMAIN marks \cup new |-> IF g \in new THEN Fresh ELSE marks[g]]

\* A generation of these inputs exists.  A full run leaves it as it is, active
\* or not; group-only recovery makes it the active one.
CommitReused(w) ==
    /\ work[w].at = "digested"
    /\ Prior(work[w].digest) # {}
    /\ grouped' = grouped \cup work[w].digest.findings
    /\ active' = IF work[w].kind = "grouping_only" THEN Activated(work[w].digest) ELSE active
    /\ work' = [work EXCEPT ![w] = Idle]
    /\ UNCHANGED <<found, runs, marks, links>>

CommitBuilt(w) ==
    LET d   == work[w].digest
        new == {GroupId(d, g) : g \in work[w].groups}
    IN  /\ work[w].at = "built"
        /\ runs' = runs \cup {[digest |-> d, no |-> Cardinality(runs) + 1, groups |-> work[w].groups]}
        /\ active' = Activated(d)
        /\ links' = links \cup NewLinks(w)
        /\ marks' = Opened(new)
        /\ grouped' = grouped \cup d.findings
        /\ work' = [work EXCEPT ![w] = Idle]
        /\ UNCHANGED found

-----------------------------------------------------------------------------
(* Reviewers.                                                              *)

Unresolved == {"open", "escalated", "needs_data_review"}

Decisions == Cardinality({d \in (DOMAIN marks) \X (1..MaxDecisions) : d[2] < marks[d[1]].version})

\* Any published group, of an active generation or an earlier one.
Decide(g, verdict) ==
    /\ Decisions < MaxDecisions
    /\ marks' = [marks EXCEPT ![g] = [version |-> @.version + 1, status |-> verdict]]
    /\ UNCHANGED <<found, runs, active, links, grouped, work>>

Band(status) ==
    CASE status = "escalated" -> 0
      [] status = "needs_data_review" -> 1
      [] OTHER -> 2

\* The unresolved groups of active generations, with what orders them.
Waiting ==
    {[id |-> Id(g), rank |-> Ids[g.of.release][g.group.rep], band |-> Band(marks[Id(g)].status),
      family |-> found[g.group.rep].family, score |-> found[g.group.rep].score] :
        g \in {h \in GroupsOf({r \in runs : r.digest \in active}) : marks[Id(h)].status \in Unresolved}}

\* g is ranked above h where both are of one band and family.
Higher(g, h) == g.score > h.score \/ (g.score = h.score /\ g.rank < h.rank)

\* Mutant: ranks count every family of the band.
BandRank(waiting, g) == Cardinality({h \in waiting : h.band = g.band /\ Higher(h, g)})
FamilyRank(waiting, g) ==
    Cardinality({h \in waiting : h.band = g.band /\ h.family = g.family /\ Higher(h, g)})

\* The waiting groups, each with its key in the queue's order.
Keyed(waiting) ==
    {[band |-> g.band, turn |-> FamilyRank(waiting, g), family |-> g.family, rank |-> g.rank, score |-> g.score] :
        g \in waiting}

Ahead(g, h) ==
    \/ g.band < h.band
    \/ g.band = h.band /\ g.turn < h.turn
    \/ g.band = h.band /\ g.turn = h.turn /\ g.family < h.family
    \/ g.band = h.band /\ g.turn = h.turn /\ g.family = h.family /\ g.rank < h.rank

Queue(keyed, capacity) == {g \in keyed : Cardinality({h \in keyed : Ahead(h, g)}) < capacity}

-----------------------------------------------------------------------------

Next ==
    \/ \E f \in Findings : \E p \in Profiles[f] : AddFinding(f, p)
    \/ \E w \in Workers :
           \/ \E kind \in {"full", "grouping_only"}, r \in Releases : Begin(w, kind, r)
           \/ Build(w) \/ Incomplete(w) \/ Fail(w) \/ CommitReused(w) \/ CommitBuilt(w)
    \/ \E g \in DOMAIN marks, verdict \in {"escalated", "needs_data_review", "dismissed"} : Decide(g, verdict)

Spec == Init /\ [][Next]_vars

-----------------------------------------------------------------------------
(* Properties.                                                             *)

Digests == [release : Releases \cup {"none"}, findings : SUBSET Findings]

GroupShapes == [rep : Findings, members : SUBSET Findings]

\* Every variable keeps its type.
TypeOK ==
    /\ DOMAIN found \subseteq Findings /\ \A f \in DOMAIN found : found[f] \in Profiles[f]
    /\ runs \subseteq [digest : Digests, no : 1..MaxBuilds, groups : SUBSET GroupShapes]
    /\ active \subseteq Digests /\ grouped \subseteq Stored
    /\ DOMAIN marks \subseteq (Digests \X Findings)
    /\ \A g \in DOMAIN marks : marks[g].version \in 1..MaxDecisions + 1
    /\ links \subseteq (DOMAIN marks) \X (DOMAIN marks)
    /\ work \in [Workers -> [at : {"idle", "digested", "built"}, kind : {"none", "full", "grouping_only"},
                             digest : Digests, groups : SUBSET GroupShapes]]

\* At most one generation of the snapshot is active, it is a complete one, and
\* there is one as soon as there is any: the queue never counts a group twice
\* and never goes empty because a build failed.
OneActiveGeneration ==
    /\ active \subseteq {r.digest : r \in runs}
    /\ \A d, e \in active : d = e
    /\ runs # {} => active # {}

\* A finding that a finished grouping stage has reported stays under review:
\* reuse, reactivation, another release or a failed build never drop it from
\* the active generation, whose groups hold each of its findings once
\* (GroupsAreEpisodes).
GroupedStaysGrouped == grouped \subseteq UNION {d.findings : d \in active}

\* A group is one episode: its members connect to the representative itself,
\* never through one another, and every finding is in exactly one group.
GroupsAreEpisodes ==
    \A r \in runs :
        /\ \A f \in r.digest.findings : Cardinality({g \in r.groups : f \in g.members}) = 1
        /\ \A g \in r.groups :
               /\ g.rep \in g.members /\ Cardinality(g.members) <= MaxMembers
               /\ \A f \in g.members \ {g.rep} :
                      /\ g.rep < f
                      /\ found[f].bounded /\ found[g.rep].bounded
                      /\ SameEpisode(found[f], found[g.rep])
                      /\ found[f].anchors \cap found[g.rep].anchors # {}

\* The procedure on the disk index groups exactly as the reference does, and a
\* generation holds the findings its digest names, in episodes, though digest
\* and findings are read at different moments.
ExecutorsAgree ==
    /\ \A r \in runs : r.groups = Reference(r.digest.findings, found, Ids[r.digest.release])
    /\ GroupsAreEpisodes

\* A decision is never out of reach: from any group of a generation, links lead
\* to every group of a later generation that took over one of its findings,
\* whichever of them is active.
ReplacementsAreLinked ==
    \A r, q \in runs : r.no < q.no =>
        {<<Id(pair[1]), Id(pair[2])>> : pair \in Overlap(GroupsOf({r}), GroupsOf({q}))} \subseteq links

\* The queue is fair for every capacity: the more urgent band first, families
\* in turn within a band, and the higher score first within a family.
QueueIsFair ==
    LET keyed == Keyed(Waiting)
    IN  \A capacity \in 0..Cardinality(Waiting) :
            LET queue   == Queue(keyed, capacity)
                backlog == keyed \ queue
                Share(band, family) == Cardinality({g \in queue : g.band = band /\ g.family = family})
            IN  /\ Cardinality(queue) = capacity
                /\ \A g \in queue, h \in backlog :
                       /\ g.band <= h.band
                       /\ g.band = h.band /\ g.family = h.family => g.score >= h.score
                /\ \A h \in backlog, family \in Families :
                       Share(h.band, family) <= Share(h.band, h.family) + 1

=============================================================================
