------------------------------ MODULE Grouping ------------------------------
(***************************************************************************)
(* How findings become review groups.  The procedure is frozen in          *)
(* investigations.py (Reference below); the one that runs keeps its groups *)
(* in a private index on disk (Indexed) and must group exactly alike.      *)
(*                                                                         *)
(* Findings are numbered in the order both take them: by window, rule,     *)
(* entity, id.  A finding's profile is what grouping reads of it:          *)
(* [family, focal, day, bounded, anchors].                                 *)
(***************************************************************************)
EXTENDS Naturals, FiniteSets

CONSTANTS
    MaxFindings, \* bound: findings of a snapshot
    MaxMembers,  \* 256 in the code
    Peeling      \* families of peeling detectors

Findings == 1..MaxFindings

ASSUME FindingsAssumption == MaxFindings \in Nat
ASSUME MembersAssumption  == MaxMembers \in Nat \ {0}

-----------------------------------------------------------------------------
(* The reference procedure.                                                *)

\* Windows that cross midnight UTC and findings without anchors stay alone.
Connectable(p) == p.anchors # {} /\ p.bounded

\* Anchors are stored for a bounded representative, and never grow.
Backbone(p) == IF p.bounded THEN p.anchors ELSE {}

SameEpisode(p, q) ==
    /\ p.family = q.family
    /\ p.day = q.day
    /\ p.family \in Peeling \/ p.focal = q.focal

Open(groups, found, p) ==
    {g \in groups :
        /\ Connectable(p)
        /\ SameEpisode(p, found[g.rep])
        /\ Cardinality(g.members) < MaxMembers
        /\ Backbone(found[g.rep]) \cap p.anchors # {}}

\* ORDER BY id LIMIT 1; "ids" gives the order of the ids by representative.
First(groups, ids) == CHOOSE g \in groups : \A h \in groups : ids[g.rep] <= ids[h.rep]

Alone(f) == [rep |-> f, members |-> {f}]

Placed(groups, f, found, ids) ==
    LET open == Open(groups, found, found[f])
        g    == First(open, ids)
    IN  IF open = {} THEN groups \cup {Alone(f)}
        ELSE (groups \ {g}) \cup {[g EXCEPT !.members = @ \cup {f}]}

\* The groups of the findings S.
Reference(S, found, ids) ==
    LET after[f \in 0..MaxFindings] ==
            IF f = 0 THEN {}
            ELSE IF f \in S THEN Placed(after[f - 1], f, found, ids) ELSE after[f - 1]
    IN  after[MaxFindings]

-----------------------------------------------------------------------------
(* The procedure on the disk index: rows of groups, with a counter, and    *)
(* anchors that are dropped from the lookup when their group is full.      *)

NewRow(f) == [rep |-> f, members |-> {}, count |-> 0]

Looked(index, found, p) ==
    {g \in index.rows :
        /\ Connectable(p)
        /\ SameEpisode(p, found[g.rep])
        /\ g.count < MaxMembers
        /\ \E token \in p.anchors : <<g.rep, token>> \in index.eligible}

Anchored(f, p) == {<<f, token>> : token \in Backbone(p)}

\* Mutant: one place too early, while a group has room.
FullEarly(g) == g.count + 1 >= MaxMembers
Full(g) == g.count = MaxMembers

\* Mutant: a member's anchors join its group's.
Extended(eligible, g, p) == eligible \cup {<<g.rep, token>> : token \in p.anchors}
\* What the index keeps for lookup once p is a member of g.
Kept(eligible, g, p) == IF Full(g) THEN {e \in eligible : e[1] # g.rep} ELSE eligible

Entered(index, f, found, ids) ==
    LET p     == found[f]
        open  == Looked(index, found, p)
        old   == IF open = {} THEN NewRow(f) ELSE First(open, ids)
        new   == [old EXCEPT !.members = @ \cup {f}, !.count = @ + 1]
        known == IF open = {} THEN index.eligible \cup Anchored(f, p) ELSE index.eligible
    IN  [rows |-> (index.rows \ {old}) \cup {new}, eligible |-> Kept(known, new, p)]

Indexed(S, found, ids) ==
    LET after[f \in 0..MaxFindings] ==
            IF f = 0 THEN [rows |-> {}, eligible |-> {}]
            ELSE IF f \in S THEN Entered(after[f - 1], f, found, ids) ELSE after[f - 1]
    IN  {[rep |-> g.rep, members |-> g.members] : g \in after[MaxFindings].rows}

=============================================================================
