----------------------------- MODULE ReviewSeeds -----------------------------
(* Review seeds of a synthetic case (POST synthetic-review-seeds): once a   *)
(* snapshot is complete an analyst names an address, and every address its  *)
(* money reached is marked in the feature file and gets a finding.  Posts   *)
(* are PostgreSQL transactions at READ COMMITTED; the feature file is       *)
(* rewritten before they commit.                                            *)
EXTENDS Derivation

CONSTANTS Clients,         \* requests that may be served at once
          MaxSeedDepth,    \* DEFAULT_RISK_MAX_DEPTH
          SeedsOffered(_)  \* what analysts may post about these facts: <<address, reason>>

ASSUME SeedDepthAssumption == MaxSeedDepth \in Nat

VARIABLES
    seeds,     \* committed SyntheticReviewSeed rows
    posts,     \* the request each client has running, or Free
    exposure,  \* the seed columns of the feature file, by address shown
    hashed,    \* those columns in the file the store row's sha256 was taken of
    proximity  \* committed synthetic_seed_proximity findings

seedVars == <<seeds, posts, exposure, hashed, proximity>>
allVars == <<facts, fragments, machines, attempts, work, graphFile, graphRow, storeFile, storeRow, findings, conflict,
             seeds, posts, exposure, hashed, proximity>>

Free == [at |-> "free"]
None == [a \in {} |-> Null]

-----------------------------------------------------------------------------
(* propagate_synthetic_review_seeds: one hop is a spend by the only         *)
(* transaction that claims an output, then each addressed output of it.     *)

Onward(F, points) ==
    LET spent == Spenders(F)
    IN {p \in Outpoints(F) : LockOf(F, p) # Null /\ \E q \in points \cap DOMAIN spent : spent[q] = p[1]}

Fronts(F, address) ==
    LET front[hops \in 0 .. MaxSeedDepth] ==
            IF hops = 0 THEN {p \in Outpoints(F) : LockOf(F, p) = address} ELSE Onward(F, front[hops - 1])
    IN front

(* At how many hops one seed finds an address; itself, even unknown, at 0.  *)
FoundAt(F, seed, address) ==
    LET front == Fronts(F, seed[1])
    IN {h \in 0 .. MaxSeedDepth : \E p \in front[h] : LockOf(F, p) = address} \cup (IF address = seed[1] THEN {0} ELSE {})

(* The best score is the shortest path: a score falls by hop.               *)
Signals(F, given) ==
    LET found(a) == {s \in given : FoundAt(F, s, a) # {}}
    IN [a \in {b \in Addresses(F) \cup {s[1] : s \in given} : found(b) # {}} |->
           [distance |-> Min(UNION {FoundAt(F, s, a) : s \in found(a)}), count |-> Cardinality(found(a))]]

(* _merge_signal_features on every row of an address: an equal score takes  *)
(* the newer columns.  An address without a row is not in the file.         *)
InFile == {r.key[1] : r \in Range(storeRow)}

Merged(file, signals) ==
    LET taken == {a \in DOMAIN signals \cap InFile : a \in DOMAIN file => signals[a].distance <= file[a].distance}
    IN [a \in DOMAIN file \cup taken |-> IF a \in taken THEN signals[a] ELSE file[a]]

-----------------------------------------------------------------------------
(* One request.                                                             *)

SnapshotComplete == findings # Null /\ work = Idle

Open(c) == posts[c] # Free
InFlight == {c \in Clients : Open(c)}

(* INSERT of the seed: waits for the same key and takes KEY SHARE on the    *)
(* case; a seed that exists is answered as it is.  The seeds the request    *)
(* then reads are the committed ones and its own.                           *)
Inserted(c, s, read) ==
    /\ SnapshotComplete /\ ~Open(c)
    /\ s \notin seeds /\ \A d \in InFlight : posts[d].seed # s
    /\ posts' = [d \in Clients |->
                    IF d = c THEN [at |-> "reading", seed |-> s, sees |-> Signals(facts, read),
                                   copy |-> None, adds |-> {}, alone |-> InFlight = {}]
                    ELSE IF Open(d) THEN [posts[d] EXCEPT !.alone = FALSE] ELSE Free]
    /\ UNCHANGED <<seeds, exposure, hashed, proximity>>

\* Mutant: only the new seed is propagated.
InsertOwn(c, s) == Inserted(c, s, {s})

Insert(c, s) == Inserted(c, s, seeds \cup {s})

(* rewrite_vectors reads the file it finds, and replaces the one there then.*)
Rewrite(c) ==
    /\ Open(c) /\ posts[c].at = "reading"
    /\ posts' = [posts EXCEPT ![c].at = "rewriting", ![c].copy = Merged(exposure, posts[c].sees)]
    /\ UNCHANGED <<seeds, exposure, hashed, proximity>>

(* Once the file is replaced, a finding is added for each signal whose      *)
(* address has none yet.                                                    *)
NewFindings(signals) ==
    {[address |-> a, distance |-> signals[a].distance, count |-> signals[a].count] :
        a \in DOMAIN signals \ {f.address : f \in proximity}}

Swap(c) ==
    /\ Open(c) /\ posts[c].at = "rewriting"
    /\ exposure' = posts[c].copy
    /\ posts' = [posts EXCEPT ![c].at = "swapped", ![c].adds = NewFindings(posts[c].sees)]
    /\ UNCHANGED <<seeds, hashed, proximity>>

Committed(c) ==
    /\ Open(c) /\ posts[c].at = "swapped"
    /\ seeds' = seeds \cup {posts[c].seed}
    /\ proximity' = proximity \cup posts[c].adds
    /\ hashed' = posts[c].copy
    /\ posts' = [posts EXCEPT ![c] = Free]
    /\ UNCHANGED exposure

\* Mutant: append_event does not lock the case.
CommitUnlocked(c) == Committed(c)

(* append_event takes FOR UPDATE on the case, which waits for every other   *)
(* request that has inserted; then the transaction commits.                 *)
Commit(c) == Committed(c) /\ InFlight = {c}

(* The request fails, its server dies, or it is the one the database picks  *)
(* when two wait for each other; a file it replaced stays replaced.         *)
Abort(c) ==
    /\ Open(c)
    /\ posts' = [posts EXCEPT ![c] = Free]
    /\ UNCHANGED <<seeds, exposure, hashed, proximity>>

-----------------------------------------------------------------------------

SeedInit == Init /\ seeds = {} /\ posts = [c \in Clients |-> Free] /\ exposure = None /\ hashed = None /\ proximity = {}

(* A job is complete with its snapshot: nothing is derived after a post.    *)
Derive == Next /\ seeds = {} /\ InFlight = {} /\ UNCHANGED seedVars

SeedNext ==
    \/ Derive
    \/ /\ \E c \in Clients :
             \/ \E s \in SeedsOffered(facts) : Insert(c, s)
             \/ Rewrite(c) \/ Swap(c) \/ Commit(c) \/ Abort(c)
       /\ UNCHANGED vars

SeedSpec == SeedInit /\ [][SeedNext]_allVars

-----------------------------------------------------------------------------
(* Properties.                                                              *)

(* Exactly the addresses the committed seeds reach have a finding, one each,*)
(* that shows no shorter a path than there is (deterministic.py:1085-1089). *)
ReachIsReported ==
    LET reach == Signals(facts, seeds)
    IN /\ {f.address : f \in proximity} = DOMAIN reach
       /\ \A f, g \in proximity : f.address = g.address => f = g
       /\ \A f \in proximity : f.distance >= reach[f.address].distance /\ f.count \in 1 .. reach[f.address].count

(* Requests overlap and abort after they replaced the file, so the file may *)
(* show a seed that is not committed, or miss one that is.  A request that  *)
(* ran alone repairs that: when it commits, the file shows every committed  *)
(* seed's reach, as strongly, and the store row has the file's hash.        *)
LoneRequestsRepair ==
    \A c \in Clients :
        (Open(c) /\ posts[c].alone /\ seeds' # seeds /\ posts'[c] = Free) =>
            LET reach == Signals(facts, seeds')
            IN /\ hashed' = exposure'
               /\ \A a \in DOMAIN reach \cap InFile : a \in DOMAIN exposure' /\ exposure'[a].distance <= reach[a].distance

SeedsAreRepaired == [][LoneRequestsRepair]_allVars
=============================================================================
