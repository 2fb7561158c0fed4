-------------------------- MODULE CaseWritersProofs --------------------------
(* Theorems about CaseWriters, for any clients, contents, keys, findings,   *)
(* groups and number of transactions.                                       *)
(*                                                                          *)
(* What serializes writers is the lock that append_event takes, the unique  *)
(* index of the keys and the guarded update of a version; each is one part  *)
(* of the invariant, and what a transaction read before it got there is     *)
(* either still so or of no consequence.                                    *)
EXTENDS CaseWriters, FiniteSetTheorems, TLAPS

UploadSteps == {"store", "find_source", "source", "source_case", "find_job", "job", "job_case"}
AnyDecision == [kind : {"decide"}, item : Items, version : Nat \ {0}, verdict : Verdicts]
AnyAsk == Uploads \cup AnyDecision \cup [kind : {"findings"}] \cup [kind : {"none"}]

Transaction ==
    [at : Steps, no : Nat, ask : AnyAsk, inserts : SUBSET ({"source", "job"} \X (Digests \cup Keys)),
     updates : SUBSET Items, read : Nat, prior : Nat, sequence : Nat]

Open(c) == tx[c].at # "done"
Deciding(c) == Open(c) /\ tx[c].ask.kind = "decide"
Chain(i) == {r \in reviews : r.item = i}
Numbers == {e.sequence : e \in events}

TxInv ==
    /\ requests \in Nat /\ sharing \subseteq Clients
    /\ tx \in [Clients -> Transaction]
    /\ \A c \in Clients :
           /\ tx[c].at \in UploadSteps => tx[c].ask.kind = "upload"
           /\ tx[c].at \in {"read", "read_prior", "update"} => tx[c].ask.kind = "decide"
           /\ tx[c].at \in {"read", "read_prior"} => tx[c].ask.item \in Findings
           /\ tx[c].at = "rows" => tx[c].ask.kind = "findings"
           /\ Open(c) => tx[c].no \in 1 .. requests /\ tx[c].ask.kind # "none"
           /\ ~Open(c) => tx[c] = Done
    /\ \A c, d \in Clients : Open(c) /\ Open(d) /\ tx[c].no = tx[d].no => c = d

(* The log: one client at most is between its number and its commit.        *)
LogInv ==
    /\ events \subseteq [sequence : Nat, no : 1 .. requests]
    /\ \E n \in Nat : Numbers = 1 .. n
    /\ \A e, f \in events : e.sequence = f.sequence => e = f
    /\ \A e \in events, c \in Clients : Open(c) => e.no # tx[c].no
    /\ \A c \in Clients : c \in holding <=> tx[c].at = "commit"
    /\ holding \subseteq Clients /\ \A c, d \in holding : c = d
    /\ \A c \in holding : tx[c].sequence = NextSequence(c)
    /\ reader.last \in Numbers \cup {0} /\ reader.sent \subseteq events
    /\ ReaderMissesNothing
    /\ {i.no : i \in imports} \cup {r.no : r \in reviews} \subseteq {e.no : e \in events}

(* Idempotency keys: a key is in an import or in one transaction at most.   *)
UploadHolds(c) ==
    Open(c) /\ tx[c].ask.kind = "upload" =>
        /\ tx[c].at # "store" => tx[c].ask.digest \in originals
        /\ tx[c].at \in {"job_case", "event", "commit"} => <<"job", tx[c].ask.key>> \in tx[c].inserts

KeyInv ==
    /\ imports \subseteq [no : Nat, key : Keys, digest : Digests]
    /\ answers \subseteq [key : Keys, digest : Digests, import : Nat]
    /\ \A i, j \in imports : i.key = j.key => i = j
    /\ \A a \in answers : [no |-> a.import, key |-> a.key, digest |-> a.digest] \in imports
    /\ \A i \in imports : i.digest \in sources \cap originals
    /\ \A c \in Clients : UploadHolds(c)
    /\ \A c \in Clients, k \in Keys :
           <<"job", k>> \in tx[c].inserts =>
               /\ \A i \in imports : i.key # k
               /\ \A d \in Clients \ {c} : <<"job", k>> \notin tx[d].inserts

(* Decisions: what is on record ...                                         *)
Follows(prior, item, version) ==
    IF version = 1 THEN prior = 0 ELSE \E q \in reviews : q.item = item /\ q.no = prior /\ q.version = version - 1

ChainInv ==
    /\ items \in [Items -> [version : Nat \ {0}, status : Verdicts \cup {"open"}]]
    /\ reviews \subseteq [no : Nat, item : Items, version : Nat \ {0}, verdict : Verdicts, prior : Nat]
    /\ \A i \in Items : {r.version : r \in Chain(i)} = 1 .. items[i].version - 1
    /\ \A r, q \in reviews : r.item = q.item /\ r.version = q.version => r = q
    /\ \A r, q \in reviews : r.item = q.item /\ r.version < q.version => r.no < q.no
    /\ \A r \in reviews : r.version = items[r.item].version - 1 => items[r.item].status = r.verdict
    /\ \A r \in reviews : r.item \in Findings => Follows(r.prior, r.item, r.version)

(* ... and what the open transactions know of it.                           *)
DecisionHolds(c) ==
    LET t == tx[c]  now == items[t.ask.item].version
    IN  /\ t.ask.version <= now
        /\ \A r \in Chain(t.ask.item) : r.version < t.ask.version => r.no < t.no
        /\ t.at \in {"event", "commit"} => t.updates = {t.ask.item} /\ t.ask.version = now
        /\ t.ask.item \in Findings =>
               /\ t.at \in {"read_prior", "update", "event", "commit"} => t.ask.version <= t.read /\ t.read <= now
               /\ t.at \in {"update", "event", "commit"} /\ t.read = now => Follows(t.prior, t.ask.item, now)

DecideInv ==
    /\ \A c \in Clients : Deciding(c) => DecisionHolds(c)
    /\ \A c, d \in Clients : c # d => tx[c].updates \cap tx[d].updates = {}

CaseInv == TxInv /\ LogInv /\ KeyInv /\ ChainInv /\ DecideInv

-----------------------------------------------------------------------------
(* Transactions.                                                            *)

LEMMA CaseInit == Init => CaseInv
<1> SUFFICES ASSUME Init PROVE CaseInv
  OBVIOUS
<1> USE DEF Init, Done, Open, Deciding, Chain, Numbers
<1>1. TxInv BY DEF TxInv, Transaction, Steps, AnyAsk, UploadSteps
<1>2. LogInv
  <2>1. Numbers = 1 .. 0 OBVIOUS
  <2> QED BY <2>1 DEF LogInv, ReaderMissesNothing
<1>3. KeyInv BY DEF KeyInv, UploadHolds
<1>4. ChainInv BY DEF ChainInv
<1>5. DecideInv BY DEF DecideInv
<1> QED BY <1>1, <1>2, <1>3, <1>4, <1>5 DEF CaseInv

\* A statement moves its own transaction on, to a step of its kind, or ends it.
Moves(c, at) ==
    /\ Open(c) /\ at \in Steps \ {"done"} /\ tx' \in [Clients -> Transaction]
    /\ tx'[c].at = at /\ tx'[c].no = tx[c].no /\ tx'[c].ask = tx[c].ask
    /\ \A d \in Clients \ {c} : tx'[d] = tx[d]

LEMMA AskTyped ==
    ASSUME TxInv, NEW c \in Clients
    PROVE  /\ tx[c].at \in UploadSteps => tx[c].ask \in Uploads
           /\ tx[c].at \in {"read", "read_prior", "update"} => tx[c].ask \in AnyDecision
           /\ Deciding(c) => tx[c].ask \in AnyDecision
           /\ tx[c].ask.kind = "upload" => tx[c].ask \in Uploads
BY DEF TxInv, Transaction, AnyAsk, Uploads, AnyDecision, Deciding

LEMMA GotoMoves ==
    ASSUME TxInv, NEW c \in Clients, Open(c), NEW at \in Steps \ {"done"}, Goto(c, at)
    PROVE  Moves(c, at) /\ tx'[c] = [tx[c] EXCEPT !.at = at]
BY DEF TxInv, Transaction, Goto, Moves, Open

LEMMA NextIsNext ==
    ASSUME LogInv, NEW c
    PROVE  \E n \in Nat : Numbers = 1 .. n /\ NextSequence(c) = n + 1
<1>1. PICK n \in Nat : Numbers = 1 .. n BY DEF LogInv
<1>2. CASE n = 0
  <2>1. \A e \in events : e.sequence \in 1 .. 0 BY <1>1, <1>2 DEF Numbers
  <2>2. events = {} BY <2>1
  <2> QED BY <1>1, <1>2, <2>2 DEF NextSequence
<1>3. CASE n # 0
  <2>1. events # {} BY <1>1, <1>3 DEF Numbers
  <2> DEFINE top == CHOOSE m \in Numbers : \A e \in events : e.sequence <= m
  <2>2. n \in Numbers /\ \A e \in events : e.sequence <= n BY <1>1, <1>3 DEF Numbers
  <2>3. top \in Numbers /\ \A e \in events : e.sequence <= top BY <2>2
  <2>4. NextSequence(c) = 1 + top BY <2>1 DEF NextSequence, Numbers
  <2> HIDE DEF top
  <2>5. \E e \in events : e.sequence = n BY <2>2 DEF Numbers
  <2>6. top \in 1 .. n /\ n <= top BY <1>1, <2>3, <2>5
  <2> QED BY <1>1, <2>4, <2>6
<1> QED BY <1>2, <1>3

\* The latest decision is on record, and no other of the item is later.
LEMMA LatestIs ==
    ASSUME ChainInv, NEW i \in Items, NEW n \in Latest(Chain(i))
    PROVE  \E r \in Chain(i) : r.no = n /\ \A q \in Chain(i) : q.version <= r.version
<1>1. PICK r \in Chain(i) : r.no = n /\ \A p \in Chain(i) : p.no <= r.no BY DEF Latest
<1>2. ASSUME NEW q \in Chain(i) PROVE q.version <= r.version
  BY <1>1, <1>2 DEF ChainInv, Chain
<1> QED BY <1>1, <1>2

LEMMA ReadPriorIs ==
    ASSUME TxInv, ChainInv, NEW c \in Clients, ReadPrior(c)
    PROVE  /\ Moves(c, "update") /\ tx'[c].read = tx[c].read /\ tx'[c].updates = tx[c].updates
           /\ tx'[c].inserts = tx[c].inserts
           /\ LET i == tx[c].ask.item IN Follows(tx'[c].prior, i, items[i].version)
<1> DEFINE i == tx[c].ask.item
<1> DEFINE before == Latest(Chain(i))
<1> DEFINE prior == IF before = {} THEN 0 ELSE CHOOSE n \in before : TRUE
<1>1. Open(c) /\ i \in Items /\ tx[c] \in Transaction BY AskTyped DEF ReadPrior, At, Open, AnyDecision, TxInv
<1>2. tx' = [tx EXCEPT ![c].at = "update", ![c].prior = prior] BY DEF ReadPrior, Chain
<1>3. {r.version : r \in Chain(i)} = 1 .. items[i].version - 1 /\ items[i].version \in Nat \ {0} BY <1>1 DEF ChainInv
<1>4. prior \in Nat /\ Follows(prior, i, items[i].version)
  <2>1. CASE before = {}
    <3>1. ASSUME items[i].version # 1 PROVE FALSE
      <4>1. items[i].version - 1 \in 1 .. items[i].version - 1 BY <1>3, <3>1
      <4>2. PICK r \in Chain(i) : r.version = items[i].version - 1 BY <1>3, <4>1
      <4>3. ASSUME NEW q \in Chain(i) PROVE q.no <= r.no
        <5>1. q.version \in 1 .. items[i].version - 1 /\ q \in reviews /\ r \in reviews BY <1>3 DEF Chain
        <5>2. q = r \/ q.version < r.version BY <1>3, <4>2, <5>1 DEF Chain, ChainInv
        <5> QED BY <5>1, <5>2 DEF Chain, ChainInv
      <4>4. r.no \in before BY <4>3 DEF Latest
      <4> QED BY <2>1, <4>4
    <3> QED BY <2>1, <3>1 DEF Follows
  <2>2. CASE before # {}
    <3>1. prior \in before BY <2>2
    <3>2. PICK r \in Chain(i) : r.no = prior /\ \A q \in Chain(i) : q.version <= r.version BY <1>1, <3>1, LatestIs
    <3> DEFINE now == items[i].version
    <3>a. now \in Nat \ {0} /\ {q.version : q \in Chain(i)} = 1 .. now - 1 BY <1>3
    <3> HIDE DEF now
    <3>3. r.version \in 1 .. now - 1 /\ r \in reviews /\ r.item = i /\ r.no \in Nat
      BY <3>a, <3>2 DEF Chain, ChainInv
    <3>4. now - 1 \in 1 .. now - 1 BY <3>a, <3>3
    <3>5. PICK q \in Chain(i) : q.version = now - 1 BY <3>a, <3>4
    <3>6. r.version = now - 1 /\ now # 1 BY <3>a, <3>2, <3>3, <3>5
    <3> QED BY <3>2, <3>3, <3>6 DEF Follows, now
  <2> QED BY <2>1, <2>2
<1> HIDE DEF prior
<1> QED BY <1>1, <1>2, <1>4 DEF Moves, TxInv, Transaction, Steps

LEMMA TxStep == CaseInv /\ [Next]_vars => TxInv'
<1> SUFFICES ASSUME CaseInv, [Next]_vars PROVE TxInv'
  OBVIOUS
<1> USE DEF CaseInv
<1>0. TxInv OBVIOUS
<1>5. ASSUME NEW c \in Clients, tx' = [tx EXCEPT ![c] = Done], requests' = requests, Release(c) PROVE TxInv'
  <2>1. Done \in Transaction BY DEF Transaction, Done, Steps, AnyAsk
  <2>2. sharing' \subseteq Clients BY <1>0, <1>5 DEF Release, TxInv
  <2> QED BY <1>0, <1>5, <2>1, <2>2 DEF TxInv, Open, UploadSteps, Done
<1>1. ASSUME NEW c \in Clients, Abort(c) PROVE TxInv' BY <1>1, <1>5 DEF Abort
<1>2. ASSUME NEW c \in Clients, NEW ask \in Asks, Begin(c, ask) PROVE TxInv'
  <2>1. ask \in AnyAsk /\ ask.kind \in {"upload", "decide", "findings"} BY <1>2 DEF Asks, AnyAsk, Decisions, AnyDecision, ChainInv, Uploads
  <2>2. FirstStep(ask) \in Steps /\ FirstStep(ask) \in {"store", "read", "update", "rows"} BY DEF FirstStep, Steps
  <2>3. PICK no \in Nat : no = requests + 1 BY <1>0 DEF TxInv
  <2>4. PICK t : t = [Done EXCEPT !.at = FirstStep(ask), !.no = no, !.ask = ask] OBVIOUS
  <2>5. t.at = FirstStep(ask) /\ t.no = no /\ t.ask = ask BY <2>4 DEF Done
  <2>a. t \in Transaction BY <2>1, <2>2, <2>4 DEF Done, Transaction
  <2>6. /\ FirstStep(ask) = "store" => ask.kind = "upload"
        /\ FirstStep(ask) \in {"read", "update"} => ask.kind = "decide"
        /\ FirstStep(ask) = "read" => ask.item \in Findings
        /\ FirstStep(ask) = "rows" => ask.kind \notin {"upload", "decide"}
    BY DEF FirstStep
  <2>7. tx' = [tx EXCEPT ![c] = t] /\ requests' = no /\ sharing' = sharing BY <1>2, <2>3, <2>4 DEF Begin, locks
  <2> QED BY <1>0, <2>1, <2>2, <2>3, <2>5, <2>a, <2>6, <2>7 DEF TxInv, Open, UploadSteps
<1>3. ASSUME NEW c \in Clients, NEW at \in Steps, Moves(c, at), requests' = requests, sharing' \subseteq Clients,
             at # "rows", at \in UploadSteps => tx[c].ask.kind = "upload",
             at \in {"read", "read_prior", "update"} => tx[c].ask.kind = "decide",
             at \in {"read", "read_prior"} => tx[c].ask.item \in Findings
      PROVE  TxInv'
  BY <1>0, <1>3 DEF TxInv, Transaction, Moves, Open
<1>4. ASSUME NEW c \in Clients, Statement(c) PROVE TxInv'
  <2> USE DEF At, Open, locks
  <2>0. c \in Clients /\ sharing \subseteq Clients /\ tx[c] \in Transaction BY <1>0 DEF TxInv
  <2>1. CASE StoreUpload(c)
    <3>1. Moves(c, "find_source") BY <1>0, <2>1, GotoMoves DEF StoreUpload, Steps
    <3> QED BY <1>0, <1>3, <2>1, <3>1 DEF StoreUpload, TxInv, UploadSteps, Steps
  <2>2. CASE FindSource(c)
    <3>1. PICK at \in {"find_job", "source"} : Goto(c, at) BY <2>2 DEF FindSource
    <3>2. Moves(c, at) BY <1>0, <2>2, <3>1, GotoMoves DEF FindSource, Steps
    <3> QED BY <1>0, <1>3, <2>2, <3>1, <3>2 DEF FindSource, TxInv, UploadSteps, Steps
  <2>3. ASSUME NEW where \in UploadSteps, NEW kind \in {"source", "job"}, NEW id \in Digests \cup Keys,
               NEW next \in UploadSteps, Insert(c, where, <<kind, id>>, next)
        PROVE  TxInv'
    <3>1. Open(c) /\ tx[c].ask.kind = "upload" /\ next \in Steps \ {"done"}
      BY <1>0, <2>3 DEF Insert, TxInv, UploadSteps, Steps
    <3>a. tx[c].inserts \cup {<<kind, id>>} \in SUBSET ({"source", "job"} \X (Digests \cup Keys))
      BY <2>0, <2>3 DEF Transaction
    <3>2. PICK rows \in SUBSET ({"source", "job"} \X (Digests \cup Keys)) : rows = tx[c].inserts \cup {<<kind, id>>}
      BY <3>a
    <3>3. tx' = [tx EXCEPT ![c].at = next, ![c].inserts = rows] BY <2>3, <3>2 DEF Insert
    <3>b. tx'[c] \in Transaction /\ tx'[c].at = next /\ tx'[c].no = tx[c].no /\ tx'[c].ask = tx[c].ask
      BY <1>0, <2>0, <3>1, <3>2, <3>3 DEF TxInv, Transaction
    <3>4. Moves(c, next) BY <1>0, <3>1, <3>3, <3>b DEF Moves, TxInv
    <3>5. requests' = requests /\ sharing' = sharing BY <2>3 DEF Insert
    <3>6. next \in Steps /\ next \notin {"read", "read_prior", "update", "rows"} BY DEF UploadSteps, Steps
    <3> QED BY <1>3, <2>0, <3>1, <3>4, <3>5, <3>6
  <2>4. ASSUME NEW where, NEW next \in {"find_job", "event"}, ShareCase(c, where, next), where # "done",
               next = "find_job" => where \in UploadSteps
        PROVE  TxInv'
    <3>1. Moves(c, next) BY <1>0, <2>4, GotoMoves DEF ShareCase, Steps
    <3> QED BY <1>0, <1>3, <2>0, <2>4, <3>1 DEF ShareCase, TxInv, UploadSteps, Steps
  <2>5. CASE ReadFinding(c)
    <3>1. tx[c].ask.item \in Items BY <1>0, <2>5, AskTyped DEF ReadFinding, AnyDecision
    <3>a. PICK v \in Nat : v = items[tx[c].ask.item].version BY <3>1 DEF ChainInv
    <3>b. tx' = [tx EXCEPT ![c].at = "read_prior", ![c].read = v] /\ tx[c].at = "read" BY <2>5, <3>a DEF ReadFinding
    <3>2. Moves(c, "read_prior") BY <1>0, <2>0, <3>b DEF Moves, TxInv, Transaction, Steps
    <3> QED BY <1>0, <1>3, <2>5, <3>2 DEF ReadFinding, TxInv, UploadSteps, Steps
  <2>6. CASE ReadPrior(c)
    <3>1. Moves(c, "update") BY <1>0, <2>6, ReadPriorIs
    <3> QED BY <1>0, <1>3, <2>6, <3>1 DEF ReadPrior, TxInv, UploadSteps, Steps
  <2>7. CASE GuardedUpdate(c)
    <3>1. CASE VersionMatches(c)
      <4>1. tx[c].ask.item \in Items BY <1>0, <2>7, AskTyped DEF GuardedUpdate, AnyDecision
      <4>2. Moves(c, "event") BY <1>0, <2>7, <3>1, <4>1 DEF GuardedUpdate, Moves, TxInv, Transaction, Steps
      <4> QED BY <1>0, <1>3, <2>7, <3>1, <4>2 DEF GuardedUpdate, TxInv, UploadSteps, Steps
    <3> QED BY <1>1, <2>7, <3>1 DEF GuardedUpdate
  <2>8. CASE AppendEvent(c)
    <3>1. NextSequence(c) \in Nat BY NextIsNext
    <3>2. PICK n \in Nat : n = NextSequence(c) BY <3>1
    <3>3. tx' = [tx EXCEPT ![c].at = "commit", ![c].sequence = n] /\ tx[c].at = "event" BY <2>8, <3>2 DEF AppendEvent
    <3>4. Moves(c, "commit") BY <1>0, <2>0, <3>3 DEF Moves, TxInv, Transaction, Steps
    <3> QED BY <1>0, <1>3, <2>8, <3>4 DEF AppendEvent, TxInv, UploadSteps, Steps
  <2>9. CASE InsertSource(c)
    <3>1. tx[c].ask.digest \in Digests \/ ~(tx[c].at \in UploadSteps) BY <1>0, AskTyped DEF Uploads
    <3>2. InsertFails(c, "source", <<"source", tx[c].ask.digest>>) => TxInv' BY <1>1 DEF InsertFails
    <3>3. Insert(c, "source", <<"source", tx[c].ask.digest>>, "source_case") => TxInv'
      BY <2>3, <3>1 DEF Insert, UploadSteps
    <3> QED BY <2>4, <2>9, <3>2, <3>3 DEF InsertSource, UploadSteps
  <2>10. CASE InsertJob(c)
    <3>1. tx[c].ask.key \in Keys \/ ~(tx[c].at \in UploadSteps) BY <1>0, AskTyped DEF Uploads
    <3>2. InsertFails(c, "job", <<"job", tx[c].ask.key>>) => TxInv' BY <1>1 DEF InsertFails
    <3>3. Insert(c, "job", <<"job", tx[c].ask.key>>, "job_case") => TxInv'
      BY <2>3, <3>1 DEF Insert, UploadSteps
    <3> QED BY <2>4, <2>10, <3>2, <3>3 DEF InsertJob, UploadSteps
  <2>11. CASE FindNoJob(c)
    <3>1. Moves(c, "job") BY <1>0, <2>11, GotoMoves DEF FindNoJob, Steps
    <3> QED BY <1>0, <1>3, <2>11, <3>1 DEF FindNoJob, TxInv, UploadSteps, Steps
  <2>12. CASE ReuseJob(c) BY <1>1, <1>5, <2>12 DEF ReuseJob
  <2>13. CASE StoreFindings(c) BY <2>4, <2>13 DEF StoreFindings
  <2>14. CASE Commit(c) BY <1>5, <2>14 DEF Commit
  <2> QED BY <1>4, <2>1, <2>2, <2>5, <2>6, <2>7, <2>8, <2>9, <2>10, <2>11, <2>12, <2>13, <2>14 DEF Statement
<1>6. CASE Poll BY <1>0, <1>6 DEF Poll, locks, TxInv, Open
<1>7. CASE UNCHANGED vars BY <1>0, <1>7 DEF vars, locks, TxInv, Open
<1> QED BY <1>1, <1>2, <1>4, <1>6, <1>7 DEF Next, BreakDeadlock, Drop
-----------------------------------------------------------------------------
(* The log.                                                                 *)

\* A statement other than those of append_event and the commit, or an abort.
Quiet(c) ==
    /\ UNCHANGED <<imports, items, reviews, events, reader, requests>>
    /\ Open(c) /\ \A d \in Clients \ {c} : tx'[d] = tx[d]
    /\ \/ /\ tx[c].at \notin {"event", "commit"} /\ tx'[c].at \notin {"done", "commit"} /\ holding' = holding
          /\ tx'[c].no = tx[c].no /\ tx'[c].ask = tx[c].ask
       \/ tx'[c] = Done /\ holding' = holding \ {c}

LEMMA StatementsQuiet ==
    ASSUME CaseInv, NEW c \in Clients, Statement(c), ~AppendEvent(c), ~Commit(c)
    PROVE  Quiet(c)
<1> USE DEF CaseInv, At, Open, locks, committed, Quiet, Abort, Release
<1>0. tx \in [Clients -> Transaction] BY DEF TxInv
<1> USE DEF Transaction, Steps
<1>1. CASE StoreUpload(c) BY <1>0, <1>1 DEF StoreUpload, Goto
<1>2. CASE FindSource(c) BY <1>0, <1>2 DEF FindSource, Goto
<1>3. CASE InsertSource(c) BY <1>0, <1>3 DEF InsertSource, Insert, InsertFails, ShareCase, Goto
<1>4. CASE ReuseJob(c) BY <1>0, <1>4 DEF ReuseJob
<1>5. CASE FindNoJob(c) BY <1>0, <1>5 DEF FindNoJob, Goto
<1>6. CASE InsertJob(c) BY <1>0, <1>6 DEF InsertJob, Insert, InsertFails, ShareCase, Goto
<1>7. CASE ReadFinding(c) BY <1>0, <1>7 DEF ReadFinding
<1>8. CASE ReadPrior(c) BY <1>0, <1>8 DEF ReadPrior
<1>9. CASE GuardedUpdate(c) BY <1>0, <1>9 DEF GuardedUpdate
<1>10. CASE StoreFindings(c) BY <1>0, <1>10 DEF StoreFindings, ShareCase, Goto
<1> QED BY <1>1, <1>2, <1>3, <1>4, <1>5, <1>6, <1>7, <1>8, <1>9, <1>10 DEF Statement

LEMMA LogStep == CaseInv /\ [Next]_vars => LogInv'
<1> SUFFICES ASSUME CaseInv, [Next]_vars PROVE LogInv'
  OBVIOUS
<1>0. TxInv /\ LogInv /\ TxInv' BY TxStep DEF CaseInv
<1>1. ASSUME NEW c \in Clients, Quiet(c) PROVE LogInv'
  <2>1. /\ \A d \in Clients : Open(d)' => Open(d) /\ tx'[d].no = tx[d].no
        /\ \A d \in Clients : d \in holding' <=> tx'[d].at = "commit"
        /\ \A d \in holding' : d \in holding /\ tx'[d] = tx[d]
        /\ holding' \subseteq holding
    BY <1>0, <1>1 DEF Quiet, Open, Done, LogInv
  <2>2. (\A d : NextSequence(d)' = NextSequence(d)) /\ Numbers' = Numbers BY <1>1 DEF Quiet, NextSequence, Numbers
  <2>3. UNCHANGED <<imports, reviews, events, reader, requests>> BY <1>1 DEF Quiet
  <2>4. events' \subseteq [sequence : Nat, no : 1 .. requests'] BY <1>0, <2>3 DEF LogInv
  <2>5. \A e \in events', d \in Clients : Open(d)' => e.no # tx'[d].no BY <1>0, <2>1, <2>3 DEF LogInv
  <2>6. \A d \in holding' : tx'[d].sequence = NextSequence(d)' BY <1>0, <2>1, <2>2 DEF LogInv
  <2>7. holding' \subseteq Clients /\ \A d, e \in holding' : d = e BY <1>0, <2>1 DEF LogInv
  <2>8. ReaderMissesNothing' BY <1>0, <2>3 DEF LogInv, ReaderMissesNothing
  <2> QED BY <1>0, <2>1, <2>2, <2>3, <2>4, <2>5, <2>6, <2>7, <2>8 DEF LogInv
<1>2. ASSUME NEW c \in Clients, NEW ask \in Asks, Begin(c, ask) PROVE LogInv'
  <2>1. /\ \A d \in Clients : Open(d)' => (d # c /\ Open(d) /\ tx'[d] = tx[d]) \/ tx'[d].no = requests + 1
        /\ ~Open(c) /\ tx'[c].at # "commit" /\ \A d \in Clients \ {c} : tx'[d] = tx[d]
        /\ requests' = requests + 1 /\ holding' = holding /\ UNCHANGED <<events, reader, imports, reviews>>
    <3>1. tx' = [tx EXCEPT ![c] = [Done EXCEPT !.at = FirstStep(ask), !.no = requests + 1, !.ask = ask]]
      BY <1>2 DEF Begin
    <3>2. tx'[c].at = FirstStep(ask) /\ tx'[c].no = requests + 1 BY <1>0, <3>1 DEF TxInv, Done
    <3>3. FirstStep(ask) # "commit" BY DEF FirstStep
    <3> QED BY <1>0, <1>2, <3>1, <3>2, <3>3 DEF Begin, At, Open, locks, committed, TxInv
  <2>2. (\A d : NextSequence(d)' = NextSequence(d)) /\ Numbers' = Numbers BY <2>1 DEF NextSequence, Numbers
  <2>3. c \notin holding BY <1>0, <2>1 DEF LogInv, Open
  <2>4. requests \in Nat BY <1>0 DEF TxInv
  <2>5. events' \subseteq [sequence : Nat, no : 1 .. requests'] BY <1>0, <2>1, <2>4 DEF LogInv
  <2>6. \A e \in events', d \in Clients : Open(d)' => e.no # tx'[d].no BY <1>0, <2>1, <2>4 DEF LogInv
  <2>7. \A d \in Clients : d \in holding' <=> tx'[d].at = "commit" BY <1>0, <2>1, <2>3 DEF LogInv
  <2>8. \A d \in holding' : tx'[d].sequence = NextSequence(d)' BY <1>0, <2>1, <2>2, <2>3 DEF LogInv
  <2>9. ReaderMissesNothing' BY <1>0, <2>1 DEF LogInv, ReaderMissesNothing
  <2> QED BY <1>0, <2>1, <2>2, <2>5, <2>6, <2>7, <2>8, <2>9 DEF LogInv
<1>3. ASSUME NEW c \in Clients, AppendEvent(c) PROVE LogInv'
  <2>1. tx[c].at = "event" /\ holding = {}
    <3>1. tx[c].at = "event" /\ (holding \cup sharing) \ {c} = {} BY <1>3 DEF AppendEvent, At, Runs, WaitsFor
    <3> QED BY <1>0, <3>1 DEF LogInv
  <2>2. PICK n : n = NextSequence(c) OBVIOUS
  <2>3. tx' = [tx EXCEPT ![c].at = "commit", ![c].sequence = n] BY <1>3, <2>2 DEF AppendEvent
  <2>4. /\ tx'[c].at = "commit" /\ tx'[c].sequence = n /\ tx'[c].no = tx[c].no
        /\ \A d \in Clients \ {c} : tx'[d] = tx[d]
    BY <1>0, <2>3 DEF TxInv, Transaction
  <2>5. holding' = {c} /\ UNCHANGED <<events, reader, imports, reviews, requests>>
    BY <1>3, <2>1 DEF AppendEvent, committed
  <2>6. NextSequence(c)' = NextSequence(c) /\ Numbers' = Numbers BY <2>5 DEF NextSequence, Numbers
  <2> QED BY <1>0, <2>1, <2>2, <2>4, <2>5, <2>6 DEF LogInv, Open, ReaderMissesNothing
<1>4. ASSUME NEW c \in Clients, Commit(c) PROVE LogInv'
  <2> DEFINE new == [sequence |-> tx[c].sequence, no |-> tx[c].no]
  <2>1. /\ tx[c].at = "commit" /\ holding = {c} /\ tx[c].no \in 1 .. requests
        /\ events' = events \cup {new} /\ UNCHANGED <<reader, requests>> /\ holding' = {}
        /\ tx' = [tx EXCEPT ![c] = Done]
    BY <1>0, <1>4 DEF Commit, At, Release, LogInv, TxInv, Open
  <2>2. PICK n \in Nat : Numbers = 1 .. n /\ tx[c].sequence = n + 1
    <3>1. tx[c].sequence = NextSequence(c)
      <4>1. \A d \in holding : tx[d].sequence = NextSequence(d) BY <1>0 DEF LogInv
      <4> QED BY <2>1, <4>1
    <3>2. PICK n \in Nat : Numbers = 1 .. n /\ NextSequence(c) = n + 1 BY <1>0, NextIsNext
    <3> QED BY <3>1, <3>2
  <2>3. PICK m \in Nat : m = n + 1 OBVIOUS
  <2>4. new \in [sequence : Nat, no : 1 .. requests] /\ new.sequence = m /\ new.no = tx[c].no BY <2>1, <2>2, <2>3
  <2> HIDE DEF new
  <2>5. Numbers' = 1 .. m
    <3>1. Numbers' = Numbers \cup {m} BY <2>1, <2>4 DEF Numbers
    <3> QED BY <2>2, <2>3, <3>1
  <2>6. \A e \in events : e.sequence \in 1 .. n BY <2>2 DEF Numbers
  <2>7. \A d \in Clients : Open(d)' => d # c /\ Open(d) /\ tx'[d] = tx[d] BY <1>0, <2>1 DEF Open, TxInv, Done
  <2>8. \A e \in events', d \in Clients : Open(d)' => e.no # tx'[d].no
    <3>1. c \in Clients /\ Open(c) BY <2>1 DEF Open
    <3>2. \A d \in Clients : Open(d)' => d # c /\ Open(d) /\ tx'[d].no # tx[c].no BY <1>0, <2>7, <3>1 DEF TxInv
    <3>3. \A e \in events, d \in Clients : Open(d) => e.no # tx[d].no BY <1>0 DEF LogInv
    <3> QED BY <2>1, <2>4, <2>7, <3>2, <3>3
  <2>9. \A d \in Clients : tx'[d].at # "commit"
    BY <1>0, <2>1, <2>7 DEF LogInv, Open
  <2>10. {i.no : i \in imports'} \cup {r.no : r \in reviews'} \subseteq {e.no : e \in events'}
    <3>1. /\ \A i \in imports' : i \in imports \/ i.no = tx[c].no
          /\ \A r \in reviews' : r \in reviews \/ r.no = tx[c].no
      BY <1>4 DEF Commit, Decision
    <3>2. \A i \in imports : \E e \in events : e.no = i.no BY <1>0 DEF LogInv
    <3>3. \A r \in reviews : \E e \in events : e.no = r.no BY <1>0 DEF LogInv
    <3> QED BY <2>1, <2>4, <3>1, <3>2, <3>3
  <2>11. reader.last \in 0 .. n BY <1>0, <2>2 DEF LogInv
  <2>12. ReaderMissesNothing'
    BY <1>0, <2>1, <2>2, <2>3, <2>4, <2>11 DEF LogInv, ReaderMissesNothing
  <2>13. \A e, f \in events' : e.sequence = f.sequence => e = f
    BY <1>0, <2>1, <2>3, <2>4, <2>6 DEF LogInv
  <2>14. events' \subseteq [sequence : Nat, no : 1 .. requests'] BY <1>0, <2>1, <2>4 DEF LogInv
  <2>15. reader'.last \in Numbers' \cup {0} BY <2>1, <2>3, <2>5, <2>11
  <2>16. reader'.sent \subseteq events' BY <1>0, <2>1 DEF LogInv
  <2>17. /\ \A d \in Clients : d \in holding' <=> tx'[d].at = "commit"
         /\ \A d \in holding' : tx'[d].sequence = NextSequence(d)'
         /\ holding' \subseteq Clients /\ \A d, e \in holding' : d = e
    BY <2>1, <2>9
  <2>18. \E k \in Nat : Numbers' = 1 .. k BY <2>5
  <2> QED BY <2>8, <2>10, <2>12, <2>13, <2>14, <2>15, <2>16, <2>17, <2>18 DEF LogInv
<1>5. CASE Poll
  <2>1. PICK e \in events : /\ e.sequence > reader.last /\ reader'.last = e.sequence
                            /\ reader'.sent = reader.sent \cup {f \in {g \in events : g.sequence > reader.last} : f.sequence <= e.sequence}
                            /\ UNCHANGED <<imports, reviews, events, tx, holding, requests>>
    BY <1>5 DEF Poll, committed, locks
  <2>2. e.sequence \in Numbers /\ \A f \in events : f.sequence \in Nat BY <1>0 DEF Numbers, LogInv
  <2>3. reader.last \in Nat BY <1>0 DEF LogInv
  <2>4. ReaderMissesNothing' BY <1>0, <2>1, <2>2, <2>3 DEF LogInv, ReaderMissesNothing
  <2>5. \A c : NextSequence(c)' = NextSequence(c) /\ Numbers' = Numbers BY <2>1 DEF NextSequence, Numbers
  <2> QED BY <1>0, <2>1, <2>2, <2>4, <2>5 DEF LogInv, Open
<1>6. CASE UNCHANGED vars
  BY <1>0, <1>6 DEF vars, locks, committed, LogInv, Open, Numbers, NextSequence, ReaderMissesNothing
<1>7. ASSUME NEW c \in Clients, BreakDeadlock(c) \/ Drop(c) PROVE Quiet(c)
  <2>1. WaitsFor(c) # {} => Open(c) BY DEF WaitsFor, Open, At
  <2>2. Abort(c) /\ Open(c) BY <1>7, <2>1 DEF BreakDeadlock, Drop, Deadlocked, Open
  <2> QED BY <1>0, <2>2 DEF Abort, Release, Quiet, committed, TxInv
<1> QED BY <1>1, <1>2, <1>3, <1>4, <1>5, <1>6, <1>7, StatementsQuiet DEF Next

-----------------------------------------------------------------------------
(* Idempotency keys.                                                        *)

LEMMA KeyKept ==
    ASSUME TxInv, KeyInv, NEW c \in Clients, \A d \in Clients \ {c} : tx'[d] = tx[d],
           imports' = imports, answers' = answers,
           \A x \in originals : x \in originals', \A x \in sources : x \in sources',
           \A k \in Keys : <<"job", k>> \in tx'[c].inserts => <<"job", k>> \in tx[c].inserts,
           UploadHolds(c)'
    PROVE  KeyInv'
<1>1. \A d \in Clients : UploadHolds(d)'
  <2>1. ASSUME NEW d \in Clients \ {c} PROVE UploadHolds(d)'
    <3>1. UploadHolds(d) BY DEF KeyInv, UploadHolds
    <3> QED BY <3>1 DEF UploadHolds, Open
  <2> QED BY <2>1
<1>2. ASSUME NEW d \in Clients, NEW k \in Keys, <<"job", k>> \in tx'[d].inserts
      PROVE  /\ \A i \in imports' : i.key # k
             /\ \A e \in Clients \ {d} : <<"job", k>> \notin tx'[e].inserts
  <2>1. \A e \in Clients : <<"job", k>> \in tx'[e].inserts => <<"job", k>> \in tx[e].inserts OBVIOUS
  <2> QED BY <1>2, <2>1 DEF KeyInv
<1>3. /\ imports \subseteq [no : Nat, key : Keys, digest : Digests]
      /\ answers \subseteq [key : Keys, digest : Digests, import : Nat]
      /\ \A i, j \in imports : i.key = j.key => i = j
      /\ \A a \in answers : [no |-> a.import, key |-> a.key, digest |-> a.digest] \in imports
      /\ \A i \in imports : i.digest \in sources /\ i.digest \in originals
  BY DEF KeyInv
<1>4. \A i \in imports' : i.digest \in sources' \cap originals' BY <1>3
<1> QED BY <1>1, <1>2, <1>3, <1>4 DEF KeyInv, UploadHolds

LEMMA KeyStep == CaseInv /\ [Next]_vars => KeyInv'
<1> SUFFICES ASSUME CaseInv, [Next]_vars PROVE KeyInv'
  OBVIOUS
<1>0. TxInv /\ KeyInv /\ tx \in [Clients -> Transaction] BY DEF CaseInv, TxInv
<1>a. \A c \in Clients : UploadHolds(c) BY <1>0 DEF KeyInv, UploadHolds
<1> USE DEF At, locks, committed
<1>1. ASSUME NEW c \in Clients, Abort(c) PROVE KeyInv'
  BY <1>0, <1>1, KeyKept DEF Abort, UploadHolds, Open, Done
<1>2. ASSUME NEW c \in Clients, NEW ask \in Asks, Begin(c, ask) PROVE KeyInv'
  <2>1. PICK t : t = [Done EXCEPT !.at = FirstStep(ask), !.no = requests + 1, !.ask = ask] OBVIOUS
  <2>2. t.at = FirstStep(ask) /\ t.ask = ask /\ t.inserts = {} BY <2>1 DEF Done
  <2>3. tx' = [tx EXCEPT ![c] = t] /\ UNCHANGED committed BY <1>2, <2>1 DEF Begin
  <2>4. tx'[c] = t /\ \A d \in Clients \ {c} : tx'[d] = tx[d] BY <1>0, <2>3
  <2>5. ask.kind = "upload" => FirstStep(ask) = "store" BY DEF FirstStep
  <2>6. UploadHolds(c)' BY <2>2, <2>4, <2>5 DEF UploadHolds
  <2> QED BY <1>0, <2>2, <2>3, <2>4, <2>6, KeyKept
<1>3. ASSUME NEW c \in Clients, NEW at, Open(c), tx'[c].at = at, tx'[c].ask = tx[c].ask, tx'[c].inserts = tx[c].inserts,
             \A d \in Clients \ {c} : tx'[d] = tx[d], UNCHANGED <<originals, sources, imports, answers>>,
             tx[c].ask.kind = "upload" => tx[c].at # "store",
             tx[c].ask.kind = "upload" /\ at \in {"job_case", "event", "commit"} => tx[c].at \in {"job_case", "event"}
      PROVE  KeyInv'
  <2>1. UploadHolds(c)' BY <1>3, <1>a DEF UploadHolds
  <2> QED BY <1>0, <1>3, <2>1, KeyKept
<1>4. ASSUME NEW c \in Clients, Statement(c) PROVE KeyInv'
  <2>0. tx[c] \in Transaction BY <1>0
  <2>g. ASSUME NEW at \in Steps \ {"done"}, Open(c), Goto(c, at)
        PROVE  /\ tx'[c].at = at /\ tx'[c].ask = tx[c].ask /\ tx'[c].inserts = tx[c].inserts
               /\ \A d \in Clients \ {c} : tx'[d] = tx[d]
    <3>1. Moves(c, at) /\ tx'[c] = [tx[c] EXCEPT !.at = at] BY <1>0, <2>g, GotoMoves
    <3>2. tx'[c].at = at /\ tx'[c].ask = tx[c].ask /\ \A d \in Clients \ {c} : tx'[d] = tx[d] BY <3>1 DEF Moves
    <3>3. tx'[c].inserts = tx[c].inserts BY <2>0, <3>1 DEF Transaction
    <3> QED BY <3>2, <3>3
  <2>1. CASE StoreUpload(c)
    <3>1. /\ tx'[c].at = "find_source" /\ tx'[c].ask = tx[c].ask /\ tx'[c].inserts = tx[c].inserts
          /\ \A d \in Clients \ {c} : tx'[d] = tx[d]
      BY <2>1, <2>g DEF StoreUpload, Open, Steps
    <3>2. originals' = originals \cup {tx[c].ask.digest} /\ UNCHANGED <<sources, imports, answers>>
      BY <2>1 DEF StoreUpload
    <3>3. UploadHolds(c)' BY <3>1, <3>2 DEF UploadHolds
    <3> QED BY <1>0, <3>1, <3>2, <3>3, KeyKept
  <2>2. CASE FindSource(c)
    <3>1. PICK at \in {"find_job", "source"} : Goto(c, at) BY <2>2 DEF FindSource
    <3> QED BY <1>3, <2>2, <2>g, <3>1 DEF FindSource, Open, Steps
  <2>3. CASE FindNoJob(c) BY <1>3, <2>3, <2>g DEF FindNoJob, Open, Steps
  <2>4. ASSUME NEW where, NEW next \in {"find_job", "event"}, ShareCase(c, where, next),
               where \in {"source_case", "job_case", "rows"}, next = "event" => where # "source_case"
        PROVE  KeyInv'
    <3>1. tx[c].at = where /\ Open(c) /\ Goto(c, next) /\ UNCHANGED committed BY <2>4 DEF ShareCase, Open
    <3>2. where = "rows" => tx[c].ask.kind = "findings" BY <1>0, <3>1 DEF TxInv
    <3> QED BY <1>3, <2>4, <2>g, <3>1, <3>2 DEF Steps
  <2>5. CASE ReadFinding(c) \/ ReadPrior(c)
    <3>1. tx[c].ask.kind = "decide" /\ Open(c) BY <1>0, <2>5 DEF ReadFinding, ReadPrior, TxInv, Open
    <3>2. PICK at \in {"read_prior", "update"} :
              /\ tx'[c].at = at /\ tx'[c].ask = tx[c].ask /\ tx'[c].inserts = tx[c].inserts
              /\ \A d \in Clients \ {c} : tx'[d] = tx[d]
      BY <1>0, <2>0, <2>5 DEF ReadFinding, ReadPrior, Transaction
    <3> QED BY <1>3, <2>5, <3>1, <3>2 DEF ReadFinding, ReadPrior
  <2>6. CASE GuardedUpdate(c)
    <3>1. tx[c].ask.kind = "decide" /\ Open(c) BY <1>0, <2>6 DEF GuardedUpdate, TxInv, Open
    <3>2. ASSUME VersionMatches(c) PROVE KeyInv'
      <4>1. tx' = [tx EXCEPT ![c].at = "event", ![c].updates = {tx[c].ask.item}] BY <2>6, <3>2 DEF GuardedUpdate
      <4>2. /\ tx'[c].at = "event" /\ tx'[c].ask = tx[c].ask /\ tx'[c].inserts = tx[c].inserts
            /\ \A d \in Clients \ {c} : tx'[d] = tx[d]
        BY <1>0, <2>0, <4>1 DEF Transaction
      <4> QED BY <1>3, <2>6, <3>1, <3>2, <4>2 DEF GuardedUpdate
    <3> QED BY <1>1, <2>6, <3>2 DEF GuardedUpdate
  <2>7. CASE AppendEvent(c)
    <3>1. PICK n : n = NextSequence(c) OBVIOUS
    <3>2. tx' = [tx EXCEPT ![c].at = "commit", ![c].sequence = n] /\ tx[c].at = "event" BY <2>7, <3>1 DEF AppendEvent
    <3>3. /\ tx'[c].at = "commit" /\ tx'[c].ask = tx[c].ask /\ tx'[c].inserts = tx[c].inserts
          /\ \A d \in Clients \ {c} : tx'[d] = tx[d]
      BY <1>0, <2>0, <3>2 DEF Transaction
    <3> QED BY <1>3, <2>7, <3>2, <3>3 DEF AppendEvent, Open
  <2>8. CASE InsertSource(c)
    <3>1. ASSUME Insert(c, "source", <<"source", tx[c].ask.digest>>, "source_case") PROVE KeyInv'
      <4>1. tx' = [tx EXCEPT ![c].at = "source_case", ![c].inserts = @ \cup {<<"source", tx[c].ask.digest>>}]
        BY <3>1 DEF Insert
      <4>2. /\ tx'[c].at = "source_case" /\ tx'[c].ask = tx[c].ask
            /\ tx'[c].inserts = tx[c].inserts \cup {<<"source", tx[c].ask.digest>>}
            /\ \A d \in Clients \ {c} : tx'[d] = tx[d]
        BY <1>0, <2>0, <4>1 DEF Transaction
      <4>3. tx[c].at = "source" /\ UNCHANGED committed BY <3>1 DEF Insert
      <4>4. UploadHolds(c)' BY <1>a, <4>2, <4>3 DEF UploadHolds, Open
      <4>5. \A k \in Keys : <<"job", k>> \in tx'[c].inserts => <<"job", k>> \in tx[c].inserts BY <4>2
      <4> QED BY <1>0, <4>2, <4>3, <4>4, <4>5, KeyKept
    <3> QED BY <1>1, <2>4, <2>8, <3>1 DEF InsertSource, InsertFails
  <2>9. CASE InsertJob(c)
    <3>1. ASSUME Insert(c, "job", <<"job", tx[c].ask.key>>, "job_case") PROVE KeyInv'
      <4> DEFINE key == tx[c].ask.key
      <4>1. tx' = [tx EXCEPT ![c].at = "job_case", ![c].inserts = @ \cup {<<"job", key>>}]
        BY <3>1 DEF Insert
      <4>2. /\ tx'[c].at = "job_case" /\ tx'[c].ask = tx[c].ask /\ tx'[c].inserts = tx[c].inserts \cup {<<"job", key>>}
            /\ \A d \in Clients \ {c} : tx'[d] = tx[d]
        BY <1>0, <2>0, <4>1 DEF Transaction
      <4>3. tx[c].at = "job" /\ UNCHANGED committed /\ ~Taken(<<"job", key>>) /\ WaitsFor(c) = {}
        BY <3>1 DEF Insert, Runs
      <4>4. \A i \in imports : i.key # key BY <4>3 DEF Taken
      <4>5. \A d \in Clients \ {c} : <<"job", key>> \notin tx[d].inserts BY <4>3 DEF WaitsFor
      <4>6. UploadHolds(c)' BY <1>a, <4>2, <4>3 DEF UploadHolds, Open
      <4>7. \A d \in Clients : UploadHolds(d)'
        <5>1. ASSUME NEW d \in Clients \ {c} PROVE UploadHolds(d)'
          BY <1>a, <4>2, <4>3 DEF UploadHolds, Open
        <5> QED BY <4>6, <5>1
      <4>8. ASSUME NEW d \in Clients, NEW k \in Keys, <<"job", k>> \in tx'[d].inserts
            PROVE  /\ \A i \in imports' : i.key # k
                   /\ \A e \in Clients \ {d} : <<"job", k>> \notin tx'[e].inserts
        <5>1. CASE k = key
          <6>1. d = c BY <4>2, <4>5, <4>8, <5>1
          <6> QED BY <4>2, <4>3, <4>4, <4>5, <5>1, <6>1
        <5>2. CASE k # key
          <6>1. \A e \in Clients : <<"job", k>> \in tx'[e].inserts => <<"job", k>> \in tx[e].inserts BY <4>2, <5>2
          <6> QED BY <1>0, <4>3, <4>8, <6>1 DEF KeyInv
        <5> QED BY <5>1, <5>2
      <4> HIDE DEF key
      <4> QED BY <1>0, <4>3, <4>7, <4>8 DEF KeyInv, UploadHolds
    <3> QED BY <1>1, <2>4, <2>9, <3>1 DEF InsertJob, InsertFails
  <2>10. CASE ReuseJob(c)
    <3>1. PICK i \in Earlier(c) :
              \/ Abort(c)
              \/ /\ answers' = answers \cup {[key |-> i.key, digest |-> i.digest, import |-> i.no]}
                 /\ sources' = sources \cup {i.digest} /\ tx' = [tx EXCEPT ![c] = Done] /\ UNCHANGED <<originals, imports>>
      BY <2>10 DEF ReuseJob
    <3>2. ASSUME ~Abort(c) PROVE KeyInv'
      <4>1. i \in imports /\ i \in [no : Nat, key : Keys, digest : Digests] BY <1>0 DEF Earlier, KeyInv
      <4>2. [no |-> i.no, key |-> i.key, digest |-> i.digest] = i BY <4>1
      <4>3. \A d \in Clients : UploadHolds(d)' /\ \A k \in Keys : <<"job", k>> \in tx'[d].inserts => tx'[d] = tx[d]
        BY <1>0, <1>a, <3>1, <3>2 DEF UploadHolds, Open, Done
      <4>4. \A a \in answers' : [no |-> a.import, key |-> a.key, digest |-> a.digest] \in imports
        <5>1. ASSUME NEW a \in answers' PROVE a \in answers \/ a = [key |-> i.key, digest |-> i.digest, import |-> i.no]
          BY <3>1, <3>2
        <5>2. ASSUME NEW a, a = [key |-> i.key, digest |-> i.digest, import |-> i.no]
              PROVE  a.key = i.key /\ a.digest = i.digest /\ a.import = i.no
          BY <5>2
        <5>3. \A a \in answers : [no |-> a.import, key |-> a.key, digest |-> a.digest] \in imports BY <1>0 DEF KeyInv
        <5> QED BY <4>1, <4>2, <5>1, <5>2, <5>3
      <4>5. answers' \subseteq [key : Keys, digest : Digests, import : Nat] BY <1>0, <3>1, <3>2, <4>1 DEF KeyInv
      <4>6. \A j \in imports' : j.digest \in sources' \cap originals' BY <1>0, <3>1, <3>2 DEF KeyInv
      <4>7. ASSUME NEW d \in Clients, NEW k \in Keys, <<"job", k>> \in tx'[d].inserts
            PROVE  \A e \in Clients \ {d} : <<"job", k>> \notin tx'[e].inserts /\ \A j \in imports : j.key # k
        BY <1>0, <4>3, <4>7 DEF KeyInv
      <4> QED BY <1>0, <3>1, <3>2, <4>3, <4>4, <4>5, <4>6, <4>7 DEF KeyInv, UploadHolds
    <3> QED BY <1>1, <3>2
  <2>11. CASE StoreFindings(c) BY <2>4, <2>11 DEF StoreFindings
  <2>12. CASE Commit(c)
    <3>1. tx[c].at = "commit" /\ tx' = [tx EXCEPT ![c] = Done] /\ originals' = originals BY <2>12 DEF Commit
    <3>2. CASE tx[c].ask.kind # "upload"
      <4>1. UNCHANGED <<sources, imports, answers>> BY <2>12, <3>2 DEF Commit
      <4> QED BY <1>0, <3>1, <4>1, KeyKept DEF UploadHolds, Open, Done
    <3>3. CASE tx[c].ask.kind = "upload"
      <4> DEFINE ask == tx[c].ask
      <4> DEFINE new == [no |-> tx[c].no, key |-> ask.key, digest |-> ask.digest]
      <4>1. /\ imports' = imports \cup {new} /\ sources' = sources \cup {ask.digest}
            /\ answers' = answers \cup {[key |-> ask.key, digest |-> ask.digest, import |-> tx[c].no]}
        BY <2>12, <3>3 DEF Commit
      <4>2. ask \in Uploads /\ tx[c].no \in Nat BY <1>0, <2>0, <3>3, AskTyped DEF Transaction
      <4>3. ask.digest \in originals /\ <<"job", ask.key>> \in tx[c].inserts /\ ask.key \in Keys /\ ask.digest \in Digests
        BY <1>a, <3>1, <3>3, <4>2 DEF UploadHolds, Open, Uploads
      <4>4. /\ \A i \in imports : i.key # ask.key
            /\ \A d \in Clients \ {c} : <<"job", ask.key>> \notin tx[d].inserts
        BY <1>0, <4>3 DEF KeyInv
      <4>5. \A d \in Clients : (d = c /\ tx'[d] = Done) \/ (d # c /\ tx'[d] = tx[d]) BY <1>0, <3>1
      <4>6. \A d \in Clients : UploadHolds(d)' BY <1>a, <3>1, <4>5 DEF UploadHolds, Open, Done
      <4>7. new \in [no : Nat, key : Keys, digest : Digests] /\ new.key = ask.key /\ new.digest = ask.digest BY <4>2, <4>3
      <4>8. \A a \in answers' : [no |-> a.import, key |-> a.key, digest |-> a.digest] \in imports'
        <5>1. ASSUME NEW a \in answers'
              PROVE  a \in answers \/ a = [key |-> ask.key, digest |-> ask.digest, import |-> tx[c].no]
          BY <4>1
        <5>2. ASSUME NEW a, a = [key |-> ask.key, digest |-> ask.digest, import |-> tx[c].no]
              PROVE  a.key = ask.key /\ a.digest = ask.digest /\ a.import = tx[c].no
          BY <5>2
        <5>3. \A a \in answers : [no |-> a.import, key |-> a.key, digest |-> a.digest] \in imports BY <1>0 DEF KeyInv
        <5> QED BY <4>1, <5>1, <5>2, <5>3
      <4>9. answers' \subseteq [key : Keys, digest : Digests, import : Nat] BY <1>0, <4>1, <4>2, <4>3 DEF KeyInv
      <4> HIDE DEF new
      <4>10. \A i \in imports' : i.digest \in sources' \cap originals' BY <1>0, <3>1, <4>1, <4>3, <4>7 DEF KeyInv
      <4>11. \A i, j \in imports' : i.key = j.key => i = j BY <1>0, <4>1, <4>4, <4>7 DEF KeyInv
      <4>12. imports' \subseteq [no : Nat, key : Keys, digest : Digests] BY <1>0, <4>1, <4>7 DEF KeyInv
      <4>13. ASSUME NEW d \in Clients, NEW k \in Keys, <<"job", k>> \in tx'[d].inserts
             PROVE  /\ \A i \in imports' : i.key # k
                    /\ \A e \in Clients \ {d} : <<"job", k>> \notin tx'[e].inserts
        <5>1. d # c /\ tx'[d] = tx[d] BY <4>5, <4>13 DEF Done
        <5>2. \A e \in Clients : <<"job", k>> \in tx'[e].inserts => <<"job", k>> \in tx[e].inserts BY <4>5 DEF Done
        <5>3. k # ask.key BY <4>4, <4>13, <5>1
        <5>4. \A i \in imports : i.key # k BY <1>0, <4>13, <5>1 DEF KeyInv
        <5> QED BY <1>0, <4>1, <4>7, <4>13, <5>1, <5>2, <5>3, <5>4 DEF KeyInv
      <4> HIDE DEF ask
      <4> QED BY <4>6, <4>8, <4>9, <4>10, <4>11, <4>12, <4>13 DEF KeyInv, UploadHolds
    <3> QED BY <3>2, <3>3
  <2> QED BY <1>4, <2>1, <2>2, <2>3, <2>5, <2>6, <2>7, <2>8, <2>9, <2>10, <2>11, <2>12 DEF Statement
<1>5. CASE Poll BY <1>0, <1>5 DEF Poll, KeyInv, UploadHolds, Open
<1>6. CASE UNCHANGED vars BY <1>0, <1>6 DEF vars, KeyInv, UploadHolds, Open
<1> QED BY <1>1, <1>2, <1>4, <1>5, <1>6 DEF Next, BreakDeadlock, Drop

-----------------------------------------------------------------------------
(* Decisions.                                                               *)

LEMMA DecisionTyped ==
    ASSUME CaseInv, NEW c \in Clients, Deciding(c)
    PROVE  /\ tx[c] \in Transaction /\ tx[c].ask.item \in Items /\ tx[c].ask.version \in Nat \ {0}
           /\ tx[c].ask.verdict \in Verdicts /\ items[tx[c].ask.item].version \in Nat \ {0}
<1>1. tx[c].ask \in AnyDecision /\ tx[c] \in Transaction BY AskTyped DEF CaseInv, TxInv
<1> QED BY <1>1 DEF AnyDecision, CaseInv, ChainInv

\* At its commit a decision is about the item as it is.
LEMMA DecisionIs ==
    ASSUME CaseInv, NEW c \in Clients, Deciding(c), tx[c].at = "commit"
    PROVE  LET now == items[tx[c].ask.item].version
           IN  /\ Decision(c) \in [no : Nat, item : Items, version : Nat \ {0}, verdict : Verdicts, prior : Nat]
               /\ Decision(c).item = tx[c].ask.item /\ Decision(c).version = now
               /\ Decision(c).verdict = tx[c].ask.verdict /\ Decision(c).no = tx[c].no
               /\ tx[c].ask.item \in Findings => Follows(Decision(c).prior, tx[c].ask.item, now)
<1> DEFINE i == tx[c].ask.item
<1> DEFINE now == items[i].version
<1>1. tx[c] \in Transaction /\ i \in Items /\ now \in Nat \ {0} /\ tx[c].ask.verdict \in Verdicts BY DecisionTyped
<1>2. /\ tx[c].ask.version = now
      /\ i \in Findings => now <= tx[c].read /\ tx[c].read <= now
      /\ i \in Findings /\ tx[c].read = now => Follows(tx[c].prior, i, now)
  BY DEF CaseInv, DecideInv, DecisionHolds
<1>3. tx[c].read \in Nat /\ tx[c].prior \in Nat /\ tx[c].no \in Nat BY <1>1 DEF Transaction
<1>4. i \in Findings => tx[c].read = now BY <1>1, <1>2, <1>3
<1> DEFINE version == IF i \in Findings THEN tx[c].read ELSE tx[c].ask.version
<1>5. version = now BY <1>2, <1>4
<1> HIDE DEF version
<1>6. Decision(c) = [no |-> tx[c].no, item |-> i, verdict |-> tx[c].ask.verdict, prior |-> tx[c].prior, version |-> version]
  BY DEF Decision, version
<1> QED BY <1>1, <1>2, <1>3, <1>4, <1>5, <1>6

\* What a commit does to the items and the record.
LEMMA CommitIs ==
    ASSUME CaseInv, NEW c \in Clients, Commit(c)
    PROVE  /\ tx[c].at = "commit" /\ Open(c) /\ tx' = [tx EXCEPT ![c] = Done]
           /\ ~Deciding(c) => UNCHANGED <<items, reviews>>
           /\ Deciding(c) =>
                  LET i == tx[c].ask.item
                  IN  /\ items' = [items EXCEPT ![i] = [version |-> items[i].version + 1, status |-> tx[c].ask.verdict]]
                      /\ reviews' = reviews \cup {Decision(c)}
BY DEF Commit, At, Open, Deciding

LEMMA ChainCommit ==
    ASSUME CaseInv, NEW c \in Clients, Commit(c), Deciding(c)
    PROVE  ChainInv'
<1> DEFINE i == tx[c].ask.item
<1> DEFINE now == items[i].version
<1> DEFINE new == Decision(c)
<1> DEFINE Review == [no : Nat, item : Items, version : Nat \ {0}, verdict : Verdicts, prior : Nat]
<1>0. ChainInv /\ DecideInv BY DEF CaseInv
<1>1. i \in Items /\ now \in Nat \ {0} /\ tx[c].ask.verdict \in Verdicts BY DecisionTyped
<1>2. tx[c].at = "commit" /\ reviews' = reviews \cup {new} BY CommitIs
<1>3. PICK next \in Nat \ {0} : next = now + 1 BY <1>1
<1>4. items' = [items EXCEPT ![i] = [version |-> next, status |-> tx[c].ask.verdict]] BY <1>3, CommitIs
<1>5. /\ new \in Review /\ new.item = i /\ new.version = now /\ new.verdict = tx[c].ask.verdict /\ new.no = tx[c].no
      /\ i \in Findings => Follows(new.prior, i, now)
  BY <1>2, DecisionIs
<1>6. /\ tx[c].ask.version = now
      /\ \A r \in Chain(i) : r.version < now => r.no < tx[c].no
  BY <1>0, <1>2 DEF DecideInv, DecisionHolds
<1>7. {r.version : r \in Chain(i)} = 1 .. now - 1 BY <1>0, <1>1 DEF ChainInv
<1>8. items \in [Items -> [version : Nat \ {0}, status : Verdicts \cup {"open"}]] /\ reviews \subseteq Review BY <1>0 DEF ChainInv
<1>9. /\ items' \in [Items -> [version : Nat \ {0}, status : Verdicts \cup {"open"}]]
      /\ items'[i].version = next /\ items'[i].status = tx[c].ask.verdict
      /\ \A j \in Items \ {i} : items'[j] = items[j]
  BY <1>1, <1>3, <1>4, <1>8
<1> HIDE DEF i, now, new
<1>10. \A r \in Chain(i) : r.version \in 1 .. now - 1 BY <1>7
<1>11. \A r \in reviews : r.item = i => r.version \in Nat /\ r.version < now /\ r.no < new.no
  BY <1>1, <1>5, <1>6, <1>10 DEF Chain
<1>12. reviews' \subseteq Review BY <1>2, <1>5, <1>8
<1>13. \A r \in reviews : r \in Review BY <1>8
<1>14. ASSUME NEW j \in Items PROVE {r.version : r \in Chain(j)'} = 1 .. items'[j].version - 1
  <2>1. CASE j = i
    <3>1. Chain(j)' = Chain(i) \cup {new} BY <1>2, <1>5, <2>1 DEF Chain
    <3>2. {r.version : r \in Chain(j)'} = (1 .. now - 1) \cup {now} BY <1>5, <1>7, <3>1
    <3>3. items'[j].version - 1 = now BY <1>1, <1>3, <1>9, <2>1
    <3> QED BY <1>1, <3>2, <3>3
  <2>2. CASE j # i
    <3>1. Chain(j)' = Chain(j) BY <1>2, <1>5, <2>2 DEF Chain
    <3>2. items'[j] = items[j] BY <1>9, <2>2
    <3>3. {r.version : r \in Chain(j)} = 1 .. items[j].version - 1 BY <1>0 DEF ChainInv
    <3> QED BY <3>1, <3>2, <3>3
  <2> QED BY <2>1, <2>2
<1>15. \A r, q \in reviews' : r.item = q.item /\ r.version = q.version => r = q
  BY <1>0, <1>1, <1>2, <1>5, <1>11 DEF ChainInv
<1>16. \A r, q \in reviews' : r.item = q.item /\ r.version < q.version => r.no < q.no
  BY <1>0, <1>1, <1>2, <1>5, <1>11 DEF ChainInv
<1>17. ASSUME NEW r \in reviews', r.version = items'[r.item].version - 1 PROVE items'[r.item].status = r.verdict
  <2>1. CASE r.item = i
    <3>1. r.version = now BY <1>1, <1>3, <1>9, <1>17, <2>1
    <3>2. r = new BY <1>1, <1>2, <1>11, <2>1, <3>1
    <3> QED BY <1>5, <1>9, <2>1, <3>2
  <2>2. CASE r.item # i
    <3>1. r \in reviews /\ items'[r.item] = items[r.item] BY <1>2, <1>5, <1>9, <1>13, <2>2
    <3> QED BY <1>0, <1>17, <3>1 DEF ChainInv
  <2> QED BY <2>1, <2>2
<1>18. ASSUME NEW r \in reviews', r.item \in Findings PROVE Follows(r.prior, r.item, r.version)'
  <2>1. Follows(r.prior, r.item, r.version) BY <1>0, <1>2, <1>5, <1>18 DEF ChainInv
  <2> QED BY <1>2, <2>1 DEF Follows
<1> QED BY <1>9, <1>12, <1>14, <1>15, <1>16, <1>17, <1>18 DEF ChainInv

LEMMA ChainStep == CaseInv /\ [Next]_vars => ChainInv'
<1> SUFFICES ASSUME CaseInv, [Next]_vars PROVE ChainInv'
  OBVIOUS
<1>1. ASSUME UNCHANGED <<items, reviews>> PROVE ChainInv'
  BY <1>1 DEF CaseInv, ChainInv, Chain, Follows
<1>2. ASSUME NEW c \in Clients, Statement(c) PROVE ChainInv'
  <2>1. CASE Commit(c) BY <1>1, <2>1, ChainCommit, CommitIs
  <2>2. CASE AppendEvent(c) BY <1>1, <2>2 DEF AppendEvent, committed
  <2>3. CASE ~Commit(c) /\ ~AppendEvent(c) BY <1>1, <1>2, <2>3, StatementsQuiet DEF Quiet
  <2> QED BY <2>1, <2>2, <2>3
<1>3. ASSUME NEW c \in Clients, Abort(c) PROVE ChainInv' BY <1>1, <1>3 DEF Abort, committed
<1>4. ASSUME NEW c \in Clients, NEW ask \in Asks, Begin(c, ask) PROVE ChainInv' BY <1>1, <1>4 DEF Begin, committed
<1>5. CASE Poll BY <1>1, <1>5 DEF Poll, committed
<1>6. CASE UNCHANGED vars BY <1>1, <1>6 DEF vars, committed
<1> QED BY <1>2, <1>3, <1>4, <1>5, <1>6 DEF Next, BreakDeadlock, Drop

\* A step of client c that leaves items and record alone.
LEMMA DecideKept ==
    ASSUME DecideInv, NEW c \in Clients, \A d \in Clients \ {c} : tx'[d] = tx[d], UNCHANGED <<items, reviews>>,
           Deciding(c)' => DecisionHolds(c)',
           \A d \in Clients \ {c} : tx'[c].updates \cap tx[d].updates = {}
    PROVE  DecideInv'
<1>1. ASSUME NEW d \in Clients, Deciding(d)' PROVE DecisionHolds(d)'
  <2>1. CASE d # c
    <3>1. tx'[d] = tx[d] BY <2>1
    <3>2. Deciding(d) BY <1>1, <3>1 DEF Deciding, Open
    <3>3. DecisionHolds(d) BY <3>2 DEF DecideInv
    <3>4. Chain(tx[d].ask.item)' = Chain(tx[d].ask.item) BY <3>1 DEF Chain
    <3>5. Follows(tx[d].prior, tx[d].ask.item, items[tx[d].ask.item].version)' <=>
              Follows(tx[d].prior, tx[d].ask.item, items[tx[d].ask.item].version)
      BY <3>1 DEF Follows
    <3> QED BY <3>1, <3>3, <3>4, <3>5 DEF DecisionHolds
  <2> QED BY <1>1, <2>1
<1>2. \A d, e \in Clients : d # e => tx'[d].updates \cap tx'[e].updates = {} BY DEF DecideInv
<1> QED BY <1>1, <1>2 DEF DecideInv

\* A decision committed by c leaves those the others are about to make alone:
\* who is past its update holds another row.
LEMMA DecideCommit ==
    ASSUME CaseInv, NEW c \in Clients, Commit(c), Deciding(c)
    PROVE  DecideInv'
<1> DEFINE i == tx[c].ask.item
<1> DEFINE now == items[i].version
<1> DEFINE new == Decision(c)
<1>0. TxInv /\ DecideInv /\ ChainInv BY DEF CaseInv
<1>1. i \in Items /\ now \in Nat \ {0} BY DecisionTyped
<1>2. tx[c].at = "commit" /\ reviews' = reviews \cup {new} /\ tx' = [tx EXCEPT ![c] = Done] BY CommitIs
<1>3. items' = [items EXCEPT ![i] = [version |-> now + 1, status |-> tx[c].ask.verdict]] BY CommitIs
<1>4. items'[i].version = now + 1 /\ \A j \in Items \ {i} : items'[j] = items[j] BY <1>0, <1>1, <1>3 DEF ChainInv
<1>5. new.item = i /\ new.version = now BY <1>2, DecisionIs
<1>6. tx[c].updates = {i} BY <1>0, <1>2 DEF DecideInv, DecisionHolds
<1>7. \A d \in Clients : (d = c /\ tx'[d] = Done) \/ (d # c /\ tx'[d] = tx[d]) BY <1>0, <1>2 DEF TxInv
<1>8. \A d, e \in Clients : d # e => tx'[d].updates \cap tx'[e].updates = {} BY <1>0, <1>7 DEF DecideInv, Done
<1>9. ASSUME NEW d \in Clients, Deciding(d)' PROVE DecisionHolds(d)'
  <2>1. d # c /\ tx'[d] = tx[d] BY <1>7, <1>9 DEF Deciding, Open, Done
  <2>2. Deciding(d) BY <1>9, <2>1 DEF Deciding, Open
  <2>3. DecisionHolds(d) BY <1>0, <2>2 DEF DecideInv
  <2>4. tx[d] \in Transaction /\ tx[d].ask.item \in Items /\ tx[d].ask.version \in Nat \ {0} /\ tx[d].read \in Nat
    BY <2>2, DecisionTyped DEF Transaction
  <2>j. PICK j \in Items : j = tx[d].ask.item BY <2>4
  <2>k. tx'[d].ask.item = j BY <2>1, <2>j
  <2>n. PICK k \in Items : k = i BY <1>1
  <2>m. PICK m \in Nat \ {0} : m = now BY <1>1
  <2>o. PICK r : r = new OBVIOUS
  <2>p. r.item = k /\ r.version = m /\ reviews' = reviews \cup {r} BY <1>2, <1>5, <2>n, <2>m, <2>o
  <2> HIDE DEF i, now, new
  <2>5. CASE j # k
    <3>1. Chain(j)' = Chain(j) BY <2>p, <2>5 DEF Chain
    <3>2. items'[j] = items[j] BY <1>4, <2>n, <2>5
    <3>3. \A p, v : Follows(p, j, v) => Follows(p, j, v)' BY <2>p DEF Follows
    <3> QED BY <2>1, <2>3, <2>j, <2>k, <3>1, <3>2, <3>3 DEF DecisionHolds
  <2>6. CASE j = k
    <3>1. tx[d].updates # {k} BY <1>0, <1>6, <2>1, <2>n DEF DecideInv
    <3>2. tx[d].at \notin {"event", "commit"} BY <2>3, <2>6, <2>j, <3>1 DEF DecisionHolds
    <3>3. /\ tx[d].ask.version <= m
          /\ \A q \in Chain(k) : q.version < tx[d].ask.version => q.no < tx[d].no
          /\ k \in Findings /\ tx[d].at \in {"read_prior", "update"} => tx[d].ask.version <= tx[d].read /\ tx[d].read <= m
      BY <2>3, <2>6, <2>j, <2>m, <2>n DEF DecisionHolds, now
    <3>4. ~(m < tx[d].ask.version) /\ tx[d].ask.version <= m + 1 BY <2>4, <3>3
    <3>5. k \in Findings /\ tx[d].at \in {"read_prior", "update"} =>
              tx[d].ask.version <= tx[d].read /\ tx[d].read <= m + 1 /\ tx[d].read # m + 1
      BY <2>4, <3>3
    <3>6. \A q \in Chain(k)' : q.version < tx[d].ask.version => q.no < tx[d].no
      BY <2>p, <3>3, <3>4 DEF Chain
    <3>7. items'[k].version = m + 1 BY <1>4, <2>n, <2>m
    <3> QED BY <2>1, <2>6, <2>k, <3>2, <3>4, <3>5, <3>6, <3>7 DEF DecisionHolds
  <2> QED BY <2>5, <2>6
<1> QED BY <1>8, <1>9 DEF DecideInv

LEMMA DecideStep == CaseInv /\ [Next]_vars => DecideInv'
<1> SUFFICES ASSUME CaseInv, [Next]_vars PROVE DecideInv'
  OBVIOUS
<1>0. TxInv /\ LogInv /\ ChainInv /\ DecideInv /\ tx \in [Clients -> Transaction] BY DEF CaseInv, TxInv
<1> USE DEF At, locks, committed
<1>a. \A c \in Clients : Deciding(c) => DecisionHolds(c) BY <1>0 DEF DecideInv
<1>b. \A c, d \in Clients : c # d => tx[c].updates \cap tx[d].updates = {} BY <1>0 DEF DecideInv
<1>1. ASSUME NEW c \in Clients, tx' = [tx EXCEPT ![c] = Done], UNCHANGED <<items, reviews>> PROVE DecideInv'
  BY <1>0, <1>1, DecideKept DEF Deciding, Open, Done
<1>2. ASSUME NEW c \in Clients, NEW ask \in Asks, Begin(c, ask) PROVE DecideInv'
  <2>1. PICK t : t = [Done EXCEPT !.at = FirstStep(ask), !.no = requests + 1, !.ask = ask] OBVIOUS
  <2>2. t.at = FirstStep(ask) /\ t.ask = ask /\ t.updates = {} /\ t.no = requests + 1 BY <2>1 DEF Done
  <2>3. tx' = [tx EXCEPT ![c] = t] /\ UNCHANGED <<items, reviews>> BY <1>2, <2>1 DEF Begin
  <2>4. tx'[c] = t /\ \A d \in Clients \ {c} : tx'[d] = tx[d] BY <1>0, <2>3
  <2>5. ASSUME ask.kind = "decide" PROVE DecisionHolds(c)'
    <3>1. ask.item \in Items /\ ask.version \in 1 .. items[ask.item].version BY <2>5 DEF Asks, Decisions, Uploads
    <3>2. items[ask.item].version \in Nat BY <1>0, <3>1 DEF ChainInv
    <3>3. ask.version <= items[ask.item].version BY <3>1, <3>2
    <3>4. ASSUME NEW r \in reviews PROVE r.no < requests + 1
      <4>1. PICK e \in events : e.no = r.no BY <1>0 DEF LogInv
      <4>2. e.no \in 1 .. requests /\ requests \in Nat BY <1>0 DEF LogInv, TxInv
      <4> QED BY <4>1, <4>2
    <3>5. /\ FirstStep(ask) \notin {"event", "commit", "read_prior"}
          /\ FirstStep(ask) = "update" => ask.item \notin Findings
      BY <2>5 DEF FirstStep
    <3> QED BY <2>2, <2>3, <2>4, <3>3, <3>4, <3>5 DEF DecisionHolds, Chain
  <2>6. Deciding(c)' => DecisionHolds(c)' BY <2>2, <2>4, <2>5 DEF Deciding
  <2> QED BY <1>0, <2>2, <2>3, <2>4, <2>6, DecideKept
<1>3. ASSUME NEW c \in Clients, Open(c), tx'[c].ask = tx[c].ask, tx'[c].updates = tx[c].updates, tx[c].ask.kind # "decide",
             \A d \in Clients \ {c} : tx'[d] = tx[d], UNCHANGED <<items, reviews>>
      PROVE  DecideInv'
  BY <1>0, <1>3, <1>b, DecideKept DEF Deciding
<1>4. ASSUME NEW c \in Clients, Statement(c) PROVE DecideInv'
  <2>0. tx[c] \in Transaction BY <1>0
  <2>g. ASSUME NEW at \in Steps \ {"done"}, tx[c].at # "done", Goto(c, at), tx[c].ask.kind # "decide", UNCHANGED <<items, reviews>>
        PROVE  DecideInv'
    <3>1. tx'[c].ask = tx[c].ask /\ tx'[c].updates = tx[c].updates /\ \A d \in Clients \ {c} : tx'[d] = tx[d]
      <4>1. Open(c) BY <2>g DEF Open
      <4>2. Moves(c, at) /\ tx'[c] = [tx[c] EXCEPT !.at = at] BY <1>0, <2>g, <4>1, GotoMoves
      <4>3. tx'[c].ask = tx[c].ask /\ \A d \in Clients \ {c} : tx'[d] = tx[d] BY <4>2 DEF Moves
      <4>4. tx'[c].updates = tx[c].updates BY <2>0, <4>2 DEF Transaction
      <4> QED BY <4>3, <4>4
    <3> QED BY <1>3, <2>g, <3>1 DEF Open
  <2>u. /\ tx[c].at \in UploadSteps => tx[c].ask.kind = "upload"
        /\ tx[c].at = "rows" => tx[c].ask.kind = "findings"
        /\ tx[c].at \in {"read", "read_prior", "update"} => Deciding(c)
    BY <1>0 DEF TxInv, Deciding, Open
  <2>a. Abort(c) => DecideInv' BY <1>1 DEF Abort
  <2>1. CASE StoreUpload(c) \/ FindSource(c) \/ FindNoJob(c)
    <3>1. PICK at \in {"find_source", "find_job", "source", "job"} : Goto(c, at)
      BY <2>1 DEF StoreUpload, FindSource, FindNoJob
    <3>2. tx[c].at \in UploadSteps \ {"done"} /\ UNCHANGED <<items, reviews>>
      BY <2>1 DEF StoreUpload, FindSource, FindNoJob, UploadSteps
    <3> QED BY <2>g, <2>u, <3>1, <3>2 DEF Steps
  <2>2. ASSUME NEW where, NEW next \in {"find_job", "event"}, ShareCase(c, where, next),
               where \in {"source_case", "job_case", "rows"}
        PROVE  DecideInv'
    BY <2>2, <2>g, <2>u DEF ShareCase, UploadSteps, Steps
  <2>3. ASSUME NEW where \in UploadSteps, NEW next \in UploadSteps, NEW key, Insert(c, where, key, next) PROVE DecideInv'
    <3>1. tx' = [tx EXCEPT ![c].at = next, ![c].inserts = @ \cup {key}] /\ tx[c].at = where /\ UNCHANGED <<items, reviews>>
      BY <2>3 DEF Insert
    <3>2. tx'[c].ask = tx[c].ask /\ tx'[c].updates = tx[c].updates /\ \A d \in Clients \ {c} : tx'[d] = tx[d]
      BY <1>0, <2>0, <3>1 DEF Transaction
    <3>3. Open(c) BY <2>3, <3>1 DEF UploadSteps, Open
    <3> QED BY <1>3, <2>u, <3>1, <3>2, <3>3
  <2>4. CASE InsertSource(c)
    BY <2>2, <2>3, <2>4, <2>a DEF InsertSource, InsertFails, UploadSteps
  <2>5. CASE InsertJob(c)
    BY <2>2, <2>3, <2>5, <2>a DEF InsertJob, InsertFails, UploadSteps
  <2>6. CASE ReuseJob(c)
    <3>1. Abort(c) \/ (tx' = [tx EXCEPT ![c] = Done] /\ UNCHANGED <<items, reviews>>) BY <2>6 DEF ReuseJob
    <3> QED BY <1>1, <2>a, <3>1
  <2>7. CASE StoreFindings(c) BY <2>2, <2>7 DEF StoreFindings
  <2>8. CASE ReadFinding(c)
    <3> DEFINE i == tx[c].ask.item
    <3>1. tx[c].at = "read" /\ Deciding(c) /\ UNCHANGED <<items, reviews>> BY <2>8, <2>u DEF ReadFinding
    <3>2. DecisionHolds(c) /\ i \in Items /\ items[i].version \in Nat BY <1>a, <3>1, DecisionTyped
    <3>3. PICK v \in Nat : v = items[i].version BY <3>2
    <3>4. tx' = [tx EXCEPT ![c].at = "read_prior", ![c].read = v] BY <2>8, <3>3 DEF ReadFinding
    <3>5. /\ tx'[c].at = "read_prior" /\ tx'[c].ask = tx[c].ask /\ tx'[c].read = v /\ tx'[c].no = tx[c].no
          /\ tx'[c].updates = tx[c].updates /\ \A d \in Clients \ {c} : tx'[d] = tx[d]
      BY <1>0, <2>0, <3>4 DEF Transaction
    <3>6. DecisionHolds(c)' BY <3>1, <3>2, <3>3, <3>5 DEF DecisionHolds, Chain
    <3> QED BY <1>0, <1>b, <3>1, <3>5, <3>6, DecideKept
  <2>9. CASE ReadPrior(c)
    <3> DEFINE i == tx[c].ask.item
    <3>1. tx[c].at = "read_prior" /\ Deciding(c) /\ UNCHANGED <<items, reviews>> BY <2>9, <2>u DEF ReadPrior
    <3>2. DecisionHolds(c) BY <1>a, <3>1
    <3>3. /\ tx'[c].at = "update" /\ tx'[c].ask = tx[c].ask /\ tx'[c].read = tx[c].read /\ tx'[c].no = tx[c].no
          /\ tx'[c].updates = tx[c].updates /\ \A d \in Clients \ {c} : tx'[d] = tx[d]
          /\ Follows(tx'[c].prior, i, items[i].version)
      BY <1>0, <2>9, ReadPriorIs DEF Moves
    <3>4. DecisionHolds(c)' BY <3>1, <3>2, <3>3 DEF DecisionHolds, Chain, Follows
    <3> QED BY <1>0, <1>b, <3>1, <3>3, <3>4, DecideKept
  <2>10. CASE GuardedUpdate(c)
    <3> DEFINE i == tx[c].ask.item
    <3>1. ASSUME VersionMatches(c) PROVE DecideInv'
      <4>1. tx[c].at = "update" /\ Deciding(c) /\ UNCHANGED <<items, reviews>> /\ WaitsFor(c) = {}
        BY <2>10, <2>u, <3>1 DEF GuardedUpdate, Runs
      <4>2. DecisionHolds(c) BY <1>a, <4>1
      <4>3. tx' = [tx EXCEPT ![c].at = "event", ![c].updates = {i}] BY <2>10, <3>1 DEF GuardedUpdate
      <4>4. /\ tx'[c].at = "event" /\ tx'[c].ask = tx[c].ask /\ tx'[c].read = tx[c].read /\ tx'[c].no = tx[c].no
            /\ tx'[c].prior = tx[c].prior
            /\ tx'[c].updates = {i} /\ \A d \in Clients \ {c} : tx'[d] = tx[d]
        BY <1>0, <2>0, <4>3 DEF Transaction
      <4>5. tx[c].ask.version = items[i].version BY <3>1 DEF VersionMatches
      <4>6. DecisionHolds(c)' BY <4>1, <4>2, <4>4, <4>5 DEF DecisionHolds, Chain, Follows
      <4>7. \A d \in Clients \ {c} : i \notin tx[d].updates BY <4>1 DEF WaitsFor
      <4> QED BY <1>0, <4>1, <4>4, <4>6, <4>7, DecideKept
    <3> QED BY <2>10, <2>a, <3>1 DEF GuardedUpdate
  <2>11. CASE AppendEvent(c)
    <3>1. PICK n : n = NextSequence(c) OBVIOUS
    <3>2. tx' = [tx EXCEPT ![c].at = "commit", ![c].sequence = n] /\ tx[c].at = "event" /\ UNCHANGED <<items, reviews>>
      BY <2>11, <3>1 DEF AppendEvent
    <3>3. /\ tx'[c].at = "commit" /\ tx'[c].ask = tx[c].ask /\ tx'[c].read = tx[c].read /\ tx'[c].no = tx[c].no
          /\ tx'[c].prior = tx[c].prior
          /\ tx'[c].updates = tx[c].updates /\ \A d \in Clients \ {c} : tx'[d] = tx[d]
      BY <1>0, <2>0, <3>2 DEF Transaction
    <3>4. Deciding(c)' => Deciding(c) BY <3>2, <3>3 DEF Deciding, Open
    <3>5. DecisionHolds(c) => DecisionHolds(c)' BY <3>2, <3>3 DEF DecisionHolds, Chain, Follows
    <3> QED BY <1>0, <1>a, <1>b, <3>2, <3>3, <3>4, <3>5, DecideKept
  <2>12. CASE Commit(c) BY <1>1, <2>12, CommitIs, DecideCommit
  <2> QED BY <1>4, <2>1, <2>4, <2>5, <2>6, <2>7, <2>8, <2>9, <2>10, <2>11, <2>12 DEF Statement
<1>5. ASSUME UNCHANGED <<tx, items, reviews>> PROVE DecideInv'
  BY <1>0, <1>5 DEF DecideInv, Deciding, Open, DecisionHolds, Chain, Follows
<1>6. CASE Poll BY <1>5, <1>6 DEF Poll
<1>7. CASE UNCHANGED vars BY <1>5, <1>7 DEF vars
<1>8. ASSUME NEW c \in Clients, Abort(c) PROVE DecideInv' BY <1>1, <1>8 DEF Abort
<1> QED BY <1>2, <1>4, <1>6, <1>7, <1>8 DEF Next, BreakDeadlock, Drop

LEMMA CaseAlways == Spec => []CaseInv
<1>1. CaseInv /\ [Next]_vars => CaseInv'
  <2>1. CaseInv /\ [Next]_vars => TxInv' BY TxStep
  <2>2. CaseInv /\ [Next]_vars => LogInv' BY LogStep
  <2>3. CaseInv /\ [Next]_vars => KeyInv' BY KeyStep
  <2>4. CaseInv /\ [Next]_vars => ChainInv' BY ChainStep
  <2>5. CaseInv /\ [Next]_vars => DecideInv' BY DecideStep
  <2> QED BY <2>1, <2>2, <2>3, <2>4, <2>5 DEF CaseInv
<1> QED BY CaseInit, <1>1, PTL DEF Spec

-----------------------------------------------------------------------------
(* What follows.                                                            *)

\* Distinct things numbered 1 to n are n.
LEMMA CountNumbered ==
    ASSUME NEW S, NEW n \in Nat, NEW f \in [S -> 1 .. n],
           \A s, t \in S : f[s] = f[t] => s = t, \A m \in 1 .. n : \E s \in S : f[s] = m
    PROVE  IsFiniteSet(S) /\ Cardinality(S) = n
<1>1. IsFiniteSet(1 .. n) /\ Cardinality(1 .. n) = n BY FS_Interval
<1>2. f \in Injection(S, 1 .. n) BY DEF Injection, IsInjective
<1>3. f \in Surjection(S, 1 .. n) BY DEF Surjection
<1> QED BY <1>1, <1>2, <1>3, FS_Injection

\* However uploads, decisions and worker stages of a case overlap, roll back or
\* die, its event log has an event for each import and decision, numbered without
\* gaps or repetitions, and a reader that resumes has missed none.
THEOREM LogIsWhole == Spec => []LogIsComplete
<1>1. ASSUME CaseInv PROVE LogIsComplete
  <2>0. LogInv BY <1>1 DEF CaseInv
  <2>1. PICK n \in Nat : Numbers = 1 .. n BY <2>0 DEF LogInv
  <2> DEFINE f == [e \in events |-> e.sequence]
  <2>2. f \in [events -> 1 .. n] BY <2>1 DEF Numbers
  <2>3. \A e, g \in events : f[e] = f[g] => e = g BY <2>0 DEF LogInv
  <2>4. \A m \in 1 .. n : \E e \in events : f[e] = m BY <2>1 DEF Numbers
  <2> HIDE DEF f
  <2>5. Cardinality(events) = n BY <2>2, <2>3, <2>4, CountNumbered
  <2> QED BY <2>0, <2>1, <2>5 DEF LogInv, LogIsComplete, Numbers
<1> QED BY CaseAlways, <1>1, PTL

\* Reviewers who decide on a finding or a group at once decide each version of it
\* once; the status is the last verdict, and each decision on a finding names the
\* one before it, although it reads that one before it holds the row.
THEOREM DecisionsChain == Spec => []DecisionsFormAChain
<1>1. ASSUME CaseInv, NEW i \in Items
      PROVE  LET chain == {r \in reviews : r.item = i}
             IN  /\ {r.version : r \in chain} = 1 .. items[i].version - 1
                 /\ Cardinality(chain) = items[i].version - 1
                 /\ \A r \in chain : r.version = items[i].version - 1 => items[i].status = r.verdict
                 /\ i \in Findings => \A r \in chain :
                        IF r.version = 1 THEN r.prior = 0
                        ELSE \E q \in chain : q.no = r.prior /\ q.version = r.version - 1
  <2>0. ChainInv BY <1>1 DEF CaseInv
  <2> DEFINE chain == {r \in reviews : r.item = i}
  <2>1. {r.version : r \in chain} = 1 .. items[i].version - 1 BY <2>0 DEF ChainInv, Chain
  <2>2. items[i].version \in Nat \ {0} BY <2>0 DEF ChainInv
  <2>3. PICK n \in Nat : n = items[i].version - 1 BY <2>2
  <2> DEFINE f == [r \in chain |-> r.version]
  <2>4. f \in [chain -> 1 .. n] BY <2>1, <2>3
  <2>5. \A r, q \in chain : f[r] = f[q] => r = q BY <2>0 DEF ChainInv
  <2>6. \A m \in 1 .. n : \E r \in chain : f[r] = m BY <2>1, <2>3
  <2> HIDE DEF f
  <2>7. Cardinality(chain) = n BY <2>4, <2>5, <2>6, CountNumbered
  <2>8. \A r \in chain : r.version = items[i].version - 1 => items[i].status = r.verdict BY <2>0 DEF ChainInv
  <2>9. ASSUME i \in Findings, NEW r \in chain
        PROVE  IF r.version = 1 THEN r.prior = 0 ELSE \E q \in chain : q.no = r.prior /\ q.version = r.version - 1
    BY <2>0, <2>9 DEF ChainInv, Follows
  <2> QED BY <2>1, <2>3, <2>7, <2>8, <2>9
<1>2. CaseInv => DecisionsFormAChain BY <1>1 DEF DecisionsFormAChain
<1> QED BY CaseAlways, <1>2, PTL

\* All accepted answers to an idempotency key name one import, of the content each
\* of them was asked about, and its source row and published original are there.
THEOREM KeysHold == Spec => []KeysAreIdempotent
<1>1. ASSUME CaseInv PROVE KeysAreIdempotent
  <2>0. KeyInv BY <1>1 DEF CaseInv
  <2>1. ASSUME NEW a \in answers, NEW b \in answers, a.key = b.key PROVE a = b
    <3>1. /\ [no |-> a.import, key |-> a.key, digest |-> a.digest] \in imports
          /\ [no |-> b.import, key |-> b.key, digest |-> b.digest] \in imports
      BY <2>0 DEF KeyInv
    <3>2. [no |-> a.import, key |-> a.key, digest |-> a.digest] = [no |-> b.import, key |-> b.key, digest |-> b.digest]
      BY <2>0, <2>1, <3>1 DEF KeyInv
    <3>3. a.import = b.import /\ a.digest = b.digest BY <3>2
    <3>4. /\ a \in [key : Keys, digest : Digests, import : Nat]
          /\ b \in [key : Keys, digest : Digests, import : Nat]
      BY <2>0 DEF KeyInv
    <3> QED BY <2>1, <3>3, <3>4
  <2> QED BY <2>0, <2>1 DEF KeyInv, KeysAreIdempotent
<1> QED BY CaseAlways, <1>1, PTL

=============================================================================
