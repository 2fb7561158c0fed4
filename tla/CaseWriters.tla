---------------------------- MODULE CaseWriters -----------------------------
(***************************************************************************)
(* The writers of one case: uploads, reviewers' decisions on findings and  *)
(* on review groups, worker stages that store findings; the case's event   *)
(* log, which each of them appends to before it commits; and a reader of   *)
(* the log over SSE.                                                       *)
(*                                                                         *)
(* Every writer is one PostgreSQL transaction at READ COMMITTED.  An       *)
(* action is one of its statements: it reads what is committed then, and   *)
(* waits where a row lock or an uncommitted unique key of another one      *)
(* stands in its way.  What it writes becomes visible when it commits.     *)
(***************************************************************************)
EXTENDS Naturals, FiniteSets

CONSTANTS
    Clients,     \* requests and worker stages that may run at a time
    Digests,     \* contents of uploads
    Keys,        \* idempotency keys
    Findings,    \* findings under review
    Groups,      \* review groups
    Verdicts,    \* dispositions
    MaxRequests  \* bound: transactions in a behaviour

Items == Findings \cup Groups

ASSUME ItemsAssumption  == Findings \cap Groups = {} /\ "open" \notin Verdicts
ASSUME BoundsAssumption == MaxRequests \in Nat

VARIABLES
    originals,  \* digests of the published originals
    sources,    \* digests of the EvidenceSource rows
    imports,    \* ImportJob rows, [no, key, digest]
    items,      \* per finding and group, [version, status]
    reviews,    \* decisions on record, [no, item, version, verdict, prior]
    events,     \* CaseEvent rows, [sequence, no]
    tx,         \* per client, the transaction it runs
    sharing,    \* clients with a KEY SHARE lock on the case row
    holding,    \* clients with a FOR UPDATE lock on the case row
    answers,    \* accepted uploads, [key, digest, import]
    reader,     \* the SSE client: its last id and the events it was sent
    requests    \* transactions so far

committed == <<originals, sources, imports, items, reviews, events, answers>>
locks     == <<sharing, holding>>
vars      == <<committed, tx, locks, reader, requests>>

-----------------------------------------------------------------------------

\* A client between transactions.  "no" names the transaction and its
\* created_at, which is when it began; "inserts" are its uncommitted rows.
Done == [at |-> "done", no |-> 0, ask |-> [kind |-> "none"], inserts |-> {},
         updates |-> {}, read |-> 0, prior |-> 0, sequence |-> 0]

Init ==
    /\ originals = {} /\ sources = {} /\ imports = {}
    /\ items = [i \in Items |-> [version |-> 1, status |-> "open"]]
    /\ reviews = {} /\ events = {} /\ answers = {}
    /\ tx = [c \in Clients |-> Done]
    /\ sharing = {} /\ holding = {}
    /\ reader = [last |-> 0, sent |-> {}]
    /\ requests = 0

-----------------------------------------------------------------------------
(* The database: what a statement waits for.                               *)

At(c, where) == tx[c].at = where

\* The clients client c's next statement must wait for: an uncommitted insert
\* of the same unique key, an update of the same row, a lock on the case.
WaitsFor(c) ==
    LET ask == tx[c].ask
    IN  CASE At(c, "source") -> {d \in Clients \ {c} : <<"source", ask.digest>> \in tx[d].inserts}
          [] At(c, "job")    -> {d \in Clients \ {c} : <<"job", ask.key>> \in tx[d].inserts}
          [] At(c, "update") -> {d \in Clients \ {c} : ask.item \in tx[d].updates}
          [] tx[c].at \in {"source_case", "job_case", "rows"} -> holding \ {c}
          [] At(c, "event")  -> (holding \cup sharing) \ {c}
          [] OTHER -> {}

\* Mutant: no lock on the case is waited for.
RunsAlways(c) == tx[c].at # "done" /\ (WaitsFor(c) = {} \/ At(c, "event"))
Runs(c) == tx[c].at # "done" /\ WaitsFor(c) = {}

\* Clients that wait for one another for good.
Deadlocked(S) == S # {} /\ \A c \in S : WaitsFor(c) \cap S # {}

Goto(c, where) == tx' = [tx EXCEPT ![c].at = where]

Release(c) == sharing' = sharing \ {c} /\ holding' = holding \ {c}

\* Roll back: an error response, or the deadlock detector's choice.
Abort(c) ==
    /\ tx' = [tx EXCEPT ![c] = Done]
    /\ Release(c)
    /\ UNCHANGED <<committed, reader, requests>>

BreakDeadlock(c) ==
    /\ \E S \in SUBSET Clients : c \in S /\ Deadlocked(S)
    /\ Abort(c)

-----------------------------------------------------------------------------
(* What is asked.                                                          *)

Uploads == [kind : {"upload"}, digest : Digests, key : Keys]

\* A client names a version it has been shown.
Decisions ==
    UNION {[kind : {"decide"}, item : {i}, version : 1..items[i].version, verdict : Verdicts] : i \in Items}

Asks == Uploads \cup Decisions \cup [kind : {"findings"}]

FirstStep(ask) ==
    CASE ask.kind = "upload" -> "store"
      [] ask.kind = "decide" -> IF ask.item \in Findings THEN "read" ELSE "update"
      [] OTHER -> "rows"

Begin(c, ask) ==
    /\ At(c, "done")
    /\ requests < MaxRequests
    /\ requests' = requests + 1
    /\ tx' = [tx EXCEPT ![c] = [Done EXCEPT !.at = FirstStep(ask), !.no = requests + 1, !.ask = ask]]
    /\ UNCHANGED <<committed, locks, reader>>

-----------------------------------------------------------------------------
(* POST /imports.                                                          *)

\* store_upload publishes the original before the database knows of it.
StoreUpload(c) ==
    /\ At(c, "store")
    /\ originals' = originals \cup {tx[c].ask.digest}
    /\ Goto(c, "find_source")
    /\ UNCHANGED <<sources, imports, items, reviews, events, answers, locks, reader, requests>>

FindSource(c) ==
    /\ At(c, "find_source")
    /\ Goto(c, IF tx[c].ask.digest \in sources THEN "find_job" ELSE "source")
    /\ UNCHANGED <<committed, locks, reader, requests>>

\* Mutant: the table admits the row twice.
NeverTaken(key) == FALSE
Taken(key) ==
    CASE key[1] = "source" -> key[2] \in sources
      [] OTHER -> \E i \in imports : i.key = key[2]

\* An insert enters the unique index first ...
Insert(c, where, key, next) ==
    /\ At(c, where) /\ Runs(c)
    /\ ~Taken(key)
    /\ tx' = [tx EXCEPT ![c].at = next, ![c].inserts = @ \cup {key}]
    /\ UNCHANGED <<committed, locks, reader, requests>>

\* ... which refuses it when the other transaction has committed.
InsertFails(c, where, key) == At(c, where) /\ Runs(c) /\ Taken(key) /\ Abort(c)

\* The foreign key then locks the case row against deletion.
ShareCase(c, where, next) ==
    /\ At(c, where) /\ Runs(c)
    /\ sharing' = sharing \cup {c}
    /\ Goto(c, next)
    /\ UNCHANGED <<committed, holding, reader, requests>>

InsertSource(c) ==
    LET key == <<"source", tx[c].ask.digest>>
    IN  \/ Insert(c, "source", key, "source_case") \/ InsertFails(c, "source", key)
        \/ ShareCase(c, "source_case", "find_job")

\* create_or_reuse_job: a known key answers with its import, or is refused.
Earlier(c) == {i \in imports : i.key = tx[c].ask.key}

ReuseJob(c) ==
    /\ At(c, "find_job")
    /\ \E i \in Earlier(c) :
           IF i.digest = tx[c].ask.digest
           THEN /\ sources' = sources \cup {i.digest}
                /\ answers' = answers \cup {[key |-> i.key, digest |-> i.digest, import |-> i.no]}
                /\ tx' = [tx EXCEPT ![c] = Done]
                /\ Release(c)
                /\ UNCHANGED <<originals, imports, items, reviews, events, reader, requests>>
           ELSE Abort(c)

FindNoJob(c) ==
    /\ At(c, "find_job") /\ Earlier(c) = {}
    /\ Goto(c, "job")
    /\ UNCHANGED <<committed, locks, reader, requests>>

InsertJob(c) ==
    LET key == <<"job", tx[c].ask.key>>
    IN  \/ Insert(c, "job", key, "job_case") \/ InsertFails(c, "job", key)
        \/ ShareCase(c, "job_case", "event")

-----------------------------------------------------------------------------
(* Decisions, and a worker stage that stores findings.                     *)

Latest(S) == {r.no : r \in {q \in S : \A p \in S : p.no <= q.no}}

\* review_finding reads the finding, and then its latest decision.
ReadFinding(c) ==
    /\ At(c, "read")
    /\ tx' = [tx EXCEPT ![c].at = "read_prior", ![c].read = items[tx[c].ask.item].version]
    /\ UNCHANGED <<committed, locks, reader, requests>>

ReadPrior(c) ==
    /\ At(c, "read_prior")
    /\ LET before == Latest({r \in reviews : r.item = tx[c].ask.item})
       IN  tx' = [tx EXCEPT ![c].at = "update",
                            ![c].prior = IF before = {} THEN 0 ELSE CHOOSE n \in before : TRUE]
    /\ UNCHANGED <<committed, locks, reader, requests>>

\* Mutant: a decision overwrites whatever version it meets.
AnyVersion(c) == TRUE
VersionMatches(c) == items[tx[c].ask.item].version = tx[c].ask.version

GuardedUpdate(c) ==
    /\ At(c, "update") /\ Runs(c)
    /\ IF VersionMatches(c)
       THEN /\ tx' = [tx EXCEPT ![c].at = "event", ![c].updates = {tx[c].ask.item}]
            /\ UNCHANGED <<committed, locks, reader, requests>>
       ELSE Abort(c)

StoreFindings(c) == ShareCase(c, "rows", "event")

-----------------------------------------------------------------------------
(* append_event, and the commit.                                           *)

\* Mutant: the number comes from a counter the transaction drew on at its start.
DrawnAtStart(c) == tx[c].no

\* max(sequence) + 1 over what is committed.
NextSequence(c) ==
    IF events = {} THEN 1
    ELSE 1 + CHOOSE n \in {e.sequence : e \in events} : \A e \in events : e.sequence <= n

\* The case row is locked, and then max(sequence) is read.
AppendEvent(c) ==
    /\ At(c, "event") /\ Runs(c)
    /\ holding' = holding \cup {c}
    /\ tx' = [tx EXCEPT ![c].at = "commit", ![c].sequence = NextSequence(c)]
    /\ UNCHANGED <<committed, sharing, reader, requests>>

\* The decision's version is the one read, not the one the client named.
Decision(c) ==
    [no |-> tx[c].no, item |-> tx[c].ask.item, verdict |-> tx[c].ask.verdict, prior |-> tx[c].prior,
     version |-> IF tx[c].ask.item \in Findings THEN tx[c].read ELSE tx[c].ask.version]

Commit(c) ==
    LET ask == tx[c].ask
    IN  /\ At(c, "commit")
        /\ events' = events \cup {[sequence |-> tx[c].sequence, no |-> tx[c].no]}
        /\ IF ask.kind = "upload"
           THEN /\ sources' = sources \cup {ask.digest}
                /\ imports' = imports \cup {[no |-> tx[c].no, key |-> ask.key, digest |-> ask.digest]}
                /\ answers' = answers \cup {[key |-> ask.key, digest |-> ask.digest, import |-> tx[c].no]}
           ELSE UNCHANGED <<sources, imports, answers>>
        /\ IF ask.kind = "decide"
           THEN /\ items' = [items EXCEPT ![ask.item] = [version |-> @.version + 1, status |-> ask.verdict]]
                /\ reviews' = reviews \cup {Decision(c)}
           ELSE UNCHANGED <<items, reviews>>
        /\ tx' = [tx EXCEPT ![c] = Done]
        /\ Release(c)
        /\ UNCHANGED <<originals, reader, requests>>

-----------------------------------------------------------------------------
(* The reader.                                                             *)

\* sse_events: what is committed beyond the last id, in order; the connection
\* may end anywhere, and the next one resumes after the last id received.
Poll ==
    LET fresh == {e \in events : e.sequence > reader.last}
    IN  \E e \in fresh :
            /\ reader' = [last |-> e.sequence,
                          sent |-> reader.sent \cup {f \in fresh : f.sequence <= e.sequence}]
            /\ UNCHANGED <<committed, tx, locks, requests>>

Statement(c) ==
    \/ StoreUpload(c) \/ FindSource(c) \/ InsertSource(c)
    \/ ReuseJob(c) \/ FindNoJob(c) \/ InsertJob(c)
    \/ ReadFinding(c) \/ ReadPrior(c) \/ GuardedUpdate(c) \/ StoreFindings(c)
    \/ AppendEvent(c) \/ Commit(c)

\* The process serving the request dies, or the client's connection does.
Drop(c) == tx[c].at # "done" /\ Abort(c)

Next ==
    \/ \E c \in Clients :
           \/ \E ask \in Asks : Begin(c, ask)
           \/ Statement(c) \/ BreakDeadlock(c) \/ Drop(c)
    \/ Poll

Spec == Init /\ [][Next]_vars

-----------------------------------------------------------------------------
(* Properties.                                                             *)

Steps == {"done", "store", "find_source", "source", "source_case", "find_job", "job", "job_case",
          "read", "read_prior", "update", "rows", "event", "commit"}

\* Every variable keeps its type.
TypeOK ==
    /\ originals \subseteq Digests /\ sources \subseteq Digests
    /\ imports \subseteq [no : 1..MaxRequests, key : Keys, digest : Digests]
    /\ items \in [Items -> [version : 1..MaxRequests + 1, status : Verdicts \cup {"open"}]]
    /\ reviews \subseteq [no : 1..MaxRequests, item : Items, version : 1..MaxRequests,
                          verdict : Verdicts, prior : 0..MaxRequests]
    /\ events \subseteq [sequence : 1..MaxRequests, no : 1..MaxRequests]
    /\ answers \subseteq [key : Keys, digest : Digests, import : 1..MaxRequests]
    /\ \A c \in Clients : tx[c].at \in Steps /\ tx[c].no \in 0..MaxRequests
    /\ sharing \subseteq Clients /\ holding \subseteq Clients /\ Cardinality(holding) <= 1
    /\ reader.last \in 0..MaxRequests /\ reader.sent \subseteq events

\* A reader that resumes after any id it was given has missed nothing: no event
\* is ever committed at or below a number a reader has passed.
ReaderMissesNothing == \A e \in events : e.sequence <= reader.last => e \in reader.sent

\* The log tells of each change once: every import and every decision has one
\* event, the numbers have neither gaps nor repetitions, and readers miss none.
LogIsComplete ==
    /\ ReaderMissesNothing
    /\ \A e, f \in events : e.sequence = f.sequence => e = f
    /\ {e.sequence : e \in events} = 1..Cardinality(events)
    /\ {i.no : i \in imports} \cup {r.no : r \in reviews} \subseteq {e.no : e \in events}

\* Decisions on one finding or group form a chain, however many reviewers
\* decide at once: each version was decided exactly once, the status is the last
\* verdict, and each decision on a finding names the one just before it.
DecisionsFormAChain ==
    \A i \in Items :
        LET chain == {r \in reviews : r.item = i}
        IN  /\ {r.version : r \in chain} = 1..items[i].version - 1
            /\ Cardinality(chain) = items[i].version - 1
            /\ \A r \in chain : r.version = items[i].version - 1 => items[i].status = r.verdict
            /\ i \in Findings => \A r \in chain :
                   IF r.version = 1 THEN r.prior = 0
                   ELSE \E q \in chain : q.no = r.prior /\ q.version = r.version - 1

\* An idempotency key stands for one import of one source for good: whatever
\* races led to them, all accepted answers to it agree, and the import they name
\* exists, with its source row and its published original.
KeysAreIdempotent ==
    /\ \A a, b \in answers : a.key = b.key => a = b
    /\ \A a \in answers : [no |-> a.import, key |-> a.key, digest |-> a.digest] \in imports
    /\ \A i \in imports : i.digest \in sources \cap originals

\* app/events.py:22: "PostgreSQL serializes writers for a case": writers of a case
\* wait for one another in turn, and never for each other.
WritersAreSerialized == \A S \in SUBSET Clients : ~Deadlocked(S)

=============================================================================
