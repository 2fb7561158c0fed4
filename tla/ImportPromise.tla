---------------------------- MODULE ImportPromise ----------------------------
(***************************************************************************)
(* What the import queue promises its clients, without workers, leases,    *)
(* stages or attempts: an import is waiting, being worked on, or settled;  *)
(* a settled import is reopened only by a request; an intent the client    *)
(* left with a request is owed until work on the import honours it, and an *)
(* import that completes owes no group-only intent.                        *)
(***************************************************************************)
EXTENDS Naturals

CONSTANTS Imports, Intents

VARIABLES
    status, \* per import: waiting, working, completed or failed
    owed    \* per import, the intents not honoured yet: kind and number

promiseVars == <<status, owed>>

Settled == {"completed", "failed"}

PromiseInit ==
    /\ status \in [Imports -> {"waiting", "completed"}]
    /\ owed = [i \in Imports |-> {}]

\* A client reopens settled imports, with at most one new intent for each.
Ask ==
    \E asked \in SUBSET Imports :
        /\ asked # {}
        /\ \A i \in asked : status[i] \in Settled
        /\ status' = [i \in Imports |-> IF i \in asked THEN "waiting" ELSE status[i]]
        /\ DOMAIN owed' = Imports
        /\ \A i \in Imports :
               /\ owed[i] \subseteq owed'[i]
               /\ i \notin asked => owed'[i] = owed[i]
               /\ \A d, e \in owed'[i] \ owed[i] : d = e /\ d.kind \in Intents

Take(i) ==
    /\ status[i] = "waiting"
    /\ status' = [status EXCEPT ![i] = "working"]
    /\ UNCHANGED owed

Honour(i) ==
    /\ status[i] = "working"
    /\ \E left \in SUBSET owed[i] : owed' = [owed EXCEPT ![i] = left]
    /\ UNCHANGED status

\* Honouring the last intents and completing may be one step.
Complete(i) ==
    /\ status[i] = "working"
    /\ status' = [status EXCEPT ![i] = "completed"]
    /\ \E left \in SUBSET {d \in owed[i] : d.kind # "group"} : owed' = [owed EXCEPT ![i] = left]

Fail(i) ==
    /\ status[i] = "working"
    /\ status' = [status EXCEPT ![i] = "failed"]
    /\ UNCHANGED owed

PromiseNext == Ask \/ \E i \in Imports : Take(i) \/ Honour(i) \/ Complete(i) \/ Fail(i)

PromiseSpec == PromiseInit /\ [][PromiseNext]_promiseVars

=============================================================================
