----------------------------- MODULE OrderedMap -----------------------------
(***************************************************************************)
(* What a caller of ProcessPool.imap may rely on, whatever the threads and *)
(* processes behind it do: outcomes come one by one, each with the batch   *)
(* it belongs to; the map returns only when every job was answered, and    *)
(* raises only where a job, the source or the pool itself failed.          *)
(***************************************************************************)
EXTENDS Naturals, Sequences

VARIABLES
    jobs,     \* [count, bad, broken]: jobs, those that raise, how the source ends
    given,    \* what the caller has, <<batch, the job its outcome was computed from>>
    trouble,  \* a worker process or a driver was lost
    ending    \* "open", "returned", "raised" or "closed"

MapInit == given = <<>> /\ ~trouble /\ ending = "open"

Due == Len(given) + 1

Give ==
    /\ ending = "open"
    /\ Due <= jobs.count /\ Due \notin jobs.bad
    /\ given' = Append(given, <<Due, Due>>)
    /\ UNCHANGED <<jobs, trouble, ending>>

Trouble == trouble' = TRUE /\ UNCHANGED <<jobs, given, ending>>

Finish ==
    /\ ending = "open"
    /\ \/ Due > jobs.count /\ ~jobs.broken /\ ending' = "returned"
       \/ /\ Due \in jobs.bad \/ (Due > jobs.count /\ jobs.broken) \/ trouble
          /\ ending' = "raised"
       \/ ending' = "closed"
    /\ UNCHANGED <<jobs, given, trouble>>

MapSpec == MapInit /\ [][Give \/ Trouble \/ Finish]_<<jobs, given, trouble, ending>>

=============================================================================
