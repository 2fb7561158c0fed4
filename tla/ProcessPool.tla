---------------------------- MODULE ProcessPool -----------------------------
(***************************************************************************)
(* ProcessPool.imap: driver threads draw jobs from a lazy source, each     *)
(* hands its job to a worker process of its own and stores the answer; the *)
(* consumer, a generator, gives the answers to the caller in job order.    *)
(* The caller is normalized_batches, which keeps the drawn batches in a    *)
(* queue of its own and pairs each answer with the batch at its head.      *)
(*                                                                         *)
(* Each action is one critical section or one call on a pipe.              *)
(***************************************************************************)
EXTENDS Naturals, Sequences, FiniteSets

CONSTANTS
    Drivers,    \* driver threads, each with its worker process
    Asked,      \* the window argument of imap, 0 for none
    MaxJobs,    \* bound: jobs of a source
    FaultKinds, \* "death": a worker process dies; "loss": an exception that
                \* drive does not catch (pickling, memory) ends a driver
    MaxFaults   \* bound: faults of these kinds in a behaviour

NoEnd   == MaxJobs + 3  \* end is None
NoIndex == 0

ASSUME DriversAssumption == IsFiniteSet(Drivers) /\ Drivers # {}
ASSUME BoundsAssumption  == Asked \in Nat /\ MaxJobs \in Nat /\ MaxFaults \in Nat
ASSUME FaultsAssumption  == FaultKinds \subseteq {"death", "loss"}

VARIABLES
    jobs,     \* the source: how many jobs, which raise, whether it raises itself
    slots,    \* the semaphore
    lock,     \* the drivers inside the draw lock
    next,     \* index of the next job to draw, from 1
    end,      \* index of the first job there is not, or NoEnd
    stop,     \* the map is over
    results,  \* index -> outcome, the answers not yet taken
    driver,   \* per driver, where it is, the index and the job it has
    process,  \* per driver, its worker: alive, and what the pipes hold
    pending,  \* the caller's queue of drawn batches
    index,    \* the consumer's position
    phase,    \* where the consumer is
    given,    \* <<batch, outcome>> pairs the caller has
    faults    \* faults so far

poolVars == <<jobs, slots, lock, next, end, stop, results, driver, process,
              pending, index, phase, given, faults>>

drawVars     == <<lock, next, end, pending>>
consumerVars == <<jobs, stop, index, phase, given>>

-----------------------------------------------------------------------------

N == Cardinality(Drivers)

\* window = max(workers, window or 2 * workers)
Window ==
    LET wanted == IF Asked = 0 THEN 2 * N ELSE Asked
    IN  IF wanted < N THEN N ELSE wanted

\* A worker's answer to a job: the job it was computed from, or an error.
Answer(i) == IF i \in jobs.bad THEN [kind |-> "error", job |-> i] ELSE [kind |-> "ok", job |-> i]
Exited    == [kind |-> "error", job |-> NoIndex]
Raised    == [kind |-> "raise", job |-> NoIndex]

Quiet == [alive |-> TRUE, got |-> NoIndex, said |-> NoIndex]

PoolInit ==
    /\ jobs \in [count : 0..MaxJobs, bad : SUBSET (1..MaxJobs), broken : BOOLEAN]
    /\ jobs.bad \subseteq 1..jobs.count
    /\ slots = Window
    /\ lock = {}
    /\ next = 1
    /\ end = NoEnd
    /\ stop = FALSE
    /\ results = <<>>
    /\ driver = [d \in Drivers |-> [at |-> "slot", has |-> NoIndex, job |-> NoIndex]]
    /\ process = [d \in Drivers |-> Quiet]
    /\ pending = <<>>
    /\ index = 1
    /\ phase = "look"
    /\ given = <<>>
    /\ faults = 0

-----------------------------------------------------------------------------
(* A driver.                                                               *)

At(d, where) == driver[d].at = where
MoveTo(d, where) == driver' = [driver EXCEPT ![d].at = where]

AcquireSlot(d) ==
    /\ At(d, "slot")
    /\ slots > 0
    /\ slots' = slots - 1
    /\ MoveTo(d, "draw")
    /\ UNCHANGED <<drawVars, consumerVars, results, process, faults>>

\* Mutant: the draw lock keeps nobody out.
LockOpen == TRUE
LockFree == lock = {}

SlotsBack == slots + 1

\* There is nothing left to draw: give the slot back and leave.
LeaveDrawing(d) ==
    /\ At(d, "draw") /\ LockFree
    /\ end # NoEnd \/ stop
    /\ slots' = SlotsBack
    /\ MoveTo(d, "gone")
    /\ UNCHANGED <<drawVars, consumerVars, results, process, faults>>

\* Inside the lock the driver notes the index it is drawing.
EnterDraw(d) ==
    /\ At(d, "draw") /\ LockFree
    /\ end = NoEnd /\ ~stop
    /\ lock' = lock \cup {d}
    /\ driver' = [driver EXCEPT ![d].at = "drawing", ![d].has = next]
    /\ UNCHANGED <<next, end, pending, slots, consumerVars, results, process, faults>>

\* What the source has yielded.
Drawn == Len(pending) + Len(given)

\* next(source) yields the next batch, which the caller queues as it does.
DrawJob(d) ==
    /\ At(d, "drawing")
    /\ Drawn < jobs.count
    /\ next' = driver[d].has + 1
    /\ pending' = Append(pending, Drawn + 1)
    /\ lock' = lock \ {d}
    /\ driver' = [driver EXCEPT ![d].at = "send", ![d].job = Drawn + 1]
    /\ UNCHANGED <<end, slots, consumerVars, results, process, faults>>

DrawEnd(d) ==
    /\ At(d, "drawing")
    /\ Drawn = jobs.count /\ ~jobs.broken
    /\ end' = driver[d].has
    /\ lock' = lock \ {d}
    /\ MoveTo(d, "finish")
    /\ UNCHANGED <<next, pending, slots, consumerVars, results, process, faults>>

Finish(d) ==
    /\ At(d, "finish")
    /\ slots' = SlotsBack
    /\ MoveTo(d, "gone")
    /\ UNCHANGED <<drawVars, consumerVars, results, process, faults>>

\* The source raises: its place in the order is the place of the next job.
DrawRaises(d) ==
    /\ At(d, "drawing")
    /\ Drawn = jobs.count /\ jobs.broken
    /\ end' = driver[d].has + 1
    /\ MoveTo(d, "report")
    /\ UNCHANGED <<lock, next, pending, slots, consumerVars, results, process, faults>>

Store(d, outcome) ==
    results' = [i \in DOMAIN results \cup {driver[d].has} |->
                   IF i = driver[d].has THEN outcome ELSE results[i]]

\* Still inside the lock.
Report(d) ==
    /\ At(d, "report")
    /\ Store(d, Raised)
    /\ lock' = lock \ {d}
    /\ MoveTo(d, "gone")
    /\ UNCHANGED <<next, end, pending, slots, consumerVars, process, faults>>

Send(d) ==
    /\ At(d, "send") /\ process[d].alive
    /\ process' = [process EXCEPT ![d].got = driver[d].job]
    /\ MoveTo(d, "receive")
    /\ UNCHANGED <<slots, drawVars, consumerVars, results, faults>>

StoredSlots == slots

\* Stop on any answer but a good one.
After(outcome) == IF outcome.kind = "ok" THEN "slot" ELSE "gone"

Receive(d) ==
    /\ At(d, "receive") /\ process[d].said # NoIndex
    /\ LET outcome == Answer(process[d].said)
       IN  /\ Store(d, outcome)
           /\ MoveTo(d, After(outcome))
    /\ process' = [process EXCEPT ![d].said = NoIndex]
    /\ slots' = StoredSlots
    /\ UNCHANGED <<drawVars, consumerVars, faults>>

\* The pipe is broken, or ends before an answer.
LosesWorker(d) ==
    /\ At(d, "send") \/ (At(d, "receive") /\ process[d].said = NoIndex)
    /\ ~process[d].alive
    /\ Store(d, Exited)
    /\ MoveTo(d, "gone")
    /\ UNCHANGED <<slots, drawVars, consumerVars, process, faults>>

Drive(d) ==
    \/ AcquireSlot(d) \/ LeaveDrawing(d) \/ EnterDraw(d)
    \/ DrawJob(d) \/ DrawEnd(d) \/ Finish(d) \/ DrawRaises(d) \/ Report(d)
    \/ Send(d) \/ Receive(d) \/ LosesWorker(d)

-----------------------------------------------------------------------------
(* The worker processes, and what may go wrong.                            *)

Compute(d) ==
    /\ process[d].alive /\ process[d].got # NoIndex
    /\ process' = [process EXCEPT ![d].got = NoIndex, ![d].said = process[d].got]
    /\ UNCHANGED <<slots, drawVars, consumerVars, results, driver, faults>>

Fault(kind) == kind \in FaultKinds /\ faults < MaxFaults /\ faults' = faults + 1

Die(d) ==
    /\ Fault("death")
    /\ process[d].alive
    /\ process' = [process EXCEPT ![d].alive = FALSE, ![d].got = NoIndex]
    /\ UNCHANGED <<slots, drawVars, consumerVars, results, driver>>

\* drive ends with no answer stored and its slot taken.
Lose(d) ==
    /\ Fault("loss")
    /\ At(d, "send") \/ At(d, "receive")
    /\ MoveTo(d, "lost")
    /\ UNCHANGED <<slots, drawVars, consumerVars, results, process>>

-----------------------------------------------------------------------------
(* The consumer.                                                           *)

There == index \in DOMAIN results

Outcome == results[index]

\* Mutant: the slot of an answer never comes back.
TakenKeeps == slots
TakenSlot == slots + 1

Take ==
    /\ phase = "look" /\ There
    /\ results' = [i \in DOMAIN results \ {index} |-> results[i]]
    /\ slots' = TakenSlot
    /\ IF Outcome.kind = "ok"
       THEN /\ index' = index + 1
            /\ given' = Append(given, <<Head(pending), Outcome.job>>)
            /\ pending' = Tail(pending)
            /\ phase' = "caller"
       ELSE /\ phase' = "raise"
            /\ UNCHANGED <<index, given, pending>>
    /\ UNCHANGED <<jobs, lock, next, end, stop, driver, process, faults>>

LeaveWith(how) ==
    /\ phase' = how
    /\ UNCHANGED <<jobs, slots, drawVars, stop, results, driver, process, index, given, faults>>

\* Mutant: the end is reached when the last job is drawn.
EndDrawn   == end # NoEnd
EndReached == end # NoEnd /\ index >= end

Return == phase = "look" /\ ~There /\ EndReached /\ LeaveWith("return")

NoWorkerLeft ==
    /\ phase = "look" /\ ~There /\ ~EndReached
    /\ \A d \in Drivers : driver[d].at \in {"gone", "lost"}
    /\ LeaveWith("raise")

Resume == phase = "caller" /\ LeaveWith("look")

\* The caller stops half way: its own work on a batch raised.
Close == phase = "caller" /\ LeaveWith("close")

Over == CASE phase = "return" -> "returned" [] phase = "raise" -> "raised" [] OTHER -> "closed"

\* Mutant: nobody who waits for a slot is woken.
WakeNone == slots
WakeAll == slots + N

StopDrivers ==
    /\ phase \in {"return", "raise", "close"}
    /\ stop' = TRUE
    /\ slots' = WakeAll
    /\ phase' = Over
    /\ UNCHANGED <<jobs, drawVars, results, driver, process, index, given, faults>>

\* ProcessPool.__exit__: the workers are killed, or see the end of their input.
Exit ==
    /\ stop
    /\ \E d \in Drivers : process[d].alive
    /\ process' = [d \in Drivers |-> [process[d] EXCEPT !.alive = FALSE, !.got = NoIndex]]
    /\ UNCHANGED <<jobs, slots, drawVars, stop, results, driver, index, phase, given, faults>>

Consume == Take \/ Return \/ NoWorkerLeft \/ Resume \/ StopDrivers \/ Exit

-----------------------------------------------------------------------------

PoolNext ==
    \/ \E d \in Drivers : Drive(d) \/ Compute(d) \/ Die(d) \/ Lose(d)
    \/ Consume \/ Close

\* Threads and processes are scheduled; the caller comes back for more or
\* closes the generator.
Fairness ==
    /\ \A d \in Drivers : WF_poolVars(Drive(d)) /\ WF_poolVars(Compute(d))
    /\ WF_poolVars(Consume \/ Close)

PoolSpec == PoolInit /\ [][PoolNext]_poolVars /\ Fairness

-----------------------------------------------------------------------------
(* Properties.                                                             *)

Outcomes == [kind : {"ok", "error", "raise"}, job : 0..MaxJobs]

\* Every variable keeps its type; at most one driver is inside the lock.
PoolTypeOK ==
    /\ jobs \in [count : 0..MaxJobs, bad : SUBSET (1..MaxJobs), broken : BOOLEAN]
    /\ slots \in Nat /\ lock \subseteq Drivers /\ Cardinality(lock) <= 1
    /\ next \in 1..MaxJobs + 1 /\ end \in 1..NoEnd /\ stop \in BOOLEAN
    /\ DOMAIN results \subseteq 1..MaxJobs + 1
    /\ \A i \in DOMAIN results : results[i] \in Outcomes
    /\ driver \in [Drivers -> [at : {"slot", "draw", "drawing", "finish", "report", "send",
                                     "receive", "gone", "lost"},
                          has : 0..MaxJobs + 1, job : 0..MaxJobs]]
    /\ process \in [Drivers -> [alive : BOOLEAN, got : 0..MaxJobs, said : 0..MaxJobs]]
    /\ pending \in Seq(1..MaxJobs) /\ given \in Seq((1..MaxJobs) \X (0..MaxJobs))
    /\ index \in 1..MaxJobs + 1
    /\ phase \in {"look", "caller", "return", "raise", "close", "returned", "raised", "closed"}
    /\ faults \in Nat

\* Memory stays bounded however long the source is: jobs with a worker and
\* answers waiting to be taken are never more than the window.
WithinWindow ==
    Cardinality({d \in Drivers : driver[d].at \in {"send", "receive", "lost"}})
        + Cardinality(DOMAIN results) <= Window

\* Whatever happens to threads and processes, the caller gets what an ordered
\* map promises: the outcome of each batch beside that batch, nothing skipped,
\* no error before the results that precede it, no end before the last answer;
\* and it holds no more than the window while it reorders.
Ordered == INSTANCE OrderedMap WITH
    trouble <- faults > 0,
    ending <- CASE phase \in {"return", "returned"} -> "returned"
                [] phase \in {"raise", "raised"} -> "raised"
                [] phase \in {"close", "closed"} -> "closed"
                [] OTHER -> "open"

OrderIsKept == Ordered!MapSpec /\ []WithinWindow

\* However the map ends, no driver thread is left behind waiting for a slot, the
\* lock or a dead worker.
DriversEnd == stop ~> \A d \in Drivers : driver[d].at \in {"gone", "lost"}

\* The map ends, and its threads with it: the consumer never waits for an answer
\* nobody will give, unless a driver ended without storing one.
MapEnds ==
    /\ <>(phase \in {"returned", "raised", "closed"} \/ \E d \in Drivers : At(d, "lost"))
    /\ DriversEnd

=============================================================================
