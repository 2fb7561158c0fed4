--------------------------- MODULE ExecutionProofs ---------------------------
(* Theorems about the execution of stages: the process pool, resource       *)
(* plans, the attempts at a snapshot and the seeds posted to it afterwards. *)
(*                                                                          *)
(* ProcessPool keeps the promise of OrderedMap, for any drivers, window,    *)
(* source and faults.  MapInv says what the source, the drivers, their      *)
(* processes and the results have to do with each other; RoomInv counts     *)
(* the slots.  Each action keeps MapInv by a lemma of its own.              *)
(*                                                                          *)
(* For any evidence, machines, sizes, clients and seeds offered: plans fit  *)
(* by arithmetic.  Rows name their files because an attempt replaces a file *)
(* only while no row names it.  A post sees the committed seeds and its own *)
(* until it commits, since another one that has inserted holds the case in  *)
(* share mode: that is what the findings added and the columns written rest *)
(* on.                                                                      *)
EXTENDS ProcessPool, ReviewSeeds, FiniteSetTheorems, WellFoundedInduction, TLAPS

-----------------------------------------------------------------------------
(* ProcessPool: what every step keeps.                                      *)

DriverAt == {"slot", "draw", "drawing", "finish", "report", "send", "receive", "gone", "lost"}
Phases == {"look", "caller", "return", "raise", "close", "returned", "raised", "closed"}

DriverType == [at : DriverAt, has : 0..MaxJobs + 1, job : 0..MaxJobs]
ProcessType == [alive : BOOLEAN, got : 0..MaxJobs, said : 0..MaxJobs]

\* Every variable keeps its type.
SourceTyped ==
    /\ jobs \in [count : 0..MaxJobs, bad : SUBSET (1..MaxJobs), broken : BOOLEAN]
    /\ jobs.bad \subseteq 1..jobs.count
    /\ next \in 1..MaxJobs + 1 /\ end \in 1..NoEnd /\ index \in 1..MaxJobs + 1
    /\ pending \in Seq(1..MaxJobs) /\ given \in Seq((1..MaxJobs) \X (0..MaxJobs))
ThreadsTyped ==
    /\ slots \in Nat /\ lock \subseteq Drivers /\ stop \in BOOLEAN
    /\ driver \in [Drivers -> DriverType] /\ process \in [Drivers -> ProcessType]
    /\ phase \in Phases /\ faults \in Nat
ResultsTyped ==
    /\ DOMAIN results \subseteq 1..MaxJobs + 1
    /\ \A i \in DOMAIN results : results[i] \in Outcomes
Typed == SourceTyped /\ ThreadsTyped /\ ResultsTyped

\* The consumer is still at it.
Live == phase \in {"look", "caller"}

\* A driver has a job and will store its outcome.
Flying(d) == driver[d].at \in {"send", "receive"}

\* The caller's queue is what is drawn and not given, in order.
QueueInv ==
    /\ Drawn <= jobs.count /\ next = Drawn + 1
    /\ index = Len(given) + 1
    /\ \A k \in 1 .. Len(pending) : pending[k] = Len(given) + k

\* The end is set once, where the source ends or raises; an exception of the
\* source is kept for the consumer.
EndInv ==
    /\ stop <=> phase \in {"returned", "raised", "closed"}
    /\ end # NoEnd => Drawn = jobs.count /\ end = IF jobs.broken THEN Drawn + 2 ELSE Drawn + 1
    /\ end # NoEnd /\ jobs.broken /\ Live =>
           Drawn + 1 \in DOMAIN results \/ \E d \in Drivers : At(d, "report")

\* What an answer that waits to be taken may be.
Waiting(i) ==
    /\ i >= index
    /\ results[i].kind # "raise" => i <= Drawn
    /\ results[i].kind = "ok" => results[i].job = i /\ i \notin jobs.bad
    /\ results[i].kind = "error" => i \in jobs.bad \/ faults > 0 \/ stop
    /\ results[i].kind = "raise" => i > jobs.count /\ jobs.broken /\ end # NoEnd

ResultInv == \A i \in DOMAIN results : Waiting(i)

\* Why a driver may be gone for good.
Explained ==
    \/ end # NoEnd \/ faults > 0 \/ ~Live
    \/ \E i \in DOMAIN results : results[i].kind # "ok"

\* Where a driver is tells what it, the lock and its process have.
LockInv(d) ==
    /\ driver[d].at \in {"drawing", "report"} <=> d \in lock
    /\ driver[d].at \in {"drawing", "report"} => driver[d].has = next
    /\ driver[d].at = "drawing" => end = NoEnd
    /\ driver[d].at \in {"report", "finish"} => end # NoEnd
    /\ driver[d].at = "report" => jobs.broken

FlyInv(d) ==
    /\ Flying(d) => /\ driver[d].has = driver[d].job /\ driver[d].job \in index .. Drawn
                    /\ driver[d].has \notin DOMAIN results
    /\ driver[d].at = "lost" => faults > 0

GoneInv(d) == driver[d].at = "gone" => Explained

ProcessInv(d) ==
    /\ driver[d].at \notin {"receive", "lost"} => process[d].got = NoIndex /\ process[d].said = NoIndex
    /\ process[d].got # NoIndex => process[d].got = driver[d].job /\ process[d].said = NoIndex
    /\ process[d].said # NoIndex => process[d].said = driver[d].job
    /\ ~process[d].alive => process[d].got = NoIndex /\ (faults > 0 \/ stop)

\* One driver at most is inside the lock, and no two have the same job.
OneDraws == \A d, e \in lock : d = e
NoTwins == \A d, e \in Drivers : Flying(d) /\ Flying(e) /\ driver[d].has = driver[e].has => d = e

\* Nothing drawn is forgotten while nothing went wrong.
Whole ==
    faults = 0 /\ Live => \A i \in index .. Drawn :
        i \in DOMAIN results \/ \E d \in Drivers : Flying(d) /\ driver[d].has = i

\* Those who came by the semaphore and have not given their slot away, and those
\* of them who have passed the draw lock, which after the end nobody does.
Passed == {d \in Drivers : driver[d].at \in {"drawing", "finish", "report", "send", "receive", "lost"}}
Slotted ==
    {d \in Drivers :
        driver[d].at \in {"draw", "drawing", "finish", "report", "send", "receive", "lost"}}

RoomInv ==
    /\ ~stop => slots + Cardinality(Slotted) + Cardinality(DOMAIN results) <= Window
    /\ Cardinality(Passed) + Cardinality(DOMAIN results) <= Window

DriverInv(d) == LockInv(d) /\ FlyInv(d) /\ GoneInv(d) /\ ProcessInv(d)

MapInv ==
    /\ Typed /\ QueueInv /\ EndInv /\ ResultInv /\ OneDraws /\ NoTwins /\ Whole
    /\ \A d \in Drivers : DriverInv(d)

PoolInv == MapInv /\ RoomInv

-----------------------------------------------------------------------------
\* A driver that moves takes along what it has, and the others stay.
Moved(d, where) ==
    /\ driver' \in [Drivers -> DriverType]
    /\ driver'[d].at = where /\ driver'[d].has = driver[d].has /\ driver'[d].job = driver[d].job
    /\ \A e \in Drivers : e # d => driver'[e] = driver[e]

\* Where an action puts its driver.
LEMMA MoveMoves ==
    ASSUME Typed, NEW d \in Drivers, NEW where \in DriverAt, MoveTo(d, where)
    PROVE  Moved(d, where)
<1>1. driver \in [Drivers -> DriverType] BY DEF Typed, ThreadsTyped
<1> DEFINE r == [driver[d] EXCEPT !.at = where]
<1>2. r \in DriverType /\ r.at = where /\ r.has = driver[d].has /\ r.job = driver[d].job
  BY <1>1 DEF DriverType
<1>3. driver' = [driver EXCEPT ![d] = r] BY DEF MoveTo
<1> HIDE DEF r
<1> QED BY <1>1, <1>2, <1>3 DEF Moved

\* An outcome is put where its job is in the order.
Stored(d, outcome) ==
    /\ DOMAIN results' = DOMAIN results \cup {driver[d].has}
    /\ results'[driver[d].has] = outcome
    /\ \A i \in DOMAIN results : i # driver[d].has => results'[i] = results[i]

LEMMA StoreStores ==
    ASSUME Typed, NEW d \in Drivers, NEW outcome \in Outcomes, Store(d, outcome), driver[d].has # 0
    PROVE  /\ Stored(d, outcome)
           /\ DOMAIN results' \subseteq 1..MaxJobs + 1
           /\ \A i \in DOMAIN results' : results'[i] \in Outcomes
<1>1. driver[d].has \in 1..MaxJobs + 1 BY BoundsAssumption DEF Typed, ThreadsTyped, DriverType
<1>2. Stored(d, outcome) BY DEF Stored, Store
<1> QED BY <1>1, <1>2 DEF Stored, Typed, ResultsTyped

\* A driver that leaves the flight leaves an outcome behind, or a fault is known.
LEMMA WholeKept ==
    ASSUME Whole, faults' = 0 => faults = 0, Live' => Live, index' = index, Drawn' = Drawn,
           DOMAIN results \subseteq DOMAIN results',
           faults' = 0 => \A e \in Drivers : Flying(e) =>
               \/ driver[e].has \in DOMAIN results'
               \/ Flying(e)' /\ driver'[e].has = driver[e].has
    PROVE  Whole'
<1> SUFFICES ASSUME faults' = 0, Live', NEW i \in index .. Drawn
             PROVE  i \in DOMAIN results' \/ \E e \in Drivers : Flying(e)' /\ driver'[e].has = i
  BY DEF Whole
<1>1. i \in DOMAIN results \/ \E e \in Drivers : Flying(e) /\ driver[e].has = i
  BY DEF Whole
<1>2. CASE i \in DOMAIN results BY <1>2
<1>3. CASE \E e \in Drivers : Flying(e) /\ driver[e].has = i
  <2>1. PICK e \in Drivers : Flying(e) /\ driver[e].has = i BY <1>3
  <2> QED BY <2>1
<1> QED BY <1>1, <1>2, <1>3

\* Nobody joins the flight.
LEMMA TwinsKept ==
    ASSUME NoTwins,
           \A e \in Drivers : Flying(e)' => Flying(e) /\ driver'[e].has = driver[e].has
    PROVE  NoTwins'
  BY DEF NoTwins

LEMMA WaitingKept ==
    ASSUME ResultInv, results' = results, index' = index, Drawn' = Drawn, jobs' = jobs, stop' = stop,
           faults > 0 => faults' > 0, end # NoEnd => end' # NoEnd
    PROVE  ResultInv'
  BY DEF ResultInv, Waiting

\* What explains that a driver is gone goes on explaining it.
LEMMA ExplainedKept ==
    ASSUME Explained, end # NoEnd => end' # NoEnd, faults > 0 => faults' > 0, Live' => Live,
           Live' => \A i \in DOMAIN results : results[i].kind # "ok" =>
               i \in DOMAIN results' /\ results'[i] = results[i]
    PROVE  Explained'
  BY DEF Explained

LEMMA EndKept ==
    ASSUME EndInv, jobs' = jobs, end' = end, Drawn' = Drawn, stop' = stop, phase' = phase,
           DOMAIN results \subseteq DOMAIN results',
           \A e \in Drivers : At(e, "report") =>
               At(e, "report")' \/ Drawn + 1 \in DOMAIN results'
    PROVE  EndInv'
<1>1. (end # NoEnd /\ jobs.broken /\ Live)' =>
          (Drawn + 1 \in DOMAIN results)' \/ \E e \in Drivers : At(e, "report")'
  <2> SUFFICES ASSUME (end # NoEnd /\ jobs.broken /\ Live)'
               PROVE  (Drawn + 1 \in DOMAIN results)' \/ \E e \in Drivers : At(e, "report")'
    OBVIOUS
  <2>1. Drawn + 1 \in DOMAIN results \/ \E e \in Drivers : At(e, "report")
    BY DEF EndInv, Live, NoEnd
  <2>2. CASE Drawn + 1 \in DOMAIN results BY <2>2
  <2>3. CASE \E e \in Drivers : At(e, "report")
    <3>1. PICK e \in Drivers : At(e, "report") BY <2>3
    <3> QED BY <3>1
  <2> QED BY <2>1, <2>2, <2>3
<1> QED BY <1>1 DEF EndInv, NoEnd

\* What a step of a driver may not do to the others.
Beside(d) ==
    /\ jobs' = jobs /\ index' = index /\ Drawn <= Drawn' /\ (stop => stop') /\ (faults > 0 => faults' > 0)
    /\ Explained => Explained'
    /\ end # NoEnd => end' # NoEnd
    /\ \A e \in Drivers \ {d} :
           /\ driver'[e] = driver[e] /\ process'[e] = process[e] /\ (e \in lock' <=> e \in lock)
           /\ e \in lock => next' = next /\ end' = end
           /\ Flying(e) => driver[e].has \notin DOMAIN results'

LEMMA OthersKept ==
    ASSUME Typed, NEW d \in Drivers, \A e \in Drivers : DriverInv(e), Beside(d),
           Drawn \in Nat, Drawn' \in Nat, DriverInv(d)'
    PROVE  \A e \in Drivers : DriverInv(e)'
<1> SUFFICES ASSUME NEW e \in Drivers, e # d PROVE DriverInv(e)'
  OBVIOUS
<1>1. DriverInv(e) /\ driver'[e] = driver[e] /\ process'[e] = process[e] /\ (e \in lock' <=> e \in lock)
  BY DEF Beside
<1>2. LockInv(e)' BY <1>1 DEF LockInv, Beside, DriverInv, NoEnd
<1>3. FlyInv(e)'
  <2>1. driver[e].job \in Nat /\ index \in Nat
    BY DEF Typed, ThreadsTyped, SourceTyped, DriverType
  <2> QED BY <1>1, <2>1 DEF FlyInv, Flying, Beside, DriverInv
<1>4. GoneInv(e)' BY <1>1 DEF GoneInv, Beside, DriverInv
<1>5. ProcessInv(e)' BY <1>1 DEF ProcessInv, Beside, DriverInv, NoIndex
<1> QED BY <1>2, <1>3, <1>4, <1>5 DEF DriverInv

-----------------------------------------------------------------------------
(* The steps of a driver and of its process, one lemma each: the parts of    *)
(* the invariant that speak of the source and of the results, then what the  *)
(* others see of the step, then where the driver itself has come to.         *)

LEMMA AcquireSlotKeeps ==
    ASSUME MapInv, NEW d \in Drivers, AcquireSlot(d)
    PROVE  MapInv'
<1> USE BoundsAssumption DEF At, drawVars, consumerVars, NoIndex, NoEnd, Fault, LockFree
<1>1. /\ Typed /\ SourceTyped /\ ThreadsTyped /\ ResultsTyped /\ \A e \in Drivers : DriverInv(e)
      /\ DriverInv(d) /\ Drawn \in Nat
  BY DEF MapInv, Typed, Drawn
<1>2. "draw" \in DriverAt BY DEF DriverAt
<1>3. Moved(d, "draw") BY <1>1, <1>2, MoveMoves DEF AcquireSlot
<1>4. SourceTyped' BY <1>1 DEF AcquireSlot, SourceTyped
<1>5. ThreadsTyped' BY <1>1, <1>3 DEF AcquireSlot, Moved, ThreadsTyped
<1>6. ResultsTyped' BY <1>1 DEF AcquireSlot, ResultsTyped
<1>7. QueueInv' BY <1>1 DEF AcquireSlot, MapInv, QueueInv, Drawn
<1>8. EndInv' BY <1>1, <1>3, EndKept DEF AcquireSlot, Moved, MapInv, Drawn
<1>9. ResultInv' BY <1>1 DEF AcquireSlot, MapInv, ResultInv, Waiting, Drawn
<1>10. OneDraws' BY <1>1 DEF AcquireSlot, MapInv, OneDraws
<1>11. NoTwins' BY <1>1, <1>3, TwinsKept DEF Moved, MapInv, Flying
<1>12. Whole' BY <1>1, <1>3, WholeKept DEF AcquireSlot, Moved, MapInv, Flying, Live, Drawn
<1>13. Explained => Explained' BY <1>1, ExplainedKept DEF AcquireSlot, Live
<1>14. Beside(d) BY <1>1, <1>3, <1>13 DEF AcquireSlot, Moved, Beside, DriverInv, FlyInv, Drawn
<1>15. LockInv(d)' BY <1>1, <1>3 DEF AcquireSlot, Moved, LockInv, DriverInv
<1>16. FlyInv(d)' BY <1>1, <1>3 DEF Moved, FlyInv, Flying
<1>17. GoneInv(d)' BY <1>1, <1>3 DEF Moved, GoneInv
<1>18. ProcessInv(d)' BY <1>1 DEF AcquireSlot, ProcessInv, DriverInv
<1>19. \A e \in Drivers : DriverInv(e)'
  <2>1. DriverInv(d)' BY <1>15, <1>16, <1>17, <1>18 DEF DriverInv
  <2>2. (Drawn \in Nat)' BY DEF Drawn
  <2> QED BY <1>1, <1>14, <2>1, <2>2, OthersKept
<1> QED BY <1>4, <1>5, <1>6, <1>7, <1>8, <1>9, <1>10, <1>11, <1>12, <1>19 DEF Typed, MapInv

LEMMA LeaveDrawingKeeps ==
    ASSUME MapInv, NEW d \in Drivers, LeaveDrawing(d)
    PROVE  MapInv'
<1> USE BoundsAssumption DEF At, drawVars, consumerVars, NoIndex, NoEnd, Fault, LockFree
<1>1. /\ Typed /\ SourceTyped /\ ThreadsTyped /\ ResultsTyped /\ \A e \in Drivers : DriverInv(e)
      /\ DriverInv(d) /\ Drawn \in Nat
  BY DEF MapInv, Typed, Drawn
<1>2. "gone" \in DriverAt BY DEF DriverAt
<1>3. Moved(d, "gone") BY <1>1, <1>2, MoveMoves DEF LeaveDrawing
<1>4. SourceTyped' BY <1>1 DEF LeaveDrawing, SourceTyped
<1>5. ThreadsTyped' BY <1>1, <1>3 DEF LeaveDrawing, Moved, ThreadsTyped, SlotsBack
<1>6. ResultsTyped' BY <1>1 DEF LeaveDrawing, ResultsTyped
<1>7. QueueInv' BY <1>1 DEF LeaveDrawing, MapInv, QueueInv, Drawn
<1>8. EndInv' BY <1>1, <1>3, EndKept DEF LeaveDrawing, Moved, MapInv, Drawn
<1>9. ResultInv' BY <1>1 DEF LeaveDrawing, MapInv, ResultInv, Waiting, Drawn
<1>10. OneDraws' BY <1>1 DEF LeaveDrawing, OneDraws
<1>11. NoTwins' BY <1>1, <1>3, TwinsKept DEF Moved, MapInv, Flying
<1>12. Whole' BY <1>1, <1>3, WholeKept DEF LeaveDrawing, Moved, MapInv, Flying, Live, Drawn
<1>13. Explained => Explained' BY <1>1, ExplainedKept DEF LeaveDrawing, Live
<1>14. Beside(d) BY <1>1, <1>3, <1>13 DEF LeaveDrawing, Moved, Beside, DriverInv, FlyInv, Drawn
<1>15. LockInv(d)' BY <1>1, <1>3 DEF LeaveDrawing, Moved, LockInv
<1>16. FlyInv(d)' BY <1>1, <1>3 DEF Moved, FlyInv, Flying
<1>17. GoneInv(d)' BY <1>1 DEF LeaveDrawing, GoneInv, Explained, MapInv, EndInv, Live
<1>18. ProcessInv(d)' BY <1>1 DEF LeaveDrawing, ProcessInv, DriverInv
<1>19. \A e \in Drivers : DriverInv(e)'
  <2>1. DriverInv(d)' BY <1>15, <1>16, <1>17, <1>18 DEF DriverInv
  <2>2. (Drawn \in Nat)' BY DEF Drawn
  <2> QED BY <1>1, <1>14, <2>1, <2>2, OthersKept
<1> QED BY <1>4, <1>5, <1>6, <1>7, <1>8, <1>9, <1>10, <1>11, <1>12, <1>19 DEF Typed, MapInv

LEMMA EnterDrawKeeps ==
    ASSUME MapInv, NEW d \in Drivers, EnterDraw(d)
    PROVE  MapInv'
<1> USE BoundsAssumption DEF At, drawVars, consumerVars, NoIndex, NoEnd, Fault, LockFree
<1>1. /\ Typed /\ SourceTyped /\ ThreadsTyped /\ ResultsTyped /\ \A e \in Drivers : DriverInv(e)
      /\ DriverInv(d) /\ Drawn \in Nat
  BY DEF MapInv, Typed, Drawn
<1> DEFINE r == [driver[d] EXCEPT !.at = "drawing", !.has = next]
<1>2. /\ driver[d] \in DriverType /\ next \in 0..MaxJobs + 1
  BY <1>1 DEF ThreadsTyped, SourceTyped
<1>3. r \in DriverType /\ r.at = "drawing" /\ r.has = next /\ r.job = driver[d].job
  BY <1>2 DEF DriverType, DriverAt
<1>4. driver' = [driver EXCEPT ![d] = r]
  BY <1>1 DEF EnterDraw
<1> HIDE DEF r
<1>5. /\ driver' \in [Drivers -> DriverType] /\ driver'[d] = r
      /\ (\A e \in Drivers : e # d => driver'[e] = driver[e])
      /\ r.at = "drawing" /\ r.has = next /\ r.job = driver[d].job
  BY <1>1, <1>3, <1>4 DEF ThreadsTyped
<1>6. SourceTyped' BY <1>1 DEF EnterDraw, SourceTyped
<1>7. ThreadsTyped' BY <1>1, <1>5 DEF EnterDraw, ThreadsTyped
<1>8. ResultsTyped' BY <1>1 DEF EnterDraw, ResultsTyped
<1>9. QueueInv' BY <1>1 DEF EnterDraw, MapInv, QueueInv, Drawn
<1>10. EndInv' BY <1>1 DEF EnterDraw, MapInv, EndInv
<1>11. ResultInv' BY <1>1 DEF EnterDraw, MapInv, ResultInv, Waiting, Drawn
<1>12. OneDraws' BY <1>1 DEF EnterDraw, OneDraws
<1>13. NoTwins' BY <1>1, <1>5, TwinsKept DEF MapInv, Flying
<1>14. Whole' BY <1>1, <1>5, WholeKept DEF EnterDraw, MapInv, Flying, Live, Drawn
<1>15. Explained => Explained' BY <1>1, ExplainedKept DEF EnterDraw, Live
<1>16. Beside(d) BY <1>1, <1>5, <1>15 DEF EnterDraw, Beside, DriverInv, FlyInv, Drawn
<1>17. LockInv(d)' BY <1>1, <1>5 DEF EnterDraw, LockInv
<1>18. FlyInv(d)' BY <1>1, <1>5 DEF FlyInv, Flying
<1>19. GoneInv(d)' BY <1>1, <1>5 DEF GoneInv
<1>20. ProcessInv(d)' BY <1>1 DEF EnterDraw, ProcessInv, DriverInv
<1>21. \A e \in Drivers : DriverInv(e)'
  <2>1. DriverInv(d)' BY <1>17, <1>18, <1>19, <1>20 DEF DriverInv
  <2>2. (Drawn \in Nat)' BY DEF Drawn
  <2> QED BY <1>1, <1>16, <2>1, <2>2, OthersKept
<1> QED BY <1>6, <1>7, <1>8, <1>9, <1>10, <1>11, <1>12, <1>13, <1>14, <1>21 DEF Typed, MapInv

LEMMA DrawJobKeeps ==
    ASSUME MapInv, NEW d \in Drivers, DrawJob(d)
    PROVE  MapInv'
<1> USE BoundsAssumption DEF At, drawVars, consumerVars, NoIndex, NoEnd, Fault, LockFree
<1>1. /\ Typed /\ SourceTyped /\ ThreadsTyped /\ ResultsTyped /\ \A e \in Drivers : DriverInv(e)
      /\ DriverInv(d) /\ Drawn \in Nat
  BY DEF MapInv, Typed, Drawn
<1> DEFINE r == [driver[d] EXCEPT !.at = "send", !.job = Drawn + 1]
<1>2. /\ driver[d] \in DriverType /\ next \in 0..MaxJobs + 1
  BY <1>1 DEF ThreadsTyped, SourceTyped
<1>3. Drawn + 1 \in 0..MaxJobs BY <1>1 DEF SourceTyped, DrawJob
<1>4. r \in DriverType /\ r.at = "send" /\ r.has = driver[d].has /\ r.job = Drawn + 1
  BY <1>2, <1>3 DEF DriverType, DriverAt
<1>5. driver' = [driver EXCEPT ![d] = r]
  BY <1>1 DEF DrawJob
<1> HIDE DEF r
<1>6. /\ driver' \in [Drivers -> DriverType] /\ driver'[d] = r
      /\ (\A e \in Drivers : e # d => driver'[e] = driver[e])
      /\ r.at = "send" /\ r.has = driver[d].has /\ r.job = Drawn + 1
  BY <1>1, <1>4, <1>5 DEF ThreadsTyped
<1>7. /\ Drawn' = Drawn + 1 /\ Len(pending') = Len(pending) + 1
      /\ \A k \in 1 .. Len(pending) : pending'[k] = pending[k]
      /\ pending'[Len(pending) + 1] = Drawn + 1 /\ pending' \in Seq(1..MaxJobs)
  BY <1>1 DEF DrawJob, SourceTyped, Drawn
<1>8. /\ driver[d].has = Drawn + 1 /\ Drawn < jobs.count /\ index \in Nat /\ index <= Drawn + 1
       /\ jobs.count \in Nat /\ end = NoEnd
  BY <1>1 DEF DrawJob, MapInv, QueueInv, LockInv, DriverInv, SourceTyped, Drawn
<1>9. Drawn + 1 \notin DOMAIN results
  <2> SUFFICES ASSUME Drawn + 1 \in DOMAIN results PROVE FALSE
    OBVIOUS
  <2>1. Waiting(Drawn + 1) BY DEF MapInv, ResultInv
  <2> QED BY <1>1, <1>8, <2>1 DEF Waiting
<1>10. SourceTyped'
  <2>0. UNCHANGED <<jobs, end, index, given>> /\ next' = driver[d].has + 1 BY DEF DrawJob
  <2>1. next' = Drawn + 2 /\ UNCHANGED <<jobs, end, index, given>> BY <1>1, <1>8, <2>0
  <2>2. next' \in 1..MaxJobs + 1 BY <1>1, <1>8, <2>1 DEF SourceTyped
  <2> QED BY <1>1, <1>7, <2>1, <2>2 DEF SourceTyped
<1>11. ThreadsTyped' BY <1>1, <1>6 DEF DrawJob, ThreadsTyped
<1>12. ResultsTyped' BY <1>1 DEF DrawJob, ResultsTyped
<1>13. QueueInv'
  <2>1. \A k \in 1 .. Len(pending') : pending'[k] = Len(given') + k
    <3> SUFFICES ASSUME NEW k \in 1 .. Len(pending') PROVE pending'[k] = Len(given) + k
      BY DEF DrawJob
    <3>1. Len(pending) \in Nat /\ Len(given) \in Nat BY <1>1
    <3>2. CASE k \in 1 .. Len(pending) BY <1>7, <3>2 DEF MapInv, QueueInv
    <3>3. CASE k = Len(pending) + 1 BY <1>7, <3>3 DEF Drawn
    <3> QED BY <1>7, <3>1, <3>2, <3>3
  <2>2. next' = Drawn' + 1 /\ Drawn' <= jobs'.count BY <1>1, <1>7, <1>8 DEF DrawJob
  <2>3. index' = Len(given') + 1 BY DEF DrawJob, MapInv, QueueInv
  <2> QED BY <2>1, <2>2, <2>3 DEF QueueInv
<1>14. EndInv' BY <1>1 DEF DrawJob, MapInv, EndInv
<1>15. ResultInv'
  <2> SUFFICES ASSUME NEW i \in DOMAIN results PROVE Waiting(i)'
    BY DEF ResultInv, DrawJob
  <2>1. Waiting(i) /\ i \in Nat BY <1>1 DEF MapInv, ResultInv, ResultsTyped
  <2> QED BY <1>1, <1>7, <2>1 DEF DrawJob, Waiting
<1>16. OneDraws' BY <1>1 DEF DrawJob, MapInv, OneDraws
<1>17. NoTwins'
  <2>1. \A e \in Drivers : e # d /\ Flying(e) => driver[e].has \in index .. Drawn
    BY <1>1 DEF DriverInv, FlyInv
  <2> QED BY <1>1, <1>6, <1>8, <2>1 DEF MapInv, NoTwins, Flying
<1>18. Whole'
  <2> SUFFICES ASSUME faults = 0, Live, NEW i \in index .. Drawn'
               PROVE  i \in DOMAIN results \/ \E e \in Drivers : Flying(e)' /\ driver'[e].has = i
    BY DEF Whole, DrawJob, Live
  <2>1. CASE i = Drawn + 1 BY <1>6, <1>8, <2>1 DEF Flying
  <2>2. CASE i \in index .. Drawn
    <3>1. i \in DOMAIN results \/ \E e \in Drivers : Flying(e) /\ driver[e].has = i
      BY <2>2 DEF MapInv, Whole
    <3>2. \A e \in Drivers : Flying(e) => Flying(e)' /\ driver'[e] = driver[e]
      BY <1>6 DEF Flying, DrawJob
    <3> QED BY <3>1, <3>2
  <2> QED BY <1>1, <1>7, <1>8, <2>1, <2>2
<1>19. Explained => Explained' BY <1>1, ExplainedKept DEF DrawJob, Live
<1>20. Beside(d)
  BY <1>1, <1>6, <1>7, <1>19 DEF DrawJob, Beside, MapInv, DriverInv, LockInv, FlyInv, OneDraws
<1>21. LockInv(d)' BY <1>1, <1>6 DEF DrawJob, LockInv
<1>22. FlyInv(d)' BY <1>1, <1>6, <1>7, <1>8, <1>9 DEF DrawJob, FlyInv
<1>23. GoneInv(d)' BY <1>1, <1>6 DEF GoneInv
<1>24. ProcessInv(d)' BY <1>1 DEF DrawJob, ProcessInv, DriverInv
<1>25. \A e \in Drivers : DriverInv(e)'
  <2>1. DriverInv(d)' BY <1>21, <1>22, <1>23, <1>24 DEF DriverInv
  <2>2. (Drawn \in Nat)' BY DEF Drawn
  <2> QED BY <1>1, <1>20, <2>1, <2>2, OthersKept
<1> QED BY <1>10, <1>11, <1>12, <1>13, <1>14, <1>15, <1>16, <1>17, <1>18, <1>25 DEF Typed, MapInv

LEMMA DrawEndKeeps ==
    ASSUME MapInv, NEW d \in Drivers, DrawEnd(d)
    PROVE  MapInv'
<1> USE BoundsAssumption DEF At, drawVars, consumerVars, NoIndex, NoEnd, Fault, LockFree
<1>1. /\ Typed /\ SourceTyped /\ ThreadsTyped /\ ResultsTyped /\ \A e \in Drivers : DriverInv(e)
      /\ DriverInv(d) /\ Drawn \in Nat
  BY DEF MapInv, Typed, Drawn
<1>2. "finish" \in DriverAt BY DEF DriverAt
<1>3. Moved(d, "finish") BY <1>1, <1>2, MoveMoves DEF DrawEnd
<1>4. SourceTyped' BY <1>1 DEF DrawEnd, SourceTyped, DriverInv, LockInv
<1>5. ThreadsTyped' BY <1>1, <1>3 DEF DrawEnd, Moved, ThreadsTyped
<1>6. ResultsTyped' BY <1>1 DEF DrawEnd, ResultsTyped
<1>7. QueueInv' BY <1>1 DEF DrawEnd, MapInv, QueueInv, Drawn
<1>8. EndInv' BY <1>1 DEF DrawEnd, MapInv, EndInv, QueueInv, DriverInv, LockInv, Drawn
<1>9. ResultInv' BY <1>1 DEF DrawEnd, MapInv, ResultInv, Waiting, Drawn
<1>10. OneDraws' BY <1>1 DEF DrawEnd, MapInv, OneDraws
<1>11. NoTwins' BY <1>1, <1>3, TwinsKept DEF Moved, MapInv, Flying
<1>12. Whole' BY <1>1, <1>3, WholeKept DEF DrawEnd, Moved, MapInv, Flying, Live, Drawn
<1>13. Explained => Explained' BY <1>1, ExplainedKept DEF DrawEnd, Live, DriverInv, LockInv
<1>14. Beside(d)
  BY <1>1, <1>3, <1>13 DEF DrawEnd, Moved, Beside, MapInv, DriverInv, LockInv, FlyInv, OneDraws, Drawn
<1>15. LockInv(d)' BY <1>1, <1>3 DEF DrawEnd, Moved, LockInv, DriverInv, SourceTyped
<1>16. FlyInv(d)' BY <1>1, <1>3 DEF Moved, FlyInv, Flying
<1>17. GoneInv(d)' BY <1>1, <1>3 DEF Moved, GoneInv
<1>18. ProcessInv(d)' BY <1>1 DEF DrawEnd, ProcessInv, DriverInv
<1>19. \A e \in Drivers : DriverInv(e)'
  <2>1. DriverInv(d)' BY <1>15, <1>16, <1>17, <1>18 DEF DriverInv
  <2>2. (Drawn \in Nat)' BY DEF Drawn
  <2> QED BY <1>1, <1>14, <2>1, <2>2, OthersKept
<1> QED BY <1>4, <1>5, <1>6, <1>7, <1>8, <1>9, <1>10, <1>11, <1>12, <1>19 DEF Typed, MapInv

LEMMA FinishKeeps ==
    ASSUME MapInv, NEW d \in Drivers, Finish(d)
    PROVE  MapInv'
<1> USE BoundsAssumption DEF At, drawVars, consumerVars, NoIndex, NoEnd, Fault, LockFree
<1>1. /\ Typed /\ SourceTyped /\ ThreadsTyped /\ ResultsTyped /\ \A e \in Drivers : DriverInv(e)
      /\ DriverInv(d) /\ Drawn \in Nat
  BY DEF MapInv, Typed, Drawn
<1>2. "gone" \in DriverAt BY DEF DriverAt
<1>3. Moved(d, "gone") BY <1>1, <1>2, MoveMoves DEF Finish
<1>4. SourceTyped' BY <1>1 DEF Finish, SourceTyped
<1>5. ThreadsTyped' BY <1>1, <1>3 DEF Finish, Moved, ThreadsTyped, SlotsBack
<1>6. ResultsTyped' BY <1>1 DEF Finish, ResultsTyped
<1>7. QueueInv' BY <1>1 DEF Finish, MapInv, QueueInv, Drawn
<1>8. EndInv' BY <1>1, <1>3, EndKept DEF Finish, Moved, MapInv, Drawn
<1>9. ResultInv' BY <1>1 DEF Finish, MapInv, ResultInv, Waiting, Drawn
<1>10. OneDraws' BY <1>1 DEF Finish, MapInv, OneDraws
<1>11. NoTwins' BY <1>1, <1>3, TwinsKept DEF Moved, MapInv, Flying
<1>12. Whole' BY <1>1, <1>3, WholeKept DEF Finish, Moved, MapInv, Flying, Live, Drawn
<1>13. Explained => Explained' BY <1>1, ExplainedKept DEF Finish, Live
<1>14. Beside(d) BY <1>1, <1>3, <1>13 DEF Finish, Moved, Beside, DriverInv, FlyInv, Drawn
<1>15. LockInv(d)' BY <1>1, <1>3 DEF Finish, Moved, LockInv, DriverInv
<1>16. FlyInv(d)' BY <1>1, <1>3 DEF Moved, FlyInv, Flying
<1>17. GoneInv(d)' BY <1>1 DEF Finish, GoneInv, Explained, DriverInv, LockInv
<1>18. ProcessInv(d)' BY <1>1 DEF Finish, ProcessInv, DriverInv
<1>19. \A e \in Drivers : DriverInv(e)'
  <2>1. DriverInv(d)' BY <1>15, <1>16, <1>17, <1>18 DEF DriverInv
  <2>2. (Drawn \in Nat)' BY DEF Drawn
  <2> QED BY <1>1, <1>14, <2>1, <2>2, OthersKept
<1> QED BY <1>4, <1>5, <1>6, <1>7, <1>8, <1>9, <1>10, <1>11, <1>12, <1>19 DEF Typed, MapInv

LEMMA DrawRaisesKeeps ==
    ASSUME MapInv, NEW d \in Drivers, DrawRaises(d)
    PROVE  MapInv'
<1> USE BoundsAssumption DEF At, drawVars, consumerVars, NoIndex, NoEnd, Fault, LockFree
<1>1. /\ Typed /\ SourceTyped /\ ThreadsTyped /\ ResultsTyped /\ \A e \in Drivers : DriverInv(e)
      /\ DriverInv(d) /\ Drawn \in Nat
  BY DEF MapInv, Typed, Drawn
<1>2. "report" \in DriverAt BY DEF DriverAt
<1>3. Moved(d, "report") BY <1>1, <1>2, MoveMoves DEF DrawRaises
<1>4. SourceTyped' BY <1>1 DEF DrawRaises, SourceTyped, DriverInv, LockInv
<1>5. ThreadsTyped' BY <1>1, <1>3 DEF DrawRaises, Moved, ThreadsTyped
<1>6. ResultsTyped' BY <1>1 DEF DrawRaises, ResultsTyped
<1>7. QueueInv' BY <1>1 DEF DrawRaises, MapInv, QueueInv, Drawn
<1>8. EndInv' BY <1>1, <1>3 DEF DrawRaises, Moved, MapInv, EndInv, QueueInv, DriverInv, LockInv, Drawn
<1>9. ResultInv' BY <1>1 DEF DrawRaises, MapInv, ResultInv, Waiting, DriverInv, LockInv, Drawn
<1>10. OneDraws' BY <1>1 DEF DrawRaises, MapInv, OneDraws
<1>11. NoTwins' BY <1>1, <1>3, TwinsKept DEF Moved, MapInv, Flying
<1>12. Whole' BY <1>1, <1>3, WholeKept DEF DrawRaises, Moved, MapInv, Flying, Live, Drawn
<1>13. Explained => Explained' BY <1>1, ExplainedKept DEF DrawRaises, Live, DriverInv, LockInv
<1>14. Beside(d)
  BY <1>1, <1>3, <1>13 DEF DrawRaises, Moved, Beside, MapInv, DriverInv, LockInv, FlyInv, OneDraws, Drawn
<1>15. LockInv(d)' BY <1>1, <1>3 DEF DrawRaises, Moved, LockInv, DriverInv, SourceTyped
<1>16. FlyInv(d)' BY <1>1, <1>3 DEF Moved, FlyInv, Flying
<1>17. GoneInv(d)' BY <1>1, <1>3 DEF Moved, GoneInv
<1>18. ProcessInv(d)' BY <1>1 DEF DrawRaises, ProcessInv, DriverInv
<1>19. \A e \in Drivers : DriverInv(e)'
  <2>1. DriverInv(d)' BY <1>15, <1>16, <1>17, <1>18 DEF DriverInv
  <2>2. (Drawn \in Nat)' BY DEF Drawn
  <2> QED BY <1>1, <1>14, <2>1, <2>2, OthersKept
<1> QED BY <1>4, <1>5, <1>6, <1>7, <1>8, <1>9, <1>10, <1>11, <1>12, <1>19 DEF Typed, MapInv

LEMMA ReportKeeps ==
    ASSUME MapInv, NEW d \in Drivers, Report(d)
    PROVE  MapInv'
<1> USE BoundsAssumption DEF At, drawVars, consumerVars, NoIndex, NoEnd, Fault, LockFree
<1>1. /\ Typed /\ SourceTyped /\ ThreadsTyped /\ ResultsTyped /\ \A e \in Drivers : DriverInv(e)
      /\ DriverInv(d) /\ Drawn \in Nat
  BY DEF MapInv, Typed, Drawn
<1>2. "gone" \in DriverAt BY DEF DriverAt
<1>3. Moved(d, "gone") BY <1>1, <1>2, MoveMoves DEF Report
<1>4. driver[d].has # 0 /\ Raised \in Outcomes
  BY <1>1 DEF MapInv, QueueInv, DriverInv, LockInv, Outcomes, Raised, Report
<1>5. Stored(d, Raised) /\ ResultsTyped' BY <1>1, <1>4, StoreStores DEF Report, ResultsTyped
<1>6. SourceTyped' BY <1>1 DEF Report, SourceTyped
<1>7. ThreadsTyped' BY <1>1, <1>3 DEF Report, Moved, ThreadsTyped
<1>8. ResultsTyped' BY <1>1, <1>5
<1>9. QueueInv' BY <1>1 DEF Report, MapInv, QueueInv, Drawn
<1>10. EndInv' BY <1>1, <1>5, EndKept DEF Report, Stored, MapInv, QueueInv, DriverInv, LockInv, Drawn
<1>11. ResultInv'
  BY <1>1, <1>3, <1>5 DEF Report, Stored, Raised, MapInv, ResultInv, Waiting, QueueInv, EndInv, DriverInv,
                          LockInv, SourceTyped, Drawn
<1>12. OneDraws' BY <1>1 DEF Report, MapInv, OneDraws
<1>13. NoTwins' BY <1>1, <1>3, TwinsKept DEF Moved, MapInv, Flying
<1>14. Whole' BY <1>1, <1>3, <1>5, WholeKept DEF Report, Moved, Stored, MapInv, Flying, Live, Drawn
<1>15. Explained => Explained' BY <1>5 DEF Explained, Stored, Raised
<1>16. Beside(d)
  BY <1>1, <1>3, <1>5, <1>15 DEF Report, Moved, Stored, Beside, MapInv, DriverInv, LockInv, FlyInv,
                                 QueueInv, Drawn
<1>17. LockInv(d)' BY <1>1, <1>3 DEF Report, Moved, LockInv
<1>18. FlyInv(d)' BY <1>1, <1>3 DEF Moved, FlyInv, Flying
<1>19. GoneInv(d)' BY <1>1, <1>5 DEF Stored, Raised, GoneInv, Explained
<1>20. ProcessInv(d)' BY <1>1 DEF Report, ProcessInv, DriverInv
<1>21. \A e \in Drivers : DriverInv(e)'
  <2>1. DriverInv(d)' BY <1>17, <1>18, <1>19, <1>20 DEF DriverInv
  <2>2. (Drawn \in Nat)' BY DEF Drawn
  <2> QED BY <1>1, <1>16, <2>1, <2>2, OthersKept
<1> QED BY <1>6, <1>7, <1>8, <1>9, <1>10, <1>11, <1>12, <1>13, <1>14, <1>21 DEF Typed, MapInv

LEMMA SendKeeps ==
    ASSUME MapInv, NEW d \in Drivers, Send(d)
    PROVE  MapInv'
<1> USE BoundsAssumption DEF At, drawVars, consumerVars, NoIndex, NoEnd, Fault, LockFree
<1>1. /\ Typed /\ SourceTyped /\ ThreadsTyped /\ ResultsTyped /\ \A e \in Drivers : DriverInv(e)
      /\ DriverInv(d) /\ Drawn \in Nat
  BY DEF MapInv, Typed, Drawn
<1>2. "receive" \in DriverAt BY DEF DriverAt
<1>3. Moved(d, "receive") BY <1>1, <1>2, MoveMoves DEF Send
<1> DEFINE p == [process[d] EXCEPT !.got = driver[d].job]
<1>4. /\ process[d] \in ProcessType /\ process[d].got \in 0..MaxJobs /\ process[d].said \in 0..MaxJobs
      /\ driver[d].job \in 0..MaxJobs /\ 0 \in 0..MaxJobs
  BY <1>1 DEF ThreadsTyped, ProcessType, DriverType
<1>5. p \in ProcessType /\ p.alive = process[d].alive /\ p.got = driver[d].job /\ p.said = process[d].said
  BY <1>4 DEF ProcessType
<1>6. process' = [process EXCEPT ![d] = p] BY <1>1 DEF Send
<1> HIDE DEF p
<1>7. /\ process' \in [Drivers -> ProcessType] /\ process'[d] = p
      /\ (\A e \in Drivers : e # d => process'[e] = process[e])
  BY <1>1, <1>5, <1>6 DEF ThreadsTyped
<1>8. SourceTyped' BY <1>1 DEF Send, SourceTyped
<1>9. ThreadsTyped' BY <1>1, <1>3, <1>7 DEF Send, Moved, ThreadsTyped
<1>10. ResultsTyped' BY <1>1 DEF Send, ResultsTyped
<1>11. QueueInv' BY <1>1 DEF Send, MapInv, QueueInv, Drawn
<1>12. EndInv' BY <1>1, <1>3, EndKept DEF Send, Moved, MapInv, Drawn
<1>13. ResultInv' BY <1>1 DEF Send, MapInv, ResultInv, Waiting, Drawn
<1>14. OneDraws' BY <1>1 DEF Send, MapInv, OneDraws
<1>15. NoTwins' BY <1>1, <1>3, TwinsKept DEF Send, Moved, MapInv, Flying
<1>16. Whole' BY <1>1, <1>3, WholeKept DEF Send, Moved, MapInv, Flying, Live, Drawn
<1>17. Explained => Explained' BY <1>1, ExplainedKept DEF Send, Live
<1>18. Beside(d) BY <1>1, <1>3, <1>17 DEF Send, Moved, Beside, DriverInv, FlyInv, Drawn
<1>19. LockInv(d)' BY <1>1, <1>3 DEF Send, Moved, LockInv, DriverInv
<1>20. FlyInv(d)' BY <1>1, <1>3 DEF Send, Moved, FlyInv, Flying, DriverInv, Drawn
<1>21. GoneInv(d)' BY <1>1, <1>3 DEF Moved, GoneInv
<1>22. ProcessInv(d)' BY <1>1, <1>3 DEF Send, Moved, ProcessInv, DriverInv
<1>23. \A e \in Drivers : DriverInv(e)'
  <2>1. DriverInv(d)' BY <1>19, <1>20, <1>21, <1>22 DEF DriverInv
  <2>2. (Drawn \in Nat)' BY DEF Drawn
  <2> QED BY <1>1, <1>18, <2>1, <2>2, OthersKept
<1> QED BY <1>8, <1>9, <1>10, <1>11, <1>12, <1>13, <1>14, <1>15, <1>16, <1>23 DEF Typed, MapInv

LEMMA ReceiveKeeps ==
    ASSUME MapInv, NEW d \in Drivers, Receive(d)
    PROVE  MapInv'
<1> USE BoundsAssumption DEF At, drawVars, consumerVars, NoIndex, NoEnd, Fault, LockFree
<1>1. /\ Typed /\ SourceTyped /\ ThreadsTyped /\ ResultsTyped /\ \A e \in Drivers : DriverInv(e)
      /\ DriverInv(d) /\ Drawn \in Nat
  BY DEF MapInv, Typed, Drawn
<1>2. After(Answer(process[d].said)) \in DriverAt BY DEF DriverAt, After
<1>3. Moved(d, After(Answer(process[d].said))) BY <1>1, <1>2, MoveMoves DEF Receive
<1> DEFINE p == [process[d] EXCEPT !.said = NoIndex]
<1>4. /\ process[d] \in ProcessType /\ process[d].got \in 0..MaxJobs /\ process[d].said \in 0..MaxJobs
      /\ driver[d].job \in 0..MaxJobs /\ 0 \in 0..MaxJobs
  BY <1>1 DEF ThreadsTyped, ProcessType, DriverType
<1>5. p \in ProcessType /\ p.alive = process[d].alive /\ p.got = process[d].got /\ p.said = 0
  BY <1>4 DEF ProcessType
<1>6. process' = [process EXCEPT ![d] = p] BY <1>1 DEF Receive
<1> HIDE DEF p
<1>7. /\ process' \in [Drivers -> ProcessType] /\ process'[d] = p
      /\ (\A e \in Drivers : e # d => process'[e] = process[e])
  BY <1>1, <1>5, <1>6 DEF ThreadsTyped
<1>8. driver[d].has # 0 /\ Answer(process[d].said) \in Outcomes
  BY <1>1 DEF MapInv, QueueInv, DriverInv, FlyInv, Outcomes, Answer, Receive, ProcessType, ThreadsTyped,
              DriverType, Flying
<1>9. Stored(d, Answer(process[d].said)) /\ ResultsTyped'
  BY <1>1, <1>8, StoreStores DEF Receive, ResultsTyped
<1>10. SourceTyped' BY <1>1 DEF Receive, SourceTyped
<1>11. ThreadsTyped' BY <1>1, <1>3, <1>7 DEF Receive, Moved, ThreadsTyped, StoredSlots
<1>12. ResultsTyped' BY <1>1, <1>9
<1>13. QueueInv' BY <1>1 DEF Receive, MapInv, QueueInv, Drawn
<1>14. EndInv' BY <1>1, <1>3, <1>9, EndKept DEF Receive, Moved, Stored, MapInv, Drawn
<1>15. ResultInv'
  <2> SUFFICES ASSUME NEW i \in DOMAIN results' PROVE Waiting(i)'
    BY DEF ResultInv
  <2>1. CASE i = driver[d].has
    BY <1>1, <1>9, <2>1 DEF Receive, Stored, Answer, Waiting, DriverInv, FlyInv, Flying, ProcessInv, Drawn
  <2>2. CASE i # driver[d].has
    <3>1. i \in DOMAIN results /\ results'[i] = results[i] /\ Waiting(i)
      BY <1>1, <1>9, <2>2 DEF Stored, MapInv, ResultInv
    <3> QED BY <1>1, <3>1 DEF Receive, Waiting, Drawn
  <2> QED BY <2>1, <2>2
<1>16. OneDraws' BY <1>1 DEF Receive, MapInv, OneDraws
<1>17. NoTwins' BY <1>1, <1>3, TwinsKept DEF Receive, Moved, MapInv, Flying
<1>18. Whole' BY <1>1, <1>3, <1>9, WholeKept DEF Receive, Moved, Stored, MapInv, Flying, Live, Drawn
<1>19. Explained => Explained'
  BY <1>1, <1>9, ExplainedKept DEF Receive, Stored, Live, DriverInv, FlyInv, Flying
<1>20. Beside(d)
  BY <1>1, <1>3, <1>9, <1>19 DEF Receive, Moved, Stored, Beside, MapInv, DriverInv, FlyInv, Flying,
                                 NoTwins, Drawn, ThreadsTyped
<1>21. LockInv(d)' BY <1>1, <1>3 DEF Receive, Moved, After, LockInv, DriverInv
<1>22. FlyInv(d)' BY <1>1, <1>3 DEF Moved, After, FlyInv, Flying
<1>23. GoneInv(d)' BY <1>1, <1>3, <1>9 DEF Moved, Stored, After, GoneInv, Explained
<1>24. ProcessInv(d)' BY <1>1, <1>7 DEF Receive, ProcessInv, DriverInv
<1>25. \A e \in Drivers : DriverInv(e)'
  <2>1. DriverInv(d)' BY <1>21, <1>22, <1>23, <1>24 DEF DriverInv
  <2>2. (Drawn \in Nat)' BY DEF Drawn
  <2> QED BY <1>1, <1>20, <2>1, <2>2, OthersKept
<1> QED BY <1>10, <1>11, <1>12, <1>13, <1>14, <1>15, <1>16, <1>17, <1>18, <1>25 DEF Typed, MapInv

LEMMA LosesWorkerKeeps ==
    ASSUME MapInv, NEW d \in Drivers, LosesWorker(d)
    PROVE  MapInv'
<1> USE BoundsAssumption DEF At, drawVars, consumerVars, NoIndex, NoEnd, Fault, LockFree
<1>1. /\ Typed /\ SourceTyped /\ ThreadsTyped /\ ResultsTyped /\ \A e \in Drivers : DriverInv(e)
      /\ DriverInv(d) /\ Drawn \in Nat
  BY DEF MapInv, Typed, Drawn
<1>2. "gone" \in DriverAt BY DEF DriverAt
<1>3. Moved(d, "gone") BY <1>1, <1>2, MoveMoves DEF LosesWorker
<1>4. driver[d].has # 0 /\ Exited \in Outcomes
  BY <1>1 DEF MapInv, QueueInv, DriverInv, FlyInv, Outcomes, Exited, LosesWorker, Flying
<1>5. Stored(d, Exited) /\ ResultsTyped' BY <1>1, <1>4, StoreStores DEF LosesWorker, ResultsTyped
<1>6. SourceTyped' BY <1>1 DEF LosesWorker, SourceTyped
<1>7. ThreadsTyped' BY <1>1, <1>3 DEF LosesWorker, Moved, ThreadsTyped
<1>8. ResultsTyped' BY <1>1, <1>5
<1>9. QueueInv' BY <1>1 DEF LosesWorker, MapInv, QueueInv, Drawn
<1>10. EndInv' BY <1>1, <1>3, <1>5, EndKept DEF LosesWorker, Moved, Stored, MapInv, Drawn
<1>11. ResultInv'
  <2> SUFFICES ASSUME NEW i \in DOMAIN results' PROVE Waiting(i)'
    BY DEF ResultInv
  <2>1. CASE i = driver[d].has
    BY <1>1, <1>5, <2>1 DEF LosesWorker, Stored, Exited, Waiting, DriverInv, FlyInv, Flying, ProcessInv,
                            Drawn
  <2>2. CASE i # driver[d].has
    <3>1. i \in DOMAIN results /\ results'[i] = results[i] /\ Waiting(i)
      BY <1>1, <1>5, <2>2 DEF Stored, MapInv, ResultInv
    <3> QED BY <1>1, <3>1 DEF LosesWorker, Waiting, Drawn
  <2> QED BY <2>1, <2>2
<1>12. OneDraws' BY <1>1 DEF LosesWorker, MapInv, OneDraws
<1>13. NoTwins' BY <1>1, <1>3, TwinsKept DEF Moved, MapInv, Flying
<1>14. Whole' BY <1>1, <1>3, <1>5, WholeKept DEF LosesWorker, Moved, Stored, MapInv, Flying, Live, Drawn
<1>15. Explained => Explained'
  BY <1>1, <1>5, ExplainedKept DEF LosesWorker, Stored, Live, DriverInv, FlyInv, Flying
<1>16. Beside(d)
  BY <1>1, <1>3, <1>5, <1>15 DEF LosesWorker, Moved, Stored, Beside, MapInv, DriverInv, FlyInv, Flying,
                                 NoTwins, Drawn
<1>17. LockInv(d)' BY <1>1, <1>3 DEF LosesWorker, Moved, LockInv, DriverInv
<1>18. FlyInv(d)' BY <1>1, <1>3 DEF Moved, FlyInv, Flying
<1>19. GoneInv(d)' BY <1>1, <1>5 DEF Stored, Exited, GoneInv, Explained
<1>20. ProcessInv(d)' BY <1>1 DEF LosesWorker, ProcessInv, DriverInv
<1>21. \A e \in Drivers : DriverInv(e)'
  <2>1. DriverInv(d)' BY <1>17, <1>18, <1>19, <1>20 DEF DriverInv
  <2>2. (Drawn \in Nat)' BY DEF Drawn
  <2> QED BY <1>1, <1>16, <2>1, <2>2, OthersKept
<1> QED BY <1>6, <1>7, <1>8, <1>9, <1>10, <1>11, <1>12, <1>13, <1>14, <1>21 DEF Typed, MapInv

LEMMA ComputeKeeps ==
    ASSUME MapInv, NEW d \in Drivers, Compute(d)
    PROVE  MapInv'
<1> USE BoundsAssumption DEF At, drawVars, consumerVars, NoIndex, NoEnd, Fault, LockFree
<1>1. /\ Typed /\ SourceTyped /\ ThreadsTyped /\ ResultsTyped /\ \A e \in Drivers : DriverInv(e)
      /\ DriverInv(d) /\ Drawn \in Nat
  BY DEF MapInv, Typed, Drawn
<1> DEFINE p == [process[d] EXCEPT !.got = NoIndex, !.said = process[d].got]
<1>2. /\ process[d] \in ProcessType /\ process[d].got \in 0..MaxJobs /\ process[d].said \in 0..MaxJobs
      /\ driver[d].job \in 0..MaxJobs /\ 0 \in 0..MaxJobs
  BY <1>1 DEF ThreadsTyped, ProcessType, DriverType
<1>3. p \in ProcessType /\ p.alive = process[d].alive /\ p.got = 0 /\ p.said = process[d].got
  BY <1>2 DEF ProcessType
<1>4. process' = [process EXCEPT ![d] = p] BY <1>1 DEF Compute
<1> HIDE DEF p
<1>5. /\ process' \in [Drivers -> ProcessType] /\ process'[d] = p
      /\ (\A e \in Drivers : e # d => process'[e] = process[e])
  BY <1>1, <1>3, <1>4 DEF ThreadsTyped
<1>6. SourceTyped' BY <1>1 DEF Compute, SourceTyped
<1>7. ThreadsTyped' BY <1>1, <1>5 DEF Compute, ThreadsTyped
<1>8. ResultsTyped' BY <1>1 DEF Compute, ResultsTyped
<1>9. QueueInv' BY <1>1 DEF Compute, MapInv, QueueInv, Drawn
<1>10. EndInv' BY <1>1 DEF Compute, MapInv, EndInv, Live, Drawn
<1>11. ResultInv' BY <1>1 DEF Compute, MapInv, ResultInv, Waiting, Drawn
<1>12. OneDraws' BY <1>1 DEF Compute, MapInv, OneDraws
<1>13. NoTwins' BY <1>1, TwinsKept DEF Compute, MapInv, Flying
<1>14. Whole' BY <1>1, WholeKept DEF Compute, MapInv, Flying, Live, Drawn
<1>15. Explained => Explained' BY <1>1, ExplainedKept DEF Compute, Live
<1>16. Beside(d) BY <1>1, <1>5, <1>15 DEF Compute, Beside, DriverInv, FlyInv, Drawn
<1>17. LockInv(d)' BY <1>1 DEF Compute, LockInv, DriverInv
<1>18. FlyInv(d)' BY <1>1 DEF Compute, FlyInv, Flying, DriverInv, Drawn
<1>19. GoneInv(d)' BY <1>1, <1>15 DEF Compute, GoneInv, DriverInv
<1>20. ProcessInv(d)' BY <1>1, <1>5 DEF Compute, ProcessInv, DriverInv
<1>21. \A e \in Drivers : DriverInv(e)'
  <2>1. DriverInv(d)' BY <1>17, <1>18, <1>19, <1>20 DEF DriverInv
  <2>2. (Drawn \in Nat)' BY DEF Drawn
  <2> QED BY <1>1, <1>16, <2>1, <2>2, OthersKept
<1> QED BY <1>6, <1>7, <1>8, <1>9, <1>10, <1>11, <1>12, <1>13, <1>14, <1>21 DEF Typed, MapInv

LEMMA DieKeeps ==
    ASSUME MapInv, NEW d \in Drivers, Die(d)
    PROVE  MapInv'
<1> USE BoundsAssumption DEF At, drawVars, consumerVars, NoIndex, NoEnd, Fault, LockFree
<1>1. /\ Typed /\ SourceTyped /\ ThreadsTyped /\ ResultsTyped /\ \A e \in Drivers : DriverInv(e)
      /\ DriverInv(d) /\ Drawn \in Nat
  BY DEF MapInv, Typed, Drawn
<1> DEFINE p == [process[d] EXCEPT !.alive = FALSE, !.got = NoIndex]
<1>2. /\ process[d] \in ProcessType /\ process[d].got \in 0..MaxJobs /\ process[d].said \in 0..MaxJobs
      /\ driver[d].job \in 0..MaxJobs /\ 0 \in 0..MaxJobs
  BY <1>1 DEF ThreadsTyped, ProcessType, DriverType
<1>3. p \in ProcessType /\ p.alive = FALSE /\ p.got = 0 /\ p.said = process[d].said
  BY <1>2 DEF ProcessType
<1>4. process' = [process EXCEPT ![d] = p] BY <1>1 DEF Die
<1> HIDE DEF p
<1>5. /\ process' \in [Drivers -> ProcessType] /\ process'[d] = p
      /\ (\A e \in Drivers : e # d => process'[e] = process[e])
  BY <1>1, <1>3, <1>4 DEF ThreadsTyped
<1>6. SourceTyped' BY <1>1 DEF Die, SourceTyped
<1>7. ThreadsTyped' BY <1>1, <1>5 DEF Die, ThreadsTyped
<1>8. ResultsTyped' BY <1>1 DEF Die, ResultsTyped
<1>9. QueueInv' BY <1>1 DEF Die, MapInv, QueueInv, Drawn
<1>10. EndInv' BY <1>1 DEF Die, MapInv, EndInv, Live, Drawn
<1>11. ResultInv' BY <1>1, WaitingKept DEF Die, MapInv, Drawn, ThreadsTyped
<1>12. OneDraws' BY <1>1 DEF Die, MapInv, OneDraws
<1>13. NoTwins' BY <1>1, TwinsKept DEF Die, MapInv, Flying
<1>14. Whole' BY <1>1, WholeKept DEF Die, MapInv, Live, Drawn, ThreadsTyped
<1>15. Explained => Explained' BY <1>1, ExplainedKept DEF Die, Live, ThreadsTyped
<1>16. Beside(d) BY <1>1, <1>15 DEF Die, Beside, DriverInv, FlyInv, Drawn, ThreadsTyped
<1>17. LockInv(d)' BY <1>1 DEF Die, LockInv, DriverInv
<1>18. FlyInv(d)' BY <1>1 DEF Die, FlyInv, Flying, DriverInv, Drawn, ThreadsTyped
<1>19. GoneInv(d)' BY <1>1, <1>15 DEF Die, GoneInv, DriverInv
<1>20. ProcessInv(d)' BY <1>1 DEF Die, ProcessInv, DriverInv, ThreadsTyped
<1>21. \A e \in Drivers : DriverInv(e)'
  <2>1. DriverInv(d)' BY <1>17, <1>18, <1>19, <1>20 DEF DriverInv
  <2>2. (Drawn \in Nat)' BY DEF Drawn
  <2> QED BY <1>1, <1>16, <2>1, <2>2, OthersKept
<1> QED BY <1>6, <1>7, <1>8, <1>9, <1>10, <1>11, <1>12, <1>13, <1>14, <1>21 DEF Typed, MapInv

LEMMA LoseKeeps ==
    ASSUME MapInv, NEW d \in Drivers, Lose(d)
    PROVE  MapInv'
<1> USE BoundsAssumption DEF At, drawVars, consumerVars, NoIndex, NoEnd, Fault, LockFree
<1>1. /\ Typed /\ SourceTyped /\ ThreadsTyped /\ ResultsTyped /\ \A e \in Drivers : DriverInv(e)
      /\ DriverInv(d) /\ Drawn \in Nat
  BY DEF MapInv, Typed, Drawn
<1>2. "lost" \in DriverAt BY DEF DriverAt
<1>3. Moved(d, "lost") BY <1>1, <1>2, MoveMoves DEF Lose
<1>4. SourceTyped' BY <1>1 DEF Lose, SourceTyped
<1>5. ThreadsTyped' BY <1>1, <1>3 DEF Lose, Moved, ThreadsTyped
<1>6. ResultsTyped' BY <1>1 DEF Lose, ResultsTyped
<1>7. QueueInv' BY <1>1 DEF Lose, MapInv, QueueInv, Drawn
<1>8. EndInv' BY <1>1, <1>3, EndKept DEF Lose, Moved, MapInv, Drawn
<1>9. ResultInv' BY <1>1, WaitingKept DEF Lose, MapInv, Drawn, ThreadsTyped
<1>10. OneDraws' BY <1>1 DEF Lose, MapInv, OneDraws
<1>11. NoTwins' BY <1>1, <1>3, TwinsKept DEF Moved, MapInv, Flying
<1>12. Whole' BY <1>1, WholeKept DEF Lose, MapInv, Live, Drawn, ThreadsTyped
<1>13. Explained => Explained' BY <1>1, ExplainedKept DEF Lose, Live, ThreadsTyped
<1>14. Beside(d) BY <1>1, <1>3, <1>13 DEF Lose, Moved, Beside, DriverInv, FlyInv, Drawn, ThreadsTyped
<1>15. LockInv(d)' BY <1>1, <1>3 DEF Lose, Moved, LockInv, DriverInv
<1>16. FlyInv(d)' BY <1>1, <1>3 DEF Lose, Moved, FlyInv, Flying, ThreadsTyped
<1>17. GoneInv(d)' BY <1>1, <1>3 DEF Moved, GoneInv
<1>18. ProcessInv(d)' BY <1>1, <1>3 DEF Lose, Moved, ProcessInv, DriverInv, ThreadsTyped
<1>19. \A e \in Drivers : DriverInv(e)'
  <2>1. DriverInv(d)' BY <1>15, <1>16, <1>17, <1>18 DEF DriverInv
  <2>2. (Drawn \in Nat)' BY DEF Drawn
  <2> QED BY <1>1, <1>14, <2>1, <2>2, OthersKept
<1> QED BY <1>4, <1>5, <1>6, <1>7, <1>8, <1>9, <1>10, <1>11, <1>12, <1>19 DEF Typed, MapInv

-----------------------------------------------------------------------------
(* The consumer.                                                           *)

\* The consumer's place changes and nothing else does.
LEMMA LeavesKept ==
    ASSUME MapInv, Live, NEW how \in Phases \ {"returned", "raised", "closed"}, LeaveWith(how)
    PROVE  MapInv'
<1> USE DEF LeaveWith, drawVars
<1>1. /\ SourceTyped /\ ThreadsTyped /\ ResultsTyped
      /\ how \in Phases /\ phase \notin {"returned", "raised", "closed"}
  BY DEF MapInv, Typed, Live
<1>2. SourceTyped' /\ ThreadsTyped' /\ ResultsTyped' /\ QueueInv' /\ ResultInv' /\ OneDraws' /\ NoTwins'
  BY <1>1 DEF MapInv, SourceTyped, ThreadsTyped, ResultsTyped, QueueInv, ResultInv, Waiting, OneDraws,
              NoTwins, Flying, Drawn
<1>3. EndInv' BY <1>1 DEF MapInv, EndInv, Drawn, Live, At
<1>4. Whole' BY <1>1, WholeKept DEF MapInv, Drawn, Flying
<1>5. ASSUME NEW e \in Drivers PROVE DriverInv(e)'
  <2>1. DriverInv(e) BY DEF MapInv
  <2>2. LockInv(e)' /\ FlyInv(e)' /\ ProcessInv(e)'
    BY <2>1 DEF DriverInv, LockInv, FlyInv, ProcessInv, Flying, Drawn
  <2>3. GoneInv(e)' BY <2>1 DEF DriverInv, GoneInv, Explained, Live
  <2> QED BY <2>2, <2>3 DEF DriverInv
<1> QED BY <1>2, <1>3, <1>4, <1>5 DEF MapInv, Typed

\* What the consumer takes with a good outcome: the batch at the head of the
\* caller's queue, and the outcome of just that batch.
LEMMA TakesItsOwn ==
    ASSUME MapInv, Take, Outcome.kind = "ok"
    PROVE  /\ index = Len(given) + 1 /\ index <= Drawn /\ Drawn <= jobs.count /\ index \notin jobs.bad
           /\ pending # <<>> /\ Head(pending) = index /\ Outcome.job = index
           /\ Drawn' = Drawn /\ pending' \in Seq(1..MaxJobs)
           /\ Len(pending') = Len(pending) - 1 /\ Len(given') = Len(given) + 1
           /\ \A k \in 1 .. Len(pending') : pending'[k] = pending[k + 1]
<1>1. SourceTyped /\ Len(given) \in Nat /\ Len(pending) \in Nat /\ QueueInv
  BY DEF MapInv, Typed, SourceTyped
<1>2. Waiting(index) /\ Outcome = results[index] BY DEF Take, There, MapInv, ResultInv, Outcome
<1>3. /\ index = Len(given) + 1 /\ index <= Drawn /\ Drawn <= jobs.count
      /\ index \notin jobs.bad /\ Outcome.job = index
  BY <1>1, <1>2 DEF Waiting, QueueInv
<1>4. pending # <<>> /\ Head(pending) = index
  BY <1>1, <1>3 DEF Drawn, QueueInv, SourceTyped
<1>5. pending' = Tail(pending) /\ given' = Append(given, <<Head(pending), Outcome.job>>)
  BY DEF Take
<1>6. /\ pending' \in Seq(1..MaxJobs) /\ Len(pending') = Len(pending) - 1 /\ Len(given') = Len(given) + 1
      /\ \A k \in 1 .. Len(pending') : pending'[k] = pending[k + 1]
  BY <1>1, <1>4, <1>5 DEF SourceTyped
<1> QED BY <1>1, <1>3, <1>4, <1>6 DEF Drawn

LEMMA TakeKeeps ==
    ASSUME MapInv, Take
    PROVE  MapInv'
<1>1. /\ SourceTyped /\ ThreadsTyped /\ ResultsTyped /\ Drawn \in Nat /\ Live /\ index \in Nat
  BY DEF MapInv, Typed, Drawn, SourceTyped, Take, Live
<1>2. /\ DOMAIN results' = DOMAIN results \ {index}
      /\ \A i \in DOMAIN results' : results'[i] = results[i]
  BY DEF Take
<1>3. /\ UNCHANGED <<jobs, lock, next, end, stop, driver, process, faults>> /\ slots' = slots + 1
      /\ phase' = (IF Outcome.kind = "ok" THEN "caller" ELSE "raise")
  BY DEF Take, TakenSlot
<1>4. ResultsTyped' BY <1>1, <1>2 DEF ResultsTyped
<1>5. ThreadsTyped' BY <1>1, <1>3 DEF ThreadsTyped, Phases
<1>6. CASE Outcome.kind = "ok"
  <2>1. /\ index = Len(given) + 1 /\ index <= Drawn /\ Drawn <= jobs.count /\ index' = index + 1
        /\ given' = Append(given, <<index, index>>) /\ pending' \in Seq(1..MaxJobs)
        /\ Len(pending') = Len(pending) - 1 /\ Len(given') = Len(given) + 1
        /\ \A k \in 1 .. Len(pending') : pending'[k] = pending[k + 1]
    BY <1>6, TakesItsOwn DEF Take
  <2>2. Drawn' = Drawn BY <1>6, TakesItsOwn
  <2>3. SourceTyped'
    <3>1. jobs.count \in 0..MaxJobs BY <1>1 DEF SourceTyped
    <3>2. index \in 1..MaxJobs /\ index \in 0..MaxJobs /\ index + 1 \in 1..MaxJobs + 1
      BY <1>1, <2>1, <3>1, BoundsAssumption DEF SourceTyped
    <3>3. <<index, index>> \in (1..MaxJobs) \X (0..MaxJobs) BY <3>2
    <3>4. given' \in Seq((1..MaxJobs) \X (0..MaxJobs)) BY <1>1, <2>1, <3>3 DEF SourceTyped
    <3> QED BY <1>1, <1>3, <2>1, <3>2, <3>4 DEF SourceTyped
  <2>4. QueueInv'
    <3>1. Len(given) \in Nat /\ Len(pending) \in Nat BY <1>1 DEF SourceTyped
    <3> QED BY <1>3, <2>1, <2>2, <3>1 DEF MapInv, QueueInv
  <2>5. EndInv'
    <3>1. index # Drawn + 1 BY <1>1, <2>1
    <3> QED BY <1>1, <1>2, <1>3, <1>6, <2>2, <3>1 DEF MapInv, EndInv, Live, At
  <2>6. ResultInv'
    <3> SUFFICES ASSUME NEW i \in DOMAIN results' PROVE Waiting(i)'
      BY DEF ResultInv
    <3>1. Waiting(i) /\ i # index /\ results'[i] = results[i] /\ i \in Nat
      BY <1>1, <1>2 DEF MapInv, ResultInv, ResultsTyped
    <3> QED BY <1>1, <1>3, <2>1, <2>2, <3>1 DEF Waiting
  <2>7. Whole'
    <3> SUFFICES ASSUME faults = 0, NEW i \in index + 1 .. Drawn
                 PROVE  i \in DOMAIN results' \/ \E d \in Drivers : Flying(d) /\ driver[d].has = i
      BY <1>3, <2>1, <2>2 DEF Whole, Flying
    <3>1. i \in index .. Drawn /\ i # index BY <1>1
    <3> QED BY <1>1, <1>2, <3>1 DEF MapInv, Whole
  <2>8. ASSUME NEW e \in Drivers PROVE DriverInv(e)'
    <3>1. DriverInv(e) BY DEF MapInv
    <3>2. LockInv(e)' /\ ProcessInv(e)' BY <1>3, <3>1 DEF DriverInv, LockInv, ProcessInv
    <3>3. FlyInv(e)'
      <4>1. index \in DOMAIN results /\ driver[e].job \in Nat
        BY <1>1 DEF Take, There, ThreadsTyped, DriverType
      <4> QED BY <1>1, <1>2, <1>3, <2>1, <2>2, <3>1, <4>1 DEF DriverInv, FlyInv, Flying
    <3>4. GoneInv(e)'
      <4>1. \A i \in DOMAIN results : results[i].kind # "ok" =>
                i \in DOMAIN results' /\ results'[i] = results[i]
        BY <1>2, <1>6 DEF Outcome
      <4> QED BY <1>1, <1>3, <3>1, <4>1, ExplainedKept DEF DriverInv, GoneInv
    <3> QED BY <3>2, <3>3, <3>4 DEF DriverInv
  <2>9. OneDraws' /\ NoTwins' BY <1>3 DEF MapInv, OneDraws, NoTwins, Flying
  <2> QED BY <1>4, <1>5, <2>3, <2>4, <2>5, <2>6, <2>7, <2>8, <2>9 DEF MapInv, Typed
<1>7. CASE Outcome.kind # "ok"
  <2>1. UNCHANGED <<index, given, pending>> /\ phase' = "raise" BY <1>3, <1>7 DEF Take
  <2>2. SourceTyped' /\ QueueInv' /\ OneDraws' /\ NoTwins' /\ Whole' /\ EndInv'
    BY <1>1, <1>3, <2>1 DEF SourceTyped, MapInv, QueueInv, OneDraws, NoTwins, Whole, EndInv, Live, Flying,
                            Drawn
  <2>3. ResultInv' BY <1>2, <1>3, <2>1 DEF MapInv, ResultInv, Waiting, Drawn
  <2>4. ASSUME NEW e \in Drivers PROVE DriverInv(e)'
    <3>1. DriverInv(e) BY DEF MapInv
    <3> QED
      BY <1>2, <1>3, <2>1, <3>1 DEF DriverInv, LockInv, FlyInv, GoneInv, ProcessInv, Explained, Live,
                                    Flying, Drawn
  <2> QED BY <1>4, <1>5, <2>2, <2>3, <2>4 DEF MapInv, Typed
<1> QED BY <1>6, <1>7

LEMMA StopDriversKeeps ==
    ASSUME MapInv, StopDrivers
    PROVE  MapInv'
<1> USE DEF StopDrivers, drawVars
<1>1. /\ SourceTyped /\ ThreadsTyped /\ ResultsTyped /\ phase' \in {"returned", "raised", "closed"} /\ ~Live
  BY DEF MapInv, Typed, Over, Live
<1>2. SourceTyped' /\ ResultsTyped' /\ QueueInv' /\ OneDraws' /\ NoTwins' /\ Whole' /\ EndInv'
  BY <1>1 DEF MapInv, SourceTyped, ResultsTyped, QueueInv, OneDraws, NoTwins, Whole, EndInv, Flying, Drawn,
              Live
<1>3. ThreadsTyped'
  <2>1. N \in Nat BY DriversAssumption, FS_CardinalityType DEF N
  <2> QED BY <1>1, <2>1 DEF ThreadsTyped, WakeAll, Phases
<1>4. ResultInv' BY DEF MapInv, ResultInv, Waiting, Drawn
<1>5. ASSUME NEW e \in Drivers PROVE DriverInv(e)'
  <2>1. DriverInv(e) BY DEF MapInv
  <2> QED BY <1>1, <2>1 DEF DriverInv, LockInv, FlyInv, GoneInv, ProcessInv, Explained, Live, Flying, Drawn
<1> QED BY <1>2, <1>3, <1>4, <1>5 DEF MapInv, Typed

LEMMA Killed ==
    ASSUME NEW q \in ProcessType, NEW p, p = [q EXCEPT !.alive = FALSE, !.got = 0]
    PROVE  p \in ProcessType /\ ~p.alive /\ p.got = 0 /\ p.said = q.said
<1>1. p.alive = FALSE /\ p.got = 0 /\ p.said = q.said BY DEF ProcessType
<1>2. 0 \in 0..MaxJobs BY BoundsAssumption
<1>3. p \in ProcessType BY <1>2 DEF ProcessType
<1> QED BY <1>1, <1>3

LEMMA ExitKeeps ==
    ASSUME MapInv, Exit
    PROVE  MapInv'
<1> USE DEF Exit, drawVars
<1>1. SourceTyped /\ ThreadsTyped /\ ResultsTyped BY DEF MapInv, Typed
<1>2. ASSUME NEW e \in Drivers
      PROVE  /\ process'[e] \in ProcessType /\ ~process'[e].alive
             /\ process'[e].got = 0 /\ process'[e].said = process[e].said
  <2>1. process[e] \in ProcessType BY <1>1 DEF ThreadsTyped
  <2>2. process'[e] = [process[e] EXCEPT !.alive = FALSE, !.got = NoIndex] OBVIOUS
  <2> QED BY <2>1, <2>2, Killed DEF NoIndex
<1>3. ThreadsTyped' BY <1>1, <1>2 DEF ThreadsTyped
<1>4. SourceTyped' /\ ResultsTyped' /\ QueueInv' /\ ResultInv' /\ OneDraws' /\ NoTwins' /\ Whole' /\ EndInv'
  BY <1>1 DEF MapInv, SourceTyped, ResultsTyped, QueueInv, ResultInv, Waiting, OneDraws, NoTwins, Whole,
              EndInv, Flying, Drawn, Live, At
<1>5. ASSUME NEW e \in Drivers PROVE DriverInv(e)'
  <2>1. DriverInv(e) BY DEF MapInv
  <2>2. LockInv(e)' /\ FlyInv(e)' /\ GoneInv(e)'
    BY <2>1 DEF DriverInv, LockInv, FlyInv, GoneInv, Explained, Live, Flying, Drawn
  <2>3. ProcessInv(e)' BY <1>2, <2>1 DEF DriverInv, ProcessInv, NoIndex
  <2> QED BY <2>2, <2>3 DEF DriverInv
<1> QED BY <1>3, <1>4, <1>5 DEF MapInv, Typed

-----------------------------------------------------------------------------
(* Room: slots, drivers with one and answers waiting.                      *)

\* Sets of drivers and the answers are finite.
LEMMA Counts ==
    ASSUME Typed
    PROVE  /\ IsFiniteSet(Slotted) /\ IsFiniteSet(Passed) /\ IsFiniteSet(DOMAIN results)
           /\ Cardinality(Slotted) \in Nat /\ Cardinality(Passed) \in Nat
           /\ Cardinality(DOMAIN results) \in Nat /\ slots \in Nat
           /\ Cardinality(Passed) <= Cardinality(Slotted)
<1>1. IsFiniteSet(Slotted) BY DriversAssumption, FS_Subset DEF Slotted
<1>2. Passed \subseteq Slotted BY DEF Passed, Slotted
<1>3. IsFiniteSet(Passed) /\ Cardinality(Passed) <= Cardinality(Slotted) BY <1>1, <1>2, FS_Subset
<1>4. IsFiniteSet(DOMAIN results)
  <2>1. IsFiniteSet(1 .. MaxJobs + 1) BY BoundsAssumption, FS_Interval
  <2> QED BY <2>1, FS_Subset DEF Typed, ResultsTyped
<1> QED BY <1>1, <1>3, <1>4, FS_CardinalityType DEF Typed, ThreadsTyped

LEMMA WindowTyped == Window \in Nat
<1>1. N \in Nat BY DriversAssumption, FS_CardinalityType DEF N
<1> QED BY <1>1, BoundsAssumption DEF Window

\* Neither more drivers nor more answers, and no slot is made.
LEMMA RoomSame ==
    ASSUME RoomInv, Typed, Typed', Slotted' = Slotted, Passed' = Passed, slots' = slots,
           DOMAIN results' = DOMAIN results, stop' = stop
    PROVE  RoomInv'
  BY DEF RoomInv, Window, N

\* A driver puts its job's outcome where it is waited for, with its slot.
LEMMA RoomStored ==
    ASSUME RoomInv, Typed, NEW d \in Passed, NEW i, slots' = slots, stop' = stop,
           Slotted' = Slotted \ {d}, Passed' = Passed \ {d}, DOMAIN results' = DOMAIN results \cup {i}
    PROVE  RoomInv'
<1>1. d \in Slotted BY DEF Passed, Slotted
<1>2. /\ Cardinality(Slotted') = Cardinality(Slotted) - 1
      /\ Cardinality(Passed') = Cardinality(Passed) - 1
  BY <1>1, Counts, FS_RemoveElement
<1>3. /\ Cardinality(DOMAIN results') \in Nat
      /\ Cardinality(DOMAIN results') <= Cardinality(DOMAIN results) + 1
  <2>1. /\ IsFiniteSet(DOMAIN results \cup {i})
        /\ Cardinality(DOMAIN results \cup {i}) \in
               {Cardinality(DOMAIN results), Cardinality(DOMAIN results) + 1}
    BY Counts, FS_AddElement
  <2> QED BY <2>1, Counts
<1> QED BY <1>2, <1>3, Counts, WindowTyped DEF RoomInv, Window, N

\* A driver gives its slot back.
LEMMA RoomLeft ==
    ASSUME RoomInv, Typed, NEW d \in Slotted, slots' = slots + 1, stop' = stop,
           Slotted' = Slotted \ {d}, Passed' = Passed \ {d}, results' = results
    PROVE  RoomInv'
<1>1. Cardinality(Slotted') = Cardinality(Slotted) - 1
  BY Counts, FS_RemoveElement
<1>2. Cardinality(Passed') <= Cardinality(Passed) /\ Cardinality(Passed') \in Nat
  BY Counts, FS_Subset, FS_CardinalityType
<1> QED BY <1>1, <1>2, Counts, WindowTyped DEF RoomInv, Window, N

LEMMA RoomTaken ==
    ASSUME RoomInv, Typed, index \in DOMAIN results, slots' = slots + 1, UNCHANGED <<driver, stop>>,
           DOMAIN results' = DOMAIN results \ {index}
    PROVE  RoomInv'
<1>1. Cardinality(DOMAIN results') = Cardinality(DOMAIN results) - 1
  BY Counts, FS_RemoveElement
<1>2. Slotted' = Slotted /\ Passed' = Passed BY DEF Slotted, Passed
<1> QED BY <1>1, <1>2, Counts, WindowTyped DEF RoomInv, Window, N

LEMMA RoomKept ==
    ASSUME PoolInv, MapInv', [PoolNext]_poolVars
    PROVE  RoomInv'
<1>1. Typed /\ Typed' /\ RoomInv /\ ThreadsTyped BY DEF PoolInv, MapInv, Typed
<1>2. ASSUME NEW d \in Drivers, AcquireSlot(d) PROVE RoomInv'
  <2>1. Moved(d, "draw") /\ At(d, "slot") /\ slots' = slots - 1 /\ UNCHANGED <<results, stop>>
    BY <1>1, <1>2, MoveMoves DEF AcquireSlot, DriverAt, consumerVars
  <2>2. Slotted' = Slotted \cup {d} /\ d \notin Slotted /\ Passed' = Passed
    BY <2>1 DEF Moved, At, Slotted, Passed
  <2>3. Cardinality(Slotted') = Cardinality(Slotted) + 1
    BY <1>1, <2>2, Counts, FS_AddElement
  <2> QED BY <1>1, <2>1, <2>2, <2>3, Counts, WindowTyped DEF RoomInv, Window, N
<1>3. ASSUME NEW d \in Drivers, LeaveDrawing(d) \/ Finish(d) PROVE RoomInv'
  <2>1. /\ Moved(d, "gone") /\ driver[d].at \in {"draw", "finish"} /\ slots' = slots + 1
        /\ UNCHANGED <<results, stop>>
    BY <1>1, <1>3, MoveMoves DEF LeaveDrawing, Finish, DriverAt, consumerVars, SlotsBack, At
  <2>2. d \in Slotted /\ Slotted' = Slotted \ {d} /\ Passed' = Passed \ {d}
    BY <2>1 DEF Moved, Slotted, Passed
  <2> QED BY <1>1, <2>1, <2>2, RoomLeft
<1>4. ASSUME NEW d \in Drivers, EnterDraw(d) PROVE RoomInv'
  <2>1. Slotted' = Slotted /\ UNCHANGED <<results, stop, slots>> /\ ~stop
    BY <1>1, <1>4 DEF EnterDraw, At, consumerVars, ThreadsTyped, DriverType, Slotted
  <2>4. Passed' \subseteq Slotted BY <2>1 DEF Slotted, Passed
  <2>2. Cardinality(Passed') <= Cardinality(Slotted) /\ Cardinality(Passed') \in Nat
    BY <1>1, <2>4, Counts, FS_Subset, FS_CardinalityType
  <2> QED BY <1>1, <2>1, <2>2, Counts, WindowTyped DEF RoomInv, Window, N
<1>5. ASSUME NEW d \in Drivers, DrawJob(d) \/ DrawEnd(d) \/ DrawRaises(d) \/ Send(d) \/ Lose(d)
      PROVE  RoomInv'
  <2>1. Slotted' = Slotted /\ Passed' = Passed /\ UNCHANGED <<results, stop, slots>>
    <3>1. UNCHANGED <<results, stop, slots>>
      BY <1>5 DEF DrawJob, DrawEnd, DrawRaises, Send, Lose, consumerVars
    <3>2. \A e \in Drivers \ {d} : driver'[e].at = driver[e].at
      BY <1>1, <1>5 DEF DrawJob, DrawEnd, DrawRaises, Send, Lose, MoveTo, ThreadsTyped
    <3>3. driver'[d].at \in {"finish", "report", "send", "receive", "lost"}
      BY <1>1, <1>5 DEF DrawJob, DrawEnd, DrawRaises, Send, Lose, MoveTo, ThreadsTyped, DriverType
    <3>4. driver[d].at \in {"drawing", "send", "receive"}
      BY <1>5 DEF DrawJob, DrawEnd, DrawRaises, Send, Lose, At
    <3> QED BY <3>1, <3>2, <3>3, <3>4 DEF Slotted, Passed
  <2> QED BY <1>1, <2>1, RoomSame DEF Slotted, Passed
<1>6. ASSUME NEW d \in Drivers, Report(d) \/ Receive(d) \/ LosesWorker(d) PROVE RoomInv'
  <2>1. /\ driver[d].at \in {"report", "send", "receive"} /\ UNCHANGED <<stop, slots>>
        /\ DOMAIN results' = DOMAIN results \cup {driver[d].has}
    BY <1>6 DEF Report, Receive, LosesWorker, At, consumerVars, Store, StoredSlots
  <2>2. PICK where \in {"slot", "gone"} : MoveTo(d, where)
    BY <1>6 DEF Report, Receive, LosesWorker, After
  <2>3. Moved(d, where) BY <1>1, <2>2, MoveMoves DEF DriverAt
  <2>4. d \in Passed /\ Slotted' = Slotted \ {d} /\ Passed' = Passed \ {d}
    BY <2>1, <2>3 DEF Moved, Slotted, Passed
  <2> QED BY <1>1, <2>1, <2>4, RoomStored
<1>7. ASSUME NEW d \in Drivers, Compute(d) \/ Die(d) PROVE RoomInv'
  <2>1. UNCHANGED <<driver, results, stop, slots>> BY <1>7 DEF Compute, Die, consumerVars
  <2> QED BY <1>1, <2>1, RoomSame DEF Slotted, Passed
<1>8. CASE Take
  <2>1. /\ index \in DOMAIN results /\ slots' = slots + 1 /\ UNCHANGED <<driver, stop>>
        /\ DOMAIN results' = DOMAIN results \ {index}
    BY <1>8 DEF Take, There, TakenSlot
  <2> QED BY <1>1, <2>1, RoomTaken
<1>9. CASE Return \/ NoWorkerLeft \/ Resume \/ Close \/ Exit \/ UNCHANGED poolVars
  <2>1. UNCHANGED <<driver, results, stop, slots>>
    BY <1>9 DEF Return, NoWorkerLeft, Resume, Close, Exit, LeaveWith, poolVars
  <2> QED BY <1>1, <2>1, RoomSame DEF Slotted, Passed
<1>10. CASE StopDrivers
  <2>1. UNCHANGED <<driver, results>> /\ stop' BY <1>10 DEF StopDrivers
  <2> QED BY <1>1, <2>1 DEF RoomInv, Window, N, Slotted, Passed
<1> QED BY <1>2, <1>3, <1>4, <1>5, <1>6, <1>7, <1>8, <1>9, <1>10 DEF PoolNext, Drive, Consume

-----------------------------------------------------------------------------
(* The invariant and the types.                                              *)

LEMMA PoolStarts == PoolInit => PoolInv
<1> SUFFICES ASSUME PoolInit PROVE PoolInv
  OBVIOUS
<1> USE DEF PoolInit
<1>1. Drawn = 0 /\ Len(given) = 0 /\ Len(pending) = 0 BY DEF Drawn
<1>2. N \in Nat /\ Window \in Nat BY DriversAssumption, FS_CardinalityType, WindowTyped DEF N
<1>3. SourceTyped BY BoundsAssumption DEF SourceTyped, NoEnd
<1>4. ThreadsTyped
  <2>1. 0 \in 0..MaxJobs /\ 0 \in 0..MaxJobs + 1 BY BoundsAssumption
  <2>2. [at |-> "slot", has |-> NoIndex, job |-> NoIndex] \in DriverType
    BY <2>1 DEF DriverType, DriverAt, NoIndex
  <2>3. Quiet \in ProcessType BY <2>1 DEF ProcessType, Quiet, NoIndex
  <2> QED BY <1>2, <2>2, <2>3 DEF ThreadsTyped, Phases
<1>5. ResultsTyped /\ ResultInv BY DEF ResultsTyped, ResultInv
<1>6. QueueInv BY <1>1, BoundsAssumption DEF QueueInv
<1>7. EndInv /\ OneDraws /\ NoTwins BY DEF EndInv, OneDraws, NoTwins, Flying
<1>8. Whole BY <1>1 DEF Whole
<1>9. ASSUME NEW d \in Drivers PROVE DriverInv(d)
  BY DEF DriverInv, LockInv, FlyInv, GoneInv, ProcessInv, Flying, Quiet, NoIndex
<1>10. RoomInv
  <2>1. Slotted = {} /\ Passed = {} /\ DOMAIN results = {} BY DEF Slotted, Passed
  <2>2. Cardinality({}) = 0 BY FS_EmptySet
  <2> QED BY <1>2, <2>1, <2>2 DEF RoomInv
<1> QED BY <1>3, <1>4, <1>5, <1>6, <1>7, <1>8, <1>9, <1>10 DEF PoolInv, MapInv, Typed

LEMMA MapKept ==
    ASSUME MapInv, [PoolNext]_poolVars
    PROVE  MapInv'
<1>1. CASE \E d \in Drivers : Drive(d) \/ Compute(d) \/ Die(d) \/ Lose(d)
  BY <1>1, AcquireSlotKeeps, LeaveDrawingKeeps, EnterDrawKeeps, DrawJobKeeps, DrawEndKeeps, FinishKeeps,
     DrawRaisesKeeps, ReportKeeps, SendKeeps, ReceiveKeeps, LosesWorkerKeeps, ComputeKeeps,
     DieKeeps, LoseKeeps
     DEF Drive
<1>2. CASE Take BY <1>2, TakeKeeps
<1>3. CASE Return \/ NoWorkerLeft \/ Resume \/ Close
  <2>1. PICK how \in {"return", "raise", "look", "close"} : LeaveWith(how)
    BY <1>3 DEF Return, NoWorkerLeft, Resume, Close
  <2>2. Live BY <1>3 DEF Return, NoWorkerLeft, Resume, Close, Live
  <2> QED BY <2>1, <2>2, LeavesKept DEF Phases
<1>4. CASE StopDrivers BY <1>4, StopDriversKeeps
<1>5. CASE Exit BY <1>5, ExitKeeps
<1>6. CASE UNCHANGED poolVars
  <2> USE <1>6 DEF poolVars
  <2>1. Typed' /\ QueueInv' /\ EndInv' /\ ResultInv' /\ OneDraws' /\ NoTwins' /\ Whole'
    BY DEF MapInv, Typed, SourceTyped, ThreadsTyped, ResultsTyped, QueueInv, EndInv, ResultInv, Waiting,
           OneDraws, NoTwins, Whole, Flying, Drawn, Live, At
  <2>2. ASSUME NEW e \in Drivers PROVE DriverInv(e)'
    <3>1. DriverInv(e) BY DEF MapInv
    <3> QED BY <3>1 DEF DriverInv, LockInv, FlyInv, GoneInv, ProcessInv, Flying, Explained, Drawn, Live
  <2> QED BY <2>1, <2>2 DEF MapInv
<1> QED BY <1>1, <1>2, <1>3, <1>4, <1>5, <1>6 DEF PoolNext, Consume

LEMMA PoolInductive == PoolSpec => []PoolInv
<1>1. PoolInv /\ [PoolNext]_poolVars => PoolInv' BY MapKept, RoomKept DEF PoolInv
<1> QED BY <1>1, PoolStarts, PTL DEF PoolSpec

\* Every variable of the pool keeps its type, and at most one driver draws from
\* the source at a time.
THEOREM PoolTyped == PoolSpec => []PoolTypeOK
<1>1. PoolInv => PoolTypeOK
  <2> SUFFICES ASSUME PoolInv PROVE PoolTypeOK
    OBVIOUS
  <2>1. Typed /\ OneDraws BY DEF PoolInv, MapInv
  <2>2. Cardinality(lock) <= 1
    <3>1. CASE lock = {} BY <3>1, FS_EmptySet
    <3>2. CASE lock # {}
      <4>1. PICK d \in lock : TRUE BY <3>2
      <4>2. lock = {d} BY <2>1, <4>1 DEF OneDraws
      <4> QED BY <4>2, FS_Singleton
    <3> QED BY <3>1, <3>2
  <2> QED BY <2>1, <2>2 DEF PoolTypeOK, Typed, SourceTyped, ThreadsTyped, ResultsTyped, DriverType, ProcessType,
                            DriverAt, Phases
<1> QED BY <1>1, PoolInductive, PTL

-----------------------------------------------------------------------------
(* The promise.                                                            *)

Trouble == faults > 0
Ending ==
    CASE phase \in {"return", "returned"} -> "returned"
      [] phase \in {"raise", "raised"} -> "raised"
      [] phase \in {"close", "closed"} -> "closed"
      [] OTHER -> "open"

\* An ordered map's next step, in terms of the pool.
MapDue == Len(given) + 1
MapGives ==
    /\ Ending = "open" /\ MapDue <= jobs.count /\ MapDue \notin jobs.bad
    /\ given' = Append(given, <<MapDue, MapDue>>)
    /\ UNCHANGED <<jobs, Trouble, Ending>>
MapTrouble == Trouble' = TRUE /\ UNCHANGED <<jobs, given, Ending>>
MapFinishes ==
    /\ Ending = "open"
    /\ \/ MapDue > jobs.count /\ ~jobs.broken /\ Ending' = "returned"
       \/ /\ MapDue \in jobs.bad \/ (MapDue > jobs.count /\ jobs.broken) \/ Trouble
          /\ Ending' = "raised"
       \/ Ending' = "closed"
    /\ UNCHANGED <<jobs, given, Trouble>>
MapSteps == MapGives \/ MapTrouble \/ MapFinishes \/ UNCHANGED <<jobs, given, Trouble, Ending>>

\* All is over for the drivers, nothing waits where the consumer looks, and the
\* end is not reached: something went wrong.
LEMMA NobodyLeft ==
    ASSUME PoolInv, NoWorkerLeft
    PROVE  Trouble
<1> SUFFICES ASSUME ~Trouble PROVE FALSE
  OBVIOUS
<1>1. /\ SourceTyped /\ ThreadsTyped /\ ResultsTyped /\ QueueInv /\ EndInv /\ ResultInv /\ Whole /\ Live
      /\ \A d \in Drivers : DriverInv(d)
      /\ faults = 0 /\ index \notin DOMAIN results /\ ~EndReached /\ Drawn \in Nat
  BY DEF PoolInv, MapInv, Typed, NoWorkerLeft, There, Live, Trouble, ThreadsTyped, SourceTyped, Drawn
<1>2. \A d \in Drivers : driver[d].at = "gone"
  <2>1. ASSUME NEW d \in Drivers PROVE driver[d].at # "lost"
    BY <1>1 DEF DriverInv, FlyInv
  <2> QED BY <2>1 DEF NoWorkerLeft
<1>3. index = Drawn + 1
  <2>1. \A i \in index .. Drawn : i \in DOMAIN results BY <1>1, <1>2 DEF Whole, Flying
  <2>2. index \in Nat /\ index <= Drawn + 1 BY <1>1 DEF SourceTyped, QueueInv, Drawn
  <2> QED BY <1>1, <2>1, <2>2
<1>4. \A i \in DOMAIN results : results[i].kind = "raise"
  BY <1>1, <1>3 DEF ResultInv, Waiting, ResultsTyped
<1>5. end # NoEnd
  <2>1. PICK d \in Drivers : TRUE BY DriversAssumption
  <2>2. Explained BY <1>1, <1>2, <2>1 DEF DriverInv, GoneInv
  <2>3. CASE end # NoEnd BY <2>3
  <2>4. CASE \E i \in DOMAIN results : results[i].kind # "ok"
    <3>1. PICK i \in DOMAIN results : results[i].kind = "raise" BY <1>4, <2>4
    <3> QED BY <1>1, <3>1 DEF ResultInv, Waiting
  <2> QED BY <1>1, <2>2, <2>3, <2>4 DEF Explained
<1>6. CASE ~jobs.broken BY <1>1, <1>3, <1>5, <1>6 DEF EndInv, EndReached
<1>7. CASE jobs.broken BY <1>1, <1>2, <1>3, <1>5, <1>7 DEF EndInv, At
<1> QED BY <1>6, <1>7

LEMMA ReturnsAtTheEnd ==
    ASSUME PoolInv, Return
    PROVE  MapDue > jobs.count /\ ~jobs.broken
<1>1. /\ SourceTyped /\ QueueInv /\ EndInv /\ end # NoEnd /\ index >= end
      /\ Len(given) \in Nat /\ Len(pending) \in Nat /\ jobs.count \in Nat
  BY DEF PoolInv, MapInv, Typed, Return, EndReached, SourceTyped
<1> QED BY <1>1 DEF QueueInv, EndInv, Drawn, MapDue

LEMMA RaisesForCause ==
    ASSUME PoolInv, Take, Outcome.kind # "ok"
    PROVE  MapDue \in jobs.bad \/ (MapDue > jobs.count /\ jobs.broken) \/ Trouble
<1>1. ResultsTyped /\ QueueInv /\ EndInv /\ index \in DOMAIN results /\ Waiting(index) /\ phase = "look"
  BY DEF PoolInv, MapInv, Typed, Take, There, ResultInv
<1>2. results[index].kind \in {"error", "raise"} BY <1>1 DEF ResultsTyped, Outcomes, Outcome
<1> QED BY <1>1, <1>2 DEF Waiting, QueueInv, EndInv, MapDue, Trouble

LEMMA PoolStep ==
    ASSUME PoolInv, [PoolNext]_poolVars
    PROVE  MapSteps
<1>1. ThreadsTyped BY DEF PoolInv, MapInv, Typed
<1>2. CASE \E d \in Drivers : Drive(d) \/ Compute(d)
  <2>1. UNCHANGED <<jobs, given, phase, faults>>
    BY <1>2 DEF Drive, AcquireSlot, LeaveDrawing, EnterDraw, DrawJob, DrawEnd, Finish, DrawRaises, Report,
                Send, Receive, LosesWorker, Compute, consumerVars
  <2> QED BY <2>1 DEF MapSteps, Trouble, Ending
<1>3. CASE \E d \in Drivers : Die(d) \/ Lose(d)
  <2>1. UNCHANGED <<jobs, given, phase>> /\ faults' = faults + 1 /\ faults' > 0
    BY <1>1, <1>3 DEF Die, Lose, Fault, consumerVars, ThreadsTyped
  <2>2. Trouble' = TRUE BY <2>1 DEF Trouble
  <2> QED BY <2>1, <2>2 DEF MapSteps, MapTrouble, Ending
<1>4. CASE Take /\ Outcome.kind = "ok"
  <2>1. /\ MapDue <= jobs.count /\ MapDue \notin jobs.bad /\ UNCHANGED <<jobs, faults>>
        /\ given' = Append(given, <<MapDue, MapDue>>)
    <3>1. /\ index = MapDue /\ index <= Drawn /\ Drawn <= jobs.count /\ index \notin jobs.bad
          /\ Head(pending) = index /\ Outcome.job = index
      BY <1>4, TakesItsOwn DEF PoolInv, MapDue
    <3>2. jobs.count \in Nat /\ Drawn \in Nat /\ index \in Nat
      BY DEF PoolInv, MapInv, Typed, SourceTyped, Drawn
    <3>3. given' = Append(given, <<Head(pending), Outcome.job>>) /\ UNCHANGED <<jobs, faults>>
      BY <1>4 DEF Take
    <3> QED BY <3>1, <3>2, <3>3
  <2>2. Ending = "open" /\ Ending' = "open" BY <1>4 DEF Take, Ending
  <2> QED BY <2>1, <2>2 DEF MapSteps, MapGives, Trouble
<1>5. CASE Take /\ Outcome.kind # "ok"
  <2>1. Ending = "open" /\ Ending' = "raised" /\ UNCHANGED <<jobs, given, faults>>
    BY <1>5 DEF Take, Ending
  <2> QED BY <1>5, <2>1, RaisesForCause DEF MapSteps, MapFinishes, Trouble
<1>6. CASE Return
  <2>1. Ending = "open" /\ Ending' = "returned" /\ UNCHANGED <<jobs, given, faults>>
    BY <1>6 DEF Return, LeaveWith, Ending
  <2> QED BY <1>6, <2>1, ReturnsAtTheEnd DEF MapSteps, MapFinishes, Trouble
<1>7. CASE NoWorkerLeft
  <2>1. Ending = "open" /\ Ending' = "raised" /\ UNCHANGED <<jobs, given, faults>>
    BY <1>7 DEF NoWorkerLeft, LeaveWith, Ending
  <2> QED BY <1>7, <2>1, NobodyLeft DEF MapSteps, MapFinishes, Trouble
<1>8. CASE Close
  <2>1. Ending = "open" /\ Ending' = "closed" /\ UNCHANGED <<jobs, given, faults>>
    BY <1>8 DEF Close, LeaveWith, Ending
  <2> QED BY <2>1 DEF MapSteps, MapFinishes, Trouble
<1>9. CASE Resume \/ StopDrivers \/ Exit \/ UNCHANGED poolVars
  <2>1. UNCHANGED <<jobs, given, faults>>
    BY <1>9 DEF Resume, StopDrivers, Exit, LeaveWith, poolVars
  <2>2. Ending' = Ending
    BY <1>9 DEF Resume, StopDrivers, Exit, LeaveWith, poolVars, Over, Ending
  <2> QED BY <2>1, <2>2 DEF MapSteps, Trouble
<1> QED BY <1>2, <1>3, <1>4, <1>5, <1>6, <1>7, <1>8, <1>9 DEF PoolNext, Consume

\* Whatever happens to threads and processes, the pool gives its caller what an
\* ordered map promises, and holds no more than the window while it reorders
\* (ProcessPool.imap; OrderedMap is the promise).
THEOREM PoolKeepsOrder == PoolSpec => OrderIsKept
<1>1. PoolInit => Ordered!MapInit
  <2> SUFFICES ASSUME PoolInit PROVE Ordered!MapInit
    OBVIOUS
  <2>1. Ending = "open" /\ ~(faults > 0) /\ given = <<>> BY DEF PoolInit, Ending
  <2> QED BY <2>1 DEF Ordered!MapInit, Ending
<1>2. PoolInv /\ [PoolNext]_poolVars =>
          [Ordered!Give \/ Ordered!Trouble \/ Ordered!Finish]_<<jobs, given, faults > 0, Ending>>
  <2> SUFFICES ASSUME PoolInv, [PoolNext]_poolVars
               PROVE  [Ordered!Give \/ Ordered!Trouble \/ Ordered!Finish]_
                          <<jobs, given, faults > 0, Ending>>
    OBVIOUS
  <2>1. MapSteps BY PoolStep
  <2>2. MapGives => Ordered!Give BY DEF MapGives, Ordered!Give, Ordered!Due, MapDue, Ending, Trouble
  <2>3. MapTrouble => Ordered!Trouble BY DEF MapTrouble, Ordered!Trouble, Ending, Trouble
  <2>4. MapFinishes => Ordered!Finish
    BY DEF MapFinishes, Ordered!Finish, Ordered!Due, MapDue, Ending, Trouble
  <2> QED BY <2>1, <2>2, <2>3, <2>4 DEF MapSteps, Trouble
<1>3. PoolInv => WithinWindow
  <2> SUFFICES ASSUME PoolInv PROVE WithinWindow
    OBVIOUS
  <2> DEFINE Held == {d \in Drivers : driver[d].at \in {"send", "receive", "lost"}}
  <2>1. Typed /\ Held \subseteq Passed BY DEF PoolInv, MapInv, Passed
  <2>2. Cardinality(Held) <= Cardinality(Passed) /\ Cardinality(Held) \in Nat
    BY <2>1, Counts, FS_Subset, FS_CardinalityType
  <2> QED BY <2>1, <2>2, Counts, WindowTyped DEF PoolInv, RoomInv, WithinWindow
<1> QED BY <1>1, <1>2, <1>3, PoolInductive, PTL DEF PoolSpec, OrderIsKept, Ordered!MapSpec, Ending

-----------------------------------------------------------------------------
(* Derivation: files and rows.                                              *)

FileStages == {"peeling", "addresses", "detectors", "commit"}

(* The attempt that will commit a row runs with no such row committed, and  *)
(* the file is the one it has published.                                    *)
FileInv ==
    /\ RowsNameTheirFiles
    /\ work = [f \in DOMAIN work |-> work[f]] /\ "stage" \in DOMAIN work
    /\ work.stage # "idle" => "graph" \in DOMAIN work
    /\ work.stage = "graph_row" => graphRow = Null /\ graphFile = work.graph
    /\ work.stage \in FileStages => storeRow = Null

LEMMA FileInit == Init => FileInv
BY DEF Init, FileInv, RowsNameTheirFiles, Idle, FileStages

(* What a step of an attempt makes of its tables leaves its stage alone.    *)
Same(w, v) ==
    /\ v = [f \in DOMAIN v |-> v[f]] /\ DOMAIN v = DOMAIN w
    /\ v.stage = w.stage /\ v.graph = w.graph

LEMMA JobsKeepTheStage ==
    ASSUME NEW F, NEW w, w = [f \in DOMAIN w |-> w[f]], "stage" \in DOMAIN w, "graph" \in DOMAIN w, NEW job
    PROVE  /\ Same(w, Took(PeelingChunk(F, w, job)))
           /\ Same(w, Took(AddressPartition(F, w, job)))
           /\ Same(w, Took(DetectorSlice(F, w, job)))
           /\ Same(w, CoinjoinChunks(F, w))
<1>1. ASSUME NEW v, Same(w, v) PROVE Same(w, Took(v))
  BY <1>1 DEF Same, Took
<1>2. Same(w, PeelingChunk(F, w, job)) BY DEF Same, PeelingChunk
<1>3. Same(w, AddressPartition(F, w, job))
  <2>1. PICK a, b, c, d :
            AddressPartition(F, w, job) = [w EXCEPT !.features = a, !.kept = b, !.cand = c, !.position = d]
    BY ZenonT(30) DEF AddressPartition
  <2>2. Same(w, [w EXCEPT !.features = a, !.kept = b, !.cand = c, !.position = d]) BY DEF Same
  <2> QED BY <2>1, <2>2
<1>4. Same(w, DetectorSlice(F, w, job)) BY DEF Same, DetectorSlice
<1>5. Same(w, CoinjoinChunks(F, w)) BY DEF Same, CoinjoinChunks
<1> QED BY <1>1, <1>2, <1>3, <1>4, <1>5

LEMMA TakingKeepsFiles == ASSUME FileInv, TakeResult PROVE FileInv'
<1>1. /\ work = [f \in DOMAIN work |-> work[f]] /\ "stage" \in DOMAIN work /\ "graph" \in DOMAIN work
      /\ work.stage \in {"peeling", "addresses", "detectors"}
  BY DEF FileInv, TakeResult
<1>2. /\ Same(work, work')
      /\ UNCHANGED <<graphFile, graphRow, storeFile, storeRow>>
  BY <1>1, JobsKeepTheStage DEF TakeResult, Move
<1> QED BY <1>1, <1>2 DEF FileInv, RowsNameTheirFiles, Same, FileStages

LEMMA StartAddressesKeepsFiles == ASSUME FileInv, StartAddresses PROVE FileInv'
<1>1. /\ work = [f \in DOMAIN work |-> work[f]] /\ "stage" \in DOMAIN work /\ "graph" \in DOMAIN work
      /\ work.stage = "peeling"
  BY DEF FileInv, StartAddresses
<1> DEFINE v == CoinjoinChunks(work.store, work)
           todo == [p \in 1 .. work.plan.partitions |-> p - 1]
<1>2. Same(work, v) BY <1>1, JobsKeepTheStage
<1>3. work' = NextJobs(v, "addresses", todo) /\ UNCHANGED <<graphFile, graphRow, storeFile, storeRow>>
  BY DEF StartAddresses, Move
<1> HIDE DEF v, todo
<1>4. /\ work' = [f \in DOMAIN work' |-> work'[f]] /\ "stage" \in DOMAIN work' /\ "graph" \in DOMAIN work'
      /\ work'.stage = "addresses"
  BY <1>1, <1>2, <1>3 DEF Same, NextJobs
<1> QED BY <1>1, <1>3, <1>4 DEF FileInv, RowsNameTheirFiles, FileStages

(* Every other step of an attempt sets the stage and little else.           *)
LEMMA StepKeepsFiles == FileInv /\ [Next]_vars => FileInv'
<1> SUFFICES ASSUME FileInv, [Next]_vars PROVE FileInv'
  OBVIOUS
<1> USE DEF FileInv, RowsNameTheirFiles, FileStages
<1>1. CASE UNCHANGED vars BY <1>1 DEF vars
<1>2. ASSUME NEW m \in machines, NEW n \in machines, Begin(m, n) PROVE FileInv'
  BY <1>2 DEF Begin, Begun
<1>3. ASSUME NEW m \in machines, NEW n \in machines, Refuse(m, n) PROVE FileInv'
  BY <1>3 DEF Refuse
<1>4. CASE ReuseGraph BY <1>4 DEF ReuseGraph, Move
<1>5. CASE PublishGraph
  <2>1. CASE graphFile = Null \/ graphFile = BuiltGraph BY <1>5, <2>1 DEF PublishGraph
  <2>2. CASE ~(graphFile = Null \/ graphFile = BuiltGraph) BY <1>5, <2>2 DEF PublishGraph, Idle
  <2> QED BY <2>1, <2>2
<1>6. CASE CommitGraph BY <1>6 DEF CommitGraph
<1>7. CASE ReuseFindings BY <1>7 DEF ReuseFindings, Idle
<1>8. CASE MemoryFindings BY <1>8 DEF MemoryFindings
<1>9. CASE StartWalks BY <1>9 DEF StartWalks, Move, Chunked
<1>10. CASE RefuseWorkers BY <1>10 DEF RefuseWorkers, Move, Idle
<1>11. CASE StartAddresses BY <1>11, StartAddressesKeepsFiles
<1>12. CASE PublishFeatures BY <1>12 DEF PublishFeatures, NextJobs
<1>13. CASE Rank BY <1>13 DEF Rank, Move
<1>14. ASSUME NEW k \in Jobs, RunJob(k) PROVE FileInv'
  BY <1>14 DEF RunJob, Move
<1>15. CASE TakeResult BY <1>15, TakingKeepsFiles
<1>16. CASE CommitFindings BY <1>16 DEF CommitFindings, Idle
<1>17. CASE Fail BY <1>17 DEF Fail, Idle
<1> QED
  BY <1>1, <1>2, <1>3, <1>4, <1>5, <1>6, <1>7, <1>8, <1>9, <1>10, <1>11, <1>12, <1>13, <1>14, <1>15, <1>16, <1>17
  DEF Next

(* However attempts fail, retry and change their mode, and whatever posts   *)
(* come after: a committed graph or feature-store row names a file with the *)
(* content it hashed (builder.py publish_graph, feature_store.py publish).  *)
THEOREM RowsKeepTheirFiles == SeedSpec => []RowsNameTheirFiles
<1>1. FileInv /\ [SeedNext]_allVars => FileInv'
  <2> SUFFICES ASSUME FileInv, [Next]_vars PROVE FileInv'
    BY DEF SeedNext, Derive, allVars, vars
  <2> QED BY StepKeepsFiles
<1>2. SeedInit => FileInv BY FileInit DEF SeedInit
<1>3. FileInv => RowsNameTheirFiles BY DEF FileInv
<1> QED BY <1>1, <1>2, <1>3, PTL DEF SeedSpec

-----------------------------------------------------------------------------
(* ResourcePlan: shares.                                                    *)

Larger(a, b) == IF a >= b THEN a ELSE b
Smaller(a, b) == IF a <= b THEN a ELSE b

LEMMA MaxOfTwo ==
    ASSUME NEW a \in Int, NEW b \in Int
    PROVE  Max({a, b}) = Larger(a, b)
<1>1. \A x : (x \in {a, b} /\ \A y \in {a, b} : x >= y) <=> x = Larger(a, b)
  BY DEF Larger
<1> QED BY <1>1 DEF Max

LEMMA MinOfThree ==
    ASSUME NEW a \in Int, NEW b \in Int, NEW c \in Int
    PROVE  Min({a, b, c}) = Smaller(a, Smaller(b, c))
<1>1. \A x : (x \in {a, b, c} /\ \A y \in {a, b, c} : x <= y) <=> x = Smaller(a, Smaller(b, c))
  BY DEF Smaller
<1> QED BY <1>1 DEF Min

LEMMA MinOfTwo ==
    ASSUME NEW a \in Int, NEW b \in Int
    PROVE  Min({a, b}) = Smaller(a, b)
<1>1. \A x : (x \in {a, b} /\ \A y \in {a, b} : x <= y) <=> x = Smaller(a, b)
  BY DEF Smaller
<1> QED BY <1>1 DEF Min

LEMMA Division ==
    ASSUME NEW a \in Int, NEW b \in Int, b > 0
    PROVE  /\ a \div b \in Int /\ b * (a \div b) <= a /\ a < b * (a \div b) + b
           /\ a >= 0 => a \div b >= 0
OBVIOUS

(* The figures and settings a machine may have.                             *)
Figures(m) == {m.available, m.pinned, m.cpus, m.workers} \subseteq Nat

LEMMA BudgetIs == ASSUME NEW m, Figures(m) PROVE Budget(m) \in Nat /\ Budget(m) >= 64
<1>1. CASE m.pinned > 0
  <2>1. Max({64, m.pinned}) = Larger(64, m.pinned) BY MaxOfTwo DEF Figures
  <2> QED BY <1>1, <2>1 DEF Budget, Larger, Figures
<1>2. CASE ~(m.pinned > 0)
  <2> DEFINE base == IF m.available > 0 THEN (m.available * 6) \div 10 ELSE 2048
  <2>1. base \in Int BY Division DEF Figures
  <2> HIDE DEF base
  <2>2. Max({256, base}) = Larger(256, base) BY <2>1, MaxOfTwo
  <2>3. Budget(m) = Max({256, base}) BY <1>2 DEF Budget, base
  <2> QED BY <2>1, <2>2, <2>3 DEF Larger
<1> QED BY <1>1, <1>2

LEMMA SupportedIs ==
    ASSUME NEW m, Figures(m)
    PROVE  /\ SupportedWorkers(m) \in Nat \ {0}
           /\ SupportedWorkers(m) > 1 => 320 * SupportedWorkers(m) <= Budget(m) \div 4
<1> DEFINE b == Budget(m) \div 4
           x == (Budget(m) - 512) \div 512
           y == b \div 320
           z == Smaller(m.cpus, Smaller(x, y))
<1>1. b \in Int /\ x \in Int /\ y \in Int /\ 320 * y <= b
  <2>1. Budget(m) \in Int BY BudgetIs
  <2>2. b \in Int /\ x \in Int BY <2>1, Division
  <2> HIDE DEF b
  <2> QED BY <2>2, Division
<1>2. SupportedWorkers(m) = Max({1, Min({m.cpus, x, y})}) BY DEF SupportedWorkers
<1>3. m.cpus \in Int BY DEF Figures
<1> HIDE DEF b, x, y
<1>4. Min({m.cpus, x, y}) = z BY <1>1, <1>3, MinOfThree
<1>5. z \in Int /\ z <= y BY <1>1, <1>3 DEF Smaller
<1> HIDE DEF z
<1>6. SupportedWorkers(m) = Larger(1, z) BY <1>2, <1>4, <1>5, MaxOfTwo
<1> QED BY <1>1, <1>5, <1>6 DEF Larger, b

LEMMA ProcessesAre ==
    ASSUME NEW m, Figures(m), WorkersAdmitted(m), NEW records \in Nat
    PROVE  /\ WorkerProcesses(m, records) \in Nat \ {0}
           /\ WorkerProcesses(m, records) <= SupportedWorkers(m)
<1> DEFINE s == SupportedWorkers(m)
           g == Budget(m) \div 1024
<1>1. s \in Nat \ {0} /\ g \in Int BY SupportedIs, BudgetIs, Division
<1>2. WorkerProcesses(m, records) \in {m.workers, 1, Max({1, Min({s, g})})} BY DEF WorkerProcesses
<1>3. WorkerProcesses(m, records) = m.workers => m.workers > 0 \/ m.workers \in {1, Max({1, Min({s, g})})}
  BY DEF WorkerProcesses
<1>4. m.workers <= s /\ m.workers \in Nat BY DEF WorkersAdmitted, Figures
<1> HIDE DEF s, g
<1>5. Min({s, g}) = Smaller(s, g) BY <1>1, MinOfTwo
<1>6. Max({1, Smaller(s, g)}) = Larger(1, Smaller(s, g)) BY <1>1, MaxOfTwo DEF Smaller
<1> QED BY <1>1, <1>2, <1>3, <1>4, <1>5, <1>6 DEF Smaller, Larger, s

(* Whatever a machine has to give or is told, for any number of records:    *)
(* the partitions all processes hold at once fit the share meant for them,  *)
(* and their DuckDB pools together fit the parent's (resources.py:225,      *)
(* bounded.py:975).                                                         *)
THEOREM PlansFit ==
    ASSUME NEW m, Figures(m), WorkersAdmitted(m), NEW records \in Nat
    PROVE  PlanFits(m, records)
<1> DEFINE w == WorkerProcesses(m, records)
           need == Needed(records)
           share == Share(m)
           b == Budget(m) \div 4
<1>1. w \in Nat \ {0} /\ w <= SupportedWorkers(m) BY ProcessesAre
<1>2. need \in Nat BY PlanAssumption DEF Needed
<1>3. share \in Nat \ {0}
  <2> DEFINE tenths == (Budget(m) * 4) \div 10
  <2>1. tenths \in Int
    <3>1. Budget(m) * 4 \in Int BY BudgetIs
    <3> HIDE DEF Budget
    <3> QED BY <3>1, Division
  <2>2. share = Max({1, tenths}) BY DEF Share
  <2> HIDE DEF tenths, share
  <2>3. share = Larger(1, tenths) BY <2>1, <2>2, MaxOfTwo
  <2> QED BY <2>1, <2>3 DEF Larger
<1>4. b \in Nat BY BudgetIs, Division
<1>5. Partitions(m, records) = Max({1, CeilDiv(need, share)}) * w BY DEF Partitions
<1>6. ChildMemory(m, records) = Max({128, b \div w}) /\ StoreMemory(m) = Max({256, b}) BY DEF ChildMemory, StoreMemory
<1>7. w > 1 => 320 * w <= b
  <2>1. SupportedWorkers(m) \in Nat /\ (SupportedWorkers(m) > 1 => 320 * SupportedWorkers(m) <= b)
    BY SupportedIs
  <2> HIDE DEF w, b
  <2> QED BY <1>1, <1>4, <2>1
<1>8. PlanFits(m, records) <=> /\ w * need <= Partitions(m, records) * share
                               /\ w > 1 => w * ChildMemory(m, records) <= StoreMemory(m)
  BY DEF PlanFits
<1> HIDE DEF w, need, share, b
<1>9. w * need <= Partitions(m, records) * share
  <2> DEFINE q == (need + share - 1) \div share
             p == Larger(1, q)
  <2>1. q \in Int /\ need + share - 1 < share * q + share
    <3>1. need + share - 1 \in Int BY <1>2, <1>3
    <3> QED BY <1>3, <3>1, Division
  <2>2. CeilDiv(need, share) = q BY DEF CeilDiv
  <2> HIDE DEF q
  <2>3. Max({1, CeilDiv(need, share)}) = p BY <2>1, <2>2, MaxOfTwo
  <2>4. p \in Nat /\ p >= q BY <2>1 DEF Larger
  <2> HIDE DEF p
  <2>5. need <= share * q
    <3>1. PICK x \in Int : x = share * q BY <1>3, <2>1
    <3> QED BY <1>2, <1>3, <2>1, <3>1
  <2>6. share * q <= share * p BY <1>3, <2>1, <2>4
  <2>7. need <= share * p
    <3>1. share * q \in Int /\ share * p \in Int BY <1>3, <2>1, <2>4
    <3> QED BY <1>2, <2>5, <2>6, <3>1
  <2>8. w * need <= w * (share * p)
    <3>1. PICK x \in Nat : x = share * p BY <1>3, <2>4
    <3> QED BY <1>1, <1>2, <2>7, <3>1
  <2>9. w * (share * p) = (p * w) * share BY <1>1, <1>3, <2>4
  <2> QED BY <1>5, <2>3, <2>8, <2>9
<1>10. ASSUME w > 1 PROVE w * ChildMemory(m, records) <= StoreMemory(m)
  <2> DEFINE c == b \div w
  <2>1. c \in Int /\ w * c <= b BY <1>1, <1>4, Division
  <2> HIDE DEF c
  <2>2. Max({128, c}) = Larger(128, c) /\ Max({256, b}) = Larger(256, b) BY <1>4, <2>1, MaxOfTwo
  <2>3. w * 128 <= b BY <1>1, <1>4, <1>7, <1>10
  <2>4. w * Larger(128, c) <= b BY <2>1, <2>3 DEF Larger
  <2>5. b <= Larger(256, b) BY <1>4 DEF Larger
  <2> QED BY <1>1, <1>4, <1>6, <2>1, <2>2, <2>4, <2>5 DEF c, Larger
<1> QED BY <1>8, <1>9, <1>10

-----------------------------------------------------------------------------
(* ReviewSeeds: what one set of seeds finds.                                *)

LEMMA LeastNumber ==
    ASSUME NEW S \in SUBSET Nat, S # {}
    PROVE  Min(S) \in S /\ \A n \in S : Min(S) <= n
<1>1. \E n \in S : \A m \in S : ~(<<m, n>> \in OpToRel(<, Nat))
  BY NatLessThanWellFounded, WFMin
<1>2. PICK n \in S : \A m \in S : ~(m < n)
  BY <1>1 DEF OpToRel
<1>3. \E n0 \in S : \A m \in S : n0 <= m
  BY <1>2
<1> QED BY <1>3 DEF Min

Targets(points) == {s[1] : s \in points}
Finders(F, points, a) == {s \in points : FoundAt(F, s, a) # {}}
PathsTo(F, points, a) == UNION {FoundAt(F, s, a) : s \in Finders(F, points, a)}

LEMMA SignalsAre ==
    ASSUME NEW F, NEW points
    PROVE  /\ \A a : a \in DOMAIN Signals(F, points) <=>
                         a \in Addresses(F) \cup Targets(points) /\ Finders(F, points, a) # {}
           /\ \A a \in DOMAIN Signals(F, points) :
                  /\ Signals(F, points)[a].distance = Min(PathsTo(F, points, a))
                  /\ Signals(F, points)[a].count = Cardinality(Finders(F, points, a))
BY Zenon DEF Signals, Finders, PathsTo, Targets

LEMMA HopsAre ==
    ASSUME NEW F, NEW points, NEW a, Finders(F, points, a) # {}
    PROVE  PathsTo(F, points, a) \in SUBSET Nat /\ PathsTo(F, points, a) # {}
<1>1. \A s : FoundAt(F, s, a) \subseteq Nat
  <2> SUFFICES ASSUME NEW s PROVE FoundAt(F, s, a) \subseteq Nat
    OBVIOUS
  <2>1. \A f, S : {h \in 0 .. MaxSeedDepth : \E p \in f[h] : LockOf(F, p) = a} \subseteq Nat
    BY SeedDepthAssumption
  <2> QED BY SeedDepthAssumption DEF FoundAt
<1> QED BY <1>1 DEF PathsTo, Finders

(* More seeds find more, as near and as often.                              *)
LEMMA SignalsGrow ==
    ASSUME NEW F, NEW more, IsFiniteSet(more), NEW points \in SUBSET more
    PROVE  /\ DOMAIN Signals(F, points) \subseteq DOMAIN Signals(F, more)
           /\ \A a \in DOMAIN Signals(F, points) :
                  /\ Signals(F, points)[a].distance \in Nat
                  /\ Signals(F, more)[a].distance <= Signals(F, points)[a].distance
                  /\ Signals(F, points)[a].count \in 1 .. Signals(F, more)[a].count
<1>1. /\ \A a : Finders(F, points, a) \subseteq Finders(F, more, a) /\ PathsTo(F, points, a) \subseteq PathsTo(F, more, a)
      /\ Targets(points) \subseteq Targets(more)
  BY DEF Finders, PathsTo, Targets
<1>2. DOMAIN Signals(F, points) \subseteq DOMAIN Signals(F, more)
  BY <1>1, SignalsAre
<1>3. ASSUME NEW a \in DOMAIN Signals(F, points)
      PROVE  /\ Signals(F, points)[a].distance \in Nat
             /\ Signals(F, more)[a].distance <= Signals(F, points)[a].distance
             /\ Signals(F, points)[a].count \in 1 .. Signals(F, more)[a].count
  <2>1. Finders(F, points, a) # {} /\ Finders(F, more, a) # {} /\ a \in DOMAIN Signals(F, more)
    BY <1>1, <1>2, SignalsAre
  <2>2. /\ Min(PathsTo(F, points, a)) \in PathsTo(F, points, a)
        /\ \A n \in PathsTo(F, more, a) : Min(PathsTo(F, more, a)) <= n
    BY <2>1, HopsAre, LeastNumber
  <2>3. Min(PathsTo(F, points, a)) \in Nat /\ Min(PathsTo(F, more, a)) <= Min(PathsTo(F, points, a))
    BY <1>1, <2>1, <2>2, HopsAre
  <2>4. IsFiniteSet(Finders(F, more, a)) /\ IsFiniteSet(Finders(F, points, a))
    BY <1>1, FS_Subset DEF Finders
  <2>5. /\ Cardinality(Finders(F, points, a)) \in Nat /\ Cardinality(Finders(F, more, a)) \in Nat
        /\ Cardinality(Finders(F, points, a)) # 0
        /\ Cardinality(Finders(F, points, a)) <= Cardinality(Finders(F, more, a))
    BY <1>1, <2>1, <2>4, FS_CardinalityType, FS_EmptySet, FS_Subset
  <2> QED BY <2>1, <2>3, <2>5, SignalsAre
<1> QED BY <1>2, <1>3

-----------------------------------------------------------------------------
(* ReviewSeeds: posts that overlap.                                         *)

PostFields == {"at", "seed", "sees", "copy", "adds", "alone"}

(* A post sees the seeds committed now and its own, and adds a finding for  *)
(* each address of them that has none now.                                  *)
Adds(c) == posts[c].at = "swapped" => posts[c].adds = NewFindings(posts[c].sees)

PostInv(c) ==
    Open(c) =>
        /\ posts[c] = [f \in PostFields |-> posts[c][f]]
        /\ posts[c].at \in {"reading", "rewriting", "swapped"}
        /\ posts[c].sees = Signals(facts, seeds \cup {posts[c].seed})
        /\ Adds(c)

PostsInv ==
    /\ IsFiniteSet(seeds)
    /\ posts = [c \in Clients |-> posts[c]]
    /\ \A c \in Clients : PostInv(c)

ReportInv == /\ PostsInv /\ ReachIsReported /\ \A f \in proximity : f.distance \in Nat /\ f.count \in Nat

Strong(file) == \A a \in DOMAIN file : file[a].distance \in Nat

(* One that is alone has the file to itself; what it wrote shows all it     *)
(* sees.                                                                    *)
Shows(file, signals) ==
    \A a \in DOMAIN signals \cap InFile : a \in DOMAIN file /\ file[a].distance <= signals[a].distance

AloneInv(c) ==
    Open(c) =>
        /\ posts[c].alone => InFlight = {c}
        /\ Strong(posts[c].copy)
        /\ posts[c].at \in {"rewriting", "swapped"} => Shows(posts[c].copy, posts[c].sees)
        /\ posts[c].at = "swapped" /\ posts[c].alone => exposure = posts[c].copy

RepairInv == PostsInv /\ Strong(exposure) /\ \A c \in Clients : AloneInv(c)

LEMMA PostsInit == SeedInit => PostsInv
<1> SUFFICES ASSUME SeedInit PROVE PostsInv
  OBVIOUS
<1>1. \A c \in Clients : ~Open(c) BY DEF SeedInit, Open
<1>2. IsFiniteSet({}) BY FS_EmptySet
<1> QED BY <1>1, <1>2 DEF SeedInit, PostsInv, PostInv

(* What the steps of a post leave of every post's own state.                *)
LEMMA InsertIs ==
    ASSUME PostsInv, NEW c \in Clients, NEW s, Insert(c, s)
    PROVE  /\ seeds' = seeds /\ proximity' = proximity /\ exposure' = exposure
           /\ posts' = [d \in Clients |-> posts'[d]] /\ ~Open(c)
           /\ posts'[c] = [f \in PostFields |-> posts'[c][f]]
           /\ posts'[c].at = "reading" /\ posts'[c].seed = s /\ posts'[c].copy = None
           /\ posts'[c].sees = Signals(facts, seeds \cup {s}) /\ posts'[c].alone = (InFlight = {})
           /\ \A d \in Clients \ {c} : ~Open(d) => posts'[d] = Free
           /\ \A d \in Clients \ {c} : Open(d) =>
                  /\ posts'[d] = [f \in PostFields |-> posts'[d][f]] /\ ~posts'[d].alone
                  /\ \A f \in PostFields \ {"alone"} : posts'[d][f] = posts[d][f]
<1> DEFINE new == [at |-> "reading", seed |-> s, sees |-> Signals(facts, seeds \cup {s}),
                   copy |-> None, adds |-> {}, alone |-> InFlight = {}]
<1>1. /\ posts' = [d \in Clients |-> IF d = c THEN new
                                     ELSE IF Open(d) THEN [posts[d] EXCEPT !.alone = FALSE] ELSE Free]
      /\ seeds' = seeds /\ proximity' = proximity /\ exposure' = exposure /\ ~Open(c)
  BY DEF Insert, Inserted
<1>2. /\ new = [f \in PostFields |-> new[f]] /\ new.at = "reading" /\ new.seed = s /\ new.copy = None
      /\ new.sees = Signals(facts, seeds \cup {s}) /\ new.alone = (InFlight = {})
  BY DEF PostFields
<1> HIDE DEF new
<1>3. posts'[c] = new BY <1>1
<1>4. \A d \in Clients \ {c} : ~Open(d) => posts'[d] = Free BY <1>1
<1>5. ASSUME NEW d \in Clients \ {c}, Open(d)
      PROVE  /\ posts'[d] = [f \in PostFields |-> posts'[d][f]] /\ ~posts'[d].alone
             /\ \A f \in PostFields \ {"alone"} : posts'[d][f] = posts[d][f]
  <2>1. posts[d] = [f \in PostFields |-> posts[d][f]] BY <1>5 DEF PostsInv, PostInv
  <2>2. posts'[d] = [posts[d] EXCEPT !.alone = FALSE] BY <1>1, <1>5
  <2> QED BY <2>1, <2>2 DEF PostFields
<1> QED BY <1>1, <1>2, <1>3, <1>4, <1>5

LEMMA RewriteIs ==
    ASSUME PostsInv, NEW c \in Clients, Rewrite(c)
    PROVE  /\ seeds' = seeds /\ proximity' = proximity /\ exposure' = exposure
           /\ posts' = [d \in Clients |-> posts'[d]] /\ Open(c)
           /\ posts'[c] = [f \in PostFields |-> posts'[c][f]]
           /\ posts'[c].at = "rewriting" /\ posts'[c].copy = Merged(exposure, posts[c].sees)
           /\ \A f \in {"seed", "sees", "alone"} : posts'[c][f] = posts[c][f]
           /\ \A d \in Clients \ {c} : posts'[d] = posts[d]
<1>1. posts[c] = [f \in PostFields |-> posts[c][f]] /\ posts = [d \in Clients |-> posts[d]] /\ Open(c)
  BY DEF PostsInv, PostInv, Rewrite
<1> DEFINE copy == Merged(exposure, posts[c].sees)
           p == [posts[c] EXCEPT !.at = "rewriting", !.copy = copy]
<1>2. /\ posts' = [posts EXCEPT ![c] = p] /\ seeds' = seeds /\ proximity' = proximity /\ exposure' = exposure
  BY <1>1 DEF Rewrite
<1> HIDE DEF copy
<1>3. /\ p = [f \in PostFields |-> p[f]] /\ p.at = "rewriting" /\ p.copy = copy
      /\ \A f \in {"seed", "sees", "alone"} : p[f] = posts[c][f]
  BY <1>1 DEF PostFields
<1> HIDE DEF p
<1> QED BY <1>1, <1>2, <1>3 DEF copy

LEMMA SwapIs ==
    ASSUME PostsInv, NEW c \in Clients, Swap(c)
    PROVE  /\ seeds' = seeds /\ proximity' = proximity /\ exposure' = posts[c].copy
           /\ posts' = [d \in Clients |-> posts'[d]] /\ Open(c) /\ posts[c].at = "rewriting"
           /\ posts'[c] = [f \in PostFields |-> posts'[c][f]]
           /\ posts'[c].at = "swapped" /\ posts'[c].adds = NewFindings(posts[c].sees)
           /\ \A f \in {"seed", "sees", "alone", "copy"} : posts'[c][f] = posts[c][f]
           /\ \A d \in Clients \ {c} : posts'[d] = posts[d]
<1>1. posts[c] = [f \in PostFields |-> posts[c][f]] /\ posts = [d \in Clients |-> posts[d]] /\ Open(c)
  BY DEF PostsInv, PostInv, Swap
<1> DEFINE adds == NewFindings(posts[c].sees)
           p == [posts[c] EXCEPT !.at = "swapped", !.adds = adds]
<1>2. /\ posts' = [posts EXCEPT ![c] = p] /\ seeds' = seeds /\ proximity' = proximity
      /\ exposure' = posts[c].copy /\ posts[c].at = "rewriting"
  BY <1>1 DEF Swap
<1> HIDE DEF adds
<1>3. /\ p = [f \in PostFields |-> p[f]] /\ p.at = "swapped" /\ p.adds = adds
      /\ \A f \in {"seed", "sees", "alone", "copy"} : p[f] = posts[c][f]
  BY <1>1 DEF PostFields
<1> HIDE DEF p
<1> QED BY <1>1, <1>2, <1>3 DEF adds

LEMMA ClosedIs ==
    ASSUME PostsInv, NEW c \in Clients, Commit(c) \/ Abort(c)
    PROVE  /\ posts' = [d \in Clients |-> posts'[d]] /\ Open(c) /\ posts'[c] = Free /\ exposure' = exposure
           /\ \A d \in Clients \ {c} : posts'[d] = posts[d]
           /\ \/ seeds' = seeds /\ proximity' = proximity
              \/ /\ InFlight = {c} /\ posts[c].at = "swapped"
                 /\ seeds' = seeds \cup {posts[c].seed} /\ proximity' = proximity \cup posts[c].adds
                 /\ hashed' = posts[c].copy
<1>1. posts = [d \in Clients |-> posts[d]] BY DEF PostsInv
<1>2. Open(c) /\ posts' = [posts EXCEPT ![c] = Free] /\ exposure' = exposure BY DEF Commit, Committed, Abort
<1>3. \/ seeds' = seeds /\ proximity' = proximity
      \/ /\ InFlight = {c} /\ posts[c].at = "swapped"
         /\ seeds' = seeds \cup {posts[c].seed} /\ proximity' = proximity \cup posts[c].adds
         /\ hashed' = posts[c].copy
  BY DEF Commit, Committed, Abort
<1> QED BY <1>1, <1>2, <1>3

LEMMA PostKept ==
    ASSUME NEW c \in Clients, PostInv(c), Open(c)' => Open(c), facts' = facts, seeds' = seeds, proximity' = proximity,
           posts'[c] = [f \in PostFields |-> posts'[c][f]], posts'[c].at \in {"reading", "rewriting", "swapped"},
           posts'[c].sees = posts[c].sees, posts'[c].seed = posts[c].seed,
           posts'[c].at = "swapped" => \/ posts[c].at = "swapped" /\ posts'[c].adds = posts[c].adds
                                       \/ posts'[c].adds = NewFindings(posts[c].sees)
    PROVE  PostInv(c)'
<1> SUFFICES ASSUME Open(c)' PROVE PostInv(c)'
  BY DEF PostInv
<1>1. posts[c].sees = Signals(facts, seeds \cup {posts[c].seed}) /\ Adds(c) BY DEF PostInv
<1>2. NewFindings(posts[c].sees)' = NewFindings(posts[c].sees) BY DEF NewFindings
<1>3. Adds(c)' BY <1>1, <1>2 DEF Adds
<1>4. posts'[c].sees = Signals(facts, seeds \cup {posts[c].seed}) BY <1>1
<1> QED BY <1>3, <1>4 DEF PostInv

PostStep(c) == Rewrite(c) \/ Swap(c) \/ Commit(c) \/ Abort(c)

(* One that commits is the only one; before, nobody's seeds or findings     *)
(* change.                                                                  *)
LEMMA PostsStep == PostsInv /\ [SeedNext]_allVars => PostsInv'
<1> SUFFICES ASSUME PostsInv, [SeedNext]_allVars PROVE PostsInv'
  OBVIOUS
<1>1. CASE UNCHANGED allVars
  <2>1. UNCHANGED <<facts, seeds, posts, proximity>> BY <1>1 DEF allVars
  <2>2. ASSUME NEW c \in Clients PROVE PostInv(c)'
    <3>1. PostInv(c) /\ (Open(c)' <=> Open(c)) BY <2>1 DEF PostsInv, Open
    <3>2. CASE Open(c)
      <4>1. posts[c] = [f \in PostFields |-> posts[c][f]] /\ posts[c].at \in {"reading", "rewriting", "swapped"}
        BY <3>1, <3>2 DEF PostInv
      <4> QED BY <2>1, <3>1, <4>1, PostKept
    <3>3. CASE ~Open(c) BY <3>1, <3>3 DEF PostInv
    <3> QED BY <3>2, <3>3
  <2> QED BY <2>1, <2>2 DEF PostsInv
<1>2. CASE Derive
  <2>1. /\ UNCHANGED <<seeds, posts, proximity>> /\ \A c \in Clients : ~Open(c)
    BY <1>2 DEF Derive, seedVars, InFlight
  <2> QED BY <2>1 DEF PostsInv, PostInv, Open
<1>3. ASSUME NEW c \in Clients, NEW s, Insert(c, s), facts' = facts PROVE PostsInv'
  <2>1. posts' = [d \in Clients |-> posts'[d]] /\ seeds' = seeds /\ proximity' = proximity BY <1>3, InsertIs
  <2>2. PostInv(c)'
    <3>1. /\ posts'[c] = [f \in PostFields |-> posts'[c][f]] /\ posts'[c].at = "reading"
          /\ posts'[c].seed = s /\ posts'[c].sees = Signals(facts, seeds \cup {s})
      BY <1>3, InsertIs
    <3> QED BY <1>3, <2>1, <3>1 DEF PostInv, Adds
  <2>3. ASSUME NEW d \in Clients \ {c} PROVE PostInv(d)'
    <3>1. CASE ~Open(d)
      <4>1. posts'[d] = Free BY <1>3, <3>1, InsertIs
      <4> QED BY <4>1 DEF PostInv, Open
    <3>2. CASE Open(d)
      <4>1. /\ posts'[d] = [f \in PostFields |-> posts'[d][f]]
            /\ \A f \in PostFields \ {"alone"} : posts'[d][f] = posts[d][f]
        BY <1>3, <3>2, InsertIs
      <4>2. /\ posts'[d].at = posts[d].at /\ posts'[d].sees = posts[d].sees
            /\ posts'[d].seed = posts[d].seed /\ posts'[d].adds = posts[d].adds
        BY <4>1 DEF PostFields
      <4>3. PostInv(d) /\ posts[d].at \in {"reading", "rewriting", "swapped"} BY <3>2 DEF PostsInv, PostInv
      <4> QED BY <1>3, <2>1, <3>2, <4>1, <4>2, <4>3, PostKept
    <3> QED BY <3>1, <3>2
  <2> QED BY <2>1, <2>2, <2>3 DEF PostsInv
<1>4. ASSUME NEW c \in Clients, PostStep(c), facts' = facts PROVE PostsInv'
  <2>1. CASE Rewrite(c) \/ Swap(c)
    <3>1. /\ posts' = [d \in Clients |-> posts'[d]] /\ seeds' = seeds /\ proximity' = proximity /\ Open(c)
          /\ posts'[c] = [f \in PostFields |-> posts'[c][f]]
          /\ posts'[c].at \in {"rewriting", "swapped"}
          /\ posts'[c].sees = posts[c].sees /\ posts'[c].seed = posts[c].seed
          /\ posts'[c].at = "swapped" => posts'[c].adds = NewFindings(posts[c].sees)
          /\ \A d \in Clients \ {c} : posts'[d] = posts[d]
      BY <2>1, RewriteIs, SwapIs
    <3>2. \A d \in Clients : PostInv(d) BY DEF PostsInv
    <3>3. PostInv(c)' BY <1>4, <3>1, <3>2, PostKept
    <3>4. ASSUME NEW d \in Clients \ {c} PROVE PostInv(d)'
      <4>1. posts'[d] = posts[d] /\ (Open(d)' <=> Open(d)) BY <3>1 DEF Open
      <4>2. Open(d) => /\ posts[d] = [f \in PostFields |-> posts[d][f]]
                       /\ posts[d].at \in {"reading", "rewriting", "swapped"}
        BY <3>2 DEF PostInv
      <4>3. CASE Open(d) BY <1>4, <3>1, <3>2, <4>1, <4>2, <4>3, PostKept
      <4>4. CASE ~Open(d) BY <4>1, <4>4 DEF PostInv
      <4> QED BY <4>3, <4>4
    <3> QED BY <3>1, <3>3, <3>4 DEF PostsInv
  <2>2. CASE Commit(c) \/ Abort(c)
    <3>1. /\ posts' = [d \in Clients |-> posts'[d]] /\ posts'[c] = Free
          /\ \A d \in Clients \ {c} : posts'[d] = posts[d]
          /\ \/ seeds' = seeds /\ proximity' = proximity
             \/ InFlight = {c} /\ seeds' = seeds \cup {posts[c].seed}
      BY <2>2, ClosedIs
    <3>2. \A d \in Clients : PostInv(d) BY DEF PostsInv
    <3>3. PostInv(c)' BY <3>1 DEF PostInv, Open
    <3>4. ASSUME NEW d \in Clients \ {c} PROVE PostInv(d)'
      <4>1. CASE seeds' = seeds /\ proximity' = proximity
        <5>1. posts'[d] = posts[d] /\ (Open(d)' <=> Open(d)) BY <3>1 DEF Open
        <5>2. Open(d) => /\ posts[d] = [f \in PostFields |-> posts[d][f]]
                         /\ posts[d].at \in {"reading", "rewriting", "swapped"}
          BY <3>2 DEF PostInv
        <5>3. CASE Open(d) BY <1>4, <3>2, <4>1, <5>1, <5>2, <5>3, PostKept
        <5>4. CASE ~Open(d) BY <5>1, <5>4 DEF PostInv
        <5> QED BY <5>3, <5>4
      <4>2. CASE InFlight = {c} BY <3>1, <4>2 DEF PostInv, Open, InFlight
      <4> QED BY <3>1, <4>1, <4>2
    <3>5. IsFiniteSet(seeds')
      <4>1. IsFiniteSet(seeds) BY DEF PostsInv
      <4>2. IsFiniteSet(seeds \cup {posts[c].seed}) BY <4>1, FS_AddElement
      <4> QED BY <3>1, <4>1, <4>2
    <3> QED BY <3>1, <3>3, <3>4, <3>5 DEF PostsInv
  <2> QED BY <1>4, <2>1, <2>2 DEF PostStep
<1>5. \/ UNCHANGED allVars \/ Derive
      \/ \E c \in Clients : ((\E s : Insert(c, s)) \/ PostStep(c)) /\ facts' = facts
  BY DEF SeedNext, PostStep, vars
<1> QED BY <1>1, <1>2, <1>3, <1>4, <1>5

LEMMA NothingIsFound == ASSUME NEW F PROVE DOMAIN Signals(F, {}) = {}
<1>1. \A a : Finders(F, {}, a) = {} BY DEF Finders
<1> QED BY <1>1, SignalsAre

(* A commit with the seeds it was made for leaves the reach of all reported.*)
LEMMA CommitReports ==
    ASSUME ReportInv, PostsInv', facts' = facts, NEW c \in Clients, Open(c), posts[c].at = "swapped",
           seeds' = seeds \cup {posts[c].seed}, proximity' = proximity \cup posts[c].adds
    PROVE  ReportInv'
<1> DEFINE old == Signals(facts, seeds)
           reach == Signals(facts, seeds')
<1>1. /\ posts[c].sees = reach /\ posts[c].adds = NewFindings(reach)
  BY DEF ReportInv, PostsInv, PostInv, Adds
<1>2. /\ DOMAIN old \subseteq DOMAIN reach
      /\ \A a \in DOMAIN old : /\ old[a].distance \in Nat /\ reach[a].distance <= old[a].distance
                               /\ old[a].count \in 1 .. reach[a].count
      /\ \A a \in DOMAIN reach : reach[a].distance \in Nat /\ reach[a].count \in 1 .. reach[a].count
  BY SignalsGrow DEF PostsInv
<1> HIDE DEF old, reach
<1>3. /\ {f.address : f \in proximity} = DOMAIN old
      /\ \A f, g \in proximity : f.address = g.address => f = g
      /\ \A f \in proximity : f.distance >= old[f.address].distance /\ f.count \in 1 .. old[f.address].count
      /\ \A f \in proximity : f.distance \in Nat /\ f.count \in Nat
  BY DEF ReportInv, ReachIsReported, old
<1>4. \A f : f \in proximity' <=>
          \/ f \in proximity
          \/ \E a \in DOMAIN reach \ DOMAIN old :
                 f = [address |-> a, distance |-> reach[a].distance, count |-> reach[a].count]
  BY <1>1, <1>3 DEF NewFindings
<1>5. \A f \in proximity : f.address \in DOMAIN old BY <1>3
<1>6. {f.address : f \in proximity'} = DOMAIN reach
  <2>1. ASSUME NEW f \in proximity' PROVE f.address \in DOMAIN reach BY <1>2, <1>4, <1>5, <2>1
  <2>2. ASSUME NEW a \in DOMAIN reach PROVE \E f \in proximity' : f.address = a
    <3>1. CASE a \in DOMAIN old BY <1>3, <1>4, <3>1
    <3>2. CASE a \notin DOMAIN old
      <4> DEFINE f == [address |-> a, distance |-> reach[a].distance, count |-> reach[a].count]
      <4>1. f \in proximity' /\ f.address = a BY <1>4, <3>2
      <4> QED BY <4>1
    <3> QED BY <3>1, <3>2
  <2> QED BY <2>1, <2>2
<1>7. ASSUME NEW f \in proximity', NEW g \in proximity', f.address = g.address PROVE f = g
  BY <1>3, <1>4, <1>5, <1>7
<1>8. ASSUME NEW f \in proximity'
      PROVE  /\ f.distance >= reach[f.address].distance /\ f.count \in 1 .. reach[f.address].count
             /\ f.distance \in Nat /\ f.count \in Nat
  <2>1. CASE f \in proximity
    <3> DEFINE a == f.address
    <3>1. a \in DOMAIN old /\ f.distance >= old[a].distance /\ f.count \in 1 .. old[a].count
          /\ f.distance \in Nat /\ f.count \in Nat
      BY <1>3, <1>5, <2>1
    <3>2. old[a].distance \in Nat /\ reach[a].distance <= old[a].distance /\ old[a].count \in 1 .. reach[a].count
          /\ a \in DOMAIN reach /\ reach[a].distance \in Nat /\ reach[a].count \in 1 .. reach[a].count
      BY <1>2, <3>1
    <3> HIDE DEF a
    <3>3. f.distance >= reach[a].distance /\ f.count \in 1 .. reach[a].count BY <3>1, <3>2
    <3> QED BY <3>1, <3>3 DEF a
  <2>2. CASE f \notin proximity
    <3>1. PICK a \in DOMAIN reach :
              f = [address |-> a, distance |-> reach[a].distance, count |-> reach[a].count]
      BY <1>4, <2>2
    <3>2. reach[a].distance \in Nat /\ reach[a].count \in 1 .. reach[a].count BY <1>2
    <3>3. f.address = a /\ f.distance = reach[a].distance /\ f.count = reach[a].count BY <3>1
    <3> QED BY <3>2, <3>3
  <2> QED BY <2>1, <2>2
<1>9. ReachIsReported'
  BY <1>6, <1>7, <1>8 DEF ReachIsReported, reach
<1> QED BY <1>8, <1>9 DEF ReportInv

LEMMA ReportStep == ReportInv /\ PostsInv' /\ [SeedNext]_allVars => ReportInv'
<1> SUFFICES ASSUME ReportInv, PostsInv', [SeedNext]_allVars PROVE ReportInv'
  OBVIOUS
<1>0. PostsInv BY DEF ReportInv
<1>1. ASSUME UNCHANGED <<facts, seeds, proximity>> PROVE ReportInv'
  BY <1>1 DEF ReportInv, ReachIsReported
<1>2. CASE Derive
  <2>1. seeds = {} /\ seeds' = {} /\ proximity' = proximity BY <1>2 DEF Derive, seedVars
  <2>2. {f.address : f \in proximity} = {} BY <2>1, NothingIsFound DEF ReportInv, ReachIsReported
  <2>3. proximity' = {} BY <2>1, <2>2
  <2> QED BY <2>1, <2>3, NothingIsFound DEF ReportInv, ReachIsReported
<1>3. ASSUME NEW c \in Clients, (\E s : Insert(c, s)) \/ PostStep(c), facts' = facts PROVE ReportInv'
  <2>1. CASE seeds' = seeds /\ proximity' = proximity BY <1>1, <1>3, <2>1
  <2>2. CASE ~(seeds' = seeds /\ proximity' = proximity)
    <3>1. Commit(c) \/ Abort(c)
      BY <1>0, <1>3, <2>2, InsertIs, RewriteIs, SwapIs DEF PostStep
    <3>2. /\ Open(c) /\ posts[c].at = "swapped" /\ seeds' = seeds \cup {posts[c].seed}
          /\ proximity' = proximity \cup posts[c].adds
      BY <1>0, <2>2, <3>1, ClosedIs
    <3> QED BY <1>3, <3>2, CommitReports
  <2> QED BY <2>1, <2>2
<1>4. \/ UNCHANGED allVars \/ Derive
      \/ \E c \in Clients : ((\E s : Insert(c, s)) \/ PostStep(c)) /\ facts' = facts
  BY DEF SeedNext, PostStep, vars
<1> QED BY <1>1, <1>2, <1>3, <1>4 DEF allVars

(* For any evidence, clients and offers of seeds, however posts overlap and *)
(* abort: exactly the addresses the committed seeds reach have a finding,   *)
(* one each, and it shows no shorter a path and no more seeds than there    *)
(* are (routes.py:488, deterministic.py:1085).                              *)
THEOREM SeedsAreReported == SeedSpec => []ReachIsReported
<1>1. SeedInit => ReportInv
  <2> SUFFICES ASSUME SeedInit PROVE ReportInv
    OBVIOUS
  <2>1. PostsInv BY PostsInit
  <2>2. seeds = {} /\ proximity = {} BY DEF SeedInit
  <2> QED BY <2>1, <2>2, NothingIsFound DEF ReportInv, ReachIsReported
<1>2. ReportInv /\ [SeedNext]_allVars => ReportInv'
  BY PostsStep, ReportStep DEF ReportInv
<1>3. ReportInv => ReachIsReported BY DEF ReportInv
<1> QED BY <1>1, <1>2, <1>3, PTL DEF SeedSpec

LEMMA MergedIs ==
    ASSUME NEW file, Strong(file), NEW signals, \A a \in DOMAIN signals : signals[a].distance \in Nat
    PROVE  Strong(Merged(file, signals)) /\ Shows(Merged(file, signals), signals)
<1> DEFINE taken == {a \in DOMAIN signals \cap InFile : a \in DOMAIN file => signals[a].distance <= file[a].distance}
           merged == [a \in DOMAIN file \cup taken |-> IF a \in taken THEN signals[a] ELSE file[a]]
<1>1. Merged(file, signals) = merged BY DEF Merged
<1>2. \A a \in DOMAIN file : file[a].distance \in Nat BY DEF Strong
<1>3. \A a : a \in taken <=> /\ a \in DOMAIN signals \cap InFile
                             /\ a \in DOMAIN file => signals[a].distance <= file[a].distance
  OBVIOUS
<1> HIDE DEF taken
<1>4. /\ DOMAIN merged = DOMAIN file \cup taken
      /\ \A a \in taken : merged[a] = signals[a]
      /\ \A a \in DOMAIN file \ taken : merged[a] = file[a]
  OBVIOUS
<1> HIDE DEF merged
<1>5. Strong(merged) BY <1>2, <1>3, <1>4 DEF Strong
<1>6. ASSUME NEW a \in DOMAIN signals \cap InFile
      PROVE  a \in DOMAIN merged /\ merged[a].distance <= signals[a].distance
  <2>1. CASE a \in taken BY <1>4, <2>1
  <2>2. CASE a \notin taken
    <3>1. a \in DOMAIN file /\ ~(signals[a].distance <= file[a].distance) BY <1>3, <2>2
    <3>2. signals[a].distance \in Nat /\ file[a].distance \in Nat /\ merged[a] = file[a] BY <1>2, <1>4, <2>2, <3>1
    <3> QED BY <1>4, <3>1, <3>2
  <2> QED BY <2>1, <2>2
<1> QED BY <1>1, <1>5, <1>6 DEF Shows

LEMMA SeesAre ==
    ASSUME PostsInv, NEW c \in Clients, Open(c)
    PROVE  \A a \in DOMAIN posts[c].sees : posts[c].sees[a].distance \in Nat
<1> DEFINE all == seeds \cup {posts[c].seed}
<1>1. posts[c].sees = Signals(facts, all) BY DEF PostsInv, PostInv
<1>2. IsFiniteSet(all) BY FS_AddElement DEF PostsInv
<1> HIDE DEF all
<1> QED BY <1>1, <1>2, SignalsGrow

(* Nothing that AloneInv says of a post changes while it and the file do.   *)
LEMMA AloneKept ==
    ASSUME NEW d \in Clients, AloneInv(d), Open(d), storeRow' = storeRow,
           posts'[d].copy = posts[d].copy, posts'[d].sees = posts[d].sees, posts'[d].at = posts[d].at,
           posts'[d].alone => posts[d].alone /\ InFlight' = InFlight /\ exposure' = exposure
    PROVE  AloneInv(d)'
<1>1. Strong(posts[d].copy) /\ (posts[d].at \in {"rewriting", "swapped"} => Shows(posts[d].copy, posts[d].sees))
  BY DEF AloneInv
<1>2. Shows(posts[d].copy, posts[d].sees)' <=> Shows(posts[d].copy, posts[d].sees)
  BY DEF Shows, InFile
<1>3. Strong(posts'[d].copy) BY <1>1
<1> QED BY <1>1, <1>2, <1>3 DEF AloneInv, Strong

LEMMA RepairStep ==
    ASSUME RepairInv, PostsInv', facts' = facts, storeRow' = storeRow,
           NEW c \in Clients, (\E s : Insert(c, s)) \/ PostStep(c)
    PROVE  RepairInv'
<1>0. PostsInv /\ Strong(exposure) /\ \A d \in Clients : AloneInv(d) BY DEF RepairInv
<1>1. CASE \E s : Insert(c, s)
  <2>1. PICK s : Insert(c, s) BY <1>1
  <2>2. Strong(exposure') BY <1>0, <2>1, InsertIs
  <2>3. AloneInv(c)'
    <3>1. posts'[c].at = "reading" /\ posts'[c].copy = None /\ posts'[c].alone = (InFlight = {})
      BY <1>0, <2>1, InsertIs
    <3>2. ASSUME InFlight = {}, Open(c)' PROVE InFlight' = {c}
      <4>1. \A d \in Clients \ {c} : posts'[d] = Free BY <1>0, <2>1, <3>2, InsertIs DEF InFlight
      <4> QED BY <3>2, <4>1 DEF InFlight, Open
    <3>3. Strong(posts'[c].copy) BY <3>1 DEF Strong, None
    <3> QED BY <3>1, <3>2, <3>3 DEF AloneInv, Strong
  <2>4. ASSUME NEW d \in Clients \ {c} PROVE AloneInv(d)'
    <3>1. CASE ~Open(d)
      <4>1. posts'[d] = Free BY <1>0, <2>1, <3>1, InsertIs
      <4> QED BY <4>1 DEF AloneInv, Open
    <3>2. CASE Open(d)
      <4>1. ~posts'[d].alone /\ \A f \in PostFields \ {"alone"} : posts'[d][f] = posts[d][f]
        BY <1>0, <2>1, <3>2, InsertIs
      <4>2. posts'[d].at = posts[d].at /\ posts'[d].sees = posts[d].sees /\ posts'[d].copy = posts[d].copy
        BY <4>1 DEF PostFields
      <4> QED BY <1>0, <3>2, <4>1, <4>2, AloneKept
    <3> QED BY <3>1, <3>2
  <2> QED BY <2>2, <2>3, <2>4 DEF RepairInv, Strong
<1>2. CASE Rewrite(c)
  <2>1. /\ exposure' = exposure /\ Open(c) /\ posts'[c].at = "rewriting"
        /\ posts'[c].copy = Merged(exposure, posts[c].sees)
        /\ posts'[c].sees = posts[c].sees /\ posts'[c].alone = posts[c].alone
        /\ \A d \in Clients \ {c} : posts'[d] = posts[d]
    BY <1>0, <1>2, RewriteIs
  <2>2. InFlight' = InFlight
    <3>1. Open(c)' BY <2>1 DEF Open, Free
    <3> QED BY <2>1, <3>1 DEF InFlight, Open
  <2>3. AloneInv(c)'
    <3>1. Strong(posts'[c].copy) /\ Shows(posts'[c].copy, posts'[c].sees)
      <4>1. \A a \in DOMAIN posts[c].sees : posts[c].sees[a].distance \in Nat BY <1>0, <2>1, SeesAre
      <4> QED BY <1>0, <2>1, <4>1, MergedIs
    <3>2. Shows(posts[c].copy, posts[c].sees)' BY <3>1 DEF Shows, InFile
    <3>3. posts[c].alone => InFlight = {c} BY <1>0, <2>1 DEF AloneInv
    <3> QED BY <2>1, <2>2, <3>1, <3>2, <3>3 DEF AloneInv, Strong
  <2>4. ASSUME NEW d \in Clients \ {c} PROVE AloneInv(d)'
    <3>1. CASE Open(d) BY <1>0, <2>1, <2>2, <3>1, AloneKept
    <3>2. CASE ~Open(d) BY <2>1, <3>2 DEF AloneInv, Open
    <3> QED BY <3>1, <3>2
  <2> QED BY <1>0, <2>1, <2>3, <2>4 DEF RepairInv, Strong
<1>3. CASE Swap(c)
  <2>1. /\ exposure' = posts[c].copy /\ Open(c) /\ posts'[c].at = "swapped" /\ posts[c].at = "rewriting"
        /\ posts'[c].copy = posts[c].copy
        /\ posts'[c].sees = posts[c].sees /\ posts'[c].alone = posts[c].alone
        /\ \A d \in Clients \ {c} : posts'[d] = posts[d]
    BY <1>0, <1>3, SwapIs
  <2>2. InFlight' = InFlight
    <3>1. Open(c)' BY <2>1 DEF Open, Free
    <3> QED BY <2>1, <3>1 DEF InFlight, Open
  <2>3. Strong(posts[c].copy) /\ Shows(posts[c].copy, posts[c].sees) /\ (posts[c].alone => InFlight = {c})
    BY <1>0, <2>1 DEF AloneInv
  <2>4. AloneInv(c)'
    <3>1. Shows(posts[c].copy, posts[c].sees)' BY <2>1, <2>3 DEF Shows, InFile
    <3> QED BY <2>1, <2>2, <2>3, <3>1 DEF AloneInv, Strong
  <2>5. ASSUME NEW d \in Clients \ {c} PROVE AloneInv(d)'
    <3>1. CASE Open(d)
      <4>1. ~posts[d].alone BY <1>0, <2>1, <3>1 DEF AloneInv, InFlight
      <4> QED BY <1>0, <2>1, <2>2, <3>1, <4>1, AloneKept
    <3>2. CASE ~Open(d) BY <2>1, <3>2 DEF AloneInv, Open
    <3> QED BY <3>1, <3>2
  <2>6. Strong(exposure') BY <2>1, <2>3
  <2> QED BY <2>4, <2>5, <2>6 DEF RepairInv, Strong
<1>4. CASE Commit(c) \/ Abort(c)
  <2>1. /\ exposure' = exposure /\ Open(c) /\ posts'[c] = Free
        /\ \A d \in Clients \ {c} : posts'[d] = posts[d]
    BY <1>0, <1>4, ClosedIs
  <2>2. AloneInv(c)' BY <2>1 DEF AloneInv, Open
  <2>3. ASSUME NEW d \in Clients \ {c} PROVE AloneInv(d)'
    <3>1. CASE Open(d)
      <4>1. ~posts[d].alone BY <1>0, <2>1, <3>1 DEF AloneInv, InFlight
      <4> QED BY <1>0, <2>1, <3>1, <4>1, AloneKept
    <3>2. CASE ~Open(d) BY <2>1, <3>2 DEF AloneInv, Open
    <3> QED BY <3>1, <3>2
  <2> QED BY <1>0, <2>1, <2>2, <2>3 DEF RepairInv, Strong
<1> QED BY <1>1, <1>2, <1>3, <1>4 DEF PostStep

LEMMA RepairInductive == RepairInv /\ [SeedNext]_allVars => RepairInv'
<1> SUFFICES ASSUME RepairInv, [SeedNext]_allVars PROVE RepairInv'
  OBVIOUS
<1>1. PostsInv' BY PostsStep DEF RepairInv
<1>2. CASE UNCHANGED allVars
  <2>1. UNCHANGED <<posts, exposure, storeRow>> BY <1>2 DEF allVars
  <2>2. ASSUME NEW d \in Clients PROVE AloneInv(d)'
    <3>1. AloneInv(d) BY DEF RepairInv
    <3>2. CASE Open(d)
      <4>1. InFlight' = InFlight BY <2>1 DEF InFlight, Open
      <4> QED BY <2>1, <3>1, <3>2, <4>1, AloneKept
    <3>3. CASE ~Open(d) BY <2>1, <3>3 DEF AloneInv, Open
    <3> QED BY <3>2, <3>3
  <2> QED BY <1>1, <2>1, <2>2 DEF RepairInv, Strong
<1>3. CASE Derive
  <2>1. /\ UNCHANGED <<posts, exposure>> /\ \A c \in Clients : ~Open(c)
    BY <1>3 DEF Derive, seedVars, InFlight
  <2>2. \A c \in Clients : AloneInv(c)' BY <2>1 DEF AloneInv, Open
  <2> QED BY <1>1, <2>1, <2>2 DEF RepairInv, Strong
<1>4. \/ UNCHANGED allVars \/ Derive
      \/ \E c \in Clients : ((\E s : Insert(c, s)) \/ PostStep(c)) /\ facts' = facts /\ storeRow' = storeRow
  BY DEF SeedNext, PostStep, vars
<1> QED BY <1>1, <1>2, <1>3, <1>4, RepairStep

LEMMA CommitRepairs == RepairInv /\ [SeedNext]_allVars => LoneRequestsRepair
<1> SUFFICES ASSUME RepairInv, [SeedNext]_allVars, NEW c \in Clients,
                    Open(c), posts[c].alone, seeds' # seeds, posts'[c] = Free
             PROVE  LET reach == Signals(facts, seeds')
                    IN /\ hashed' = exposure'
                       /\ \A a \in DOMAIN reach \cap InFile :
                              a \in DOMAIN exposure' /\ exposure'[a].distance <= reach[a].distance
  BY DEF LoneRequestsRepair
<1>0. PostsInv /\ AloneInv(c) /\ PostInv(c) BY DEF RepairInv, PostsInv
<1>1. PICK d \in Clients : (\E s : Insert(d, s)) \/ PostStep(d)
  BY DEF SeedNext, PostStep, Derive, allVars, seedVars
<1>2. Commit(d) \/ Abort(d) BY <1>0, <1>1, InsertIs, RewriteIs, SwapIs DEF PostStep
<1>3. /\ exposure' = exposure /\ InFlight = {d} /\ posts[d].at = "swapped"
      /\ seeds' = seeds \cup {posts[d].seed} /\ hashed' = posts[d].copy
  BY <1>0, <1>2, ClosedIs
<1>4. d = c BY <1>3 DEF InFlight
<1>5. /\ posts[c].sees = Signals(facts, seeds') /\ exposure = posts[c].copy
      /\ Shows(posts[c].copy, posts[c].sees)
  BY <1>0, <1>3, <1>4 DEF AloneInv, PostInv
<1> QED BY <1>3, <1>4, <1>5 DEF Shows

(* A post that ran alone and commits leaves a feature file that shows all   *)
(* the committed seeds reach, as strongly, whatever overlapping or aborted  *)
(* posts had left in it, and the store row has its hash (routes.py:488,     *)
(* feature_store.py rewrite_vectors).                                       *)
THEOREM LonePostsRepair == SeedSpec => SeedsAreRepaired
<1>1. SeedInit => RepairInv
  <2> SUFFICES ASSUME SeedInit PROVE RepairInv
    OBVIOUS
  <2>1. PostsInv BY PostsInit
  <2>2. exposure = None /\ \A c \in Clients : ~Open(c) BY DEF SeedInit, Open
  <2> QED BY <2>1, <2>2 DEF RepairInv, AloneInv, Strong, None
<1> QED BY <1>1, RepairInductive, CommitRepairs, PTL DEF SeedSpec, SeedsAreRepaired
=============================================================================
