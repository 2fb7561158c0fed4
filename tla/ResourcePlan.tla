---------------------------- MODULE ResourcePlan ----------------------------
(* What a machine can give an attempt (app/resources.py and the sizes       *)
(* bounded.py takes from the plan), in megabytes.  Each stage asks anew, so *)
(* one attempt may use the plans of a machine at two moments.               *)
EXTENDS Integers, FiniteSetsExt

CONSTANTS RecordCost,   \* memory of one record in an in-memory pass
          DiskCost,     \* scratch one record needs in a bounded pass
          ParallelMin,  \* records from which processes are worth starting
          ChunkCost, ChunkSizes,  \* budget behind a chain of a chunk, and the sizes allowed
          BatchCost, BatchSizes   \* budget behind a record of a batch, and the sizes allowed

ASSUME PlanAssumption ==
    /\ {RecordCost, DiskCost, ChunkCost, BatchCost, ParallelMin} \subseteq Nat \ {0}
    /\ \A sizes \in {ChunkSizes, BatchSizes} : IsFiniteSet(sizes) /\ sizes # {} /\ sizes \subseteq Nat \ {0}

(* A machine: [available, disk, pinned, cpus, mode, workers]; 0 where there *)
(* is no figure or no setting, and mode "auto".                             *)

Clamp(n, sizes) == Max({Min(sizes), Min({n, Max(sizes)})})
CeilDiv(a, b) == (a + b - 1) \div b

Budget(m) ==
    IF m.pinned > 0 THEN Max({64, m.pinned})
    ELSE Max({256, IF m.available > 0 THEN (m.available * 6) \div 10 ELSE 2048})

SupportedWorkers(m) ==
    Max({1, Min({m.cpus, (Budget(m) - 512) \div 512, (Budget(m) \div 4) \div 320})})

WorkersAdmitted(m) == m.workers <= SupportedWorkers(m)

WorkerProcesses(m, records) ==
    IF m.workers > 0 THEN m.workers
    ELSE IF records < ParallelMin THEN 1
    ELSE Max({1, Min({SupportedWorkers(m), Budget(m) \div 1024})})

Needed(records) == records * RecordCost

ExecutionMode(m, records) ==
    IF m.mode # "auto" THEN m.mode
    ELSE IF WorkerProcesses(m, records) > 1 \/ Needed(records) > Budget(m) THEN "bounded" ELSE "memory"

Share(m) == Max({1, (Budget(m) * 4) \div 10})

(* ResourcePlan.partitions, split further when a pool holds several. *)
Partitions(m, records) == Max({1, CeilDiv(Needed(records), Share(m))}) * WorkerProcesses(m, records)

ChainChunk(m) == Clamp(Budget(m) \div ChunkCost, ChunkSizes)

BatchRecords(m, records) ==
    LET whole == Clamp(Budget(m) \div BatchCost, BatchSizes)
        workers == WorkerProcesses(m, records)
    IN IF workers > 1 THEN Max({Min(BatchSizes), whole \div (workers + 1)}) ELSE whole

DiskAdmitted(m, records) == m.disk >= records * DiskCost + 512

(* DuckDB's memory in the parent, or in each process of its pool. *)
StoreMemory(m) == Max({256, Budget(m) \div 4})
ChildMemory(m, records) == Max({128, (Budget(m) \div 4) \div WorkerProcesses(m, records)})

(* The plan of an attempt over records: how it runs is decided when it      *)
(* starts (machine m), its sizes when its facts are staged (machine n).     *)
PlanFor(m, n, records) ==
    IF ExecutionMode(m, records) = "memory"
    THEN [mode |-> "memory", workers |-> 1, chunk |-> 1, partitions |-> 1, admitted |-> TRUE]
    ELSE [mode |-> "bounded", workers |-> WorkerProcesses(n, records), chunk |-> ChainChunk(n),
          partitions |-> Partitions(n, records), admitted |-> WorkersAdmitted(n)]

Admitted(m, n, records) ==
    /\ WorkersAdmitted(m)
    /\ ExecutionMode(m, records) = "bounded" => DiskAdmitted(n, records)

-----------------------------------------------------------------------------
(* Whatever is pinned, the partitions and the DuckDB pools its processes    *)
(* hold at once stay within the shares of the budget the plan gives them    *)
(* (resources.py:225, bounded.py:975 "so the budget still holds").          *)
PlanFits(n, records) ==
    LET workers == WorkerProcesses(n, records)
    IN /\ workers * Needed(records) <= Partitions(n, records) * Share(n)
       /\ workers > 1 => workers * ChildMemory(n, records) <= StoreMemory(n)
=============================================================================
