---------------------------- MODULE TaskScheduler ----------------------------
(***************************************************************************)
(* The parallel task scheduler of subx-core                                *)
(* (src/src/core/parallel/scheduler.rs).                                   *)
(*                                                                         *)
(* Clients submit jobs one at a time (submit_task_with_priority) or as a   *)
(* batch (submit_batch_tasks) to a bounded queue.  A background loop, a    *)
(* tokio task, takes a semaphore permit and a job and spawns a worker that *)
(* runs the job, answers on the job's oneshot channel and releases the     *)
(* permit.  The loop ends after an idle timeout and a later submission     *)
(* starts a new one.                                                       *)
(*                                                                         *)
(* One action is one critical section (the code holds a std Mutex) or one  *)
(* semaphore or channel operation: everything in between is local to its   *)
(* process.  The multi-threaded tokio runtime may interleave these freely. *)
(***************************************************************************)
EXTENDS Naturals, Sequences, FiniteSets, SequencesExt

CONSTANTS
  Clients,      \* concurrent callers of the scheduler (clones share all state)
  Jobs,         \* boxed tasks, each submitted at most once
  Ids,          \* the strings Task::task_id returns
  Plan,         \* client -> the jobs it submits, in order
  IsBatch,      \* client -> the whole plan is one submit_batch_tasks call
  TaskId,       \* job -> its task_id()
  Prio,         \* job -> TaskPriority as a number, Low = 0 .. Critical = 3
  QueueCap,     \* parallel.task_queue_size
  MaxJobs,      \* general.max_concurrent_jobs
  Configs,      \* the [strategy, priorities] settings explored
  IdleExit,     \* may worker_idle_timeout elapse?
  Cancellable,  \* clients whose future may be dropped at an await
  Outcomes      \* how a task may end: "success", "failed" (or timed out), "panic"

Strategies == {"Block", "DropOldest", "Reject", "Drop", "Expand"}

\* TaskPriority, whose derived order PendingTask is compared by.
Priorities == 0..3   \* Low, Normal, High, Critical

\* ParallelConfig::validate; the scheduler is not made from anything else.
Accepted(jobs, size) == jobs # 0 /\ size # 0

\* A batch job always has priority Normal; no job is submitted twice.
ASSUME ConstantsAssumption ==
  /\ IsFiniteSet(Clients) /\ IsFiniteSet(Jobs)
  /\ Plan \in [Clients -> Seq(Jobs)]
  /\ \A c \in Clients : Plan[c] # <<>>
  /\ \A c, d \in Clients : \A i \in DOMAIN Plan[c], k \in DOMAIN Plan[d] :
       Plan[c][i] = Plan[d][k] => c = d /\ i = k
  /\ IsBatch \in [Clients -> BOOLEAN]
  /\ TaskId \in [Jobs -> Ids]
  /\ Prio \in [Jobs -> Priorities]
  /\ \A c \in Clients : IsBatch[c] =>
       \A i \in DOMAIN Plan[c] : Prio[Plan[c][i]] = 1
  /\ QueueCap \in Nat /\ MaxJobs \in Nat
  /\ Accepted(MaxJobs, QueueCap)
  /\ Configs \subseteq [strategy : Strategies, priorities : BOOLEAN]
  /\ IdleExit \in BOOLEAN
  /\ Cancellable \subseteq Clients
  /\ Outcomes \subseteq {"success", "failed", "panic"}

\* A loop started by a submission is named after that submission's first job.
Main  == "main"
ASSUME MainAssumption == Main \notin Jobs
Loops == Jobs \cup {Main}

NoJob == "nojob"
NoId  == "noid"
ASSUME SentinelAssumption == NoJob \notin Jobs /\ NoId \notin Ids

VARIABLES
  conf,      \* the scheduler's _config: overflow strategy and priority flag
  queue,     \* task_queue
  active,    \* active_tasks: id -> status, or "absent"
  permits,   \* available permits of the semaphore
  handle,    \* scheduler_handle: the loop whose JoinHandle is stored
  loopPc,    \* control state of each scheduler loop
  pending,   \* has_pending, read before has_active
  idle,      \* the loop's last round found no work
  held,      \* job taken from the queue and not yet spawned
  work,      \* control state of the worker of each job
  result,    \* what the task returned, in the worker
  chan,      \* the oneshot channel of each job
  cpc,       \* control state of each client
  idx,       \* position of each client in its plan
  evicted,   \* evicted_id, between popping the queue and cleaning up
  receivers, \* receivers not awaited yet
  got        \* results handed to the client so far

loopVars   == <<loopPc, pending, idle, held>>
workVars   == <<work, result>>
clientVars == <<cpc, idx, evicted, receivers, got>>
vars == <<conf, queue, active, permits, handle, loopVars, workVars, chan,
          clientVars>>

LoopPcs   == {"unborn", "checkPending", "checkActive", "acquire", "pop",
              "mark", "exiting", "finished"}
WorkPcs   == {"idle", "executing", "sending", "releasing", "finished"}
ClientPcs == {"register", "checkSize", "blocked", "evict", "untrack", "enqueue",
              "ensure", "spawn", "store", "await", "leaving", "done"}
Statuses  == {"absent", "pending", "running", "completed"}
Answers   == {"success", "failed", "overflow", "closed"}
Returned  == Answers \cup {"rejected", "cancelled"}

\* TaskScheduler::new_with_config: the first loop is started and its handle
\* stored before any client holds the scheduler.
Init ==
  /\ conf \in Configs
  /\ queue = <<>>
  /\ active = [i \in Ids |-> "absent"]
  /\ permits = MaxJobs
  /\ handle = Main
  /\ loopPc = [l \in Loops |-> IF l = Main THEN "checkPending" ELSE "unborn"]
  /\ pending = [l \in Loops |-> FALSE]
  /\ idle = [l \in Loops |-> FALSE]
  /\ held = [l \in Loops |-> NoJob]
  /\ work = [j \in Jobs |-> "idle"]
  /\ result = [j \in Jobs |-> "none"]
  /\ chan = [j \in Jobs |-> "open"]
  /\ cpc = [c \in Clients |-> "register"]
  /\ idx = [c \in Clients |-> 1]
  /\ evicted = [c \in Clients |-> NoId]
  /\ receivers = [c \in Clients |-> <<>>]
  /\ got = [c \in Clients |-> <<>>]

-----------------------------------------------------------------------------
(* Clients: submit_task_with_priority and submit_batch_tasks *)

Job(c)  == Plan[c][idx[c]]
AtLast(c) == idx[c] = Len(Plan[c])
Full    == Len(queue) >= QueueCap

Goto(c, pc) == cpc' = [cpc EXCEPT ![c] = pc]

\* Insert or overwrite the task's entry with status Pending.
Register(c) ==
  /\ cpc[c] = "register"
  /\ active' = [active EXCEPT ![TaskId[Job(c)]] = "pending"]
  /\ Goto(c, "checkSize")
  /\ UNCHANGED <<conf, queue, permits, handle, loopVars, workVars, chan,
                 idx, evicted, receivers, got>>

\* There is room, or the strategy lets the queue grow.
HasRoom(c) ==
  /\ cpc[c] = "checkSize"
  /\ ~Full \/ conf.strategy = "Expand"
  /\ Goto(c, "enqueue")
  /\ UNCHANGED <<conf, queue, active, permits, handle, loopVars, workVars,
                 chan, idx, evicted, receivers, got>>

\* Block and DropOldest have more to do before the job is enqueued.
Overflow(c) ==
  /\ cpc[c] = "checkSize"
  /\ Full
  /\ \/ conf.strategy = "Block" /\ Goto(c, "blocked")
     \/ conf.strategy = "DropOldest" /\ Goto(c, "evict")
  /\ UNCHANGED <<conf, queue, active, permits, handle, loopVars, workVars,
                 chan, idx, evicted, receivers, got>>

\* Reject and Drop end a single submission; the guard still has to run.
Refuse(c) ==
  /\ cpc[c] = "checkSize"
  /\ Full
  /\ ~IsBatch[c]
  /\ conf.strategy \in {"Reject", "Drop"}
  /\ got' = [got EXCEPT ![c] = Append(@,
               IF conf.strategy = "Reject" THEN "rejected" ELSE "overflow")]
  /\ Goto(c, "leaving")
  /\ UNCHANGED <<conf, queue, active, permits, handle, loopVars, workVars,
                 chan, idx, evicted, receivers>>

\* Reject makes the whole batch return an empty vector at once: the receivers
\* of the jobs already enqueued are dropped, their entries stay.
RefuseBatch(c) ==
  /\ cpc[c] = "checkSize"
  /\ Full
  /\ IsBatch[c]
  /\ conf.strategy = "Reject"
  /\ receivers' = [receivers EXCEPT ![c] = <<>>]
  /\ Goto(c, "done")
  /\ UNCHANGED <<conf, queue, active, permits, handle, loopVars, workVars,
                 chan, idx, evicted, got>>

\* The next job of the plan, if there is one.
NextJob(c, after) ==
  IF AtLast(c) THEN Goto(c, after) /\ UNCHANGED idx
             ELSE Goto(c, "register") /\ idx' = [idx EXCEPT ![c] = @ + 1]

\* Drop makes a batch skip the job (`continue`); its entry stays.
SkipInBatch(c) ==
  /\ cpc[c] = "checkSize"
  /\ Full
  /\ IsBatch[c]
  /\ conf.strategy = "Drop"
  /\ NextJob(c, "ensure")
  /\ UNCHANGED <<conf, queue, active, permits, handle, loopVars, workVars,
                 chan, evicted, receivers, got>>

\* Block: the 10 ms poll that finds space.
Unblock(c) ==
  /\ cpc[c] = "blocked"
  /\ ~Full
  /\ Goto(c, "enqueue")
  /\ UNCHANGED <<conf, queue, active, permits, handle, loopVars, workVars,
                 chan, idx, evicted, receivers, got>>

\* Mutant of Evict: the evicted job's channel gets no answer.
EvictSilently(c) ==
  /\ cpc[c] = "evict"
  /\ queue' = IF queue = <<>> THEN queue ELSE Tail(queue)
  /\ evicted' = [evicted EXCEPT ![c] = IF queue = <<>> THEN @ ELSE TaskId[Head(queue)]]
  /\ Goto(c, IF queue = <<>> THEN "enqueue" ELSE "untrack")
  /\ UNCHANGED <<conf, active, permits, handle, loopVars, workVars, chan, idx,
                 receivers, got>>

\* DropOldest: pop the front job, if it is still there, and answer it.
Evict(c) ==
  /\ cpc[c] = "evict"
  /\ \/ /\ queue = <<>>
        /\ Goto(c, "enqueue")
        /\ UNCHANGED <<queue, chan, evicted>>
     \/ /\ queue # <<>>
        /\ queue' = Tail(queue)
        /\ chan' = [chan EXCEPT ![Head(queue)] = "overflow"]
        /\ evicted' = [evicted EXCEPT ![c] = TaskId[Head(queue)]]
        /\ Goto(c, "untrack")
  /\ UNCHANGED <<conf, active, permits, handle, loopVars, workVars, idx,
                 receivers, got>>

\* DropOldest: remove the evicted job's entry.
Untrack(c) ==
  /\ cpc[c] = "untrack"
  /\ active' = [active EXCEPT ![evicted[c]] = "absent"]
  /\ evicted' = [evicted EXCEPT ![c] = NoId]
  /\ Goto(c, "enqueue")
  /\ UNCHANGED <<conf, queue, permits, handle, loopVars, workVars, chan, idx,
                 receivers, got>>

\* Mutant of InsertHere: every job goes to the back.
InsertAtBack(j, pos) == pos = Len(queue) + 1

\* Before the first job of strictly lower priority, or at the back.
InsertHere(j, pos) ==
  IF conf.priorities
  THEN /\ \A i \in 1..(pos - 1) : Prio[queue[i]] >= Prio[j]
       /\ pos <= Len(queue) => Prio[queue[pos]] < Prio[j]
  ELSE pos = Len(queue) + 1

Enqueue(c) ==
  /\ cpc[c] = "enqueue"
  /\ \E pos \in 1..(Len(queue) + 1) :
       /\ InsertHere(Job(c), pos)
       /\ queue' = InsertAt(queue, pos, Job(c))
  /\ receivers' = [receivers EXCEPT ![c] = Append(@, Job(c))]
  /\ IF IsBatch[c] THEN NextJob(c, "ensure")
                   ELSE Goto(c, "ensure") /\ UNCHANGED idx
  /\ UNCHANGED <<conf, active, permits, handle, loopVars, workVars, chan,
                 evicted, got>>

\* ensure_scheduler_running: is the stored loop's task finished?
Ensure(c) ==
  /\ cpc[c] = "ensure"
  /\ Goto(c, IF loopPc[handle] = "finished" THEN "spawn" ELSE "await")
  /\ UNCHANGED <<conf, queue, active, permits, handle, loopVars, workVars,
                 chan, idx, evicted, receivers, got>>

\* start_scheduler_loop: the loop runs before its handle is stored.
NewLoop(c) == IF IsBatch[c] THEN Plan[c][1] ELSE Job(c)

SpawnLoop(c) ==
  /\ cpc[c] = "spawn"
  /\ loopPc' = [loopPc EXCEPT ![NewLoop(c)] = "checkPending"]
  /\ Goto(c, "store")
  /\ UNCHANGED <<conf, queue, active, permits, handle, pending, idle, held, workVars,
                 chan, idx, evicted, receivers, got>>

StoreHandle(c) ==
  /\ cpc[c] = "store"
  /\ handle' = NewLoop(c)
  /\ Goto(c, "await")
  /\ UNCHANGED <<conf, queue, active, permits, loopVars, workVars, chan, idx,
                 evicted, receivers, got>>

\* Mutant of Await: the receivers of a batch are awaited from the last one.
AwaitLast(c) ==
  /\ cpc[c] = "await"
  /\ receivers[c] # <<>>
  /\ LET j == Last(receivers[c]) IN
       /\ chan[j] # "open"
       /\ got' = [got EXCEPT ![c] = Append(@, chan[j])]
       /\ active' = [active EXCEPT ![TaskId[j]] = "absent"]
  /\ receivers' = [receivers EXCEPT ![c] = Front(@)]
  /\ IF IsBatch[c] THEN UNCHANGED <<cpc, idx>> ELSE NextJob(c, "done")
  /\ UNCHANGED <<conf, queue, permits, handle, loopVars, workVars, chan, evicted>>

\* rx.await resolves: the answer is kept and the entry removed (by the guard of
\* a single submission, by the clean-up after each receiver of a batch).  The
\* channel has no other reader, so receiving and removing are one step.
Await(c) ==
  /\ cpc[c] = "await"
  /\ receivers[c] # <<>>
  /\ LET j == Head(receivers[c]) IN
       /\ chan[j] # "open"
       /\ got' = [got EXCEPT ![c] = Append(@, chan[j])]
       /\ active' = [active EXCEPT ![TaskId[j]] = "absent"]
  /\ receivers' = [receivers EXCEPT ![c] = Tail(@)]
  /\ IF IsBatch[c] THEN UNCHANGED <<cpc, idx>> ELSE NextJob(c, "done")
  /\ UNCHANGED <<conf, queue, permits, handle, loopVars, workVars, chan, evicted>>

\* The batch has awaited every receiver.
ReturnBatch(c) ==
  /\ cpc[c] = "await"
  /\ receivers[c] = <<>>
  /\ Goto(c, "done")
  /\ UNCHANGED <<conf, queue, active, permits, handle, loopVars, workVars,
                 chan, idx, evicted, receivers, got>>

\* ActiveTaskGuard::drop after an early return.
GuardDrop(c) ==
  /\ cpc[c] = "leaving"
  /\ active' = [active EXCEPT ![TaskId[Job(c)]] = "absent"]
  /\ NextJob(c, "done")
  /\ UNCHANGED <<conf, queue, permits, handle, loopVars, workVars, chan,
                 evicted, receivers, got>>

\* The future is dropped at one of its awaits.  A single submission's guard
\* removes its entry; a batch has no guard.  Queued jobs stay queued.
Cancel(c) ==
  /\ c \in Cancellable
  /\ cpc[c] = "blocked" \/ (cpc[c] = "await" /\ receivers[c] # <<>>)
  /\ receivers' = [receivers EXCEPT ![c] = <<>>]
  /\ got' = [got EXCEPT ![c] = Append(@, "cancelled")]
  /\ IF IsBatch[c]
     THEN Goto(c, "done") /\ UNCHANGED <<active, idx>>
     ELSE /\ active' = [active EXCEPT ![TaskId[Job(c)]] = "absent"]
          /\ NextJob(c, "done")
  /\ UNCHANGED <<conf, queue, permits, handle, loopVars, workVars, chan, evicted>>

-----------------------------------------------------------------------------
(* The scheduler loop: start_scheduler_loop *)

LoopGoto(l, pc) == loopPc' = [loopPc EXCEPT ![l] = pc]

CheckPending(l) ==
  /\ loopPc[l] = "checkPending"
  /\ pending' = [pending EXCEPT ![l] = queue # <<>>]
  /\ LoopGoto(l, "checkActive")
  /\ UNCHANGED <<conf, queue, active, permits, handle, idle, held, workVars, chan,
                 clientVars>>

NothingActive == \A i \in Ids : active[i] = "absent"

\* Work seen restarts the idle clock (last_active).  The loop ends when the
\* idle timeout has elapsed, which is nondeterministic but takes more than the
\* 10 ms of one round: the round before must have been idle too.
CheckActive(l) ==
  /\ loopPc[l] = "checkActive"
  /\ LET busy == pending[l] \/ ~NothingActive IN
       \/ /\ idle' = [idle EXCEPT ![l] = ~busy]
          /\ LoopGoto(l, "acquire")
       \/ /\ IdleExit /\ ~busy /\ idle[l]
          /\ LoopGoto(l, "exiting")
          /\ UNCHANGED idle
  /\ UNCHANGED <<conf, queue, active, permits, handle, pending, held, workVars,
                 chan, clientVars>>

\* The runtime marks the ended loop's task as finished.
LoopEnds(l) ==
  /\ loopPc[l] = "exiting"
  /\ LoopGoto(l, "finished")
  /\ UNCHANGED <<conf, queue, active, permits, handle, pending, idle, held, workVars,
                 chan, clientVars>>

\* try_acquire_owned; without a permit the loop sleeps and starts over.
Acquire(l) ==
  /\ loopPc[l] = "acquire"
  /\ IF permits > 0
     THEN permits' = permits - 1 /\ LoopGoto(l, "pop")
     ELSE LoopGoto(l, "checkPending") /\ UNCHANGED permits
  /\ UNCHANGED <<conf, queue, active, handle, pending, idle, held, workVars, chan,
                 clientVars>>

\* pop_front, or max_by_key, which returns the last of the equally high ones.
TakeHere(pos) ==
  IF conf.priorities
  THEN /\ \A i \in 1..Len(queue) : Prio[queue[i]] <= Prio[queue[pos]]
       /\ \A i \in (pos + 1)..Len(queue) : Prio[queue[i]] < Prio[queue[pos]]
  ELSE pos = 1

\* Mutant of Pop: the job is read but not removed.
PopWithoutRemoving(l) ==
  /\ loopPc[l] = "pop"
  /\ \E pos \in DOMAIN queue : TakeHere(pos) /\ held' = [held EXCEPT ![l] = queue[pos]]
  /\ LoopGoto(l, "mark")
  /\ UNCHANGED <<conf, queue, active, permits, handle, pending, idle, workVars, chan,
                 clientVars>>

Pop(l) ==
  /\ loopPc[l] = "pop"
  /\ \E pos \in DOMAIN queue :
       /\ TakeHere(pos)
       /\ held' = [held EXCEPT ![l] = queue[pos]]
       /\ queue' = RemoveAt(queue, pos)
  /\ LoopGoto(l, "mark")
  /\ UNCHANGED <<conf, active, permits, handle, pending, idle, workVars, chan,
                 clientVars>>

\* Mutant of PopNothing: the permit is not given back.
PopNothingKeepingPermit(l) ==
  /\ loopPc[l] = "pop"
  /\ queue = <<>>
  /\ LoopGoto(l, "checkPending")
  /\ UNCHANGED <<conf, queue, active, permits, handle, pending, idle, held, workVars,
                 chan, clientVars>>

\* The queue is empty: give the permit back and sleep.
PopNothing(l) ==
  /\ loopPc[l] = "pop"
  /\ queue = <<>>
  /\ permits' = permits + 1
  /\ LoopGoto(l, "checkPending")
  /\ UNCHANGED <<conf, queue, active, handle, pending, idle, held, workVars, chan,
                 clientVars>>

\* Mutant of SetStatus: a missing entry is created.
SetStatusInserting(j, status) == active' = [active EXCEPT ![TaskId[j]] = status]

SetStatus(j, status) ==
  active' = [active EXCEPT ![TaskId[j]] = IF @ = "absent" THEN @ ELSE status]

\* Mark the entry Running, if there is one, and spawn the worker with the
\* job and the permit.
Mark(l) ==
  /\ loopPc[l] = "mark"
  /\ SetStatus(held[l], "running")
  /\ work' = [work EXCEPT ![held[l]] = "executing"]
  /\ held' = [held EXCEPT ![l] = NoJob]
  /\ LoopGoto(l, "checkPending")
  /\ UNCHANGED <<conf, queue, permits, handle, pending, idle, result, chan, clientVars>>

-----------------------------------------------------------------------------
(* Workers: the task spawned for each job *)

\* The task returns or times out; its entry, if there is one, is Completed.
Complete(j) ==
  /\ work[j] = "executing"
  /\ \E r \in Outcomes \ {"panic"} : result' = [result EXCEPT ![j] = r]
  /\ SetStatus(j, "completed")
  /\ work' = [work EXCEPT ![j] = "sending"]
  /\ UNCHANGED <<conf, queue, permits, handle, loopVars, chan, clientVars>>

\* Mutant of Panic: the permit is not dropped by unwinding.
PanicKeepingPermit(j) ==
  /\ work[j] = "executing"
  /\ "panic" \in Outcomes
  /\ chan' = [chan EXCEPT ![j] = "closed"]
  /\ work' = [work EXCEPT ![j] = "finished"]
  /\ UNCHANGED <<conf, queue, active, permits, handle, loopVars, result,
                 clientVars>>

\* The task panics: unwinding drops the sender, then the permit.
Panic(j) ==
  /\ work[j] = "executing"
  /\ "panic" \in Outcomes
  /\ chan' = [chan EXCEPT ![j] = "closed"]
  /\ work' = [work EXCEPT ![j] = "releasing"]
  /\ UNCHANGED <<conf, queue, active, permits, handle, loopVars, result,
                 clientVars>>

Send(j) ==
  /\ work[j] = "sending"
  /\ chan' = [chan EXCEPT ![j] = result[j]]
  /\ work' = [work EXCEPT ![j] = "releasing"]
  /\ UNCHANGED <<conf, queue, active, permits, handle, loopVars, result,
                 clientVars>>

Release(j) ==
  /\ work[j] = "releasing"
  /\ permits' = permits + 1
  /\ work' = [work EXCEPT ![j] = "finished"]
  /\ UNCHANGED <<conf, queue, active, handle, loopVars, result, chan, clientVars>>

-----------------------------------------------------------------------------
ClientStep(c) ==
  \/ Register(c) \/ HasRoom(c) \/ Overflow(c) \/ Refuse(c) \/ RefuseBatch(c)
  \/ SkipInBatch(c) \/ Unblock(c) \/ Evict(c) \/ Untrack(c) \/ Enqueue(c)
  \/ Ensure(c) \/ SpawnLoop(c) \/ StoreHandle(c) \/ Await(c) \/ ReturnBatch(c)
  \/ GuardDrop(c)

LoopStep(l) ==
  \/ CheckPending(l) \/ CheckActive(l) \/ LoopEnds(l) \/ Acquire(l) \/ Pop(l)
  \/ PopNothing(l) \/ Mark(l)

WorkerStep(j) == Complete(j) \/ Panic(j) \/ Send(j) \/ Release(j)

\* Every client has returned: only the loop may go on.
AllReturned ==
  /\ \A c \in Clients : cpc[c] = "done"
  /\ UNCHANGED vars

Next ==
  \/ \E c \in Clients : ClientStep(c) \/ Cancel(c)
  \/ \E l \in Loops : LoopStep(l)
  \/ \E j \in Jobs : WorkerStep(j)
  \/ AllReturned

Spec == Init /\ [][Next]_vars

\* The runtime polls every task that is ready, timers fire, and a task ends
\* within task_timeout.  Cancellation is never promised.
Fairness ==
  /\ \A c \in Clients : WF_vars(ClientStep(c))
  /\ \A l \in Loops : WF_vars(LoopStep(l))
  /\ \A j \in Jobs : WF_vars(WorkerStep(j))

FairSpec == Spec /\ Fairness

-----------------------------------------------------------------------------
(* Properties *)

InQueue(j) == j \in ToSet(queue)
IsHeld(j)  == \E l \in Loops : held[l] = j

LoopHolders == {l \in Loops : loopPc[l] \in {"pop", "mark"}}
WorkHolders == {j \in Jobs : work[j] \in {"executing", "sending", "releasing"}}

TypeOK ==
  /\ conf \in Configs
  /\ queue \in Seq(Jobs)
  /\ active \in [Ids -> Statuses]
  /\ permits \in Nat
  /\ handle \in Loops
  /\ loopPc \in [Loops -> LoopPcs]
  /\ pending \in [Loops -> BOOLEAN]
  /\ idle \in [Loops -> BOOLEAN]
  /\ held \in [Loops -> Jobs \cup {NoJob}]
  /\ work \in [Jobs -> WorkPcs]
  /\ result \in [Jobs -> {"none", "success", "failed"}]
  /\ chan \in [Jobs -> Answers \cup {"open"}]
  /\ cpc \in [Clients -> ClientPcs]
  /\ idx \in [Clients -> Nat]
  /\ \A c \in Clients : idx[c] \in DOMAIN Plan[c]
  /\ evicted \in [Clients -> Ids \cup {NoId}]
  /\ receivers \in [Clients -> Seq(Jobs)]
  /\ got \in [Clients -> Seq(Returned)]

\* get_active_workers
ActiveWorkers == MaxJobs - permits

\* get_task_status of a job; list_active_tasks gives all that are not absent.
TaskStatus(j) == active[TaskId[j]]

\* Every permit is in the semaphore, with a loop between try_acquire and spawn,
\* or with a worker that has not dropped it: none leaks, whichever loop took it
\* and however the task ends.
PermitsConserved ==
  ActiveWorkers = Cardinality(LoopHolders) + Cardinality(WorkHolders)

\* "SHALL not run more tasks simultaneously": never more than
\* max_concurrent_jobs tasks execute, even while two loops drain the queue.
BoundedConcurrency ==
  Cardinality({j \in Jobs : work[j] = "executing"}) <= MaxJobs

\* A submission that still waits for its answer has its job in the queue, in a
\* loop's hands or in a worker that will answer: rx.await cannot wait for a job
\* that no longer exists.
NoJobLost ==
  \A c \in Clients : \A j \in ToSet(receivers[c]) :
    chan[j] = "open" =>
      InQueue(j) \/ IsHeld(j) \/ work[j] \in {"executing", "sending"}

\* A job is in one place only: popped jobs are gone from the queue, two loops
\* never hold the same job, and a job answered by the overflow handling is
\* never run.
OnePlaceOnly ==
  /\ IsInjective(queue)
  /\ \A j \in Jobs :
       /\ InQueue(j) => ~IsHeld(j)
       /\ InQueue(j) \/ IsHeld(j) => work[j] = "idle" /\ chan[j] = "open"
       /\ chan[j] = "overflow" => work[j] = "idle"
  /\ \A l, m \in Loops : held[l] = held[m] => l = m \/ held[l] = NoJob

\* Submissions that lose no job on the way return results in plan order.
Ordered(c) == ~IsBatch[c] \/ conf.strategy \notin {"Reject", "Drop"}

\* The k-th result a client gets is about its k-th job: what that task itself
\* returned, "closed" only after it panicked, and an overflow or a rejection
\* only for a job that was never started.
AnswersAreOwn ==
  \A c \in Clients : Ordered(c) =>
    \A k \in DOMAIN got[c] :
      LET j == Plan[c][k] IN
        /\ got[c][k] \in {"success", "failed"} => result[j] = got[c][k]
        /\ got[c][k] = "closed" =>
             work[j] \in {"releasing", "finished"} /\ result[j] = "none"
        /\ got[c][k] \in {"overflow", "rejected"} =>
             work[j] = "idle" /\ ~InQueue(j) /\ ~IsHeld(j)

\* get_task_status of a job whose submitter still waits: Pending until a loop
\* takes it, Running while it executes, Completed once it has its result.
WaitedForIsTracked ==
  \A c \in Clients : \A j \in ToSet(receivers[c]) :
    chan[j] = "open" =>
      TaskStatus(j) = CASE work[j] = "idle"      -> "pending"
                            [] work[j] = "executing" -> "running"
                         [] OTHER                 -> "completed"

\* "active_tasks entries are removed when the task's processing scope ends": a
\* single submission that has returned or was cancelled leaves no entry, and
\* no loop or worker brings it back; nor does a batch that awaited every job.
NoStaleEntry ==
  \A c \in Clients :
    /\ ~IsBatch[c] =>
         \A k \in 1..idx[c] :
           k < idx[c] \/ cpc[c] = "done" => TaskStatus(Plan[c][k]) = "absent"
    /\ IsBatch[c] /\ cpc[c] = "done" /\ Len(got[c]) = Len(Plan[c])
         /\ "cancelled" \notin ToSet(got[c]) =>
         \A k \in DOMAIN Plan[c] : TaskStatus(Plan[c][k]) = "absent"

\* active_tasks says what a submission waits for, and forgets what none waits
\* for: loops, workers, returns and cancellations write it in any order.
StatusTruthful == WaitedForIsTracked /\ NoStaleEntry

\* The size check and the push take the queue lock separately, so the queue can
\* outgrow task_queue_size, by less than one job per concurrent submission.
PastCheck == {c \in Clients : cpc[c] \in {"untrack", "enqueue"}}

QueueBounded ==
  conf.strategy # "Expand" =>
    Len(queue) + Cardinality(PastCheck) <= (QueueCap - 1) + Cardinality(Clients)

\* With priorities on, the queue is kept in descending order of priority by
\* insertions, pops and evictions of any interleaving.
QueueSorted ==
  conf.priorities =>
    \A i, k \in DOMAIN queue : i < k => Prio[queue[i]] >= Prio[queue[k]]

\* The queue stays bounded and ordered though it is checked, inserted into, taken
\* from and evicted from in separate critical sections.
QueueSound == QueueBounded /\ QueueSorted

\* Every submission gets its result: submit_task_with_priority and
\* submit_batch_tasks always return.
EverySubmissionReturns == \A c \in Clients : <>(cpc[c] = "done")

\* What the abstract job pool knows of a job.
JobState(j) ==
  CASE chan[j] = "overflow"     -> "discarded"
    [] InQueue(j) \/ IsHeld(j)  -> "waiting"
    [] work[j] = "executing"    -> "running"
    [] work[j] \in {"sending", "releasing", "finished"} -> "finished"
    [] OTHER                    -> "new"

Pool == INSTANCE JobPool WITH state <- [j \in Jobs |-> JobState(j)]

\* The scheduler implements the abstract job pool: its steps are steps of the
\* pool, and every accepted job is run or discarded.
ImplementsJobPool     == Pool!Spec
ImplementsFairJobPool == Pool!FairSpec
=============================================================================
