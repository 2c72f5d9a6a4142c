------------------------------ MODULE Scheduler -------------------------------
(***************************************************************************)
(* The scheduler service: JobRecord documents in its MongoDB, the delayed  *)
(* jobs of its BullMQ queue "dispatcher-queue", the scan that runs every   *)
(* fifteen minutes, the worker that hands a due job over to the queue of   *)
(* the main server, and the cancellation of the jobs of one event. All     *)
(* jobs here belong to one event (deleteJobByEvent touches no others).     *)
(*                                                                         *)
(* Every MongoDB or Redis call is a step of its own. One unit of time      *)
(* stands for five minutes.                                                *)
(***************************************************************************)
EXTENDS Integers, FiniteSets

CONSTANTS
    MaxJobs,    \* bound: calls of scheduleJob in a behaviour
    Scans,      \* executions of the scan that may overlap
    Window,     \* LOOKAHEAD_WINDOW_MS (4: twenty minutes)
    ScanEvery,  \* period of the scan (3: fifteen minutes)
    Horizon,    \* bound: time stops here
    MaxDelays,  \* bound: units of time that pass over unfinished work
    MaxFaults   \* bound: crashes and failing calls in a behaviour

ASSUME SchedulerAssumption ==
    /\ MaxJobs \in Nat \ {0}
    /\ Window \in Nat
    /\ ScanEvery \in Nat \ {0}
    /\ Horizon \in Nat
    /\ MaxDelays \in Nat
    /\ MaxFaults \in Nat

JobIds == 1..MaxJobs
NoId == 0

VARIABLES
    now,        \* the clock
    delays,     \* how often it has moved on over unfinished work
    scanned,    \* TRUE when the scan of this quarter of an hour has begun
    post,       \* the request to create each job
    due,        \* triggerAt of each job
    rec,        \* status of its JobRecord, "none" when there is no document
    bull,       \* its job in the dispatcher queue
    stalled,    \* jobs that BullMQ has already recovered once
    tasks,      \* jobs waiting in the queue of the main server
    scan,       \* what each execution of the scan is doing
    cancel,     \* the request to cancel the jobs of the event
    faults,     \* crashes and failures so far
    handed,     \* history: jobs handed over to the main server
    repeated,   \* history: BullMQ recovered a job or task whose work was
                \* done, or a scan pushed a job completed since it looked
    lost,       \* history: a job was dropped before it was handed over
    late        \* history: time passed over a scan that was due or running

clock == <<now, delays, scanned>>
history == <<handed, repeated, lost, late>>
schedulerVars == <<clock, post, due, rec, bull, stalled, tasks, scan, cancel,
                   faults, history>>

PostState == {"none", "sent", "pushing", "done"}
RecordStatus == {"none", "PENDING", "QUEUED", "FAILED"}
BullState == {"none", "delayed", "active", "added", "failed"}
CancelPc == {"none", "sent", "removing", "done"}

(* todo: the records found; at: the one pushed whose status is not saved.  *)
ScanState == [todo : SUBSET JobIds, at : JobIds \cup {NoId}]
IdleScan == [todo |-> {}, at |-> NoId]

SchedulerTypeOK ==
    /\ now \in Nat
    /\ delays \in Nat
    /\ scanned \in BOOLEAN
    /\ post \in [JobIds -> PostState]
    /\ due \in [JobIds -> Nat]
    /\ rec \in [JobIds -> RecordStatus]
    /\ bull \in [JobIds -> BullState]
    /\ stalled \subseteq JobIds
    /\ tasks \in [JobIds -> Nat]
    /\ scan \in [Scans -> ScanState]
    /\ cancel \in [pc : CancelPc, todo : SUBSET JobIds]
    /\ faults \in Nat
    /\ handed \subseteq JobIds
    /\ repeated \in BOOLEAN
    /\ lost \in BOOLEAN
    /\ late \in BOOLEAN

(* The service is idle, at any minute of the quarter of an hour.           *)
SchedulerInit ==
    /\ now \in 0..(ScanEvery - 1)
    /\ delays = 0
    /\ scanned = FALSE
    /\ rec = [j \in JobIds |-> "none"]
    /\ bull = [j \in JobIds |-> "none"]
    /\ stalled = {}
    /\ tasks = [j \in JobIds |-> 0]
    /\ scan = [p \in Scans |-> IdleScan]
    /\ cancel = [pc |-> "none", todo |-> {}]
    /\ faults = 0
    /\ handed = {}
    /\ repeated = FALSE
    /\ lost = FALSE
    /\ late = FALSE

Scanning == \E p \in Scans : scan[p] # IdleScan

ScanDue == now % ScanEvery = 0 /\ ~scanned

(* A fault leaves time for one more scan before the clock stops.           *)
Fault ==
    /\ faults < MaxFaults
    /\ now + ScanEvery <= Horizon
    /\ faults' = faults + 1

(* The job that the worker holds. *)
Held == {j \in JobIds : bull[j] \in {"active", "added"}}

Unfinished ==
    \/ \E j \in JobIds : \/ post[j] \in {"sent", "pushing"}
                         \/ bull[j] = "delayed" /\ due[j] <= now
                         \/ tasks[j] > 0
    \/ Held # {}
    \/ Scanning \/ ScanDue
    \/ cancel.pc \in {"sent", "removing"}

(* The processes are not synchronised with the clock: a minute may pass    *)
(* over anything.                                                          *)
Tick ==
    /\ now < Horizon
    /\ \/ Unfinished /\ delays < MaxDelays /\ delays' = delays + 1
       \/ ~Unfinished /\ UNCHANGED delays
    /\ now' = now + 1
    /\ scanned' = FALSE
    /\ late' = (late \/ Scanning \/ ScanDue)
    /\ UNCHANGED <<post, due, rec, bull, stalled, tasks, scan, cancel,
                    faults, handed, repeated, lost>>

(***************************************************************************)
(* createJob and pushToQueue.                                              *)
(***************************************************************************)

(* The record is created; a job due within the window is marked QUEUED so  *)
(* that the scan ignores it, and pushed at once.                           *)
CreateJob(j) ==
    /\ post[j] = "sent"
    /\ \/ /\ due[j] <= now + Window
          /\ rec' = [rec EXCEPT ![j] = "QUEUED"]
          /\ post' = [post EXCEPT ![j] = "pushing"]
       \/ /\ due[j] > now + Window
          /\ rec' = [rec EXCEPT ![j] = "PENDING"]
          /\ post' = [post EXCEPT ![j] = "done"]
    /\ UNCHANGED <<clock, due, bull, stalled, tasks, scan, cancel, faults,
                    history>>

(* dispatcherQueue.add: the id of the record is the id of the job, and     *)
(* BullMQ ignores an id that it still holds, in whatever state.            *)
PushToQueue(j) ==
    bull' = [bull EXCEPT ![j] = IF @ = "none" THEN "delayed" ELSE @]

PushNew(j) ==
    /\ post[j] = "pushing"
    /\ post' = [post EXCEPT ![j] = "done"]
    /\ PushToQueue(j)
    /\ UNCHANGED <<clock, due, rec, stalled, tasks, scan, cancel, faults,
                    history>>

(* The request is lost, or fails before the record is created, or between  *)
(* the record and the queue. The client logs it; nobody tries again. (A    *)
(* client that gives up after six seconds while the service goes on makes  *)
(* no difference: it does not use the answer.)                             *)
PostFails(j) ==
    /\ Fault
    /\ post[j] \in {"sent", "pushing"}
    /\ post' = [post EXCEPT ![j] = "done"]
    /\ lost' = TRUE
    /\ UNCHANGED <<clock, due, rec, bull, stalled, tasks, scan, cancel,
                    handed, repeated, late>>

(***************************************************************************)
(* scanPendingJobs.                                                        *)
(***************************************************************************)

(* Mutant: the scan takes what is due now, and does not look ahead. *)
ScanStartNoLookahead(p) ==
    /\ ScanDue
    /\ scan[p] = IdleScan
    /\ scanned' = TRUE
    /\ scan' = [scan EXCEPT ![p].todo =
                  {j \in JobIds : rec[j] = "PENDING" /\ due[j] <= now}]
    /\ UNCHANGED <<now, delays, post, due, rec, bull, stalled, tasks, cancel,
                    faults, history>>

(* Mutant: the scan ignores what is overdue. *)
ScanStartFutureOnly(p) ==
    /\ ScanDue
    /\ scan[p] = IdleScan
    /\ scanned' = TRUE
    /\ scan' = [scan EXCEPT ![p].todo =
          {j \in JobIds : rec[j] = "PENDING" /\ due[j] \in now..(now + Window)}]
    /\ UNCHANGED <<now, delays, post, due, rec, bull, stalled, tasks, cancel,
                    faults, history>>

(* find({status: "PENDING", triggerAt: {$lte: lookaheadTime}})             *)
ScanStart(p) ==
    /\ ScanDue
    /\ scan[p] = IdleScan
    /\ scanned' = TRUE
    /\ scan' = [scan EXCEPT ![p].todo =
                  {j \in JobIds : rec[j] = "PENDING" /\ due[j] <= now + Window}]
    /\ UNCHANGED <<now, delays, post, due, rec, bull, stalled, tasks, cancel,
                    faults, history>>

(* Each record found is pushed, ...                                        *)
ScanPush(p) ==
    /\ scan[p].at = NoId
    /\ \E j \in scan[p].todo :
          /\ scan' = [scan EXCEPT ![p] = [todo |-> @.todo \ {j}, at |-> j]]
          /\ PushToQueue(j)
          /\ repeated' = (repeated \/ (j \in handed /\ rec[j] = "none"))
    /\ UNCHANGED <<clock, post, due, rec, stalled, tasks, cancel, faults,
                    handed, lost, late>>

(* Mutant: the status is saved before the push. *)
ScanPushFailsSaved(p) ==
    /\ Fault
    /\ scan[p].at = NoId
    /\ \E j \in scan[p].todo :
          /\ scan' = [scan EXCEPT ![p].todo = @ \ {j}]
          /\ rec' = [rec EXCEPT ![j] = IF @ = "none" THEN @ ELSE "QUEUED"]
    /\ late' = TRUE
    /\ UNCHANGED <<clock, post, due, bull, stalled, tasks, cancel, handed,
                    repeated, lost>>

(* ... unless the push fails, which leaves it PENDING for the next scan, ... *)
ScanPushFails(p) ==
    /\ Fault
    /\ scan[p].at = NoId
    /\ \E j \in scan[p].todo : scan' = [scan EXCEPT ![p].todo = @ \ {j}]
    /\ late' = TRUE
    /\ UNCHANGED <<clock, post, due, rec, bull, stalled, tasks, cancel,
                    handed, repeated, lost>>

(* Mutant: a status that the schema does not know. *)
ScanSaveUnknown(p) ==
    LET j == scan[p].at IN
    /\ j # NoId
    /\ rec' = [rec EXCEPT ![j] = IF @ = "none" THEN @ ELSE "DISPATCHED"]
    /\ scan' = [scan EXCEPT ![p].at = NoId]
    /\ UNCHANGED <<clock, post, due, bull, stalled, tasks, cancel, faults,
                    history>>

(* ... and saved as QUEUED; saving a record that has been deleted fails.   *)
ScanSave(p) ==
    LET j == scan[p].at IN
    /\ j # NoId
    /\ rec' = [rec EXCEPT ![j] = IF @ = "none" THEN @ ELSE "QUEUED"]
    /\ scan' = [scan EXCEPT ![p].at = NoId]
    /\ UNCHANGED <<clock, post, due, bull, stalled, tasks, cancel, faults,
                    history>>

(***************************************************************************)
(* JobsProcessor: the worker of the dispatcher queue, one job at a time.   *)
(***************************************************************************)

(* A delayed job whose time has come is taken up.                          *)
Start(j) ==
    /\ bull[j] = "delayed"
    /\ due[j] <= now
    /\ Held = {}
    /\ bull' = [bull EXCEPT ![j] = "active"]
    /\ UNCHANGED <<clock, post, due, rec, stalled, tasks, scan, cancel,
                    faults, history>>

(* The task is added to the target queue, ...                              *)
AddTask(j) ==
    /\ bull[j] = "active"
    /\ bull' = [bull EXCEPT ![j] = "added"]
    /\ tasks' = [tasks EXCEPT ![j] = @ + 1]
    /\ handed' = handed \cup {j}
    /\ UNCHANGED <<clock, post, due, rec, stalled, scan, cancel, faults,
                    repeated, lost, late>>

(* Mutant: the record is left behind, PENDING again. *)
ReopenRecord(j) ==
    /\ bull[j] = "added"
    /\ rec' = [rec EXCEPT ![j] = "PENDING"]
    /\ bull' = [bull EXCEPT ![j] = "none"]
    /\ stalled' = stalled \ {j}
    /\ UNCHANGED <<clock, post, due, tasks, scan, cancel, faults, history>>

(* ... the record deleted, and the completed job removed from Redis.       *)
DeleteRecord(j) ==
    /\ bull[j] = "added"
    /\ rec' = [rec EXCEPT ![j] = "none"]
    /\ bull' = [bull EXCEPT ![j] = "none"]
    /\ stalled' = stalled \ {j}
    /\ UNCHANGED <<clock, post, due, tasks, scan, cancel, faults, history>>

(* A call of the worker throws: the record is marked FAILED, if that still *)
(* works, and the job has failed for good - it has no attempts.            *)
DispatchFails(j) ==
    /\ Fault
    /\ bull[j] \in {"active", "added"}
    /\ bull' = [bull EXCEPT ![j] = "failed"]
    /\ \/ UNCHANGED rec
       \/ rec[j] # "none" /\ rec' = [rec EXCEPT ![j] = "FAILED"]
    /\ lost' = (lost \/ j \notin handed)
    /\ UNCHANGED <<clock, post, due, stalled, tasks, scan, cancel, handed,
                    repeated, late>>

(***************************************************************************)
(* deleteJobByEvent.                                                       *)
(***************************************************************************)
CancelFind ==
    /\ cancel.pc = "sent"
    /\ cancel' = [pc |-> "removing", todo |-> {j \in JobIds : rec[j] # "none"}]
    /\ UNCHANGED <<clock, post, due, rec, bull, stalled, tasks, scan, faults,
                    history>>

(* A job that the worker holds cannot be removed; the error is ignored.    *)
CancelRemove ==
    /\ cancel.pc = "removing"
    /\ \E j \in cancel.todo :
          /\ \/ /\ j \in Held
                /\ UNCHANGED <<bull, stalled>>
             \/ /\ j \notin Held
                /\ bull' = [bull EXCEPT ![j] = "none"]
                /\ stalled' = stalled \ {j}
          /\ cancel' = [cancel EXCEPT !.todo = @ \ {j}]
    /\ UNCHANGED <<clock, post, due, rec, tasks, scan, faults, history>>

CancelDelete ==
    /\ cancel.pc = "removing"
    /\ cancel.todo = {}
    /\ cancel' = [cancel EXCEPT !.pc = "done"]
    /\ rec' = [j \in JobIds |-> "none"]
    /\ UNCHANGED <<clock, post, due, bull, stalled, tasks, scan, faults,
                    history>>

CancelFails ==
    /\ Fault
    /\ cancel.pc \in {"sent", "removing"}
    /\ cancel' = [pc |-> "done", todo |-> {}]
    /\ UNCHANGED <<clock, post, due, rec, bull, stalled, tasks, scan,
                    history>>

(***************************************************************************)
(* The process dies and starts again: requests and scans under way are     *)
(* gone. BullMQ recovers the job that the worker held, once; the second    *)
(* time it fails it (maxStalledCount).                                     *)
(***************************************************************************)
Pushing == {j \in JobIds : post[j] = "pushing"}

Crash ==
    /\ Fault
    /\ post' = [j \in JobIds |-> IF j \in Pushing THEN "done" ELSE post[j]]
    /\ bull' = [j \in JobIds |->
                  CASE j \in Held \cap stalled -> "failed"
                    [] j \in Held \ stalled -> "delayed"
                    [] OTHER -> bull[j]]
    /\ stalled' = stalled \cup Held
    /\ scan' = [p \in Scans |-> IdleScan]
    /\ cancel' = IF cancel.pc = "removing" THEN [pc |-> "done", todo |-> {}]
                                           ELSE cancel
    /\ lost' = (lost \/ Pushing # {} \/ (Held \cap stalled) \ handed # {})
    /\ repeated' = (repeated \/ \E j \in Held \ stalled : bull[j] = "added")
    /\ late' = (late \/ Scanning)
    /\ UNCHANGED <<clock, due, rec, tasks, handed>>

SchedulerProgress ==
    \/ Tick
    \/ \E j \in JobIds : \/ CreateJob(j) \/ PushNew(j)
                         \/ Start(j) \/ AddTask(j) \/ DeleteRecord(j)
    \/ \E p \in Scans : ScanStart(p) \/ ScanPush(p) \/ ScanSave(p)
    \/ CancelFind \/ CancelRemove \/ CancelDelete

SchedulerFault ==
    \/ \E j \in JobIds : PostFails(j) \/ DispatchFails(j)
    \/ \E p \in Scans : ScanPushFails(p)
    \/ CancelFails
    \/ Crash

(* A job that still leads to a task for the main server.                   *)
Pending(j) ==
    \/ tasks[j] > 0
    \/ /\ j \notin handed
       /\ \/ post[j] \in {"sent", "pushing"}
          \/ rec[j] = "PENDING"
          \/ bull[j] \in {"delayed", "active"}
==============================================================================
