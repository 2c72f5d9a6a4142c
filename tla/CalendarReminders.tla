--------------------------- MODULE CalendarReminders ---------------------------
(***************************************************************************)
(* The reminders of one calendar event. The calendar service of the main   *)
(* server asks the scheduler for the first occurrence only; the task that  *)
(* comes back at its time reminds the participants and asks for the next   *)
(* occurrence, skipping the cancelled ones. So the reminders of a          *)
(* recurring event hang on a chain of jobs, each created by the last.      *)
(***************************************************************************)
EXTENDS Scheduler

CONSTANTS
    Last,      \* number of occurrences (1: an event that does not recur)
    FirstAt,   \* time of the first occurrence
    Period,    \* time from one occurrence to the next
    MaxCancelled, \* bound: occurrences ever cancelled in a behaviour
    DateShift  \* days by which the UTC date of an occurrence lags behind its
               \* date in GMT+7: 1 if it is before seven in the morning, or 0

ASSUME CalendarAssumption ==
    /\ Last \in Nat \ {0}
    /\ FirstAt \in Nat
    /\ Period \in Nat \ {0}
    /\ MaxCancelled \in Nat
    /\ DateShift \in {0, 1}

Occurrences == 1..Last

(* Occurrence k takes place on day k of the calendar in GMT+7.             *)
At(k) == FirstAt + Period * (k - 1)

VARIABLES
    live,        \* the event exists
    exceptions,  \* recurrenceExceptions: the days cancelled
    occ,         \* occurrenceDate in the payload of each job
    reminded,    \* history: how often each occurrence has been announced
    reached,     \* history: the latest occurrence handled
    ended,       \* history: a task found no further occurrence
    everExcepted \* history: days that were cancelled at some time

eventVars == <<live, exceptions, everExcepted>>
calendarVars == <<eventVars, occ, reminded, reached, ended>>
vars == <<schedulerVars, calendarVars>>

TypeOK ==
    /\ SchedulerTypeOK
    /\ live \in BOOLEAN
    /\ exceptions \subseteq Occurrences
    /\ occ \in [JobIds -> 0..Last]
    /\ reminded \in [Occurrences -> Nat]
    /\ reached \in 0..Last
    /\ ended \in BOOLEAN
    /\ everExcepted \subseteq Occurrences

(* createEvent has stored the event, some time before it first takes       *)
(* place, and asks for its first occurrence (calculateFirstOccurrence).    *)
Init ==
    /\ SchedulerInit
    /\ live = TRUE
    /\ exceptions = {}
    /\ occ = [j \in JobIds |-> IF j = 1 THEN 1 ELSE 0]
    /\ due = [j \in JobIds |-> IF j = 1 THEN At(1) ELSE 0]
    /\ post = [j \in JobIds |-> IF j = 1 THEN "sent" ELSE "none"]
    /\ reminded = [k \in Occurrences |-> 0]
    /\ reached = 0
    /\ ended = FALSE
    /\ everExcepted = {}

(* deleteEvent of one occurrence adds its day, as the list of events shows *)
(* it, to the exceptions; restoreOccurrence takes it out again.            *)
CancelOccurrence(k) ==
    /\ live
    /\ k \notin exceptions
    /\ Cardinality(everExcepted \cup {k}) <= MaxCancelled
    /\ exceptions' = exceptions \cup {k}
    /\ everExcepted' = everExcepted \cup {k}
    /\ UNCHANGED <<schedulerVars, live, occ, reminded, reached, ended>>

RestoreOccurrence(k) ==
    /\ live
    /\ k \in exceptions
    /\ exceptions' = exceptions \ {k}
    /\ UNCHANGED <<schedulerVars, live, occ, reminded, reached, ended,
                    everExcepted>>

(* deleteEvent of the whole event deletes it, then asks the scheduler to   *)
(* cancel its jobs without waiting for the answer.                         *)
DeleteEvent ==
    /\ live
    /\ live' = FALSE
    /\ cancel' = [cancel EXCEPT !.pc = "sent"]
    /\ UNCHANGED <<clock, post, due, rec, bull, stalled, tasks, scan, faults,
                    history, exceptions, occ, reminded, reached, ended,
                    everExcepted>>

(***************************************************************************)
(* handleCalendarTaskFromQueue. What it reads, the event, it reads at its  *)
(* beginning; what it changes is the request to the scheduler at its end,  *)
(* so it is one step, the request being sent and not yet received.         *)
(***************************************************************************)

(* Mutant: an occurrence counts as following itself. *)
FollowingOrSame(k) == {i \in Occurrences \ exceptions : i >= k}

(* rule.after(...) until recurrenceEndDate, without the cancelled days.    *)
Following(k) == {i \in Occurrences \ exceptions : i > k}

(* Mutant: the date of the day before is looked up. *)
IsCanceledDayBefore(k) == k - 1 \in exceptions

(* isCanceled compares the UTC date of the occurrence.                     *)
IsCanceled(k) == k - DateShift \in exceptions

Remind(k) ==
    /\ reminded' = [reminded EXCEPT ![k] = IF IsCanceled(k) THEN @ ELSE @ + 1]
    /\ reached' = IF k > reached THEN k ELSE reached

FreeJobs == {j \in JobIds : post[j] = "none"}

(* The request takes the first job that is not in use. A request beyond    *)
(* the bound MaxJobs is not followed.                                      *)
Request(next) ==
    \/ /\ FreeJobs = {}
       /\ lost' = TRUE
       /\ UNCHANGED <<post, due, occ>>
    \/ \E j \in FreeJobs :
          /\ \A i \in FreeJobs : j <= i
          /\ post' = [post EXCEPT ![j] = "sent"]
          /\ due' = [due EXCEPT ![j] = At(next)]
          /\ occ' = [occ EXCEPT ![j] = next]
          /\ UNCHANGED lost

(* Mutant: a cancelled occurrence ends the handler. *)
ScheduleNextUnlessCanceled(k) ==
    \/ /\ Following(k) = {} \/ IsCanceled(k)
       /\ ended' = (Following(k) = {})
       /\ UNCHANGED <<post, due, occ, lost>>
    \/ /\ ~IsCanceled(k)
       /\ \E next \in Following(k) :
             /\ \A i \in Following(k) : next <= i
             /\ Request(next)
       /\ UNCHANGED ended

(* scheduleJob for the next occurrence, if there is one.                   *)
ScheduleNext(k) ==
    \/ /\ Following(k) = {}
       /\ ended' = TRUE
       /\ UNCHANGED <<post, due, occ, lost>>
    \/ /\ \E next \in Following(k) :
             /\ \A i \in Following(k) : next <= i
             /\ Request(next)
       /\ UNCHANGED ended

Handle(j) ==
    LET k == occ[j] IN
    IF live
    THEN /\ Remind(k)
         /\ ScheduleNext(k)
    ELSE UNCHANGED <<post, due, occ, lost, reminded, reached, ended>>

HandleTask(j) ==
    /\ tasks[j] > 0
    /\ tasks' = [tasks EXCEPT ![j] = @ - 1]
    /\ Handle(j)
    /\ UNCHANGED <<clock, rec, bull, stalled, scan, cancel, faults, handed,
                    repeated, late, eventVars>>

(* The server stalls after it has reminded, or after it has asked for the  *)
(* next occurrence: BullMQ runs the task again.                            *)
HandleStalls(j) ==
    /\ Fault
    /\ tasks[j] > 0
    /\ \/ Handle(j)
       \/ live /\ Remind(occ[j]) /\ UNCHANGED <<post, due, occ, lost, ended>>
    /\ repeated' = TRUE
    /\ UNCHANGED <<clock, rec, bull, stalled, tasks, scan, cancel, handed,
                    late, eventVars>>

(* The event cannot be read: the task fails, and has no further attempts.  *)
HandleFails(j) ==
    /\ Fault
    /\ tasks[j] > 0
    /\ tasks' = [tasks EXCEPT ![j] = @ - 1]
    /\ lost' = TRUE
    /\ UNCHANGED <<clock, post, due, rec, bull, stalled, scan, cancel,
                    handed, repeated, late, calendarVars>>

Host ==
    \/ \E k \in Occurrences : CancelOccurrence(k) \/ RestoreOccurrence(k)
    \/ DeleteEvent

Progress ==
    \/ SchedulerProgress /\ UNCHANGED calendarVars
    \/ \E j \in JobIds : HandleTask(j)

Faults ==
    \/ SchedulerFault /\ UNCHANGED calendarVars
    \/ \E j \in JobIds : HandleStalls(j) \/ HandleFails(j)

(* The end of time, with nothing left to do.                               *)
Rest == now = Horizon /\ ~Unfinished /\ UNCHANGED vars

Next == Host \/ Progress \/ Faults \/ Rest

Spec == Init /\ [][Next]_vars

(* Time passes, and the services do what is left to do. The host is under  *)
(* no obligation, and the faults are bounded.                              *)
FairSpec == Spec /\ WF_vars(Progress)

(***************************************************************************)
(* Properties.                                                             *)
(***************************************************************************)

(* scheduleJob, the scans, the recovery of stalled jobs and the requests   *)
(* of handleCalendarTaskFromQueue may all put a reminder on its way: there *)
(* is at most one on its way while the event exists, unless BullMQ         *)
(* recovered a job or task whose work was done already, or a scan pushed a *)
(* record that was dispatched and deleted after it had been found.         *)
SingleChain ==
    (live /\ ~repeated) =>
        \A i, j \in JobIds : Pending(i) /\ Pending(j) => i = j

(* The chain does not break: while the event exists and has occurrences    *)
(* left, the next reminder is on its way, through crashes of the scheduler *)
(* and failed scans, unless one of the calls that nobody repeats failed.   *)
ChainKept ==
    (live /\ ~ended /\ ~lost) => \E j \in JobIds : Pending(j)

(* Nobody is reminded twice of an occurrence, but for the same three       *)
(* accidents.                                                              *)
RemindedOnce ==
    ~repeated => \A k \in Occurrences : reminded[k] <= 1

(* No occurrence is passed over silently (unless it is before seven in the *)
(* morning): one before the latest handled was announced or had been       *)
(* cancelled at some time.                                                 *)
NoGaps ==
    DateShift = 0 =>
        \A k \in 1..reached : reminded[k] = 0 => k \in everExcepted

(* The look-ahead of twenty minutes against a scan every fifteen: while no *)
(* scan was delayed, a record never waits in the database past its time.   *)
OnTime ==
    ~late => \A j \in JobIds : rec[j] = "PENDING" => due[j] > now

(***************************************************************************)
(* Why these invariants hold: what each record, queue job and scan can be  *)
(* to its job. CalendarRemindersProofs shows the conjunction inductive.    *)
(***************************************************************************)
NotYetPushed ==
    \A j \in JobIds : post[j] # "done" =>
        /\ bull[j] = "none" /\ rec[j] # "PENDING"
        /\ tasks[j] = 0 /\ j \notin handed
        /\ \A p \in Scans : j \notin scan[p].todo /\ scan[p].at # j

OccurrenceKnown ==
    \A j \in JobIds : post[j] # "none" => occ[j] \in Occurrences

HandedOver ==
    \A j \in JobIds : (tasks[j] > 0 \/ bull[j] = "added") => j \in handed

FailureRecorded ==
    \A j \in JobIds : bull[j] = "failed" => lost \/ j \in handed

(* A record that a scan has found is still PENDING, or was pushed since.   *)
FoundIsPushedOrPending ==
    live =>
        /\ cancel.pc = "none"
        /\ \A p \in Scans : \A j \in JobIds :
              /\ j \in scan[p].todo =>
                    rec[j] = "PENDING" \/ bull[j] # "none" \/ j \in handed
              /\ scan[p].at = j => bull[j] # "none" \/ j \in handed
        /\ \A j \in JobIds :
              (j \in handed /\ bull[j] = "none") => rec[j] = "none"

NoSecondHandOver ==
    (live /\ ~repeated) =>
        \A j \in JobIds :
            /\ bull[j] \in {"delayed", "active"} => j \notin handed
            /\ tasks[j] <= 1
            /\ Pending(j) => occ[j] > reached

AnnouncedInOrder ==
    ~repeated => \A k \in Occurrences :
        /\ reminded[k] <= 1
        /\ k > reached => reminded[k] = 0

PassedOverCancelled ==
    /\ exceptions \subseteq everExcepted
    /\ \A j \in JobIds : post[j] # "none" =>
          \A k \in Occurrences : k < occ[j] => k <= reached \/ k \in everExcepted

ReminderInvariant ==
    /\ NotYetPushed /\ OccurrenceKnown /\ HandedOver /\ FailureRecorded
    /\ FoundIsPushedOrPending /\ NoSecondHandOver
    /\ SingleChain /\ ChainKept /\ AnnouncedInOrder
    /\ PassedOverCancelled /\ NoGaps

(* The reminders go on to the last occurrence, unless the event is deleted *)
(* or a call that nobody repeats failed.                                   *)
ChainRunsOn == <>(ended \/ lost \/ ~live)

(* A deleted event leaves nothing behind for ever: jobs that escape the    *)
(* cancellation come back to the server and end there.                     *)
OrphansDie == ~live ~> \A j \in JobIds : ~Pending(j)

(* The task at the time of an occurrence notifies everybody who takes part *)
(* unless that occurrence has been cancelled, at whatever time of the day  *)
(* it takes place.                                                         *)
AnnouncedUnlessCancelled ==
    [][\A j \in JobIds :
          LET k == occ[j] IN
          (HandleTask(j) /\ live) =>
              ((reminded'[k] > reminded[k]) <=> k \notin exceptions)]_vars
==============================================================================
