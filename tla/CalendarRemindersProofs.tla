------------------------ MODULE CalendarRemindersProofs -------------------------
(***************************************************************************)
(* Proofs about CalendarReminders: type correctness, and that the chain of *)
(* reminders neither doubles nor breaks nor skips, for any number of jobs, *)
(* occurrences, overlapping scans, crashes and failing calls, and whatever *)
(* the look-ahead and the period of the scan.                              *)
(***************************************************************************)
EXTENDS CalendarReminders, TLAPS

USE SchedulerAssumption, CalendarAssumption

LEMMA TimeOfOccurrence ==
    ASSUME NEW k \in Occurrences
    PROVE  At(k) \in Nat
<1>1. k - 1 \in Nat
  BY DEF Occurrences
<1>2. \A m, n \in Nat : m * n \in Nat
  OBVIOUS
<1>3. Period * (k - 1) \in Nat
  BY <1>1, <1>2
<1> QED
  BY <1>3 DEF At

(* The first state, and each step, by action, keep to the types. *)
LEMMA TypeInit == Init => TypeOK
<1> SUFFICES ASSUME Init PROVE TypeOK
  OBVIOUS
<1>1. 1 \in Occurrences /\ At(1) \in Nat
  BY TimeOfOccurrence DEF Occurrences
<1>2. /\ occ \in [JobIds -> 0..Last]
      /\ due \in [JobIds -> Nat]
      /\ post \in [JobIds -> PostState]
  BY <1>1 DEF Init, PostState, Occurrences
<1>3. /\ reminded \in [Occurrences -> Nat]
      /\ reached \in 0..Last
      /\ exceptions \subseteq Occurrences /\ everExcepted \subseteq Occurrences
      /\ now \in Nat /\ delays \in Nat /\ faults \in Nat
  BY DEF Init, SchedulerInit
<1>4. /\ live \in BOOLEAN /\ ended \in BOOLEAN /\ scanned \in BOOLEAN
      /\ repeated \in BOOLEAN /\ lost \in BOOLEAN /\ late \in BOOLEAN
  BY Zenon DEF Init, SchedulerInit
<1>5. /\ rec \in [JobIds -> RecordStatus]
      /\ bull \in [JobIds -> BullState]
      /\ tasks \in [JobIds -> Nat]
      /\ scan \in [Scans -> ScanState]
  BY DEF Init, SchedulerInit, RecordStatus, BullState, ScanState, IdleScan, NoId
<1>6. /\ stalled \subseteq JobIds /\ handed \subseteq JobIds
      /\ cancel \in [pc : CancelPc, todo : SUBSET JobIds]
  BY DEF Init, SchedulerInit, CancelPc
<1> QED
  BY <1>2, <1>3, <1>4, <1>5, <1>6 DEF TypeOK, SchedulerTypeOK

(* What the handler of a task leaves behind has the right types. *)
LEMMA RemindType ==
    ASSUME TypeOK, NEW k \in 0..Last, Remind(k)
    PROVE  reminded' \in [Occurrences -> Nat] /\ reached' \in 0..Last
<1>1. CASE k \in Occurrences
  <2>1. reminded[k] \in Nat
    BY <1>1 DEF TypeOK
  <2> QED
    BY <1>1, <2>1 DEF Remind, TypeOK
<1>2. CASE k \notin Occurrences
  BY <1>2 DEF Remind, TypeOK
<1> QED
  BY <1>1, <1>2

LEMMA RequestType ==
    ASSUME TypeOK, NEW next \in Occurrences, Request(next)
    PROVE  /\ post' \in [JobIds -> PostState]
           /\ due' \in [JobIds -> Nat]
           /\ occ' \in [JobIds -> 0..Last]
           /\ lost' \in BOOLEAN
<1>1. At(next) \in Nat
  BY TimeOfOccurrence
<1>2. next \in 0..Last
  BY DEF Occurrences
<1>3. CASE FreeJobs = {} /\ lost' = TRUE /\ UNCHANGED <<post, due, occ>>
  BY <1>3 DEF TypeOK, SchedulerTypeOK
<1>4. ASSUME NEW j \in FreeJobs,
             post' = [post EXCEPT ![j] = "sent"],
             due' = [due EXCEPT ![j] = At(next)],
             occ' = [occ EXCEPT ![j] = next],
             UNCHANGED lost
      PROVE  /\ post' \in [JobIds -> PostState]
             /\ due' \in [JobIds -> Nat]
             /\ occ' \in [JobIds -> 0..Last]
             /\ lost' \in BOOLEAN
  BY <1>1, <1>2, <1>4 DEF TypeOK, SchedulerTypeOK, PostState
<1> QED
  BY <1>3, <1>4 DEF Request

LEMMA HandleType ==
    ASSUME TypeOK, NEW j \in JobIds, Handle(j)
    PROVE  /\ post' \in [JobIds -> PostState]
           /\ due' \in [JobIds -> Nat]
           /\ occ' \in [JobIds -> 0..Last]
           /\ lost' \in BOOLEAN
           /\ ended' \in BOOLEAN
           /\ reminded' \in [Occurrences -> Nat]
           /\ reached' \in 0..Last
<1>1. occ[j] \in 0..Last
  BY DEF TypeOK
<1>2. CASE ~live
  BY <1>2 DEF Handle, TypeOK, SchedulerTypeOK
<1>3. CASE live
  <2>1. Remind(occ[j]) /\ ScheduleNext(occ[j])
    BY <1>3 DEF Handle
  <2>2. reminded' \in [Occurrences -> Nat] /\ reached' \in 0..Last
    BY <1>1, <2>1, RemindType
  <2>3. CASE Following(occ[j]) = {} /\ ended' = TRUE
             /\ UNCHANGED <<post, due, occ, lost>>
    BY <2>2, <2>3 DEF TypeOK, SchedulerTypeOK
  <2>4. ASSUME NEW next \in Following(occ[j]), Request(next), UNCHANGED ended
        PROVE  /\ post' \in [JobIds -> PostState]
               /\ due' \in [JobIds -> Nat]
               /\ occ' \in [JobIds -> 0..Last]
               /\ lost' \in BOOLEAN
               /\ ended' \in BOOLEAN
    <3>1. next \in Occurrences
      BY <2>4 DEF Following
    <3> QED
      BY <2>4, <3>1, RequestType DEF TypeOK
  <2> QED
    BY <2>1, <2>2, <2>3, <2>4 DEF ScheduleNext
<1> QED
  BY <1>2, <1>3

LEMMA TypeStep == TypeOK /\ [Next]_vars => TypeOK'
<1> SUFFICES ASSUME TypeOK, [Next]_vars PROVE TypeOK'
  OBVIOUS
<1> USE DEF TypeOK, SchedulerTypeOK, PostState, RecordStatus, BullState, CancelPc,
        ScanState, IdleScan, NoId, clock, history, calendarVars, eventVars
<1>1. CASE SchedulerProgress /\ UNCHANGED calendarVars
  <2>1. CASE Tick
    <3>1. late' \in BOOLEAN /\ scanned' \in BOOLEAN
      BY <2>1, Zenon DEF Tick
    <3>2. /\ now' = now + 1
          /\ delays' = delays + 1 \/ delays' = delays
          /\ UNCHANGED <<post, due, rec, bull, stalled, tasks, scan, cancel,
                         faults, handed, repeated, lost>>
      BY <2>1, Zenon DEF Tick
    <3>3. now' \in Nat /\ delays' \in Nat
      BY <3>2
    <3> QED
      BY <1>1, <3>1, <3>2, <3>3
  <2>2. ASSUME NEW j \in JobIds, CreateJob(j) PROVE TypeOK'
    BY <1>1, <2>2 DEF CreateJob
  <2>3. ASSUME NEW j \in JobIds, PushNew(j) PROVE TypeOK'
    BY <1>1, <2>3 DEF PushNew, PushToQueue
  <2>4. ASSUME NEW j \in JobIds, Start(j) PROVE TypeOK'
    BY <1>1, <2>4 DEF Start
  <2>5. ASSUME NEW j \in JobIds, AddTask(j) PROVE TypeOK'
    BY <1>1, <2>5 DEF AddTask
  <2>6. ASSUME NEW j \in JobIds, DeleteRecord(j) PROVE TypeOK'
    BY <1>1, <2>6 DEF DeleteRecord
  <2>7. ASSUME NEW p \in Scans, ScanStart(p) PROVE TypeOK'
    BY <1>1, <2>7 DEF ScanStart
  <2>8. ASSUME NEW p \in Scans, ScanPush(p) PROVE TypeOK'
    BY <1>1, <2>8 DEF ScanPush, PushToQueue
  <2>9. ASSUME NEW p \in Scans, ScanSave(p) PROVE TypeOK'
    BY <1>1, <2>9 DEF ScanSave
  <2>10. CASE CancelFind
    BY <1>1, <2>10 DEF CancelFind
  <2>11. CASE CancelRemove
    BY <1>1, <2>11 DEF CancelRemove
  <2>12. CASE CancelDelete
    BY <1>1, <2>12 DEF CancelDelete
  <2> QED
    BY <1>1, <2>1, <2>2, <2>3, <2>4, <2>5, <2>6, <2>7, <2>8, <2>9, <2>10, <2>11, <2>12 DEF SchedulerProgress
<1>2. CASE SchedulerFault /\ UNCHANGED calendarVars
  <2>1. ASSUME NEW j \in JobIds, PostFails(j) PROVE TypeOK'
    BY <1>2, <2>1 DEF PostFails, Fault
  <2>2. ASSUME NEW j \in JobIds, DispatchFails(j) PROVE TypeOK'
    BY <1>2, <2>2 DEF DispatchFails, Fault
  <2>3. ASSUME NEW p \in Scans, ScanPushFails(p) PROVE TypeOK'
    BY <1>2, <2>3 DEF ScanPushFails, Fault
  <2>4. CASE CancelFails
    BY <1>2, <2>4 DEF CancelFails, Fault
  <2>5. CASE Crash
    BY <1>2, <2>5 DEF Crash, Fault, Held, Pushing
  <2> QED
    BY <1>2, <2>1, <2>2, <2>3, <2>4, <2>5 DEF SchedulerFault
<1>3. CASE Host
  BY <1>3 DEF Host, CancelOccurrence, RestoreOccurrence, DeleteEvent, schedulerVars
<1>4. ASSUME NEW j \in JobIds, HandleTask(j) PROVE TypeOK'
  BY <1>4, HandleType DEF HandleTask
<1>5. ASSUME NEW j \in JobIds, HandleStalls(j) PROVE TypeOK'
  <2>1. CASE Handle(j)
    BY <1>5, <2>1, HandleType DEF HandleStalls, Fault
  <2>2. CASE live /\ Remind(occ[j]) /\ UNCHANGED <<post, due, occ, lost, ended>>
    <3>1. occ[j] \in 0..Last
      OBVIOUS
    <3> QED
      BY <1>5, <2>2, <3>1, RemindType DEF HandleStalls, Fault
  <2> QED
    BY <1>5, <2>1, <2>2 DEF HandleStalls
<1>6. ASSUME NEW j \in JobIds, HandleFails(j) PROVE TypeOK'
  BY <1>6 DEF HandleFails, Fault
<1>7. CASE UNCHANGED vars
  BY <1>7 DEF vars, schedulerVars
<1> QED
  BY <1>1, <1>2, <1>3, <1>4, <1>5, <1>6, <1>7 DEF Next, Progress, Faults, Rest

(***************************************************************************)
(* The jobs of the scheduler. Bookkeeping is what holds of each job on its *)
(* own; Carried says what a step of the scheduler does to the chain of an  *)
(* event that exists: it starts no job, ends one only by losing it, and    *)
(* hands none over twice.                                                  *)
(***************************************************************************)
Bookkeeping ==
    /\ NotYetPushed /\ OccurrenceKnown /\ HandedOver /\ FailureRecorded
    /\ FoundIsPushedOrPending

HandedOnce ==
    \A j \in JobIds : /\ bull[j] \in {"delayed", "active"} => j \notin handed
                      /\ tasks[j] <= 1

Carried ==
    /\ repeated => repeated'
    /\ lost => lost'
    /\ \A j \in JobIds : post[j] = "none" <=> post'[j] = "none"
    /\ live => /\ \A j \in JobIds : Pending(j) => Pending(j)' \/ lost'
               /\ (HandedOnce /\ ~repeated') =>
                     HandedOnce' /\ \A j \in JobIds : Pending(j)' => Pending(j)

LEMMA CreateJobKeeps ==
    ASSUME TypeOK, Bookkeeping, UNCHANGED calendarVars, NEW j \in JobIds, CreateJob(j)
    PROVE  Bookkeeping' /\ Carried
<1> USE DEF TypeOK, SchedulerTypeOK, PostState, BullState, ScanState, calendarVars, eventVars,
        clock, history, Bookkeeping, NotYetPushed, OccurrenceKnown, HandedOver,
        FailureRecorded, FoundIsPushedOrPending, CreateJob
<1>1. NotYetPushed'
  OBVIOUS
<1>2. OccurrenceKnown' /\ HandedOver' /\ FailureRecorded'
  OBVIOUS
<1>3. FoundIsPushedOrPending'
  OBVIOUS
<1>4. Carried
  BY DEF Carried, HandedOnce, Pending
<1> QED
  BY <1>1, <1>2, <1>3, <1>4

LEMMA PushNewKeeps ==
    ASSUME TypeOK, Bookkeeping, UNCHANGED calendarVars, NEW j \in JobIds, PushNew(j)
    PROVE  Bookkeeping' /\ Carried
<1> USE DEF TypeOK, SchedulerTypeOK, PostState, BullState, ScanState, calendarVars, eventVars,
        clock, history, Bookkeeping, NotYetPushed, OccurrenceKnown, HandedOver,
        FailureRecorded, FoundIsPushedOrPending, PushNew, PushToQueue
<1>1. NotYetPushed'
  OBVIOUS
<1>2. OccurrenceKnown' /\ HandedOver' /\ FailureRecorded'
  OBVIOUS
<1>3. FoundIsPushedOrPending'
  OBVIOUS
<1>4. Carried
  BY DEF Carried, HandedOnce, Pending
<1> QED
  BY <1>1, <1>2, <1>3, <1>4

LEMMA StartKeeps ==
    ASSUME TypeOK, Bookkeeping, UNCHANGED calendarVars, NEW j \in JobIds, Start(j)
    PROVE  Bookkeeping' /\ Carried
<1> USE DEF TypeOK, SchedulerTypeOK, PostState, BullState, ScanState, calendarVars, eventVars,
        clock, history, Bookkeeping, NotYetPushed, OccurrenceKnown, HandedOver,
        FailureRecorded, FoundIsPushedOrPending, Start
<1>1. NotYetPushed'
  OBVIOUS
<1>2. OccurrenceKnown' /\ HandedOver' /\ FailureRecorded'
  OBVIOUS
<1>3. FoundIsPushedOrPending'
  OBVIOUS
<1>4. Carried
  BY DEF Carried, HandedOnce, Pending
<1> QED
  BY <1>1, <1>2, <1>3, <1>4

LEMMA AddTaskKeeps ==
    ASSUME TypeOK, Bookkeeping, UNCHANGED calendarVars, NEW j \in JobIds, AddTask(j)
    PROVE  Bookkeeping' /\ Carried
<1> USE DEF TypeOK, SchedulerTypeOK, PostState, BullState, ScanState, calendarVars, eventVars,
        clock, history, Bookkeeping, NotYetPushed, OccurrenceKnown, HandedOver,
        FailureRecorded, FoundIsPushedOrPending, AddTask
<1>1. NotYetPushed'
  OBVIOUS
<1>2. OccurrenceKnown' /\ HandedOver' /\ FailureRecorded'
  OBVIOUS
<1>3. FoundIsPushedOrPending'
  OBVIOUS
<1>4. ASSUME NEW i \in JobIds
      PROVE  /\ Pending(i) => Pending(i)'
             /\ (i = j => i \notin handed) => (Pending(i)' => Pending(i))
             /\ (bull[i] \in {"delayed", "active"} => i \notin handed) =>
                   (bull'[i] \in {"delayed", "active"} => i \notin handed')
             /\ (tasks[i] <= 1 /\ (i = j => i \notin handed)) => tasks'[i] <= 1
  BY DEF Pending
<1>5. Carried
  BY <1>4 DEF Carried, HandedOnce
<1> QED
  BY <1>1, <1>2, <1>3, <1>5

LEMMA DeleteRecordKeeps ==
    ASSUME TypeOK, Bookkeeping, UNCHANGED calendarVars, NEW j \in JobIds, DeleteRecord(j)
    PROVE  Bookkeeping' /\ Carried
<1> USE DEF TypeOK, SchedulerTypeOK, PostState, BullState, ScanState, calendarVars, eventVars,
        clock, history, Bookkeeping, NotYetPushed, OccurrenceKnown, HandedOver,
        FailureRecorded, FoundIsPushedOrPending, DeleteRecord
<1>1. NotYetPushed'
  OBVIOUS
<1>2. OccurrenceKnown' /\ HandedOver' /\ FailureRecorded'
  OBVIOUS
<1>3. FoundIsPushedOrPending'
  OBVIOUS
<1>4. Carried
  BY DEF Carried, HandedOnce, Pending
<1> QED
  BY <1>1, <1>2, <1>3, <1>4

LEMMA PostFailsKeeps ==
    ASSUME TypeOK, Bookkeeping, UNCHANGED calendarVars, NEW j \in JobIds, PostFails(j)
    PROVE  Bookkeeping' /\ Carried
<1> USE DEF TypeOK, SchedulerTypeOK, PostState, BullState, ScanState, calendarVars, eventVars,
        clock, history, Bookkeeping, NotYetPushed, OccurrenceKnown, HandedOver,
        FailureRecorded, FoundIsPushedOrPending, PostFails
<1>1. NotYetPushed'
  OBVIOUS
<1>2. OccurrenceKnown' /\ HandedOver' /\ FailureRecorded'
  OBVIOUS
<1>3. FoundIsPushedOrPending'
  OBVIOUS
<1>4. Carried
  BY DEF Carried, HandedOnce, Pending
<1> QED
  BY <1>1, <1>2, <1>3, <1>4

LEMMA DispatchFailsKeeps ==
    ASSUME TypeOK, Bookkeeping, UNCHANGED calendarVars, NEW j \in JobIds, DispatchFails(j)
    PROVE  Bookkeeping' /\ Carried
<1> USE DEF TypeOK, SchedulerTypeOK, PostState, BullState, ScanState, calendarVars, eventVars,
        clock, history, Bookkeeping, NotYetPushed, OccurrenceKnown, HandedOver,
        FailureRecorded, FoundIsPushedOrPending, DispatchFails
<1>1. NotYetPushed'
  OBVIOUS
<1>2. OccurrenceKnown' /\ HandedOver'
  OBVIOUS
<1>5. FailureRecorded'
  <2>1. j \in handed \/ lost'
    OBVIOUS
  <2>2. lost => lost'
    OBVIOUS
  <2> QED
    BY <2>1, <2>2
<1>3. FoundIsPushedOrPending'
  OBVIOUS
<1>4. Carried
  BY DEF Carried, HandedOnce, Pending
<1> QED
  BY <1>1, <1>2, <1>3, <1>4, <1>5

LEMMA ScanStartKeeps ==
    ASSUME TypeOK, Bookkeeping, UNCHANGED calendarVars, NEW p \in Scans, ScanStart(p)
    PROVE  Bookkeeping' /\ Carried
<1> USE DEF TypeOK, SchedulerTypeOK, PostState, BullState, ScanState, calendarVars, eventVars,
        clock, history, Bookkeeping, NotYetPushed, OccurrenceKnown, HandedOver,
        FailureRecorded, FoundIsPushedOrPending, ScanStart
<1>1. NotYetPushed'
  OBVIOUS
<1>2. OccurrenceKnown' /\ HandedOver' /\ FailureRecorded'
  OBVIOUS
<1>3. FoundIsPushedOrPending'
  OBVIOUS
<1>4. Carried
  BY DEF Carried, HandedOnce, Pending
<1> QED
  BY <1>1, <1>2, <1>3, <1>4

LEMMA ScanPushKeeps ==
    ASSUME TypeOK, Bookkeeping, UNCHANGED calendarVars, NEW p \in Scans, ScanPush(p)
    PROVE  Bookkeeping' /\ Carried
<1> USE DEF TypeOK, SchedulerTypeOK, PostState, BullState, ScanState, calendarVars, eventVars,
        clock, history, Bookkeeping, NotYetPushed, OccurrenceKnown, HandedOver,
        FailureRecorded, FoundIsPushedOrPending, ScanPush, PushToQueue
<1>1. NotYetPushed'
  OBVIOUS
<1>2. OccurrenceKnown' /\ HandedOver' /\ FailureRecorded'
  OBVIOUS
<1>3. FoundIsPushedOrPending'
  OBVIOUS
<1>4. Carried
  BY DEF Carried, HandedOnce, Pending
<1> QED
  BY <1>1, <1>2, <1>3, <1>4

LEMMA ScanSaveKeeps ==
    ASSUME TypeOK, Bookkeeping, UNCHANGED calendarVars, NEW p \in Scans, ScanSave(p)
    PROVE  Bookkeeping' /\ Carried
<1> USE DEF TypeOK, SchedulerTypeOK, PostState, BullState, ScanState, calendarVars, eventVars,
        clock, history, Bookkeeping, NotYetPushed, OccurrenceKnown, HandedOver,
        FailureRecorded, FoundIsPushedOrPending, ScanSave
<1> DEFINE s == scan[p].at
<1>1. /\ s \in JobIds
      /\ rec' = [rec EXCEPT ![s] = IF @ = "none" THEN @ ELSE "QUEUED"]
      /\ scan' = [scan EXCEPT ![p].at = NoId]
      /\ post[s] = "done"
  BY DEF NoId
<1>2. UNCHANGED <<post, bull, tasks, handed, cancel, lost, repeated>>
  OBVIOUS
<1>3. ASSUME NEW j \in JobIds
      PROVE  /\ rec'[j] = "PENDING" => rec[j] = "PENDING"
             /\ rec'[j] = "none" <=> rec[j] = "none"
             /\ rec[j] = "PENDING" /\ j # s => rec'[j] = "PENDING"
  BY <1>1
<1>4. ASSUME NEW q \in Scans
      PROVE  /\ scan'[q].todo = scan[q].todo
             /\ scan'[q].at = scan[q].at \/ scan'[q].at = NoId
  BY <1>1
<1>5. NoId \notin JobIds
  BY DEF NoId, JobIds
<1> HIDE DEF ScanSave, s
<1>6. NotYetPushed'
  BY <1>2, <1>3, <1>4, <1>5
<1>7. OccurrenceKnown' /\ HandedOver' /\ FailureRecorded'
  BY <1>2
<1>8. FoundIsPushedOrPending'
  BY <1>2, <1>3, <1>4, <1>5 DEF s
<1>9. Carried
  BY <1>1, <1>2, <1>3, <1>4, <1>5 DEF Carried, HandedOnce, Pending, s
<1> QED
  BY <1>6, <1>7, <1>8, <1>9

LEMMA ScanPushFailsKeeps ==
    ASSUME TypeOK, Bookkeeping, UNCHANGED calendarVars, NEW p \in Scans, ScanPushFails(p)
    PROVE  Bookkeeping' /\ Carried
<1> USE DEF TypeOK, SchedulerTypeOK, PostState, BullState, ScanState, calendarVars, eventVars,
        clock, history, Bookkeeping, NotYetPushed, OccurrenceKnown, HandedOver,
        FailureRecorded, FoundIsPushedOrPending, ScanPushFails
<1>1. NotYetPushed'
  OBVIOUS
<1>2. OccurrenceKnown' /\ HandedOver' /\ FailureRecorded'
  OBVIOUS
<1>3. FoundIsPushedOrPending'
  OBVIOUS
<1>4. Carried
  BY DEF Carried, HandedOnce, Pending
<1> QED
  BY <1>1, <1>2, <1>3, <1>4

LEMMA TickKeeps ==
    ASSUME TypeOK, Bookkeeping, UNCHANGED calendarVars, Tick
    PROVE  Bookkeeping' /\ Carried
<1> USE DEF TypeOK, SchedulerTypeOK, PostState, BullState, ScanState, calendarVars, eventVars,
        clock, history, Bookkeeping, NotYetPushed, OccurrenceKnown, HandedOver,
        FailureRecorded, FoundIsPushedOrPending, Tick
<1>1. NotYetPushed'
  OBVIOUS
<1>2. OccurrenceKnown' /\ HandedOver' /\ FailureRecorded'
  OBVIOUS
<1>3. FoundIsPushedOrPending'
  OBVIOUS
<1>4. Carried
  BY DEF Carried, HandedOnce, Pending
<1> QED
  BY <1>1, <1>2, <1>3, <1>4

LEMMA CancelFindKeeps ==
    ASSUME TypeOK, Bookkeeping, UNCHANGED calendarVars, CancelFind
    PROVE  Bookkeeping' /\ Carried
<1> USE DEF TypeOK, SchedulerTypeOK, PostState, BullState, ScanState, calendarVars, eventVars,
        clock, history, Bookkeeping, NotYetPushed, OccurrenceKnown, HandedOver,
        FailureRecorded, FoundIsPushedOrPending, CancelFind
<1>1. NotYetPushed'
  OBVIOUS
<1>2. OccurrenceKnown' /\ HandedOver' /\ FailureRecorded'
  OBVIOUS
<1>3. FoundIsPushedOrPending'
  OBVIOUS
<1>4. Carried
  BY DEF Carried, HandedOnce, Pending
<1> QED
  BY <1>1, <1>2, <1>3, <1>4

LEMMA CancelRemoveKeeps ==
    ASSUME TypeOK, Bookkeeping, UNCHANGED calendarVars, CancelRemove
    PROVE  Bookkeeping' /\ Carried
<1> USE DEF TypeOK, SchedulerTypeOK, PostState, BullState, ScanState, calendarVars, eventVars,
        clock, history, Bookkeeping, NotYetPushed, OccurrenceKnown, HandedOver,
        FailureRecorded, FoundIsPushedOrPending, CancelRemove
<1>1. NotYetPushed'
  OBVIOUS
<1>2. OccurrenceKnown' /\ HandedOver' /\ FailureRecorded'
  OBVIOUS
<1>3. FoundIsPushedOrPending'
  OBVIOUS
<1>4. Carried
  BY DEF Carried, HandedOnce, Pending
<1> QED
  BY <1>1, <1>2, <1>3, <1>4

LEMMA CancelDeleteKeeps ==
    ASSUME TypeOK, Bookkeeping, UNCHANGED calendarVars, CancelDelete
    PROVE  Bookkeeping' /\ Carried
<1> USE DEF TypeOK, SchedulerTypeOK, PostState, BullState, ScanState, calendarVars, eventVars,
        clock, history, Bookkeeping, NotYetPushed, OccurrenceKnown, HandedOver,
        FailureRecorded, FoundIsPushedOrPending, CancelDelete
<1>1. NotYetPushed'
  OBVIOUS
<1>2. OccurrenceKnown' /\ HandedOver' /\ FailureRecorded'
  OBVIOUS
<1>3. FoundIsPushedOrPending'
  OBVIOUS
<1>4. Carried
  BY DEF Carried, HandedOnce, Pending
<1> QED
  BY <1>1, <1>2, <1>3, <1>4

LEMMA CancelFailsKeeps ==
    ASSUME TypeOK, Bookkeeping, UNCHANGED calendarVars, CancelFails
    PROVE  Bookkeeping' /\ Carried
<1> USE DEF TypeOK, SchedulerTypeOK, PostState, BullState, ScanState, calendarVars, eventVars,
        clock, history, Bookkeeping, NotYetPushed, OccurrenceKnown, HandedOver,
        FailureRecorded, FoundIsPushedOrPending, CancelFails
<1>1. NotYetPushed'
  OBVIOUS
<1>2. OccurrenceKnown' /\ HandedOver' /\ FailureRecorded'
  OBVIOUS
<1>3. FoundIsPushedOrPending'
  OBVIOUS
<1>4. Carried
  BY DEF Carried, HandedOnce, Pending
<1> QED
  BY <1>1, <1>2, <1>3, <1>4

LEMMA CrashKeeps ==
    ASSUME TypeOK, Bookkeeping, UNCHANGED calendarVars, Crash
    PROVE  Bookkeeping' /\ Carried
<1> USE DEF TypeOK, SchedulerTypeOK, PostState, BullState, ScanState, calendarVars, eventVars,
        clock, history, Bookkeeping, NotYetPushed, OccurrenceKnown, HandedOver,
        FailureRecorded, FoundIsPushedOrPending, Crash, Held, Pushing
<1>1. ASSUME NEW p \in Scans
      PROVE  scan'[p].todo = {} /\ scan'[p].at \notin JobIds
  BY DEF IdleScan, NoId, JobIds
<1>2. ASSUME NEW j \in JobIds
      PROVE  /\ post[j] \in {"none", "sent", "done"} => post'[j] = post[j]
             /\ post[j] = "pushing" => post'[j] = "done" /\ lost'
  OBVIOUS
<1>3. ASSUME NEW j \in JobIds
      PROVE  /\ bull[j] \in {"none", "delayed", "failed"} => bull'[j] = bull[j]
             /\ bull[j] \in {"active", "added"} =>
                   \/ bull'[j] = "failed" /\ (j \in handed \/ lost')
                   \/ bull'[j] = "delayed" /\ (bull[j] = "added" => repeated')
  OBVIOUS
<1>4. /\ UNCHANGED <<rec, tasks, handed>>
      /\ lost => lost'
      /\ repeated => repeated'
      /\ cancel.pc = "none" => cancel'.pc = "none"
  OBVIOUS
<1> HIDE DEF Crash
<1>5. NotYetPushed'
  BY <1>1, <1>2, <1>3, <1>4
<1>6. OccurrenceKnown' /\ HandedOver' /\ FailureRecorded'
  BY <1>2, <1>3, <1>4
<1>7. FoundIsPushedOrPending'
  BY <1>1, <1>2, <1>3, <1>4
<1>8. Carried
  BY <1>2, <1>3, <1>4 DEF Carried, HandedOnce, Pending
<1> QED
  BY <1>5, <1>6, <1>7, <1>8

(* A step of the scheduler, by action.                                     *)
LEMMA SchedulerKeeps ==
    ASSUME TypeOK, Bookkeeping, UNCHANGED calendarVars,
           SchedulerProgress \/ SchedulerFault
    PROVE  Bookkeeping' /\ Carried
<1>1. CASE SchedulerProgress
  BY <1>1, TickKeeps, CreateJobKeeps, PushNewKeeps, StartKeeps, AddTaskKeeps,
     DeleteRecordKeeps, ScanStartKeeps, ScanPushKeeps, ScanSaveKeeps,
     CancelFindKeeps, CancelRemoveKeeps, CancelDeleteKeeps
  DEF SchedulerProgress
<1>2. CASE SchedulerFault
  BY <1>2, PostFailsKeeps, DispatchFailsKeeps, ScanPushFailsKeeps,
     CancelFailsKeeps, CrashKeeps
  DEF SchedulerFault
<1> QED
  BY <1>1, <1>2

(***************************************************************************)
(* The chain of reminders.                                                 *)
(***************************************************************************)
Chain ==
    /\ SingleChain /\ ChainKept /\ NoSecondHandOver
    /\ AnnouncedInOrder /\ PassedOverCancelled /\ NoGaps

LEMMA SchedulerKeepsChain ==
    ASSUME TypeOK, Chain, Carried, UNCHANGED calendarVars
    PROVE  Chain'
<1> USE DEF Chain, calendarVars, eventVars
<1>1. ASSUME live, ~repeated'
      PROVE  /\ ~repeated
             /\ HandedOnce'
             /\ \A j \in JobIds : Pending(j)' => Pending(j)
  BY <1>1 DEF Carried, NoSecondHandOver, HandedOnce
<1>2. SingleChain' /\ NoSecondHandOver'
  BY <1>1 DEF SingleChain, NoSecondHandOver, HandedOnce
<1>3. ChainKept'
  BY DEF ChainKept, Carried
<1>4. AnnouncedInOrder'
  BY DEF AnnouncedInOrder, Carried
<1>5. PassedOverCancelled' /\ NoGaps'
  BY DEF PassedOverCancelled, NoGaps, Carried
<1> QED
  BY <1>2, <1>3, <1>4, <1>5

(* The host cancels and restores occurrences, and deletes the event.       *)
LEMMA HostKeeps ==
    ASSUME TypeOK, Bookkeeping, Chain, Host
    PROVE  Bookkeeping' /\ Chain'
<1> USE DEF TypeOK, SchedulerTypeOK, Bookkeeping, Chain, NotYetPushed,
        OccurrenceKnown, HandedOver, FailureRecorded, FoundIsPushedOrPending,
        SingleChain, ChainKept, NoSecondHandOver, AnnouncedInOrder,
        PassedOverCancelled, NoGaps, Pending
<1>1. ASSUME NEW k \in Occurrences,
             CancelOccurrence(k) \/ RestoreOccurrence(k)
      PROVE  Bookkeeping' /\ Chain'
  <2>1. /\ UNCHANGED <<schedulerVars, live, occ, reminded, reached, ended>>
        /\ exceptions' \subseteq everExcepted'
        /\ everExcepted \subseteq everExcepted'
    BY <1>1 DEF CancelOccurrence, RestoreOccurrence
  <2>2. Bookkeeping'
    BY <2>1 DEF schedulerVars, clock, history
  <2>3. SingleChain' /\ ChainKept' /\ NoSecondHandOver' /\ AnnouncedInOrder'
    BY <2>1 DEF schedulerVars, clock, history
  <2>4. PassedOverCancelled' /\ NoGaps'
    BY <2>1 DEF schedulerVars, clock, history
  <2> QED
    BY <2>2, <2>3, <2>4
<1>2. CASE DeleteEvent
  <2>1. /\ ~live'
        /\ UNCHANGED <<post, due, rec, bull, tasks, scan, history, exceptions,
                       occ, reminded, reached, ended, everExcepted>>
    BY <1>2 DEF DeleteEvent
  <2>2. Bookkeeping'
    BY <2>1 DEF history
  <2>3. Chain'
    BY <2>1 DEF history
  <2> QED
    BY <2>2, <2>3
<1> QED
  BY <1>1, <1>2 DEF Host

(* What the handler of occurrence k asks the scheduler for: nothing more,  *)
(* or a new job for the first occurrence that follows and is not cancelled. *)
NewJob(n, next, k) ==
    /\ post[n] = "none"
    /\ post' = [post EXCEPT ![n] = "sent"]
    /\ occ' = [occ EXCEPT ![n] = next]
    /\ next \in Following(k)
    /\ \A i \in Following(k) : next <= i
    /\ UNCHANGED <<lost, ended>>

NoNewJob ==
    /\ UNCHANGED <<post, occ>>
    /\ lost => lost'
    /\ ended => ended'

LEMMA HandlerAsks ==
    ASSUME NEW k, ScheduleNext(k)
    PROVE  \/ NoNewJob /\ (ended' \/ lost')
           \/ \E n \in JobIds, next \in Occurrences : NewJob(n, next, k)
<1>1. CASE Following(k) = {} /\ ended' = TRUE /\ UNCHANGED <<post, due, occ, lost>>
  BY <1>1 DEF NoNewJob
<1>2. ASSUME NEW next \in Following(k), \A i \in Following(k) : next <= i,
             Request(next), UNCHANGED ended
      PROVE  \/ NoNewJob /\ (ended' \/ lost')
             \/ \E n \in JobIds : NewJob(n, next, k)
  BY <1>2 DEF Request, NoNewJob, NewJob, FreeJobs
<1>3. Following(k) \subseteq Occurrences
  BY DEF Following
<1> QED
  BY <1>1, <1>2, <1>3 DEF ScheduleNext

(* A step of the handler disturbs no job but its own, and at most adds one. *)
LEMMA HandlerKeepsJobs ==
    ASSUME TypeOK, Bookkeeping, NEW k,
           UNCHANGED <<rec, bull, scan, cancel, handed, live>>,
           \A i \in JobIds : tasks'[i] > 0 => tasks[i] > 0,
           TypeOK',
           \/ NoNewJob
           \/ \E n \in JobIds, next \in Occurrences : NewJob(n, next, k)
    PROVE  Bookkeeping'
<1> USE DEF TypeOK, SchedulerTypeOK, Bookkeeping, NotYetPushed, OccurrenceKnown,
        HandedOver, FailureRecorded, FoundIsPushedOrPending
<1>1. HandedOver' /\ FoundIsPushedOrPending'
  OBVIOUS
<1>2. FailureRecorded'
  BY DEF NoNewJob, NewJob
<1>3. NotYetPushed' /\ OccurrenceKnown'
  <2>1. CASE NoNewJob
    BY <2>1 DEF NoNewJob
  <2>2. ASSUME NEW n \in JobIds, NEW next \in Occurrences, NewJob(n, next, k)
        PROVE  NotYetPushed' /\ OccurrenceKnown'
    BY <2>2 DEF NewJob
  <2> QED
    BY <2>1, <2>2
<1> QED
  BY <1>1, <1>2, <1>3

(* The days between occurrence k and the one asked for were cancelled; the *)
(* days before k were handled, or passed over for the same reason.         *)
LEMMA HandlerSkipsCancelled ==
    ASSUME TypeOK, TypeOK', PassedOverCancelled, NoGaps, NEW j \in JobIds,
           post[j] # "none", occ[j] \in Occurrences,
           UNCHANGED eventVars, Remind(occ[j]),
           \/ NoNewJob
           \/ \E n \in JobIds, next \in Occurrences : NewJob(n, next, occ[j])
    PROVE  PassedOverCancelled' /\ NoGaps'
<1> DEFINE k == occ[j]
<1>1. /\ k \in 1..Last /\ reached \in 0..Last
      /\ reached' = IF k > reached THEN k ELSE reached
  BY DEF Remind, TypeOK, Occurrences
<1>2. reached <= reached' /\ k <= reached' /\ (reached' = reached \/ reached' = k)
  BY <1>1
<1>3. UNCHANGED <<exceptions, everExcepted>> /\ exceptions \subseteq everExcepted
  BY DEF PassedOverCancelled, eventVars
<1>4. PassedOverCancelled'
  <2>1. ASSUME NEW i \in JobIds, post[i] # "none",
               NEW d \in Occurrences, d < occ[i]
        PROVE  d <= reached' \/ d \in everExcepted'
    BY <1>1, <1>2, <1>3, <2>1 DEF PassedOverCancelled, Occurrences
  <2>2. CASE NoNewJob
    BY <1>3, <2>1, <2>2 DEF NoNewJob, PassedOverCancelled
  <2>3. ASSUME NEW n \in JobIds, NEW next \in Occurrences, NewJob(n, next, k)
        PROVE  PassedOverCancelled'
    <3>1. ASSUME NEW d \in Occurrences, d < next
          PROVE  d <= reached' \/ d \in everExcepted'
      <4>1. CASE d <= k
        BY <1>1, <1>2, <4>1 DEF Occurrences
      <4>2. CASE d > k
        BY <1>3, <2>3, <3>1, <4>2 DEF NewJob, Following, Occurrences
      <4> QED
        BY <1>1, <4>1, <4>2 DEF Occurrences
    <3>2. ASSUME NEW i \in JobIds, post'[i] # "none"
          PROVE  \/ i = n /\ occ'[i] = next
                 \/ post[i] # "none" /\ occ'[i] = occ[i]
      BY <2>3, <3>2 DEF NewJob, TypeOK, SchedulerTypeOK
    <3> QED
      BY <1>3, <2>1, <3>1, <3>2 DEF PassedOverCancelled
  <2> QED
    BY <2>2, <2>3
<1>5. NoGaps'
  <2> SUFFICES ASSUME DateShift = 0, NEW d \in 1..reached', reminded'[d] = 0
               PROVE  d \in everExcepted'
    BY DEF NoGaps
  <2>1. d \in Occurrences /\ reminded[d] \in Nat
    BY <1>1, <1>2 DEF Occurrences, TypeOK
  <2>2. CASE d = k
    <3>1. reminded'[k] = IF IsCanceled(k) THEN reminded[k] ELSE reminded[k] + 1
      BY <2>1, <2>2 DEF Remind, TypeOK
    <3>2. IsCanceled(k)
      BY <2>1, <2>2, <3>1
    <3> QED
      BY <1>1, <1>3, <2>2, <3>2 DEF IsCanceled
  <2>3. CASE d # k
    <3>1. reminded[d] = 0
      BY <2>1, <2>3 DEF Remind, TypeOK
    <3>2. CASE d <= reached
      BY <1>1, <1>3, <3>1, <3>2 DEF NoGaps
    <3>3. CASE d > reached
      <4>1. d < k
        BY <1>1, <1>2, <2>1, <2>3, <3>3 DEF Occurrences
      <4> QED
        BY <1>1, <1>3, <2>1, <3>3, <4>1 DEF PassedOverCancelled, Occurrences
    <3> QED
      BY <1>1, <2>1, <3>2, <3>3 DEF Occurrences
  <2> QED
    BY <2>2, <2>3
<1> QED
  BY <1>4, <1>5

(* A task in the queue of the main server was handed over, for an          *)
(* occurrence of the event.                                                *)
LEMMA TaskWasHandedOver ==
    ASSUME TypeOK, Bookkeeping, NEW j \in JobIds, tasks[j] > 0
    PROVE  /\ j \in handed /\ post[j] = "done" /\ occ[j] \in Occurrences
           /\ Pending(j)
BY DEF TypeOK, SchedulerTypeOK, PostState, Bookkeeping, HandedOver, NotYetPushed,
       OccurrenceKnown, Pending

LEMMA HandleTaskKeeps ==
    ASSUME TypeOK, TypeOK', Bookkeeping, Chain, NEW j \in JobIds, HandleTask(j)
    PROVE  Bookkeeping' /\ Chain'
<1> DEFINE k == occ[j]
<1>1. /\ j \in handed /\ post[j] = "done" /\ k \in Occurrences /\ Pending(j)
  BY TaskWasHandedOver DEF HandleTask
<1>2. /\ UNCHANGED <<rec, bull, scan, cancel, handed, repeated, eventVars>>
      /\ tasks' = [tasks EXCEPT ![j] = @ - 1] /\ tasks[j] > 0
      /\ Handle(j)
  BY DEF HandleTask
<1>3. \A i \in JobIds : /\ tasks'[i] > 0 => tasks[i] > 0
                        /\ i # j => tasks'[i] = tasks[i]
                        /\ tasks'[i] <= tasks[i]
  BY <1>2 DEF TypeOK, SchedulerTypeOK
<1>4. CASE ~live
  <2>1. UNCHANGED <<post, occ, lost, reminded, reached, ended>>
    BY <1>2, <1>4 DEF Handle
  <2>2. Bookkeeping'
    BY <1>2, <1>3, <2>1, HandlerKeepsJobs DEF NoNewJob, eventVars
  <2>3. Chain'
    BY <1>2, <1>4, <2>1 DEF Chain, SingleChain, ChainKept, NoSecondHandOver,
       AnnouncedInOrder, PassedOverCancelled, NoGaps, eventVars
  <2> QED
    BY <2>2, <2>3
<1>5. CASE live
  <2>1. /\ Remind(k)
        /\ \/ NoNewJob /\ (ended' \/ lost')
           \/ \E n \in JobIds, next \in Occurrences : NewJob(n, next, k)
    BY <1>2, <1>5, HandlerAsks DEF Handle
  <2>2. Bookkeeping'
    BY <1>2, <1>3, <2>1, HandlerKeepsJobs DEF eventVars
  <2>3. PassedOverCancelled' /\ NoGaps'
    BY <1>1, <1>2, <2>1, HandlerSkipsCancelled DEF Chain
  <2>4. ChainKept'
    <3>1. ASSUME NEW n \in JobIds, NEW next \in Occurrences, NewJob(n, next, k)
          PROVE  Pending(n)'
      BY <1>2, <3>1 DEF NewJob, Pending, Bookkeeping, NotYetPushed, TypeOK,
         SchedulerTypeOK
    <3> QED
      BY <2>1, <3>1 DEF ChainKept
  <2>5. ASSUME ~repeated'
        PROVE  SingleChain' /\ NoSecondHandOver' /\ AnnouncedInOrder'
    <3>1. /\ ~repeated
          /\ \A i \in JobIds : Pending(i) => i = j
          /\ k > reached /\ tasks[j] = 1 /\ bull[j] \notin {"delayed", "active"}
      BY <1>1, <1>2, <1>5, <2>5 DEF Chain, SingleChain, NoSecondHandOver, TypeOK,
         SchedulerTypeOK
    <3>2. reached' = k
      BY <2>1, <3>1 DEF Remind
    <3>3. ~Pending(j)'
      BY <1>1, <1>2, <3>1 DEF Pending, TypeOK, SchedulerTypeOK
    <3>4. ASSUME NEW i \in JobIds, i # j, Pending(i)'
          PROVE  \E next \in Occurrences : NewJob(i, next, k)
      <4>1. ~Pending(i)
        BY <3>1, <3>4
      <4>2. post'[i] # post[i]
        BY <1>2, <1>3, <3>4, <4>1 DEF Pending
      <4> QED
        BY <2>1, <4>2 DEF NoNewJob, NewJob, TypeOK, SchedulerTypeOK
    <3>5. ASSUME NEW i \in JobIds, Pending(i)'
          PROVE  /\ \E next \in Occurrences : NewJob(i, next, k)
                 /\ occ'[i] > reached'
      <4>1. PICK next \in Occurrences : NewJob(i, next, k)
        BY <3>3, <3>4, <3>5
      <4> QED
        BY <3>2, <4>1 DEF NewJob, Following, TypeOK
    <3>6. SingleChain'
      BY <3>5 DEF SingleChain, NewJob, TypeOK, SchedulerTypeOK, PostState
    <3>7. NoSecondHandOver'
      BY <1>2, <1>3, <1>5, <3>1, <3>5 DEF NoSecondHandOver, Chain, TypeOK,
         SchedulerTypeOK
    <3>8. AnnouncedInOrder'
      <4>1. reminded[k] = 0 /\ k \notin 0..reached
        BY <1>1, <3>1 DEF Chain, AnnouncedInOrder, TypeOK, Occurrences
      <4>2. reminded'[k] <= 1
        BY <1>1, <2>1, <4>1 DEF Remind, TypeOK
      <4>3. ASSUME NEW d \in Occurrences, d # k
            PROVE  reminded'[d] = reminded[d]
        BY <2>1, <4>3 DEF Remind, TypeOK
      <4>4. ASSUME NEW d \in Occurrences, d > reached'
            PROVE  d # k /\ d > reached
        BY <1>1, <3>1, <3>2, <4>4 DEF TypeOK, Occurrences
      <4> QED
        BY <3>1, <4>2, <4>3, <4>4 DEF AnnouncedInOrder, Chain
    <3> QED
      BY <3>6, <3>7, <3>8
  <2>6. SingleChain' /\ NoSecondHandOver' /\ AnnouncedInOrder'
    BY <2>5 DEF SingleChain, NoSecondHandOver, AnnouncedInOrder
  <2> QED
    BY <2>2, <2>3, <2>4, <2>6 DEF Chain
<1> QED
  BY <1>4, <1>5

(* A task that is run again: whatever was done the first time, the chain   *)
(* does not break and leaves no gap.                                       *)
LEMMA HandleStallsKeeps ==
    ASSUME TypeOK, TypeOK', Bookkeeping, Chain, NEW j \in JobIds, HandleStalls(j)
    PROVE  Bookkeeping' /\ Chain'
<1> DEFINE k == occ[j]
<1>1. /\ j \in handed /\ post[j] = "done" /\ k \in Occurrences
  BY TaskWasHandedOver DEF HandleStalls
<1>2. /\ UNCHANGED <<rec, bull, scan, cancel, handed, tasks, eventVars>>
      /\ repeated' /\ tasks[j] > 0
  BY DEF HandleStalls
<1>3. CASE ~live
  <2>1. UNCHANGED <<post, occ, lost, reminded, reached, ended>>
    BY <1>3 DEF HandleStalls, Handle
  <2>2. Bookkeeping'
    BY <1>2, <2>1, HandlerKeepsJobs DEF NoNewJob, eventVars
  <2>3. Chain'
    BY <1>2, <1>3, <2>1 DEF Chain, SingleChain, ChainKept, NoSecondHandOver,
       AnnouncedInOrder, PassedOverCancelled, NoGaps, eventVars
  <2> QED
    BY <2>2, <2>3
<1>4. CASE live
  <2>1. /\ Remind(k)
        /\ \/ NoNewJob
           \/ \E n \in JobIds, next \in Occurrences : NewJob(n, next, k)
    BY <1>4, HandlerAsks DEF HandleStalls, Handle, NoNewJob
  <2>2. Bookkeeping'
    BY <1>2, <2>1, HandlerKeepsJobs DEF eventVars
  <2>3. PassedOverCancelled' /\ NoGaps'
    BY <1>1, <1>2, <2>1, HandlerSkipsCancelled DEF Chain
  <2>4. SingleChain' /\ NoSecondHandOver' /\ AnnouncedInOrder'
    BY <1>2 DEF SingleChain, NoSecondHandOver, AnnouncedInOrder
  <2>5. ChainKept'
    BY <1>2 DEF ChainKept, Pending
  <2> QED
    BY <2>2, <2>3, <2>4, <2>5 DEF Chain
<1> QED
  BY <1>3, <1>4

LEMMA HandleFailsKeeps ==
    ASSUME TypeOK, TypeOK', Bookkeeping, Chain, NEW j \in JobIds, HandleFails(j)
    PROVE  Bookkeeping' /\ Chain'
<1>1. /\ UNCHANGED <<post, rec, bull, scan, cancel, handed, repeated, calendarVars>>
      /\ tasks' = [tasks EXCEPT ![j] = @ - 1]
      /\ lost'
  BY DEF HandleFails
<1>2. \A i \in JobIds : tasks'[i] <= tasks[i] /\ (tasks'[i] > 0 => tasks[i] > 0)
  BY <1>1 DEF TypeOK, SchedulerTypeOK
<1>3. Bookkeeping'
  BY <1>1, <1>2, HandlerKeepsJobs DEF NoNewJob, calendarVars, eventVars
<1>4. \A i \in JobIds : Pending(i)' => Pending(i)
  BY <1>1, <1>2 DEF Pending
<1>5. SingleChain' /\ ChainKept'
  BY <1>1, <1>4 DEF Chain, SingleChain, ChainKept, calendarVars, eventVars
<1>6. NoSecondHandOver'
  BY <1>1, <1>2, <1>4 DEF Chain, NoSecondHandOver, calendarVars, eventVars, TypeOK,
     SchedulerTypeOK
<1>7. AnnouncedInOrder' /\ PassedOverCancelled' /\ NoGaps'
  BY <1>1 DEF Chain, AnnouncedInOrder, PassedOverCancelled, NoGaps, calendarVars,
     eventVars
<1> QED
  BY <1>3, <1>5, <1>6, <1>7 DEF Chain

(***************************************************************************)
(* The theorems.                                                           *)
(***************************************************************************)
LEMMA InvariantInit == Init => ReminderInvariant
<1> SUFFICES ASSUME Init PROVE ReminderInvariant
  OBVIOUS
<1> USE DEF Init, SchedulerInit
<1>1. ASSUME NEW j \in JobIds
      PROVE  /\ post[j] = (IF j = 1 THEN "sent" ELSE "none")
             /\ occ[j] = (IF j = 1 THEN 1 ELSE 0)
             /\ rec[j] = "none" /\ bull[j] = "none" /\ tasks[j] = 0
  OBVIOUS
<1>2. ASSUME NEW p \in Scans
      PROVE  scan[p].todo = {} /\ scan[p].at \notin JobIds
  BY DEF IdleScan, NoId, JobIds
<1>3. /\ handed = {} /\ cancel.pc = "none" /\ reached = 0
      /\ exceptions \subseteq everExcepted
      /\ \A k \in Occurrences : reminded[k] = 0
  OBVIOUS
<1>4. 1 \in JobIds /\ 1 \in Occurrences
  BY DEF JobIds, Occurrences
<1> HIDE DEF Init, SchedulerInit
<1>5. /\ NotYetPushed /\ OccurrenceKnown /\ HandedOver /\ FailureRecorded
      /\ FoundIsPushedOrPending
  BY <1>1, <1>2, <1>3, <1>4 DEF NotYetPushed, OccurrenceKnown, HandedOver,
     FailureRecorded, FoundIsPushedOrPending
<1>6. \A j \in JobIds : Pending(j) <=> j = 1
  BY <1>1, <1>3 DEF Pending
<1>7. SingleChain /\ ChainKept
  BY <1>4, <1>6 DEF SingleChain, ChainKept
<1>8. NoSecondHandOver
  BY <1>1, <1>3, <1>6 DEF NoSecondHandOver
<1>9. AnnouncedInOrder /\ NoGaps
  BY <1>3 DEF AnnouncedInOrder, NoGaps
<1>10. PassedOverCancelled
  BY <1>1, <1>3 DEF PassedOverCancelled, Occurrences
<1> QED
  BY <1>5, <1>7, <1>8, <1>9, <1>10 DEF ReminderInvariant

LEMMA InvariantStep ==
    TypeOK /\ ReminderInvariant /\ [Next]_vars => ReminderInvariant'
<1> SUFFICES ASSUME TypeOK, ReminderInvariant, [Next]_vars
             PROVE  Bookkeeping' /\ Chain'
  BY DEF ReminderInvariant, Bookkeeping, Chain
<1>1. TypeOK' /\ Bookkeeping /\ Chain
  BY TypeStep DEF ReminderInvariant, Bookkeeping, Chain
<1>2. CASE (SchedulerProgress \/ SchedulerFault) /\ UNCHANGED calendarVars
  BY <1>1, <1>2, SchedulerKeeps, SchedulerKeepsChain
<1>3. CASE Host
  BY <1>1, <1>3, HostKeeps
<1>4. ASSUME NEW j \in JobIds, HandleTask(j) \/ HandleStalls(j) \/ HandleFails(j)
      PROVE  Bookkeeping' /\ Chain'
  BY <1>1, <1>4, HandleTaskKeeps, HandleStallsKeeps, HandleFailsKeeps
<1>5. CASE UNCHANGED vars
  <2>1. /\ UNCHANGED calendarVars
        /\ UNCHANGED <<post, rec, bull, tasks, scan, cancel, handed, repeated, lost>>
    BY <1>5 DEF vars, schedulerVars, history
  <2>2. Bookkeeping'
    BY <1>1, <2>1 DEF Bookkeeping, NotYetPushed, OccurrenceKnown, HandedOver,
       FailureRecorded, FoundIsPushedOrPending, calendarVars, eventVars
  <2>3. Carried
    BY <2>1 DEF Carried, HandedOnce, Pending
  <2> QED
    BY <1>1, <2>1, <2>2, <2>3, SchedulerKeepsChain
<1> QED
  BY <1>2, <1>3, <1>4, <1>5 DEF Next, Progress, Faults, Rest

(* Every state of the reminders and of the scheduler has its type.         *)
THEOREM RemindersTypeCorrect == Spec => []TypeOK
BY TypeInit, TypeStep, PTL DEF Spec

(* The inductive invariant: what the records, the queue and the scans hold *)
(* of each job, and what that makes of the chain.                          *)
THEOREM ReminderInvariantHolds == Spec => []ReminderInvariant
BY InvariantInit, InvariantStep, RemindersTypeCorrect, PTL DEF Spec

(* However often the scheduler crashes, however many scans overlap and     *)
(* whichever calls fail, at most one reminder of an event is on its way,   *)
(* but for the three accidents that the history records.                   *)
THEOREM SingleChainAlways == Spec => []SingleChain
<1>1. ReminderInvariant => SingleChain
  BY DEF ReminderInvariant
<1> QED
  BY <1>1, ReminderInvariantHolds, PTL

(* While the event exists and has occurrences left, the next reminder is   *)
(* on its way, unless a call that nobody repeats failed.                   *)
THEOREM ChainKeptAlways == Spec => []ChainKept
<1>1. ReminderInvariant => ChainKept
  BY DEF ReminderInvariant
<1> QED
  BY <1>1, ReminderInvariantHolds, PTL

(* Nobody is reminded twice of one occurrence.                             *)
THEOREM RemindedOnceAlways == Spec => []RemindedOnce
<1>1. ReminderInvariant => RemindedOnce
  BY DEF ReminderInvariant, AnnouncedInOrder, RemindedOnce
<1> QED
  BY <1>1, ReminderInvariantHolds, PTL

(* No occurrence is passed over silently.                                  *)
THEOREM NoGapsAlways == Spec => []NoGaps
<1>1. ReminderInvariant => NoGaps
  BY DEF ReminderInvariant
<1> QED
  BY <1>1, ReminderInvariantHolds, PTL

(***************************************************************************)
(* The look-ahead. When a scan begins it finds every record due within the *)
(* window; what it leaves, and what is created after it, is due later than *)
(* the next scan, if the window is as long as the period of the scan.      *)
(***************************************************************************)
LEMMA DivMod ==
    ASSUME NEW n \in Nat, NEW d \in Nat \ {0}
    PROVE  /\ n % d \in 0..(d - 1)
           /\ n \div d \in Nat
           /\ n = d * (n \div d) + (n % d)
OBVIOUS

LEMMA NextMod ==
    ASSUME NEW n \in Nat, NEW d \in Nat \ {0}, (n + 1) % d # 0
    PROVE  (n + 1) % d = (n % d) + 1
<1> DEFINE a == n \div d
           r == n % d
           b == (n + 1) \div d
           s == (n + 1) % d
<1>1. r \in 0..(d - 1) /\ a \in Nat /\ n = d * a + r
  BY DivMod
<1>2. s \in 0..(d - 1) /\ b \in Nat /\ n + 1 = d * b + s
  <2>1. n + 1 \in Nat
    OBVIOUS
  <2> QED
    BY <2>1, DivMod
<1>3. s # 0
  OBVIOUS
<1> HIDE DEF a, r, b, s
<1>4. ASSUME NEW x \in Nat, NEW y \in Nat, x < y
      PROVE  d * x + d <= d * y
  <2>1. /\ y - x - 1 \in Nat
        /\ d * (y - x - 1) \in Nat
        /\ d * y = d * x + d + d * (y - x - 1)
    BY <1>4
  <2> QED
    BY <2>1
<1>5. d * a \in Nat /\ d * b \in Nat
  BY <1>1, <1>2
<1>6. ~(a < b)
  BY <1>1, <1>2, <1>3, <1>4, <1>5
<1>7. ~(b < a)
  BY <1>1, <1>2, <1>3, <1>4, <1>5
<1>8. a = b
  BY <1>1, <1>2, <1>6, <1>7
<1>9. s = r + 1
  BY <1>1, <1>2, <1>8
<1> QED
  BY <1>9 DEF s, r

(* The time at which the scan of this quarter of an hour is due. *)
LastScan == now - (now % ScanEvery)

Examined(j) == \E p \in Scans : j \in scan[p].todo \/ scan[p].at = j

LookedAhead(j) ==
    /\ due[j] > now
    /\ ScanDue \/ due[j] > LastScan + Window \/ Examined(j)

ScannedInTime ==
    ~late => \A j \in JobIds : rec[j] = "PENDING" => LookedAhead(j)

LEMMA LastScanBounds ==
    ASSUME TypeOK
    PROVE  /\ LastScan \in Int /\ LastScan <= now /\ now < LastScan + ScanEvery
           /\ now % ScanEvery = 0 => LastScan = now
<1>1. now % ScanEvery \in 0..(ScanEvery - 1)
  BY DivMod DEF TypeOK, SchedulerTypeOK
<1> QED
  BY <1>1 DEF LastScan, TypeOK, SchedulerTypeOK

(* A step of the scheduler at one moment, other than the scan's beginning. *)
LEMMA SchedulerKeepsScanned ==
    ASSUME TypeOK, ScannedInTime, UNCHANGED <<now, scanned, due>>, late => late',
           ~late' => \A j \in JobIds :
               rec'[j] = "PENDING" =>
                   \/ rec[j] = "PENDING" /\ (Examined(j) => Examined(j)')
                   \/ due[j] > now + Window
    PROVE  ScannedInTime'
<1> SUFFICES ASSUME ~late', NEW j \in JobIds, rec'[j] = "PENDING"
             PROVE  LookedAhead(j)'
  BY DEF ScannedInTime
<1>1. LastScan' = LastScan /\ (ScanDue <=> ScanDue')
  BY DEF LastScan, ScanDue
<1>2. CASE rec[j] = "PENDING" /\ (Examined(j) => Examined(j)')
  BY <1>1, <1>2 DEF ScannedInTime, LookedAhead
<1>3. CASE due[j] > now + Window
  <2>1. due[j] \in Nat /\ now \in Nat /\ Window \in Nat
    BY DEF TypeOK, SchedulerTypeOK
  <2> QED
    BY <1>1, <1>3, <2>1, LastScanBounds DEF LookedAhead
<1> QED
  BY <1>2, <1>3

LEMMA TickKeepsScanned ==
    ASSUME TypeOK, ScannedInTime, ScanEvery <= Window, Tick
    PROVE  ScannedInTime'
<1> SUFFICES ASSUME ~late', NEW j \in JobIds, rec'[j] = "PENDING"
             PROVE  LookedAhead(j)'
  BY DEF ScannedInTime
<1>1. /\ ~late /\ ~Scanning /\ ~ScanDue
      /\ UNCHANGED <<rec, due>> /\ now' = now + 1 /\ scanned' = FALSE
  BY DEF Tick
<1>2. /\ due[j] \in Nat /\ now \in Nat /\ Window \in Nat /\ ScanEvery \in Nat \ {0}
      /\ LastScan \in Int /\ now < LastScan + ScanEvery
  BY LastScanBounds DEF TypeOK, SchedulerTypeOK
<1>3. ~Examined(j)
  BY <1>1 DEF Scanning, Examined, IdleScan, NoId, JobIds
<1>4. due[j] > LastScan + Window
  BY <1>1, <1>3 DEF ScannedInTime, LookedAhead
<1>5. due'[j] > now'
  BY <1>1, <1>2, <1>4
<1>6. CASE now' % ScanEvery = 0
  BY <1>1, <1>5, <1>6 DEF LookedAhead, ScanDue
<1>7. CASE now' % ScanEvery # 0
  <2>1. now' % ScanEvery = (now % ScanEvery) + 1
    BY <1>1, <1>2, <1>7, NextMod
  <2>2. now % ScanEvery \in Int
    BY <1>2, DivMod
  <2>3. LastScan' = LastScan
    BY <1>1, <1>2, <2>1, <2>2 DEF LastScan
  <2> QED
    BY <1>1, <1>4, <1>5, <2>3 DEF LookedAhead
<1> QED
  BY <1>6, <1>7

LEMMA ScanStartKeepsScanned ==
    ASSUME TypeOK, ScannedInTime, NEW p \in Scans, ScanStart(p)
    PROVE  ScannedInTime'
<1> SUFFICES ASSUME ~late', NEW j \in JobIds, rec'[j] = "PENDING"
             PROVE  LookedAhead(j)'
  BY DEF ScannedInTime
<1>1. /\ UNCHANGED <<now, due, rec, late>> /\ now % ScanEvery = 0
      /\ scan[p] = IdleScan
      /\ scan' = [scan EXCEPT ![p].todo =
                    {i \in JobIds : rec[i] = "PENDING" /\ due[i] <= now + Window}]
  BY DEF ScanStart, ScanDue, history
<1>2. LastScan' = now
  BY <1>1, LastScanBounds DEF LastScan
<1>3. due'[j] > now'
  BY <1>1 DEF ScannedInTime, LookedAhead
<1>4. CASE due[j] <= now + Window
  <2>1. j \in scan'[p].todo
    BY <1>1, <1>4 DEF TypeOK, SchedulerTypeOK, ScanState
  <2> QED
    BY <1>3, <2>1 DEF LookedAhead, Examined
<1>5. CASE ~(due[j] <= now + Window)
  <2>1. due[j] \in Nat /\ now \in Nat /\ Window \in Nat
    BY DEF TypeOK, SchedulerTypeOK
  <2> QED
    BY <1>1, <1>2, <1>3, <1>5, <2>1 DEF LookedAhead
<1> QED
  BY <1>4, <1>5

LEMMA ScannedInit == Init => ScannedInTime
BY DEF Init, SchedulerInit, ScannedInTime

LEMMA ScannedStep ==
    ASSUME ScanEvery <= Window
    PROVE  TypeOK /\ ReminderInvariant /\ ScannedInTime /\ [Next]_vars
              => ScannedInTime'
<1> SUFFICES ASSUME TypeOK, NotYetPushed, ScannedInTime, [Next]_vars
             PROVE  ScannedInTime'
  BY DEF ReminderInvariant
<1> USE DEF history, clock
<1>1. CASE SchedulerProgress
  <2>1. CASE Tick
    BY <2>1, TickKeepsScanned
  <2>2. ASSUME NEW j \in JobIds, CreateJob(j) PROVE ScannedInTime'
    <3>1. \A i \in JobIds : rec'[i] = "PENDING" =>
              rec[i] = "PENDING" \/ due[i] > now + Window
      BY <2>2 DEF CreateJob, TypeOK, SchedulerTypeOK
    <3> QED
      BY <2>2, <3>1, SchedulerKeepsScanned DEF CreateJob, Examined
  <2>3. ASSUME NEW j \in JobIds, PushNew(j) \/ Start(j) \/ AddTask(j)
        PROVE  ScannedInTime'
    BY <2>3, SchedulerKeepsScanned DEF PushNew, Start, AddTask, Examined
  <2>4. ASSUME NEW j \in JobIds, DeleteRecord(j) PROVE ScannedInTime'
    <3>1. \A i \in JobIds : rec'[i] = "PENDING" => rec[i] = "PENDING"
      BY <2>4 DEF DeleteRecord, TypeOK, SchedulerTypeOK
    <3> QED
      BY <2>4, <3>1, SchedulerKeepsScanned DEF DeleteRecord, Examined
  <2>5. ASSUME NEW p \in Scans, ScanStart(p) PROVE ScannedInTime'
    BY <2>5, ScanStartKeepsScanned
  <2>6. ASSUME NEW p \in Scans, ScanPush(p) PROVE ScannedInTime'
    <3>1. \A i \in JobIds : Examined(i) => Examined(i)'
      BY <2>6 DEF ScanPush, Examined, TypeOK, SchedulerTypeOK, ScanState, NoId, JobIds
    <3> QED
      BY <2>6, <3>1, SchedulerKeepsScanned DEF ScanPush
  <2>7. ASSUME NEW p \in Scans, ScanSave(p) PROVE ScannedInTime'
    <3>1. \A i \in JobIds : rec'[i] = "PENDING" =>
              rec[i] = "PENDING" /\ (Examined(i) => Examined(i)')
      BY <2>7 DEF ScanSave, Examined, TypeOK, SchedulerTypeOK, ScanState
    <3> QED
      BY <2>7, <3>1, SchedulerKeepsScanned DEF ScanSave
  <2>8. CASE CancelFind \/ CancelRemove
    BY <2>8, SchedulerKeepsScanned DEF CancelFind, CancelRemove, Examined
  <2>9. CASE CancelDelete
    BY <2>9, SchedulerKeepsScanned DEF CancelDelete, Examined, TypeOK, SchedulerTypeOK
  <2> QED
    BY <1>1, <2>1, <2>2, <2>3, <2>4, <2>5, <2>6, <2>7, <2>8, <2>9
       DEF SchedulerProgress
<1>2. CASE SchedulerFault
  <2>1. ASSUME NEW j \in JobIds, PostFails(j) PROVE ScannedInTime'
    BY <2>1, SchedulerKeepsScanned DEF PostFails, Examined
  <2>2. ASSUME NEW j \in JobIds, DispatchFails(j) PROVE ScannedInTime'
    <3>1. \A i \in JobIds : rec'[i] = "PENDING" => rec[i] = "PENDING"
      BY <2>2 DEF DispatchFails, TypeOK, SchedulerTypeOK
    <3> QED
      BY <2>2, <3>1, SchedulerKeepsScanned DEF DispatchFails, Examined
  <2>3. ASSUME NEW p \in Scans, ScanPushFails(p) PROVE ScannedInTime'
    BY <2>3 DEF ScanPushFails, ScannedInTime
  <2>4. CASE CancelFails
    BY <2>4, SchedulerKeepsScanned DEF CancelFails, Examined
  <2>5. CASE Crash
    <3>1. UNCHANGED <<now, scanned, due>> /\ UNCHANGED rec
      BY <2>5 DEF Crash
    <3>2. (late => late') /\ (~late' => ~Scanning)
      BY <2>5, Zenon DEF Crash
    <3>3. ASSUME ~late', NEW i \in JobIds
          PROVE  ~Examined(i)
      BY <3>2, <3>3 DEF Scanning, Examined, IdleScan, NoId, JobIds
    <3> QED
      BY <3>1, <3>2, <3>3, SchedulerKeepsScanned
  <2> QED
    BY <1>2, <2>1, <2>2, <2>3, <2>4, <2>5 DEF SchedulerFault
<1>3. CASE Host
  <2>1. UNCHANGED <<now, scanned, due, rec, scan, late>>
    BY <1>3 DEF Host, CancelOccurrence, RestoreOccurrence, DeleteEvent, schedulerVars
  <2> QED
    BY <2>1, SchedulerKeepsScanned DEF Examined
<1>4. ASSUME NEW j \in JobIds, HandleTask(j) \/ HandleStalls(j) \/ HandleFails(j)
      PROVE  ScannedInTime'
  <2>1. UNCHANGED <<now, scanned, rec, scan, late>>
    BY <1>4 DEF HandleTask, HandleStalls, HandleFails
  <2>2. ASSUME NEW i \in JobIds, rec[i] = "PENDING"
        PROVE  due'[i] = due[i]
    <3>1. post[i] = "done"
      BY <2>2 DEF NotYetPushed
    <3>2. UNCHANGED due \/ \E next \in Occurrences : Request(next)
      BY <1>4 DEF HandleTask, HandleStalls, HandleFails, Handle, ScheduleNext,
         Following
    <3> QED
      BY <2>2, <3>1, <3>2 DEF Request, FreeJobs, TypeOK, SchedulerTypeOK
  <2> QED
    BY <2>1, <2>2 DEF ScannedInTime, LookedAhead, LastScan, ScanDue, Examined
<1>5. CASE UNCHANGED vars
  BY <1>5, SchedulerKeepsScanned DEF vars, schedulerVars, Examined
<1> QED
  BY <1>1, <1>2, <1>3, <1>4, <1>5 DEF Next, Progress, Faults, Rest

(* While no scan is delayed no record waits in the database past its time: *)
(* it is enough that the window is no shorter than the period of the scan  *)
(* (twenty minutes against fifteen).                                       *)
THEOREM OnTimeAlways ==
    ASSUME ScanEvery <= Window
    PROVE  Spec => []OnTime
<1>1. ScannedInTime => OnTime
  BY DEF ScannedInTime, LookedAhead, OnTime
<1> QED
  BY <1>1, ScannedInit, ScannedStep, RemindersTypeCorrect, ReminderInvariantHolds,
     PTL DEF Spec

==============================================================================
