------------------------------ MODULE Attendance ------------------------------
(***************************************************************************)
(* The workers of the BullMQ queue "meeting" (MeetingProcessor, up to ten  *)
(* jobs at a time) and what their attendance jobs do: markJoined, markLeft *)
(* followed by checkAndCloseEmptyRoom, and closeAllOpenVisits followed by  *)
(* endMeetingByCode. Every MongoDB or LiveKit call of a job is a step of   *)
(* its own, so that jobs interleave where the code awaits.                 *)
(***************************************************************************)
EXTENDS MeetingRoom, Sequences

CONSTANTS
    Workers,     \* jobs processed at the same time
    Attempts,    \* how often BullMQ runs a job that fails
    DbFaults     \* TRUE when a step of a job may throw, or its worker stall

ASSUME AttendanceAssumption ==
    /\ Attempts \in Nat \ {0}
    /\ DbFaults \in BOOLEAN

VARIABLES
    att,         \* the Attendance document of each session and user
    work,        \* what each worker is doing
    overlapped,  \* history: users with two jobs on their documents at once
    disordered   \* history: users with a job dropped, or begun before an
                 \* earlier one

attVars == <<att, work, overlapped, disordered>>

Visit == [n : Nat, open : BOOLEAN]

(* totalDurationSeconds is modelled by the set of visits (by index) whose  *)
(* duration the stored number adds up.                                     *)
Document == [visits : Seq(Visit), total : SUBSET Nat]

EmptyDocument == [visits |-> <<>>, total |-> {}]

(* What a job has read of one document: the visit to close and the total.  *)
Reading == [who : Users, idx : Nat, total : SUBSET Nat]

JobPc == {"idle", "findSession", "read", "write", "listRooms",
          "listParticipants", "endThenDelete", "deleteRoom", "endOnly", "ack"}

WorkerState == [pc : JobPc, job : Jobs, sid : Sessions \cup {NoSession},
                todo : SUBSET Reading]

NoJob == [kind |-> "closeAll", who |-> NoUser, n |-> 0, tries |-> 0]
IdleWorker == [pc |-> "idle", job |-> NoJob, sid |-> NoSession, todo |-> {}]

AttTypeOK ==
    /\ att \in [Sessions -> [Users -> Document]]
    /\ work \in [Workers -> WorkerState]
    /\ overlapped \subseteq Users
    /\ disordered \subseteq Users

Indices(d) == 1..Len(d.visits)
OpenVisits(d) == {i \in Indices(d) : d.visits[i].open}
ClosedVisits(d) == {i \in Indices(d) : ~d.visits[i].open}

(* Mutant: the first visit is taken for the open one. *)
FirstVisit(d) == 1

(* visits.findIndex((v) => !v.leftAt) *)
FirstOpen(d) == CHOOSE i \in OpenVisits(d) : \A k \in OpenVisits(d) : i <= k

ReadDocument(s, u) ==
    [who |-> u, idx |-> FirstOpen(att[s][u]), total |-> att[s][u].total]

(* $push of a visit that has no leftAt. *)
Pushed(d, n) ==
    [visits |-> Append(d.visits, [n |-> n, open |-> TRUE]), total |-> d.total]

(* $set of visits.<i>.leftAt and totalDurationSeconds. *)
Closed(d, i, total) ==
    [visits |-> [d.visits EXCEPT ![i].open = FALSE], total |-> total]

(* Mutant: the total is overwritten with the duration of this visit. *)
CloseWithoutAdding(s, t) ==
    att' = [att EXCEPT ![s][t.who] = Closed(@, t.idx, {t.idx})]

(* updateOne, the total being the one read earlier plus the duration of    *)
(* this visit.                                                             *)
CloseVisit(s, t) ==
    att' = [att EXCEPT ![s][t.who] = Closed(@, t.idx, t.total \cup {t.idx})]

(* findOneAndUpdate with upsert. *)
PushVisit(s, j) == att' = [att EXCEPT ![s][j.who] = Pushed(@, j.n)]

Goto(w, pc) == work' = [work EXCEPT ![w].pc = pc]

(***************************************************************************)
(* BullMQ hands out jobs. Retries wait for a back-off, webhooks are        *)
(* handled concurrently and ten jobs run at once, so any waiting job may   *)
(* be the next to begin.                                                   *)
(***************************************************************************)
Earlier(i, j) ==
    \/ i.n < j.n
    \/ i.n = j.n /\ i.kind = "joined" /\ j.kind = "left"

Running == {work[w].job : w \in {x \in Workers : work[x].pc # "idle"}}

Touches(j, u) == j.who = u \/ j.kind = "closeAll"

Take(w, j) ==
    /\ work[w].pc = "idle"
    /\ queue' = queue \ {j}
    /\ work' = [work EXCEPT ![w] = [IdleWorker EXCEPT !.pc = "findSession",
                                                      !.job = j]]
    /\ overlapped' = overlapped \cup
          {u \in Users : Touches(j, u) /\ \E i \in Running : Touches(i, u)}
    /\ disordered' = disordered \cup
          {u \in Users : j.who = u /\ \E i \in queue : i.who = u /\ Earlier(i, j)}
    /\ UNCHANGED <<sess, room, tokens, conn, att>>

(* findOngoingSession: without one the attendance part of the job is over. *)
FindSession(w) ==
    /\ work[w].pc = "findSession"
    /\ \/ /\ FindOngoing # NoSession
          /\ work' = [work EXCEPT ![w].pc = "read", ![w].sid = FindOngoing]
       \/ /\ FindOngoing = NoSession
          /\ Goto(w, CASE work[w].job.kind = "joined" -> "ack"
                       [] work[w].job.kind = "left" -> "listRooms"
                       [] work[w].job.kind = "closeAll" -> "endOnly")
    /\ UNCHANGED <<roomVars, att, overlapped, disordered>>

(* Mutant: an open visit does not count as a reconnection. *)
ReadJoinedUnchecked(w) ==
    /\ work[w].pc = "read" /\ work[w].job.kind = "joined"
    /\ Goto(w, "write")
    /\ UNCHANGED <<roomVars, att, overlapped, disordered>>

(* Mutant: the test for a reconnection is inverted. *)
ReadJoinedInverted(w) ==
    LET j == work[w].job IN
    /\ work[w].pc = "read" /\ j.kind = "joined"
    /\ Goto(w, IF OpenVisits(att[work[w].sid][j.who]) = {} THEN "ack" ELSE "write")
    /\ UNCHANGED <<roomVars, att, overlapped, disordered>>

(* markJoined reads the visits: an open one means a reconnection, for      *)
(* which only the display name is updated.                                 *)
ReadJoined(w) ==
    LET j == work[w].job IN
    /\ work[w].pc = "read" /\ j.kind = "joined"
    /\ Goto(w, IF OpenVisits(att[work[w].sid][j.who]) # {} THEN "ack" ELSE "write")
    /\ UNCHANGED <<roomVars, att, overlapped, disordered>>

WriteJoined(w) ==
    /\ work[w].pc = "write" /\ work[w].job.kind = "joined"
    /\ PushVisit(work[w].sid, work[w].job)
    /\ Goto(w, "ack")
    /\ UNCHANGED <<roomVars, overlapped, disordered>>

(* markLeft reads the document and looks for its first open visit.         *)
ReadLeft(w) ==
    LET s == work[w].sid
        u == work[w].job.who
    IN
    /\ work[w].pc = "read" /\ work[w].job.kind = "left"
    /\ \/ /\ OpenVisits(att[s][u]) = {}
          /\ Goto(w, "listRooms")
       \/ /\ OpenVisits(att[s][u]) # {}
          /\ work' = [work EXCEPT ![w].pc = "write",
                                  ![w].todo = {ReadDocument(s, u)}]
    /\ UNCHANGED <<roomVars, att, overlapped, disordered>>

WriteLeft(w) ==
    /\ work[w].pc = "write" /\ work[w].job.kind = "left"
    /\ \E t \in work[w].todo : CloseVisit(work[w].sid, t)
    /\ work' = [work EXCEPT ![w].pc = "listRooms", ![w].todo = {}]
    /\ UNCHANGED <<roomVars, overlapped, disordered>>

(* Mutant: without an open visit the job returns, and ends no session. *)
ReadCloseAllOrReturn(w) ==
    LET s == work[w].sid
        found == {u \in Users : OpenVisits(att[s][u]) # {}}
    IN
    /\ work[w].pc = "read" /\ work[w].job.kind = "closeAll"
    /\ work' = [work EXCEPT ![w].pc = IF found = {} THEN "ack" ELSE "write",
                            ![w].todo = {ReadDocument(s, u) : u \in found}]
    /\ UNCHANGED <<roomVars, att, overlapped, disordered>>

(* closeAllOpenVisits reads every document with an open visit, ...         *)
ReadCloseAll(w) ==
    LET s == work[w].sid
        found == {u \in Users : OpenVisits(att[s][u]) # {}}
    IN
    /\ work[w].pc = "read" /\ work[w].job.kind = "closeAll"
    /\ work' = [work EXCEPT ![w].pc = IF found = {} THEN "endOnly" ELSE "write",
                            ![w].todo = {ReadDocument(s, u) : u \in found}]
    /\ UNCHANGED <<roomVars, att, overlapped, disordered>>

(* ... then bulkWrite closes the first open visit of each, one document at *)
(* a time.                                                                 *)
WriteCloseAll(w) ==
    /\ work[w].pc = "write" /\ work[w].job.kind = "closeAll"
    /\ \E t \in work[w].todo :
          /\ CloseVisit(work[w].sid, t)
          /\ work' = [work EXCEPT
                        ![w].todo = @ \ {t},
                        ![w].pc = IF work[w].todo = {t} THEN "endOnly" ELSE @]
    /\ UNCHANGED <<roomVars, overlapped, disordered>>

(* checkAndCloseEmptyRoom after a "left": a room with an active breakout   *)
(* session is left alone; any error of a LiveKit call ends the session.    *)
JobListRooms(w) ==
    /\ work[w].pc = "listRooms"
    /\ \/ Goto(w, IF room.up /\ room.breakout THEN "ack" ELSE "listParticipants")
       \/ LiveKitFaults /\ Goto(w, "endOnly")
    /\ UNCHANGED <<roomVars, att, overlapped, disordered>>

(* Mutant: the session is ended, the empty room stays. *)
JobListParticipantsEndOnly(w) ==
    /\ work[w].pc = "listParticipants"
    /\ Goto(w, IF room.humans = {} THEN "endOnly" ELSE "ack")
    /\ UNCHANGED <<roomVars, att, overlapped, disordered>>

JobListParticipants(w) ==
    /\ work[w].pc = "listParticipants"
    /\ \/ Goto(w, IF room.humans = {} THEN "endThenDelete" ELSE "ack")
       \/ LiveKitFaults /\ Goto(w, "endOnly")
    /\ UNCHANGED <<roomVars, att, overlapped, disordered>>

JobEndMeeting(w) ==
    /\ work[w].pc \in {"endThenDelete", "endOnly"}
    /\ EndMeetingByCode
    /\ Goto(w, IF work[w].pc = "endOnly" THEN "ack" ELSE "deleteRoom")
    /\ UNCHANGED <<room, tokens, conn, queue, att, overlapped, disordered>>

JobDeleteRoom(w) ==
    /\ work[w].pc = "deleteRoom"
    /\ ForceDeleteLiveKitRoom
    /\ Goto(w, "ack")
    /\ UNCHANGED <<sess, tokens, conn, att, overlapped, disordered>>

(* The worker reports the job as completed to Redis.                       *)
Ack(w) ==
    /\ work[w].pc = "ack"
    /\ work' = [work EXCEPT ![w] = IdleWorker]
    /\ UNCHANGED <<roomVars, att, overlapped, disordered>>

(* Mutant: the job is added without attempts, and lost when it fails. *)
FailForGood(w) ==
    /\ DbFaults
    /\ work[w].pc # "idle"
    /\ work' = [work EXCEPT ![w] = IdleWorker]
    /\ UNCHANGED <<roomVars, att, overlapped, disordered>>

(* A step throws, or the worker stalls before its report: BullMQ runs the  *)
(* job again from its beginning, until its attempts are used up.           *)
Fail(w) ==
    LET j == work[w].job IN
    /\ DbFaults
    /\ work[w].pc # "idle"
    /\ work' = [work EXCEPT ![w] = IdleWorker]
    /\ \/ /\ j.tries + 1 < Attempts
          /\ queue' = queue \cup {[j EXCEPT !.tries = @ + 1]}
          /\ UNCHANGED disordered
       \/ /\ j.tries + 1 >= Attempts
          /\ disordered' = disordered \cup {u \in Users : Touches(j, u)}
          /\ UNCHANGED queue
    /\ UNCHANGED <<sess, room, tokens, conn, att, overlapped>>

JobStep(w) ==
    \/ FindSession(w)
    \/ ReadJoined(w) \/ WriteJoined(w)
    \/ ReadLeft(w) \/ WriteLeft(w)
    \/ ReadCloseAll(w) \/ WriteCloseAll(w)
    \/ JobListRooms(w) \/ JobListParticipants(w)
    \/ JobEndMeeting(w) \/ JobDeleteRoom(w)
    \/ Ack(w)

Worker(w) ==
    \/ \E j \in queue : Take(w, j)
    \/ JobStep(w)
    \/ Fail(w)

JobsDone == queue = {} /\ \A w \in Workers : work[w].pc = "idle"

(***************************************************************************)
(* The attendance of a meeting that has just been started: session 1 is    *)
(* ongoing, its room is up and empty, and every user holds a token.        *)
(***************************************************************************)
NoAttendance ==
    /\ att = [s \in Sessions |-> [u \in Users |-> EmptyDocument]]
    /\ work = [w \in Workers |-> IdleWorker]
    /\ overlapped = {}
    /\ disordered = {}

StartedMeeting ==
    /\ sess = [s \in Sessions |-> IF s = 1 THEN "ongoing" ELSE "unborn"]
    /\ room = [up |-> TRUE, sid |-> 1, humans |-> {}, breakout |-> FALSE, gen |-> 1]
    /\ tokens = Users
    /\ conn = [u \in Users |-> 0]
    /\ queue = {}

attendanceVars == <<roomVars, attVars>>

AttendanceInit == StartedMeeting /\ NoAttendance

(* Nothing is left to do: the server waits for the next webhook.           *)
Quiet == JobsDone /\ UNCHANGED attendanceVars

AttendanceNext ==
    \/ LiveKit /\ UNCHANGED attVars
    \/ \E w \in Workers : Worker(w)
    \/ Quiet

AttendanceSpec == AttendanceInit /\ [][AttendanceNext]_attendanceVars

(* Redis and the workers stay up: a waiting job is begun, a begun job goes *)
(* on. Participants and LiveKit timeouts are under no obligation.          *)
FairWorkers ==
    \A w \in Workers :
        /\ WF_attendanceVars(\E j \in queue : Take(w, j))
        /\ WF_attendanceVars(JobStep(w))

FairAttendanceSpec == AttendanceSpec /\ FairWorkers

AttendanceTypeOK == RoomTypeOK /\ AttTypeOK

(***************************************************************************)
(* Properties.                                                             *)
(***************************************************************************)

(* markJoined looks for an open visit before it pushes one, two calls      *)
(* apart: unless two jobs were on a user's documents at once, no document  *)
(* of the user ever has two visits open.                                   *)
OneOpenVisit ==
    \A s \in Sessions, u \in Users \ overlapped :
        \A i, k \in OpenVisits(att[s][u]) : i = k

(* totalDurationSeconds is written from a total read earlier: unless two   *)
(* jobs were on a user's documents at once it is the sum over exactly the  *)
(* closed visits, through failed and repeated jobs.                        *)
TotalIsExact ==
    \A s \in Sessions, u \in Users \ overlapped :
        att[s][u].total = ClosedVisits(att[s][u])

(***************************************************************************)
(* Why OneOpenVisit and TotalIsExact hold: while the jobs of a user never  *)
(* overlapped, what a worker has read of the user's document is still true *)
(* when it writes. AttendanceProofs shows the conjunction to be inductive. *)
(***************************************************************************)
Busy(w) == work[w].pc # "idle"

JobsApart ==
    \A u \in Users \ overlapped, v, w \in Workers :
        (v # w /\ Busy(v) /\ Busy(w)) =>
            ~(Touches(work[v].job, u) /\ Touches(work[w].job, u))

SessionFound ==
    \A w \in Workers : work[w].pc \in {"read", "write"} => work[w].sid \in Sessions

NothingOpenToPush ==
    \A w \in Workers :
        (/\ work[w].pc = "write" /\ work[w].job.kind = "joined"
         /\ work[w].job.who \notin overlapped) =>
            OpenVisits(att[work[w].sid][work[w].job.who]) = {}

ReadingsOfJob ==
    \A w \in Workers : \A t \in work[w].todo :
        /\ work[w].pc = "write" /\ work[w].job.kind # "joined"
        /\ Touches(work[w].job, t.who)
        /\ \A r \in work[w].todo : r.who = t.who => r = t

ReadingsCurrent ==
    \A w \in Workers : \A t \in work[w].todo :
        t.who \notin overlapped =>
            /\ t.idx \in OpenVisits(att[work[w].sid][t.who])
            /\ t.total = att[work[w].sid][t.who].total

AttendanceInvariant ==
    /\ OneOpenVisit /\ TotalIsExact
    /\ JobsApart /\ SessionFound
    /\ NothingOpenToPush /\ ReadingsOfJob /\ ReadingsCurrent

(* When every webhook job has been processed and a user's jobs neither     *)
(* overlapped nor got lost or out of order, the session that is still      *)
(* ongoing shows an open visit for the user exactly if the user is in the  *)
(* room.                                                                   *)
AttendanceMatchesPresence ==
    JobsDone =>
        \A s \in Ongoing, u \in Users \ (overlapped \cup disordered) :
            (OpenVisits(att[s][u]) # {}) <=> u \in room.humans

(* A room that LiveKit has closed does not leave its session ongoing: the  *)
(* room_finished job ends it, through failures and repetitions, unless     *)
(* somebody reopens the room first or a job uses up its attempts.          *)
SessionEndsWithRoom ==
    (~room.up /\ Ongoing # {})
        ~> (room.up \/ Ongoing = {} \/ disordered # {})

(* A job about somebody who left has still to look at the room.            *)
WillLook(w) ==
    work[w].pc \in {"findSession", "read", "write", "listRooms", "listParticipants"}

LeftPending ==
    \/ \E j \in queue : j.kind = "left"
    \/ \E w \in Workers : work[w].job.kind = "left" /\ WillLook(w)

(* The job of the last participant to leave closes the room without        *)
(* waiting for the LiveKit timeouts: if it finds nobody there and no       *)
(* breakout session the room is deleted, through failing jobs, unless      *)
(* somebody comes back, a breakout session is opened meanwhile or a job    *)
(* uses up its attempts. A room that was emptied during a breakout session *)
(* is not meant: when that ends no job looks at it any more.               *)
EmptyRoomIsReclaimed ==
    (room.up /\ room.humans = {} /\ ~room.breakout /\ LeftPending)
        ~> (~room.up \/ room.humans # {} \/ room.breakout \/ disordered # {})

(* webhooks.controller.ts on room_finished: close every visit still open,  *)
(* and end the session. Once the jobs are done and the room is gone, no    *)
(* document of a session that has ended has an open visit - at least if    *)
(* all jobs ran one at a time and in order.                                *)
VisitsClosedWhenOver ==
    (JobsDone /\ ~room.up /\ overlapped \cup disordered = {}) =>
        \A s \in Sessions, u \in Users :
            sess[s] = "ended" => OpenVisits(att[s][u]) = {}
==============================================================================
