# ToboMeet: TLA+ specifications, model checking and proofs

This directory holds a formal model of the back end of ToboMeet: what the
NestJS server, its BullMQ workers, the scheduler service and the LiveKit server
do to the state they share, when calls interleave, fail, are repeated or come
late. Paths below are relative to the repository; `server/` stands for
`src/apps/server/src/` and `scheduler/` for `src/apps/scheduler/src/`.

1. [The system](#1-the-system): inventory
2. [The modules](#2-the-modules): how state and actions correspond to the code
3. [The runs](#3-the-runs): what TLC checks, bounds, fairness
4. [What disagrees with the code](#4-what-disagrees-with-the-code)
5. [The proofs](#5-the-proofs)
6. [What is not modelled](#6-what-is-not-modelled)
7. [What could come next](#7-what-could-come-next)

To repeat a check: `tlc -workers 2 -config Reminders.cfg MCCalendarReminders.tla`
(the table in section 3 names the module of each configuration); to repeat a
proof: `tlapm CalendarRemindersProofs.tla`.

## 1. The system

ToboMeet is a monorepo: a NestJS server (`apps/server`), a scheduler service
(`apps/scheduler`), a whiteboard server (`apps/whiteboard`), a Python agent
that transcribes meetings (`apps/livekit-agent`), and web, mobile and desktop
clients. MongoDB keeps documents, Redis the BullMQ queues, a self-hosted LiveKit
server the rooms of running meetings. There are no automated tests.

| Component | State it keeps | Operations | Hard behaviours |
| --- | --- | --- | --- |
| Meeting sessions, `server/meetings/meetings.service.ts` | `MeetingSession` documents (ongoing or ended; a partial unique index on code and status), the LiveKit room and its metadata, join tokens | `joinMeeting`, `canStartMeeting`, `getActiveMeeting`, `endMeetingByCode`, `checkAndCloseEmptyRoom`, waiting room, screen share, roles, chat switch | each request is a chain of awaits between which it is overtaken; LiveKit calls fail, and an error often reads as "no room" or "nobody there" |
| Attendance, `server/meetings/attendance.service.ts` | one `Attendance` document per session and user: visits with `joinedAt`/`leftAt`, a stored total | `markJoined`, `markLeft`, `closeAllOpenVisits`, reports | read and write two calls apart, ten jobs at once, retries |
| Meeting queue, `server/meetings/processors/meeting.processor.ts` | BullMQ queue `meeting` | attendance jobs, automatic end of breakout rooms, post-processing of recordings | order, retries with back-off, jobs that outlive what they are about |
| LiveKit webhook, `server/webhooks/webhooks.controller.ts` | none: queues jobs | `participant_joined`, `participant_left`, `room_finished`, tracks, egress | several webhooks at once |
| Breakout rooms, `breakout-rooms.service.ts` | a field of the metadata of the main LiveKit room, the metadata of each sub room, one delayed job per meeting code | start, assign, end, automatic end | the metadata is read, changed and written back as a whole; main room, sub rooms and timer are changed one after another, and any call may fail |
| Recordings, `recordings.service.ts` | a flag in the same metadata, LiveKit egresses, files with manifests, jobs | start, stop, leaving of the recorder, screen shared meanwhile, post-processing | checks long before the egress begins; stopped by a user, a webhook and a job; errors that are swallowed |
| Waiting room and screen sharing, `meetings.service.ts` | a switch in the same metadata; status and permissions LiveKit keeps of each participant | switch, approve, grant and revoke screen sharing, roles | a participant is read and written back; who connects while the switch is turned |
| Polls, `polls.service.ts` | one document per poll | create, vote, close, delete | a document read before several awaits is saved after them |
| Scheduler, `scheduler/jobs/*` | `JobRecord` documents (PENDING, QUEUED, FAILED), delayed BullMQ jobs | `createJob`, scan every 15 minutes with a look-ahead of 20, dispatch, cancel by event | crash between record and queue, overlapping scans, jobs recovered after a stall |
| Scheduler client, `server/scheduler-client/*` | none | `scheduleJob`, `cancelJobByEvent` over HTTP | gives up after six seconds; nothing is tried again |
| Calendar, `server/calendar/*` | `CalendarEvent` documents: rule, exceptions, RSVP lists | create, update, delete (all or one), restore, RSVP, the reminder task | a series lives on by each reminder scheduling the next; dates in UTC against days in GMT+7 |
| Whiteboard server, `apps/whiteboard/src/server.ts` | tldraw rooms in memory, sessions of each room, the session of each user | connect, kick, disconnect, unload, settings | close events of a session that was replaced |
| Rooms, channels, members, `server/rooms/*` | `Room` documents: owner, members with role and status, channels | join, add, remove, roles, transfer, leave, disband, channel membership | read, several checks, save; rights read before and used after awaits; some saves name no version |
| Direct chat, `server/direct-chat/*` | messages, conversations: unread counters, pins, reactions | send, read, revoke, pin, react | arrays read and written back; two documents that must agree |
| Assignments and quizzes, `server/assignments/*` | submissions, quiz attempts | start, hand in, grade, mark essays, take back, delete | "is one active?" then "create"; totals computed from what was read before |
| Users and device sessions, `server/users/*` | device sessions | register, revoke | list, then update by query |
| Gateways, notifications, news feed, administration, reports, uploads, vector search, STT agent, clients | mostly single-document writes, external services | | |

How they interact. A client asks the server to join; the server asks LiveKit
which rooms exist and who is there, ends or creates a session, creates the room
and hands out a token. The client connects to LiveKit with the token. LiveKit
tells the server of every participant and of the end of the room by webhook; the
webhook handler queues a job, and a worker updates the attendance, ends the
session and deletes the empty room, which makes LiveKit send further webhooks.
The calendar asks the scheduler over HTTP for the first reminder; the scheduler
keeps it in MongoDB until it is due within twenty minutes, then as a delayed
job; at its time it puts a task into a queue of the main server, whose handler
reminds the participants and asks the scheduler for the next one.

What makes each modelled part correct:

* sessions of a code are opened one after another and an ended one stays ended;
  at most one is ongoing; a join that nobody disturbed hands out a token for a
  room and a session that belong together; no start leaves a session behind;
* a document has at most one open visit; the stored total is the sum over
  exactly the closed visits; when all jobs are done the open visits are those of
  the people present; the room that its last participant has left is closed by the job of his leaving,
  and its session ends with it;
* an event that exists has exactly one reminder on its way until its series is
  over; no occurrence is announced twice or passed over; no reminder waits past
  its time; the reminders of a deleted event die out.

* a breakout session with a duration has its own timer and ends, its timer ends
  no other one, and the sub rooms say what the main room says;
* one recording at a time; the flag everybody sees is set exactly while the
  egress is active; who leaves is not recording any more; what was stopped
  becomes a video;
* who is shown the waiting room is shut out and who is shown the meeting is
  not; when the waiting room is switched off nobody stays in it; of those who had
  to ask for it, one participant at a time may share a screen;
* a poll shows the last vote of each user;
* a room has one owner, who alone passes it on; every change of standing starts
  from the standing of that moment; who was removed does not come back by
  himself; nobody stays in a channel without being in the room; double entries
  are bounded by the pushes that missed a change;
* an attempt is handed in once, its score is never more than the sum of its
  parts, and less only by marks that the last request left out; one attempt is
  open at a time.

`PROJECT.json` lists the hazards of this code at their lines and, for each, the
properties that watch it.

## 2. The modules

    MeetingRoom --+-- Attendance ---+-- MeetingSystem -- MCMeetingSystem
                  |       |         |        |   \
                  |  MCAttendance   |        |    implements SessionRegister
                  |  AttendanceProofs        |
                  +-- JoinMeeting --+   MeetingSystemProofs

    Scheduler ---- CalendarReminders -- MCCalendarReminders
                          |
                   CalendarRemindersProofs

    RoomMetadata --+-- BreakoutRooms --+
                   +-- Recordings -----+-- MeetingControl -- MCMeetingControl
                   +-- Admission ------+        |
                       AdmissionProofs -- RecordingsProofs -- BreakoutRoomsProofs

    Documents --+-- Rooms -------+          implements RoomMembership
                +-- Polls -------+-- SharedDocuments -- MCSharedDocuments
                +-- Submissions -+        |
                +-- DirectChat --+        |
                                  DocumentsProofs -- RoomsProofs

`MeetingRoom` to `SessionRegister` are the life of a meeting, `Scheduler` and
`CalendarReminders` the reminders, `RoomMetadata` to `MeetingControl` what is done
to a running meeting, `Documents` to `SharedDocuments` the documents that several
users change at once. The four groups share no state that a property of theirs
could depend on: a request to a running meeting needs its room and its session
to be there, and fails otherwise.

Convention in all modules: a call to MongoDB, Redis or LiveKit is one atomic
step, and everything between two calls belongs to the step of the first.
Variables marked *history* are read by properties only. An operator whose
comment begins with "Mutant:" is not part of the model: it is a plausible bug in
the definition after it, used to show that a property would notice.

### MeetingRoom

The state that requests and workers share, for one meeting code (every query
filters by code and every LiveKit call names the room by it, so codes do not
interact).

| Variable | Stands for |
| --- | --- |
| `sess` | status of each `MeetingSession` document, numbered in order of creation |
| `room` | the LiveKit room: up or not, session named in its metadata, participants, mark of an active breakout session, number of the room |
| `tokens` | users whose join token has not expired (five minutes) |
| `conn` | number of each user's latest LiveKit connection |
| `queue` | waiting jobs of the BullMQ queue `meeting` |

`EndMeetingByCode` is the `updateMany` from ongoing to ended; `CreateSession`
respects the partial unique index of `meeting-session.schema.ts`;
`ForceDeleteLiveKitRoom` swallows the failure of `deleteRoom`. LiveKit and the
participants are external and modelled by what the server relies on: `Connect`
(rooms are created automatically, `livekit.yaml`; a second connection of one
identity drops the first), `Disconnect`, `TokenExpires`, `EmptyTimeout`.
`OpenBreakout` and `CloseBreakout` are the mark of a breakout session, set by the
host and taken away by him or by the timer whoever is in the main room: also
when nobody is, as while everybody is in a breakout room. When a
room ends, everybody in it causes a `participant_left` and the room a
`room_finished`. The jobs carry `n`, the connection or room that caused them:
the code does not carry it, it only keeps two jobs of one user apart here.

### Attendance

The workers of the queue, up to ten jobs at once. `work[w].pc` is the await at
which the job stands. `Take` picks *any* waiting job: retries wait for a
back-off, webhooks are handled concurrently. `ReadJoined`/`WriteJoined` are the
two calls of `markJoined`; `ReadLeft`/`WriteLeft` those of `markLeft`;
`ReadCloseAll`/`WriteCloseAll` those of `closeAllOpenVisits` (the `bulkWrite`
updates one document at a time); `JobListRooms` to `JobDeleteRoom` are
`checkAndCloseEmptyRoom`; `Fail` is a step that throws or a worker that stalls,
after which BullMQ runs the job again from its start until its attempts are used
up. The stored total is represented by the *set of visits* whose durations it
adds up, so that a duration lost, or added for the wrong visit, shows. (Adding
one twice is the same as adding it once in this representation; that a visit
is not closed twice is visible in `ReadingsCurrent`, which says that what is
about to be closed is still open.)

Two history variables say when the code cannot keep its promise: `overlapped`
(two jobs were on a user's documents at once) and `disordered` (a job of the
user was dropped for good, or begun before an earlier one). Properties exclude
just those users.

### JoinMeeting, MeetingSystem, SessionRegister

`JoinMeeting` is `joinMeeting` with what it calls, `canStartMeeting` (which it
calls in turn when it starts a meeting) and `getActiveMeeting`. `req[r].pc` is
the await at which the request stands. The client's flags (`allowStart`,
`forceSwitch`) are read once and chosen where they are read. With
`LiveKitFaults` an error of `listRooms` reads as "no room", one of
`listParticipants` as "nobody", one of `createRoom` is logged and ignored: as in
the code. `raced` marks requests during which somebody else changed a session or
the room; `origin` tells how a session came to be.

`MeetingSystem` interleaves requests, workers, LiveKit and participants.
`SessionRegister` is the abstract specification of the sessions, which
recordings, polls, invitations and attendance rely on: opened one after another,
only when none is open, never reopened. `ImplementsRegister` states that the
system implements it (the mapping is the identity on `sess`).

### Scheduler, CalendarReminders

`Scheduler` models the jobs of one event: `rec` (status of the `JobRecord`),
`bull` (its job in the dispatcher queue), `post` (the HTTP request that creates
it), `tasks` (tasks waiting at the main server), `scan` (what each execution of
the scan is doing), `cancel` (the cancellation). `CreateJob` saves the record as
QUEUED when it is due within the window, and only then `PushNew` adds it to the
queue; the scan finds PENDING records due within the window (`ScanStart`),
pushes one (`ScanPush`) and then saves it as QUEUED (`ScanSave`); BullMQ ignores
an id that it still holds (`PushToQueue`). `Start`, `AddTask`, `DeleteRecord` are
the dispatcher. `Crash` ends everything under way; the job that the worker held
is recovered once and fails the second time (`maxStalledCount`). One unit of
time is five minutes; `Tick` may pass over unfinished work, which `late` records
when it was a scan.

`CalendarReminders` adds the event, its cancelled days and
`handleCalendarTaskFromQueue`: `Remind` unless that day is cancelled, then
`ScheduleNext` for the first following day that is not. The handler is one step:
it reads the event first and sends its request last, and what it writes in
between, notifications, no other step here reads. That it may be run twice,
wholly or in part, is `HandleStalls`.

History variables: `repeated` (BullMQ recovered a job or task whose work was
done, or a scan pushed a job that was completed after the scan had found it),
`lost` (the request was lost, the process died between record and queue, the
dispatch or the handler failed), `late`, `reminded`, `reached`, `ended`,
`everExcepted`. The properties except exactly these accidents: against the first
two the code has no means.

### RoomMetadata, MeetingControl

The metadata of the main LiveKit room is one JSON string. `RoomMetadata` holds the
record that it encodes:

| Field of `main` | Stands for |
| --- | --- |
| `setting` | `isChatEnabled`, `approvalPermission`: the plain switches |
| `waitingRoom` | `isWaitingRoomEnabled` |
| `breakout`, `timed`, `assigned` | `breakoutSession`: `startedAt` (the n-th start), whether it has a duration, its `rooms` with the `assignedUsers` of each: a function whose domain is `sub_1` to `sub_n`, empty without a session |
| `recorder` | `recording.recorderId` |

Each operation reads all of it with `listRooms` and later writes all of it with
`updateRoomMetadata`; LiveKit checks no version. What is restored of the fields
of others is recorded in the history variable `overtaken`. `SettingReceive`,
`SettingList`, `SettingWrite` and `SettingFails` are a request for a switch, which
reads and writes like all others.

`MeetingControl` puts breakout rooms, recordings and admission together. They
meet in nothing but this record, where each owns its fields and restores the
others'; so in one behaviour one of them is at work (`topic`) and the requests
for settings beside it stand for the writes of the others: they write an old
record back at any point, which is all that another operation does to one's
fields.

### BreakoutRooms

`run[r]` is what a request of the host, or the worker of the job
`auto-end-breakout`, is doing; `sub` the metadata of each sub room; `timer` the
one job with the id `breakout-timer-<code>`. `startBreakoutSession` is
`StartReceive` (with the list of rooms of the request, one of `Plans`),
`StartList`, `UpsertSub` for each of these rooms, `StartWrite`, `StartClear`,
`AddJob`; `endBreakoutSession` is `EndReceive`, `EndClear`, `EndList`,
`EndWrite`, then `CloseRead`/`CloseWrite` for each room of the session that was
read (`ToClose`); `handleAutoEndBreakout`
begins with `AutoTake` and `AutoList`, goes on like an end from its write and
finishes with `Complete`; `assignUsersToBreakout` is `AssignReceive` to
`AssignSubWrite`. Each may fail at each call in the way the code handles it
(thrown: `HostFails`, at the queue too, and `AssignFails`; only logged:
`UpsertFails`, `CloseFails`, `AutoFails`; swallowed by `clearBreakoutJob`, after
which the start or the end goes on as if the timer had gone: `ClearFails`), the server may die (`ServerCrash`; BullMQ runs the job once more)
and LiveKit closes an empty sub room (`SubRoomExpires`). The look whether a sub
room exists and its creation or update are one step (`UpsertSub`), and
`UpsertFails` means that the second try of the code failed too.

History: `clashed` (a start together with another breakout operation), `torn`
(an operation cut short, or a call of it that failed), `unwound` (a failure has
left a session without its timer, or with the timer of another, and no timer has
been taken away since: the next start or end that works puts it right), `dropped`
(sub rooms that a start left out of the session it replaced).

### Recordings

`take[t]` follows the t-th recording: audio egress active, its raw file,
published, or lost; `owner` is who started it. `rec[c]` is what a request or
webhook is doing. `RecordList` to `StartMark` are `startRecording`; `StopList` (or
`ForcedStopList`) to `StopQueue` are `stopRecording`, whose calls of `stopEgress`
run in parallel and fail for an egress that has ended; `Leave`, `LeaveList` are
`handleParticipantLeft`, once from the webhook and once from the job it queues
(`crew`); `ShareScreen`, `UnshareScreen`, `ScreenCheck`, `ScreenTrack` are the
screen and `handleNewScreenShareTrack`. `PostRead`, `PostRender`, `PostUnlink`,
`PostPush` are `handlePostProcessing`: it reads *all* manifests of the meeting,
makes the video of the audio file read last, deletes the files of all, and adds
the video to the session; every error is swallowed (`PostFails`).

History: `crossed` (a start together with another request, or while the leaving
of its user was handled), `unmarked` (a start that failed after its egress had
begun), `cut` (a stop that did part of its work), `piled` (a job that found the
files of several recordings).

### Admission

`part[p]` is what LiveKit keeps of a participant: the status in the metadata,
which the clients read (`waiting`, `joined`), and the permission to publish and
its sources, which LiveKit enforces. `IssueToken` is the end of `joinMeeting`,
`Connect` the arrival with the status the token names. `ToggleReceive`,
`ToggleList`, `ToggleWrite`, `ListWaiting`, `Admit` are `toggleWaitingRoom`, which
lets in who waits when it is switched off; `ApproveReceive`, `Admit` are
`approveParticipant` for one or all; `ShareList`/`ShareGrant`,
`RevokeGet`/`RevokeWrite`, `RoleGet`/`RoleWrite` read a participant and write
back what they read. History: `overwritten` (an old status or permission
written back), `late` (who connected as waiting when the switch was being turned
off, or had been), `rivals` (two requests to share a screen at once). `sources` is
`canPublishSources`; `all` stands for an absent list, which lets everything be
published and which `Admitted` sets. `Granted` is whom `requestScreenShare` finds
(a list that names the screen), `Sharers` whom LiveKit lets share.

### Documents

How Mongoose saves decides what two requests can do to one document. A save
that replaces an array names the version it has read and increments it
(`SaveReplacing`); one that pushes increments it without naming it
(`SavePushing`); one of an element in its place names it and leaves it
(`SaveInPlace`); one of plain fields does neither (`SavePlain`). A save that
names an old version fails (`VersionError`). Of the versions only this is kept:
`stale`, the requests whose document has changed its version since they read it.
Which of the four each save is was determined from its assignments and from the
rules of Mongoose 9, which the package names; the library is external.

### Rooms, RoomMembership

`Rooms` is one room document: `members[u]` is the sequence of entries of a user,
in their order in the array, so that `find` and `findIndex` can return an
inactive first entry and miss a second one, as in the code; `channel[c].role[u]`
is whether and as what a user is listed. Every operation is a `...Receive`
action with the checks the code makes on the document it finds, and a `...Save`
action that changes the document as the code does. Since a save that names its
version fails when the document has changed, reading `members` in its `...Save`
is reading what was found; the saves that push (`EnterSave`, `NewChannelSave`)
use nothing but the request. `LeaveSave` takes whatever heir the request named,
`NewChannelSave` whatever members it named, and `RenameChannelReceive` checks no
right: as in the code.

`RoomMembership` is what the members of a room are promised: one owner who alone
passes the room on; whoever enters, leaves, rises or falls does so in one step
from the standing of that moment; a bounded number of admins. `ImplementsMembership`
maps the standing of a user to the role in the first active entry, and `torn`
to "somebody has two entries", from which on nothing is promised. History:
`blind[u]` (entries of a user pushed on a room that had changed since it was
read), `strays` (users a request listed in a channel while not in the room).

### Polls, Submissions, DirectChat, SharedDocuments

`Polls` is one poll with the voters of each option; `votePoll` is `VoteReceive`,
`VoteChecked` or `VoteRefused`, and `VoteSave`, which saves the lists that differ
from what it had read. `counted` is, as history, the last vote of each user.

`Submissions` is the work of one student for one assignment, of any `kind`: a
file, a quiz with one attempt or many, with an essay or without. `StartReceive`
to `StartCreate` are `startQuiz` in its three forms; `HandInReceive`/`HandIn` are
`submitQuiz`; `FileReceive`/`FileSave` `submit`; `GradeReceive`, `GradeSave`,
`GradeCreate` `grade` and `gradeStudent`, with a score or with feedback only;
`MarkReceive`/`MarkSave` `gradeEssayQuestion`, which marks both essay questions or
one of them (`Markings`; two stand for those that a request names and those it
leaves out) and totals the marks it names; `DeleteReceive`, `ResetSave`,
`DeleteSave` `deleteSubmission`, which keeps what has a score or feedback (`noted`).
History: `handed`, `resets`, `rivals` (requests that found no attempt while one
was being made), `hasty` (attempts with a score given as a whole, or saved on an
old reading), `partial` (attempts whose last marks left out an essay that was
marked before).

`DirectChat` is the pins of one conversation. That a message is pinned is kept in
`pinnedMessages` of the conversation (`pins`, in no order, since the update never
adds a message twice) and as `isPinned` of the message, and the requests update one
after the other: `pinMessage` is `PinReceive` (message read), `PinFind`
(conversation read), `PinPush` (the update that repeats both conditions) and
`PinMark`; `unpinMessage` is `UnpinReceive`, `UnpinPull`, `UnpinClear`;
`deleteMessage` is `RevokeReceive`, `RevokePull` if the message it read was marked,
and `RevokeSave`, which names the version only if there are attachments to
replace. `reactMessage` is `ReactReceive` and `ReactSave`: it replaces the list of
reactions, and thereby makes a revocation that has read the message fail after it
has taken the message off the list. `ChatRequestFails` is that error, and any
error of the database, after which what was already written stays. History:
`mixed`, the messages whose two records may disagree since pinning ran beside
unpinning or revoking, or one of them was cut short; a message leaves `mixed` again
when a request without such a rival is bound to set it right.

`SharedDocuments` puts the four together; no request concerns two of them, so
one is the `topic` of a behaviour.

## 3. The runs

| Run | Module, configuration | Shows | States |
| --- | --- | --- | --- |
| AttendanceReconnect | `MCAttendance`, `AttendanceReconnect.cfg` | one user who reconnects, two workers, failing database and LiveKit: `OneOpenVisit`, `TotalIsExact`, `AttendanceMatchesPresence`, the type invariant | 1.3 M |
| AttendanceLiveness | `MCAttendance`, `AttendanceLiveness.cfg` | two users, one worker, jobs that fail: `SessionEndsWithRoom`, `EmptyRoomIsReclaimed` under fair workers | 0.30 M |
| ConcurrentStarts | `MCMeetingSystem`, `ConcurrentStarts.cfg` | two requests of two users, failing LiveKit, no workers: `ImplementsRegister` | 1.2 M |
| StartVsCleanup | `MCMeetingSystem`, `StartVsCleanup.cfg` | a request, a worker that fails and retries, two meetings in a row: `UndisturbedJoinIsCoherent`, `StartsLeaveNoSession` | 5.5 M |
| Reminders | `MCCalendarReminders`, `Reminders.cfg` | a series of three, one fault, one delay, cancellations: `SingleChain`, `ChainKept`, `RemindedOnce`, `NoGaps`, `OnTime`; `ChainRunsOn`, `OrphansDie` under fairness; the type invariant | 0.41 M |
| MeetingControl | `MCMeetingControl`, `MeetingControl.cfg` | breakout sessions with one sub room or two, recordings, waiting room and screen sharing, two requests at once, a writer of settings, a call that fails or a crash: `TimerKept`, `SubRoomsAgree`, `AutoEndsOwnSession`; `OneRecording`, `FlagMatchesEgress`, `LeaverStopsRecording`, `StoppedIsPublished`; `StatusMatchesPermission`, `NobodyLeftWaiting`, `OneGrant`; `TimedSessionEnds` under fairness; the type invariant | 0.43 M |
| SharedDocuments | `MCSharedDocuments`, `SharedDocuments.cfg` | two requests at once on a room, a poll, the submissions of a student, the messages of a conversation: `ImplementsMembership`, `RemovedStaysOut`, `EntriesBounded`, `ChannelsWithinRoom`; `VotesCounted`; `HandedInOnce`, `ScoreIsSum`, `OneOpenAttempt`; `PinsKept`; the type invariant | 0.46 M |
| AttendanceLastTwoLeave, StartEndsLiveMeeting, CleanUpEndsNewMeeting, MorningReminders, RecordingsSoonAfter | | the disagreements of section 4 | |

In the passing runs each action fires, and each property is violated when one
definition is replaced by its mutant (`PROJECT.json`, "mutants").

### Bounds, and why they are enough

* *Sessions, connections.* `MaxSessions` 2 lets a new meeting start while jobs
  and requests of the first are still under way; a third adds no new pair. In
  the runs about attendance alone one session is enough: documents of distinct
  sessions are independent. `MaxConnects` 2 gives a connection that is replaced
  and one that replaces it, and a job of each that may overtake the other.
* *Requests, workers.* Two of each: the races in this code are between two
  parties, each reading before the other writes. Users are two where they
  matter as different people (the last but one to leave, two starters).
* *Breakout mark.* StartVsCleanup looks at behaviours in which the room is never
  marked as having a breakout session (`Unmarked`). All the mark does is to make a
  job leave an empty room alone, as if it had found somebody there; the runs
  about attendance have it.
* *Attempts.* The code gives three. One already fails for good and two already
  repeats; each run takes the smaller of the two that its question needs.
* *Capacity* is 100 in the code; 1 or 2 makes the limit reachable.
* *Time.* `Window` 4 and `ScanEvery` 3 are the 20 and 15 minutes of the code in
  units of five; `FirstAt` 5 is outside the window at any start of the clock
  before 1 and inside it afterwards, and `Period` 5 with a period of the scan of
  3 puts the three occurrences at three different phases of the scan. `Horizon`
  15 is the time of the last occurrence. `MaxFaults` 1 and `MaxDelays` 1: each
  accident of the list above takes one. Larger bounds (two overlapping scans,
  three faults, six delays, six jobs) were explored by simulation and by a partial
  search, without an error; the proofs of section 5 hold for all.
* *Faults* leave one scan before the end of time, otherwise `ChainRunsOn` would
  fail for want of time and not for want of a scan.
* *MeetingControl.* Two requests of each kind (`Hosts`, `Callers`, `Admins`) and
  one of a setting (`Setters`): the races are between two, each reading before
  the other writes, and the write of a setting is what a third party can do to
  their metadata. `MaxAsked` 4 is a budget: a request costs one, and one more for
  each that is already being served. `Budget` spends three of it on any behaviour,
  which is three requests one after another or two at once, and the fourth only
  on breakout sessions in which nothing fails: a start, an assignment and another
  one beside it. `MaxBreakouts` 2 gives the session whose timer outlives it and the
  one it finds. `MaxFaults` 1 is one failing call or crash. This bound matters for
  `LeaverStopsRecording`: the code tries twice, and two failures leave the leaver
  recording. A start comes with one sub room of free choice or with two of lists
  (`OneOrTwo`), so that a session may be replaced by one with fewer rooms or with
  more; one person suffices, since the code treats each alike; guests are two
  because `OneGrant` and `NobodyLeftWaiting` are about several. `Followed` leaves a
  behaviour with breakout sessions once two operations have disturbed each other
  (`clashed`, `overtaken`): a history variable never becomes false again, and every
  property of breakout sessions excepts what comes after it, so only the type
  invariant could be lost there, and that one is proved. No violation of liveness
  is hidden: what `Followed` cuts off has met what `TimedSessionEnds` waits for, and
  what `Budget` cuts off begins with a request or a failure, which fairness never
  demands.
* *SharedDocuments.* Two requests at once, three users, so that owner, heir and a
  third one can be distinct; one channel; `MaxMembers` 3 and `MaxAdmins` 1 (500 and
  3 in the code) make the limits reachable; four requests on a room or a poll
  and five on a submission, which lets one of them be overtaken, taken back and
  made again; two voters with two options; two different marks, for both essays or
  for one of them (`BothOrOne`); two messages and
  `MaxPins` 1 (3 in the code), so that two pins compete for the last place, with
  five requests, enough to bring a message out of step and back. Users, slots and
  messages are interchangeable (`Symmetry`): no definition tells them apart, and
  all properties of that run are safety properties.
* *RecordingsSoonAfter* drops what it does not need and allows four requests:
  start, stop, start, stop.
* *Requests beyond* `MaxJobs` count as lost, connections beyond `MaxConnects` do
  not happen, and a join is received only while a session can still be created
  for it: so bounds restrict behaviours and do not invent any.

### Fairness

`FairWorkers`: a waiting job is eventually begun and a begun job goes on. That
is BullMQ with a running Redis and a running worker; a worker that dies is the
action `Fail`. Clients and the timeouts of LiveKit are under no obligation:
`EmptyRoomIsReclaimed` holds although nobody else calls the server. It is about a
room in which somebody's leaving has still to be looked at: a room that was
emptied during a breakout session is not looked at again when that ends, and
only LiveKit's timeouts close it.

`FairSpec` of the reminders: `WF(Progress)`, one weak fairness for time and the
services together. The actions of the scheduler each happen at most a bounded
number of times, so weak fairness of their disjunction takes every behaviour to
its end; nothing is assumed of the host, and no particular order.

The fairness of `MeetingControl`: a job that is due is handed to a worker, which
goes on (`RunTimer`, BullMQ), and each request of a host that was received goes
on being served (`Serve`; the server awaits nothing but LiveKit and Redis). No
host need ever ask for anything, LiveKit need not close a room and nothing must
fail. Accidents appear in `TimedSessionEnds` itself: it excepts sessions whose
timer was lost by a failure (`unwound`), or after two
operations ran together or a field was restored (`clashed`, `overtaken`).

`SharedDocuments` states no fairness: no operation there has anything to bring
about later.

Deadlock is checked in all runs; where the system may rest for want of requests
an explicit step (`Quiet`, `Rest`) says so.

## 4. What disagrees with the code

Five properties that comments of the code state are violated by what it does.
Each has a run, with the smallest bounds that show it.

* **`VisitsClosedWhenOver`** (AttendanceLastTwoLeave). *"Close all visits still
  open and end the session"* (`webhooks.controller.ts:116`,
  `attendance.service.ts:182`). When the last two participants leave together
  the job of the first already sees an empty room and ends the session; the job
  of the second and the close-all job look for an *ongoing* session and find
  none. The second visit stays open and its duration is never added.
* **`StartSparesLiveMeeting`** (StartEndsLiveMeeting). *"Before creating a new
  session, end the old ones left hanging"* (`meetings.service.ts:160`). Two users
  start at the same time: the second one's `updateMany` ends the session that the
  first has just created and whose room is up.
* **`CleanUpSparesNewMeeting`** (CleanUpEndsNewMeeting). *"Nobody there: clean up
  the old room and close the old session to allow a new start"*
  (`meetings.service.ts:379`). The clean-up makes LiveKit send `room_finished`;
  its job knows only the meeting code and, when it runs after the new start, ends
  the new session.
* **`AnnouncedUnlessCancelled`** (MorningReminders). *"Notify everybody who takes
  part"* unless *"this day is in the list of exceptions"*
  (`calendar.service.ts:1404`, `1482`). `isCanceled` (`:1421`) compares the UTC
  date of the occurrence with days in GMT+7; for an event before seven in the
  morning the two differ by one day.
* **`NoRecordingDeleted`** (RecordingsSoonAfter). *"Delete the raw files and JSON
  that were processed, to avoid a clash with the next recording"*
  (`recordings.service.ts:514`). The job knows only the meeting code and works on
  every manifest of the meeting: when a second recording is stopped before the
  job of the first one runs, it makes one video and deletes the files of both.

Three more have no run of their own; a passing property states exactly how far
the code keeps what it says, and names the rest:

* *"Send the signal closing to all the sub rooms"* (`breakout-rooms.service.ts:355`,
  of the end of a breakout session). It goes to the rooms of the session that is
  read (`:346`, `:357`; the timer alike, `:281`, `:291`). A session that is started
  anew with fewer rooms forgets the others: they stay active, with the old
  `startedAt`, after its end too. `SubRoomsAgree` names them (`dropped`).
* *"Refused if somebody else is sharing already"* (`meetings.service.ts:791`).
  `requestScreenShare` looks for another participant whose `canPublishSources`
  names the screen (`:810`). Letting somebody in from the waiting room sets
  permissions without that list (`:579`, `:705`, `:733`), which opens every source
  to him, although the comment names microphone, camera and data (`:578`): he may
  share without asking, and the request of another one is not refused. `OneGrant`
  says that nothing but this, and two requests at once (`rivals`), leads to two.
* *"The total is MCQ + essay"* (`assignments.service.ts:1384`). `gradeEssayQuestion`
  adds up the marks named in the request (`:1385-1396`): essays marked in two
  requests count only in the second. `ScoreIsSum` says that the score is never more
  than the sum, and less only then (`partial`).

What the code does without contradicting anything it says is not listed here but
stands in the history variables that the properties except: a timer that a
request which failed had removed or left behind (`unwound`), two open attempts
(`rivals` of the submissions), a user entered twice (`blind`), and so on.

## 5. The proofs

TLAPS checks every theorem for every value of the constants that satisfies the
assumptions in the modules (bounds are natural numbers, `NoUser` is no user, an
event has at least one occurrence and a positive period, and so on).

**`AttendanceProofs`** proves `AttendanceTypeOK`, `OneOpenVisit` and
`TotalIsExact` of `AttendanceSpec`. Neither of the two is inductive: from a
state where a worker is about to push a visit, or to write a total, one step
breaks it. The inductive invariant `AttendanceInvariant` adds what a worker knows
between its read and its write: no two busy workers touch one user unless that
is recorded (`JobsApart`), a job that reads or writes has found a session
(`SessionFound`), one that is about to push has seen no open visit and there is
still none (`NothingOpenToPush`), the readings of a job are about distinct users
whom the job touches (`ReadingsOfJob`), and each is still true of the document
(`ReadingsCurrent`). A write of another worker cannot disturb a reading, by
`JobsApart`; its own write leaves the others, by `ReadingsOfJob`. That `findIndex`
finds an open visit when there is one rests on the well-foundedness of the
naturals.

It also proves `AttendanceMatchesPresence`, with the invariant
`PresenceRecorded` about one user at a time. The argument follows a meeting only
while it is *live*: its session is ongoing, no `room_finished` job is pending,
and the user's jobs neither overlapped nor were dropped or begun out of order.
What is not live never becomes so again (`LiveBefore`), since a `room_finished` job
stays until it has ended the session or is dropped (`CloseStaysPending`); so
LiveKit has never closed the room. Of a live meeting, the pending jobs of the user
tell of connections that exist (`JobsWithin`); those that wait are ordered by
connection and kind and all later than the one that runs (`JobsInOrder`), a
failed job returning to its old place; while any is pending, so is the one that
tells what the user did last (`LastPending`). A job that has done its part on
the document leaves it as the job reports, so that, when none is
pending, the document shows where the user is (`Recorded`).

**`MeetingSystemProofs`** proves `TypeOK` of the composed system, that the attendance invariant survives the composition, where sessions
end and start under the running jobs (`AttendanceHoldsInSystem`), and
`SystemImplementsRegister`: every step of the system opens or ends a session as
`SessionRegister` allows, or leaves them alone. The refinement needs that
sessions are created in order (`BornInOrder`) and at most one is ongoing
(`AtMostOneOngoing`, from the unique index), so that ending "all ongoing" sessions
is ending one.

Of the joins it proves `UndisturbedJoinIsCoherent`. `JoinsKnow` says, for each
point of `joinMeeting` and `canStartMeeting`, what a request that nobody has
disturbed knows: that the room is up, or is not (`RoomKnown`), that no session or
its own is ongoing (`SessionKnown`), and that it is not starting before it has
asked `canStartMeeting` (`StartingKnown`). Whatever others change makes it
`raced`; its own steps establish what the next point needs, the deletion of an
old room included. `StartsLeaveNoSession` is proved under the hypothesis that
the LiveKit API answers (`~LiveKitFaults`, as in its run: if `createRoom` fails,
the started session has no room, and no job will end it). `StartsKept` says
that a started session has a room, or a request is about to create one, or a
`room_finished` job is pending; attempts of that job may fail as long as it is
not dropped.

**`CalendarRemindersProofs`** proves `TypeOK`, `SingleChain`, `ChainKept`,
`RemindedOnce`, `NoGaps` and, if the period of the scan is no longer than the
window, `OnTime`: for any number of jobs, occurrences, crashes, failing calls and
*overlapping* scans. `ReminderInvariant` has two halves.
*Bookkeeping* is what holds of each job on its own: nothing of a job exists
before its request is received (`NotYetPushed`), a job stands for an occurrence
(`OccurrenceKnown`), tasks and finished dispatches have been handed over
(`HandedOver`), failures are recorded (`FailureRecorded`), and a record that a
scan still holds is PENDING, in the queue or handed over
(`FoundIsPushedOrPending`). *Chain* says that no job on its way has been handed
over and each lies ahead of what was handled (`NoSecondHandOver`), announcements
are in order (`AnnouncedInOrder`), and the days a job has skipped were cancelled
(`PassedOverCancelled`). The proof shows once what a step of the scheduler does
to the chain (`Carried`: it starts nothing, ends nothing unless it loses it, hands
nothing over twice), action by action, and then that whatever is `Carried`
keeps the chain; the handler is the only step that ends one job and starts
another. `OnTime` has an invariant of its own, `ScannedInTime`: between two scans,
what is PENDING and not held by a scan is due later than the window after the
last one.

**`DocumentsProofs`** proves, of the polls, `VotesCounted`: for any numbers of
voters, options and requests at once, the options show exactly the last saved
vote of each user. `PollInv` adds what a vote holds while it awaits: the voters it
has read are still those of the poll unless its version has changed
(`FreshReading`; its save fails then), and a vote that was checked chooses no more
than the poll allows (`ChoiceAllowed`).

Of the submissions it proves `HandedInOnce` and `ScoreIsSum`.
`SubInv` says what each request holds of an attempt: one that is there
(`HeldThere`), for a hand-in that is not stale still open (`HandInOpen`), for a
mark that is not stale with the points its total was computed from, and with the
marks it does not write in their places (`MarkCurrent`), so that what is saved is
the sum of the answers as they then are, but for those the request left out. Hence an attempt was handed in as often as it was taken back,
and once more when it is in (`HandedCount`): a second hand-in that found it open
has become stale. `OneOpenAttempt` has an invariant of its own, `AttemptsInv`: a
quiz without several attempts has none but the first (`OnlyFirst`), and
otherwise the open attempts that were never taken back and those about to be
created are at most one more than the starts that overlapped (`OpenCounted`).

Of the pins it proves `PinsKept`, for any numbers of messages and requests. The
limit needs no more than the condition of the update. The agreement is inductive
only with `PinsPending`: a message that is not `mixed` is either being pinned or
being taken off, never both, and whatever list and message do not yet agree on is
still to be written by one of the requests under way.

**`RoomsProofs`** proves `ImplementsMembership`, `EntriesBounded`,
`ChannelsWithinRoom` and `RemovedStaysOut`, for any number of users (finite),
channels and requests at once. `RoomInv` rests on one idea: a request
whose room has kept its version finds everything it checked when it was received
(`Checked`, `Fresh`), so that a
save that names the version may use it, and a save that does not is the only one
that can double an entry, which `blind` counts. That the owner's first active
entry is the owner's (`OwnerLeads`) holds while nobody was entered twice and is
what the refinement needs: each save is shown, operation by operation, to be one
step of `RoomMembership` or a stutter, and the first double entry is `torn`.
The module also holds the type invariant of `SharedDocuments`, from those of
the four kinds of documents.

**`AdmissionProofs`** proves, of the whole specification of `MeetingControl`,
`StatusMatchesPermission`, `NobodyLeftWaiting` and `OneGrant`. `AdmissionInv`
adds whom the requests under way are about to let in or to grant: of requests to
share a screen that did not overlap one is alone (`SharesAlone`), nobody else has
been granted it since (`GrantFollows`), so that at most one list of sources names
the screen (`GrantedOnce`), and while the switch is off whoever waits
without being late is expected by a request that will let him in
(`WaitersExpected`).

**`RecordingsProofs`** proves `OneRecording`, `FlagMatchesEgress` and
`StoppedIsPublished` of `MeetingControl`. Its invariant, `RecordingInv`, has
three parts. *Counting*: a start that nothing crosses is alone, and from its check of LiveKit on there is
no audio egress but its own (`StartsAlone`, `AudioFree`). *Flag*, as long as none
of the accidents has happened (`Calm`): an egress without a flag has a start that
will set it, a flag without an egress a stop that will clear it, and the
metadata a request has read still names the recorder. *Files*, as long as
nothing fails (`Unfailing`): each raw file is expected by a job, by a stop that
will queue one, or by a worker that has read it; each deleted one by the worker
that will publish it. Steps are classified once by what they do to egresses,
flag and files (`Records`, `Marks`, `Clears`, `Queues`, `Reads`, `Unlinks`, ...),
and each class is shown to keep each part.

It also proves `LeaverStopsRecording` for at most one failing call (`MaxFaults <= 1`).
The hypothesis is the property's own: webhook and job each try to stop the
recording once, so that two failures leave it running. `CrewInv` says that a stop
on behalf of somebody who left belongs to the webhook or the job of that leaving,
and is the only one (`LeavingsHandled`). `LeaverInv` follows the owner of an
active egress as long as no start crossed another operation, no flag failed to
be set and none was restored: the flag names the owner, or the start that will
set it does (`Named`); the owner is not gone, and if the webhook is through
without having stopped the egress, the one call that may fail has failed
(`Attended`); and a stop has seen every egress it is to stop (`StopKnows`).
`CrewInvariantHolds` states the first half, with the bounds of the counters.

**`BreakoutRoomsProofs`** proves `TimerKept`, `SubRoomsAgree` and
`AutoEndsOwnSession` of `MeetingControl`: what happens at rest, when
a session has been started, ended by the host or by its timer, people have been
assigned and calls have failed in any number and order. `BreakoutInv`
says of every operation under way what it still owes. *Timer*, while
nothing has failed since a timer was last taken away: unless a start is about to
renew it, the timer in the queue is that of the session in the metadata, or its
job is active, or an end has taken it away and will still write (`TimerSettled`);
a start that is about to add one finds none (`TimerRenewed`). *Knowledge*: a start that has written finds its own
session and lists, an end or the job has read every room that there is to close,
who closes sub rooms finds no session, the job that found its
session finds it or none, and what an assignment is about to hand to a sub room
is in the list of the main room (`Knows`). *Sub rooms*: each one that
is up is as the start under way made it if it is one of its rooms, or says what
the main room says, or somebody is about to close it or to hand it that list, or a
start has left it out (`RoomFollows`). Most steps change
the record of one request only; lemmas say once what such a step must keep
(`TimerKeptBy`, `RoomsKeptBy`, `KnownBy`), and each action is shown to keep it.
The other topics leave the session alone (`SessionLeft`). The proof
showed that `AutoEndsOwnSession` has to except sessions restored by a write of
another operation (`overtaken`), which takes one request more than the run makes.
The type invariant of `MeetingControl` as a whole follows from the invariants of
its three topics (`ControlTypeCorrect`).

**Assumptions.** Besides the typing of the bounds: a sub room, recorder, screen or
timer that stands for "none" is none (`RoomMetadataAssumption`,
`BreakoutAssumption`, `RecordingAssumption`), there are finitely many users
(`RoomsAssumption`), requests served at once (`RoomMetadataAssumption`,
`BreakoutAssumption`, `RecordingAssumption`, `AdmissionAssumption`), marks are natural numbers (`SubmissionAssumption`), nobody is
no message (`ChatAssumption`). TLC
evaluates each on the runs.

**Only model-checked**: the properties under fairness (`SessionEndsWithRoom`,
`EmptyRoomIsReclaimed`, `ChainRunsOn`, `OrphansDie`, `TimedSessionEnds`), which are
beyond the prover. Every invariant and every action property of a passing run,
and both refinements, are theorems; three of them, as said, under a hypothesis
that the run makes too: `StartsLeaveNoSession`, `LeaverStopsRecording` and
`OnTime`.

## 6. What is not modelled

* Of the meetings: muting a track and starting the transcription agent, which
  only forward a call; the creation of channel and personal meetings;
  invitations, which look up the session and write a notification; whiteboard
  settings, which are forwarded. Of the recordings: the post-processing for an
  external recorder bot (`recordings.service.ts:566-890`), file and `ffmpeg` work
  on one file.
* Of the calendar: `updateEvent` in its three forms, which leaves the chain of
  reminders alone, RSVP lists and notification switches. Of the scheduler:
  `DELETE /jobs/:id`, which no client calls, and the limit of a thousand records
  a scan.
* Of the rooms: the numbers of rooms of a user and of channels of a room, blocked
  rooms, names and settings. Of the assignments: creating and changing them,
  comments, reports.
* The whiteboard server: its rooms and sessions are objects of one process,
  changed by synchronous callbacks of the tldraw library, whose source is not in
  the repository; a model would be one of that library.
* Of the direct chat: unread counters and previews, which one atomic update
  changes in the background, what messages and reactions say, uploads.
* Users and device sessions: documents changed by one update each.
* Gateways, notifications, news feed, administration, reports, uploads, vector
  search, the transcription agent: single-document writes or pure input and
  output.
* The web, mobile and desktop clients, which are most of the repository's lines:
  user interfaces. No state of the back end depends on theirs; they appear as the
  requests and connections they may make.
* Data that no property tells apart: names, texts, payloads, tokens as such.
  Durations are sets of visits, dates are numbers of days. The clock of the
  attendance is left out: no decision depends on it. Who may ask for what is kept
  where rights can change under way (rooms and channels) and left out where it
  can only refuse a request that would change nothing.

Some behaviours met while modelling that no statement of the code forbids, and
that therefore are part of the models rather than findings:

* `renameChannel` checks no right, and `createChannel` lists whomever the request
  names; `updateChannelMemberRole` does not ask whether the user is in the room
  (`strays`);
* joining pushes an entry whatever has happened to the room since it was read: a
  user may be entered twice, and the room exceed its limit (`blind`); of a user
  entered twice, only the first entry is asked whether he was removed;
* an automatically graded quiz that was taken back may be handed in again, and
  the number of a new attempt is the number of attempts plus one, which an
  existing attempt may have after a deletion: the index then refuses it;
* a start of a breakout session that fails after its sub rooms were opened leaves
  them open (`torn`); a timer that could not be removed makes the queue ignore the
  timer of the session that is started then, which spares that session and goes, so
  that the session stays on until the host ends it (`unwound`);
* the end of a breakout session clears the mark of a main room that may be empty,
  and no job looks at that room any more: it stays up until LiveKit's timeout;
* a message revoked while it is being pinned stays in the list of pins, where it is
  not shown and takes one of the places, until it is unpinned (`mixed`).

## 7. What could come next

The parts of the system that keep shared state under concurrent requests are
modelled, and the most important properties of each are proved. What remains:

* attendance and presence in the whole system: `AttendanceMatchesPresence` is
  proved of a meeting that has been started, not of several in a row, where a
  job of one meeting may write to the session of the next;
* `updateEvent` of the calendar, as soon as the code says what becomes of the
  reminders of a series that is changed.
