---------------------------- MODULE BreakoutRooms -----------------------------
(***************************************************************************)
(* BreakoutRoomsService and its delayed job: the host starts a breakout    *)
(* session, assigns participants, ends it; when it has a duration the      *)
(* BullMQ job "auto-end-breakout" ends it. State: the metadata of the main *)
(* room (RoomMetadata), of each sub room, and the one job whose id is      *)
(* breakout-timer-<code>. Requests and the job interleave at every call.   *)
(***************************************************************************)
EXTENDS RoomMetadata

CONSTANTS
    Hosts,    \* requests of the host about breakout rooms at the same time
    Timer,    \* the worker that runs the job
    Plans     \* the lists of sub rooms a start may come with

ASSUME BreakoutAssumption ==
    /\ Timer \notin Hosts
    /\ IsFiniteSet(Hosts)
    /\ Plans \subseteq Lists

VARIABLES
    sub,      \* metadata of the LiveKit room of each sub room
    timer,    \* the job breakout-timer-<code>
    started,  \* how many sessions were started: the next startedAt
    run,      \* what each request and the job are doing
    clashed,  \* history: a start ran at the same time as another operation
    torn,     \* history: an operation was cut short or a call of it failed
    unwound,  \* history: what failed has left a session without its timer
              \* or with another's, and no timer was taken away since
    dropped   \* history: sub rooms that a start left out of the session it
              \* replaced

breakoutVars == <<sub, timer, started, run, clashed, torn, unwound, dropped>>

NoSub == 0

Runners == Hosts \cup {Timer}

SubMeta == [up : BOOLEAN, status : {"active", "closing"},
            started : Breakouts \cup {NoBreakout},
            assigned : {Free} \cup SUBSET People]

NoSubRoom == [up |-> FALSE, status |-> "closing", started |-> NoBreakout,
              assigned |-> {}]

TimerJob == [st : {"none", "delayed", "active"},
             started : Breakouts \cup {NoBreakout}, stalled : BOOLEAN]

NoTimer == [st |-> "none", started |-> NoBreakout, stalled |-> FALSE]

Ops == {"none", "start", "end", "auto", "assign"}

RunPc == {"idle", "list", "upsert", "write", "clear", "add", "closeRead",
          "closeWrite", "subRead", "subWrite", "complete"}

(* snap is currentMeta or mainMeta, n sessionStartedAt, lists the          *)
(* assignedUsers of a start, users the new ones of an assignment, todo the *)
(* sub rooms still to be worked on, at the one under way and subSnap its   *)
(* metadata as read.                                                       *)
Run == [op : Ops, pc : RunPc, snap : Meta, n : Breakouts \cup {NoBreakout},
        timed : BOOLEAN, lists : Lists \cup {NoLists}, users : SUBSET People,
        todo : SUBSET Subs, at : Subs \cup {NoSub}, subSnap : SubMeta]

IdleRun == [op |-> "none", pc |-> "idle", snap |-> FirstMeta,
            n |-> NoBreakout, timed |-> FALSE, lists |-> NoLists,
            users |-> {}, todo |-> {}, at |-> NoSub, subSnap |-> NoSubRoom]

BreakoutTypeOK ==
    /\ sub \in [Subs -> SubMeta]
    /\ timer \in TimerJob
    /\ started \in 0..MaxBreakouts
    /\ run \in [Runners -> Run]
    /\ clashed \in BOOLEAN /\ torn \in BOOLEAN /\ unwound \in BOOLEAN
    /\ dropped \subseteq Subs

BreakoutInit ==
    /\ sub = [s \in Subs |-> NoSubRoom]
    /\ timer = NoTimer
    /\ started = 0
    /\ run = [r \in Runners |-> IdleRun]
    /\ clashed = FALSE /\ torn = FALSE /\ unwound = FALSE /\ dropped = {}

Is(r, op, pc) == run[r].op = op /\ run[r].pc = pc
Become(r, q) == run' = [run EXCEPT ![r] = q]
Goto(r, pc) == run' = [run EXCEPT ![r].pc = pc]
Return(r) == Become(r, IdleRun)
BusyHosts == {h \in Hosts : run[h].op # "none"}
Ask == AskBeside(BusyHosts)

(* A write to a sub room, like one to the main room, restores what it has  *)
(* read of the fields that are not its own.                                *)
UpdateSubMetadata(s, new, own) ==
    /\ sub' = [sub EXCEPT ![s] = new]
    /\ overtaken' = \/ overtaken
                    \/ \E f \in DOMAIN new \ own : new[f] # sub[s][f]

(* What no step but the named ones touches. *)
Quietly == UNCHANGED <<setter, asked, faults, torn, unwound, dropped>>
MainKept == UNCHANGED <<main, overtaken>>

(***************************************************************************)
(* startBreakoutSession.                                                   *)
(***************************************************************************)
StartReceive(r, b, l) ==
    /\ run[r] = IdleRun
    /\ Ask
    /\ started < MaxBreakouts
    /\ started' = started + 1
    /\ Become(r, [IdleRun EXCEPT !.op = "start", !.pc = "list", !.timed = b,
                                 !.n = started + 1, !.lists = l])
    /\ UNCHANGED <<sub, timer, setter, faults, torn, unwound, dropped>>
    /\ MainKept

StartList(r) ==
    /\ Is(r, "start", "list")
    /\ Become(r, [run[r] EXCEPT !.pc = "upsert", !.snap = main,
                                !.todo = DOMAIN run[r].lists])
    /\ UNCHANGED <<sub, timer, started>> /\ MainKept /\ Quietly

(* Mutant: a room that exists is left as it is. *)
UpsertCreatesOnly(r, s) ==
    /\ Is(r, "start", "upsert")
    /\ s \in run[r].todo
    /\ sub' = IF sub[s].up THEN sub
              ELSE [sub EXCEPT ![s] = [up |-> TRUE, status |-> "active", started |-> run[r].n,
                                       assigned |-> run[r].lists[s]]]
    /\ Become(r, [run[r] EXCEPT
                     !.todo = @ \ {s},
                     !.pc = IF run[r].todo = {s} THEN "write" ELSE "upsert"])
    /\ UNCHANGED <<timer, started>> /\ MainKept /\ Quietly

(* A sub room is created, or given its metadata anew when it exists: the   *)
(* look whether it does and the write are one step. The rooms are worked   *)
(* on in any order, the request goes on when all are done.                 *)
UpsertSub(r, s) ==
    /\ Is(r, "start", "upsert")
    /\ s \in run[r].todo
    /\ sub' = [sub EXCEPT ![s] = [up |-> TRUE, status |-> "active",
                                  started |-> run[r].n,
                                  assigned |-> run[r].lists[s]]]
    /\ Become(r, [run[r] EXCEPT
                     !.todo = @ \ {s},
                     !.pc = IF run[r].todo = {s} THEN "write" ELSE "upsert"])
    /\ UNCHANGED <<timer, started>> /\ MainKept /\ Quietly

(* The calls for one sub room fail, the second try too: only logged. *)
UpsertFails(r, s) ==
    /\ Is(r, "start", "upsert")
    /\ s \in run[r].todo
    /\ Fault
    /\ torn' = TRUE
    /\ Become(r, [run[r] EXCEPT
                     !.todo = @ \ {s},
                     !.pc = IF run[r].todo = {s} THEN "write" ELSE "upsert"])
    /\ UNCHANGED <<sub, timer, started, setter, asked, unwound, dropped>>
    /\ MainKept

StartWrite(r) ==
    /\ Is(r, "start", "write")
    /\ UpdateRoomMetadata([run[r].snap EXCEPT !.breakout = run[r].n,
                                              !.timed = run[r].timed,
                                              !.assigned = run[r].lists],
                          {"breakout", "timed", "assigned"})
    /\ Goto(r, "clear")
    /\ dropped' = (dropped \cup DOMAIN main.assigned) \ DOMAIN run[r].lists
    /\ UNCHANGED <<sub, timer, started, setter, asked, faults, torn, unwound>>

(* clearBreakoutJob: getJob and remove. remove throws for a job that a     *)
(* worker holds, which is swallowed.                                       *)
Removed == IF timer.st = "delayed" THEN NoTimer ELSE timer

(* With the timer gone nothing is left of what failed before.              *)
Clear ==
    /\ timer' = Removed
    /\ unwound' = (unwound /\ Removed # NoTimer)
    /\ UNCHANGED <<sub, started, setter, asked, faults, torn, dropped>> /\ MainKept

AfterClear(r) == IF run[r].op = "end" THEN Goto(r, "list")
                 ELSE IF run[r].timed THEN Goto(r, "add") ELSE Return(r)

(* Mutant: the timer of the session before is left in the queue.           *)
StartLeavesTimer(r) ==
    /\ Is(r, "start", "clear")
    /\ AfterClear(r)
    /\ UNCHANGED <<sub, timer, started>> /\ MainKept /\ Quietly

StartClear(r) == Is(r, "start", "clear") /\ Clear /\ AfterClear(r)

(* Any other error of getJob or remove is swallowed too: the timer stays,  *)
(* and the start or the end goes on as if it had gone.                     *)
ClearFails(r) ==
    /\ r \in Hosts /\ run[r].pc = "clear"
    /\ Fault
    /\ AfterClear(r)
    /\ unwound' = (unwound \/ timer.st = "delayed")
    /\ UNCHANGED <<sub, timer, started, setter, asked, torn, dropped>> /\ MainKept

(* Mutant: the job is added before the old one is cleared, and goes too. *)
AddThenClear(r) ==
    /\ Is(r, "start", "add")
    /\ timer' = Removed
    /\ Return(r)
    /\ UNCHANGED <<sub, started>> /\ MainKept /\ Quietly

(* BullMQ ignores a job whose id it still holds. *)
AddJob(r) ==
    /\ Is(r, "start", "add")
    /\ timer' = IF timer.st = "none"
                THEN [st |-> "delayed", started |-> run[r].n, stalled |-> FALSE]
                ELSE timer
    /\ Return(r)
    /\ UNCHANGED <<sub, started>> /\ MainKept /\ Quietly

(***************************************************************************)
(* endBreakoutSession, and handleAutoEndBreakout from its listRooms on.    *)
(***************************************************************************)
EndReceive(r) ==
    /\ run[r] = IdleRun
    /\ Ask
    /\ Become(r, [IdleRun EXCEPT !.op = "end", !.pc = "clear"])
    /\ UNCHANGED <<sub, timer, started, setter, faults, torn, unwound, dropped>>
    /\ MainKept

EndClear(r) == Is(r, "end", "clear") /\ Clear /\ AfterClear(r)

EndList(r) ==
    /\ Is(r, "end", "list")
    /\ Become(r, [run[r] EXCEPT !.pc = "write", !.snap = main])
    /\ UNCHANGED <<sub, timer, started>> /\ MainKept /\ Quietly

(* The rooms to close are those of the session as read. *)
ToClose(meta) == DOMAIN meta.assigned

AfterClosing(r) == IF run[r].op = "auto"
                   THEN [run[r] EXCEPT !.pc = "complete", !.todo = {},
                                       !.at = NoSub, !.subSnap = NoSubRoom]
                   ELSE IdleRun

EndWrite(r) ==
    /\ run[r].op \in {"end", "auto"} /\ run[r].pc = "write"
    /\ UpdateRoomMetadata([run[r].snap EXCEPT !.breakout = NoBreakout,
                                              !.timed = FALSE,
                                              !.assigned = NoLists],
                          {"breakout", "timed", "assigned"})
    /\ Become(r, IF ToClose(run[r].snap) = {} THEN AfterClosing(r)
                 ELSE [run[r] EXCEPT !.pc = "closeRead",
                                     !.todo = ToClose(run[r].snap)])
    /\ UNCHANGED <<sub, timer, started>> /\ Quietly

(* The end of the work on the sub room at: on to the next one. *)
NextSub(r, s) ==
    Become(r, IF run[r].todo = {s} THEN AfterClosing(r)
              ELSE [run[r] EXCEPT !.pc = "closeRead", !.todo = @ \ {s},
                                  !.at = NoSub, !.subSnap = NoSubRoom])

CloseRead(r, s) ==
    /\ run[r].pc = "closeRead"
    /\ s \in run[r].todo
    /\ IF sub[s].up
       THEN Become(r, [run[r] EXCEPT !.pc = "closeWrite", !.at = s,
                                     !.subSnap = sub[s]])
       ELSE NextSub(r, s)
    /\ UNCHANGED <<sub, timer, started>> /\ MainKept /\ Quietly

CloseWrite(r) ==
    LET s == run[r].at IN
    /\ run[r].pc = "closeWrite"
    /\ sub[s].up
    /\ UpdateSubMetadata(s, [run[r].subSnap EXCEPT !.status = "closing"],
                         {"status"})
    /\ NextSub(r, s)
    /\ UNCHANGED <<main, timer, started>> /\ Quietly

(* The room has gone since it was read: the error is only logged. *)
CloseGone(r) ==
    /\ run[r].pc = "closeWrite"
    /\ ~sub[run[r].at].up
    /\ NextSub(r, run[r].at)
    /\ UNCHANGED <<sub, timer, started>> /\ MainKept /\ Quietly

CloseFails(r, s) ==
    /\ \/ run[r].pc = "closeRead" /\ s \in run[r].todo
       \/ run[r].pc = "closeWrite" /\ s = run[r].at
    /\ Fault
    /\ torn' = TRUE
    /\ NextSub(r, s)
    /\ UNCHANGED <<sub, timer, started, setter, asked, unwound, dropped>>
    /\ MainKept

(***************************************************************************)
(* The job: BullMQ hands it to a worker when its delay is over.            *)
(***************************************************************************)
AutoTake ==
    /\ timer.st = "delayed"
    /\ run[Timer] = IdleRun
    /\ timer' = [timer EXCEPT !.st = "active"]
    /\ Become(Timer, [IdleRun EXCEPT !.op = "auto", !.pc = "list",
                                     !.n = timer.started])
    /\ UNCHANGED <<sub, started>> /\ MainKept /\ Quietly

(* Mutant: the job ends whatever session it finds. *)
AnySession(meta, n) == meta.breakout # NoBreakout

(* The job is for this session, if there is one still. *)
RightSession(meta, n) == meta.breakout # NoBreakout /\ meta.breakout = n

AutoList ==
    /\ Is(Timer, "auto", "list")
    /\ Become(Timer, [run[Timer] EXCEPT
                         !.pc = IF RightSession(main, run[Timer].n)
                                THEN "write" ELSE "complete",
                         !.snap = main])
    /\ UNCHANGED <<sub, timer, started>> /\ MainKept /\ Quietly

(* Every error is swallowed, so the job counts as done and is not repeated. *)
AutoFails ==
    /\ run[Timer].pc \in {"list", "write"}
    /\ Fault
    /\ torn' = TRUE
    /\ unwound' = TRUE
    /\ Goto(Timer, "complete")
    /\ UNCHANGED <<sub, timer, started, setter, asked, dropped>> /\ MainKept

Complete ==
    /\ Is(Timer, "auto", "complete")
    /\ timer' = NoTimer
    /\ Return(Timer)
    /\ UNCHANGED <<sub, started>> /\ MainKept /\ Quietly

(***************************************************************************)
(* assignUsersToBreakout.                                                  *)
(***************************************************************************)
AssignReceive(r, s, us) ==
    /\ run[r] = IdleRun
    /\ Ask
    /\ us # {}
    /\ Become(r, [IdleRun EXCEPT !.op = "assign", !.pc = "list", !.at = s,
                                 !.users = us])
    /\ UNCHANGED <<sub, timer, started, setter, faults, torn, unwound, dropped>>
    /\ MainKept

(* Refused without a session, for a sub room that is not in it, and where  *)
(* everybody chooses freely.                                               *)
AssignList(r) ==
    /\ Is(r, "assign", "list")
    /\ IF run[r].at \notin DOMAIN main.assigned \/ main.assigned[run[r].at] = Free
       THEN Return(r)
       ELSE Become(r, [run[r] EXCEPT !.pc = "write", !.snap = main])
    /\ UNCHANGED <<sub, timer, started>> /\ MainKept /\ Quietly

NewAssigned(r) == run[r].snap.assigned[run[r].at] \cup run[r].users

(* A list that is replaced by one without some of its users. *)
Drops(old, new) == old # Free /\ ~(old \subseteq new)

(* Of the lists, the write owns what it adds to that of s. *)
RestoresLists(new, s) ==
    \/ DOMAIN new.assigned # DOMAIN main.assigned
    \/ \E x \in DOMAIN main.assigned :
          IF x = s THEN Drops(main.assigned[s], new.assigned[s])
          ELSE new.assigned[x] # main.assigned[x]

AssignWrite(r) ==
    LET s == run[r].at
        new == [run[r].snap EXCEPT !.assigned[s] = NewAssigned(r)] IN
    /\ Is(r, "assign", "write")
    /\ main' = new
    /\ overtaken' = (overtaken \/ Clobbers(new, {"assigned"}) \/ RestoresLists(new, s))
    /\ Goto(r, "subRead")
    /\ UNCHANGED <<sub, timer, started>> /\ Quietly

AssignSubRead(r) ==
    LET s == run[r].at IN
    /\ Is(r, "assign", "subRead")
    /\ IF sub[s].up
       THEN Become(r, [run[r] EXCEPT !.pc = "subWrite", !.subSnap = sub[s]])
       ELSE Return(r)
    /\ UNCHANGED <<sub, timer, started>> /\ MainKept /\ Quietly

(* Mutant: the sub room's own list is kept. *)
AssignMainOnly(r) ==
    /\ Is(r, "assign", "subWrite")
    /\ Return(r)
    /\ UNCHANGED <<sub, timer, started>> /\ MainKept /\ Quietly

AssignSubWrite(r) ==
    LET s == run[r].at IN
    /\ Is(r, "assign", "subWrite")
    /\ IF sub[s].up
       THEN UpdateSubMetadata(s, [run[r].subSnap EXCEPT
                                     !.assigned = NewAssigned(r)],
                              IF Drops(sub[s].assigned, NewAssigned(r))
                              THEN {} ELSE {"assigned"})
       ELSE UNCHANGED <<sub, overtaken>>
    /\ Return(r)
    /\ UNCHANGED <<main, timer, started>> /\ Quietly

(* An error before the sub room's turn is thrown, one after is logged. *)
AssignFails(r) ==
    /\ run[r].op = "assign"
    /\ Fault
    /\ torn' = (torn \/ run[r].pc \in {"subRead", "subWrite"})
    /\ Return(r)
    /\ UNCHANGED <<sub, timer, started, setter, asked, unwound, dropped>>
    /\ MainKept

(***************************************************************************)
(* What goes wrong around them.                                            *)
(***************************************************************************)
(* A session that was started without its timer yet, or one that is about  *)
(* to be ended and has lost it.                                            *)
Unwinds(q) == \/ q.op = "start" /\ q.pc \in {"clear", "add"}
              \/ q.op = "end" /\ q.pc \in {"list", "write"}

(* A start or an end that fails at the main room, or a start at the queue, *)
(* throws. What it has done stays: sub rooms are open, the timer is gone,  *)
(* or the session is on without one.                                       *)
HostFails(r) ==
    /\ r \in Hosts
    /\ run[r].op \in {"start", "end"}
    /\ run[r].pc \in {"list", "write", "add"}
    /\ Fault
    /\ torn' = (torn \/ (run[r].op = "start" /\ run[r].pc = "write"))
    /\ unwound' = (unwound \/ Unwinds(run[r]))
    /\ Return(r)
    /\ UNCHANGED <<sub, timer, started, setter, asked, dropped>> /\ MainKept

(* The server dies: requests are gone. BullMQ gives a job that was being   *)
(* worked on to a worker once more; the second time it fails.              *)
ServerCrash ==
    /\ Fault
    /\ run' = [r \in Runners |-> IdleRun]
    /\ setter' = [r \in Setters |-> IdleSetter]
    /\ timer' = CASE timer.st = "active" /\ ~timer.stalled ->
                       [timer EXCEPT !.st = "delayed", !.stalled = TRUE]
                  [] timer.st = "active" /\ timer.stalled -> NoTimer
                  [] OTHER -> timer
    /\ torn' = (torn \/ \E r \in Runners : run[r].op # "none")
    /\ unwound' = \/ unwound
                  \/ timer.st = "active" /\ timer.stalled
                  \/ \E r \in Hosts : Unwinds(run[r])
    /\ UNCHANGED <<sub, started, asked, dropped>> /\ MainKept

(* LiveKit closes a sub room that nobody has been in for ten minutes. *)
SubRoomExpires(s) ==
    /\ sub[s].up
    /\ sub' = [sub EXCEPT ![s] = NoSubRoom]
    /\ UNCHANGED <<timer, started, run>> /\ MainKept /\ Quietly

(* What the host asks for. *)
HostAsks ==
    \E r \in Hosts :
        \/ \E b \in BOOLEAN, l \in Plans : StartReceive(r, b, l)
        \/ EndReceive(r)
        \/ \E s \in Subs, us \in SUBSET People : AssignReceive(r, s, us)

(* What goes on once asked for, or when the timer is due. *)
Serve(r) ==
    \/ StartList(r) \/ StartWrite(r) \/ StartClear(r) \/ AddJob(r)
    \/ EndClear(r) \/ EndList(r) \/ EndWrite(r) \/ CloseWrite(r) \/ CloseGone(r)
    \/ AssignList(r) \/ AssignWrite(r) \/ AssignSubRead(r) \/ AssignSubWrite(r)
    \/ \E s \in Subs : UpsertSub(r, s) \/ CloseRead(r, s)

RunTimer == AutoTake \/ AutoList \/ Complete \/ Serve(Timer)

BreakoutFault ==
    \/ AutoFails
    \/ ServerCrash
    \/ \E r \in Runners : \/ HostFails(r) \/ ClearFails(r) \/ AssignFails(r)
                          \/ \E s \in Subs : UpsertFails(r, s) \/ CloseFails(r, s)

(* History: a start is under way together with another breakout operation. *)
ObserveClash ==
    clashed' = (clashed \/ \E a, b \in Runners : /\ a # b
                                                /\ run'[a].op = "start"
                                                /\ run'[b].op # "none")

BreakoutStep ==
    /\ \/ HostAsks
       \/ \E r \in Hosts : Serve(r)
       \/ RunTimer
       \/ \E s \in Subs : SubRoomExpires(s)
       \/ BreakoutFault
    /\ ObserveClash

(***************************************************************************)
(* Properties.                                                             *)
(***************************************************************************)
Undisturbed == ~clashed /\ ~overtaken
AtRest == \A r \in Runners : run[r].op = "none"

(* A session with a duration has its timer: while it stands in the         *)
(* metadata and nothing is being done, the job that will end it, and no    *)
(* other, is in the queue; without one no job is left, but for one that a  *)
(* crash interrupted. Excepted is what two operations at once leave        *)
(* behind, and what failed until a timer is taken away again: the next     *)
(* start or end that works puts it right.                                  *)
TimerKept ==
    (AtRest /\ Undisturbed /\ ~unwound) =>
        IF main.breakout # NoBreakout /\ main.timed
        THEN timer.st = "delayed" /\ timer.started = main.breakout
        ELSE timer.st = "none" \/ timer.stalled

(* When nothing is being done the sub rooms say what the main room says:   *)
(* those of the session that are up are open for this session and admit    *)
(* whom the main room lists, and every other one that is still up tells    *)
(* the people in it to come back. Excepted are those that a start with     *)
(* fewer rooms left out of the session it replaced: they are in no list    *)
(* any more, and "the signal closing to all the sub rooms" of the end      *)
(* (breakout-rooms.service.ts:355) does not reach them.                    *)
SubRoomsAgree ==
    (AtRest /\ Undisturbed /\ ~torn) =>
        \A s \in Subs : sub[s].up =>
            IF s \in DOMAIN main.assigned
            THEN /\ sub[s].status = "active"
                 /\ sub[s].started = main.breakout
                 /\ sub[s].assigned = main.assigned[s]
            ELSE sub[s].status = "closing" \/ s \in dropped

(* The job of one session does not end another one: a timer that a start   *)
(* which was cut short left in the queue finds a new session and lets it   *)
(* be. Excepted are a start that ran beside another operation, and a write *)
(* that restored an older state of the main room.                          *)
TimerEndsSession == /\ main.breakout # NoBreakout
                    /\ run[Timer].pc = "write" /\ EndWrite(Timer)

AutoEndsOwnSession ==
    [][TimerEndsSession /\ Undisturbed' => main.breakout = run[Timer].n]_<<main, run>>

(* A session with a duration does not go on for ever, whatever the host    *)
(* does or leaves undone. Excepted as before are two operations at once    *)
(* and what failed.                                                        *)
TimedSessionEnds ==
    \A n \in Breakouts :
        (main.breakout = n /\ main.timed)
            ~> (main.breakout # n \/ ~Undisturbed \/ unwound)
==============================================================================
