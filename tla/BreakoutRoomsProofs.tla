------------------------- MODULE BreakoutRoomsProofs -------------------------
(***************************************************************************)
(* Proofs about the breakout sessions of a running meeting, for any        *)
(* numbers of sub rooms, people, requests and sessions: the timer of a     *)
(* session is there until it is over, the sub rooms say what the main room *)
(* says, and the job of one session ends no other.                         *)
(***************************************************************************)
EXTENDS RecordingsProofs

(***************************************************************************)
(* The inductive invariant. Each part is about the record of a request or  *)
(* of the job, so that a step has to be looked at for one of them.         *)
(***************************************************************************)
Starting(q) == q.op = "start"
(* The metadata has the new session, the timer not yet. *)
Renewing(q) == q.op = "start" /\ q.pc \in {"clear", "add"}
(* An end that has taken the timer away, and one that will still write.    *)
Cleared(q) == q.op = "end" /\ q.pc # "clear"
WillEnd(q) == q.op = "end" /\ q.pc \in {"list", "write"}
Closing(q) == q.pc \in {"closeRead", "closeWrite"}
(* An assignment that has read the metadata, and one that has written it.  *)
Assigning(q) == q.op = "assign" /\ q.pc # "list"
Handing(q) == q.op = "assign" /\ q.pc \in {"subRead", "subWrite"}
NewList(q) == q.snap.assigned[q.at] \cup q.users

(* What is asked is done step by step; the job alone is run by the worker. *)
Shape(r, q) ==
    /\ q.op = "none" => q = IdleRun
    /\ q.op = "start" => r # Timer /\ q.n # NoBreakout /\ q.lists \in Lists
                         /\ q.pc \in {"list", "upsert", "write", "clear", "add"}
                         /\ q.todo \subseteq DOMAIN q.lists
                         /\ (q.pc = "add" => q.timed = TRUE)
    /\ q.op = "end" => r # Timer
                       /\ q.pc \in {"clear", "list", "write", "closeRead", "closeWrite"}
    /\ q.op = "auto" => r = Timer
                        /\ q.pc \in {"list", "write", "closeRead", "closeWrite", "complete"}
    /\ q.op = "assign" => r # Timer /\ q.at \in Subs
                          /\ q.pc \in {"list", "write", "subRead", "subWrite"}
    /\ q.pc = "closeWrite" => q.at \in q.todo
    /\ Assigning(q) => q.at \in DOMAIN q.snap.assigned /\ q.snap.assigned[q.at] # Free
Shapes == \A r \in Runners : Shape(r, run[r])

(* The job is active while the worker runs it. *)
JobRuns == /\ timer.st = "active" <=> run[Timer].op = "auto"
           /\ timer.st = "active" => timer.started = run[Timer].n

OneStart == ~clashed => \A r, x \in Runners :
                Starting(run[r]) /\ x # r => run[x].op = "none"

(* Unless a start is about to renew it, the timer is that of the session   *)
(* in the metadata, or somebody has it in hand and will end the session.   *)
Live == main.breakout # NoBreakout /\ main.timed
TimerSettled ==
    /\ Live => \/ timer.st = "delayed"
               \/ timer.st = "active" /\ run[Timer].pc \in {"list", "write"}
               \/ \E h \in Hosts : WillEnd(run[h])
    /\ (Live /\ timer.st # "none") => timer.started = main.breakout
    /\ (~Live /\ timer.st = "delayed") => timer.stalled
    /\ \A h \in Hosts : Cleared(run[h]) => timer.st # "delayed"
TimerRenewed(q) == q.pc = "add" => timer.st = "none"
TimerFollows ==
    (Undisturbed /\ ~unwound) =>
        /\ \A h \in Hosts : Renewing(run[h]) => TimerRenewed(run[h])
        /\ (\A h \in Hosts : ~Renewing(run[h])) => TimerSettled

(* What a request knows of the main room as it is now, meta. *)
Knows(q, meta) ==
    /\ Renewing(q) => meta.breakout = q.n /\ meta.timed = q.timed /\ meta.assigned = q.lists
    /\ Closing(q) => DOMAIN meta.assigned = {}
    /\ (q.op \in {"end", "auto"} /\ q.pc = "write")
          => DOMAIN meta.assigned \subseteq DOMAIN q.snap.assigned
    /\ (q.op = "auto" /\ q.pc = "write") => meta.breakout \in {NoBreakout, q.n}
    /\ (Assigning(q) /\ q.at \in DOMAIN meta.assigned) => meta.assigned[q.at] # Free
    /\ (Handing(q) /\ q.at \in DOMAIN meta.assigned) => NewList(q) \subseteq meta.assigned[q.at]
RunsKnow == Undisturbed => \A r \in Runners : Knows(run[r], main)

(* A sub room that is up is as the start under way made it, or as the main *)
(* room says, or somebody is about to make it so.                          *)
Renewed(q, s) == /\ q.op = "start" /\ s \in DOMAIN q.lists
                 /\ q.pc = "write" \/ (q.pc = "upsert" /\ s \notin q.todo)
Fresh(q, s) == /\ sub[s].status = "active" /\ sub[s].started = q.n
               /\ sub[s].assigned = q.lists[s]
WillClose(q, s) == Closing(q) /\ s \in q.todo
WillHand(q, s) == Handing(q) /\ q.at = s /\ NewList(q) = main.assigned[s]
RoomSettled(s) ==
    IF s \in DOMAIN main.assigned
    THEN /\ sub[s].status = "active" /\ sub[s].started = main.breakout
         /\ sub[s].assigned = main.assigned[s] \/ \E r \in Runners : WillHand(run[r], s)
    ELSE \/ sub[s].status = "closing" \/ s \in dropped
         \/ \E r \in Runners : WillClose(run[r], s)
RoomFollows(s) ==
    /\ \A h \in Hosts : Renewed(run[h], s) => Fresh(run[h], s)
    /\ (\A h \in Hosts : ~Renewed(run[h], s)) => RoomSettled(s)
RoomsFollow == (Undisturbed /\ ~torn) => \A s \in Subs : sub[s].up => RoomFollows(s)

BreakoutTypes == MetaTypes /\ BreakoutTypeOK
BreakoutWork ==
    /\ BreakoutTypes /\ Shapes /\ JobRuns /\ OneStart
    /\ TimerFollows /\ RunsKnow /\ RoomsFollow
BreakoutInv ==
    IF topic = "breakout" THEN BreakoutWork
    ELSE BreakoutInit /\ (~overtaken => main.breakout = NoBreakout)

(***************************************************************************)
(* Types, and the beginning.                                               *)
(***************************************************************************)
LEMMA ListDomains ==
    /\ DOMAIN NoLists = {} /\ Lists \cap {NoLists} = {}
    /\ \A l \in Lists : /\ DOMAIN l \subseteq Subs
                        /\ \A s \in DOMAIN l : l[s] \in {Free} \cup SUBSET People
                        /\ \A s \in DOMAIN l, us \in SUBSET People :
                              [l EXCEPT ![s] = us] \in Lists
<1>1. DOMAIN NoLists = {}
  BY DEF NoLists
<1>2. ASSUME NEW l \in Lists
      PROVE  /\ DOMAIN l \subseteq Subs /\ DOMAIN l # {}
             /\ \A s \in DOMAIN l : l[s] \in {Free} \cup SUBSET People
             /\ \A s \in DOMAIN l, us \in SUBSET People : [l EXCEPT ![s] = us] \in Lists
  <2>1. PICK n \in Subs : l \in [1..n -> {Free} \cup SUBSET People]
    BY DEF Lists
  <2>2. n \in Nat /\ 1 <= n /\ n <= MaxSubs
    BY <2>1, RoomMetadataAssumption DEF Subs
  <2>3. DOMAIN l = 1..n /\ 1 \in 1..n /\ 1..n \subseteq Subs
    BY <2>1, <2>2, RoomMetadataAssumption DEF Subs
  <2>4. ASSUME NEW s \in DOMAIN l, NEW us \in SUBSET People
        PROVE  [l EXCEPT ![s] = us] \in Lists
    <3>1. [l EXCEPT ![s] = us] \in [1..n -> {Free} \cup SUBSET People]
      BY <2>1, <2>4
    <3> QED
      BY <2>1, <3>1 DEF Lists
  <2> QED
    BY <2>1, <2>3, <2>4
<1> QED
  BY <1>1, <1>2

LEMMA BreakoutRecords ==
    /\ FirstMeta \in Meta /\ FirstMeta.breakout = NoBreakout
    /\ FirstMeta.assigned = NoLists
    /\ NoSubRoom \in SubMeta /\ ~NoSubRoom.up
    /\ NoTimer \in TimerJob /\ NoTimer.st = "none"
    /\ IdleRun \in Run /\ IdleRun.op = "none" /\ IdleRun.pc = "idle"
    /\ IdleRun.todo = {} /\ IdleSetter.snap = FirstMeta
    /\ IdleSetter \in [pc : {"idle", "list", "write"}, snap : Meta]
<1>1. /\ FirstMeta \in Meta /\ FirstMeta.breakout = NoBreakout
      /\ FirstMeta.assigned = NoLists
  BY DEF FirstMeta, Meta, NoBreakout
<1>2. NoSubRoom \in SubMeta /\ ~NoSubRoom.up /\ NoTimer \in TimerJob /\ NoTimer.st = "none"
  BY DEF NoBreakout, NoSubRoom, SubMeta, NoTimer, TimerJob
<1>3. /\ IdleRun \in Run /\ IdleRun.op = "none" /\ IdleRun.pc = "idle"
      /\ IdleRun.todo = {}
  BY <1>1, <1>2 DEF IdleRun, Run, Ops, RunPc, NoBreakout
<1>4. IdleSetter.snap = FirstMeta /\ IdleSetter \in [pc : {"idle", "list", "write"}, snap : Meta]
  BY <1>1 DEF IdleSetter
<1> QED
  BY <1>1, <1>2, <1>3, <1>4

LEMMA IdleBreakoutTypes == BreakoutInit => BreakoutTypeOK
<1> SUFFICES ASSUME BreakoutInit PROVE BreakoutTypeOK
  OBVIOUS
<1>1. sub \in [Subs -> SubMeta] /\ run \in [Runners -> Run]
  BY BreakoutRecords DEF BreakoutInit
<1>2. timer \in TimerJob /\ started \in 0..MaxBreakouts
  BY BreakoutRecords, RoomMetadataAssumption DEF BreakoutInit
<1>3. clashed \in BOOLEAN /\ torn \in BOOLEAN /\ unwound \in BOOLEAN /\ dropped \subseteq Subs
  BY DEF BreakoutInit
<1> QED
  BY <1>1, <1>2, <1>3 DEF BreakoutTypeOK

(* Where nobody does anything and no session is on there is no timer. *)
LEMMA NoSession ==
    ASSUME BreakoutInit, MetaTypes, main.breakout = NoBreakout
    PROVE  BreakoutWork
<1>1. \A r \in Runners : run[r] = IdleRun
  BY DEF BreakoutInit
<1>2. BreakoutTypeOK
  BY IdleBreakoutTypes
<1>3. Shapes /\ JobRuns /\ OneStart
  BY <1>1, BreakoutRecords DEF Shapes, Shape, Assigning, JobRuns, OneStart, Starting, BreakoutInit, Runners
<1>4. TimerFollows
  BY <1>1, BreakoutRecords DEF TimerFollows, TimerSettled, Renewing, Cleared, Live, BreakoutInit, Runners
<1>5. RunsKnow
  BY <1>1, BreakoutRecords DEF RunsKnow, Knows, Renewing, Closing, Assigning, Handing
<1>6. RoomsFollow
  BY BreakoutRecords DEF RoomsFollow, BreakoutInit
<1> QED
  BY <1>2, <1>3, <1>4, <1>5, <1>6 DEF BreakoutWork, BreakoutTypes

LEMMA BreakoutInitInv == Init => BreakoutInv
<1> SUFFICES ASSUME Init PROVE BreakoutInv
  OBVIOUS
<1>1. MetaTypes /\ main.breakout = NoBreakout
  BY BreakoutRecords DEF Init, MetaInit, MetaTypes
<1> QED
  BY <1>1, NoSession DEF Init, BreakoutInv

(***************************************************************************)
(* What a step of one request, or of the job, does.                        *)
(***************************************************************************)
LEMMA Moved ==
    ASSUME BreakoutTypeOK, NEW r \in Runners, NEW q \in Run, Become(r, q)
    PROVE  /\ run' \in [Runners -> Run] /\ run'[r] = q
           /\ \A x \in Runners \ {r} : run'[x] = run[x]
BY DEF BreakoutTypeOK, Become

LEMMA MovedShapes ==
    ASSUME BreakoutWork, NEW r \in Runners, NEW q \in Run, Become(r, q), Shape(r, q)
    PROVE  Shapes'
BY Moved DEF BreakoutWork, BreakoutTypes, Shapes

(* Starts are watched in all steps. *)
LEMMA OneStartWatched ==
    ASSUME ObserveClash
    PROVE  OneStart' /\ (~clashed' => ~clashed) /\ (clashed \in BOOLEAN => clashed' \in BOOLEAN)
BY DEF ObserveClash, OneStart, Starting

(* Whoever does something else is not beside a start. *)
LEMMA NoStartBeside ==
    ASSUME BreakoutWork, ~clashed, NEW r \in Runners, run[r].op \notin {"none", "start"}
    PROVE  \A x \in Runners : run[x].op # "start"
BY DEF BreakoutWork, OneStart, Starting

(* Who starts is alone. *)
LEMMA StarterAlone ==
    ASSUME BreakoutWork, ~clashed, NEW r \in Runners, run[r].op = "start"
    PROVE  \A x \in Runners \ {r} : run[x] = IdleRun
BY DEF BreakoutWork, OneStart, Starting, Shapes, Shape, Assigning

(* A step that reads, or ends, changes the record of its request alone:    *)
(* what follows if it drops nothing that others rely on.                   *)
Keeps(r, q) ==
    /\ (Renewing(run[r]) => unwound') /\ ~Renewing(q)
    /\ r = Timer => (run[r].op = "auto" <=> q.op = "auto") /\ q.n = run[r].n
    /\ (r = Timer /\ run[r].pc \in {"list", "write"} /\ RightSession(main, run[r].n))
          => q.pc \in {"list", "write"} \/ unwound'
    /\ WillEnd(run[r]) => WillEnd(q) \/ unwound'
    /\ Cleared(q) => Cleared(run[r])
KeepsRooms(r, q) ==
    \A s \in Subs :
        /\ ~Renewed(run[r], s) /\ ~Renewed(q, s)
        /\ sub[s].up /\ WillClose(run[r], s) => WillClose(q, s)
        /\ sub[s].up /\ WillHand(run[r], s) => WillHand(q, s)

LEMMA TimerKeptBy ==
    ASSUME BreakoutWork, NEW r \in Runners, NEW q \in Run, Become(r, q), Keeps(r, q),
           timer' = timer,
           Undisturbed' => main'.breakout = main.breakout /\ main'.timed = main.timed,
           Undisturbed' => Undisturbed, ~unwound' => ~unwound
    PROVE  JobRuns' /\ TimerFollows'
<1>1. /\ run' \in [Runners -> Run] /\ run'[r] = q
      /\ \A x \in Runners \ {r} : run'[x] = run[x]
  BY Moved DEF BreakoutWork, BreakoutTypes
<1>2. Timer \in Runners /\ Hosts \subseteq Runners /\ Timer \notin Hosts
  BY BreakoutAssumption DEF Runners
<1>3. JobRuns'
  BY <1>1, <1>2 DEF BreakoutWork, JobRuns, Keeps
<1>4. ASSUME Undisturbed', ~unwound' PROVE
          /\ \A h \in Hosts : Renewing(run'[h]) => TimerRenewed(run[h])'
          /\ (\A h \in Hosts : ~Renewing(run'[h])) => TimerSettled'
  <2>1. /\ \A h \in Hosts : Renewing(run[h]) => TimerRenewed(run[h])
        /\ (\A h \in Hosts : ~Renewing(run[h])) => TimerSettled
    BY <1>4 DEF BreakoutWork, TimerFollows
  <2>2. \A h \in Hosts : Renewing(run'[h]) <=> Renewing(run[h])
    BY <1>1, <1>2, <1>4 DEF Keeps
  <2>3. \A h \in Hosts : Renewing(run'[h]) => TimerRenewed(run[h])'
    <3> SUFFICES ASSUME NEW h \in Hosts, Renewing(run'[h]) PROVE TimerRenewed(run[h])'
      OBVIOUS
    <3>1. h # r /\ run'[h] = run[h]
      BY <1>1, <1>2, <1>4 DEF Keeps
    <3> QED
      BY <1>4, <2>1, <3>1 DEF TimerRenewed
  <2>4. ASSUME TimerSettled PROVE TimerSettled'
    <3>1. Live' <=> Live
      BY <1>4 DEF Live
    <3>2. Live => timer.st = "delayed"
                  \/ (timer.st = "active" /\ run'[Timer].pc \in {"list", "write"})
                  \/ \E h \in Hosts : WillEnd(run'[h])
      <4>1. CASE timer.st = "active" /\ run[Timer].pc \in {"list", "write"} /\ Live
        <5>1. RightSession(main, run[Timer].n)
          BY <2>4, <4>1 DEF TimerSettled, BreakoutWork, JobRuns, RightSession, Live
        <5> QED
          BY <1>1, <1>2, <1>4, <4>1, <5>1 DEF Keeps
      <4>2. ASSUME NEW h \in Hosts, WillEnd(run[h]) PROVE WillEnd(run'[h])
        BY <1>1, <1>2, <1>4, <4>2 DEF Keeps
      <4> QED
        BY <2>4, <4>1, <4>2 DEF TimerSettled
    <3>3. \A h \in Hosts : Cleared(run'[h]) => Cleared(run[h])
      BY <1>1, <1>2 DEF Keeps
    <3> QED
      BY <1>4, <2>4, <3>1, <3>2, <3>3 DEF TimerSettled
  <2> QED
    BY <2>1, <2>2, <2>3, <2>4
<1>5. TimerFollows'
  BY <1>4 DEF TimerFollows
<1> QED
  BY <1>3, <1>5

LEMMA RoomsKeptBy ==
    ASSUME BreakoutWork, NEW r \in Runners, NEW q \in Run, Become(r, q),
           torn' \/ KeepsRooms(r, q),
           UNCHANGED <<sub, main, dropped>>, Undisturbed' => Undisturbed, ~torn' => ~torn
    PROVE  RoomsFollow'
<1>1. /\ run' \in [Runners -> Run] /\ run'[r] = q
      /\ \A x \in Runners \ {r} : run'[x] = run[x]
  BY Moved DEF BreakoutWork, BreakoutTypes
<1> SUFFICES ASSUME Undisturbed', ~torn', NEW s \in Subs, sub[s].up
             PROVE  RoomFollows(s)'
  BY DEF RoomsFollow
<1>2. Hosts \subseteq Runners
  BY DEF Runners
<1>3. RoomFollows(s)
  BY DEF BreakoutWork, RoomsFollow
<1>4. \A h \in Hosts : Renewed(run'[h], s) <=> Renewed(run[h], s)
  BY <1>1, <1>2 DEF KeepsRooms
<1>5. \A h \in Hosts : Renewed(run'[h], s) => Fresh(run[h], s)'
  <2> SUFFICES ASSUME NEW h \in Hosts, Renewed(run'[h], s) PROVE Fresh(run[h], s)'
    OBVIOUS
  <2>1. h # r /\ run'[h] = run[h]
    BY <1>1, <1>2 DEF KeepsRooms
  <2> QED
    BY <1>3, <1>4, <2>1 DEF RoomFollows, Fresh
<1>6. ASSUME RoomSettled(s) PROVE RoomSettled(s)'
  <2>1. \A x \in Runners : WillClose(run[x], s) => WillClose(run'[x], s)
    BY <1>1 DEF KeepsRooms
  <2>2. \A x \in Runners : WillHand(run[x], s) => WillHand(run[x], s)'
    <3> SUFFICES ASSUME NEW x \in Runners, WillHand(run[x], s) PROVE WillHand(run[x], s)'
      OBVIOUS
    <3>1. CASE x = r
      BY <1>1, <3>1 DEF KeepsRooms, WillHand
    <3>2. CASE x # r
      BY <1>1, <3>2 DEF WillHand
    <3> QED
      BY <3>1, <3>2
  <2> QED
    BY <1>6, <2>1, <2>2 DEF RoomSettled
<1> QED
  BY <1>3, <1>4, <1>5, <1>6 DEF RoomFollows

LEMMA KnownBy ==
    ASSUME BreakoutWork, NEW r \in Runners, NEW q \in Run, Become(r, q),
           Undisturbed' => Undisturbed,
           Undisturbed' => Knows(q, main'),
           Undisturbed' => \A x \in Runners \ {r} : Knows(run[x], main) => Knows(run[x], main')
    PROVE  RunsKnow'
<1>1. /\ run'[r] = q /\ \A x \in Runners \ {r} : run'[x] = run[x]
  BY Moved DEF BreakoutWork, BreakoutTypes
<1> QED
  BY <1>1 DEF BreakoutWork, RunsKnow
(***************************************************************************)
(* Steps that read, and such that fail.                                    *)
(***************************************************************************)
LEMMA QuietInv ==
    ASSUME BreakoutWork, NEW r \in Runners, NEW q \in Run, Become(r, q), Shape(r, q),
           ObserveClash,
           UNCHANGED <<main, setter, overtaken, sub, timer, dropped>>,
           faults' \in Nat, started' \in 0..MaxBreakouts,
           torn' \in BOOLEAN, unwound' \in BOOLEAN, torn => torn', unwound => unwound',
           Keeps(r, q), torn' \/ KeepsRooms(r, q),
           Undisturbed => Knows(q, main)
    PROVE  BreakoutWork'
<1>1. OneStart' /\ (Undisturbed' => Undisturbed) /\ clashed' \in BOOLEAN
  BY OneStartWatched DEF Undisturbed, BreakoutWork, BreakoutTypes, BreakoutTypeOK
<1>2. MetaTypes'
  BY DEF BreakoutWork, BreakoutTypes, MetaTypes
<1>3. BreakoutTypeOK'
  BY <1>1, Moved DEF BreakoutWork, BreakoutTypes, BreakoutTypeOK
<1>4. Shapes'
  BY MovedShapes
<1>5. JobRuns' /\ TimerFollows'
  BY <1>1, TimerKeptBy
<1>6. RunsKnow'
  BY <1>1, KnownBy
<1>7. RoomsFollow'
  BY <1>1, RoomsKeptBy
<1> QED
  BY <1>1, <1>2, <1>3, <1>4, <1>5, <1>6, <1>7 DEF BreakoutWork, BreakoutTypes

(* What arrives. *)
LEMMA ReceiveInv ==
    ASSUME BreakoutWork, NEW r \in Hosts, ObserveClash,
           \/ \E b \in BOOLEAN, l \in Plans : StartReceive(r, b, l)
           \/ EndReceive(r)
           \/ \E s \in Subs, us \in SUBSET People : AssignReceive(r, s, us)
    PROVE  BreakoutWork'
<1>1. /\ run[r] = IdleRun /\ r \in Runners /\ r # Timer
      /\ UNCHANGED <<main, setter, overtaken, sub, timer, faults, torn, unwound, dropped>>
  BY BreakoutAssumption DEF StartReceive, EndReceive, AssignReceive, MainKept, Runners
<1>2. faults' \in Nat /\ torn' \in BOOLEAN /\ unwound' \in BOOLEAN /\ started \in 0..MaxBreakouts
  BY <1>1 DEF BreakoutWork, BreakoutTypes, BreakoutTypeOK, MetaTypes
<1>3. ASSUME NEW q \in Run, Become(r, q), started' \in 0..MaxBreakouts,
             \/ /\ q.op = "start" /\ q.pc = "list" /\ q.n # NoBreakout
                /\ q.lists \in Lists /\ q.todo = {}
             \/ q.op = "end" /\ q.pc = "clear"
             \/ q.op = "assign" /\ q.pc = "list" /\ q.at \in Subs
      PROVE  BreakoutWork'
  <2>1. Shape(r, q) /\ Knows(q, main)
    BY <1>1, <1>3 DEF Shape, Knows, Renewing, Closing, Assigning, Handing
  <2>2. Keeps(r, q) /\ KeepsRooms(r, q)
    BY <1>1, <1>3, BreakoutRecords
       DEF Keeps, KeepsRooms, Renewing, WillEnd, Cleared, Renewed, WillClose, Closing, WillHand, Handing
  <2> QED
    BY <1>1, <1>2, <1>3, <2>1, <2>2, QuietInv
<1>4. ASSUME NEW b \in BOOLEAN, NEW l \in Plans, StartReceive(r, b, l)
      PROVE  BreakoutWork'
  <2> DEFINE q == [IdleRun EXCEPT !.op = "start", !.pc = "list", !.timed = b,
                                  !.n = started + 1, !.lists = l]
  <2>1. started + 1 \in Breakouts /\ started + 1 # NoBreakout /\ started' \in 0..MaxBreakouts
    <3>1. started < MaxBreakouts /\ started' = started + 1
      BY <1>4 DEF StartReceive
    <3> QED
      BY <1>2, <3>1, RoomMetadataAssumption DEF Breakouts, NoBreakout
  <2>2. /\ q \in Run /\ q.op = "start" /\ q.pc = "list" /\ q.n = started + 1
        /\ q.lists \in Lists /\ q.todo = {}
    BY <2>1, BreakoutRecords, BreakoutAssumption DEF Run, Ops, RunPc
  <2>3. Become(r, q)
    BY <1>4 DEF StartReceive
  <2> HIDE DEF q
  <2> QED
    BY <1>3, <2>1, <2>2, <2>3
<1>5. CASE EndReceive(r)
  <2> DEFINE q == [IdleRun EXCEPT !.op = "end", !.pc = "clear"]
  <2>1. q \in Run /\ q.op = "end" /\ q.pc = "clear"
    BY BreakoutRecords DEF Run, Ops, RunPc
  <2>2. Become(r, q) /\ started' = started
    BY <1>5 DEF EndReceive
  <2> HIDE DEF q
  <2> QED
    BY <1>2, <1>3, <2>1, <2>2
<1>6. ASSUME NEW s \in Subs, NEW us \in SUBSET People, AssignReceive(r, s, us)
      PROVE  BreakoutWork'
  <2> DEFINE q == [IdleRun EXCEPT !.op = "assign", !.pc = "list", !.at = s, !.users = us]
  <2>1. q \in Run /\ q.op = "assign" /\ q.pc = "list" /\ q.at = s
    BY BreakoutRecords DEF Run, Ops, RunPc
  <2>2. Become(r, q) /\ started' = started
    BY <1>6 DEF AssignReceive
  <2> HIDE DEF q
  <2> QED
    BY <1>2, <1>3, <2>1, <2>2
<1> QED
  BY <1>4, <1>5, <1>6
LEMMA ListInv ==
    ASSUME BreakoutWork, NEW r \in Runners, ObserveClash,
           StartList(r) \/ EndList(r) \/ AssignList(r) \/ (r = Timer /\ AutoList)
    PROVE  BreakoutWork'
<1>1. /\ UNCHANGED <<main, setter, overtaken, sub, timer>>
      /\ UNCHANGED <<faults, torn, unwound, started, dropped>>
  BY DEF StartList, EndList, AssignList, AutoList, MainKept, Quietly
<1>2. /\ faults' \in Nat /\ started' \in 0..MaxBreakouts /\ torn' \in BOOLEAN /\ unwound' \in BOOLEAN
      /\ run[r] \in Run /\ main \in Meta /\ Shape(r, run[r])
  BY <1>1 DEF BreakoutWork, BreakoutTypes, BreakoutTypeOK, MetaTypes, Shapes
<1>3. /\ run[r].pc = "list"
      /\ run[r].op \in {"start", "end", "assign", "auto"}
  BY DEF StartList, EndList, AssignList, AutoList, Is
<1>4. ASSUME NEW q \in Run, Become(r, q),
             \/ q = IdleRun /\ run[r].op = "assign"
             \/ /\ q.op = run[r].op /\ q.n = run[r].n /\ q.at = run[r].at
                /\ q.lists = run[r].lists
                /\ \/ q.op = "start" /\ q.pc = "upsert" /\ q.todo = DOMAIN q.lists
                   \/ q.op # "start" /\ q.pc = "write" /\ q.snap = main
                   \/ q.op = "auto" /\ q.pc = "complete",
             q.op = "auto" => (q.pc = "write" <=> RightSession(main, q.n)),
             (q.op = "assign" /\ q.pc = "write") =>
                q.at \in DOMAIN main.assigned /\ main.assigned[q.at] # Free
      PROVE  BreakoutWork'
  <2>1. Shape(r, q)
    BY <1>2, <1>3, <1>4, BreakoutRecords DEF Shape, Assigning
  <2>2. Knows(q, main)
    BY <1>3, <1>4, BreakoutRecords
       DEF Knows, Renewing, Closing, Assigning, Handing, RightSession
  <2>3. Keeps(r, q)
    BY <1>2, <1>3, <1>4, BreakoutRecords
       DEF Keeps, Renewing, WillEnd, Cleared, RightSession, Shape, Assigning
  <2>4. KeepsRooms(r, q)
    BY <1>3, <1>4, BreakoutRecords DEF KeepsRooms, Renewed, WillClose, Closing, WillHand, Handing
  <2> QED
    BY <1>1, <1>2, <1>4, <2>1, <2>2, <2>3, <2>4, QuietInv
<1>5. CASE StartList(r)
  <2> DEFINE q == [run[r] EXCEPT !.pc = "upsert", !.snap = main,
                                 !.todo = DOMAIN run[r].lists]
  <2>1. run[r].op = "start" /\ DOMAIN run[r].lists \subseteq Subs
    BY <1>2, <1>5, ListDomains DEF StartList, Is, Shape
  <2>2. /\ q \in Run /\ q.op = run[r].op /\ q.n = run[r].n /\ q.at = run[r].at /\ q.op = "start"
        /\ q.lists = run[r].lists /\ q.pc = "upsert" /\ q.todo = DOMAIN run[r].lists /\ Become(r, q)
    BY <1>2, <1>5, <2>1 DEF StartList, Is, Run, RunPc
  <2> HIDE DEF q
  <2> QED
    BY <1>4, <2>2
<1>6. CASE EndList(r)
  <2> DEFINE q == [run[r] EXCEPT !.pc = "write", !.snap = main]
  <2>1. /\ q \in Run /\ q.op = run[r].op /\ q.n = run[r].n /\ q.at = run[r].at /\ q.op = "end"
        /\ q.lists = run[r].lists /\ q.pc = "write" /\ q.snap = main /\ Become(r, q)
    BY <1>2, <1>6 DEF EndList, Is, Run, RunPc
  <2> HIDE DEF q
  <2> QED
    BY <1>4, <2>1
<1>7. CASE AssignList(r)
  <2>1. CASE run[r].at \notin DOMAIN main.assigned \/ main.assigned[run[r].at] = Free
    <3>1. Become(r, IdleRun) /\ run[r].op = "assign"
      BY <1>7, <2>1 DEF AssignList, Is, Return
    <3> QED
      BY <1>4, <3>1, BreakoutRecords
  <2>2. CASE ~(run[r].at \notin DOMAIN main.assigned \/ main.assigned[run[r].at] = Free)
    <3> DEFINE q == [run[r] EXCEPT !.pc = "write", !.snap = main]
    <3>1. /\ q \in Run /\ q.op = run[r].op /\ q.n = run[r].n /\ q.at = run[r].at /\ q.op = "assign"
          /\ q.lists = run[r].lists /\ q.pc = "write" /\ q.snap = main /\ Become(r, q)
      BY <1>2, <1>7, <2>2 DEF AssignList, Is, Run, RunPc
    <3> HIDE DEF q
    <3> QED
      BY <1>4, <2>2, <3>1
  <2> QED
    BY <2>1, <2>2
<1>8. CASE r = Timer /\ AutoList
  <2> DEFINE q == [run[r] EXCEPT !.pc = IF RightSession(main, run[r].n) THEN "write" ELSE "complete",
                                 !.snap = main]
  <2>1. /\ q \in Run /\ q.op = run[r].op /\ q.n = run[r].n /\ q.at = run[r].at /\ q.op = "auto"
        /\ q.lists = run[r].lists /\ q.pc = (IF RightSession(main, q.n) THEN "write" ELSE "complete")
        /\ q.snap = main /\ Become(r, q)
    BY <1>2, <1>8 DEF AutoList, Is, Run, RunPc
  <2> HIDE DEF q
  <2> QED
    BY <1>4, <2>1
<1> QED
  BY <1>5, <1>6, <1>7, <1>8

(* Somebody who closes goes on to the next sub room, or has done the last. *)
LEMMA NextSubShape ==
    ASSUME BreakoutWork, NEW r \in Runners, NEW s \in run[r].todo, Closing(run[r]),
           NextSub(r, s)
    PROVE  \E q \in Run :
              /\ Become(r, q) /\ Shape(r, q) /\ Keeps(r, q)
              /\ Closing(q) => q.todo = run[r].todo \ {s}
              /\ ~Closing(q) => run[r].todo = {s}
              /\ q.op \in {"none", "end", "auto"} /\ q.pc \in {"idle", "closeRead", "complete"}
<1>1. run[r] \in Run /\ Shape(r, run[r])
  BY DEF BreakoutWork, BreakoutTypes, BreakoutTypeOK, Shapes
<1>2. /\ run[r].op = "end" \/ run[r].op = "auto"
      /\ run[r].op = "auto" <=> r = Timer
  BY <1>1, BreakoutRecords DEF Shape, Assigning, Closing, Run, Ops
<1>3. CASE run[r].todo # {s}
  <2> DEFINE q == [run[r] EXCEPT !.pc = "closeRead", !.todo = @ \ {s},
                                 !.at = NoSub, !.subSnap = NoSubRoom]
  <2>1. /\ q \in Run /\ q.op = run[r].op /\ q.n = run[r].n /\ q.pc = "closeRead"
        /\ q.todo = run[r].todo \ {s}
    BY <1>1, BreakoutRecords DEF Run, RunPc
  <2>2. Become(r, q)
    BY <1>3 DEF NextSub
  <2> HIDE DEF q
  <2>3. Shape(r, q) /\ Keeps(r, q)
    BY <1>1, <1>2, <2>1 DEF Shape, Assigning, Keeps, Renewing, WillEnd, Cleared, Closing
  <2> QED
    BY <1>2, <2>1, <2>2, <2>3 DEF Closing
<1>4. CASE run[r].todo = {s} /\ run[r].op = "auto"
  <2> DEFINE q == [run[r] EXCEPT !.pc = "complete", !.todo = {}, !.at = NoSub,
                                 !.subSnap = NoSubRoom]
  <2>1. q \in Run /\ q.op = "auto" /\ q.n = run[r].n /\ q.pc = "complete"
    BY <1>1, <1>4, BreakoutRecords DEF Run, RunPc
  <2>2. Become(r, q)
    BY <1>4 DEF NextSub, AfterClosing
  <2> HIDE DEF q
  <2>3. Shape(r, q) /\ Keeps(r, q)
    BY <1>1, <1>2, <1>4, <2>1 DEF Shape, Assigning, Keeps, Renewing, WillEnd, Cleared, Closing
  <2> QED
    BY <1>4, <2>1, <2>2, <2>3 DEF Closing
<1>5. CASE run[r].todo = {s} /\ run[r].op # "auto"
  <2>1. Become(r, IdleRun)
    BY <1>5 DEF NextSub, AfterClosing
  <2>2. Shape(r, IdleRun) /\ Keeps(r, IdleRun)
    BY <1>2, <1>5, BreakoutRecords DEF Shape, Assigning, Keeps, Renewing, WillEnd, Cleared, Closing
  <2> QED
    BY <1>5, <2>1, <2>2, BreakoutRecords DEF Closing
<1> QED
  BY <1>3, <1>4, <1>5

(* What such a step leaves to be done, and to be known. *)
LEMMA NextSubKnows ==
    ASSUME BreakoutWork, NEW r \in Runners, NEW q \in Run, Closing(run[r]),
           q.op \in {"none", "end", "auto"}, q.pc \in {"idle", "closeRead", "complete"}
    PROVE  Undisturbed => DOMAIN main.assigned = {} /\ Knows(q, main)
BY DEF BreakoutWork, RunsKnow, Knows, Closing, Renewing, Assigning, Handing

LEMMA CloseReadInv ==
    ASSUME BreakoutWork, NEW r \in Runners, ObserveClash,
           CloseGone(r) \/ \E s \in Subs : CloseRead(r, s)
    PROVE  BreakoutWork'
<1>1. /\ UNCHANGED <<main, setter, overtaken, sub, timer>>
      /\ UNCHANGED <<faults, torn, unwound, started, dropped>>
  BY DEF CloseGone, CloseRead, MainKept, Quietly
<1>2. /\ faults' \in Nat /\ started' \in 0..MaxBreakouts /\ torn' \in BOOLEAN /\ unwound' \in BOOLEAN
      /\ run[r] \in Run /\ Shape(r, run[r]) /\ sub \in [Subs -> SubMeta]
  BY <1>1 DEF BreakoutWork, BreakoutTypes, BreakoutTypeOK, MetaTypes, Shapes
<1>3. ASSUME NEW s \in run[r].todo, Closing(run[r]), NextSub(r, s), s \in Subs => ~sub[s].up
      PROVE  BreakoutWork'
  <2>1. PICK q \in Run :
              /\ Become(r, q) /\ Shape(r, q) /\ Keeps(r, q)
              /\ Closing(q) => q.todo = run[r].todo \ {s}
              /\ ~Closing(q) => run[r].todo = {s}
              /\ q.op \in {"none", "end", "auto"} /\ q.pc \in {"idle", "closeRead", "complete"}
    BY <1>3, NextSubShape
  <2>2. KeepsRooms(r, q)
    BY <1>2, <1>3, <2>1 DEF KeepsRooms, Renewed, WillClose, WillHand, Handing, Closing, Shape, Assigning
  <2>3. Undisturbed => Knows(q, main)
    BY <1>3, <2>1, NextSubKnows
  <2> QED
    BY <1>1, <1>2, <2>1, <2>2, <2>3, QuietInv
<1>4. CASE CloseGone(r)
  <2>1. run[r].pc = "closeWrite" /\ ~sub[run[r].at].up /\ NextSub(r, run[r].at)
    BY <1>4 DEF CloseGone
  <2> QED
    BY <1>2, <1>3, <2>1 DEF Shape, Assigning, Closing
<1>5. ASSUME NEW s \in Subs, CloseRead(r, s)
      PROVE  BreakoutWork'
  <2>1. run[r].pc = "closeRead" /\ s \in run[r].todo /\ Closing(run[r])
    BY <1>5 DEF CloseRead, Closing
  <2>2. CASE ~sub[s].up
    BY <1>3, <1>5, <2>1, <2>2 DEF CloseRead
  <2>3. CASE sub[s].up
    <3> DEFINE q == [run[r] EXCEPT !.pc = "closeWrite", !.at = s, !.subSnap = sub[s]]
    <3>1. /\ q \in Run /\ q.op = run[r].op /\ q.n = run[r].n /\ q.pc = "closeWrite" /\ q.at = s
          /\ q.todo = run[r].todo
      BY <1>2 DEF Run, RunPc
    <3>2. Become(r, q)
      BY <1>5, <2>3 DEF CloseRead
    <3> HIDE DEF q
    <3>3. Shape(r, q) /\ Keeps(r, q)
      BY <1>2, <2>1, <3>1, BreakoutRecords DEF Shape, Assigning, Keeps, Renewing, WillEnd, Cleared
    <3>4. KeepsRooms(r, q)
      BY <1>2, <2>1, <3>1 DEF KeepsRooms, Renewed, WillClose, WillHand, Handing, Closing, Shape, Assigning
    <3>5. Undisturbed => Knows(q, main)
      BY <1>2, <2>1, <3>1
         DEF BreakoutWork, RunsKnow, Knows, Closing, Renewing, Assigning, Handing, Shape
    <3> QED
      BY <1>1, <1>2, <3>1, <3>2, <3>3, <3>4, <3>5, QuietInv
  <2> QED
    BY <2>2, <2>3
<1> QED
  BY <1>4, <1>5

(* What fails: the request is over, or goes on without what has failed. *)
LEMMA FailsInv ==
    ASSUME BreakoutWork, NEW r \in Runners, ObserveClash,
           \/ HostFails(r) \/ AssignFails(r) \/ (r = Timer /\ AutoFails)
           \/ \E s \in Subs : UpsertFails(r, s) \/ CloseFails(r, s)
    PROVE  BreakoutWork'
<1>1. /\ UNCHANGED <<main, setter, overtaken, sub, timer, started, dropped>>
      /\ Fault
  BY DEF HostFails, AssignFails, AutoFails, UpsertFails, CloseFails, MainKept
<1>2. /\ faults' \in Nat /\ started' \in 0..MaxBreakouts /\ main \in Meta
      /\ run[r] \in Run /\ Shape(r, run[r]) /\ torn \in BOOLEAN /\ unwound \in BOOLEAN
  BY <1>1 DEF BreakoutWork, BreakoutTypes, BreakoutTypeOK, MetaTypes, Shapes, Fault
<1>3. ASSUME NEW q \in Run, Become(r, q), Shape(r, q), torn' = TRUE, unwound' \in BOOLEAN,
             unwound => unwound', Keeps(r, q), Undisturbed => Knows(q, main)
      PROVE  BreakoutWork'
  BY <1>1, <1>2, <1>3, QuietInv
<1>4. Shape(r, IdleRun) /\ Knows(IdleRun, main)
  BY BreakoutRecords DEF Shape, Knows, Renewing, Closing, Assigning, Handing
<1>5. CASE HostFails(r)
  <2>1. /\ Become(r, IdleRun) /\ r # Timer
        /\ run[r].op \in {"start", "end"} /\ run[r].pc \in {"list", "write", "add"}
        /\ torn' = (torn \/ (run[r].op = "start" /\ run[r].pc = "write"))
        /\ unwound' = (unwound \/ Unwinds(run[r]))
    BY <1>5, BreakoutAssumption DEF HostFails, Return
  <2>2. Keeps(r, IdleRun)
    BY <2>1, BreakoutRecords DEF Keeps, Unwinds, Renewing, WillEnd, Cleared
  <2>3. torn' \/ KeepsRooms(r, IdleRun)
    BY <2>1, BreakoutRecords DEF KeepsRooms, Renewed, WillClose, Closing, WillHand, Handing
  <2> QED
    BY <1>1, <1>2, <1>4, <2>1, <2>2, <2>3, BreakoutRecords, QuietInv
<1>6. CASE AssignFails(r)
  <2>1. /\ Become(r, IdleRun) /\ r # Timer /\ run[r].op = "assign"
        /\ torn' = (torn \/ run[r].pc \in {"subRead", "subWrite"}) /\ unwound' = unwound
    BY <1>2, <1>6 DEF AssignFails, Return, Shape, Assigning
  <2>2. Keeps(r, IdleRun)
    BY <2>1, BreakoutRecords DEF Keeps, Renewing, WillEnd, Cleared
  <2>3. torn' \/ KeepsRooms(r, IdleRun)
    BY <1>2, <2>1, BreakoutRecords DEF KeepsRooms, Renewed, WillClose, Closing, WillHand, Handing, Shape, Assigning
  <2> QED
    BY <1>1, <1>2, <1>4, <2>1, <2>2, <2>3, BreakoutRecords, QuietInv
<1>7. CASE r = Timer /\ AutoFails
  <2> DEFINE q == [run[r] EXCEPT !.pc = "complete"]
  <2>1. q \in Run /\ q.op = run[r].op /\ q.n = run[r].n /\ q.pc = "complete"
    BY <1>2 DEF Run, RunPc
  <2>2. run[r].op = "auto" /\ torn' = TRUE /\ unwound' = TRUE
    BY <1>2, <1>7, BreakoutRecords DEF AutoFails, Shape, Assigning, Run, Ops
  <2>3. Become(r, q)
    BY <1>7 DEF AutoFails, Goto, Become
  <2> HIDE DEF q
  <2>4. Shape(r, q) /\ Knows(q, main)
    BY <1>7, <2>1, <2>2 DEF Shape, Knows, Renewing, Closing, Assigning, Handing
  <2>5. Keeps(r, q)
    BY <2>1, <2>2 DEF Keeps, Renewing, WillEnd, Cleared
  <2> QED
    BY <1>3, <2>1, <2>2, <2>3, <2>4, <2>5
<1>8. ASSUME NEW s \in Subs, UpsertFails(r, s)
      PROVE  BreakoutWork'
  <2> DEFINE q == [run[r] EXCEPT !.todo = @ \ {s},
                                 !.pc = IF run[r].todo = {s} THEN "write" ELSE "upsert"]
  <2>1. /\ q \in Run /\ q.op = run[r].op /\ q.n = run[r].n /\ q.lists = run[r].lists
        /\ q.pc \in {"write", "upsert"} /\ q.todo \subseteq run[r].todo
    BY <1>2 DEF Run, RunPc
  <2>2. /\ run[r].op = "start" /\ run[r].pc = "upsert" /\ torn' = TRUE /\ unwound' = unwound
        /\ Become(r, q)
    BY <1>8 DEF UpsertFails, Is
  <2> HIDE DEF q
  <2>3. Shape(r, q) /\ Knows(q, main)
    BY <1>2, <2>1, <2>2 DEF Shape, Knows, Renewing, Closing, Assigning, Handing
  <2>4. Keeps(r, q)
    BY <1>2, <2>1, <2>2 DEF Keeps, Renewing, WillEnd, Cleared, Shape, Assigning
  <2> QED
    BY <1>2, <1>3, <2>1, <2>2, <2>3, <2>4
<1>9. ASSUME NEW s \in Subs, CloseFails(r, s)
      PROVE  BreakoutWork'
  <2>1. /\ Closing(run[r]) /\ s \in run[r].todo /\ NextSub(r, s)
        /\ torn' = TRUE /\ unwound' = unwound
    BY <1>2, <1>9 DEF CloseFails, Closing, Shape, Assigning
  <2>2. PICK q \in Run :
              /\ Become(r, q) /\ Shape(r, q) /\ Keeps(r, q)
              /\ q.op \in {"none", "end", "auto"} /\ q.pc \in {"idle", "closeRead", "complete"}
    BY <2>1, NextSubShape
  <2>3. Undisturbed => Knows(q, main)
    BY <2>1, <2>2, NextSubKnows
  <2> QED
    BY <1>2, <1>3, <2>1, <2>2, <2>3
<1> QED
  BY <1>5, <1>6, <1>7, <1>8, <1>9
LEMMA AssignSubReadInv ==
    ASSUME BreakoutWork, NEW r \in Runners, ObserveClash, AssignSubRead(r)
    PROVE  BreakoutWork'
<1>1. /\ UNCHANGED <<main, setter, overtaken, sub, timer>>
      /\ UNCHANGED <<faults, torn, unwound, started, dropped>>
  BY DEF AssignSubRead, MainKept, Quietly
<1>2. /\ faults' \in Nat /\ started' \in 0..MaxBreakouts /\ torn' \in BOOLEAN /\ unwound' \in BOOLEAN
      /\ run[r] \in Run /\ Shape(r, run[r]) /\ sub \in [Subs -> SubMeta]
  BY <1>1 DEF BreakoutWork, BreakoutTypes, BreakoutTypeOK, MetaTypes, Shapes
<1>3. run[r].op = "assign" /\ run[r].pc = "subRead" /\ r # Timer /\ run[r].at \in Subs
  BY <1>2 DEF AssignSubRead, Is, Shape, Assigning
<1>4. ASSUME ~sub[run[r].at].up PROVE BreakoutWork'
  <2>1. Become(r, IdleRun)
    BY <1>4 DEF AssignSubRead, Return
  <2>2. Shape(r, IdleRun) /\ Knows(IdleRun, main) /\ Keeps(r, IdleRun)
    BY <1>3, BreakoutRecords DEF Shape, Knows, Keeps, Renewing, Closing, Assigning, Handing, WillEnd, Cleared
  <2>3. KeepsRooms(r, IdleRun)
    BY <1>3, <1>4, BreakoutRecords DEF KeepsRooms, Renewed, WillClose, Closing, WillHand, Handing
  <2> QED
    BY <1>1, <1>2, <2>1, <2>2, <2>3, BreakoutRecords, QuietInv
<1>5. ASSUME sub[run[r].at].up PROVE BreakoutWork'
  <2> DEFINE q == [run[r] EXCEPT !.pc = "subWrite", !.subSnap = sub[run[r].at]]
  <2>1. /\ q \in Run /\ q.op = "assign" /\ q.pc = "subWrite" /\ q.at = run[r].at /\ q.n = run[r].n
        /\ q.snap = run[r].snap /\ q.users = run[r].users /\ q.todo = run[r].todo
    BY <1>2, <1>3 DEF Run, RunPc
  <2>2. Become(r, q)
    BY <1>5 DEF AssignSubRead
  <2> HIDE DEF q
  <2>3. Shape(r, q)
    BY <1>2, <1>3, <2>1 DEF Shape, Assigning
  <2>4. Keeps(r, q)
    BY <1>3, <2>1 DEF Keeps, Renewing, WillEnd, Cleared
  <2>5. KeepsRooms(r, q)
    BY <1>3, <2>1 DEF KeepsRooms, Renewed, WillClose, Closing, WillHand, Handing, NewList
  <2>6. Undisturbed => Knows(q, main)
    BY <1>3, <2>1 DEF BreakoutWork, RunsKnow, Knows, Renewing, Closing, Assigning, Handing, NewList
  <2> QED
    BY <1>1, <1>2, <2>1, <2>2, <2>3, <2>4, <2>5, <2>6, QuietInv
<1> QED
  BY <1>4, <1>5

(***************************************************************************)
(* A start.                                                                *)
(***************************************************************************)
(* Nothing will be done to the sub rooms beside a start. *)
LEMMA NobodyBeside ==
    ASSUME BreakoutWork, ~clashed, NEW r \in Runners, run[r].op = "start", NEW s \in Subs
    PROVE  /\ \A x \in Runners \ {r} : run[x] = IdleRun
           /\ \A x \in Runners : ~WillClose(run[x], s) /\ ~WillHand(run[x], s) /\ ~Cleared(run[x])
           /\ \A x \in Runners : x # r => ~Renewed(run[x], s) /\ ~Renewing(run[x])
           /\ r \in Hosts /\ r # Timer /\ timer.st # "active"
<1>1. \A x \in Runners \ {r} : run[x] = IdleRun
  BY StarterAlone
<1>2. run[r].op = "start" /\ Shape(r, run[r]) /\ Timer \in Runners
  BY DEF BreakoutWork, Shapes, Runners
<1>3. r # Timer /\ r \in Hosts
  BY <1>2 DEF Shape, Runners
<1>4. timer.st # "active"
  BY <1>1, <1>2, <1>3, BreakoutRecords DEF BreakoutWork, JobRuns
<1> QED
  BY <1>1, <1>2, <1>3, <1>4, BreakoutRecords
     DEF Shape, WillClose, Closing, WillHand, Handing, Cleared, Renewed, Renewing

LEMMA UpsertSubInv ==
    ASSUME BreakoutWork, NEW r \in Runners, ObserveClash, NEW s \in Subs, UpsertSub(r, s)
    PROVE  BreakoutWork'
<1> DEFINE q == [run[r] EXCEPT !.todo = @ \ {s},
                               !.pc = IF run[r].todo = {s} THEN "write" ELSE "upsert"]
<1> DEFINE room == [up |-> TRUE, status |-> "active", started |-> run[r].n,
                    assigned |-> run[r].lists[s]]
<1>1. /\ UNCHANGED <<main, setter, overtaken, timer>>
      /\ UNCHANGED <<faults, torn, unwound, started, dropped>>
  BY DEF UpsertSub, MainKept, Quietly
<1>2. /\ run[r] \in Run /\ Shape(r, run[r]) /\ sub \in [Subs -> SubMeta]
      /\ run[r].op = "start" /\ run[r].pc = "upsert" /\ s \in run[r].todo
      /\ run[r].lists \in Lists /\ run[r].todo \subseteq DOMAIN run[r].lists
  BY DEF BreakoutWork, BreakoutTypes, BreakoutTypeOK, Shapes, Shape, UpsertSub, Is
<1>3. /\ q \in Run /\ q.op = "start" /\ q.n = run[r].n /\ q.todo = run[r].todo \ {s}
      /\ q.lists = run[r].lists /\ Become(r, q)
      /\ q.pc = IF run[r].todo = {s} THEN "write" ELSE "upsert"
  BY <1>2 DEF Run, RunPc, UpsertSub
<1>4. room \in SubMeta /\ sub' = [sub EXCEPT ![s] = room]
  <2>1. run[r].lists[s] \in {Free} \cup SUBSET People
    BY <1>2, ListDomains
  <2> QED
    BY <1>2, <2>1 DEF SubMeta, Run, UpsertSub
<1>5. /\ sub' \in [Subs -> SubMeta] /\ room.status = "active" /\ room.started = run[r].n
      /\ room.assigned = run[r].lists[s] /\ sub'[s] = room
      /\ \A x \in Subs \ {s} : sub'[x] = sub[x]
  BY <1>2, <1>4
<1> HIDE DEF q, room
<1>6. OneStart' /\ (Undisturbed' => Undisturbed) /\ clashed' \in BOOLEAN
  BY <1>1, OneStartWatched DEF Undisturbed, BreakoutWork, BreakoutTypes, BreakoutTypeOK
<1>7. MetaTypes' /\ BreakoutTypeOK' /\ Shapes'
  <2>1. Shape(r, q)
    BY <1>2, <1>3 DEF Shape, Assigning
  <2> QED
    BY <1>1, <1>3, <1>5, <1>6, <2>1, Moved, MovedShapes
       DEF BreakoutWork, BreakoutTypes, BreakoutTypeOK, MetaTypes
<1>8. JobRuns' /\ TimerFollows'
  <2>1. Keeps(r, q)
    BY <1>2, <1>3 DEF Keeps, Renewing, WillEnd, Cleared, Shape
  <2> QED
    BY <1>1, <1>3, <1>6, <2>1, TimerKeptBy
<1>9. RunsKnow'
  <2>1. Knows(q, main)
    BY <1>3 DEF Knows, Renewing, Closing, Assigning, Handing
  <2> QED
    BY <1>1, <1>3, <1>6, <2>1, KnownBy
<1>10. RoomsFollow'
  <2> SUFFICES ASSUME Undisturbed', ~torn', NEW x \in Subs, sub'[x].up
               PROVE  RoomFollows(x)'
    BY DEF RoomsFollow
  <2>1. /\ run'[r] = q /\ \A y \in Runners \ {r} : run'[y] = run[y]
    BY <1>3, Moved DEF BreakoutWork, BreakoutTypes
  <2>2. /\ \A y \in Runners \ {r} : run[y] = IdleRun
        /\ \A y \in Runners : ~WillClose(run[y], x) /\ ~WillHand(run[y], x)
        /\ \A y \in Runners : y # r => ~Renewed(run[y], x)
        /\ r \in Hosts /\ Hosts \subseteq Runners
    BY <1>2, <1>6, NobodyBeside DEF Undisturbed, Runners
  <2>3. CASE x = s
    <3>1. /\ sub'[x].status = "active" /\ sub'[x].started = q.n
          /\ sub'[x].assigned = q.lists[x] /\ Renewed(q, x)
      BY <1>2, <1>3, <1>5, <2>3 DEF Renewed
    <3> QED
      BY <2>1, <2>2, <3>1 DEF RoomFollows, Fresh
  <2>4. CASE x # s
    <3>1. sub'[x] = sub[x] /\ RoomFollows(x)
      BY <1>1, <1>5, <1>6, <2>4 DEF BreakoutWork, RoomsFollow
    <3>2. Renewed(q, x) <=> Renewed(run[r], x)
      BY <1>2, <1>3, <2>4 DEF Renewed
    <3>3. CASE Renewed(q, x)
      <4>1. Fresh(run[r], x)
        BY <2>2, <3>1, <3>2, <3>3 DEF RoomFollows
      <4> QED
        BY <1>3, <2>1, <2>2, <3>1, <3>3, <4>1 DEF RoomFollows, Fresh
    <3>4. CASE ~Renewed(q, x)
      <4>1. RoomSettled(x)
        BY <2>2, <3>1, <3>2, <3>4 DEF RoomFollows
      <4>2. RoomSettled(x)'
        BY <1>1, <2>2, <3>1, <4>1 DEF RoomSettled
      <4> QED
        BY <2>1, <2>2, <3>4, <4>2 DEF RoomFollows
    <3> QED
      BY <3>3, <3>4
  <2> QED
    BY <2>3, <2>4
<1> QED
  BY <1>6, <1>7, <1>8, <1>9, <1>10 DEF BreakoutWork, BreakoutTypes
LEMMA StartWriteInv ==
    ASSUME BreakoutWork, NEW r \in Runners, ObserveClash, StartWrite(r)
    PROVE  BreakoutWork'
<1> DEFINE new == [run[r].snap EXCEPT !.breakout = run[r].n, !.timed = run[r].timed,
                                      !.assigned = run[r].lists]
<1>1. /\ UNCHANGED <<setter, sub, timer>>
      /\ UNCHANGED <<faults, torn, unwound, started>>
      /\ UpdateRoomMetadata(new, {"breakout", "timed", "assigned"})
      /\ dropped' = (dropped \cup DOMAIN main.assigned) \ DOMAIN run[r].lists
  BY DEF StartWrite
<1>2. /\ run[r] \in Run /\ Shape(r, run[r])
      /\ run[r].op = "start" /\ run[r].pc = "write" /\ run[r].lists \in Lists
  BY DEF BreakoutWork, BreakoutTypes, BreakoutTypeOK, Shapes, Shape, StartWrite, Is
<1>3. PICK q \in Run : /\ q.op = "start" /\ q.pc = "clear" /\ Become(r, q)
                       /\ q.n = run[r].n /\ q.lists = run[r].lists /\ q.timed = run[r].timed
                       /\ q.todo = run[r].todo
  <2> DEFINE q == [run[r] EXCEPT !.pc = "clear"]
  <2>1. /\ q \in Run /\ q.op = "start" /\ q.pc = "clear"
        /\ q.n = run[r].n /\ q.lists = run[r].lists /\ q.timed = run[r].timed
        /\ q.todo = run[r].todo
    BY <1>2 DEF Run, RunPc
  <2>2. Become(r, q)
    BY DEF StartWrite, Goto, Become
  <2> HIDE DEF q
  <2> QED
    BY <2>1, <2>2
<1>4. /\ main' \in Meta /\ main'.breakout = q.n /\ main'.timed = q.timed
      /\ main'.assigned = q.lists /\ (overtaken => overtaken') /\ overtaken' \in BOOLEAN
  <2>1. new \in Meta /\ new.breakout = q.n /\ new.timed = q.timed /\ new.assigned = q.lists
    BY <1>2, <1>3 DEF Run, Meta
  <2> HIDE DEF new
  <2> QED
    BY <1>1, <2>1 DEF UpdateRoomMetadata, Clobbers, MetaTypes, BreakoutWork, BreakoutTypes
<1>5. OneStart' /\ (Undisturbed' => Undisturbed) /\ clashed' \in BOOLEAN
  BY <1>4, OneStartWatched DEF Undisturbed, BreakoutWork, BreakoutTypes, BreakoutTypeOK
<1>6. Shape(r, q) /\ q.n # NoBreakout
  BY <1>2, <1>3 DEF Shape, Assigning
<1>7. MetaTypes' /\ BreakoutTypeOK' /\ Shapes'
  <2>1. DOMAIN main.assigned \subseteq Subs
    BY ListDomains DEF BreakoutWork, BreakoutTypes, MetaTypes, Meta
  <2>2. dropped' \subseteq Subs
    BY <1>1, <2>1 DEF BreakoutWork, BreakoutTypes, BreakoutTypeOK
  <2> QED
    BY <1>1, <1>3, <1>4, <1>5, <1>6, <2>2, Moved, MovedShapes
       DEF BreakoutWork, BreakoutTypes, BreakoutTypeOK, MetaTypes
<1>8. /\ run'[r] = q /\ \A x \in Runners \ {r} : run'[x] = run[x]
  BY <1>3, Moved DEF BreakoutWork, BreakoutTypes
<1>9. r # Timer /\ r \in Hosts /\ Timer \in Runners /\ Hosts \subseteq Runners
  BY <1>2 DEF Shape, Runners
<1>10. Undisturbed' => /\ \A x \in Runners \ {r} : run[x] = IdleRun
                       /\ timer.st # "active"
  BY <1>2, <1>5, <1>9, StarterAlone, BreakoutRecords DEF Undisturbed, BreakoutWork, JobRuns
<1>11. JobRuns'
  BY <1>1, <1>8, <1>9 DEF BreakoutWork, JobRuns
<1>12. TimerFollows'
  <2>1. TimerRenewed(q)'
    BY <1>3, <1>4 DEF TimerRenewed
  <2>2. Undisturbed' => \A h \in Hosts : Renewing(run'[h]) => h = r
    BY <1>8, <1>9, <1>10, BreakoutRecords DEF Renewing
  <2>3. Renewing(run'[r])
    BY <1>3, <1>8 DEF Renewing
  <2> QED
    BY <1>3, <1>4, <1>8, <1>9, <2>2, <2>3 DEF TimerFollows, TimerRenewed
<1>13. RunsKnow'
  <2>1. Knows(q, main')
    BY <1>3, <1>4 DEF Knows, Renewing, Closing, Assigning, Handing
  <2>2. Knows(IdleRun, main')
    BY BreakoutRecords DEF Knows, Renewing, Closing, Assigning, Handing
  <2> QED
    BY <1>3, <1>5, <1>10, <2>1, <2>2, KnownBy
<1>14. RoomsFollow'
  <2> SUFFICES ASSUME Undisturbed', ~torn', NEW x \in Subs, sub'[x].up
               PROVE  RoomFollows(x)'
    BY DEF RoomsFollow
  <2>1. RoomFollows(x)
    BY <1>1, <1>5 DEF BreakoutWork, RoomsFollow
  <2>2. RoomSettled(x)'
    <3>1. CASE x \in DOMAIN run[r].lists
      <4>1. Fresh(run[r], x)
        BY <1>2, <1>9, <2>1, <3>1 DEF RoomFollows, Renewed
      <4> QED
        BY <1>1, <1>3, <1>4, <3>1, <4>1 DEF RoomSettled, Fresh
    <3>2. CASE x \notin DOMAIN run[r].lists
      <4>1. \A y \in Runners : ~WillClose(run[y], x) /\ (y # r => ~Renewed(run[y], x))
        BY <1>2, <1>5, NobodyBeside DEF Undisturbed
      <4>2. RoomSettled(x)
        BY <1>9, <2>1, <3>2, <4>1 DEF RoomFollows, Renewed
      <4>3. sub[x].status = "closing" \/ x \in dropped'
        BY <1>1, <3>2, <4>1, <4>2 DEF RoomSettled
      <4> QED
        BY <1>1, <1>3, <1>4, <3>2, <4>3 DEF RoomSettled
    <3> QED
      BY <3>1, <3>2
  <2>3. \A h \in Hosts : ~Renewed(run'[h], x)
    BY <1>3, <1>8, <1>9, <1>10, BreakoutRecords DEF Renewed
  <2> QED
    BY <2>2, <2>3 DEF RoomFollows
<1> QED
  BY <1>5, <1>7, <1>11, <1>12, <1>13, <1>14 DEF BreakoutWork, BreakoutTypes

(* What a clear makes of the timer: either it has gone, or what has gone   *)
(* wrong is recorded, or a worker has it.                                  *)
LEMMA TimerCleared ==
    ASSUME BreakoutWork, NEW r \in Runners, StartClear(r) \/ EndClear(r) \/ ClearFails(r)
    PROVE  /\ UNCHANGED <<main, setter, overtaken, sub, torn, started, dropped>>
           /\ faults' \in Nat /\ unwound' \in BOOLEAN /\ AfterClear(r)
           /\ run[r].pc = "clear" /\ run[r].op \in {"start", "end"} /\ r # Timer
           /\ timer' \in TimerJob /\ (timer'.st = "active" <=> timer.st = "active")
           /\ timer' = timer \/ timer' = NoTimer
           /\ ~unwound' => timer'.st # "delayed" /\ (~unwound \/ timer' = NoTimer)
<1>1. /\ timer \in TimerJob /\ unwound \in BOOLEAN /\ faults \in Nat
      /\ run[r] \in Run /\ Shape(r, run[r])
  BY DEF BreakoutWork, BreakoutTypes, BreakoutTypeOK, MetaTypes, Shapes
<1>2. CASE StartClear(r) \/ EndClear(r)
  <2>1. /\ Clear /\ AfterClear(r) /\ run[r].pc = "clear" /\ run[r].op \in {"start", "end"}
    BY <1>2 DEF StartClear, EndClear, Is
  <2>2. timer' = IF timer.st = "delayed" THEN NoTimer ELSE timer
    BY <2>1 DEF Clear, Removed
  <2>3. unwound' = (unwound /\ timer' # NoTimer)
    BY <2>1 DEF Clear
  <2>4. UNCHANGED <<main, setter, overtaken, sub, torn, started, dropped, faults>>
    BY <2>1 DEF Clear, MainKept
  <2>5. r # Timer
    BY <1>1, <2>1 DEF Shape
  <2> QED
    BY <1>1, <2>1, <2>2, <2>3, <2>4, <2>5, BreakoutRecords
<1>3. CASE ClearFails(r)
  <2>1. /\ AfterClear(r) /\ run[r].pc = "clear" /\ r # Timer /\ Fault
        /\ UNCHANGED <<main, setter, overtaken, sub, torn, started, dropped, timer>>
        /\ unwound' = (unwound \/ timer.st = "delayed")
    BY <1>3, BreakoutAssumption DEF ClearFails, MainKept
  <2>2. run[r].op \in {"start", "end"}
    BY <1>1, <2>1, BreakoutRecords DEF Shape, Run, Ops
  <2>3. faults' \in Nat
    BY <1>1, <2>1 DEF Fault
  <2> QED
    BY <1>1, <2>1, <2>2, <2>3
<1> QED
  BY <1>2, <1>3

(* The timer of the session before is removed, the new one added: one step *)
(* of the request that leaves the rooms alone.                             *)
LEMMA RenewInv ==
    ASSUME BreakoutWork, NEW r \in Runners, ObserveClash,
           \/ run[r].op = "start" /\ (StartClear(r) \/ ClearFails(r))
           \/ AddJob(r)
    PROVE  BreakoutWork'
<1>1. /\ UNCHANGED <<main, setter, overtaken, sub, torn, started, dropped>>
      /\ faults' \in Nat /\ unwound' \in BOOLEAN
      /\ run[r].op = "start"
      /\ \/ run[r].pc = "clear" /\ AfterClear(r)
         \/ run[r].pc = "add" /\ AddJob(r) /\ unwound' = unwound
  <2>1. CASE AddJob(r)
    BY <2>1 DEF AddJob, MainKept, Quietly, Is, BreakoutWork, BreakoutTypes, BreakoutTypeOK, MetaTypes
  <2>2. CASE ~AddJob(r)
    BY <2>2, TimerCleared
  <2> QED
    BY <2>1, <2>2
<1>2. /\ run[r] \in Run /\ Shape(r, run[r]) /\ timer \in TimerJob
      /\ run[r].op = "start" /\ run[r].pc \in {"clear", "add"}
      /\ (run[r].pc = "add" <=> AddJob(r))
  BY <1>1 DEF BreakoutWork, BreakoutTypes, BreakoutTypeOK, Shapes, AddJob, Is
<1>3. PICK q \in Run : /\ Become(r, q)
                       /\ \/ q = IdleRun /\ (run[r].pc = "add" \/ ~run[r].timed)
                          \/ /\ q.op = "start" /\ q.pc = "add" /\ run[r].pc = "clear" /\ q.timed
                             /\ q.n = run[r].n /\ q.lists = run[r].lists /\ q.timed = run[r].timed
                             /\ q.todo = run[r].todo
  <2>1. CASE AddJob(r) \/ ~run[r].timed
    <3>1. Become(r, IdleRun)
      BY <1>1, <1>2, <2>1 DEF AfterClear, AddJob, Return
    <3> QED
      BY <1>2, <2>1, <3>1, BreakoutRecords
  <2>2. CASE ~AddJob(r) /\ run[r].timed
    <3> DEFINE q == [run[r] EXCEPT !.pc = "add"]
    <3>1. /\ q \in Run /\ q.op = "start" /\ q.pc = "add"
          /\ q.n = run[r].n /\ q.lists = run[r].lists /\ q.timed = run[r].timed
          /\ q.todo = run[r].todo
      BY <1>1, <1>2 DEF Run, RunPc
    <3>2. Become(r, q)
      BY <1>1, <1>2, <2>2 DEF AfterClear, Goto, Become
    <3> HIDE DEF q
    <3> QED
      BY <1>2, <2>2, <3>1, <3>2
  <2> QED
    BY <2>1, <2>2
<1>4. /\ timer' \in TimerJob /\ (timer'.st = "active" <=> timer.st = "active")
      /\ timer'.st = "active" => timer' = timer
      /\ (run[r].pc = "clear" /\ timer.st # "active" /\ ~unwound') => timer'.st = "none"
      /\ (run[r].pc = "add" /\ timer.st = "none") =>
            timer'.st = "delayed" /\ timer'.started = run[r].n
  <2>1. CASE run[r].pc = "clear"
    <3>1. /\ timer' \in TimerJob /\ (timer'.st = "active" <=> timer.st = "active")
          /\ timer' = timer \/ timer' = NoTimer
          /\ ~unwound' => timer'.st # "delayed"
      BY <1>2, <2>1, TimerCleared
    <3>2. timer'.st \in {"none", "delayed", "active"}
      BY <3>1 DEF TimerJob
    <3> QED
      BY <1>2, <2>1, <3>1, <3>2, BreakoutRecords
  <2>2. CASE run[r].pc = "add"
    <3>1. timer' = IF timer.st = "none"
                   THEN [st |-> "delayed", started |-> run[r].n, stalled |-> FALSE]
                   ELSE timer
      BY <1>2, <2>2 DEF AddJob
    <3> QED
      BY <1>2, <2>2, <3>1 DEF TimerJob, Run
  <2> QED
    BY <1>2, <2>1, <2>2
<1>5. OneStart' /\ (Undisturbed' => Undisturbed) /\ clashed' \in BOOLEAN
  BY <1>1, OneStartWatched DEF Undisturbed, BreakoutWork, BreakoutTypes, BreakoutTypeOK
<1>6. Shape(r, q)
  BY <1>2, <1>3, BreakoutRecords DEF Shape, Assigning
<1>7. MetaTypes' /\ BreakoutTypeOK' /\ Shapes'
  BY <1>1, <1>4, <1>5, <1>6, Moved, MovedShapes, <1>3
     DEF BreakoutWork, BreakoutTypes, BreakoutTypeOK, MetaTypes
<1>8. /\ run'[r] = q /\ \A x \in Runners \ {r} : run'[x] = run[x]
  BY <1>3, Moved DEF BreakoutWork, BreakoutTypes
<1>9. r # Timer /\ r \in Hosts /\ Timer \in Runners /\ Hosts \subseteq Runners
  BY <1>2 DEF Shape, Runners
<1>10. Undisturbed' => /\ \A x \in Runners \ {r} : run[x] = IdleRun
                       /\ timer.st # "active"
  BY <1>2, <1>5, <1>9, StarterAlone, BreakoutRecords DEF Undisturbed, BreakoutWork, JobRuns
<1>11. JobRuns'
  BY <1>4, <1>8, <1>9 DEF BreakoutWork, JobRuns
<1>12. TimerFollows'
  <2> SUFFICES ASSUME Undisturbed', ~unwound'
               PROVE  /\ \A h \in Hosts : Renewing(run'[h]) => TimerRenewed(run[h])'
                      /\ (\A h \in Hosts : ~Renewing(run'[h])) => TimerSettled'
    BY DEF TimerFollows
  <2>1. /\ main.breakout = run[r].n /\ main.timed = run[r].timed
        /\ run[r].pc = "add" => timer.st = "none" /\ run[r].timed
    <3>1. Knows(run[r], main) /\ Renewing(run[r])
      BY <1>1, <1>2, <1>5 DEF BreakoutWork, RunsKnow, Renewing
    <3>2. run[r].pc = "add" => TimerRenewed(run[r])
      BY <1>1, <1>2, <1>5, <1>9, <3>1 DEF BreakoutWork, TimerFollows
    <3> QED
      BY <1>1, <1>2, <3>1, <3>2 DEF Knows, TimerRenewed, Shape
  <2>2. \A h \in Hosts : Renewing(run'[h]) => h = r
    BY <1>8, <1>9, <1>10, BreakoutRecords DEF Renewing
  <2>3. Renewing(q) => TimerRenewed(run[r])'
    BY <1>1, <1>3, <1>4, <1>8, <1>10, <2>1, BreakoutRecords DEF TimerRenewed, Renewing
  <2>4. ~Renewing(q) => TimerSettled'
    <3>1. \A h \in Hosts : ~Cleared(run'[h]) \/ h = r
      BY <1>8, <1>9, <1>10, BreakoutRecords DEF Cleared
    <3>2. ~Cleared(q)
      BY <1>3, BreakoutRecords DEF Cleared
    <3>3. CASE run[r].pc = "clear"
      BY <1>1, <1>2, <1>3, <1>4, <1>8, <1>10, <2>1, <3>1, <3>2, <3>3
         DEF TimerSettled, TimerRenewed, Live, Renewing
    <3>4. CASE run[r].pc = "add"
      BY <1>1, <1>2, <1>3, <1>4, <1>8, <1>10, <2>1, <3>1, <3>2, <3>4
         DEF TimerSettled, TimerRenewed, Live, Shape
    <3> QED
      BY <1>2, <3>3, <3>4
  <2> QED
    BY <1>8, <1>9, <2>2, <2>3, <2>4
<1>13. RunsKnow'
  <2>1. Undisturbed' => Knows(q, main)
    BY <1>2, <1>3, <1>5, BreakoutRecords
       DEF BreakoutWork, RunsKnow, Knows, Renewing, Closing, Assigning, Handing
  <2> QED
    BY <1>1, <1>3, <1>5, <2>1, KnownBy
<1>14. RoomsFollow'
  <2>1. KeepsRooms(r, q)
    BY <1>2, <1>3, BreakoutRecords DEF KeepsRooms, Renewed, WillClose, Closing, WillHand, Handing
  <2> QED
    BY <1>1, <1>3, <1>5, <2>1, RoomsKeptBy
<1> QED
  BY <1>5, <1>7, <1>11, <1>12, <1>13, <1>14 DEF BreakoutWork, BreakoutTypes
(***************************************************************************)
(* The end of a session, by the host or by the job.                        *)
(***************************************************************************)
LEMMA EndClearInv ==
    ASSUME BreakoutWork, NEW r \in Runners, ObserveClash,
           run[r].op = "end", EndClear(r) \/ ClearFails(r)
    PROVE  BreakoutWork'
<1>1. /\ UNCHANGED <<main, setter, overtaken, sub, torn, started, dropped>>
      /\ faults' \in Nat /\ unwound' \in BOOLEAN /\ AfterClear(r)
  BY TimerCleared
<1>2. /\ run[r] \in Run /\ Shape(r, run[r]) /\ timer \in TimerJob
      /\ run[r].op = "end" /\ run[r].pc = "clear" /\ r # Timer
  BY TimerCleared DEF BreakoutWork, BreakoutTypes, BreakoutTypeOK, Shapes
<1>3. PICK q \in Run : Become(r, q) /\ q.op = "end" /\ q.pc = "list"
  <2> DEFINE q == [run[r] EXCEPT !.pc = "list"]
  <2>1. q \in Run /\ q.op = "end" /\ q.pc = "list"
    BY <1>2 DEF Run, RunPc
  <2>2. Become(r, q)
    BY <1>1, <1>2 DEF AfterClear, Goto, Become
  <2> HIDE DEF q
  <2> QED
    BY <2>1, <2>2
<1>4. /\ timer' \in TimerJob /\ (timer'.st = "active" <=> timer.st = "active")
      /\ timer'.st # "none" => timer' = timer
      /\ ~unwound' => timer'.st # "delayed" /\ (~unwound \/ timer'.st = "none")
  BY TimerCleared, BreakoutRecords
<1>5. OneStart' /\ (Undisturbed' => Undisturbed) /\ clashed' \in BOOLEAN
  BY <1>1, OneStartWatched DEF Undisturbed, BreakoutWork, BreakoutTypes, BreakoutTypeOK
<1>6. Shape(r, q)
  BY <1>2, <1>3 DEF Shape, Assigning
<1>7. MetaTypes' /\ BreakoutTypeOK' /\ Shapes'
  BY <1>1, <1>3, <1>4, <1>5, <1>6, Moved, MovedShapes
     DEF BreakoutWork, BreakoutTypes, BreakoutTypeOK, MetaTypes
<1>8. /\ run'[r] = q /\ \A x \in Runners \ {r} : run'[x] = run[x]
  BY <1>3, Moved DEF BreakoutWork, BreakoutTypes
<1>9. r \in Hosts /\ Timer \in Runners /\ Hosts \subseteq Runners
  BY <1>2 DEF Runners
<1>10. JobRuns'
  BY <1>2, <1>4, <1>8, <1>9, BreakoutRecords DEF BreakoutWork, JobRuns
<1>11. TimerFollows'
  <2> SUFFICES ASSUME Undisturbed', ~unwound'
               PROVE  /\ \A h \in Hosts : ~Renewing(run'[h])
                      /\ TimerSettled'
    BY DEF TimerFollows
  <2>1. \A x \in Runners : run[x].op # "start"
    BY <1>2, <1>5, NoStartBeside DEF Undisturbed
  <2>2. /\ \A h \in Hosts : ~Renewing(run[h])
        /\ ~unwound => TimerSettled
    BY <1>1, <1>5, <1>9, <2>1 DEF BreakoutWork, TimerFollows, Renewing
  <2>3. \A h \in Hosts : ~Renewing(run'[h])
    BY <1>3, <1>8, <1>9, <2>2 DEF Renewing
  <2>4. WillEnd(run'[r])
    BY <1>3, <1>8 DEF WillEnd
  <2>5. TimerSettled'
    BY <1>1, <1>4, <1>9, <2>2, <2>4 DEF TimerSettled, Live
  <2> QED
    BY <2>3, <2>5
<1>12. RunsKnow'
  <2>1. Knows(q, main)
    BY <1>3 DEF Knows, Renewing, Closing, Assigning, Handing
  <2> QED
    BY <1>1, <1>3, <1>5, <2>1, KnownBy
<1>13. RoomsFollow'
  <2>1. KeepsRooms(r, q)
    BY <1>2, <1>3 DEF KeepsRooms, Renewed, WillClose, Closing, WillHand, Handing
  <2> QED
    BY <1>1, <1>3, <1>5, <2>1, RoomsKeptBy
<1> QED
  BY <1>5, <1>7, <1>10, <1>11, <1>12, <1>13 DEF BreakoutWork, BreakoutTypes

LEMMA EndWriteInv ==
    ASSUME BreakoutWork, NEW r \in Runners, ObserveClash, EndWrite(r)
    PROVE  BreakoutWork'
<1> DEFINE new == [run[r].snap EXCEPT !.breakout = NoBreakout, !.timed = FALSE,
                                      !.assigned = NoLists]
<1>1. /\ UNCHANGED <<setter, sub, timer>>
      /\ UNCHANGED <<faults, torn, unwound, started, dropped>>
      /\ UpdateRoomMetadata(new, {"breakout", "timed", "assigned"})
  BY DEF EndWrite, Quietly
<1>2. /\ run[r] \in Run /\ Shape(r, run[r])
      /\ run[r].op \in {"end", "auto"} /\ run[r].pc = "write"
      /\ run[r].op = "auto" <=> r = Timer
  BY DEF BreakoutWork, BreakoutTypes, BreakoutTypeOK, Shapes, EndWrite, Shape
<1>3. PICK q \in Run :
        /\ Become(r, q) /\ Shape(r, q)
        /\ q.op = run[r].op \/ (run[r].op = "end" /\ q = IdleRun)
        /\ r = Timer => q.n = run[r].n
        /\ q.pc \in {"idle", "closeRead", "complete"}
        /\ IF Closing(q) THEN q.todo = DOMAIN run[r].snap.assigned
           ELSE DOMAIN run[r].snap.assigned = {}
  <2>1. CASE ToClose(run[r].snap) = {}
    <3>1. DOMAIN run[r].snap.assigned = {}
      BY <2>1 DEF ToClose
    <3>2. CASE run[r].op = "auto"
      <4> DEFINE q == [run[r] EXCEPT !.pc = "complete", !.todo = {}, !.at = NoSub,
                                     !.subSnap = NoSubRoom]
      <4>1. q \in Run /\ q.op = "auto" /\ q.pc = "complete" /\ q.n = run[r].n
        BY <1>2, <3>2, BreakoutRecords DEF Run, RunPc
      <4>2. Become(r, q)
        BY <2>1, <3>2 DEF EndWrite, AfterClosing
      <4> HIDE DEF q
      <4>3. Shape(r, q) /\ ~Closing(q)
        BY <1>2, <3>2, <4>1 DEF Shape, Assigning, Closing
      <4> QED
        BY <3>1, <3>2, <4>1, <4>2, <4>3
    <3>3. CASE run[r].op # "auto"
      <4>1. Become(r, IdleRun)
        BY <2>1, <3>3 DEF EndWrite, AfterClosing
      <4> QED
        BY <1>2, <3>1, <3>3, <4>1, BreakoutRecords DEF Shape, Assigning, Closing
    <3> QED
      BY <3>2, <3>3
  <2>2. CASE ToClose(run[r].snap) # {}
    <3> DEFINE q == [run[r] EXCEPT !.pc = "closeRead", !.todo = ToClose(run[r].snap)]
    <3>1. ToClose(run[r].snap) = DOMAIN run[r].snap.assigned /\ ToClose(run[r].snap) \subseteq Subs
      BY <1>2, ListDomains DEF ToClose, Run, Meta
    <3>2. /\ q \in Run /\ q.op = run[r].op /\ q.pc = "closeRead" /\ q.n = run[r].n
          /\ q.todo = DOMAIN run[r].snap.assigned
      BY <1>2, <3>1 DEF Run, RunPc
    <3>3. Become(r, q)
      BY <2>2 DEF EndWrite
    <3> HIDE DEF q
    <3>4. Shape(r, q) /\ Closing(q)
      BY <1>2, <3>2 DEF Shape, Assigning, Closing
    <3> QED
      BY <3>2, <3>3, <3>4
  <2> QED
    BY <2>1, <2>2
<1>4. /\ main' \in Meta /\ main'.breakout = NoBreakout /\ ~main'.timed
      /\ DOMAIN main'.assigned = {}
      /\ (overtaken => overtaken') /\ overtaken' \in BOOLEAN
  <2>1. new \in Meta /\ new.breakout = NoBreakout /\ new.timed = FALSE /\ DOMAIN new.assigned = {}
    BY <1>2, ListDomains DEF Run, Meta
  <2> HIDE DEF new
  <2> QED
    BY <1>1, <2>1 DEF UpdateRoomMetadata, Clobbers, MetaTypes, BreakoutWork, BreakoutTypes
<1>5. OneStart' /\ (Undisturbed' => Undisturbed) /\ clashed' \in BOOLEAN
  BY <1>4, OneStartWatched DEF Undisturbed, BreakoutWork, BreakoutTypes, BreakoutTypeOK
<1>6. MetaTypes' /\ BreakoutTypeOK' /\ Shapes'
  BY <1>1, <1>3, <1>4, <1>5, Moved, MovedShapes
     DEF BreakoutWork, BreakoutTypes, BreakoutTypeOK, MetaTypes
<1>7. /\ run'[r] = q /\ \A x \in Runners \ {r} : run'[x] = run[x]
  BY <1>3, Moved DEF BreakoutWork, BreakoutTypes
<1>8. Timer \in Runners /\ Hosts \subseteq Runners /\ (r \in Hosts \/ r = Timer)
  BY DEF Runners
<1>9. JobRuns'
  BY <1>1, <1>2, <1>3, <1>7, <1>8 DEF BreakoutWork, JobRuns
<1>10. Undisturbed' => \A x \in Runners : run[x].op # "start"
  BY <1>2, <1>5, NoStartBeside DEF Undisturbed
<1>11. TimerFollows'
  <2> SUFFICES ASSUME Undisturbed', ~unwound'
               PROVE  TimerSettled' /\ \A h \in Hosts : ~Renewing(run'[h])
    BY DEF TimerFollows
  <2>1. TimerSettled /\ \A h \in Hosts : ~Renewing(run[h])
    BY <1>1, <1>5, <1>8, <1>10 DEF BreakoutWork, TimerFollows, Renewing
  <2>2. \A h \in Hosts : ~Renewing(run'[h])
    BY <1>2, <1>3, <1>7, <1>8, <2>1, BreakoutRecords DEF Renewing
  <2>3. \A h \in Hosts : Cleared(run'[h]) => timer.st # "delayed"
    BY <1>2, <1>3, <1>7, <1>8, <2>1 DEF TimerSettled, Cleared, BreakoutWork, JobRuns
  <2>4. timer.st # "delayed"
    BY <1>2, <1>8, <2>1 DEF TimerSettled, Cleared, BreakoutWork, JobRuns
  <2> QED
    BY <1>1, <1>4, <2>2, <2>4 DEF TimerSettled, Live
<1>12. RunsKnow'
  <2>1. Knows(q, main')
    BY <1>2, <1>3, <1>4, BreakoutRecords DEF Knows, Renewing, Closing, Assigning, Handing
  <2>2. Undisturbed' => \A x \in Runners : Knows(run[x], main')
    BY <1>4, <1>10 DEF Knows, Renewing
  <2> QED
    BY <1>3, <1>5, <2>1, <2>2, KnownBy
<1>13. RoomsFollow'
  <2> SUFFICES ASSUME Undisturbed', ~torn', NEW x \in Subs, sub'[x].up
               PROVE  RoomFollows(x)'
    BY DEF RoomsFollow
  <2>1. RoomSettled(x)
    BY <1>1, <1>5, <1>8, <1>10 DEF BreakoutWork, RoomsFollow, RoomFollows, Renewed
  <2>2. \A h \in Hosts : ~Renewed(run'[h], x)
    BY <1>2, <1>3, <1>7, <1>8, <1>10, BreakoutRecords DEF Renewed
  <2>3. CASE Closing(q)
    <3>1. x \in DOMAIN main.assigned => WillClose(run'[r], x)
      <4>1. DOMAIN main.assigned \subseteq DOMAIN run[r].snap.assigned
        BY <1>2, <1>5 DEF BreakoutWork, RunsKnow, Knows
      <4> QED
        BY <1>3, <1>7, <2>3, <4>1 DEF WillClose
    <3>2. \A y \in Runners : WillClose(run[y], x) => WillClose(run'[y], x)
      BY <1>2, <1>7 DEF WillClose, Closing
    <3> QED
      BY <1>1, <1>4, <2>1, <2>2, <3>1, <3>2 DEF RoomFollows, RoomSettled
  <2>4. CASE ~Closing(q)
    <3>1. DOMAIN main.assigned = {}
      BY <1>2, <1>3, <1>5, <2>4 DEF BreakoutWork, RunsKnow, Knows
    <3>2. \A y \in Runners : WillClose(run[y], x) => WillClose(run'[y], x)
      BY <1>2, <1>7 DEF WillClose, Closing
    <3> QED
      BY <1>1, <1>4, <2>1, <2>2, <3>1, <3>2 DEF RoomFollows, RoomSettled
  <2> QED
    BY <2>3, <2>4
<1> QED
  BY <1>5, <1>6, <1>9, <1>11, <1>12, <1>13 DEF BreakoutWork, BreakoutTypes
LEMMA CloseWriteInv ==
    ASSUME BreakoutWork, NEW r \in Runners, ObserveClash, CloseWrite(r)
    PROVE  BreakoutWork'
<1> DEFINE s == run[r].at
<1> DEFINE new == [run[r].subSnap EXCEPT !.status = "closing"]
<1>1. /\ UNCHANGED <<main, setter, timer>>
      /\ UNCHANGED <<faults, torn, unwound, started, dropped>>
      /\ UpdateSubMetadata(s, new, {"status"}) /\ sub[s].up /\ NextSub(r, s)
  BY DEF CloseWrite, Quietly
<1>2. /\ run[r] \in Run /\ Shape(r, run[r]) /\ run[r].pc = "closeWrite" /\ Closing(run[r])
      /\ s \in run[r].todo /\ s \in Subs /\ sub \in [Subs -> SubMeta]
      /\ run[r].op \notin {"none", "start"}
  BY BreakoutRecords DEF BreakoutWork, BreakoutTypes, BreakoutTypeOK, Shapes, CloseWrite, Shape, Closing, Run
<1>3. PICK q \in Run :
        /\ Become(r, q) /\ Shape(r, q) /\ Keeps(r, q)
        /\ Closing(q) => q.todo = run[r].todo \ {s}
        /\ ~Closing(q) => run[r].todo = {s}
        /\ q.op \in {"none", "end", "auto"} /\ q.pc \in {"idle", "closeRead", "complete"}
  BY <1>1, <1>2, NextSubShape
<1>4. /\ sub' \in [Subs -> SubMeta] /\ sub'[s].status = "closing"
      /\ \A x \in Subs \ {s} : sub'[x] = sub[x]
      /\ (overtaken => overtaken') /\ overtaken' \in BOOLEAN
  <2>1. new \in SubMeta /\ new.status = "closing"
    BY <1>2 DEF Run, SubMeta
  <2> HIDE DEF new
  <2> QED
    BY <1>1, <1>2, <2>1 DEF UpdateSubMetadata, MetaTypes, BreakoutWork, BreakoutTypes
<1> HIDE DEF s, new
<1>5. OneStart' /\ (Undisturbed' => Undisturbed) /\ clashed' \in BOOLEAN
  BY <1>4, OneStartWatched DEF Undisturbed, BreakoutWork, BreakoutTypes, BreakoutTypeOK
<1>6. MetaTypes' /\ BreakoutTypeOK' /\ Shapes'
  BY <1>1, <1>3, <1>4, <1>5, Moved, MovedShapes
     DEF BreakoutWork, BreakoutTypes, BreakoutTypeOK, MetaTypes
<1>7. /\ run'[r] = q /\ \A x \in Runners \ {r} : run'[x] = run[x]
  BY <1>3, Moved DEF BreakoutWork, BreakoutTypes
<1>8. JobRuns' /\ TimerFollows'
  BY <1>1, <1>3, <1>5, TimerKeptBy
<1>9. Undisturbed => DOMAIN main.assigned = {} /\ Knows(q, main)
  BY <1>2, <1>3, NextSubKnows
<1>10. RunsKnow'
  BY <1>1, <1>3, <1>5, <1>9, KnownBy
<1>11. RoomsFollow'
  <2> SUFFICES ASSUME Undisturbed', ~torn', NEW x \in Subs, sub'[x].up
               PROVE  RoomFollows(x)'
    BY DEF RoomsFollow
  <2>1. \A y \in Runners : run[y].op # "start"
    BY <1>2, <1>5, NoStartBeside DEF Undisturbed
  <2>2. Hosts \subseteq Runners
    BY DEF Runners
  <2>3. \A h \in Hosts : ~Renewed(run'[h], x)
    BY <1>3, <1>7, <2>1, <2>2 DEF Renewed
  <2>4. RoomSettled(x)'
    <3>1. CASE x = s
      BY <1>1, <1>4, <1>5, <1>9, <3>1 DEF RoomSettled
    <3>2. CASE x # s
      <4>1. RoomSettled(x) /\ sub'[x] = sub[x]
        BY <1>1, <1>4, <1>5, <2>1, <2>2, <3>2 DEF BreakoutWork, RoomsFollow, RoomFollows, Renewed
      <4>2. \A y \in Runners : WillClose(run[y], x) => WillClose(run'[y], x)
        BY <1>3, <1>7, <3>2 DEF WillClose
      <4> QED
        BY <1>1, <1>5, <1>9, <4>1, <4>2 DEF RoomSettled
    <3> QED
      BY <3>1, <3>2
  <2> QED
    BY <2>3, <2>4 DEF RoomFollows
<1> QED
  BY <1>5, <1>6, <1>8, <1>10, <1>11 DEF BreakoutWork, BreakoutTypes

(***************************************************************************)
(* The job.                                                                *)
(***************************************************************************)
LEMMA AutoTakeInv ==
    ASSUME BreakoutWork, ObserveClash, AutoTake
    PROVE  BreakoutWork'
<1>1. /\ UNCHANGED <<main, setter, overtaken, sub>>
      /\ UNCHANGED <<faults, torn, unwound, started, dropped>>
      /\ timer.st = "delayed" /\ run[Timer] = IdleRun
  BY DEF AutoTake, MainKept, Quietly
<1>2. timer \in TimerJob /\ Timer \in Runners /\ Hosts \subseteq Runners /\ Timer \notin Hosts
  BY BreakoutAssumption DEF BreakoutWork, BreakoutTypes, BreakoutTypeOK, Runners
<1>3. PICK q \in Run : /\ Become(Timer, q) /\ q.op = "auto" /\ q.pc = "list"
                       /\ q.n = timer.started
  <2> DEFINE q == [IdleRun EXCEPT !.op = "auto", !.pc = "list", !.n = timer.started]
  <2>1. q \in Run /\ q.op = "auto" /\ q.pc = "list" /\ q.n = timer.started
    BY <1>2, BreakoutRecords DEF Run, Ops, RunPc, TimerJob
  <2>2. Become(Timer, q)
    BY DEF AutoTake
  <2> HIDE DEF q
  <2> QED
    BY <2>1, <2>2
<1>4. timer' \in TimerJob /\ timer'.st = "active" /\ timer'.started = timer.started
  BY <1>2 DEF AutoTake, TimerJob
<1>5. OneStart' /\ (Undisturbed' => Undisturbed) /\ clashed' \in BOOLEAN
  BY <1>1, OneStartWatched DEF Undisturbed, BreakoutWork, BreakoutTypes, BreakoutTypeOK
<1>6. Shape(Timer, q)
  BY <1>3 DEF Shape, Assigning
<1>7. MetaTypes' /\ BreakoutTypeOK' /\ Shapes'
  BY <1>1, <1>2, <1>3, <1>4, <1>5, <1>6, Moved, MovedShapes
     DEF BreakoutWork, BreakoutTypes, BreakoutTypeOK, MetaTypes
<1>8. /\ run'[Timer] = q /\ \A x \in Runners \ {Timer} : run'[x] = run[x]
  BY <1>2, <1>3, Moved DEF BreakoutWork, BreakoutTypes
<1>9. JobRuns'
  BY <1>3, <1>4, <1>8 DEF JobRuns
<1>10. TimerFollows'
  <2> SUFFICES ASSUME Undisturbed', ~unwound'
               PROVE  TimerSettled' /\ \A h \in Hosts : ~Renewing(run'[h])
    BY DEF TimerFollows
  <2>1. \A h \in Hosts : run'[h] = run[h] /\ run[h].op # "start"
    BY <1>2, <1>3, <1>5, <1>8 DEF OneStart, Starting, Undisturbed
  <2>2. TimerSettled /\ \A h \in Hosts : ~Renewing(run[h])
    BY <1>1, <1>5, <2>1 DEF BreakoutWork, TimerFollows, Renewing
  <2> QED
    BY <1>1, <1>3, <1>4, <1>8, <2>1, <2>2 DEF TimerSettled, Live
<1>11. RunsKnow'
  <2>1. Knows(q, main)
    BY <1>3 DEF Knows, Renewing, Closing, Assigning, Handing
  <2> QED
    BY <1>1, <1>2, <1>3, <1>5, <2>1, KnownBy
<1>12. RoomsFollow'
  <2>1. KeepsRooms(Timer, q)
    BY <1>1, <1>3, BreakoutRecords DEF KeepsRooms, Renewed, WillClose, Closing, WillHand, Handing
  <2> QED
    BY <1>1, <1>2, <1>3, <1>5, <2>1, RoomsKeptBy
<1> QED
  BY <1>5, <1>7, <1>9, <1>10, <1>11, <1>12 DEF BreakoutWork, BreakoutTypes

LEMMA CompleteInv ==
    ASSUME BreakoutWork, ObserveClash, Complete
    PROVE  BreakoutWork'
<1>1. /\ UNCHANGED <<main, setter, overtaken, sub>>
      /\ UNCHANGED <<faults, torn, unwound, started, dropped>>
      /\ run[Timer].op = "auto" /\ run[Timer].pc = "complete"
      /\ timer' = NoTimer /\ Become(Timer, IdleRun)
  BY DEF Complete, MainKept, Quietly, Is, Return
<1>2. Timer \in Runners /\ Hosts \subseteq Runners /\ Timer \notin Hosts
  BY BreakoutAssumption DEF Runners
<1>3. OneStart' /\ (Undisturbed' => Undisturbed) /\ clashed' \in BOOLEAN
  BY <1>1, OneStartWatched DEF Undisturbed, BreakoutWork, BreakoutTypes, BreakoutTypeOK
<1>4. Shape(Timer, IdleRun)
  BY BreakoutRecords DEF Shape, Assigning
<1>5. MetaTypes' /\ BreakoutTypeOK' /\ Shapes'
  BY <1>1, <1>2, <1>3, <1>4, BreakoutRecords, Moved, MovedShapes
     DEF BreakoutWork, BreakoutTypes, BreakoutTypeOK, MetaTypes
<1>6. /\ run'[Timer] = IdleRun /\ \A x \in Runners \ {Timer} : run'[x] = run[x]
  BY <1>1, <1>2, BreakoutRecords, Moved DEF BreakoutWork, BreakoutTypes
<1>7. JobRuns'
  BY <1>1, <1>6, BreakoutRecords DEF JobRuns
<1>8. TimerFollows'
  <2> SUFFICES ASSUME Undisturbed', ~unwound'
               PROVE  TimerSettled' /\ \A h \in Hosts : ~Renewing(run'[h])
    BY DEF TimerFollows
  <2>1. \A h \in Hosts : run'[h] = run[h] /\ run[h].op # "start"
    BY <1>1, <1>2, <1>3, <1>6, NoStartBeside DEF Undisturbed
  <2>2. TimerSettled /\ \A h \in Hosts : ~Renewing(run[h])
    BY <1>1, <1>3, <2>1 DEF BreakoutWork, TimerFollows, Renewing
  <2>3. timer.st = "active"
    BY <1>1 DEF BreakoutWork, JobRuns
  <2> QED
    BY <1>1, <2>1, <2>2, <2>3, BreakoutRecords DEF TimerSettled, Live
<1>9. RunsKnow'
  <2>1. Knows(IdleRun, main)
    BY BreakoutRecords DEF Knows, Renewing, Closing, Assigning, Handing
  <2> QED
    BY <1>1, <1>2, <1>3, <2>1, BreakoutRecords, KnownBy
<1>10. RoomsFollow'
  <2>1. KeepsRooms(Timer, IdleRun)
    BY <1>1, BreakoutRecords DEF KeepsRooms, Renewed, WillClose, Closing, WillHand, Handing
  <2> QED
    BY <1>1, <1>2, <1>3, <2>1, BreakoutRecords, RoomsKeptBy
<1> QED
  BY <1>3, <1>5, <1>7, <1>8, <1>9, <1>10 DEF BreakoutWork, BreakoutTypes
(***************************************************************************)
(* An assignment.                                                          *)
(***************************************************************************)
LEMMA AssignWriteInv ==
    ASSUME BreakoutWork, NEW r \in Runners, ObserveClash, AssignWrite(r)
    PROVE  BreakoutWork'
<1> DEFINE s == run[r].at
<1> DEFINE new == [run[r].snap EXCEPT !.assigned[s] = NewAssigned(r)]
<1>1. /\ UNCHANGED <<setter, sub, timer>>
      /\ UNCHANGED <<faults, torn, unwound, started, dropped>>
      /\ main' = new
      /\ overtaken' = (overtaken \/ Clobbers(new, {"assigned"}) \/ RestoresLists(new, s))
  BY DEF AssignWrite, Quietly
<1>2. /\ run[r] \in Run /\ Shape(r, run[r]) /\ main \in Meta
      /\ run[r].op = "assign" /\ run[r].pc = "write" /\ r # Timer /\ s \in Subs
      /\ s \in DOMAIN run[r].snap.assigned /\ run[r].snap.assigned[s] # Free
  BY DEF BreakoutWork, BreakoutTypes, BreakoutTypeOK, MetaTypes, Shapes, AssignWrite, Is, Shape, Assigning
<1>3. PICK q \in Run : /\ Become(r, q) /\ q.op = "assign" /\ q.pc = "subRead" /\ q.at = s
                       /\ q.at \in DOMAIN q.snap.assigned /\ q.snap.assigned[q.at] # Free
                       /\ NewList(q) = NewAssigned(r)
  <2> DEFINE q == [run[r] EXCEPT !.pc = "subRead"]
  <2>1. /\ q \in Run /\ q.op = "assign" /\ q.pc = "subRead" /\ q.at = s
        /\ q.snap = run[r].snap /\ q.users = run[r].users
    BY <1>2 DEF Run, RunPc
  <2>2. Become(r, q)
    BY DEF AssignWrite, Goto, Become
  <2> HIDE DEF q
  <2> QED
    BY <1>2, <2>1, <2>2 DEF NewList, NewAssigned
<1>4. run[r].snap \in Meta /\ run[r].snap.assigned \in Lists
  BY <1>2, ListDomains DEF Run, Meta
<1>5. NewAssigned(r) \in SUBSET People /\ NewAssigned(r) # Free
  <2>1. run[r].snap.assigned[s] \in SUBSET People /\ run[r].users \in SUBSET People
    BY <1>2, <1>4, ListDomains DEF Run
  <2>2. NewAssigned(r) \in SUBSET People
    BY <2>1 DEF NewAssigned
  <2> QED
    BY <2>2, RoomMetadataAssumption
<1>6. /\ new \in Meta /\ s \in DOMAIN new.assigned /\ new.assigned[s] = NewAssigned(r)
      /\ "breakout" \in DOMAIN main \ {"assigned"} /\ "timed" \in DOMAIN main \ {"assigned"}
  <2> DEFINE list == [run[r].snap.assigned EXCEPT ![s] = NewAssigned(r)]
  <2>1. list \in Lists /\ list[s] = NewAssigned(r) /\ s \in DOMAIN list
    BY <1>2, <1>4, <1>5, ListDomains
  <2>2. new = [run[r].snap EXCEPT !.assigned = list]
    OBVIOUS
  <2> HIDE DEF list, new
  <2> QED
    BY <1>2, <1>4, <2>1, <2>2 DEF Meta
<1> HIDE DEF new, s
<1>7. /\ (overtaken => overtaken') /\ overtaken' \in BOOLEAN /\ main' \in Meta
      /\ main'.assigned[s] = NewAssigned(r)
      /\ ~overtaken' => /\ main'.breakout = main.breakout /\ main'.timed = main.timed
                        /\ DOMAIN main'.assigned = DOMAIN main.assigned
                        /\ s \in DOMAIN main.assigned
                        /\ \A x \in DOMAIN main.assigned \ {s} : main'.assigned[x] = main.assigned[x]
                        /\ main.assigned[s] = Free \/ main.assigned[s] \subseteq NewAssigned(r)
  <2>1. ~overtaken' => ~Clobbers(new, {"assigned"}) /\ ~RestoresLists(new, s)
    BY <1>1
  <2>2. ~Clobbers(new, {"assigned"}) =>
           new["breakout"] = main["breakout"] /\ new["timed"] = main["timed"]
    BY <1>6 DEF Clobbers
  <2>3. ~RestoresLists(new, s) =>
           /\ DOMAIN new.assigned = DOMAIN main.assigned /\ s \in DOMAIN main.assigned
           /\ \A x \in DOMAIN main.assigned \ {s} : new.assigned[x] = main.assigned[x]
           /\ main.assigned[s] = Free \/ main.assigned[s] \subseteq NewAssigned(r)
    BY <1>6 DEF RestoresLists, Drops
  <2> QED
    BY <1>1, <1>6, <2>1, <2>2, <2>3 DEF BreakoutWork, BreakoutTypes, MetaTypes
<1>8. OneStart' /\ (Undisturbed' => Undisturbed) /\ clashed' \in BOOLEAN
  BY <1>7, OneStartWatched DEF Undisturbed, BreakoutWork, BreakoutTypes, BreakoutTypeOK
<1>9. Shape(r, q)
  BY <1>2, <1>3 DEF Shape, Assigning
<1>10. MetaTypes' /\ BreakoutTypeOK' /\ Shapes'
  BY <1>1, <1>3, <1>7, <1>8, <1>9, Moved, MovedShapes
     DEF BreakoutWork, BreakoutTypes, BreakoutTypeOK, MetaTypes
<1>11. /\ run'[r] = q /\ \A x \in Runners \ {r} : run'[x] = run[x]
  BY <1>3, Moved DEF BreakoutWork, BreakoutTypes
<1>12. Undisturbed' => \A x \in Runners : run[x].op # "start"
  BY <1>2, <1>8, NoStartBeside DEF Undisturbed
<1>13. JobRuns' /\ TimerFollows'
  <2>1. Keeps(r, q)
    BY <1>2, <1>3 DEF Keeps, Renewing, WillEnd, Cleared
  <2> QED
    BY <1>1, <1>3, <1>7, <1>8, <2>1, TimerKeptBy DEF Undisturbed
<1>14. RunsKnow'
  <2>1. Knows(q, main')
    BY <1>3, <1>5, <1>7 DEF Knows, Renewing, Closing, Assigning, Handing
  <2>2. ASSUME Undisturbed', NEW x \in Runners \ {r}, Knows(run[x], main)
        PROVE  Knows(run[x], main')
    <3>1. /\ ~Renewing(run[x]) /\ main'.breakout = main.breakout
          /\ DOMAIN main'.assigned = DOMAIN main.assigned
      BY <1>7, <1>12, <2>2 DEF Renewing, Undisturbed
    <3>2. Assigning(run[x]) => run[x].at \in Subs
      BY DEF BreakoutWork, Shapes, Shape, Assigning
    <3>3. (Assigning(run[x]) /\ run[x].at \in DOMAIN main'.assigned)
             => main'.assigned[run[x].at] # Free
      BY <1>5, <1>7, <2>2, <3>1, <3>2 DEF Knows, Undisturbed
    <3>4. Handing(run[x]) => Assigning(run[x])
      BY DEF Handing, Assigning
    <3>5. (Handing(run[x]) /\ run[x].at \in DOMAIN main'.assigned)
             => NewList(run[x]) \subseteq main'.assigned[run[x].at]
      <4>1. CASE run[x].at = s
        BY <1>7, <2>2, <3>1, <3>4, <4>1 DEF Knows, Undisturbed
      <4>2. CASE run[x].at # s
        BY <1>7, <2>2, <3>1, <3>2, <3>4, <4>2 DEF Knows, Undisturbed
      <4> QED
        BY <4>1, <4>2
    <3> QED
      BY <2>2, <3>1, <3>3, <3>5 DEF Knows
  <2> QED
    BY <1>3, <1>8, <2>1, <2>2, KnownBy
<1>15. RoomsFollow'
  <2> SUFFICES ASSUME Undisturbed', ~torn', NEW x \in Subs, sub'[x].up
               PROVE  RoomFollows(x)'
    BY DEF RoomsFollow
  <2>1. Hosts \subseteq Runners
    BY DEF Runners
  <2>2. \A h \in Hosts : ~Renewed(run'[h], x)
    BY <1>3, <1>11, <1>12, <2>1 DEF Renewed
  <2>3. RoomSettled(x)
    BY <1>1, <1>8, <1>12, <2>1 DEF BreakoutWork, RoomsFollow, RoomFollows, Renewed
  <2>4. /\ main'.breakout = main.breakout /\ DOMAIN main'.assigned = DOMAIN main.assigned
        /\ (x \in DOMAIN main.assigned \ {s} => main'.assigned[x] = main.assigned[x])
    BY <1>7 DEF Undisturbed
  <2>5. \A y \in Runners : WillClose(run[y], x) => WillClose(run'[y], x)
    BY <1>2, <1>11 DEF WillClose, Closing
  <2>6. CASE x = s
    <3>1. WillHand(run[r], x)'
      BY <1>3, <1>7, <1>11, <2>6 DEF WillHand, Handing
    <3> QED
      BY <1>1, <2>2, <2>3, <2>4, <2>5, <3>1 DEF RoomFollows, RoomSettled
  <2>7. CASE x # s
    <3>1. \A y \in Runners : x \in DOMAIN main.assigned /\ WillHand(run[y], x)
                              => WillHand(run[y], x)'
      <4> SUFFICES ASSUME NEW y \in Runners, x \in DOMAIN main.assigned, WillHand(run[y], x)
                   PROVE  WillHand(run[y], x)'
        OBVIOUS
      <4>1. y # r /\ run'[y] = run[y]
        BY <1>2, <1>11 DEF WillHand, Handing
      <4> QED
        BY <2>4, <2>7, <4>1 DEF WillHand
    <3> QED
      BY <1>1, <2>2, <2>3, <2>4, <2>5, <2>7, <3>1 DEF RoomFollows, RoomSettled
  <2> QED
    BY <2>6, <2>7
<1> QED
  BY <1>8, <1>10, <1>13, <1>14, <1>15 DEF BreakoutWork, BreakoutTypes

LEMMA AssignSubWriteInv ==
    ASSUME BreakoutWork, NEW r \in Runners, ObserveClash, AssignSubWrite(r)
    PROVE  BreakoutWork'
<1> DEFINE s == run[r].at
<1> DEFINE new == [run[r].subSnap EXCEPT !.assigned = NewAssigned(r)]
<1>1. /\ UNCHANGED <<main, setter, timer>>
      /\ UNCHANGED <<faults, torn, unwound, started, dropped>>
      /\ Become(r, IdleRun)
      /\ IF sub[s].up
         THEN UpdateSubMetadata(s, new, IF Drops(sub[s].assigned, NewAssigned(r))
                                        THEN {} ELSE {"assigned"})
         ELSE UNCHANGED <<sub, overtaken>>
  BY DEF AssignSubWrite, Quietly, Return
<1>2. /\ run[r] \in Run /\ Shape(r, run[r]) /\ sub \in [Subs -> SubMeta]
      /\ run[r].op = "assign" /\ run[r].pc = "subWrite" /\ r # Timer /\ s \in Subs
      /\ s \in DOMAIN run[r].snap.assigned /\ run[r].snap.assigned[s] # Free
  BY DEF BreakoutWork, BreakoutTypes, BreakoutTypeOK, Shapes, AssignSubWrite, Is, Shape, Assigning
<1>3. NewAssigned(r) \in SUBSET People /\ NewList(run[r]) = NewAssigned(r)
  <2>1. run[r].snap.assigned \in Lists
    BY <1>2, ListDomains DEF Run, Meta
  <2>2. run[r].snap.assigned[s] \in SUBSET People /\ run[r].users \in SUBSET People
    BY <1>2, <2>1, ListDomains DEF Run
  <2> QED
    BY <2>2 DEF NewAssigned, NewList
<1>4. new \in SubMeta /\ new.assigned = NewAssigned(r)
  BY <1>2, <1>3 DEF Run, SubMeta
<1> HIDE DEF new, s
<1>5. /\ sub' \in [Subs -> SubMeta] /\ (overtaken => overtaken')
      /\ \A x \in Subs \ {s} : sub'[x] = sub[x]
      /\ (~overtaken' /\ sub[s].up) =>
            /\ sub'[s].status = sub[s].status /\ sub'[s].started = sub[s].started
            /\ sub'[s].assigned = NewAssigned(r)
            /\ sub[s].assigned = Free \/ sub[s].assigned \subseteq NewAssigned(r)
  <2>1. CASE ~sub[s].up
    BY <1>1, <1>2, <2>1 DEF BreakoutWork, BreakoutTypes, MetaTypes
  <2>2. CASE sub[s].up
    <3> DEFINE own == IF Drops(sub[s].assigned, NewAssigned(r)) THEN {} ELSE {"assigned"}
    <3>1. /\ sub' = [sub EXCEPT ![s] = new]
          /\ overtaken' = (overtaken \/ \E f \in DOMAIN new \ own : new[f] # sub[s][f])
      BY <1>1, <2>2 DEF UpdateSubMetadata
    <3>2. DOMAIN new = {"up", "status", "started", "assigned"}
      BY <1>4 DEF SubMeta
    <3>3. ~overtaken' => /\ new["status"] = sub[s]["status"] /\ new["started"] = sub[s]["started"]
                         /\ Drops(sub[s].assigned, NewAssigned(r)) =>
                              new["assigned"] = sub[s]["assigned"]
      BY <3>1, <3>2
    <3> HIDE DEF own
    <3>4. sub'[s] = new /\ sub' \in [Subs -> SubMeta] /\ \A x \in Subs \ {s} : sub'[x] = sub[x]
      BY <1>2, <1>4, <3>1
    <3>5. ~overtaken' => sub[s].assigned = Free \/ sub[s].assigned \subseteq NewAssigned(r)
      BY <1>4, <3>3 DEF Drops
    <3> QED
      BY <1>4, <3>1, <3>3, <3>4, <3>5 DEF BreakoutWork, BreakoutTypes, MetaTypes
  <2> QED
    BY <2>1, <2>2
<1>6. OneStart' /\ (Undisturbed' => Undisturbed) /\ clashed' \in BOOLEAN
  BY <1>5, OneStartWatched DEF Undisturbed, BreakoutWork, BreakoutTypes, BreakoutTypeOK
<1>7. Shape(r, IdleRun) /\ Keeps(r, IdleRun) /\ Knows(IdleRun, main)
  BY <1>2, BreakoutRecords
     DEF Shape, Assigning, Keeps, Renewing, WillEnd, Cleared, Knows, Closing, Handing
<1>8. MetaTypes' /\ BreakoutTypeOK' /\ Shapes'
  BY <1>1, <1>5, <1>6, <1>7, BreakoutRecords, Moved, MovedShapes
     DEF BreakoutWork, BreakoutTypes, BreakoutTypeOK, MetaTypes
<1>9. /\ run'[r] = IdleRun /\ \A x \in Runners \ {r} : run'[x] = run[x]
  BY <1>1, BreakoutRecords, Moved DEF BreakoutWork, BreakoutTypes
<1>10. Undisturbed' => \A x \in Runners : run[x].op # "start"
  BY <1>2, <1>6, NoStartBeside DEF Undisturbed
<1>11. JobRuns' /\ TimerFollows'
  BY <1>1, <1>6, <1>7, BreakoutRecords, TimerKeptBy
<1>12. RunsKnow'
  BY <1>1, <1>6, <1>7, BreakoutRecords, KnownBy
<1>13. RoomsFollow'
  <2> SUFFICES ASSUME Undisturbed', ~torn', NEW x \in Subs, sub'[x].up
               PROVE  RoomFollows(x)'
    BY DEF RoomsFollow
  <2>1. Hosts \subseteq Runners
    BY DEF Runners
  <2>2. \A h \in Hosts : ~Renewed(run'[h], x)
    BY <1>9, <1>10, <2>1, BreakoutRecords DEF Renewed
  <2>3. sub[x].up => RoomSettled(x)
    BY <1>1, <1>6, <1>10, <2>1 DEF BreakoutWork, RoomsFollow, RoomFollows, Renewed
  <2>4. \A y \in Runners : WillClose(run[y], x) => WillClose(run'[y], x)
    BY <1>2, <1>9 DEF WillClose, Closing
  <2>5. \A y \in Runners \ {r} : WillHand(run[y], x) => WillHand(run[y], x)'
    BY <1>1, <1>9 DEF WillHand
  <2>6. CASE x # s
    <3>1. sub'[x] = sub[x] /\ ~WillHand(run[r], x)
      BY <1>5, <2>6 DEF WillHand, s
    <3> QED
      BY <1>1, <2>2, <2>3, <2>4, <2>5, <3>1 DEF RoomFollows, RoomSettled
  <2>7. CASE x = s
    <3>1. sub[s].up
      BY <1>1, <2>7
    <3>2. /\ sub'[s].status = sub[s].status /\ sub'[s].started = sub[s].started
          /\ sub'[s].assigned = NewAssigned(r)
          /\ sub[s].assigned = Free \/ sub[s].assigned \subseteq NewAssigned(r)
      BY <1>5, <3>1 DEF Undisturbed
    <3>3. s \in DOMAIN main.assigned =>
             main.assigned[s] # Free /\ NewAssigned(r) \subseteq main.assigned[s]
      BY <1>2, <1>3, <1>6 DEF BreakoutWork, RunsKnow, Knows, Assigning, Handing, s
    <3>4. WillHand(run[r], s) => NewAssigned(r) = main.assigned[s]
      BY <1>3 DEF WillHand
    <3>5. (x \in DOMAIN main.assigned /\ sub[x].assigned = main.assigned[x])
             => sub'[x].assigned = main.assigned[x]
      <4> SUFFICES ASSUME s \in DOMAIN main.assigned, sub[s].assigned = main.assigned[s]
                   PROVE  NewAssigned(r) = main.assigned[s]
        BY <2>7, <3>2
      <4>1. NewAssigned(r) \subseteq main.assigned[s]
        BY <3>3
      <4>2. main.assigned[s] \subseteq NewAssigned(r)
        BY <3>2, <3>3
      <4> QED
        BY <4>1, <4>2
    <3>6. WillHand(run[r], x) => sub'[x].assigned = main.assigned[x]
      BY <2>7, <3>2, <3>4
    <3>7. sub'[x].status = sub[x].status /\ sub'[x].started = sub[x].started
      BY <2>7, <3>2
    <3>8. RoomSettled(x)
      BY <2>3, <2>7, <3>1
    <3>9. CASE x \notin DOMAIN main.assigned
      BY <1>1, <2>2, <2>4, <3>7, <3>8, <3>9 DEF RoomFollows, RoomSettled
    <3>10. CASE x \in DOMAIN main.assigned
      BY <1>1, <2>2, <2>5, <3>5, <3>6, <3>7, <3>8, <3>10 DEF RoomFollows, RoomSettled
    <3> QED
      BY <3>9, <3>10
  <2> QED
    BY <2>6, <2>7
<1> QED
  BY <1>6, <1>8, <1>11, <1>12, <1>13 DEF BreakoutWork, BreakoutTypes

(***************************************************************************)
(* What goes on around them.                                               *)
(***************************************************************************)
(* Nobody here does anything: at most a sub room goes, or the rest of the  *)
(* metadata changes.                                                       *)
LEMMA StillInv ==
    ASSUME BreakoutWork, MetaTypes', OneStart', clashed' \in BOOLEAN,
           UNCHANGED <<run, timer, torn, unwound, started, dropped>>,
           sub' \in [Subs -> SubMeta], \A s \in Subs : sub'[s].up => sub'[s] = sub[s],
           Undisturbed' => /\ Undisturbed /\ main'.breakout = main.breakout
                           /\ main'.timed = main.timed /\ main'.assigned = main.assigned
    PROVE  BreakoutWork'
<1>1. BreakoutTypeOK' /\ Shapes' /\ JobRuns'
  BY DEF BreakoutWork, BreakoutTypes, BreakoutTypeOK, Shapes, JobRuns
<1>2. TimerFollows'
  <2> SUFFICES ASSUME Undisturbed', ~unwound'
               PROVE  /\ \A h \in Hosts : Renewing(run[h]) => TimerRenewed(run[h])'
                      /\ (\A h \in Hosts : ~Renewing(run[h])) => TimerSettled'
    BY DEF TimerFollows
  <2>1. /\ \A h \in Hosts : Renewing(run[h]) => TimerRenewed(run[h])
        /\ (\A h \in Hosts : ~Renewing(run[h])) => TimerSettled
    BY DEF BreakoutWork, TimerFollows
  <2>2. \A h \in Hosts : TimerRenewed(run[h]) => TimerRenewed(run[h])'
    BY DEF TimerRenewed
  <2>3. TimerSettled => TimerSettled'
    BY DEF TimerSettled, Live
  <2> QED
    BY <2>1, <2>2, <2>3
<1>3. RunsKnow'
  BY DEF BreakoutWork, RunsKnow, Knows
<1>4. RoomsFollow'
  <2> SUFFICES ASSUME Undisturbed', ~torn', NEW s \in Subs, sub'[s].up
               PROVE  RoomFollows(s)'
    BY DEF RoomsFollow
  <2>1. RoomFollows(s) /\ sub'[s] = sub[s]
    BY DEF BreakoutWork, RoomsFollow
  <2>2. \A h \in Hosts : Fresh(run[h], s) => Fresh(run[h], s)'
    BY <2>1 DEF Fresh
  <2>3. \A y \in Runners : WillHand(run[y], s) => WillHand(run[y], s)'
    BY DEF WillHand
  <2>4. RoomSettled(s) => RoomSettled(s)'
    BY <2>1, <2>3 DEF RoomSettled
  <2> QED
    BY <2>1, <2>2, <2>4 DEF RoomFollows
<1> QED
  BY <1>1, <1>2, <1>3, <1>4 DEF BreakoutWork, BreakoutTypes

LEMMA SubRoomExpiresInv ==
    ASSUME BreakoutWork, ObserveClash, NEW s \in Subs, SubRoomExpires(s)
    PROVE  BreakoutWork'
<1>1. /\ UNCHANGED <<main, setter, overtaken, faults>>
      /\ UNCHANGED <<run, timer, torn, unwound, started, dropped>>
      /\ sub' = [sub EXCEPT ![s] = NoSubRoom]
  BY DEF SubRoomExpires, MainKept, Quietly
<1>2. /\ sub' \in [Subs -> SubMeta]
      /\ \A x \in Subs : sub'[x].up => sub'[x] = sub[x]
  BY <1>1, BreakoutRecords DEF BreakoutWork, BreakoutTypes, BreakoutTypeOK
<1>3. OneStart' /\ (Undisturbed' => Undisturbed) /\ clashed' \in BOOLEAN
  BY <1>1, OneStartWatched DEF Undisturbed, BreakoutWork, BreakoutTypes, BreakoutTypeOK
<1>4. MetaTypes'
  BY <1>1 DEF BreakoutWork, BreakoutTypes, MetaTypes
<1> QED
  BY <1>1, <1>2, <1>3, <1>4, StillInv

(* The server dies: whoever was at work has forgotten it. *)
LEMMA ServerCrashInv ==
    ASSUME BreakoutWork, ObserveClash, ServerCrash
    PROVE  BreakoutWork'
<1>1. /\ UNCHANGED <<main, overtaken, sub, started, dropped>>
      /\ run' = [r \in Runners |-> IdleRun]
      /\ setter' = [r \in Setters |-> IdleSetter] /\ Fault
      /\ timer' = CASE timer.st = "active" /\ ~timer.stalled ->
                         [timer EXCEPT !.st = "delayed", !.stalled = TRUE]
                    [] timer.st = "active" /\ timer.stalled -> NoTimer
                    [] OTHER -> timer
      /\ torn' = (torn \/ \E r \in Runners : run[r].op # "none")
      /\ unwound' = \/ unwound
                    \/ timer.st = "active" /\ timer.stalled
                    \/ \E r \in Hosts : Unwinds(run[r])
  BY DEF ServerCrash, MainKept
<1>2. timer \in TimerJob /\ Timer \in Runners /\ Hosts \subseteq Runners
  BY DEF BreakoutWork, BreakoutTypes, BreakoutTypeOK, Runners
<1>3. /\ timer' \in TimerJob /\ timer'.st # "active"
      /\ timer.st = "active" => \/ timer.stalled /\ timer' = NoTimer
                                \/ /\ timer'.st = "delayed" /\ timer'.stalled
                                   /\ timer'.started = timer.started
      /\ timer.st # "active" => timer' = timer
  BY <1>1, <1>2, BreakoutRecords DEF TimerJob
<1>4. \A r \in Runners : run'[r] = IdleRun
  BY <1>1
<1>5. OneStart' /\ (Undisturbed' => Undisturbed) /\ clashed' \in BOOLEAN
  BY <1>1, OneStartWatched DEF Undisturbed, BreakoutWork, BreakoutTypes, BreakoutTypeOK
<1>6. MetaTypes'
  BY <1>1, BreakoutRecords DEF BreakoutWork, BreakoutTypes, MetaTypes, Fault
<1>7. BreakoutTypeOK'
  BY <1>1, <1>3, <1>5, BreakoutRecords DEF BreakoutWork, BreakoutTypes, BreakoutTypeOK
<1>8. Shapes' /\ RunsKnow'
  BY <1>4, BreakoutRecords
     DEF Shapes, Shape, Assigning, RunsKnow, Knows, Renewing, Closing, Handing
<1>9. JobRuns'
  BY <1>2, <1>3, <1>4, BreakoutRecords DEF JobRuns
<1>10. TimerFollows'
  <2> SUFFICES ASSUME Undisturbed', ~unwound'
               PROVE  TimerSettled' /\ \A h \in Hosts : ~Renewing(run'[h])
    BY DEF TimerFollows
  <2>1. \A h \in Hosts : ~Renewing(run[h]) /\ ~WillEnd(run[h])
    BY <1>1 DEF Unwinds, Renewing, WillEnd
  <2>2. TimerSettled
    BY <1>1, <1>5, <2>1 DEF BreakoutWork, TimerFollows
  <2>3. \A h \in Hosts : ~Renewing(run'[h]) /\ ~Cleared(run'[h])
    BY <1>2, <1>4, BreakoutRecords DEF Renewing, Cleared
  <2>4. \A h \in Hosts : ~WillEnd(run[h])
    BY <2>1
  <2>5. timer.st = "active" => timer'.st = "delayed" /\ timer'.stalled
                               /\ timer'.started = timer.started
    BY <1>1, <1>3
  <2>6. TimerSettled'
    BY <1>1, <1>3, <2>2, <2>3, <2>4, <2>5 DEF TimerSettled, Live
  <2> QED
    BY <2>3, <2>6
<1>11. RoomsFollow'
  <2> SUFFICES ASSUME Undisturbed', ~torn', NEW s \in Subs, sub'[s].up
               PROVE  RoomFollows(s)'
    BY DEF RoomsFollow
  <2>1. \A r \in Runners : run'[r] = run[r]
    BY <1>1, <1>4 DEF BreakoutWork, Shapes, Shape
  <2>2. RoomFollows(s)
    BY <1>1, <1>5 DEF BreakoutWork, RoomsFollow
  <2>3. \A h \in Hosts : Fresh(run[h], s) => Fresh(run[h], s)'
    BY <1>1, <1>2, <2>1 DEF Fresh
  <2>4. \A y \in Runners : WillHand(run[y], s) => WillHand(run[y], s)'
    BY <1>1, <2>1 DEF WillHand
  <2>5. RoomSettled(s) => RoomSettled(s)'
    BY <1>1, <2>1, <2>4 DEF RoomSettled
  <2> QED
    BY <1>2, <2>1, <2>2, <2>3, <2>5 DEF RoomFollows
<1> QED
  BY <1>5, <1>6, <1>7, <1>8, <1>9, <1>10, <1>11 DEF BreakoutWork, BreakoutTypes

(* A write by another operation keeps the session, or restores an old one, *)
(* which is recorded.                                                      *)
SessionLeft ==
    ~overtaken' => /\ ~overtaken /\ main'.breakout = main.breakout
                   /\ main'.timed = main.timed /\ main'.assigned = main.assigned

LEMMA WriteLeavesSession ==
    ASSUME NEW new, NEW own, UpdateRoomMetadata(new, own), main \in Meta,
           own \cap {"breakout", "timed", "assigned"} = {}
    PROVE  SessionLeft
<1>1. main' = new /\ overtaken' = (overtaken \/ Clobbers(new, own))
  BY DEF UpdateRoomMetadata
<1>2. {"breakout", "timed", "assigned"} \subseteq DOMAIN main \ own
  BY DEF Meta
<1>3. ~Clobbers(new, own) => /\ new["breakout"] = main["breakout"]
                             /\ new["timed"] = main["timed"]
                             /\ new["assigned"] = main["assigned"]
  BY <1>2 DEF Clobbers
<1> QED
  BY <1>1, <1>3 DEF SessionLeft

LEMMA SettingLeavesSession ==
    ASSUME NEW busy, SettingStep(busy), main \in Meta
    PROVE  SessionLeft
<1>1. ASSUME NEW r \in Setters, SettingWrite(r)
      PROVE  SessionLeft
  <2>1. PICK b \in BOOLEAN :
           UpdateRoomMetadata([setter[r].snap EXCEPT !.setting = b], {"setting"})
    BY <1>1 DEF SettingWrite
  <2> DEFINE new == [setter[r].snap EXCEPT !.setting = b]
  <2> HIDE DEF new
  <2>2. UpdateRoomMetadata(new, {"setting"})
    BY <2>1 DEF new
  <2> QED
    BY <2>2, WriteLeavesSession
<1>2. ASSUME NEW r \in Setters, SettingReceive(r, busy) \/ SettingList(r) \/ SettingFails(r)
      PROVE  SessionLeft
  BY <1>2 DEF SettingReceive, SettingList, SettingFails, SessionLeft
<1> QED
  BY <1>1, <1>2 DEF SettingStep

LEMMA RecordingLeavesSession ==
    ASSUME RecordingInv, topic = "recording", RecordingStep
    PROVE  SessionLeft
<1>1. CountInv /\ main \in Meta
  BY DEF RecordingInv, CountInv, RecTypes, MetaTypes
<1>2. UNCHANGED <<main, overtaken>> => SessionLeft
  BY DEF SessionLeft
<1>3. ASSUME NEW c \in Callers, CallStep(c)
      PROVE  SessionLeft
  <2>1. CASE StartMark(c)
    <3> DEFINE new == [rec[c].snap EXCEPT !.recorder = rec[c].who]
    <3>1. UpdateRoomMetadata(new, {"recorder"})
      BY <2>1 DEF StartMark
    <3> HIDE DEF new
    <3> QED
      BY <1>1, <3>1, WriteLeavesSession
  <2>2. CASE StopClear(c)
    <3> DEFINE new == [rec[c].snap EXCEPT !.recorder = NoOne]
    <3>1. UpdateRoomMetadata(new, {"recorder"})
      BY <2>2 DEF StopClear
    <3> HIDE DEF new
    <3> QED
      BY <1>1, <3>1, WriteLeavesSession
  <2>3. ~StartMark(c) /\ ~StopClear(c) => UNCHANGED <<main, overtaken>>
    BY <1>1, <1>3, CallEffect
       DEF Thinks, Records, Marks, Clears, Queues, Stops, MetaKept
  <2> QED
    BY <1>2, <2>1, <2>2, <2>3
<1>4. ASSUME NEW w \in Posters, PostStep(w)
      PROVE  SessionLeft
  BY <1>1, <1>2, <1>4, PostEffect
<1>5. ASSUME \/ \E p \in People : Leave(p) \/ LeaveFails(p)
             \/ ShareScreen \/ UnshareScreen
      PROVE  SessionLeft
  BY <1>2, <1>5 DEF Leave, LeaveFails, ShareScreen, UnshareScreen, MetaKept
<1> QED
  BY <1>3, <1>4, <1>5 DEF RecordingStep

LEMMA AdmissionLeavesSession ==
    ASSUME AdmissionInv, topic = "admission", AdmissionStep
    PROVE  SessionLeft
<1>1. ASSUME NEW r \in Admins, ToggleWrite(r)
      PROVE  SessionLeft
  <2> DEFINE new == [adm[r].snap EXCEPT !.waitingRoom = adm[r].on]
  <2>1. UpdateRoomMetadata(new, {"waitingRoom"})
    BY <1>1 DEF ToggleWrite
  <2>2. main \in Meta
    BY DEF AdmissionInv, MetaTypes
  <2> HIDE DEF new
  <2> QED
    BY <2>1, <2>2, WriteLeavesSession
<1>2. Elsewhere => SessionLeft
  BY DEF Elsewhere, SessionLeft
<1>3. ASSUME NEW p \in Guests, IssueToken(p) \/ Connect(p) \/ Disconnect(p)
      PROVE  SessionLeft
  BY <1>2, <1>3 DEF IssueToken, Connect, Disconnect
<1>4. ASSUME NEW r \in Admins,
             \/ \E on \in BOOLEAN : ToggleReceive(r, on)
             \/ ToggleList(r) \/ ListWaiting(r) \/ ApproveReceive(r) \/ RequestFails(r)
      PROVE  SessionLeft
  BY <1>2, <1>4 DEF ToggleReceive, ToggleList, ListWaiting, ApproveReceive, RequestFails
<1>5. ASSUME NEW r \in Admins, NEW p \in Guests,
             \/ Admit(r, p) \/ RevokeGet(r, p) \/ RoleGet(r, p) \/ ShareList(r, p)
             \/ ShareGrant(r, p) \/ RevokeWrite(r, p) \/ RoleWrite(r, p)
      PROVE  SessionLeft
  BY <1>2, <1>5 DEF Admit, RevokeGet, RoleGet, ShareList, ShareGrant, RevokeWrite, RoleWrite,
     SetSources
<1> QED
  BY <1>1, <1>3, <1>4, <1>5 DEF AdmissionStep

(* Where breakout rooms are not at work there is no session. *)
LEMMA BreakoutsElsewhere ==
    ASSUME BreakoutInv, topic # "breakout", topic' = topic, UNCHANGED breakoutVars, SessionLeft
    PROVE  BreakoutInv'
<1>1. BreakoutInit'
  BY DEF BreakoutInv, BreakoutInit, breakoutVars
<1> QED
  BY <1>1 DEF BreakoutInv, SessionLeft

(***************************************************************************)
(* All steps.                                                              *)
(***************************************************************************)
LEMMA ServeInv ==
    ASSUME BreakoutWork, NEW r \in Runners, ObserveClash, Serve(r)
    PROVE  BreakoutWork'
<1>1. ASSUME StartList(r) \/ EndList(r) \/ AssignList(r)
      PROVE  BreakoutWork'
  BY <1>1, ListInv
<1>2. ASSUME StartWrite(r) \/ StartClear(r) \/ AddJob(r)
      PROVE  BreakoutWork'
  BY <1>2, StartWriteInv, RenewInv DEF StartClear, Is
<1>3. ASSUME EndClear(r) \/ EndWrite(r) \/ CloseWrite(r) \/ CloseGone(r)
      PROVE  BreakoutWork'
  BY <1>3, EndClearInv, EndWriteInv, CloseWriteInv, CloseReadInv DEF EndClear, Is
<1>4. ASSUME AssignWrite(r) \/ AssignSubRead(r) \/ AssignSubWrite(r)
      PROVE  BreakoutWork'
  BY <1>4, AssignWriteInv, AssignSubReadInv, AssignSubWriteInv
<1>5. ASSUME \E s \in Subs : UpsertSub(r, s) \/ CloseRead(r, s)
      PROVE  BreakoutWork'
  BY <1>5, UpsertSubInv, CloseReadInv
<1> QED
  BY <1>1, <1>2, <1>3, <1>4, <1>5 DEF Serve

LEMMA BreakoutStepInv ==
    ASSUME BreakoutWork, BreakoutStep
    PROVE  BreakoutWork'
<1> USE DEF BreakoutStep
<1>1. Timer \in Runners /\ Hosts \subseteq Runners
  BY DEF Runners
<1>2. CASE HostAsks
  <2>1. PICK r \in Hosts :
           \/ \E b \in BOOLEAN, l \in Plans : StartReceive(r, b, l)
           \/ EndReceive(r)
           \/ \E s \in Subs, us \in SUBSET People : AssignReceive(r, s, us)
    BY <1>2 DEF HostAsks
  <2> QED
    BY <2>1, ReceiveInv
<1>3. ASSUME NEW r \in Hosts, Serve(r)
      PROVE  BreakoutWork'
  BY <1>1, <1>3, ServeInv
<1>4. CASE RunTimer
  BY <1>1, <1>4, AutoTakeInv, ListInv, CompleteInv, ServeInv DEF RunTimer
<1>5. ASSUME NEW s \in Subs, SubRoomExpires(s)
      PROVE  BreakoutWork'
  BY <1>5, SubRoomExpiresInv
<1>6. CASE BreakoutFault
  <2>1. ASSUME NEW r \in Runners, ClearFails(r)
        PROVE  BreakoutWork'
    <3>1. run[r].op \in {"start", "end"}
      BY <2>1, TimerCleared
    <3> QED
      BY <2>1, <3>1, RenewInv, EndClearInv
  <2> QED
    BY <1>1, <1>6, <2>1, FailsInv, ServerCrashInv DEF BreakoutFault
<1> QED
  BY <1>2, <1>3, <1>4, <1>5, <1>6

LEMMA BreakoutNextInv ==
    ASSUME AdmissionInv, RecordingInv, BreakoutInv, [Next]_vars
    PROVE  BreakoutInv'
<1>1. CASE Break(BreakoutStep)
  BY <1>1, BreakoutStepInv DEF Break, BreakoutInv
<1>2. CASE Record
  <2>1. topic = "recording" /\ topic' = topic /\ UNCHANGED breakoutVars /\ SessionLeft
    BY <1>2, RecordingLeavesSession DEF Record
  <2> QED
    BY <2>1, BreakoutsElsewhere
<1>3. CASE Govern
  <2>1. topic = "admission" /\ topic' = topic /\ UNCHANGED breakoutVars /\ SessionLeft
    BY <1>3, AdmissionLeavesSession DEF Govern
  <2> QED
    BY <2>1, BreakoutsElsewhere
<1>4. main \in Meta
  <2>1. topic \in {"breakout", "recording", "admission"}
    BY TopicsAssumption DEF RecordingInv
  <2> QED
    BY <2>1 DEF BreakoutInv, BreakoutWork, BreakoutTypes, MetaTypes, RecordingInv, CountInv,
       RecTypes, AdmissionInv
<1>5. ASSUME SessionLeft, topic' = topic, UNCHANGED breakoutVars,
             topic = "breakout" => MetaTypes'
      PROVE  BreakoutInv'
  <2>1. CASE topic = "breakout"
    <3>1. UNCHANGED <<run, timer, torn, unwound, started, clashed, sub, dropped>>
      BY <1>5 DEF breakoutVars
    <3>2. BreakoutWork
      BY <2>1 DEF BreakoutInv
    <3>3. OneStart' /\ clashed' \in BOOLEAN /\ sub' \in [Subs -> SubMeta]
      BY <3>1, <3>2 DEF BreakoutWork, BreakoutTypes, BreakoutTypeOK, OneStart
    <3>4. BreakoutWork'
      BY <1>5, <2>1, <3>1, <3>2, <3>3, StillInv DEF SessionLeft, Undisturbed
    <3> QED
      BY <1>5, <2>1, <3>4 DEF BreakoutInv
  <2>2. CASE topic # "breakout"
    BY <1>5, <2>2, BreakoutsElsewhere
  <2> QED
    BY <2>1, <2>2
<1>6. CASE Set
  <2>1. PICK busy : SettingStep(busy)
    BY <1>6 DEF Set
  <2>2. topic = "breakout" => MetaTypes'
    BY <2>1, SettingKeepsTypes DEF BreakoutInv, BreakoutWork, BreakoutTypes
  <2> QED
    BY <1>4, <1>5, <1>6, <2>1, <2>2, SettingLeavesSession DEF Set
<1>7. CASE UNCHANGED vars
  <2>1. UNCHANGED <<main, setter, faults, overtaken, topic>> /\ UNCHANGED breakoutVars
    BY <1>7 DEF vars, metaVars
  <2>2. SessionLeft /\ (topic = "breakout" => MetaTypes')
    BY <2>1 DEF SessionLeft, BreakoutInv, BreakoutWork, BreakoutTypes, MetaTypes
  <2> QED
    BY <1>5, <2>1, <2>2
<1> QED
  BY <1>1, <1>2, <1>3, <1>6, <1>7 DEF Next, Rest

(***************************************************************************)
(* Theorems.                                                               *)
(***************************************************************************)
(* The invariant of the breakout sessions: whose the timer is, what each   *)
(* operation under way knows of the session, and what will still be done   *)
(* to each sub room (BreakoutRoomsService, MeetingWorkerProcessor).        *)
THEOREM BreakoutInvariantHolds == Spec => []BreakoutInv
<1>1. Init => AdmissionInv /\ RecordingInv /\ BreakoutInv
  BY AdmissionInitInv, RecordingInitInv, BreakoutInitInv
<1>2. AdmissionInv /\ RecordingInv /\ BreakoutInv /\ [Next]_vars
         => (AdmissionInv /\ RecordingInv /\ BreakoutInv)'
  BY AdmissionNextInv, RecordingNextInv, BreakoutNextInv
<1> QED
  BY <1>1, <1>2, PTL DEF Spec

(* At rest nobody does anything, in any topic. *)
LEMMA RestingRuns ==
    ASSUME BreakoutInv, AtRest, MetaTypes
    PROVE  (~overtaken => BreakoutWork) /\ \A r \in Runners : run[r] = IdleRun
<1>1. CASE topic = "breakout"
  BY <1>1 DEF BreakoutInv, BreakoutWork, Shapes, Shape, AtRest
<1>2. CASE topic # "breakout"
  BY <1>2, NoSession DEF BreakoutInv, BreakoutInit
<1> QED
  BY <1>1, <1>2

(* A session with a duration has its timer in the queue, one without has   *)
(* none, whatever starts, ends and crashes came before                     *)
(* (startBreakoutSession, clearBreakoutJob).                               *)
THEOREM TimerKeptAlways == Spec => []TimerKept
<1>1. AdmissionInv /\ RecordingInv /\ BreakoutInv => TimerKept
  <2> SUFFICES ASSUME AdmissionInv, RecordingInv, BreakoutInv, AtRest, Undisturbed, ~unwound
               PROVE  IF main.breakout # NoBreakout /\ main.timed
                      THEN timer.st = "delayed" /\ timer.started = main.breakout
                      ELSE timer.st = "none" \/ timer.stalled
    BY DEF TimerKept
  <2>1. topic \in {"breakout", "recording", "admission"}
    BY TopicsAssumption DEF RecordingInv
  <2>2. MetaTypes
    BY <2>1 DEF BreakoutInv, BreakoutWork, BreakoutTypes, RecordingInv, CountInv, RecTypes, AdmissionInv
  <2>3. BreakoutWork /\ \A r \in Runners : run[r] = IdleRun
    BY <2>2, RestingRuns DEF Undisturbed
  <2>4. Timer \in Runners /\ Hosts \subseteq Runners
    BY DEF Runners
  <2>5. TimerSettled
    BY <2>3, <2>4, BreakoutRecords DEF BreakoutWork, TimerFollows, Renewing
  <2>6. timer.st \in {"none", "delayed"}
    BY <2>3, <2>4, BreakoutRecords
       DEF BreakoutWork, BreakoutTypes, BreakoutTypeOK, TimerJob, JobRuns
  <2> QED
    BY <2>3, <2>4, <2>5, <2>6, BreakoutRecords DEF TimerSettled, Live, WillEnd
<1> QED
  BY <1>1, AdmissionInvariantHolds, RecordingInvariantHolds, BreakoutInvariantHolds, PTL

(* When nothing is being done every sub room that is up says what the main *)
(* room says (upsertBreakoutRoom, closeBreakoutRoom,                       *)
(* assignUsersToBreakout).                                                 *)
THEOREM SubRoomsAgreeAlways == Spec => []SubRoomsAgree
<1>1. AdmissionInv /\ RecordingInv /\ BreakoutInv => SubRoomsAgree
  <2> SUFFICES ASSUME AdmissionInv, RecordingInv, BreakoutInv, AtRest, Undisturbed, ~torn,
                      NEW s \in Subs, sub[s].up
               PROVE  IF s \in DOMAIN main.assigned
                      THEN /\ sub[s].status = "active"
                           /\ sub[s].started = main.breakout
                           /\ sub[s].assigned = main.assigned[s]
                      ELSE sub[s].status = "closing" \/ s \in dropped
    BY DEF SubRoomsAgree
  <2>1. topic \in {"breakout", "recording", "admission"}
    BY TopicsAssumption DEF RecordingInv
  <2>2. MetaTypes
    BY <2>1 DEF BreakoutInv, BreakoutWork, BreakoutTypes, RecordingInv, CountInv, RecTypes, AdmissionInv
  <2>3. BreakoutWork /\ \A r \in Runners : run[r] = IdleRun
    BY <2>2, RestingRuns DEF Undisturbed
  <2>4. Hosts \subseteq Runners
    BY DEF Runners
  <2>5. RoomSettled(s)
    BY <2>3, <2>4, BreakoutRecords DEF BreakoutWork, RoomsFollow, RoomFollows, Renewed
  <2> QED
    BY <2>3, <2>5, BreakoutRecords DEF RoomSettled, WillClose, Closing, WillHand, Handing
<1> QED
  BY <1>1, AdmissionInvariantHolds, RecordingInvariantHolds, BreakoutInvariantHolds, PTL

(* The timer of one session ends no other (handleAutoEndBreakout).         *)
THEOREM AutoEndsOwnSessionAlways == Spec => AutoEndsOwnSession
<1>1. ASSUME BreakoutInv, [Next]_vars
      PROVE  [TimerEndsSession /\ Undisturbed' => main.breakout = run[Timer].n]_<<main, run>>
  <2> SUFFICES ASSUME TimerEndsSession, Undisturbed'
               PROVE  main.breakout = run[Timer].n
    OBVIOUS
  <2>1. Timer \in Runners /\ run[Timer].op # "none" /\ run[Timer].op \in {"end", "auto"}
        /\ run[Timer].pc = "write" /\ main.breakout # NoBreakout
    BY DEF Runners, TimerEndsSession, EndWrite
  <2>2. topic = "breakout"
    BY <1>1, <2>1, BreakoutRecords DEF BreakoutInv, BreakoutInit
  <2>3. BreakoutWork
    BY <1>1, <2>2 DEF BreakoutInv
  <2>4. run[Timer].op = "auto"
    BY <2>1, <2>3 DEF BreakoutWork, Shapes, Shape
  <2>5. Undisturbed
    <3>1. overtaken => overtaken'
      BY DEF TimerEndsSession, EndWrite, UpdateRoomMetadata
    <3>2. CASE Break(BreakoutStep)
      BY <3>1, <3>2, OneStartWatched DEF Break, BreakoutStep, Undisturbed
    <3>3. CASE ~Break(BreakoutStep)
      <4>1. clashed' = clashed
        BY <1>1, <2>2, <3>3 DEF Next, Record, Govern, Set, Rest, breakoutVars, vars
      <4> QED
        BY <3>1, <4>1 DEF Undisturbed
    <3> QED
      BY <3>2, <3>3
  <2> QED
    BY <2>1, <2>3, <2>4, <2>5 DEF BreakoutWork, RunsKnow, Knows
<1> QED
  BY <1>1, BreakoutInvariantHolds, PTL DEF Spec, AutoEndsOwnSession

(* All the variables keep their types, in every behaviour: the metadata of *)
(* the room in particular, which requests about breakout rooms, recordings *)
(* and admission all rewrite from copies they have read.                   *)
THEOREM ControlTypeCorrect == Spec => []TypeOK
<1>1. ASSUME AdmissionInv, RecordingInv, BreakoutInv, Bounds, CrewInv
      PROVE  TypeOK
  <2>1. topic \in {"breakout", "recording", "admission"}
    BY <1>1, TopicsAssumption DEF RecordingInv
  <2>2. MetaTypes
    BY <1>1, <2>1 DEF BreakoutInv, BreakoutWork, BreakoutTypes, RecordingInv, CountInv, RecTypes,
       AdmissionInv
  <2>3. MetaTypeOK
    BY <1>1, <2>2 DEF MetaTypeOK, MetaTypes, Bounds
  <2>4. BreakoutTypeOK
    <3>1. CASE topic = "breakout"
      BY <1>1, <3>1 DEF BreakoutInv, BreakoutWork, BreakoutTypes
    <3>2. CASE topic # "breakout"
      <4>1. BreakoutInit
        BY <1>1, <3>2 DEF BreakoutInv
      <4> QED
        BY <4>1, IdleBreakoutTypes
    <3> QED
      BY <3>1, <3>2
  <2>5. RecordingTypeOK
    BY <1>1 DEF RecordingTypeOK, RecordingInv, CountInv, RecTypes, CrewInv, FlagTypes
  <2>6. AdmissionTypeOK
    BY <1>1 DEF AdmissionInv
  <2> QED
    BY <2>3, <2>4, <2>5, <2>6 DEF TypeOK
<1> QED
  BY <1>1, AdmissionInvariantHolds, RecordingInvariantHolds, BreakoutInvariantHolds,
     CrewInvariantHolds, PTL
==============================================================================
