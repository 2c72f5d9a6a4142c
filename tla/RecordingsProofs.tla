--------------------------- MODULE RecordingsProofs ---------------------------
(***************************************************************************)
(* Proofs about the recordings of a running meeting, for any numbers of    *)
(* people, requests served at once and workers for the videos.             *)
(***************************************************************************)
EXTENDS AdmissionProofs

(***************************************************************************)
(* The inductive invariant.                                                *)
(***************************************************************************)
Active == TakesOf("active")

(* What a request is about, read off its record: a start whose egress has  *)
(* begun, a stop that will clear the flag, one that will queue the job.    *)
Begun(q) == q.op = "start" /\ q.pc \in {"tracks", "screen", "mark"}
Clearing(q) == q.op = "stop" /\ q.pc = "clear" /\ q.seen # {}
Publishing(q) == Clearing(q) \/ (q.op = "stop" /\ q.pc = "queue")

RecTypes ==
    /\ take \in [Takes -> TakeStatus]
    /\ rec \in [Callers -> Call]
    /\ post \in [Posters -> Post]
    /\ jobs \in Nat
    /\ \A c \in Callers : rec[c].op = "start" => rec[c].who \in People
    /\ topic = "recording" => MetaTypes

(* A start is served alone; until it begins its egress there is none.      *)
StartsAlone ==
    ~crossed => \A a, b \in Callers :
        rec[a].op = "start" /\ rec[b].op # "none" => a = b
AudioFree ==
    ~crossed => \A c \in Callers : At(c, "start", "audio") => Active = {}
OneActive == ~crossed => \A s, t \in Active : s = t

(* What a worker has taken for its video was stopped.                      *)
FilesStopped ==
    \A w \in Posters : post[w].pc # "idle" =>
        post[w].last \in Takes /\ take[post[w].last] \in {"raw", "published", "lost"}

CountInv == RecTypes /\ StartsAlone /\ AudioFree /\ OneActive /\ FilesStopped

(* An egress without a flag is about to be marked, a flag without an egress *)
(* about to be cleared.                                                     *)
Calm == ~crossed /\ ~unmarked /\ ~cut /\ ~overtaken
MarkExpected ==
    Active # {} => main.recorder # NoOne \/ \E c \in Callers : Begun(rec[c])
ClearExpected ==
    main.recorder # NoOne => Active # {} \/ \E c \in Callers : Clearing(rec[c])

(* What a request knows: a start that it has an egress, a stop that found  *)
(* no flag that there is none, one that clears the flag or is about to     *)
(* stop egresses which ones are left.                                      *)
RequestKnows(q, active, recorder) ==
    /\ Begun(q) => active # {}
    /\ (q.op = "stop" /\ q.pc \in {"egress", "stop", "clear", "queue"}
        /\ q.snap.recorder = NoOne) => recorder = NoOne
    /\ (q.op = "stop" /\ q.pc = "clear") => active = {}
    /\ (q.op = "stop" /\ q.pc = "stop") => active \subseteq q.seen /\ q.seen # {}
FlagInv ==
    Calm => /\ MarkExpected /\ ClearExpected
            /\ \A c \in Callers : RequestKnows(rec[c], Active, main.recorder)

(* A recording that was stopped has a job, or a request that will queue it, *)
(* or a worker at it; one whose file is gone has a worker about to add the  *)
(* video to the session.                                                    *)
Unfailing == ~cut /\ ~piled /\ faults = 0
OneFile(p) == /\ p.pc # "idle" => p.files = {p.last}
              /\ p.pc \in {"unlink", "push"} => p.uploaded
Rendering(p, t) == p.pc \in {"render", "unlink"} /\ p.last = t
PostInv ==
    Unfailing =>
        /\ \A w \in Posters : OneFile(post[w])
        /\ \A t \in TakesOf("raw") :
              \/ jobs > 0
              \/ \E c \in Callers : Publishing(rec[c])
              \/ \E w \in Posters : Rendering(post[w], t)
        /\ \A t \in TakesOf("lost") :
              \E w \in Posters : post[w].pc = "push" /\ post[w].last = t

(* Where another topic is at work the flag is left alone: who writes the    *)
(* metadata of a breakout session has read all of it.                      *)
SnapsComplete ==
    /\ "recorder" \in DOMAIN main
    /\ DOMAIN setter = Setters /\ DOMAIN run = Runners
    /\ \A r \in Setters : /\ "snap" \in DOMAIN setter[r]
                          /\ "recorder" \in DOMAIN setter[r].snap
    /\ \A r \in Runners : /\ "snap" \in DOMAIN run[r]
                          /\ "recorder" \in DOMAIN run[r].snap

RecordingInv ==
    /\ topic \in Topics
    /\ CountInv /\ FlagInv /\ PostInv
    /\ topic # "recording" => RecordingInit
    /\ topic = "breakout" => SnapsComplete

(***************************************************************************)
(* Types, and the beginning.                                               *)
(***************************************************************************)
LEMMA RecordingTypes ==
    /\ FirstMeta \in Meta /\ FirstMeta.recorder = NoOne
    /\ IdleCall \in Call /\ IdleCall.op = "none" /\ IdleCall.pc = "idle"
    /\ IdlePost \in Post /\ IdlePost.pc = "idle"
BY RoomMetadataAssumption DEF FirstMeta, Meta, Breakouts, NoBreakout, Lists, NoLists,
   IdleCall, Call, IdlePost, Post

(* Where nothing has happened there is nothing to be said. *)
LEMMA NothingRecorded ==
    ASSUME RecordingInit, topic = "recording" => MetaTypes,
           ~overtaken => main.recorder = NoOne
    PROVE  CountInv /\ FlagInv /\ PostInv
<1>1. RecTypes
  BY RecordingTypes DEF RecordingInit, RecTypes, TakeStatus
<1>2. /\ Active = {} /\ TakesOf("raw") = {} /\ TakesOf("lost") = {}
      /\ \A c \in Callers : rec[c].op = "none" /\ ~Begun(rec[c])
      /\ \A w \in Posters : post[w].pc = "idle"
  BY RecordingTypes DEF RecordingInit, Active, TakesOf, Begun
<1>3. CountInv
  BY <1>1, <1>2 DEF CountInv, StartsAlone, AudioFree, OneActive, FilesStopped
<1>4. FlagInv
  BY <1>2 DEF FlagInv, Calm, MarkExpected, ClearExpected, RequestKnows
<1>5. PostInv
  BY <1>2 DEF PostInv, OneFile
<1> QED
  BY <1>3, <1>4, <1>5

LEMMA RecordingInitInv == Init => RecordingInv
<1> SUFFICES ASSUME Init PROVE RecordingInv
  OBVIOUS
<1>1. MetaTypes /\ main.recorder = NoOne
  BY RecordingTypes DEF Init, MetaInit, MetaTypes, IdleSetter
<1>2. SnapsComplete
  BY DEF Init, MetaInit, BreakoutInit, SnapsComplete, FirstMeta, IdleSetter, IdleRun
<1> QED
  BY <1>1, <1>2, NothingRecorded DEF Init, RecordingInv

(***************************************************************************)
(* What a step of a request does.                                          *)
(***************************************************************************)
StopKnown(q) == q.op = "stop" /\ q.pc \in {"egress", "stop", "clear", "queue"}

(* It reads, decides, or is over: it goes on as q. *)
Thinks(c, q) ==
    /\ Update(c, q)
    /\ UNCHANGED <<take, post, jobs>> /\ MetaKept
    /\ q.op = "start" => q.who \in People
    /\ (q.op = "start" /\ q.pc = "audio") => Active = {}
    /\ Begun(q) => Begun(rec[c])
    /\ Begun(rec[c]) => unmarked' \/ Begun(q)
    /\ StopKnown(q) => \/ cut'
                       \/ q.snap = main
                       \/ q.snap = rec[c].snap /\ StopKnown(rec[c])
    /\ (q.op = "stop" /\ q.pc = "clear") => Active = {}
    /\ (q.op = "stop" /\ q.pc = "stop") => Active \subseteq q.seen /\ q.seen # {}
    /\ Clearing(rec[c]) => cut'
    /\ Publishing(rec[c]) => faults' # 0

(* It begins the audio egress, sets the flag, clears it, queues the job.   *)
Records(c, t) ==
    /\ At(c, "start", "audio")
    /\ take[t] = "none" /\ take' = [take EXCEPT ![t] = "active"]
    /\ GoOn(c, "tracks")
    /\ UNCHANGED <<post, jobs>> /\ MetaKept
Marks(c) ==
    /\ At(c, "start", "mark") /\ StartMark(c)
    /\ UNCHANGED <<take, post, jobs>>
Clears(c, q) ==
    /\ At(c, "stop", "clear") /\ StopClear(c)
    /\ Update(c, q)
    /\ q = IF rec[c].seen = {} THEN IdleCall ELSE [rec[c] EXCEPT !.pc = "queue"]
    /\ UNCHANGED <<take, post, jobs>>
Queues(c) ==
    /\ At(c, "stop", "queue")
    /\ Update(c, IdleCall)
    /\ jobs' = jobs + 1
    /\ UNCHANGED <<take, post>> /\ MetaKept

(* It stops the egresses in S, all it has seen or some before an error.    *)
Stops(c, q, S) ==
    /\ At(c, "stop", "stop")
    /\ StopEgresses(S)
    /\ Update(c, q)
    /\ UNCHANGED <<post, jobs>> /\ MetaKept
    /\ \/ /\ S = rec[c].seen
          /\ q = [rec[c] EXCEPT !.pc = IF Flagged(c) THEN "clear" ELSE "queue"]
       \/ q = IdleCall /\ (cut' \/ S \cap Active = {})

LEMMA CallEffect ==
    ASSUME CountInv, topic = "recording", NEW c \in Callers, CallStep(c)
    PROVE  /\ (\E q \in Call : Thinks(c, q)) \/ (\E t \in Takes : Records(c, t)) \/ Marks(c)
              \/ (\E q \in Call : Clears(c, q)) \/ Queues(c)
              \/ (\E q \in Call : \E S \in SUBSET (Takes \cup {Screen}) : Stops(c, q, S))
           /\ unmarked => unmarked'
           /\ cut => cut'
           /\ UNCHANGED <<piled, setter>>
           /\ faults' = faults \/ faults' = faults + 1
<1>1. /\ take \in [Takes -> TakeStatus] /\ rec \in [Callers -> Call] /\ rec[c] \in Call
      /\ main \in Meta /\ faults \in Nat
  BY DEF CountInv, RecTypes, MetaTypes
<1>2. Active \subseteq ActiveEgresses /\ (ActiveEgresses = {} => Active = {})
      /\ ActiveEgresses \subseteq Takes \cup {Screen}
  BY DEF Active, ActiveEgresses, TakesOf
<1> USE RecordingTypes
<1>3. ASSUME NEW p \in People, RecordList(c, p)
      PROVE  \E q \in Call : Thinks(c, q)
  <2> DEFINE q == [IdleCall EXCEPT !.op = "start", !.pc = "egress", !.who = p, !.snap = main]
  <2>1. q \in Call /\ q.op = "start" /\ q.pc = "egress" /\ q.who = p
    BY <1>1 DEF Call
  <2>2. Update(c, q) /\ rec[c] = IdleCall /\ UNCHANGED <<take, post, jobs>> /\ MetaKept
    BY <1>3 DEF RecordList, filesAndJobs
  <2> HIDE DEF q
  <2> QED
    BY <2>1, <2>2 DEF Thinks, Begun, StopKnown, Clearing, Publishing
<1>4. ASSUME StartEgressCheck(c) \/ StartTracks(c) \/ StartScreen(c) \/ StartFails(c)
      PROVE  \E q \in Call : Thinks(c, q)
  <2> DEFINE on(pc) == [rec[c] EXCEPT !.pc = pc]
  <2>1. /\ UNCHANGED <<take, post, jobs>> /\ MetaKept /\ rec[c].op = "start"
        /\ \/ Update(c, IdleCall) /\ (~Begun(rec[c]) \/ unmarked')
           \/ Update(c, on("audio")) /\ ActiveEgresses = {} /\ ~Begun(rec[c])
           \/ Update(c, on("screen")) /\ Begun(rec[c])
           \/ Update(c, on("mark")) /\ Begun(rec[c])
    <3>1. CASE StartEgressCheck(c)
      BY <3>1 DEF StartEgressCheck, At, GoOn, filesAndJobs, Begun
    <3>2. CASE StartTracks(c)
      BY <3>2 DEF StartTracks, At, GoOn, filesAndJobs, Begun
    <3>3. CASE StartScreen(c)
      BY <3>3 DEF StartScreen, At, GoOn, filesAndJobs, Begun
    <3>4. CASE StartFails(c)
      BY <3>4 DEF StartFails, filesAndJobs, Begun
    <3> QED
      BY <1>4, <3>1, <3>2, <3>3, <3>4
  <2>2. \A pc \in {"audio", "screen", "mark"} :
           on(pc) \in Call /\ on(pc).op = "start" /\ on(pc).pc = pc /\ on(pc).who \in People
    BY <1>1, <2>1 DEF Call, CountInv, RecTypes
  <2> HIDE DEF on
  <2>3. CASE Update(c, IdleCall) /\ (~Begun(rec[c]) \/ unmarked')
    BY <2>1, <2>3 DEF Thinks, Begun, StopKnown, Clearing, Publishing
  <2>4. CASE Update(c, on("audio")) /\ ActiveEgresses = {} /\ ~Begun(rec[c])
    <3>1. Thinks(c, on("audio"))
      BY <1>2, <2>1, <2>2, <2>4 DEF Thinks, Begun, StopKnown, Clearing, Publishing
    <3> QED
      BY <2>2, <3>1
  <2>5. ASSUME NEW pc \in {"screen", "mark"}, Update(c, on(pc)), Begun(rec[c])
        PROVE  \E q \in Call : Thinks(c, q)
    <3>1. Thinks(c, on(pc))
      BY <2>1, <2>2, <2>5 DEF Thinks, Begun, StopKnown, Clearing, Publishing
    <3> QED
      BY <2>2, <3>1
  <2> QED
    BY <2>1, <2>3, <2>4, <2>5
<1>5. ASSUME NEW p \in People, StopList(c, p) \/ LeaveList(c, p)
      PROVE  \E q \in Call : Thinks(c, q)
  <2>1. PICK q \in {IdleCall, [IdleCall EXCEPT !.op = "stop", !.pc = "egress", !.who = p,
                                 !.snap = main],
                    [IdleCall EXCEPT !.op = "stop", !.pc = "list", !.who = p, !.leaver = TRUE]} :
           Update(c, q) /\ UNCHANGED <<take, post, jobs>> /\ MetaKept /\ rec[c] = IdleCall
    <3>1. CASE StopList(c, p)
      BY <3>1 DEF StopList, filesAndJobs
    <3>2. CASE LeaveList(c, p)
      BY <1>1, <3>2 DEF LeaveList, filesAndJobs, Update
    <3> QED
      BY <1>5, <3>1, <3>2
  <2>2. /\ q \in Call /\ q.op # "start"
        /\ q.pc \in {"idle", "egress", "list"}
        /\ q.pc = "egress" => q.snap = main
    BY <1>1, <2>1 DEF Call
  <2> QED
    BY <2>1, <2>2 DEF Thinks, Begun, StopKnown, Clearing, Publishing
<1>6. ASSUME ForcedStopList(c) \/ StopListFails(c)
      PROVE  \E q \in Call : Thinks(c, q)
  <2>1. PICK q \in Call :
           /\ Update(c, q) /\ UNCHANGED <<take, post, jobs>> /\ MetaKept
           /\ q.op = "stop" /\ q.pc = "egress"
           /\ q.snap = main \/ cut'
           /\ rec[c] = IdleCall \/ At(c, "stop", "list")
    <3>1. CASE ForcedStopList(c)
      BY <1>1, <3>1 DEF ForcedStopList, At, Call, filesAndJobs
    <3>2. CASE StopListFails(c)
      BY <1>1, <3>2 DEF StopListFails, At, GoOn, Call, filesAndJobs
    <3> QED
      BY <1>6, <3>1, <3>2
  <2> QED
    BY <2>1 DEF Thinks, At, Begun, StopKnown, Clearing, Publishing
<1>7. ASSUME StopEgressCheck(c)
      PROVE  \E q \in Call : Thinks(c, q)
  <2> DEFINE stop == [rec[c] EXCEPT !.pc = "stop", !.seen = ActiveEgresses]
             clear == [rec[c] EXCEPT !.pc = "clear"]
  <2>1. /\ UNCHANGED <<take, post, jobs>> /\ MetaKept /\ At(c, "stop", "egress")
        /\ \/ Update(c, stop) /\ ActiveEgresses # {}
           \/ Update(c, clear) /\ ActiveEgresses = {}
           \/ Update(c, IdleCall)
    BY <1>7 DEF StopEgressCheck, GoOn, Done, filesAndJobs
  <2>2. /\ stop \in Call /\ stop.op = "stop" /\ stop.pc = "stop"
        /\ stop.seen = ActiveEgresses /\ stop.snap = rec[c].snap
        /\ clear \in Call /\ clear.op = "stop" /\ clear.pc = "clear"
        /\ clear.snap = rec[c].snap
    BY <1>1, <1>2, <2>1 DEF Call, At
  <2> HIDE DEF stop, clear
  <2>3. CASE Update(c, stop) /\ ActiveEgresses # {}
    <3>1. Thinks(c, stop)
      BY <1>2, <2>1, <2>2, <2>3 DEF Thinks, At, Begun, StopKnown, Clearing, Publishing
    <3> QED
      BY <2>2, <3>1
  <2>4. CASE Update(c, clear) /\ ActiveEgresses = {}
    <3>1. Thinks(c, clear)
      BY <1>2, <2>1, <2>2, <2>4 DEF Thinks, At, Begun, StopKnown, Clearing, Publishing
    <3> QED
      BY <2>2, <3>1
  <2>5. CASE Update(c, IdleCall)
    BY <2>1, <2>5 DEF Thinks, At, Begun, StopKnown, Clearing, Publishing
  <2> QED
    BY <2>1, <2>3, <2>4, <2>5
<1>8. ASSUME ScreenCheck(c) \/ ScreenTrack(c) \/ ScreenFails(c)
      PROVE  \E q \in Call : Thinks(c, q)
  <2>1. PICK q \in {IdleCall, [IdleCall EXCEPT !.op = "screen", !.pc = "track"]} :
           /\ Update(c, q) /\ UNCHANGED <<take, post, jobs>> /\ MetaKept
           /\ rec[c].op \in {"none", "screen"}
    <3>1. CASE ScreenCheck(c)
      BY <1>1, <3>1 DEF ScreenCheck, filesAndJobs, Update
    <3>2. CASE ScreenTrack(c) \/ ScreenFails(c)
      BY <1>1, <3>2 DEF ScreenTrack, ScreenFails, At, filesAndJobs
    <3> QED
      BY <1>8, <3>1, <3>2
  <2>2. q \in Call /\ q.op \in {"none", "screen"}
    BY <1>1, <2>1 DEF Call
  <2> QED
    BY <2>1, <2>2 DEF Thinks, Begun, StopKnown, Clearing, Publishing
<1>9. ASSUME StopAll(c)
      PROVE  \E q \in Call : \E S \in SUBSET (Takes \cup {Screen}) : Stops(c, q, S)
  <2> DEFINE S == rec[c].seen
             on == [rec[c] EXCEPT !.pc = IF Flagged(c) THEN "clear" ELSE "queue"]
  <2>1. S \in SUBSET (Takes \cup {Screen}) /\ on \in Call
    BY <1>1 DEF Call
  <2>2. \/ Update(c, on)
        \/ Update(c, IdleCall) /\ cut' = (cut \/ S \cap Active # {})
    BY <1>9 DEF StopAll, GoOn, Done, Active
  <2>3. /\ At(c, "stop", "stop") /\ StopEgresses(S)
        /\ UNCHANGED <<post, jobs>> /\ MetaKept
    BY <1>9 DEF StopAll, filesAndJobs
  <2> QED
    BY <2>1, <2>2, <2>3 DEF Stops
<1>10. ASSUME StopFails(c)
      PROVE  \/ \E q \in Call : Thinks(c, q)
             \/ \E q \in Call : \E S \in SUBSET (Takes \cup {Screen}) : Stops(c, q, S)
  <2>1. PICK S \in SUBSET rec[c].seen :
           /\ rec[c].op = "stop" /\ faults' = faults + 1 /\ Update(c, IdleCall)
           /\ IF rec[c].pc = "stop" THEN StopEgresses(S) ELSE UNCHANGED <<take, screen>>
           /\ cut' = \/ cut
                     \/ rec[c].pc \in {"clear", "queue"} /\ rec[c].seen # {}
                     \/ S # {}
           /\ UNCHANGED <<post, jobs>> /\ MetaKept
    BY <1>10 DEF StopFails, Fault, Done, filesAndJobs
  <2>2. S \in SUBSET (Takes \cup {Screen})
    BY <1>1 DEF Call
  <2>3. CASE rec[c].pc = "stop"
    BY <2>1, <2>2, <2>3 DEF Stops, At
  <2>4. CASE rec[c].pc # "stop"
    BY <1>1, <2>1, <2>4 DEF Thinks, Begun, StopKnown, Clearing, Publishing
  <2> QED
    BY <2>3, <2>4
<1>11. ASSUME StartAudio(c)
       PROVE  \E t \in Takes : Records(c, t)
  BY <1>11 DEF StartAudio, Records, TakesOf, filesAndJobs
<1>12. ASSUME StartMark(c)
       PROVE  Marks(c)
  BY <1>12 DEF StartMark, Marks, filesAndJobs
<1>13. ASSUME StopClear(c)
       PROVE  \E q \in Call : Clears(c, q)
  <2> DEFINE q == IF rec[c].seen = {} THEN IdleCall ELSE [rec[c] EXCEPT !.pc = "queue"]
  <2>1. q \in Call
    BY <1>1 DEF Call
  <2>2. Update(c, q) /\ UNCHANGED <<take, post, jobs>> /\ At(c, "stop", "clear")
    BY <1>13 DEF StopClear, Done, GoOn, filesAndJobs
  <2> QED
    BY <1>13, <2>1, <2>2 DEF Clears
<1>14. ASSUME StopQueue(c)
       PROVE  Queues(c)
  BY <1>14 DEF StopQueue, Queues, Done
<1>15. /\ (\E q \in Call : Thinks(c, q)) \/ (\E t \in Takes : Records(c, t)) \/ Marks(c)
          \/ (\E q \in Call : Clears(c, q)) \/ Queues(c)
          \/ (\E q \in Call : \E S \in SUBSET (Takes \cup {Screen}) : Stops(c, q, S))
  BY <1>3, <1>4, <1>5, <1>6, <1>7, <1>8, <1>9, <1>10, <1>11, <1>12, <1>13, <1>14
     DEF CallStep
<1>16. /\ unmarked => unmarked'
       /\ cut => cut'
       /\ UNCHANGED <<piled, setter>>
       /\ faults' = faults \/ faults' = faults + 1
  <2> USE <1>1 DEF accidents, filesAndJobs, NoFault, Fault
  <2>1. ASSUME NEW p \in People, RecordList(c, p) \/ StopList(c, p) \/ LeaveList(c, p)
        PROVE  UNCHANGED <<unmarked, cut, piled, faults, setter>>
    BY <2>1 DEF RecordList, StopList, LeaveList
  <2>2. CASE \/ StartEgressCheck(c) \/ StartAudio(c) \/ StartTracks(c) \/ StartMark(c)
             \/ ForcedStopList(c) \/ StopEgressCheck(c) \/ StopClear(c) \/ StopQueue(c)
             \/ ScreenCheck(c) \/ ScreenTrack(c)
    BY <2>2 DEF StartEgressCheck, StartAudio, StartTracks, StartMark, ForcedStopList,
       StopEgressCheck, StopClear, StopQueue, ScreenCheck, ScreenTrack
  <2>3. CASE StartScreen(c)
    BY <2>3 DEF StartScreen
  <2>4. CASE StopAll(c)
    BY <2>4 DEF StopAll
  <2>5. CASE StartFails(c) \/ StopListFails(c) \/ ScreenFails(c)
    <3>1. CASE StartFails(c)
      BY <3>1 DEF StartFails
    <3>2. CASE StopListFails(c)
      BY <3>2 DEF StopListFails
    <3>3. CASE ScreenFails(c)
      BY <3>3 DEF ScreenFails
    <3> QED
      BY <2>5, <3>1, <3>2, <3>3
  <2>6. CASE StopFails(c)
    <3>1. PICK S \in SUBSET rec[c].seen :
             /\ faults' = faults + 1 /\ UNCHANGED <<unmarked, piled, setter>>
             /\ cut' = \/ cut
                       \/ rec[c].pc \in {"clear", "queue"} /\ rec[c].seen # {}
                       \/ S # {}
      BY <2>6 DEF StopFails
    <3> QED
      BY <3>1
  <2> QED
    BY <2>1, <2>2, <2>3, <2>4, <2>5, <2>6 DEF CallStep
<1> QED
  BY <1>15, <1>16

LEMMA Updated ==
    ASSUME CountInv, NEW c \in Callers, NEW q \in Call, Update(c, q)
    PROVE  /\ rec' \in [Callers -> Call] /\ rec'[c] = q
           /\ \A x \in Callers \ {c} : rec'[x] = rec[x]
BY DEF CountInv, RecTypes, Update

(***************************************************************************)
(* One recording at a time.                                                *)
(***************************************************************************)
(* A start that is not alone is recorded as such. *)
LEMMA StartIsAlone ==
    ASSUME ObserveCrossing
    PROVE  StartsAlone' /\ (crossed => crossed')
BY DEF ObserveCrossing, StartsAlone

LEMMA CallCountInv ==
    ASSUME CountInv, topic = "recording", topic' = topic, NEW c \in Callers, CallStep(c),
           StartsAlone', crossed => crossed'
    PROVE  CountInv'
<1>1. /\ take \in [Takes -> TakeStatus] /\ rec \in [Callers -> Call] /\ rec[c] \in Call
      /\ post \in [Posters -> Post] /\ jobs \in Nat
      /\ main \in Meta /\ faults \in Nat
      /\ setter \in [Setters -> [pc : {"idle", "list", "write"}, snap : Meta]]
      /\ \A x \in Callers : rec[x].op = "start" => rec[x].who \in People
  BY DEF CountInv, RecTypes, MetaTypes
<1>2. setter' = setter /\ faults' \in Nat
  BY <1>1, CallEffect
<1> USE RecordingTypes
<1>3. CASE \E t \in Takes : Records(c, t)
  <2>1. PICK t \in Takes : Records(c, t)
    BY <1>3
  <2> DEFINE q == [rec[c] EXCEPT !.pc = "tracks"]
  <2>2. /\ q \in Call /\ q.op = "start" /\ q.pc = "tracks" /\ q.who \in People
        /\ Update(c, q)
    BY <1>1, <2>1 DEF Records, At, GoOn, Call
  <2> HIDE DEF q
  <2>3. /\ rec' \in [Callers -> Call] /\ rec'[c] = q
        /\ \A x \in Callers \ {c} : rec'[x] = rec[x]
    BY <2>2, Updated
  <2>4. /\ take' \in [Takes -> TakeStatus] /\ take[t] = "none"
        /\ \A u \in Takes : take'[u] = IF u = t THEN "active" ELSE take[u]
        /\ UNCHANGED <<post, jobs, main>>
    BY <1>1, <2>1 DEF Records, TakeStatus, MetaKept
  <2>5. RecTypes'
    BY <1>1, <1>2, <2>2, <2>3, <2>4 DEF RecTypes, MetaTypes
  <2>6. ~crossed => Active = {}
    BY <2>1 DEF Records, CountInv, AudioFree
  <2>7. ~crossed' => Active' \subseteq {t}
    BY <2>4, <2>6 DEF Active, TakesOf
  <2>8. AudioFree'
    BY <2>2, <2>3 DEF AudioFree, StartsAlone, At
  <2>9. FilesStopped'
    BY <2>4 DEF FilesStopped, CountInv
  <2> QED
    BY <2>5, <2>7, <2>8, <2>9 DEF CountInv, OneActive
<1>4. CASE ~\E t \in Takes : Records(c, t)
  <2>1. PICK q \in Call :
           /\ Update(c, q)
           /\ q.op = "start" => q.who \in People
           /\ (q.op = "start" /\ q.pc = "audio") => Active = {}
           /\ post' = post /\ jobs' \in Nat /\ main' \in Meta
           /\ take' = take \/ \E S : StopEgresses(S)
    <3>1. CASE \E q \in Call : Thinks(c, q)
      BY <1>1, <3>1 DEF Thinks, MetaKept
    <3>2. CASE Marks(c)
      <4>1. rec[c].snap \in Meta /\ rec[c].who \in People
        BY <1>1, <3>2 DEF Marks, At, Call
      <4>2. main' \in Meta
        BY <3>2, <4>1 DEF Marks, StartMark, UpdateRoomMetadata, Meta
      <4> QED
        BY <1>1, <3>2, <4>2 DEF Marks, StartMark
    <3>3. CASE \E q \in Call : Clears(c, q)
      <4>1. PICK q \in Call : Clears(c, q)
        BY <3>3
      <4>2. rec[c].snap \in Meta
        BY <1>1 DEF Call
      <4>3. main' \in Meta
        BY <4>1, <4>2 DEF Clears, StopClear, UpdateRoomMetadata, Meta
      <4>4. q.op # "start"
        BY <1>1, <4>1 DEF Clears, At, Call
      <4> QED
        BY <1>1, <4>1, <4>3, <4>4 DEF Clears
    <3>4. CASE Queues(c)
      BY <1>1, <3>4 DEF Queues, MetaKept
    <3>5. CASE \E q \in Call : \E S \in SUBSET (Takes \cup {Screen}) : Stops(c, q, S)
      <4>1. PICK q \in Call, S \in SUBSET (Takes \cup {Screen}) : Stops(c, q, S)
        BY <3>5
      <4>2. q.op # "start"
        BY <1>1, <4>1 DEF Stops, At, Call
      <4> QED
        BY <1>1, <4>1, <4>2 DEF Stops, MetaKept
    <3> QED
      BY <1>4, <3>1, <3>2, <3>3, <3>4, <3>5, CallEffect
  <2>2. /\ take' \in [Takes -> TakeStatus] /\ Active' \subseteq Active
        /\ \A u \in Takes : take[u] # "active" => take'[u] = take[u]
    BY <1>1, <2>1 DEF StopEgresses, TakeStatus, Active, TakesOf
  <2>3. /\ rec' \in [Callers -> Call] /\ rec'[c] = q
        /\ \A x \in Callers \ {c} : rec'[x] = rec[x]
    BY <2>1, Updated
  <2>4. RecTypes'
    BY <1>1, <1>2, <2>1, <2>2, <2>3 DEF RecTypes, MetaTypes
  <2>5. AudioFree' /\ OneActive'
    BY <2>1, <2>2, <2>3 DEF CountInv, AudioFree, OneActive, At
  <2>6. FilesStopped'
    BY <2>1, <2>2 DEF FilesStopped, CountInv
  <2> QED
    BY <2>4, <2>5, <2>6 DEF CountInv
<1> QED
  BY <1>3, <1>4

(***************************************************************************)
(* The flag and the egress.                                                *)
(***************************************************************************)
LEMMA CallFlagInv ==
    ASSUME CountInv, FlagInv, topic = "recording", NEW c \in Callers, CallStep(c),
           StartsAlone', crossed => crossed'
    PROVE  FlagInv'
<1> SUFFICES ASSUME Calm'
             PROVE  /\ MarkExpected' /\ ClearExpected'
                    /\ \A x \in Callers : RequestKnows(rec'[x], Active', main'.recorder)
  BY DEF FlagInv
<1>1. /\ take \in [Takes -> TakeStatus] /\ rec \in [Callers -> Call] /\ rec[c] \in Call
      /\ main \in Meta
      /\ rec[c].op = "start" => rec[c].who \in People
  BY DEF CountInv, RecTypes, MetaTypes
<1>2. ~crossed /\ ~crossed' /\ ~unmarked /\ ~unmarked' /\ ~cut /\ ~cut' /\ ~overtaken'
  BY CallEffect DEF Calm
<1>3. ASSUME ~overtaken
      PROVE  /\ MarkExpected /\ ClearExpected
             /\ \A x \in Callers : RequestKnows(rec[x], Active, main.recorder)
  BY <1>2, <1>3 DEF FlagInv, Calm
<1> USE RecordingTypes
<1>4. ASSUME NEW q \in Call, Thinks(c, q)
      PROVE  /\ MarkExpected' /\ ClearExpected'
             /\ \A x \in Callers : RequestKnows(rec'[x], Active', main'.recorder)
  <2>1. /\ rec' \in [Callers -> Call] /\ rec'[c] = q
        /\ \A x \in Callers \ {c} : rec'[x] = rec[x]
    BY <1>4, Updated DEF Thinks
  <2>2. Active' = Active /\ main' = main /\ ~overtaken
    BY <1>2, <1>4 DEF Thinks, MetaKept, Active, TakesOf
  <2>3. RequestKnows(q, Active, main.recorder)
    BY <1>2, <1>3, <1>4, <2>2 DEF Thinks, RequestKnows, StopKnown
  <2>4. /\ Begun(rec[c]) => Begun(q)
        /\ ~Clearing(rec[c])
    BY <1>2, <1>4 DEF Thinks
  <2>5. \A x \in Callers : /\ Begun(rec[x]) => Begun(rec'[x])
                           /\ Clearing(rec[x]) => Clearing(rec'[x])
                           /\ RequestKnows(rec'[x], Active, main.recorder)
    BY <1>3, <2>1, <2>2, <2>3, <2>4
  <2> QED
    BY <1>3, <2>2, <2>5 DEF MarkExpected, ClearExpected
<1>5. ASSUME NEW t \in Takes, Records(c, t)
      PROVE  /\ MarkExpected' /\ ClearExpected'
             /\ \A x \in Callers : RequestKnows(rec'[x], Active', main'.recorder)
  <2> DEFINE q == [rec[c] EXCEPT !.pc = "tracks"]
  <2>1. q \in Call /\ q.op = "start" /\ q.pc = "tracks" /\ Update(c, q)
    BY <1>1, <1>5 DEF Records, At, GoOn, Call
  <2> HIDE DEF q
  <2>2. rec'[c] = q /\ \A x \in Callers \ {c} : rec'[x].op = "none"
    BY <1>2, <2>1, Updated DEF StartsAlone
  <2>3. t \in Active'
    BY <1>1, <1>5 DEF Records, Active, TakesOf
  <2>4. \A x \in Callers : RequestKnows(rec'[x], Active', main'.recorder)
    BY <2>1, <2>2, <2>3 DEF RequestKnows, Begun
  <2>5. Begun(rec'[c])
    BY <2>1, <2>2 DEF Begun
  <2> QED
    BY <2>3, <2>4, <2>5 DEF MarkExpected, ClearExpected
<1>6. ASSUME Marks(c)
      PROVE  /\ MarkExpected' /\ ClearExpected'
             /\ \A x \in Callers : RequestKnows(rec'[x], Active', main'.recorder)
  <2>1. /\ Begun(rec[c]) /\ rec[c].op = "start" /\ rec[c].snap \in Meta
        /\ Update(c, IdleCall)
    BY <1>1, <1>6 DEF Marks, At, Begun, StartMark, Call
  <2>2. \A x \in Callers : rec'[x].op = "none"
    <3>1. rec'[c].op = "none" /\ \A x \in Callers \ {c} : rec'[x] = rec[x]
      BY <2>1, Updated
    <3> QED
      BY <1>2, <2>1, <3>1 DEF CountInv, StartsAlone
  <2>3. main'.recorder = rec[c].who /\ main'.recorder # NoOne /\ ~overtaken
    BY <1>1, <1>2, <1>6, <2>1, RoomMetadataAssumption
       DEF Marks, StartMark, UpdateRoomMetadata, Meta
  <2>4. Active' = Active /\ Active # {}
    BY <1>3, <1>6, <2>1, <2>3 DEF Marks, Active, TakesOf, RequestKnows
  <2>5. \A x \in Callers : RequestKnows(rec'[x], Active', main'.recorder)
    BY <2>2 DEF RequestKnows, Begun
  <2> QED
    BY <2>3, <2>4, <2>5 DEF MarkExpected, ClearExpected
<1>7. ASSUME NEW q \in Call, Clears(c, q)
      PROVE  /\ MarkExpected' /\ ClearExpected'
             /\ \A x \in Callers : RequestKnows(rec'[x], Active', main'.recorder)
  <2>1. /\ rec[c].op = "stop" /\ rec[c].pc = "clear" /\ rec[c].snap \in Meta
        /\ q.op # "start" /\ q.pc \in {"idle", "queue"}
    BY <1>1, <1>7 DEF Clears, At, Call
  <2>2. rec'[c] = q /\ \A x \in Callers \ {c} : rec'[x] = rec[x]
    BY <1>7, Updated DEF Clears
  <2>3. main'.recorder = NoOne /\ ~overtaken
    BY <1>1, <1>2, <1>7, <2>1 DEF Clears, StopClear, UpdateRoomMetadata, Meta
  <2>4. Active' = Active /\ Active = {}
    BY <1>3, <1>7, <2>1, <2>3 DEF Clears, Active, TakesOf, RequestKnows
  <2>5. \A x \in Callers : RequestKnows(rec'[x], Active', main'.recorder)
    BY <1>3, <2>1, <2>2, <2>3, <2>4 DEF RequestKnows, Begun
  <2> QED
    BY <2>3, <2>4, <2>5 DEF MarkExpected, ClearExpected
<1>8. ASSUME Queues(c)
      PROVE  /\ MarkExpected' /\ ClearExpected'
             /\ \A x \in Callers : RequestKnows(rec'[x], Active', main'.recorder)
  <2>1. rec'[c] = IdleCall /\ \A x \in Callers \ {c} : rec'[x] = rec[x]
    BY <1>8, Updated DEF Queues
  <2>2. Active' = Active /\ main' = main /\ ~overtaken
    BY <1>2, <1>8 DEF Queues, MetaKept, Active, TakesOf
  <2>3. ~Begun(rec[c]) /\ ~Clearing(rec[c]) /\ RequestKnows(IdleCall, Active, main.recorder)
    BY <1>8 DEF Queues, At, Begun, Clearing, RequestKnows
  <2>4. \A x \in Callers : /\ Begun(rec[x]) => Begun(rec'[x])
                           /\ Clearing(rec[x]) => Clearing(rec'[x])
                           /\ RequestKnows(rec'[x], Active, main.recorder)
    BY <1>3, <2>1, <2>2, <2>3
  <2> QED
    BY <1>3, <2>2, <2>4 DEF MarkExpected, ClearExpected
<1>9. ASSUME NEW q \in Call, NEW S \in SUBSET (Takes \cup {Screen}), Stops(c, q, S)
      PROVE  /\ MarkExpected' /\ ClearExpected'
             /\ \A x \in Callers : RequestKnows(rec'[x], Active', main'.recorder)
  <2>1. rec'[c] = q /\ \A x \in Callers \ {c} : rec'[x] = rec[x]
    BY <1>9, Updated DEF Stops
  <2>2. main' = main /\ ~overtaken /\ rec[c].op = "stop" /\ rec[c].pc = "stop"
    BY <1>2, <1>9 DEF Stops, MetaKept, At
  <2>3. Active' = Active \ S
    BY <1>1, <1>9 DEF Stops, StopEgresses, Active, TakesOf
  <2>4. \A x \in Callers : ~Begun(rec[x])
    BY <1>2, <2>2 DEF CountInv, StartsAlone, Begun
  <2>5. /\ Active \subseteq rec[c].seen /\ rec[c].seen # {}
        /\ rec[c].snap.recorder = NoOne => main.recorder = NoOne
    BY <1>3, <2>2 DEF RequestKnows
  <2>6. CASE /\ S = rec[c].seen
             /\ q = [rec[c] EXCEPT !.pc = IF Flagged(c) THEN "clear" ELSE "queue"]
    <3>1. /\ q.op = "stop" /\ q.seen = rec[c].seen /\ q.snap = rec[c].snap
          /\ q.pc = IF Flagged(c) THEN "clear" ELSE "queue"
      BY <1>1, <2>2, <2>6 DEF Call
    <3>2. Active' = {}
      BY <2>3, <2>5, <2>6
    <3>3. ClearExpected'
      BY <2>1, <2>2, <2>5, <3>1 DEF ClearExpected, Clearing, Flagged
    <3>4. \A x \in Callers : RequestKnows(rec'[x], Active', main'.recorder)
      BY <1>3, <2>1, <2>2, <2>4, <2>5, <3>1, <3>2 DEF RequestKnows, Begun
    <3> QED
      BY <3>2, <3>3, <3>4 DEF MarkExpected
  <2>7. CASE q = IdleCall /\ (cut' \/ S \cap Active = {})
    <3>1. Active' = Active
      BY <1>2, <2>3, <2>7
    <3>2. \A x \in Callers : /\ Clearing(rec[x]) => Clearing(rec'[x])
                             /\ RequestKnows(rec'[x], Active, main.recorder)
      BY <1>3, <2>1, <2>2, <2>7 DEF Clearing, RequestKnows, Begun
    <3> QED
      BY <1>3, <2>2, <2>4, <3>1, <3>2 DEF MarkExpected, ClearExpected
  <2> QED
    BY <1>9, <2>6, <2>7 DEF Stops
<1> QED
  BY <1>4, <1>5, <1>6, <1>7, <1>8, <1>9, CallEffect

(***************************************************************************)
(* From the stop to the video.                                             *)
(***************************************************************************)
LEMMA CallPostInv ==
    ASSUME CountInv, PostInv, topic = "recording", NEW c \in Callers, CallStep(c)
    PROVE  PostInv'
<1> SUFFICES ASSUME Unfailing' PROVE PostInv'
  BY DEF PostInv
<1>1. /\ take \in [Takes -> TakeStatus] /\ rec \in [Callers -> Call] /\ rec[c] \in Call
      /\ jobs \in Nat /\ faults \in Nat
  BY DEF CountInv, RecTypes, MetaTypes
<1>2. Unfailing /\ ~cut' /\ faults' = 0
  BY <1>1, CallEffect DEF Unfailing
<1>3. /\ \A w \in Posters : OneFile(post[w])
      /\ \A t \in TakesOf("raw") : \/ jobs > 0
                                   \/ \E x \in Callers : Publishing(rec[x])
                                   \/ \E w \in Posters : Rendering(post[w], t)
      /\ \A t \in TakesOf("lost") : \E w \in Posters : post[w].pc = "push" /\ post[w].last = t
  BY <1>2 DEF PostInv
<1> USE RecordingTypes
(* A request of which nothing is expected any longer, or still something.  *)
<1>4. ASSUME NEW q \in Call, Update(c, q), post' = post,
             TakesOf("lost")' = TakesOf("lost"),
             \/ TakesOf("raw")' \subseteq TakesOf("raw") /\ jobs' = jobs
                /\ (Publishing(rec[c]) => Publishing(q))
             \/ jobs' > 0
             \/ Publishing(q)
      PROVE  PostInv'
  <2>1. rec'[c] = q /\ \A x \in Callers \ {c} : rec'[x] = rec[x]
    BY <1>4, Updated
  <2>2. \A t \in TakesOf("raw")' : \/ jobs' > 0
                                   \/ \E x \in Callers : Publishing(rec'[x])
                                   \/ \E w \in Posters : Rendering(post[w], t)
    BY <1>3, <1>4, <2>1
  <2> QED
    BY <1>3, <1>4, <2>2 DEF PostInv
<1>5. ASSUME NEW q \in Call, Thinks(c, q)
      PROVE  PostInv'
  BY <1>2, <1>4, <1>5 DEF Thinks, TakesOf
<1>6. ASSUME NEW t \in Takes, Records(c, t)
      PROVE  PostInv'
  <2> DEFINE q == [rec[c] EXCEPT !.pc = "tracks"]
  <2>1. q \in Call /\ Update(c, q) /\ ~Publishing(rec[c])
    BY <1>1, <1>6 DEF Records, At, GoOn, Call, Publishing, Clearing
  <2>2. UNCHANGED <<post, jobs, TakesOf("raw"), TakesOf("lost")>>
    BY <1>1, <1>6 DEF Records, TakesOf
  <2> HIDE DEF q
  <2> QED
    BY <1>4, <2>1, <2>2
<1>7. CASE Marks(c)
  <2>1. Update(c, IdleCall) /\ ~Publishing(rec[c]) /\ UNCHANGED <<take, post, jobs>>
    BY <1>7 DEF Marks, At, StartMark, Publishing, Clearing
  <2> QED
    BY <1>4, <2>1 DEF TakesOf
<1>8. ASSUME NEW q \in Call, Clears(c, q)
      PROVE  PostInv'
  <2>1. Update(c, q) /\ UNCHANGED <<take, post, jobs>>
    BY <1>8 DEF Clears
  <2>2. Publishing(rec[c]) => Publishing(q)
    BY <1>1, <1>8 DEF Clears, At, Publishing, Clearing, Call
  <2> QED
    BY <1>4, <2>1, <2>2 DEF TakesOf
<1>9. CASE Queues(c)
  <2>1. Update(c, IdleCall) /\ UNCHANGED <<take, post>> /\ jobs' > 0
    BY <1>1, <1>9 DEF Queues
  <2> QED
    BY <1>4, <2>1 DEF TakesOf
<1>10. ASSUME NEW q \in Call, NEW S \in SUBSET (Takes \cup {Screen}), Stops(c, q, S)
       PROVE  PostInv'
  <2>1. /\ Update(c, q) /\ UNCHANGED <<post, jobs>> /\ ~Publishing(rec[c])
        /\ TakesOf("lost")' = TakesOf("lost")
    BY <1>1, <1>10 DEF Stops, At, StopEgresses, TakesOf, Publishing, Clearing
  <2>2. CASE S \cap Active = {}
    <3>1. TakesOf("raw")' \subseteq TakesOf("raw")
      BY <1>1, <1>10, <2>2 DEF Stops, StopEgresses, TakesOf, Active
    <3> QED
      BY <1>4, <2>1, <3>1
  <2>3. CASE /\ S \cap Active # {} /\ S = rec[c].seen
             /\ q = [rec[c] EXCEPT !.pc = IF Flagged(c) THEN "clear" ELSE "queue"]
    <3>1. Publishing(q)
      BY <1>1, <1>10, <2>3 DEF Stops, At, Publishing, Clearing, Call
    <3> QED
      BY <1>4, <2>1, <3>1
  <2> QED
    BY <1>2, <1>10, <2>2, <2>3 DEF Stops
<1> QED
  BY <1>5, <1>6, <1>7, <1>8, <1>9, <1>10, CallEffect

(* Steps of others than requests leave the flag and the egresses alone.    *)
LEMMA FlagKept ==
    ASSUME FlagInv, rec' = rec, Active' = Active, crossed => crossed',
           unmarked' = unmarked, cut' = cut,
           ~overtaken' => ~overtaken /\ main'.recorder = main.recorder
    PROVE  FlagInv'
<1> SUFFICES ASSUME Calm'
             PROVE  /\ MarkExpected' /\ ClearExpected'
                    /\ \A x \in Callers : RequestKnows(rec'[x], Active', main'.recorder)
  BY DEF FlagInv
<1>1. Calm /\ main'.recorder = main.recorder
  BY DEF Calm
<1>2. /\ MarkExpected /\ ClearExpected
      /\ \A x \in Callers : RequestKnows(rec[x], Active, main.recorder)
  BY <1>1 DEF FlagInv
<1> QED
  BY <1>1, <1>2 DEF MarkExpected, ClearExpected

LEMMA CountKept ==
    ASSUME CountInv, topic' = topic, UNCHANGED <<take, post, rec, jobs>>,
           StartsAlone', crossed => crossed', topic = "recording" => MetaTypes'
    PROVE  CountInv'
<1>1. RecTypes'
  BY DEF CountInv, RecTypes
<1>2. Active' = Active
  BY DEF Active, TakesOf
<1>3. AudioFree' /\ OneActive' /\ FilesStopped'
  BY <1>2 DEF CountInv, AudioFree, OneActive, FilesStopped, At
<1> QED
  BY <1>1, <1>3 DEF CountInv

LEMMA PostKept ==
    ASSUME PostInv, UNCHANGED <<take, post, rec, jobs, cut, piled>>,
           faults' = 0 => faults = 0
    PROVE  PostInv'
<1>1. UNCHANGED <<TakesOf("raw"), TakesOf("lost")>>
  BY DEF TakesOf
<1> QED
  BY <1>1 DEF PostInv, Unfailing

(***************************************************************************)
(* The workers.                                                            *)
(***************************************************************************)
(* What a step of a worker does, which then holds p.                       *)
Reads(w, p) ==
    /\ jobs > 0 /\ jobs' = jobs - 1 /\ take' = take
    /\ post[w].pc = "idle"
    /\ piled' = (piled \/ Cardinality(TakesOf("raw")) > 1)
    /\ \/ TakesOf("raw") = {} /\ p.pc = "idle"
       \/ p.pc = "render" /\ p.files = TakesOf("raw") /\ p.last \in TakesOf("raw")
Renders(w, p) ==
    /\ post[w].pc = "render" /\ UNCHANGED <<take, jobs, piled>>
    /\ \/ take[post[w].last] # "raw" /\ p.pc = "idle"
       \/ /\ p.pc = "unlink" /\ p.uploaded
          /\ p.files = post[w].files /\ p.last = post[w].last
Unlinks(w, p) ==
    /\ post[w].pc = "unlink" /\ UNCHANGED <<jobs, piled>>
    /\ p = [post[w] EXCEPT !.pc = "push"]
    /\ take' = [t \in Takes |-> IF t \in post[w].files /\ take[t] = "raw"
                                THEN "lost" ELSE take[t]]
Pushes(w, p) ==
    /\ post[w].pc = "push" /\ UNCHANGED <<jobs, piled>>
    /\ p.pc = "idle"
    /\ take' = IF post[w].uploaded
               THEN [take EXCEPT ![post[w].last] = "published"] ELSE take
Errs(w, p) ==
    /\ faults' # 0 /\ UNCHANGED <<take, jobs, piled>>
    /\ p.pc # "idle" => post[w].pc # "idle" /\ p.last = post[w].last

LEMMA PostEffect ==
    ASSUME CountInv, topic = "recording", NEW w \in Posters, PostStep(w)
    PROVE  /\ \E p \in Post : /\ UpdatePost(w, p)
                              /\ Reads(w, p) \/ Renders(w, p) \/ Unlinks(w, p)
                                 \/ Pushes(w, p) \/ Errs(w, p)
           /\ UNCHANGED <<rec, main, overtaken, setter, unmarked, cut>>
           /\ faults' \in Nat /\ (faults' = 0 => faults = 0)
<1>1. post[w] \in Post /\ post \in [Posters -> Post] /\ faults \in Nat
  BY DEF CountInv, RecTypes, MetaTypes
<1> USE RecordingTypes
<1>2. ASSUME PostRead(w)
      PROVE  \E p \in Post : UpdatePost(w, p) /\ Reads(w, p)
  <2>1. CASE TakesOf("raw") = {}
    <3>1. UpdatePost(w, IdlePost)
      BY <1>1, <1>2, <2>1 DEF PostRead, UpdatePost
    <3> QED
      BY <1>1, <1>2, <2>1, <3>1 DEF PostRead, Reads
  <2>2. CASE TakesOf("raw") # {}
    <3>1. PICK t \in TakesOf("raw") :
             UpdatePost(w, [pc |-> "render", files |-> TakesOf("raw"), last |-> t,
                            uploaded |-> FALSE])
      BY <1>2, <2>2 DEF PostRead
    <3>2. [pc |-> "render", files |-> TakesOf("raw"), last |-> t, uploaded |-> FALSE] \in Post
      BY DEF Post, TakesOf
    <3> QED
      BY <1>2, <2>2, <3>1, <3>2 DEF PostRead, Reads
  <2> QED
    BY <2>1, <2>2
<1>3. ASSUME PostRender(w)
      PROVE  \E p \in Post : UpdatePost(w, p) /\ Renders(w, p)
  <2> DEFINE p == [post[w] EXCEPT !.pc = "unlink", !.uploaded = TRUE]
  <2>1. /\ p \in Post /\ p.pc = "unlink" /\ p.uploaded
        /\ p.files = post[w].files /\ p.last = post[w].last
    BY <1>1 DEF Post
  <2> HIDE DEF p
  <2>2. \/ take[post[w].last] = "raw" /\ UpdatePost(w, p)
        \/ take[post[w].last] # "raw" /\ UpdatePost(w, IdlePost)
    BY <1>3 DEF PostRender, p
  <2> QED
    BY <1>3, <2>1, <2>2 DEF PostRender, Renders
<1>4. ASSUME PostUploadFails(w) \/ PostFails(w)
      PROVE  \E p \in Post : UpdatePost(w, p) /\ Errs(w, p)
  <2>1. faults' # 0 /\ UNCHANGED <<take, jobs, piled>>
    BY <1>1, <1>4 DEF PostUploadFails, PostFails, Fault
  <2>2. CASE PostFails(w)
    BY <2>1, <2>2 DEF PostFails, Errs
  <2>3. CASE PostUploadFails(w)
    <3> DEFINE p == [post[w] EXCEPT !.pc = "unlink"]
    <3>1. p \in Post /\ p.last = post[w].last /\ post[w].pc = "render" /\ UpdatePost(w, p)
      BY <1>1, <2>3 DEF Post, PostUploadFails
    <3> HIDE DEF p
    <3> QED
      BY <2>1, <3>1 DEF Errs
  <2> QED
    BY <1>4, <2>2, <2>3
<1>5. ASSUME PostUnlink(w)
      PROVE  \E p \in Post : UpdatePost(w, p) /\ Unlinks(w, p)
  <2>1. [post[w] EXCEPT !.pc = "push"] \in Post
    BY <1>1 DEF Post
  <2> QED
    BY <1>5, <2>1 DEF PostUnlink, Unlinks
<1>6. ASSUME PostPush(w)
      PROVE  \E p \in Post : UpdatePost(w, p) /\ Pushes(w, p)
  BY <1>6 DEF PostPush, Pushes
<1>7. \E p \in Post : /\ UpdatePost(w, p)
                      /\ Reads(w, p) \/ Renders(w, p) \/ Unlinks(w, p)
                         \/ Pushes(w, p) \/ Errs(w, p)
  BY <1>2, <1>3, <1>4, <1>5, <1>6 DEF PostStep
<1>8. /\ UNCHANGED <<rec, main, overtaken, setter, unmarked, cut>>
      /\ faults' \in Nat /\ (faults' = 0 => faults = 0)
  BY <1>1 DEF PostStep, PostRead, PostRender, PostUploadFails, PostUnlink, PostPush, PostFails,
     PostOnly, MetaKept, accidents, Fault
<1> QED
  BY <1>7, <1>8

LEMMA TwoTakes ==
    ASSUME NEW u, NEW v, u # v
    PROVE  Cardinality({u, v}) = 2
<1>1. IsFiniteSet({u}) /\ Cardinality({u}) = 1 /\ v \notin {u}
  BY FS_Singleton
<1>2. Cardinality({u} \cup {v}) = Cardinality({u}) + 1
  BY <1>1, FS_AddElement, Zenon
<1>3. {u} \cup {v} = {u, v}
  OBVIOUS
<1>4. Cardinality({u, v}) = Cardinality({u}) + 1
  BY <1>2, <1>3
<1> QED
  BY <1>1, <1>4

LEMMA PostStepInv ==
    ASSUME CountInv, FlagInv, PostInv, topic = "recording", topic' = topic,
           NEW w \in Posters, PostStep(w), StartsAlone', crossed => crossed'
    PROVE  CountInv' /\ FlagInv' /\ PostInv'
<1>1. PICK p \in Post : /\ UpdatePost(w, p)
                        /\ Reads(w, p) \/ Renders(w, p) \/ Unlinks(w, p)
                           \/ Pushes(w, p) \/ Errs(w, p)
  BY PostEffect
<1>2. /\ UNCHANGED <<rec, main, overtaken, setter, unmarked, cut>>
      /\ faults' \in Nat /\ (faults' = 0 => faults = 0)
  BY PostEffect
<1>3. /\ take \in [Takes -> TakeStatus] /\ post \in [Posters -> Post] /\ post[w] \in Post
      /\ jobs \in Nat
      /\ \A x \in Posters : post[x].pc # "idle" =>
            post[x].last \in Takes /\ take[post[x].last] \in {"raw", "published", "lost"}
  BY DEF CountInv, RecTypes, FilesStopped
<1>4. /\ post' \in [Posters -> Post] /\ post'[w] = p
      /\ \A x \in Posters \ {w} : post'[x] = post[x]
  BY <1>1, <1>3 DEF UpdatePost
<1>5. /\ take' \in [Takes -> TakeStatus] /\ Active' = Active
      /\ \A t \in Takes : take[t] \in {"raw", "published", "lost"} =>
            take'[t] \in {"raw", "published", "lost"}
      /\ jobs' \in Nat
  <2>1. CASE Reads(w, p) \/ Renders(w, p) \/ Errs(w, p)
    BY <1>3, <2>1 DEF Reads, Renders, Errs, Active, TakesOf
  <2>2. CASE Unlinks(w, p)
    BY <1>3, <2>2 DEF Unlinks, Active, TakesOf, TakeStatus
  <2>3. CASE Pushes(w, p)
    BY <1>3, <2>3 DEF Pushes, Active, TakesOf, TakeStatus
  <2> QED
    BY <1>1, <2>1, <2>2, <2>3
<1>6. CountInv'
  <2>1. RecTypes'
    BY <1>2, <1>4, <1>5 DEF CountInv, RecTypes, MetaTypes
  <2>2. AudioFree' /\ OneActive'
    BY <1>2, <1>5 DEF CountInv, AudioFree, OneActive, At
  <2>3. p.pc # "idle" => p.last \in Takes /\ take[p.last] \in {"raw", "published", "lost"}
    BY <1>1, <1>3 DEF Reads, Renders, Unlinks, Pushes, Errs, TakesOf, Post
  <2>4. FilesStopped'
    BY <1>3, <1>4, <1>5, <2>3 DEF FilesStopped
  <2> QED
    BY <2>1, <2>2, <2>4 DEF CountInv
<1>7. FlagInv'
  BY <1>2, <1>5, FlagKept
<1>8. PostInv'
  <2> SUFFICES ASSUME Unfailing'
               PROVE  /\ \A x \in Posters : OneFile(post'[x])
                      /\ \A t \in TakesOf("raw")' :
                            \/ jobs' > 0
                            \/ \E c \in Callers : Publishing(rec[c])
                            \/ \E x \in Posters : Rendering(post'[x], t)
                      /\ \A t \in TakesOf("lost")' :
                            \E x \in Posters : post'[x].pc = "push" /\ post'[x].last = t
    BY <1>2 DEF PostInv
  <2>1. ~piled /\ ~piled' /\ ~Errs(w, p) /\ Unfailing
    <3>1. ~piled' /\ ~cut' /\ faults' = 0
      BY DEF Unfailing
    <3>2. ~Errs(w, p)
      BY <3>1 DEF Errs
    <3>3. piled => piled'
      BY <1>1, <3>2, Zenon DEF Reads, Renders, Unlinks, Pushes
    <3> QED
      BY <1>2, <3>1, <3>2, <3>3 DEF Unfailing
  <2>2. /\ \A x \in Posters : OneFile(post[x])
        /\ \A t \in TakesOf("raw") : \/ jobs > 0
                                     \/ \E c \in Callers : Publishing(rec[c])
                                     \/ \E x \in Posters : Rendering(post[x], t)
        /\ \A t \in TakesOf("lost") : \E x \in Posters : post[x].pc = "push" /\ post[x].last = t
    BY <2>1 DEF PostInv
  <2>3. CASE Reads(w, p)
    <3>1. p.pc = "render" => TakesOf("raw") = {p.last}
      <4> SUFFICES ASSUME p.pc = "render", NEW u \in TakesOf("raw"), u # p.last PROVE FALSE
        BY <2>3 DEF Reads
      <4>1. IsFiniteSet(TakesOf("raw"))
        <5>1. IsFiniteSet(Takes)
          BY FS_Interval, RoomMetadataAssumption DEF Takes
        <5> QED
          BY <5>1, FS_Subset DEF TakesOf
      <4>2. Cardinality({u, p.last}) = 2
        BY TwoTakes
      <4>3. {u, p.last} \subseteq TakesOf("raw")
        BY <2>3 DEF Reads
      <4>4. Cardinality({u, p.last}) <= Cardinality(TakesOf("raw"))
        BY <4>1, <4>3, FS_Subset
      <4>5. Cardinality(TakesOf("raw")) \in Nat
        BY <4>1, FS_CardinalityType
      <4>6. ~(Cardinality(TakesOf("raw")) > 1)
        BY <2>1, <2>3 DEF Reads
      <4> QED
        BY <4>2, <4>4, <4>5, <4>6
    <3>2. OneFile(p) /\ UNCHANGED <<TakesOf("raw"), TakesOf("lost")>>
      BY <2>3, <3>1 DEF Reads, OneFile, TakesOf
    <3>3. \A t \in TakesOf("raw") : Rendering(post'[w], t)
      BY <1>4, <2>3, <3>1 DEF Reads, Rendering
    <3>4. \A t \in TakesOf("lost") : \E x \in Posters : post'[x].pc = "push" /\ post'[x].last = t
      BY <1>4, <2>2, <2>3 DEF Reads
    <3> QED
      BY <1>4, <2>2, <3>2, <3>3, <3>4
  <2>4. CASE Renders(w, p)
    <3>1. OneFile(p) /\ UNCHANGED <<jobs, TakesOf("raw"), TakesOf("lost")>>
      BY <2>2, <2>4 DEF Renders, OneFile, TakesOf
    <3>2. \A t \in TakesOf("raw") : Rendering(post[w], t) => Rendering(p, t)
      BY <2>4 DEF Renders, Rendering, TakesOf
    <3>3. \A t \in TakesOf("lost") : \E x \in Posters : post'[x].pc = "push" /\ post'[x].last = t
      BY <1>4, <2>2, <2>4 DEF Renders
    <3>4. \A t \in TakesOf("raw") :
             \A x \in Posters : Rendering(post[x], t) => Rendering(post'[x], t)
      BY <1>4, <3>2
    <3> QED
      BY <1>4, <2>2, <3>1, <3>3, <3>4
  <2>5. CASE Unlinks(w, p)
    <3>1. /\ p.pc = "push" /\ p.files = post[w].files /\ p.last = post[w].last
          /\ p.uploaded = post[w].uploaded
      BY <1>3, <2>5 DEF Unlinks, Post
    <3>2. OneFile(p) /\ post[w].files = {p.last}
      BY <2>2, <2>5, <3>1 DEF Unlinks, OneFile
    <3>3. /\ TakesOf("raw")' \subseteq TakesOf("raw") \ {p.last}
          /\ TakesOf("lost")' \subseteq TakesOf("lost") \cup {p.last}
      BY <1>3, <2>5, <3>2 DEF Unlinks, TakesOf
    <3>4. \A t \in TakesOf("raw")' : \A x \in Posters :
             Rendering(post[x], t) => Rendering(post'[x], t)
      BY <1>4, <3>1, <3>3 DEF Rendering
    <3>5. ASSUME NEW t \in TakesOf("lost")'
          PROVE  \E x \in Posters : post'[x].pc = "push" /\ post'[x].last = t
      <4>1. CASE t = p.last
        BY <1>4, <3>1, <4>1
      <4>2. CASE t # p.last
        <5>1. PICK x \in Posters : post[x].pc = "push" /\ post[x].last = t
          BY <2>2, <3>3, <4>2
        <5>2. x # w
          BY <2>5, <5>1 DEF Unlinks
        <5> QED
          BY <1>4, <5>1, <5>2
      <4> QED
        BY <4>1, <4>2
    <3>6. jobs' = jobs
      BY <2>5 DEF Unlinks
    <3> QED
      BY <1>4, <2>2, <3>2, <3>3, <3>4, <3>5, <3>6
  <2>6. CASE Pushes(w, p)
    <3>1. post[w].uploaded /\ post[w].last \in Takes /\ OneFile(p)
      BY <1>3, <2>2, <2>6 DEF Pushes, OneFile
    <3>2. /\ TakesOf("raw")' \subseteq TakesOf("raw")
          /\ TakesOf("lost")' \subseteq TakesOf("lost") \ {post[w].last}
      BY <1>3, <2>6, <3>1 DEF Pushes, TakesOf
    <3>3. \A t \in TakesOf("raw")' : \A x \in Posters :
             Rendering(post[x], t) => Rendering(post'[x], t)
      BY <1>4, <2>6 DEF Pushes, Rendering
    <3>4. \A t \in TakesOf("lost")' : \E x \in Posters : post'[x].pc = "push" /\ post'[x].last = t
      BY <1>4, <2>2, <3>2
    <3>5. jobs' = jobs
      BY <2>6 DEF Pushes
    <3> QED
      BY <1>4, <2>2, <3>1, <3>2, <3>3, <3>4, <3>5
  <2> QED
    BY <1>1, <2>1, <2>3, <2>4, <2>5, <2>6
<1> QED
  BY <1>6, <1>7, <1>8

(***************************************************************************)
(* All steps.                                                              *)
(***************************************************************************)
LEMMA RecordingStepInv ==
    ASSUME RecordingInv, topic = "recording", topic' = topic, RecordingStep
    PROVE  RecordingInv'
<1>1. StartsAlone' /\ (crossed => crossed') /\ CountInv /\ FlagInv /\ PostInv
  BY StartIsAlone DEF RecordingStep, RecordingInv
<1> SUFFICES CountInv' /\ FlagInv' /\ PostInv'
  BY DEF RecordingInv
<1>2. ASSUME NEW c \in Callers, CallStep(c)
      PROVE  CountInv' /\ FlagInv' /\ PostInv'
  BY <1>1, <1>2, CallCountInv, CallFlagInv, CallPostInv
<1>3. ASSUME NEW w \in Posters, PostStep(w)
      PROVE  CountInv' /\ FlagInv' /\ PostInv'
  BY <1>1, <1>3, PostStepInv
<1>4. ASSUME \/ \E p \in People : Leave(p) \/ LeaveFails(p)
             \/ ShareScreen \/ UnshareScreen
      PROVE  CountInv' /\ FlagInv' /\ PostInv'
  <2>1. faults \in Nat /\ MetaTypes
    BY <1>1 DEF CountInv, RecTypes, MetaTypes
  <2>2. /\ UNCHANGED <<take, post, rec, jobs, cut, piled, unmarked, main, overtaken, setter>>
        /\ faults' = faults \/ faults' = faults + 1
    BY <1>4 DEF Leave, LeaveFails, ShareScreen, UnshareScreen, filesAndJobs, accidents,
       MetaKept, NoFault, Fault
  <2>3. MetaTypes' /\ Active' = Active /\ (faults' = 0 => faults = 0)
    BY <2>1, <2>2 DEF MetaTypes, Active, TakesOf
  <2> QED
    BY <1>1, <2>2, <2>3, CountKept, FlagKept, PostKept
<1> QED
  BY <1>2, <1>3, <1>4 DEF RecordingStep

(* A write of the metadata by an operation that owns other fields keeps    *)
(* the flag, or restores an old one, which is recorded.                    *)
FlagLeft == ~overtaken' => ~overtaken /\ main'.recorder = main.recorder

LEMMA OthersWrite ==
    ASSUME NEW new, NEW own, UpdateRoomMetadata(new, own), "recorder" \in DOMAIN main,
           "recorder" \notin own
    PROVE  FlagLeft
<1>1. main' = new /\ overtaken' = (overtaken \/ Clobbers(new, own))
  BY DEF UpdateRoomMetadata
<1>2. ~Clobbers(new, own) => new["recorder"] = main["recorder"]
  BY DEF Clobbers
<1> QED
  BY <1>1, <1>2 DEF FlagLeft

LEMMA SettingLeavesFlag ==
    ASSUME NEW busy, SettingStep(busy), "recorder" \in DOMAIN main
    PROVE  FlagLeft
<1>1. ASSUME NEW r \in Setters, SettingWrite(r)
      PROVE  FlagLeft
  <2>1. PICK b \in BOOLEAN :
           UpdateRoomMetadata([setter[r].snap EXCEPT !.setting = b], {"setting"})
    BY <1>1 DEF SettingWrite
  <2> DEFINE new == [setter[r].snap EXCEPT !.setting = b]
  <2> HIDE DEF new
  <2>2. UpdateRoomMetadata(new, {"setting"}) /\ "recorder" \notin {"setting"}
    BY <2>1 DEF new
  <2> QED
    BY <2>2, OthersWrite
<1>2. ASSUME NEW r \in Setters, SettingReceive(r, busy) \/ SettingList(r) \/ SettingFails(r)
      PROVE  FlagLeft
  BY <1>2 DEF SettingReceive, SettingList, SettingFails, FlagLeft
<1> QED
  BY <1>1, <1>2 DEF SettingStep

LEMMA SettingKeepsTypes ==
    ASSUME NEW busy, SettingStep(busy), MetaTypes
    PROVE  MetaTypes'
<1>1. IdleSetter \in [pc : {"idle", "list", "write"}, snap : Meta]
  BY RecordingTypes DEF IdleSetter
<1>2. ASSUME NEW r \in Setters, SettingReceive(r, busy) \/ SettingList(r)
      PROVE  MetaTypes'
  BY <1>2 DEF SettingReceive, SettingList, MetaTypes
<1>3. ASSUME NEW r \in Setters, SettingFails(r)
      PROVE  MetaTypes'
  BY <1>1, <1>3 DEF SettingFails, Fault, MetaTypes
<1>4. ASSUME NEW r \in Setters, SettingWrite(r)
      PROVE  MetaTypes'
  <2>1. PICK b \in BOOLEAN : main' = [setter[r].snap EXCEPT !.setting = b]
    BY <1>4 DEF SettingWrite, UpdateRoomMetadata
  <2>2. main' \in Meta
    BY <2>1 DEF MetaTypes, Meta
  <2> QED
    BY <1>1, <1>4, <2>2 DEF SettingWrite, MetaTypes
<1> QED
  BY <1>2, <1>3, <1>4 DEF SettingStep

LEMMA SettingKeepsSnaps ==
    ASSUME NEW busy, SettingStep(busy), SnapsComplete, UNCHANGED run
    PROVE  SnapsComplete'
<1>1. ASSUME NEW r \in Setters, SettingReceive(r, busy) \/ SettingList(r) \/ SettingFails(r)
      PROVE  SnapsComplete'
  BY <1>1 DEF SettingReceive, SettingList, SettingFails, SnapsComplete, IdleSetter, FirstMeta
<1>2. ASSUME NEW r \in Setters, SettingWrite(r)
      PROVE  SnapsComplete'
  BY <1>2 DEF SettingWrite, UpdateRoomMetadata, SnapsComplete, IdleSetter, FirstMeta
<1> QED
  BY <1>1, <1>2 DEF SettingStep

(* A runner turns to q, which has read the flag with the rest. *)
HasRead(q) == "snap" \in DOMAIN q /\ "recorder" \in DOMAIN q.snap

LEMMA RunnerTurns ==
    ASSUME SnapsComplete, NEW r \in Runners, NEW q, Become(r, q), HasRead(q),
           setter' = setter, "recorder" \in DOMAIN main'
    PROVE  SnapsComplete'
<1>1. DOMAIN run' = Runners /\ run'[r] = q /\ \A x \in Runners \ {r} : run'[x] = run[x]
  BY DEF Become, SnapsComplete
<1> QED
  BY <1>1 DEF SnapsComplete, HasRead

LEMMA RunnersComplete ==
    ASSUME SnapsComplete, NEW r \in Runners
    PROVE  /\ HasRead(IdleRun) /\ HasRead(run[r]) /\ HasRead(AfterClosing(r))
           /\ \A pc : HasRead([run[r] EXCEPT !.pc = pc])
BY DEF SnapsComplete, HasRead, IdleRun, FirstMeta, AfterClosing

LEMMA SubWriteRemembers ==
    ASSUME NEW s, NEW new, NEW own, UpdateSubMetadata(s, new, own)
    PROVE  overtaken => overtaken'
BY DEF UpdateSubMetadata

(* Steps of a breakout operation that leave the main room alone. *)
LEMMA BreakoutWorks ==
    ASSUME SnapsComplete, NEW r \in Runners,
           \/ \E b \in BOOLEAN, l \in Plans : StartReceive(r, b, l)
           \/ \E s \in Subs : \/ \E us \in SUBSET People : AssignReceive(r, s, us)
                              \/ UpsertSub(r, s) \/ UpsertFails(r, s)
                              \/ CloseRead(r, s) \/ CloseFails(r, s)
           \/ StartList(r) \/ StartClear(r) \/ ClearFails(r) \/ AddJob(r)
           \/ EndReceive(r) \/ EndClear(r) \/ EndList(r)
           \/ CloseWrite(r) \/ CloseGone(r)
           \/ AssignList(r) \/ AssignSubRead(r) \/ AssignSubWrite(r)
           \/ AssignFails(r) \/ HostFails(r)
    PROVE  SnapsComplete' /\ FlagLeft
<1>1. /\ HasRead(IdleRun) /\ HasRead(run[r]) /\ HasRead(AfterClosing(r))
      /\ \A pc : HasRead([run[r] EXCEPT !.pc = pc])
      /\ "recorder" \in DOMAIN main
  BY RunnersComplete DEF SnapsComplete
<1>2. ASSUME \/ \E b \in BOOLEAN, l \in Plans : StartReceive(r, b, l)
             \/ \E s \in Subs, us \in SUBSET People : AssignReceive(r, s, us)
             \/ EndReceive(r)
      PROVE  SnapsComplete' /\ FlagLeft
  <2>1. \E q : Become(r, q) /\ HasRead(q)
    <3>1. ASSUME NEW b \in BOOLEAN, NEW l \in Plans, StartReceive(r, b, l)
          PROVE  \E q : Become(r, q) /\ HasRead(q)
      <4> DEFINE q == [IdleRun EXCEPT !.op = "start", !.pc = "list", !.timed = b,
                                      !.n = started + 1, !.lists = l]
      <4>1. Become(r, q) /\ HasRead(q)
        BY <3>1 DEF StartReceive, HasRead, IdleRun, FirstMeta
      <4> QED
        BY <4>1
    <3>2. ASSUME NEW s \in Subs, NEW us \in SUBSET People, AssignReceive(r, s, us)
          PROVE  \E q : Become(r, q) /\ HasRead(q)
      <4> DEFINE q == [IdleRun EXCEPT !.op = "assign", !.pc = "list", !.at = s, !.users = us]
      <4>1. Become(r, q) /\ HasRead(q)
        BY <3>2 DEF AssignReceive, HasRead, IdleRun, FirstMeta
      <4> QED
        BY <4>1
    <3>3. ASSUME EndReceive(r)
          PROVE  \E q : Become(r, q) /\ HasRead(q)
      <4> DEFINE q == [IdleRun EXCEPT !.op = "end", !.pc = "clear"]
      <4>1. Become(r, q) /\ HasRead(q)
        BY <3>3 DEF EndReceive, HasRead, IdleRun, FirstMeta
      <4> QED
        BY <4>1
    <3> QED
      BY <1>2, <3>1, <3>2, <3>3
  <2>2. UNCHANGED <<main, overtaken, setter>>
    BY <1>2 DEF StartReceive, AssignReceive, EndReceive, MainKept
  <2> QED
    BY <1>1, <2>1, <2>2, RunnerTurns DEF FlagLeft
<1>3. ASSUME NEW s \in Subs, UpsertSub(r, s) \/ UpsertFails(r, s)
      PROVE  SnapsComplete' /\ FlagLeft
  <2>1. \E q : Become(r, q) /\ HasRead(q)
    <3> DEFINE q == [run[r] EXCEPT !.todo = run[r].todo \ {s},
                                   !.pc = IF run[r].todo = {s} THEN "write" ELSE "upsert"]
    <3>1. HasRead(q)
      BY <1>1 DEF HasRead
    <3>2. Become(r, q)
      BY <1>3 DEF UpsertSub, UpsertFails
    <3> QED
      BY <3>1, <3>2
  <2>2. UNCHANGED <<main, overtaken, setter>>
    BY <1>3 DEF UpsertSub, UpsertFails, MainKept, Quietly
  <2> QED
    BY <1>1, <2>1, <2>2, RunnerTurns DEF FlagLeft
<1>4. ASSUME NEW s, NextSub(r, s)
      PROVE  \E q : Become(r, q) /\ HasRead(q)
  <2> DEFINE q == [run[r] EXCEPT !.pc = "closeRead", !.todo = run[r].todo \ {s},
                                 !.at = NoSub, !.subSnap = NoSubRoom]
  <2>1. HasRead(q)
    BY <1>1 DEF HasRead
  <2>2. Become(r, AfterClosing(r)) \/ Become(r, q)
    BY <1>4 DEF NextSub
  <2> QED
    BY <1>1, <2>1, <2>2
<1>5. ASSUME NEW s \in Subs, CloseRead(r, s) \/ CloseFails(r, s)
      PROVE  SnapsComplete' /\ FlagLeft
  <2>1. \E q : Become(r, q) /\ HasRead(q)
    <3>1. CASE NextSub(r, s)
      BY <1>4, <3>1
    <3>2. CASE Become(r, [run[r] EXCEPT !.pc = "closeWrite", !.at = s, !.subSnap = sub[s]])
      BY <1>1, <3>2 DEF HasRead
    <3> QED
      BY <1>5, <3>1, <3>2 DEF CloseRead, CloseFails
  <2>2. UNCHANGED <<main, overtaken, setter>>
    BY <1>5 DEF CloseRead, CloseFails, MainKept, Quietly
  <2> QED
    BY <1>1, <2>1, <2>2, RunnerTurns DEF FlagLeft
<1>6. ASSUME CloseWrite(r) \/ CloseGone(r)
      PROVE  SnapsComplete' /\ FlagLeft
  <2>1. \E q : Become(r, q) /\ HasRead(q)
    BY <1>4, <1>6 DEF CloseWrite, CloseGone
  <2>2. UNCHANGED <<main, setter>> /\ (overtaken => overtaken')
    BY <1>6, SubWriteRemembers DEF CloseWrite, CloseGone, MainKept, Quietly
  <2> QED
    BY <1>1, <2>1, <2>2, RunnerTurns DEF FlagLeft
<1>7. ASSUME StartList(r) \/ EndList(r) \/ AssignList(r) \/ AssignSubRead(r)
      PROVE  SnapsComplete' /\ FlagLeft
  <2>1. \E q : Become(r, q) /\ HasRead(q)
    BY <1>1, <1>7 DEF StartList, EndList, AssignList, AssignSubRead, Return, HasRead
  <2>2. UNCHANGED <<main, overtaken, setter>>
    BY <1>7 DEF StartList, EndList, AssignList, AssignSubRead, MainKept, Quietly
  <2> QED
    BY <1>1, <2>1, <2>2, RunnerTurns DEF FlagLeft
<1>8. ASSUME \/ StartClear(r) \/ EndClear(r) \/ ClearFails(r) \/ AddJob(r)
             \/ AssignSubWrite(r) \/ AssignFails(r) \/ HostFails(r)
      PROVE  SnapsComplete' /\ FlagLeft
  <2>1. \E q : Become(r, q) /\ HasRead(q)
    <3>1. \E pc : Goto(r, pc) \/ Return(r)
      BY <1>8 DEF StartClear, EndClear, ClearFails, AfterClear, AddJob, AssignSubWrite,
         AssignFails, HostFails
    <3> QED
      BY <1>1, <3>1 DEF Goto, Return, Become
  <2>2. UNCHANGED <<main, setter>> /\ (overtaken => overtaken')
    <3>1. CASE AssignSubWrite(r)
      BY <3>1, SubWriteRemembers DEF AssignSubWrite, Quietly
    <3>2. CASE \/ StartClear(r) \/ EndClear(r) \/ ClearFails(r) \/ AddJob(r)
               \/ AssignFails(r) \/ HostFails(r)
      BY <3>2 DEF StartClear, EndClear, Clear, ClearFails, AddJob, AssignFails, HostFails,
         MainKept, Quietly
    <3> QED
      BY <1>8, <3>1, <3>2
  <2> QED
    BY <1>1, <2>1, <2>2, RunnerTurns DEF FlagLeft
<1> QED
  BY <1>2, <1>3, <1>5, <1>6, <1>7, <1>8

(* Steps that write to the main room. *)
LEMMA BreakoutWrites ==
    ASSUME SnapsComplete, NEW r \in Runners, StartWrite(r) \/ EndWrite(r) \/ AssignWrite(r)
    PROVE  SnapsComplete' /\ FlagLeft
<1>1. /\ HasRead(run[r]) /\ HasRead(AfterClosing(r))
      /\ \A pc : HasRead([run[r] EXCEPT !.pc = pc])
      /\ "recorder" \in DOMAIN main /\ "recorder" \in DOMAIN run[r].snap
  BY RunnersComplete DEF SnapsComplete
<1> DEFINE own == {"breakout", "timed", "assigned"}
<1>2. CASE StartWrite(r)
  <2> DEFINE new == [run[r].snap EXCEPT !.breakout = run[r].n, !.timed = run[r].timed,
                                        !.assigned = run[r].lists]
  <2>1. UpdateRoomMetadata(new, own) /\ Goto(r, "clear") /\ setter' = setter
    BY <1>2 DEF StartWrite, Quietly
  <2>2. "recorder" \in DOMAIN new
    BY <1>1
  <2> HIDE DEF new
  <2>3. FlagLeft
    BY <1>1, <2>1, OthersWrite
  <2>4. SnapsComplete'
    BY <1>1, <2>1, <2>2, RunnerTurns DEF UpdateRoomMetadata, Goto, Become
  <2> QED
    BY <2>3, <2>4
<1>3. CASE EndWrite(r)
  <2> DEFINE new == [run[r].snap EXCEPT !.breakout = NoBreakout, !.timed = FALSE,
                                        !.assigned = NoLists]
             q == [run[r] EXCEPT !.pc = "closeRead", !.todo = ToClose(run[r].snap)]
  <2>1. UpdateRoomMetadata(new, own) /\ setter' = setter
    BY <1>3 DEF EndWrite, Quietly
  <2>2. "recorder" \in DOMAIN new /\ HasRead(q)
    BY <1>1 DEF HasRead
  <2>3. Become(r, AfterClosing(r)) \/ Become(r, q)
    BY <1>3 DEF EndWrite
  <2> HIDE DEF new, q
  <2>4. FlagLeft
    BY <1>1, <2>1, OthersWrite
  <2>5. "recorder" \in DOMAIN main'
    BY <2>1, <2>2 DEF UpdateRoomMetadata
  <2>6. SnapsComplete'
    BY <1>1, <2>1, <2>2, <2>3, <2>5, RunnerTurns
  <2> QED
    BY <2>4, <2>6
<1>4. CASE AssignWrite(r)
  <2> DEFINE new == [run[r].snap EXCEPT !.assigned[run[r].at] = NewAssigned(r)]
  <2>1. /\ main' = new /\ (overtaken => overtaken')
        /\ Clobbers(new, {"assigned"}) => overtaken'
        /\ Goto(r, "subRead") /\ setter' = setter
    BY <1>4 DEF AssignWrite, Quietly
  <2>2. "recorder" \in DOMAIN new
    BY <1>1
  <2> HIDE DEF new
  <2>3. ~Clobbers(new, {"assigned"}) => new["recorder"] = main["recorder"]
    BY <1>1 DEF Clobbers
  <2>4. FlagLeft
    BY <2>1, <2>3 DEF FlagLeft
  <2>5. SnapsComplete'
    BY <1>1, <2>1, <2>2, RunnerTurns DEF Goto, Become
  <2> QED
    BY <2>4, <2>5
<1> QED
  BY <1>2, <1>3, <1>4

LEMMA BreakoutLeavesFlag ==
    ASSUME SnapsComplete, BreakoutStep
    PROVE  SnapsComplete' /\ FlagLeft
<1> USE DEF Runners
<1>1. "recorder" \in DOMAIN main /\ \A r \in Runners :
         /\ HasRead(IdleRun) /\ HasRead(run[r])
         /\ \A pc : HasRead([run[r] EXCEPT !.pc = pc])
  BY RunnersComplete DEF SnapsComplete
<1>2. ASSUME NEW r \in Runners, Serve(r)
      PROVE  SnapsComplete' /\ FlagLeft
  BY <1>2, BreakoutWorks, BreakoutWrites DEF Serve
<1>3. CASE HostAsks
  BY <1>3, BreakoutWorks DEF HostAsks
<1>4. CASE AutoTake \/ AutoList \/ Complete \/ AutoFails
  <2>1. Timer \in Runners
    OBVIOUS
  <2>2. \E q : Become(Timer, q) /\ HasRead(q)
    <3>1. CASE AutoTake
      <4> DEFINE q == [IdleRun EXCEPT !.op = "auto", !.pc = "list", !.n = timer.started]
      <4>1. Become(Timer, q) /\ HasRead(q)
        BY <1>1, <3>1 DEF AutoTake, HasRead
      <4> QED
        BY <4>1
    <3>2. CASE AutoList
      <4> DEFINE q == [run[Timer] EXCEPT !.pc = IF RightSession(main, run[Timer].n)
                                                THEN "write" ELSE "complete",
                                         !.snap = main]
      <4>1. Become(Timer, q) /\ HasRead(q)
        BY <1>1, <3>2 DEF AutoList, HasRead
      <4> QED
        BY <4>1
    <3>3. CASE Complete
      BY <1>1, <3>3 DEF Complete, Return
    <3>4. CASE AutoFails
      BY <1>1, <3>4 DEF AutoFails, Goto, Become
    <3> QED
      BY <1>4, <3>1, <3>2, <3>3, <3>4
  <2>3. UNCHANGED <<main, overtaken, setter>>
    BY <1>4 DEF AutoTake, AutoList, Complete, AutoFails, MainKept, Quietly
  <2> QED
    BY <1>1, <2>1, <2>2, <2>3, RunnerTurns DEF FlagLeft
<1>5. CASE ServerCrash
  <2>1. /\ run' = [r \in Runners |-> IdleRun] /\ setter' = [r \in Setters |-> IdleSetter]
        /\ UNCHANGED <<main, overtaken>>
    BY <1>5 DEF ServerCrash, MainKept
  <2> QED
    BY <2>1 DEF SnapsComplete, FlagLeft, IdleRun, IdleSetter, FirstMeta
<1>6. CASE \E s \in Subs : SubRoomExpires(s)
  BY <1>6 DEF SubRoomExpires, MainKept, Quietly, SnapsComplete, FlagLeft
<1>7. ASSUME NEW r \in Runners, \/ HostFails(r) \/ ClearFails(r) \/ AssignFails(r)
                                \/ \E s \in Subs : UpsertFails(r, s) \/ CloseFails(r, s)
      PROVE  SnapsComplete' /\ FlagLeft
  BY <1>7, BreakoutWorks
<1> QED
  BY <1>2, <1>3, <1>4, <1>5, <1>6, <1>7 DEF BreakoutStep, RunTimer, BreakoutFault

LEMMA AdmissionLeavesFlag ==
    ASSUME AdmissionInv, topic = "admission", AdmissionStep
    PROVE  FlagLeft
<1>1. ASSUME NEW r \in Admins, ToggleWrite(r)
      PROVE  FlagLeft
  <2> DEFINE new == [adm[r].snap EXCEPT !.waitingRoom = adm[r].on]
  <2>1. UpdateRoomMetadata(new, {"waitingRoom"})
    BY <1>1 DEF ToggleWrite
  <2>2. "recorder" \in DOMAIN main
    BY DEF AdmissionInv, MetaTypes, Meta
  <2> HIDE DEF new
  <2> QED
    BY <2>1, <2>2, OthersWrite
<1>2. Elsewhere => FlagLeft
  BY DEF Elsewhere, FlagLeft
<1>3. ASSUME NEW p \in Guests, IssueToken(p) \/ Connect(p) \/ Disconnect(p)
      PROVE  FlagLeft
  BY <1>2, <1>3 DEF IssueToken, Connect, Disconnect
<1>4. ASSUME NEW r \in Admins,
             \/ \E on \in BOOLEAN : ToggleReceive(r, on)
             \/ ToggleList(r) \/ ListWaiting(r) \/ ApproveReceive(r) \/ RequestFails(r)
      PROVE  FlagLeft
  BY <1>2, <1>4 DEF ToggleReceive, ToggleList, ListWaiting, ApproveReceive, RequestFails
<1>5. ASSUME NEW r \in Admins, NEW p \in Guests,
             \/ Admit(r, p) \/ RevokeGet(r, p) \/ RoleGet(r, p) \/ ShareList(r, p)
             \/ ShareGrant(r, p) \/ RevokeWrite(r, p) \/ RoleWrite(r, p)
      PROVE  FlagLeft
  BY <1>2, <1>5 DEF Admit, RevokeGet, RoleGet, ShareList, ShareGrant, RevokeWrite, RoleWrite,
     SetSources
<1> QED
  BY <1>1, <1>3, <1>4, <1>5 DEF AdmissionStep

(* Where recordings are not at work there are none. *)
LEMMA RecordingsElsewhere ==
    ASSUME RecordingInv, topic # "recording", topic' = topic, UNCHANGED recordingVars,
           FlagLeft, topic = "breakout" => SnapsComplete'
    PROVE  RecordingInv'
<1>1. RecordingInit /\ RecordingInit'
  BY DEF RecordingInv, RecordingInit, recordingVars
<1>2. Active = {} /\ \A c \in Callers : rec[c].op = "none"
  BY <1>1, RecordingTypes DEF RecordingInit, Active, TakesOf
<1>3. ~overtaken => main.recorder = NoOne
  BY <1>1, <1>2 DEF RecordingInit, RecordingInv, FlagInv, Calm, ClearExpected, Clearing
<1>4. (~overtaken => main.recorder = NoOne)' /\ (topic = "recording" => MetaTypes)'
  BY <1>3 DEF FlagLeft
<1>5. CountInv' /\ FlagInv' /\ PostInv'
  BY <1>1, <1>4, NothingRecorded, PTL
<1> QED
  BY <1>1, <1>5 DEF RecordingInv

LEMMA RecordingNextInv ==
    ASSUME AdmissionInv, RecordingInv, [Next]_vars
    PROVE  RecordingInv'
<1>1. CASE Record
  BY <1>1, RecordingStepInv DEF Record
<1>2. CASE Break(BreakoutStep)
  <2>1. topic = "breakout" /\ topic' = topic /\ UNCHANGED recordingVars
    BY <1>2 DEF Break
  <2>2. SnapsComplete' /\ FlagLeft
    BY <1>2, <2>1, BreakoutLeavesFlag DEF Break, RecordingInv
  <2> QED
    BY <2>1, <2>2, RecordingsElsewhere
<1>3. CASE Govern
  <2>1. topic = "admission" /\ topic' = topic /\ UNCHANGED recordingVars
    BY <1>3 DEF Govern
  <2>2. FlagLeft
    BY <1>3, <2>1, AdmissionLeavesFlag DEF Govern
  <2> QED
    BY <2>1, <2>2, RecordingsElsewhere
<1>4. CASE Set
  <2>1. /\ topic' = topic /\ UNCHANGED recordingVars /\ UNCHANGED breakoutVars
        /\ \E busy : SettingStep(busy)
    BY <1>4 DEF Set
  <2>2. UNCHANGED <<take, post, rec, jobs, cut, piled, unmarked, crossed, run>>
    BY <2>1 DEF recordingVars, breakoutVars
  <2>3. CASE topic = "recording"
    <3>1. MetaTypes /\ "recorder" \in DOMAIN main
      BY <2>3 DEF RecordingInv, CountInv, RecTypes, MetaTypes, Meta
    <3>2. MetaTypes' /\ FlagLeft
      BY <2>1, <3>1, SettingLeavesFlag, SettingKeepsTypes
    <3>3. Active' = Active /\ StartsAlone'
      BY <2>2 DEF Active, TakesOf, RecordingInv, CountInv, StartsAlone
    <3>4. faults' = 0 => faults = 0
      BY <2>1, <3>1 DEF SettingStep, SettingReceive, SettingList, SettingWrite, SettingFails,
         Fault, MetaTypes
    <3>5. CountInv' /\ FlagInv' /\ PostInv'
      BY <2>1, <2>2, <3>2, <3>3, <3>4, CountKept, FlagKept, PostKept DEF RecordingInv, FlagLeft
    <3> QED
      BY <2>1, <2>3, <3>5 DEF RecordingInv
  <2>4. CASE topic # "recording"
    <3>1. "recorder" \in DOMAIN main
      BY <2>4, TopicsAssumption DEF RecordingInv, AdmissionInv, MetaTypes, Meta, SnapsComplete
    <3>2. FlagLeft
      BY <2>1, <3>1, SettingLeavesFlag
    <3>3. topic = "breakout" => SnapsComplete'
      BY <2>1, <2>2, SettingKeepsSnaps DEF RecordingInv
    <3> QED
      BY <2>1, <2>4, <3>2, <3>3, RecordingsElsewhere
  <2> QED
    BY <2>3, <2>4
<1>5. CASE UNCHANGED vars
  <2>1. /\ UNCHANGED <<take, post, rec, jobs, cut, piled, unmarked, crossed, run, topic>>
        /\ UNCHANGED recordingVars
        /\ UNCHANGED <<main, setter, faults, overtaken>>
    BY <1>5 DEF vars, metaVars, recordingVars, breakoutVars
  <2>2. MetaTypes' <=> MetaTypes
    BY <2>1 DEF MetaTypes
  <2>3. SnapsComplete' <=> SnapsComplete
    BY <2>1 DEF SnapsComplete
  <2>4. Active' = Active /\ StartsAlone' /\ FlagLeft
    BY <2>1 DEF Active, TakesOf, RecordingInv, CountInv, StartsAlone, FlagLeft
  <2>5. CASE topic = "recording"
    <3>1. MetaTypes
      BY <2>5 DEF RecordingInv, CountInv, RecTypes
    <3>2. CountInv' /\ FlagInv' /\ PostInv'
      BY <2>1, <2>2, <2>4, <3>1, CountKept, FlagKept, PostKept DEF RecordingInv
    <3> QED
      BY <2>1, <2>5, <3>2 DEF RecordingInv
  <2>6. CASE topic # "recording"
    BY <2>1, <2>3, <2>4, <2>6, RecordingsElsewhere DEF RecordingInv
  <2> QED
    BY <2>5, <2>6
<1> QED
  BY <1>1, <1>2, <1>3, <1>4, <1>5 DEF Next, Rest

(***************************************************************************)
(* Theorems.                                                               *)
(***************************************************************************)
(* The invariant of the recordings: what the requests under way know of    *)
(* flag and egresses, and what will still become of each file.             *)
THEOREM RecordingInvariantHolds == Spec => []RecordingInv
<1>1. Init => AdmissionInv /\ RecordingInv
  BY AdmissionInitInv, RecordingInitInv
<1>2. AdmissionInv /\ RecordingInv /\ [Next]_vars => AdmissionInv' /\ RecordingInv'
  BY AdmissionNextInv, RecordingNextInv
<1> QED
  BY <1>1, <1>2, PTL DEF Spec

(* The checks of startRecording keep recordings apart: two are active at   *)
(* once only if a start was served together with another request.          *)
THEOREM OneRecordingAlways == Spec => []OneRecording
<1>1. RecordingInv => OneRecording
  <2> SUFFICES ASSUME \A s, t \in Active : s = t
               PROVE  ~(Cardinality(Active) > 1)
    BY DEF RecordingInv, CountInv, OneActive, OneRecording, Active
  <2>1. CASE Active = {}
    BY <2>1, FS_EmptySet
  <2>2. CASE Active # {}
    <3>1. PICK t : Active = {t}
      BY <2>2
    <3>2. Cardinality({t}) = 1
      BY FS_Singleton
    <3>3. Cardinality(Active) = 1
      BY <3>1, <3>2
    <3> QED
      BY <3>3
  <2> QED
    BY <2>1, <2>2
<1> QED
  BY <1>1, RecordingInvariantHolds, PTL

(* The flag that everybody sees while they are recorded, written by        *)
(* startRecording and cleared by stopRecording, is right whenever no       *)
(* request is under way, but for the accidents that history names.         *)
THEOREM FlagMatchesEgressAlways == Spec => []FlagMatchesEgress
<1>1. RecordingInv => FlagMatchesEgress
  <2> SUFFICES ASSUME RecordingInv, CallersRest, Calm
               PROVE  (main.recorder # NoOne) <=> (Active # {})
    BY DEF FlagMatchesEgress, Calm, Active
  <2>1. \A c \in Callers : rec[c].op = "none"
    BY DEF CallersRest, BusyCallers
  <2> QED
    BY <2>1 DEF RecordingInv, FlagInv, MarkExpected, ClearExpected, Begun, Clearing
<1> QED
  BY <1>1, RecordingInvariantHolds, PTL

(* Every recording that stopRecording stopped becomes a video of the       *)
(* session, if nothing fails and no job finds the files of several.        *)
THEOREM StoppedIsPublishedAlways == Spec => []StoppedIsPublished
<1>1. RecordingInv => StoppedIsPublished
  <2> SUFFICES ASSUME RecordingInv, CallersRest, PostersRest, Unfailing
               PROVE  TakesOf("raw") = {} /\ TakesOf("lost") = {}
    BY DEF StoppedIsPublished, Unfailing
  <2>1. \A c \in Callers : ~Publishing(rec[c])
    BY DEF CallersRest, BusyCallers, Publishing, Clearing
  <2>2. jobs = 0 /\ \A w \in Posters : post[w].pc = "idle"
    BY RecordingTypes DEF PostersRest
  <2> QED
    BY <2>1, <2>2 DEF RecordingInv, PostInv, Rendering
<1> QED
  BY <1>1, RecordingInvariantHolds, PTL

(***************************************************************************)
(* The bounds of a behaviour, and the history of writes to the metadata.   *)
(***************************************************************************)
Bounds == asked \in 0..MaxAsked /\ faults \in 0..MaxFaults /\ overtaken \in BOOLEAN

Counted ==
    /\ asked' = asked \/ asked' \in 0..MaxAsked
    /\ faults' = faults \/ Fault
    /\ overtaken' = overtaken \/ overtaken' \in BOOLEAN

LEMMA AskedWithin ==
    ASSUME Bounds, NEW busy, IsFiniteSet(busy), AskBeside(busy)
    PROVE  asked' \in 0..MaxAsked
<1> DEFINE setting == {r \in Setters : setter[r].pc # "idle"}
           cost == 1 + Cardinality(busy) + Cardinality(setting)
<1>1. IsFiniteSet(setting)
  BY RoomMetadataAssumption, FS_Subset
<1>2. Cardinality(busy) \in Nat /\ Cardinality(setting) \in Nat
  BY <1>1, FS_CardinalityType
<1>3. asked + cost <= MaxAsked /\ asked' = asked + cost
  BY DEF AskBeside
<1> HIDE DEF setting
<1> QED
  BY <1>2, <1>3, RoomMetadataAssumption DEF Bounds

LEMMA BusyFinite ==
    /\ IsFiniteSet(BusyHosts) /\ IsFiniteSet(BusyCallers) /\ IsFiniteSet(BusyAdmins)
    /\ IsFiniteSet(BusyHosts \cup BusyCallers \cup BusyAdmins)
<1>1. IsFiniteSet(BusyHosts)
  BY BreakoutAssumption, FS_Subset DEF BusyHosts
<1>2. IsFiniteSet(BusyCallers)
  BY RecordingAssumption, FS_Subset DEF BusyCallers
<1>3. IsFiniteSet(BusyAdmins)
  BY AdmissionAssumption, FS_Subset DEF BusyAdmins
<1> QED
  BY <1>1, <1>2, <1>3, FS_Union

LEMMA OvertakenIsBoolean ==
    ASSUME NEW new, NEW own, UpdateRoomMetadata(new, own)
    PROVE  overtaken' \in BOOLEAN
BY Zenon DEF UpdateRoomMetadata

LEMMA BreakoutCounted ==
    ASSUME Bounds, BreakoutStep
    PROVE  Counted
<1>1. CASE HostAsks
  <2>1. Ask /\ UNCHANGED <<faults, overtaken>>
    BY <1>1, Zenon DEF HostAsks, StartReceive, EndReceive, AssignReceive, MainKept
  <2> QED
    BY <2>1, BusyFinite, AskedWithin DEF Ask, Counted
<1>2. ASSUME NEW r, Serve(r)
      PROVE  Counted
  <2>1. UNCHANGED <<asked, faults>>
    BY <1>2, Zenon DEF Serve, StartList, StartWrite, StartClear, AddJob, EndClear, EndList, EndWrite,
       CloseWrite, CloseGone, AssignList, AssignWrite, AssignSubRead, AssignSubWrite, UpsertSub,
       CloseRead, Clear, Quietly
  <2>2. CASE \/ StartList(r) \/ StartClear(r) \/ AddJob(r) \/ EndClear(r) \/ EndList(r)
             \/ CloseGone(r) \/ AssignList(r) \/ AssignSubRead(r)
             \/ \E s \in Subs : UpsertSub(r, s) \/ CloseRead(r, s)
    BY <2>1, <2>2, Zenon DEF StartList, StartClear, AddJob, EndClear, EndList, CloseGone, AssignList,
       AssignSubRead, UpsertSub, CloseRead, Clear, MainKept, Counted
  <2>3. CASE StartWrite(r) \/ EndWrite(r)
    BY <2>1, <2>3, OvertakenIsBoolean, Zenon DEF StartWrite, EndWrite, Counted
  <2>4. CASE CloseWrite(r) \/ AssignSubWrite(r)
    BY <2>1, <2>4, Zenon DEF CloseWrite, AssignSubWrite, UpdateSubMetadata, Counted
  <2>5. CASE AssignWrite(r)
    BY <2>1, <2>5, Zenon DEF AssignWrite, Counted
  <2> QED
    BY <1>2, <2>2, <2>3, <2>4, <2>5 DEF Serve
<1>3. CASE AutoTake \/ AutoList \/ Complete \/ \E s \in Subs : SubRoomExpires(s)
  BY <1>3, Zenon DEF AutoTake, AutoList, Complete, SubRoomExpires, Quietly, MainKept, Counted
<1>4. CASE BreakoutFault
  BY <1>4, Zenon DEF BreakoutFault, AutoFails, ServerCrash, HostFails, ClearFails, AssignFails,
     UpsertFails, CloseFails, MainKept, Counted
<1> QED
  BY <1>1, <1>2, <1>3, <1>4 DEF BreakoutStep, RunTimer

LEMMA RecordingCounted ==
    ASSUME Bounds, RecordingStep
    PROVE  Counted
<1>1. ASSUME NEW c, NEW p, RecordList(c, p) \/ StopList(c, p)
      PROVE  Counted
  <2>1. AskCall /\ UNCHANGED <<faults, overtaken>>
    BY <1>1, Zenon DEF RecordList, StopList, MetaKept, NoFault
  <2> QED
    BY <2>1, BusyFinite, AskedWithin DEF AskCall, Counted
<1>2. CASE ShareScreen
  <2>1. AskCall /\ UNCHANGED <<faults, overtaken>>
    BY <1>2, Zenon DEF ShareScreen, MetaKept, NoFault
  <2> QED
    BY <2>1, BusyFinite, AskedWithin DEF AskCall, Counted
<1>3. ASSUME NEW c, StopListFails(c)
      PROVE  Counted
  <2>1. (AskCall \/ UNCHANGED asked) /\ Fault /\ UNCHANGED overtaken
    BY <1>3, Zenon DEF StopListFails, MetaKept
  <2> QED
    BY <2>1, BusyFinite, AskedWithin DEF AskCall, Counted
<1>4. ASSUME NEW c, StartMark(c) \/ StopClear(c)
      PROVE  Counted
  <2>1. UNCHANGED <<asked, faults>>
    BY <1>4, Zenon DEF StartMark, StopClear, NoFault
  <2>2. overtaken' \in BOOLEAN
    BY <1>4, OvertakenIsBoolean, Zenon DEF StartMark, StopClear
  <2> QED
    BY <2>1, <2>2 DEF Counted
<1>5. ASSUME NEW c, NEW p, LeaveList(c, p)
      PROVE  Counted
  BY <1>5, Zenon DEF LeaveList, MetaKept, NoFault, Counted
<1>6. ASSUME NEW c, \/ StartEgressCheck(c) \/ StartAudio(c) \/ StartTracks(c) \/ StartScreen(c)
                    \/ StartFails(c)
      PROVE  Counted
  BY <1>6, Zenon DEF StartEgressCheck, StartAudio, StartTracks, StartScreen, StartFails, MetaKept,
     NoFault, Counted
<1>7. ASSUME NEW c, \/ ForcedStopList(c) \/ StopEgressCheck(c) \/ StopAll(c) \/ StopQueue(c)
                    \/ StopFails(c)
      PROVE  Counted
  BY <1>7, Zenon DEF ForcedStopList, StopEgressCheck, StopAll, StopQueue, StopFails, MetaKept,
     NoFault, Counted
<1>8. ASSUME NEW c, ScreenCheck(c) \/ ScreenTrack(c) \/ ScreenFails(c)
      PROVE  Counted
  BY <1>8, Zenon DEF ScreenCheck, ScreenTrack, ScreenFails, MetaKept, NoFault, Counted
<1>9. ASSUME NEW p, Leave(p) \/ LeaveFails(p) \/ UnshareScreen
      PROVE  Counted
  BY <1>9, Zenon DEF Leave, LeaveFails, UnshareScreen, MetaKept, NoFault, Counted
<1>10. ASSUME NEW w, PostStep(w)
       PROVE  Counted
  BY <1>10, Zenon DEF PostStep, PostRead, PostRender, PostUploadFails, PostUnlink, PostPush,
     PostFails, PostOnly, MetaKept, Counted
<1> QED
  BY <1>1, <1>2, <1>3, <1>4, <1>5, <1>6, <1>7, <1>8, <1>9, <1>10 DEF RecordingStep, CallStep

LEMMA AdmissionCounted ==
    ASSUME Bounds, AdmissionStep
    PROVE  Counted
<1>1. ASSUME NEW r, NEW p,
             \/ \E on \in BOOLEAN : ToggleReceive(r, on)
             \/ ApproveReceive(r) \/ ShareList(r, p) \/ RevokeGet(r, p) \/ RoleGet(r, p)
      PROVE  Counted
  <2>1. AskAdmin /\ UNCHANGED <<faults, overtaken>>
    BY <1>1, Zenon DEF ToggleReceive, ApproveReceive, ShareList, RevokeGet, RoleGet, Elsewhere
  <2> QED
    BY <2>1, BusyFinite, AskedWithin DEF AskAdmin, Counted
<1>2. ASSUME NEW r, ToggleWrite(r)
      PROVE  Counted
  BY <1>2, OvertakenIsBoolean, Zenon DEF ToggleWrite, Counted
<1>3. ASSUME NEW p, IssueToken(p) \/ Connect(p) \/ Disconnect(p)
      PROVE  Counted
  BY <1>3, Zenon DEF IssueToken, Connect, Disconnect, Elsewhere, Counted
<1>4. ASSUME NEW r, ToggleList(r) \/ ListWaiting(r) \/ RequestFails(r)
      PROVE  Counted
  BY <1>4, Zenon DEF ToggleList, ListWaiting, RequestFails, Elsewhere, Counted
<1>5. ASSUME NEW r, NEW p, Admit(r, p) \/ ShareGrant(r, p) \/ RevokeWrite(r, p) \/ RoleWrite(r, p)
      PROVE  Counted
  BY <1>5, Zenon DEF Admit, ShareGrant, RevokeWrite, RoleWrite, SetSources, Elsewhere, Counted
<1> QED
  BY <1>1, <1>2, <1>3, <1>4, <1>5 DEF AdmissionStep

LEMMA SettingCounted ==
    ASSUME Bounds, NEW busy, IsFiniteSet(busy), SettingStep(busy)
    PROVE  Counted
<1>1. ASSUME NEW r, SettingReceive(r, busy)
      PROVE  Counted
  BY <1>1, AskedWithin DEF SettingReceive, Counted
<1>2. ASSUME NEW r, SettingWrite(r)
      PROVE  Counted
  BY <1>2, OvertakenIsBoolean, Zenon DEF SettingWrite, Counted
<1>3. ASSUME NEW r, SettingList(r) \/ SettingFails(r)
      PROVE  Counted
  BY <1>3 DEF SettingList, SettingFails, Counted
<1> QED
  BY <1>1, <1>2, <1>3 DEF SettingStep

LEMMA BoundsNext == Bounds /\ [Next]_vars => Bounds'
<1> SUFFICES ASSUME Bounds, [Next]_vars PROVE Bounds'
  OBVIOUS
<1>1. Counted
  <2>1. CASE Set
    BY <2>1, BusyFinite, SettingCounted DEF Set
  <2>2. CASE UNCHANGED vars
    BY <2>2 DEF vars, metaVars, Counted
  <2> QED
    BY <2>1, <2>2, BreakoutCounted, RecordingCounted, AdmissionCounted
       DEF Next, Break, Record, Govern, Rest
<1> QED
  BY <1>1, RoomMetadataAssumption DEF Bounds, Counted, Fault

(***************************************************************************)
(* The handling of a leaving.                                              *)
(***************************************************************************)
FlagTypes ==
    /\ sharing \in BOOLEAN /\ published \in BOOLEAN /\ screen \in BOOLEAN
    /\ crossed \in BOOLEAN /\ unmarked \in BOOLEAN /\ cut \in BOOLEAN /\ piled \in BOOLEAN

(* A request that stops the recording of a leaver belongs to the webhook   *)
(* or the job of one leaving, which waits for it.                          *)
LeavingsHandled ==
    /\ \A c \in Callers : rec[c].leaver =>
          /\ rec[c].op = "stop" /\ rec[c].who \in People
          /\ crew[rec[c].who] \in {"webhook", "job"}
    /\ \A a, b \in Callers :
          rec[a].leaver /\ rec[b].leaver /\ rec[a].who = rec[b].who => a = b

CrewInv ==
    /\ FlagTypes
    /\ owner \in [Takes -> People \cup {NoOne}]
    /\ crew \in [People -> Presence]
    /\ LeavingsHandled

(* What a request's step does to the handling of a leaving: nothing, its   *)
(* end, or its beginning.                                                  *)
HandlesOn(c, q) ==
    /\ Update(c, q) /\ UNCHANGED crew
    /\ q.leaver => rec[c].leaver /\ q.who = rec[c].who /\ q.op = rec[c].op
HandlesOff(c) == rec[c].leaver /\ Update(c, IdleCall) /\ Handled(rec[c].who)

LEMMA CallHandles ==
    ASSUME CountInv, topic = "recording", NEW c \in Callers, CallStep(c)
    PROVE  \/ \E q \in Call : HandlesOn(c, q)
           \/ HandlesOff(c)
           \/ \E p \in People : LeaveList(c, p)
<1>1. rec \in [Callers -> Call] /\ rec[c] \in Call /\ IdleCall \in Call /\ ~IdleCall.leaver
  BY RecordingTypes DEF CountInv, RecTypes, IdleCall
<1>2. ASSUME Update(c, IdleCall), UNCHANGED crew
      PROVE  \E q \in Call : HandlesOn(c, q)
  BY <1>1, <1>2 DEF HandlesOn
<1>3. ASSUME UNCHANGED rec, UNCHANGED crew
      PROVE  \E q \in Call : HandlesOn(c, q)
  <2>1. Update(c, rec[c])
    BY <1>1, <1>3 DEF Update
  <2> QED
    BY <1>1, <1>3, <2>1 DEF HandlesOn
<1>4. ASSUME NEW pc, GoOn(c, pc), UNCHANGED crew, [rec[c] EXCEPT !.pc = pc] \in Call
      PROVE  \E q \in Call : HandlesOn(c, q)
  <2> DEFINE q == [rec[c] EXCEPT !.pc = pc]
  <2>1. q.leaver = rec[c].leaver /\ q.who = rec[c].who /\ q.op = rec[c].op
    BY <1>1 DEF Call
  <2>2. Update(c, q)
    BY <1>4 DEF GoOn
  <2> HIDE DEF q
  <2>3. HandlesOn(c, q)
    BY <1>4, <2>1, <2>2 DEF HandlesOn
  <2>4. q \in Call
    BY <1>4 DEF q
  <2> QED
    BY <2>3, <2>4
<1>5. \A pc \in {"audio", "tracks", "screen", "mark", "egress", "clear", "queue"} :
         [rec[c] EXCEPT !.pc = pc] \in Call
  BY <1>1 DEF Call
<1>6. ASSUME Done(c)
      PROVE  (\E q \in Call : HandlesOn(c, q)) \/ HandlesOff(c)
  <2>1. CASE rec[c].leaver
    BY <1>6, <2>1 DEF Done, HandlesOff
  <2>2. CASE ~rec[c].leaver
    BY <1>2, <1>6, <2>2 DEF Done
  <2> QED
    BY <2>1, <2>2
<1>7. ASSUME (\E p \in People : RecordList(c, p) \/ StopList(c, p)) \/ ForcedStopList(c)
      PROVE  \E q \in Call : HandlesOn(c, q)
  <2>1. main \in Meta
    BY DEF CountInv, RecTypes, MetaTypes
  <2>2. ASSUME NEW p \in People, NEW op \in {"start", "stop"},
               Update(c, [IdleCall EXCEPT !.op = op, !.pc = "egress", !.who = p, !.snap = main]),
               UNCHANGED crew
        PROVE  \E q \in Call : HandlesOn(c, q)
    <3> DEFINE q == [IdleCall EXCEPT !.op = op, !.pc = "egress", !.who = p, !.snap = main]
    <3>1. q \in Call /\ ~q.leaver
      BY <1>1, <2>1 DEF Call
    <3>2. Update(c, q)
      BY <2>2
    <3> HIDE DEF q
    <3> QED
      BY <2>2, <3>1, <3>2 DEF HandlesOn
  <2>3. CASE ForcedStopList(c)
    <3> DEFINE q == [rec[c] EXCEPT !.pc = "egress", !.snap = main]
    <3>1. q \in Call /\ q.leaver = rec[c].leaver /\ q.who = rec[c].who /\ q.op = rec[c].op
      BY <1>1, <2>1 DEF Call
    <3>2. Update(c, q) /\ UNCHANGED crew
      BY <2>3 DEF ForcedStopList
    <3> HIDE DEF q
    <3> QED
      BY <3>1, <3>2 DEF HandlesOn
  <2> QED
    BY <1>7, <2>2, <2>3 DEF RecordList, StopList
<1>8. ASSUME StopListFails(c)
      PROVE  \E q \in Call : HandlesOn(c, q)
  <2>1. UNCHANGED crew
    BY <1>8 DEF StopListFails
  <2>2. CASE GoOn(c, "egress")
    BY <1>4, <1>5, <2>1, <2>2
  <2>3. CASE ~GoOn(c, "egress")
    <3>1. PICK p \in People :
             Update(c, [IdleCall EXCEPT !.op = "stop", !.pc = "egress", !.who = p])
      BY <1>8, <2>3 DEF StopListFails
    <3> DEFINE q == [IdleCall EXCEPT !.op = "stop", !.pc = "egress", !.who = p]
    <3>2. q \in Call /\ ~q.leaver
      BY <1>1 DEF Call
    <3> HIDE DEF q
    <3>3. Update(c, q)
      BY <3>1 DEF q
    <3> QED
      BY <2>1, <3>2, <3>3 DEF HandlesOn
  <2> QED
    BY <2>2, <2>3
<1>9. ASSUME StartEgressCheck(c) \/ StartTracks(c) \/ StartAudio(c)
      PROVE  \E q \in Call : HandlesOn(c, q)
  BY <1>2, <1>4, <1>5, <1>9 DEF StartEgressCheck, StartTracks, StartAudio
<1>10. ASSUME StartScreen(c) \/ StartMark(c) \/ StartFails(c) \/ ScreenTrack(c) \/ ScreenFails(c)
       PROVE  \E q \in Call : HandlesOn(c, q)
  BY <1>2, <1>4, <1>5, <1>10 DEF StartScreen, StartMark, StartFails, ScreenTrack, ScreenFails
<1>11. ASSUME ScreenCheck(c)
       PROVE  \E q \in Call : HandlesOn(c, q)
  <2> DEFINE q == [IdleCall EXCEPT !.op = "screen", !.pc = "track"]
  <2>1. q \in Call /\ ~q.leaver
    BY <1>1 DEF Call
  <2>2. UNCHANGED crew /\ (UNCHANGED rec \/ Update(c, q))
    BY <1>11 DEF ScreenCheck
  <2> HIDE DEF q
  <2> QED
    BY <1>3, <2>1, <2>2 DEF HandlesOn
<1>12. ASSUME StopEgressCheck(c)
       PROVE  (\E q \in Call : HandlesOn(c, q)) \/ HandlesOff(c)
  <2> DEFINE q == [rec[c] EXCEPT !.pc = "stop", !.seen = ActiveEgresses]
  <2>1. q \in Call /\ q.leaver = rec[c].leaver /\ q.who = rec[c].who /\ q.op = rec[c].op
    BY <1>1 DEF Call, ActiveEgresses, TakesOf
  <2>2. \/ Update(c, q) /\ UNCHANGED crew
        \/ GoOn(c, "clear") /\ UNCHANGED crew
        \/ Done(c)
    BY <1>12 DEF StopEgressCheck
  <2> HIDE DEF q
  <2>3. CASE Update(c, q) /\ UNCHANGED crew
    BY <2>1, <2>3 DEF HandlesOn
  <2> QED
    BY <1>4, <1>5, <1>6, <2>2, <2>3
<1>13. ASSUME StopAll(c) \/ StopClear(c) \/ StopQueue(c) \/ StopFails(c)
       PROVE  (\E q \in Call : HandlesOn(c, q)) \/ HandlesOff(c)
  <2>1. \/ GoOn(c, "clear") /\ UNCHANGED crew
        \/ GoOn(c, "queue") /\ UNCHANGED crew
        \/ Done(c)
    BY <1>13 DEF StopAll, StopClear, StopQueue, StopFails
  <2> QED
    BY <1>4, <1>5, <1>6, <2>1
<1> QED
  BY <1>7, <1>8, <1>9, <1>10, <1>11, <1>12, <1>13 DEF CallStep

LEMMA CrewKept ==
    ASSUME CountInv, CrewInv, NEW c \in Callers, NEW q \in Call, HandlesOn(c, q)
    PROVE  crew' \in [People -> Presence] /\ LeavingsHandled'
<1>1. rec' \in [Callers -> Call] /\ rec'[c] = q /\ \A x \in Callers \ {c} : rec'[x] = rec[x]
  BY Updated DEF HandlesOn
<1>2. crew' = crew /\ (q.leaver => rec[c].leaver /\ q.who = rec[c].who /\ q.op = rec[c].op)
  BY DEF HandlesOn
<1>3. \A x \in Callers : rec'[x].leaver =>
         rec[x].leaver /\ rec'[x].who = rec[x].who /\ rec'[x].op = rec[x].op
  BY <1>1, <1>2
<1> QED
  BY <1>2, <1>3 DEF CrewInv, LeavingsHandled

LEMMA CrewHandled ==
    ASSUME CountInv, CrewInv, NEW c \in Callers, HandlesOff(c)
    PROVE  /\ crew' \in [People -> Presence] /\ LeavingsHandled'
           /\ rec[c].who \in People
           /\ \/ crew[rec[c].who] = "webhook" /\ crew'[rec[c].who] = "queued"
              \/ crew[rec[c].who] = "job" /\ crew'[rec[c].who] = "out"
           /\ \A p \in People \ {rec[c].who} : crew'[p] = crew[p]
<1>1. IdleCall \in Call /\ ~IdleCall.leaver
  BY RecordingTypes DEF IdleCall
<1>2. ~rec'[c].leaver /\ \A x \in Callers \ {c} : rec'[x] = rec[x]
  BY <1>1, Updated DEF HandlesOff
<1> DEFINE p == rec[c].who
<1>3. rec[c].leaver /\ p \in People /\ crew[p] \in {"webhook", "job"}
  BY DEF HandlesOff, CrewInv, LeavingsHandled
<1>4. crew' = [crew EXCEPT ![p] = IF crew[p] = "webhook" THEN "queued" ELSE "out"]
  BY <1>3 DEF HandlesOff, Handled
<1> HIDE DEF p
<1>5. /\ crew' \in [People -> Presence]
      /\ \/ crew[p] = "webhook" /\ crew'[p] = "queued"
         \/ crew[p] = "job" /\ crew'[p] = "out"
      /\ \A x \in People \ {p} : crew'[x] = crew[x]
  <2>1. crew \in [People -> Presence]
    BY DEF CrewInv
  <2>2. PICK v \in Presence : crew' = [crew EXCEPT ![p] = v]
                             /\ v = IF crew[p] = "webhook" THEN "queued" ELSE "out"
    BY <1>4 DEF Presence
  <2> QED
    BY <1>3, <2>1, <2>2
<1>6. \A x \in Callers : rec'[x].leaver => x # c /\ rec'[x] = rec[x] /\ rec[x].who # p
  BY <1>2, <1>3 DEF CrewInv, LeavingsHandled, p
<1>7. LeavingsHandled'
  BY <1>5, <1>6 DEF CrewInv, LeavingsHandled
<1> QED
  BY <1>3, <1>5, <1>7 DEF p

LEMMA CrewLeft ==
    ASSUME CountInv, CrewInv, NEW c \in Callers, NEW p \in People, LeaveList(c, p)
    PROVE  /\ crew' \in [People -> Presence] /\ LeavingsHandled'
           /\ \A x \in People \ {p} : crew'[x] = crew[x]
           /\ IF LeaverRecords(p)
              THEN \/ crew[p] = "left" /\ crew'[p] = "webhook"
                   \/ crew[p] = "queued" /\ crew'[p] = "job"
              ELSE crew'[p] \in {"queued", "out"} /\ UNCHANGED rec
<1>1. crew[p] \in {"left", "queued"} /\ rec[c] = IdleCall /\ crew \in [People -> Presence]
  BY DEF LeaveList, CrewInv
<1>2. \A x \in Callers : rec[x].leaver => rec[x].who # p
  BY <1>1 DEF CrewInv, LeavingsHandled
<1>3. CASE LeaverRecords(p)
  <2> DEFINE q == [IdleCall EXCEPT !.op = "stop", !.pc = "list", !.who = p, !.leaver = TRUE]
  <2>1. q \in Call /\ q.leaver /\ q.who = p /\ q.op = "stop"
    BY RecordingTypes DEF Call
  <2>2. Update(c, q) /\ crew' = [crew EXCEPT ![p] = IF crew[p] = "left" THEN "webhook" ELSE "job"]
    BY <1>1, <1>3 DEF LeaveList, Handling
  <2> HIDE DEF q
  <2>3. rec'[c] = q /\ \A x \in Callers \ {c} : rec'[x] = rec[x]
    BY <2>1, <2>2, Updated
  <2>4. /\ crew' \in [People -> Presence] /\ crew'[p] \in {"webhook", "job"}
        /\ \A x \in People \ {p} : crew'[x] = crew[x]
        /\ \/ crew[p] = "left" /\ crew'[p] = "webhook"
           \/ crew[p] = "queued" /\ crew'[p] = "job"
    <3>1. PICK v \in Presence : crew' = [crew EXCEPT ![p] = v]
                               /\ v = IF crew[p] = "left" THEN "webhook" ELSE "job"
      BY <2>2 DEF Presence
    <3> QED
      BY <1>1, <3>1
  <2>5. \A x \in Callers : rec'[x].leaver =>
           \/ x = c /\ rec'[x].who = p /\ rec'[x].op = "stop"
           \/ x # c /\ rec'[x] = rec[x] /\ rec[x].who # p
    BY <1>2, <2>1, <2>3
  <2>6. LeavingsHandled'
    BY <2>4, <2>5 DEF CrewInv, LeavingsHandled
  <2> QED
    BY <1>3, <2>4, <2>6
<1>4. CASE ~LeaverRecords(p)
  <2>1. rec' = rec /\ crew' = [crew EXCEPT ![p] = IF crew[p] = "left" THEN "queued" ELSE "out"]
    BY <1>1, <1>4 DEF LeaveList, AfterHandling
  <2>2. /\ crew' \in [People -> Presence] /\ crew'[p] \in {"queued", "out"}
        /\ \A x \in People \ {p} : crew'[x] = crew[x]
    BY <1>1, <2>1 DEF Presence
  <2>3. LeavingsHandled'
    BY <1>2, <2>1, <2>2 DEF CrewInv, LeavingsHandled
  <2> QED
    BY <1>4, <2>1, <2>2, <2>3
<1> QED
  BY <1>3, <1>4

LEMMA CallFlagTypes ==
    ASSUME CountInv, CrewInv, topic = "recording", NEW c \in Callers, CallStep(c)
    PROVE  /\ sharing' \in BOOLEAN /\ published' \in BOOLEAN /\ screen' \in BOOLEAN
           /\ unmarked' \in BOOLEAN /\ cut' \in BOOLEAN /\ piled' \in BOOLEAN
<1>1. sharing \in BOOLEAN /\ published \in BOOLEAN /\ screen \in BOOLEAN
      /\ unmarked \in BOOLEAN /\ cut \in BOOLEAN /\ piled \in BOOLEAN
  BY DEF CrewInv, FlagTypes
<1>2. UNCHANGED piled
  BY CallEffect
<1>3. ASSUME NEW p \in People, RecordList(c, p) \/ StopList(c, p) \/ LeaveList(c, p)
      PROVE  UNCHANGED <<sharing, published, screen, unmarked, cut>>
  BY <1>3, Zenon DEF RecordList, StopList, LeaveList, stage, accidents
<1>4. ASSUME \/ StartEgressCheck(c) \/ StartAudio(c) \/ StartTracks(c) \/ StartMark(c)
             \/ ForcedStopList(c) \/ StopEgressCheck(c) \/ StopClear(c) \/ StopQueue(c)
             \/ ScreenFails(c)
      PROVE  UNCHANGED <<sharing, published, screen, unmarked, cut>>
  BY <1>4, Zenon DEF StartEgressCheck, StartAudio, StartTracks, StartMark, ForcedStopList,
     StopEgressCheck, StopClear, StopQueue, ScreenFails, stage, accidents
<1>5. ASSUME StartFails(c) \/ StopListFails(c) \/ ScreenCheck(c)
      PROVE  /\ UNCHANGED <<sharing, screen>>
             /\ published' \in BOOLEAN /\ unmarked' \in BOOLEAN /\ cut' \in BOOLEAN
  BY <1>1, <1>5, Zenon DEF StartFails, StopListFails, ScreenCheck, stage, accidents
<1>6. ASSUME StartScreen(c) \/ ScreenTrack(c)
      PROVE  UNCHANGED <<sharing, published, cut>> /\ screen' = sharing /\ unmarked' \in BOOLEAN
  BY <1>1, <1>6, Zenon DEF StartScreen, ScreenTrack, stage, accidents
<1>7. ASSUME StopAll(c)
      PROVE  UNCHANGED <<sharing, published, unmarked>> /\ screen' \in BOOLEAN /\ cut' \in BOOLEAN
  <2>1. UNCHANGED <<sharing, published, unmarked>> /\ screen' \in BOOLEAN
    BY <1>7, Zenon DEF StopAll, StopEgresses, stage
  <2>2. cut' \in BOOLEAN
    BY <1>1, <1>7, Zenon DEF StopAll
  <2> QED
    BY <2>1, <2>2
<1>8. ASSUME StopFails(c)
      PROVE  UNCHANGED <<sharing, published, unmarked>> /\ screen' \in BOOLEAN /\ cut' \in BOOLEAN
  <2>1. UNCHANGED <<sharing, published, unmarked>> /\ screen' \in BOOLEAN
    BY <1>1, <1>8, Zenon DEF StopFails, StopEgresses, stage
  <2>2. cut' \in BOOLEAN
    BY <1>1, <1>8, Zenon DEF StopFails
  <2> QED
    BY <2>1, <2>2
<1> QED
  BY <1>1, <1>2, <1>3, <1>4, <1>5, <1>6, <1>7, <1>8 DEF CallStep

(* Only the beginning of an egress gives a recording an owner. *)
LEMMA CallOwner ==
    ASSUME CountInv, CrewInv, topic = "recording", NEW c \in Callers, CallStep(c)
    PROVE  /\ owner' \in [Takes -> People \cup {NoOne}]
           /\ \/ UNCHANGED owner
              \/ \E t \in TakesOf("none") :
                    StartAudio(c) /\ owner' = [owner EXCEPT ![t] = rec[c].who]
                    /\ take' = [take EXCEPT ![t] = "active"]
<1>1. owner \in [Takes -> People \cup {NoOne}] /\ (rec[c].op = "start" => rec[c].who \in People)
  BY DEF CrewInv, CountInv, RecTypes
<1>2. CASE StartAudio(c)
  <2>1. PICK t \in TakesOf("none") :
           owner' = [owner EXCEPT ![t] = rec[c].who] /\ take' = [take EXCEPT ![t] = "active"]
    BY <1>2 DEF StartAudio
  <2>2. rec[c].op = "start" /\ t \in Takes
    BY <1>2, <2>1 DEF StartAudio, At, TakesOf
  <2> QED
    BY <1>1, <1>2, <2>1, <2>2
<1>3. ASSUME NEW p \in People, RecordList(c, p) \/ StopList(c, p) \/ LeaveList(c, p)
      PROVE  UNCHANGED owner
  BY <1>3, Zenon DEF RecordList, StopList, LeaveList
<1>4. CASE \/ StartEgressCheck(c) \/ StartTracks(c) \/ StartMark(c) \/ StartScreen(c)
           \/ StartFails(c) \/ ForcedStopList(c) \/ StopListFails(c) \/ StopEgressCheck(c)
           \/ StopClear(c) \/ StopQueue(c)
  BY <1>1, <1>4, Zenon DEF StartEgressCheck, StartTracks, StartMark, StartScreen, StartFails,
     ForcedStopList, StopListFails, StopEgressCheck, StopClear, StopQueue
<1>5. CASE \/ StopAll(c) \/ StopFails(c) \/ ScreenCheck(c) \/ ScreenTrack(c) \/ ScreenFails(c)
  BY <1>1, <1>5, Zenon DEF StopAll, StopFails, ScreenCheck, ScreenTrack, ScreenFails
<1> QED
  BY <1>1, <1>2, <1>3, <1>4, <1>5 DEF CallStep

LEMMA CrewNext ==
    ASSUME RecordingInv, CrewInv, [Next]_vars
    PROVE  CrewInv'
<1>1. ASSUME topic = "recording", RecordingStep
      PROVE  CrewInv'
  <2>1. CountInv /\ crossed' \in BOOLEAN
    BY <1>1, Zenon DEF RecordingInv, RecordingStep, ObserveCrossing
  <2>2. ASSUME NEW c \in Callers, CallStep(c)
        PROVE  CrewInv'
    <3>1. crew' \in [People -> Presence] /\ LeavingsHandled'
      BY <1>1, <2>1, <2>2, CallHandles, CrewKept, CrewHandled, CrewLeft
    <3> QED
      BY <1>1, <2>1, <2>2, <3>1, CallFlagTypes, CallOwner DEF CrewInv, FlagTypes
  <2>3. ASSUME NEW p \in People, Leave(p) \/ LeaveFails(p)
        PROVE  CrewInv'
    <3>1. /\ UNCHANGED <<sharing, published, screen, unmarked, cut, piled, owner, rec>>
          /\ crew[p] \in {"in", "left", "queued"}
      BY <2>3 DEF Leave, LeaveFails, stage, accidents, filesAndJobs
    <3>2. PICK v \in Presence : crew' = [crew EXCEPT ![p] = v]
      BY <2>3 DEF Leave, LeaveFails, AfterHandling, Presence
    <3>3. /\ crew' \in [People -> Presence]
          /\ \A x \in Callers : rec[x].leaver => rec[x].who # p
          /\ \A x \in People \ {p} : crew'[x] = crew[x]
      BY <3>1, <3>2 DEF CrewInv, LeavingsHandled
    <3>4. LeavingsHandled'
      BY <3>1, <3>3 DEF CrewInv, LeavingsHandled
    <3> QED
      BY <2>1, <3>1, <3>3, <3>4 DEF CrewInv, FlagTypes
  <2>4. CASE ShareScreen \/ UnshareScreen
    <3>1. /\ UNCHANGED <<unmarked, cut, piled, owner, rec, crew>>
          /\ sharing' \in BOOLEAN
          /\ published' = published \/ published' = TRUE
          /\ screen' = screen \/ screen' = FALSE
      BY <2>4 DEF ShareScreen, UnshareScreen, accidents, filesAndJobs
    <3> QED
      BY <2>1, <3>1 DEF CrewInv, FlagTypes, LeavingsHandled
  <2>5. ASSUME NEW w \in Posters, PostStep(w)
        PROVE  CrewInv'
    <3>1. UNCHANGED <<sharing, published, screen, unmarked, cut, owner, rec, crew>>
      BY <2>5, Zenon DEF PostStep, PostRead, PostRender, PostUploadFails, PostUnlink, PostPush, PostFails,
         PostOnly, stage, accidents
    <3>2. piled' = piled \/ piled' \in BOOLEAN
      BY <2>5, Zenon DEF PostStep, PostRead, PostRender, PostUploadFails, PostUnlink, PostPush, PostFails
    <3> QED
      BY <2>1, <3>1, <3>2 DEF CrewInv, FlagTypes, LeavingsHandled
  <2> QED
    BY <1>1, <2>2, <2>3, <2>4, <2>5 DEF RecordingStep
<1>2. CASE UNCHANGED recordingVars
  BY <1>2 DEF recordingVars, CrewInv, FlagTypes, LeavingsHandled
<1>3. (topic = "recording" /\ RecordingStep) \/ UNCHANGED recordingVars
  BY Zenon DEF Next, Break, Record, Govern, Set, Rest, vars
<1> QED
  BY <1>1, <1>2, <1>3

LEMMA CrewInit == Init => CrewInv
<1> SUFFICES ASSUME RecordingInit PROVE CrewInv
  BY DEF Init
<1>1. \A c \in Callers : ~rec[c].leaver
  BY DEF RecordingInit, IdleCall
<1>2. crew \in [People -> Presence] /\ owner \in [Takes -> People \cup {NoOne}]
  BY DEF RecordingInit, Presence
<1> QED
  BY <1>1, <1>2 DEF RecordingInit, CrewInv, FlagTypes, LeavingsHandled

(* While no start ran beside another request or beside the handling of its *)
(* user's leaving, none failed after its egress had begun, and no write    *)
(* restored an old flag: the recording that is active is the one of whom   *)
(* the flag names, or of the start that is about to set it; when the       *)
(* webhook of its owner's leaving is through, a call has failed; and a     *)
(* stop has seen every egress it is to stop.                               *)
Noticed == ~crossed /\ ~unmarked /\ ~overtaken
Named(t) == \/ main.recorder = owner[t]
            \/ \E c \in Callers : Begun(rec[c]) /\ rec[c].who = owner[t]
Attended(t) == /\ crew[owner[t]] # "out"
               /\ crew[owner[t]] \in {"queued", "job"} => faults > 0
StartKnows(q) == q.op = "start" => /\ main.recorder = NoOne
                                   /\ crew[q.who] \in {"in", "left"}
StopKnows(q) == q.op = "stop" => /\ q.pc = "stop" => Active \subseteq q.seen
                                 /\ q.pc \in {"clear", "queue"} => Active = {}
LeaverInv ==
    Noticed =>
       /\ \A t \in Active : owner[t] \in People /\ Named(t) /\ Attended(t)
       /\ \A c \in Callers : StartKnows(rec[c]) /\ StopKnows(rec[c])

LEMMA StartersPresent ==
    ASSUME ObserveCrossing, ~crossed'
    PROVE  ~crossed /\ \A c \in Callers : rec'[c].op = "start" => crew'[rec'[c].who] \in {"in", "left"}
BY DEF ObserveCrossing

(* What a step of a request that becomes q has to leave as it is, or to    *)
(* see to.                                                                 *)
MovesOn(c, q) ==
    /\ Update(c, q) /\ UNCHANGED <<owner, main>>
    /\ Active' \subseteq Active
    /\ q.op = "start" => main.recorder = NoOne
    /\ Begun(rec[c]) => Begun(q) /\ q.who = rec[c].who
    /\ q.op = "stop" => /\ q.pc = "stop" => Active' \subseteq q.seen
                        /\ q.pc \in {"clear", "queue"} => Active' = {}
    /\ \A t \in Active' : Attended(t)'

LEMMA MovesOnKeeps ==
    ASSUME CountInv, LeaverInv, Noticed, ObserveCrossing, ~crossed',
           NEW c \in Callers, NEW q \in Call, MovesOn(c, q)
    PROVE  LeaverInv'
<1>1. rec'[c] = q /\ \A x \in Callers \ {c} : rec'[x] = rec[x]
  BY Updated DEF MovesOn
<1>2. \A x \in Callers : Begun(rec[x]) => Begun(rec'[x]) /\ rec'[x].who = rec[x].who
  BY <1>1 DEF MovesOn
<1>3. \A t \in Active' : owner'[t] \in People /\ Named(t)'
  BY <1>2 DEF LeaverInv, MovesOn, Named
<1>4. (\A x \in Callers : StartKnows(rec[x]))'
  BY <1>1, StartersPresent DEF LeaverInv, MovesOn, StartKnows
<1>5. (\A x \in Callers : StopKnows(rec[x]))'
  BY <1>1 DEF LeaverInv, MovesOn, StopKnows
<1> QED
  BY <1>3, <1>4, <1>5 DEF LeaverInv, MovesOn

(* A person who is not the owner of an active recording may do anything;   *)
(* the presence of the others stays.                                       *)
LEMMA AttendedKept ==
    ASSUME LeaverInv, Noticed, Active' \subseteq Active, UNCHANGED <<owner, crew>>,
           faults \in Nat, faults' = faults \/ faults' = faults + 1
    PROVE  \A t \in Active' : Attended(t)'
<1> SUFFICES ASSUME NEW t \in Active' PROVE Attended(t)'
  OBVIOUS
<1>1. Attended(t)
  BY DEF LeaverInv
<1> QED
  BY <1>1 DEF Attended

(* The handling of a leaving ends with nothing active, or in an error; and *)
(* there is but one error.                                                 *)
LEMMA AttendedHandled ==
    ASSUME MaxFaults <= 1, Bounds, CountInv, CrewInv, LeaverInv, Noticed, UNCHANGED owner,
           NEW c \in Callers, HandlesOff(c), Active' \subseteq Active, Active' = {} \/ Fault
    PROVE  \A t \in Active' : Attended(t)'
<1> SUFFICES ASSUME NEW t \in Active', Fault PROVE Attended(t)'
  OBVIOUS
<1>1. Attended(t) /\ owner[t] \in People
  BY DEF LeaverInv
<1>2. faults = 0 /\ faults' = 1
  BY RoomMetadataAssumption DEF Fault, Bounds
<1>3. /\ rec[c].who \in People
      /\ \/ crew[rec[c].who] = "webhook" /\ crew'[rec[c].who] = "queued"
         \/ crew[rec[c].who] = "job" /\ crew'[rec[c].who] = "out"
      /\ \A p \in People \ {rec[c].who} : crew'[p] = crew[p]
  BY CrewHandled
<1> QED
  BY <1>1, <1>2, <1>3 DEF Attended

LEMMA AttendedLeft ==
    ASSUME CountInv, CrewInv, LeaverInv, Noticed, ObserveCrossing, ~crossed',
           UNCHANGED <<owner, main, faults>>, Active' \subseteq Active,
           NEW c \in Callers, NEW p \in People, LeaveList(c, p)
    PROVE  \A t \in Active' : Attended(t)'
<1> SUFFICES ASSUME NEW t \in Active' PROVE Attended(t)'
  OBVIOUS
<1>1. Attended(t) /\ owner[t] \in People /\ Named(t)
  BY DEF LeaverInv
<1>2. CASE owner[t] # p
  BY <1>1, <1>2, CrewLeft DEF Attended
<1>3. CASE owner[t] = p /\ LeaverRecords(p)
  BY <1>1, <1>3, CrewLeft DEF Attended
<1>4. CASE owner[t] = p /\ ~LeaverRecords(p)
  <2>1. PICK x \in Callers : Begun(rec[x]) /\ rec[x].who = p
    BY <1>1, <1>4 DEF Named, LeaverRecords
  <2>2. crew'[p] \in {"queued", "out"} /\ rec' = rec
    BY <1>4, CrewLeft
  <2>3. crew'[p] \in {"in", "left"}
    BY <2>1, <2>2, StartersPresent DEF Begun
  <2> QED
    BY <2>2, <2>3
<1> QED
  BY <1>2, <1>3, <1>4

LEMMA CallLeaverInv ==
    ASSUME MaxFaults <= 1, Bounds, CountInv, CrewInv, LeaverInv, topic = "recording",
           ObserveCrossing, NEW c \in Callers, CallStep(c)
    PROVE  LeaverInv'
<1> SUFFICES ASSUME Noticed' PROVE LeaverInv'
  BY DEF LeaverInv
<1>1. /\ rec \in [Callers -> Call] /\ rec[c] \in Call /\ main \in Meta /\ faults \in Nat
      /\ take \in [Takes -> TakeStatus]
      /\ IdleCall \in Call /\ IdleCall.op = "none" /\ IdleCall.pc = "idle" /\ ~IdleCall.leaver
  BY RecordingTypes DEF CountInv, RecTypes, MetaTypes, IdleCall
<1>2. ~crossed' /\ ~unmarked' /\ Noticed
  <2>1. overtaken => overtaken'
    BY CallEffect DEF Thinks, Records, Marks, StartMark, Clears, StopClear, Queues, Stops, MetaKept,
       UpdateRoomMetadata
  <2> QED
    BY <2>1, CallEffect, StartersPresent DEF Noticed
<1>3. /\ \A t \in Active : owner[t] \in People /\ Named(t) /\ Attended(t)
      /\ \A x \in Callers : StartKnows(rec[x]) /\ StopKnows(rec[x])
  BY <1>2 DEF LeaverInv
<1>4. StartsAlone /\ StartsAlone'
  BY StartIsAlone DEF CountInv
<1>5. faults' = faults \/ faults' = faults + 1
  BY CallEffect
<1>6. ASSUME NEW q \in Call, Update(c, q), UNCHANGED <<take, owner, main, crew>>,
             q.op = "start" => main.recorder = NoOne,
             Begun(rec[c]) => Begun(q) /\ q.who = rec[c].who,
             q.op = "stop" /\ q.pc = "stop" => Active \subseteq q.seen,
             q.op = "stop" /\ q.pc \in {"clear", "queue"} => Active = {}
      PROVE  LeaverInv'
  <2>1. Active' = Active
    BY <1>6 DEF Active, TakesOf
  <2>2. \A t \in Active' : Attended(t)'
    BY <1>1, <1>2, <1>5, <1>6, <2>1, AttendedKept
  <2>3. MovesOn(c, q)
    BY <1>6, <2>1, <2>2 DEF MovesOn
  <2> QED
    BY <1>2, <2>3, MovesOnKeeps
<1>7. ASSUME NEW pc \in {"audio", "screen", "mark", "tracks", "egress", "clear", "queue"}
      PROVE  LET q == [rec[c] EXCEPT !.pc = pc] IN
             /\ q \in Call /\ q.op = rec[c].op /\ q.pc = pc /\ q.who = rec[c].who
             /\ GoOn(c, pc) => Update(c, q)
  BY <1>1 DEF Call, GoOn
<1>8. ASSUME NEW p \in People, NEW op \in {"start", "stop"},
             Update(c, [IdleCall EXCEPT !.op = op, !.pc = "egress", !.who = p, !.snap = main]),
             UNCHANGED <<take, owner, main, crew>>, rec[c] = IdleCall,
             op = "start" => main.recorder = NoOne
      PROVE  LeaverInv'
  <2> DEFINE q == [IdleCall EXCEPT !.op = op, !.pc = "egress", !.who = p, !.snap = main]
  <2>1. q \in Call /\ q.op = op /\ q.pc = "egress"
    BY <1>1 DEF Call
  <2>2. Update(c, q) /\ ~Begun(rec[c])
    BY <1>1, <1>8 DEF Begun
  <2> HIDE DEF q
  <2> QED
    BY <1>6, <1>8, <2>1, <2>2
<1>9. ASSUME NEW p \in People, RecordList(c, p) \/ StopList(c, p)
      PROVE  LeaverInv'
  BY <1>8, <1>9 DEF RecordList, StopList, MetaKept
<1>10. ASSUME NEW p \in People, LeaveList(c, p)
       PROVE  LeaverInv'
  <2>1. /\ UNCHANGED <<take, owner, main, overtaken, faults>> /\ Active' = Active
        /\ rec[c] = IdleCall
    BY <1>10 DEF LeaveList, MetaKept, NoFault, Active, TakesOf
  <2>2. \A t \in Active' : Attended(t)'
    BY <1>2, <1>10, <2>1, AttendedLeft
  <2> DEFINE q == [IdleCall EXCEPT !.op = "stop", !.pc = "list", !.who = p, !.leaver = TRUE]
  <2>3. q \in Call /\ q.op = "stop" /\ q.pc = "list" /\ ~Begun(rec[c])
    BY <1>1, <2>1 DEF Call, Begun
  <2>4. Update(c, q) \/ Update(c, rec[c])
    BY <1>1, <1>10 DEF LeaveList, Update
  <2> HIDE DEF q
  <2>5. MovesOn(c, q) \/ MovesOn(c, rec[c])
    BY <1>1, <2>1, <2>2, <2>3, <2>4 DEF MovesOn
  <2> QED
    BY <1>1, <1>2, <2>3, <2>5, MovesOnKeeps
<1>11. ASSUME Update(c, IdleCall), UNCHANGED <<take, owner, main, crew>>, ~Begun(rec[c])
       PROVE  LeaverInv'
  BY <1>1, <1>6, <1>11
<1>12. CASE StartEgressCheck(c)
  <2>1. /\ UNCHANGED <<take, owner, main, crew>> /\ rec[c].op = "start" /\ ~Begun(rec[c])
        /\ GoOn(c, "audio") \/ Update(c, IdleCall)
    BY <1>12 DEF StartEgressCheck, At, Begun, MetaKept
  <2>2. rec[c].op = "start" => main.recorder = NoOne
    BY <1>3 DEF StartKnows
  <2> QED
    BY <1>6, <1>7, <1>11, <2>1, <2>2
<1>13. CASE StartTracks(c) \/ StartScreen(c)
  <2>1. /\ UNCHANGED <<take, owner, main, crew>> /\ rec[c].op = "start"
        /\ \E pc \in {"screen", "mark"} : GoOn(c, pc)
    BY <1>2, <1>13 DEF StartTracks, StartScreen, At, MetaKept
  <2>2. PICK pc \in {"screen", "mark"} : GoOn(c, pc)
    BY <2>1
  <2>3. main.recorder = NoOne
    BY <1>3, <2>1 DEF StartKnows
  <2> DEFINE q == [rec[c] EXCEPT !.pc = pc]
  <2>4. q \in Call /\ q.op = "start" /\ q.pc = pc /\ q.who = rec[c].who /\ Update(c, q)
    BY <1>7, <2>1, <2>2
  <2> HIDE DEF q
  <2>5. Begun(q)
    BY <2>4 DEF Begun
  <2> QED
    BY <1>6, <2>1, <2>3, <2>4, <2>5
<1>14. CASE StartFails(c)
  BY <1>2, <1>11, <1>14 DEF StartFails, Begun, MetaKept
<1>15. CASE ForcedStopList(c)
  <2> DEFINE q == [rec[c] EXCEPT !.pc = "egress", !.snap = main]
  <2>1. rec[c].op = "stop" /\ Update(c, q) /\ UNCHANGED <<take, owner, main, crew>>
    BY <1>15 DEF ForcedStopList, At, MetaKept
  <2>2. q \in Call /\ q.op = "stop" /\ q.pc = "egress" /\ ~Begun(rec[c])
    BY <1>1, <2>1 DEF Call, Begun
  <2> HIDE DEF q
  <2> QED
    BY <1>6, <2>1, <2>2
<1>16. CASE StopListFails(c)
  <2>1. UNCHANGED <<take, owner, main, crew>>
    BY <1>16 DEF StopListFails, MetaKept
  <2>2. CASE At(c, "stop", "list") /\ GoOn(c, "egress")
    <3>1. rec[c].op = "stop" /\ ~Begun(rec[c])
      BY <2>2 DEF At, Begun
    <3> QED
      BY <1>6, <1>7, <2>1, <2>2, <3>1
  <2>3. ASSUME NEW p \in People, rec[c] = IdleCall,
               Update(c, [IdleCall EXCEPT !.op = "stop", !.pc = "egress", !.who = p])
        PROVE  LeaverInv'
    <3> DEFINE q == [IdleCall EXCEPT !.op = "stop", !.pc = "egress", !.who = p]
    <3>1. q \in Call /\ q.op = "stop" /\ q.pc = "egress" /\ ~Begun(rec[c])
      BY <1>1, <2>3 DEF Call, Begun
    <3>2. Update(c, q)
      BY <2>3
    <3> HIDE DEF q
    <3> QED
      BY <1>6, <2>1, <3>1, <3>2
  <2> QED
    BY <1>16, <2>2, <2>3 DEF StopListFails
<1>17. ASSUME Done(c), Active' \subseteq Active, UNCHANGED <<owner, main>>, ~Begun(rec[c]),
              Active' = {} \/ Fault
       PROVE  LeaverInv'
  <2>1. Update(c, IdleCall) /\ (HandlesOff(c) \/ UNCHANGED crew)
    BY <1>17 DEF Done, HandlesOff
  <2>2. \A t \in Active' : Attended(t)'
    BY <1>1, <1>2, <1>5, <1>17, <2>1, AttendedKept, AttendedHandled
  <2>3. MovesOn(c, IdleCall)
    BY <1>1, <1>17, <2>1, <2>2 DEF MovesOn
  <2> QED
    BY <1>1, <1>2, <2>3, MovesOnKeeps
<1>18. CASE StopEgressCheck(c)
  <2>1. /\ UNCHANGED <<take, owner, main>> /\ rec[c].op = "stop" /\ ~Begun(rec[c])
        /\ Active' = Active
    BY <1>18 DEF StopEgressCheck, At, Begun, MetaKept, Active, TakesOf
  <2>2. Active \subseteq ActiveEgresses /\ ActiveEgresses \subseteq Takes \cup {Screen}
    BY DEF Active, ActiveEgresses, TakesOf
  <2> DEFINE q == [rec[c] EXCEPT !.pc = "stop", !.seen = ActiveEgresses]
  <2>3. q \in Call /\ q.op = "stop" /\ q.pc = "stop" /\ q.seen = ActiveEgresses
    BY <1>1, <2>1, <2>2 DEF Call
  <2>4. \/ Update(c, q) /\ UNCHANGED crew
        \/ ActiveEgresses = {} /\ GoOn(c, "clear") /\ UNCHANGED crew
        \/ ActiveEgresses = {} /\ Done(c)
    BY <1>18 DEF StopEgressCheck
  <2> HIDE DEF q
  <2>5. CASE Update(c, q) /\ UNCHANGED crew
    BY <1>6, <2>1, <2>2, <2>3, <2>5
  <2>6. CASE ActiveEgresses = {} /\ GoOn(c, "clear") /\ UNCHANGED crew
    BY <1>6, <1>7, <2>1, <2>2, <2>6
  <2>7. CASE ActiveEgresses = {} /\ Done(c)
    BY <1>17, <2>1, <2>2, <2>7
  <2> QED
    BY <2>4, <2>5, <2>6, <2>7
<1>19. CASE StopAll(c)
  <2>1. /\ UNCHANGED <<owner, main>> /\ rec[c].op = "stop" /\ rec[c].pc = "stop" /\ ~Begun(rec[c])
        /\ \/ Done(c)
           \/ \E pc \in {"clear", "queue"} : GoOn(c, pc) /\ UNCHANGED crew
    BY <1>19 DEF StopAll, At, Begun, MetaKept
  <2>2. Active \subseteq rec[c].seen
    BY <1>3, <2>1 DEF StopKnows
  <2>3. Active' = {}
    BY <1>1, <1>19, <2>2 DEF StopAll, StopEgresses, Active, TakesOf
  <2>4. ASSUME NEW pc \in {"clear", "queue"}, GoOn(c, pc), UNCHANGED crew
        PROVE  LeaverInv'
    <3> DEFINE q == [rec[c] EXCEPT !.pc = pc]
    <3>1. q \in Call /\ q.op = "stop" /\ q.pc = pc /\ Update(c, q)
      BY <1>7, <2>1, <2>4
    <3> HIDE DEF q
    <3>2. MovesOn(c, q)
      BY <2>1, <2>3, <3>1 DEF MovesOn
    <3> QED
      BY <1>2, <3>1, <3>2, MovesOnKeeps
  <2> QED
    BY <1>17, <2>1, <2>3, <2>4
<1>20. CASE StopQueue(c)
  <2>1. /\ UNCHANGED <<owner, main, take>> /\ rec[c].op = "stop" /\ rec[c].pc = "queue"
        /\ ~Begun(rec[c]) /\ Done(c)
    BY <1>20 DEF StopQueue, At, Begun, MetaKept
  <2>2. Active = {} /\ Active' = {}
    BY <1>3, <2>1 DEF StopKnows, Active, TakesOf
  <2> QED
    BY <1>17, <2>1, <2>2
<1>21. CASE StopFails(c)
  <2>1. /\ UNCHANGED <<owner, main>> /\ rec[c].op = "stop" /\ ~Begun(rec[c]) /\ Done(c) /\ Fault
    BY <1>21 DEF StopFails, Begun, MetaKept
  <2>2. Active' \subseteq Active
    BY <1>1, <1>21 DEF StopFails, StopEgresses, Active, TakesOf
  <2> QED
    BY <1>17, <2>1, <2>2
<1>22. CASE StopClear(c)
  <2>1. /\ UNCHANGED <<owner, take>> /\ rec[c].op = "stop" /\ rec[c].pc = "clear"
        /\ main'.recorder = NoOne
        /\ Done(c) \/ (GoOn(c, "queue") /\ UNCHANGED crew)
    BY <1>1, <1>22 DEF StopClear, At, UpdateRoomMetadata, Meta, Call
  <2>2. Active' = {}
    BY <1>3, <2>1 DEF StopKnows, Active, TakesOf
  <2>3. PICK q \in {IdleCall, [rec[c] EXCEPT !.pc = "queue"]} : Update(c, q)
    BY <1>7, <2>1 DEF Done
  <2>4. q \in Call /\ q.op # "start"
    BY <1>1, <1>7, <2>1, <2>3
  <2>5. rec'[c] = q /\ \A x \in Callers \ {c} : rec'[x] = rec[x]
    BY <2>3, <2>4, Updated
  <2>6. (\A x \in Callers : StartKnows(rec[x]) /\ StopKnows(rec[x]))'
    BY <1>2, <2>1, <2>2, StartersPresent DEF StartKnows, StopKnows
  <2> QED
    BY <2>2, <2>6 DEF LeaverInv
<1>23. CASE StartAudio(c)
  <2>1. PICK t \in TakesOf("none") :
           take' = [take EXCEPT ![t] = "active"] /\ owner' = [owner EXCEPT ![t] = rec[c].who]
    BY <1>23 DEF StartAudio
  <2>2. /\ At(c, "start", "audio") /\ GoOn(c, "tracks") /\ UNCHANGED <<main, crew>>
        /\ t \in Takes /\ rec[c].op = "start"
    BY <1>23, <2>1 DEF StartAudio, MetaKept, At, TakesOf
  <2> DEFINE q == [rec[c] EXCEPT !.pc = "tracks"]
  <2>3. q \in Call /\ q.op = "start" /\ q.pc = "tracks" /\ q.who = rec[c].who /\ Update(c, q)
    BY <1>7, <2>2
  <2> HIDE DEF q
  <2>4. rec'[c] = q /\ \A x \in Callers \ {c} : rec'[x] = rec[x] /\ rec'[x].op = "none"
    BY <1>2, <1>4, <2>3, Updated DEF StartsAlone
  <2>5. Active = {} /\ rec[c].who \in People
    BY <1>2, <2>2 DEF CountInv, RecTypes, AudioFree, Noticed
  <2>6. Active' = {t} /\ owner'[t] = rec[c].who
    BY <1>1, <2>1, <2>2, <2>5 DEF Active, TakesOf, CrewInv
  <2>7. crew'[rec[c].who] \in {"in", "left"}
    BY <1>2, <2>3, <2>4, StartersPresent
  <2>8. Begun(rec'[c]) /\ rec'[c].who = owner'[t]
    BY <2>3, <2>4, <2>6 DEF Begun
  <2>9. \A x \in Active' : owner'[x] \in People /\ Named(x)' /\ Attended(x)'
    BY <2>5, <2>6, <2>7, <2>8 DEF Named, Attended
  <2>10. main'.recorder = NoOne
    BY <1>3, <2>2 DEF StartKnows
  <2>11. (\A x \in Callers : StartKnows(rec[x]) /\ StopKnows(rec[x]))'
    BY <1>2, <2>3, <2>4, <2>10, StartersPresent DEF StartKnows, StopKnows
  <2> QED
    BY <2>9, <2>11 DEF LeaverInv
<1>24. CASE StartMark(c)
  <2>1. /\ Update(c, IdleCall) /\ UNCHANGED <<owner, take, crew>> /\ rec[c].op = "start"
        /\ main'.recorder = rec[c].who /\ rec[c].who \in People
    BY <1>1, <1>24 DEF StartMark, At, UpdateRoomMetadata, Meta, Call, CountInv, RecTypes
  <2>2. \A x \in Callers : rec'[x].op = "none" /\ (x # c => rec[x].op = "none")
    BY <1>1, <1>2, <1>4, <2>1, Updated DEF StartsAlone, Noticed
  <2>3. main.recorder = NoOne
    BY <1>3, <2>1 DEF StartKnows
  <2>4. \A t \in Active : owner[t] = rec[c].who
    BY <1>3, <2>2, <2>3, RoomMetadataAssumption DEF Named, Begun
  <2>5. Active' = Active
    BY <2>1 DEF Active, TakesOf
  <2>6. \A t \in Active' : Attended(t)'
    BY <1>1, <1>2, <1>5, <2>1, <2>5, AttendedKept
  <2>7. \A t \in Active' : owner'[t] \in People /\ Named(t)'
    BY <2>1, <2>4, <2>5 DEF Named
  <2>8. (\A x \in Callers : StartKnows(rec[x]) /\ StopKnows(rec[x]))'
    BY <2>2 DEF StartKnows, StopKnows
  <2> QED
    BY <2>6, <2>7, <2>8 DEF LeaverInv
<1>25. CASE ScreenCheck(c)
  <2> DEFINE q == [IdleCall EXCEPT !.op = "screen", !.pc = "track"]
  <2>1. q \in Call /\ q.op = "screen" /\ ~Begun(rec[c])
    BY <1>1, <1>25 DEF Call, ScreenCheck, Begun
  <2>2. /\ UNCHANGED <<take, owner, main, crew>> /\ rec[c] = IdleCall
        /\ Update(c, q) \/ Update(c, IdleCall)
    BY <1>1, <1>25 DEF ScreenCheck, MetaKept, Update
  <2> HIDE DEF q
  <2> QED
    BY <1>6, <1>11, <2>1, <2>2
<1>26. CASE ScreenTrack(c) \/ ScreenFails(c)
  BY <1>11, <1>26 DEF ScreenTrack, ScreenFails, At, Begun, MetaKept
<1> QED
  BY <1>9, <1>10, <1>12, <1>13, <1>14, <1>15, <1>16, <1>18, <1>19, <1>20, <1>21, <1>22, <1>23,
     <1>24, <1>25, <1>26 DEF CallStep

LEMMA LeaverKept ==
    ASSUME LeaverInv, UNCHANGED <<take, owner, rec, crew, crossed, unmarked>>, FlagLeft,
           faults \in Nat, faults' \in Nat, faults' >= faults
    PROVE  LeaverInv'
<1> SUFFICES ASSUME Noticed' PROVE LeaverInv'
  BY DEF LeaverInv
<1>1. Noticed /\ main'.recorder = main.recorder /\ Active' = Active
  BY DEF Noticed, FlagLeft, Active, TakesOf
<1>2. \A t \in Active' : owner'[t] \in People /\ Named(t)' /\ Attended(t)'
  BY <1>1 DEF LeaverInv, Named, Attended
<1>3. (\A c \in Callers : StartKnows(rec[c]) /\ StopKnows(rec[c]))'
  BY <1>1 DEF LeaverInv, StartKnows, StopKnows
<1> QED
  BY <1>2, <1>3 DEF LeaverInv

LEMMA LeaverNext ==
    ASSUME MaxFaults <= 1, Bounds, Bounds', AdmissionInv, RecordingInv, RecordingInv', CrewInv,
           LeaverInv, [Next]_vars
    PROVE  LeaverInv'
<1>1. faults \in Nat /\ faults' \in Nat /\ CountInv
  BY RoomMetadataAssumption DEF Bounds, RecordingInv
<1>2. ASSUME topic = "recording", RecordingStep
      PROVE  LeaverInv'
  <2>1. ObserveCrossing
    BY <1>2 DEF RecordingStep
  <2> SUFFICES ASSUME Noticed' PROVE LeaverInv'
    BY DEF LeaverInv
  <2>2. ~crossed /\ ~crossed'
    BY <2>1, StartersPresent DEF Noticed
  <2>3. ASSUME NEW p \in People, Leave(p) \/ LeaveFails(p)
        PROVE  LeaverInv'
    <3>1. UNCHANGED <<take, owner, rec, main, overtaken, unmarked>> /\ Active' = Active
      BY <2>3 DEF Leave, LeaveFails, MetaKept, accidents, filesAndJobs, Active, TakesOf
    <3>2. Noticed
      BY <2>2, <3>1 DEF Noticed
    <3>3. ASSUME NEW t \in Active'
          PROVE  Attended(t)'
      <4>1. Attended(t) /\ owner[t] \in People /\ crew \in [People -> Presence]
        BY <3>1, <3>2, <3>3 DEF LeaverInv, CrewInv
      <4>2. CASE Leave(p)
        <5>1. faults' = faults /\ crew' = [crew EXCEPT ![p] = "left"]
          BY <4>2 DEF Leave, NoFault
        <5> QED
          BY <3>1, <4>1, <5>1 DEF Attended
      <4>3. CASE LeaveFails(p)
        <5>1. /\ \/ crew[p] = "left" /\ crew' = [crew EXCEPT ![p] = "queued"]
                 \/ crew[p] = "queued" /\ crew' = [crew EXCEPT ![p] = "out"]
              /\ faults = 0 /\ faults' = 1
          <6>1. Fault /\ crew[p] \in {"left", "queued"} /\ crew' = [crew EXCEPT ![p] = AfterHandling(p)]
            BY <4>3 DEF LeaveFails
          <6>2. faults = 0 /\ faults' = 1
            BY <6>1, RoomMetadataAssumption DEF Fault, Bounds
          <6> QED
            BY <6>1, <6>2 DEF AfterHandling
        <5> QED
          BY <3>1, <4>1, <5>1 DEF Attended
      <4> QED
        BY <2>3, <4>2, <4>3
    <3>4. (\A c \in Callers : StartKnows(rec[c]) /\ StopKnows(rec[c]))'
      BY <2>1, <2>2, <3>1, <3>2, StartersPresent DEF LeaverInv, StartKnows, StopKnows
    <3> QED
      BY <3>1, <3>2, <3>3, <3>4 DEF LeaverInv, Named
  <2>4. ASSUME UNCHANGED <<owner, rec, crew, main, overtaken, unmarked>>, Active' = Active,
               faults' >= faults
        PROVE  LeaverInv'
    <3>1. Noticed
      BY <2>2, <2>4 DEF Noticed
    <3>2. \A t \in Active' : owner'[t] \in People /\ Named(t)' /\ Attended(t)'
      BY <1>1, <2>4, <3>1 DEF LeaverInv, Named, Attended
    <3>3. (\A c \in Callers : StartKnows(rec[c]) /\ StopKnows(rec[c]))'
      BY <2>4, <3>1 DEF LeaverInv, StartKnows, StopKnows
    <3> QED
      BY <3>2, <3>3 DEF LeaverInv
  <2>5. CASE ShareScreen \/ UnshareScreen
    <3>1. UNCHANGED <<take, owner, rec, crew, main, overtaken, unmarked, faults>>
      BY <2>5 DEF ShareScreen, UnshareScreen, MetaKept, NoFault, accidents, filesAndJobs
    <3>2. Active' = Active /\ faults' >= faults
      BY <1>1, <3>1 DEF Active, TakesOf
    <3> QED
      BY <2>4, <3>1, <3>2
  <2>6. ASSUME NEW w \in Posters, PostStep(w)
        PROVE  LeaverInv'
    <3>1. UNCHANGED <<owner, rec, crew, main, overtaken, unmarked>>
      BY <2>6, Zenon DEF PostStep, PostRead, PostRender, PostUploadFails, PostUnlink, PostPush,
         PostFails, PostOnly, MetaKept, accidents
    <3>2. faults' = faults \/ Fault
      BY <2>6, Zenon DEF PostStep, PostRead, PostRender, PostUploadFails, PostUnlink, PostPush,
         PostFails
    <3>3. Active' = Active
      <4>1. take \in [Takes -> TakeStatus]
        BY <1>1 DEF CountInv, RecTypes
      <4>2. CASE PostUnlink(w)
        BY <4>1, <4>2 DEF PostUnlink, Active, TakesOf
      <4>3. CASE PostPush(w)
        <5>1. post[w].last \in Takes /\ take[post[w].last] # "active"
          BY <1>1, <4>3 DEF PostPush, CountInv, FilesStopped
        <5> QED
          BY <4>1, <4>3, <5>1 DEF PostPush, Active, TakesOf
      <4>4. CASE UNCHANGED take
        BY <4>4 DEF Active, TakesOf
      <4> QED
        BY <2>6, <4>2, <4>3, <4>4 DEF PostStep, PostRead, PostRender, PostUploadFails, PostFails
    <3> QED
      BY <1>1, <2>4, <3>1, <3>2, <3>3 DEF Fault
  <2> QED
    BY <1>1, <1>2, <2>1, <2>3, <2>5, <2>6, CallLeaverInv DEF RecordingStep
<1>3. ASSUME topic' = topic, UNCHANGED recordingVars, topic # "recording"
      PROVE  LeaverInv'
  <2>1. RecordingInit'
    BY <1>3 DEF RecordingInv, RecordingInit, recordingVars
  <2>2. Active' = {} /\ \A c \in Callers : rec'[c].op = "none"
    BY <2>1, RecordingTypes DEF RecordingInit, Active, TakesOf
  <2> QED
    BY <2>2 DEF LeaverInv, StartKnows, StopKnows
<1>4. ASSUME topic = "recording", UNCHANGED recordingVars, Set \/ UNCHANGED vars
      PROVE  LeaverInv'
  <2>1. FlagLeft
    <3>1. CASE Set
      <4>1. "recorder" \in DOMAIN main
        BY <1>1, <1>4 DEF CountInv, RecTypes, MetaTypes, Meta
      <4> QED
        BY <3>1, <4>1, SettingLeavesFlag DEF Set
    <3>2. CASE UNCHANGED vars
      BY <3>2 DEF vars, metaVars, FlagLeft
    <3> QED
      BY <1>4, <3>1, <3>2
  <2>2. faults' = faults \/ Fault
    <3>1. CASE Set
      BY <3>1, BusyFinite, SettingCounted DEF Set, Counted
    <3>2. CASE UNCHANGED vars
      BY <3>2 DEF vars, metaVars
    <3> QED
      BY <1>4, <3>1, <3>2
  <2>3. faults' >= faults /\ UNCHANGED <<take, owner, rec, crew, crossed, unmarked>>
    BY <1>1, <1>4, <2>2 DEF Fault, recordingVars
  <2> QED
    BY <1>1, <2>1, <2>3, LeaverKept
<1>5. \/ topic = "recording" /\ RecordingStep
      \/ topic' = topic /\ UNCHANGED recordingVars /\ topic # "recording"
      \/ UNCHANGED recordingVars /\ (Set \/ UNCHANGED vars)
  BY Zenon DEF Next, Break, Record, Govern, Set, Rest, vars
<1>6. topic' = topic
  BY Zenon DEF Next, Break, Record, Govern, Set, Rest, vars
<1> QED
  BY <1>2, <1>3, <1>4, <1>5, <1>6

(* The handling of a leaving, by webhook and job: how each request that    *)
(* stops a recording for a leaver is tied to the leaving it belongs to     *)
(* (handleParticipantLeft).                                                *)
THEOREM CrewInvariantHolds == Spec => [](Bounds /\ CrewInv)
<1>1. Init => Bounds /\ CrewInv
  <2>1. Init => Bounds
    <3>1. Init => asked = 0 /\ faults = 0 /\ overtaken = FALSE
      BY Zenon DEF Init, MetaInit
    <3>2. 0 \in 0..MaxAsked /\ 0 \in 0..MaxFaults
      BY RoomMetadataAssumption
    <3> QED
      BY <3>1, <3>2, Zenon DEF Bounds
  <2> QED
    BY <2>1, CrewInit
<1>2. RecordingInv /\ Bounds /\ CrewInv /\ [Next]_vars => (Bounds /\ CrewInv)'
  BY BoundsNext, CrewNext
<1> QED
  BY <1>1, <1>2, RecordingInvariantHolds, PTL DEF Spec

(* Nobody who has left goes on being recorded, even if one call to LiveKit *)
(* fails on the way: webhook and job each try to stop the recording        *)
(* (handleParticipantLeft, stopRecording). The hypothesis is that failure: *)
(* with two, both tries can be lost.                                       *)
THEOREM LeaverStopsRecordingAlways ==
    ASSUME MaxFaults <= 1
    PROVE  Spec => []LeaverStopsRecording
<1>1. Init => LeaverInv
  <2>1. Init => Active = {} /\ \A c \in Callers : rec[c].op = "none"
    BY RecordingTypes DEF Init, RecordingInit, Active, TakesOf
  <2> QED
    BY <2>1 DEF LeaverInv, StartKnows, StopKnows
<1>2. /\ AdmissionInv /\ RecordingInv /\ Bounds /\ CrewInv /\ LeaverInv /\ [Next]_vars
      /\ (Bounds /\ RecordingInv)'
      => LeaverInv'
  BY LeaverNext
<1>3. LeaverInv => LeaverStopsRecording
  BY DEF LeaverInv, LeaverStopsRecording, Noticed, Attended, Active, TakesOf
<1> QED
  BY <1>1, <1>2, <1>3, AdmissionInvariantHolds, RecordingInvariantHolds, CrewInvariantHolds, PTL
     DEF Spec
==============================================================================
