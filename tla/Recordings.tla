------------------------------ MODULE Recordings ------------------------------
(***************************************************************************)
(* RecordingsService: a recording is an audio egress of LiveKit, which a   *)
(* flag in the metadata of the main room marks with its recorder, and a    *)
(* track egress while somebody shares a screen. Stopping it queues the job *)
(* process-recording, which makes a video of the files and adds it to the  *)
(* session. A recorder who leaves is stopped by the webhook of his leaving *)
(* and, once more, by the job the webhook queues. All of these interleave  *)
(* at every call.                                                          *)
(***************************************************************************)
EXTENDS RoomMetadata

CONSTANTS
    Callers,     \* requests and webhooks served at the same time
    Posters,     \* workers for process-recording
    Screen,      \* the egress of the shared screen
    NoTake       \* stands for "no recording"

(* Recordings, in the order of their start: no more than requests. *)
Takes == 1..MaxAsked

ASSUME RecordingAssumption ==
    /\ Screen \notin Takes
    /\ NoTake \notin Takes
    /\ IsFiniteSet(Callers)

VARIABLES
    take,      \* the audio egress of each recording, then its file
    owner,     \* who started it
    sharing,   \* somebody shares a screen
    published, \* a track_published webhook is still to be handled
    screen,    \* an egress of the shared screen is active
    crew,      \* presence of each person and of the handling of its leaving
    rec,       \* what each request or webhook is doing
    jobs,      \* process-recording jobs in the queue
    post,      \* what each worker for them is doing
    crossed,   \* history: a start ran together with another request, or
               \* while the leaving of its user was handled
    unmarked,  \* history: a start failed after its egress had begun
    cut,       \* history: a stop did only part of its work
    piled      \* history: a job found the files of several recordings

recordingVars == <<take, owner, sharing, published, screen, crew, rec, jobs,
                   post, crossed, unmarked, cut, piled>>
filesAndJobs == <<jobs, post, piled>>
stage == <<sharing, published>>
accidents == <<unmarked, cut>>

TakeStatus == {"none", "active", "raw", "published", "lost"}
Presence == {"in", "left", "webhook", "queued", "job", "out"}

(* who is the user of a request or the leaver, leaver tells whether it is  *)
(* a leaving that is handled, snap is roomMeta, seen activeEgresses.       *)
Call == [op : {"none", "start", "stop", "screen"},
         pc : {"idle", "list", "egress", "audio", "tracks", "screen", "mark",
               "stop", "clear", "queue", "track"},
         who : People \cup {NoOne}, leaver : BOOLEAN, snap : Meta,
         seen : SUBSET (Takes \cup {Screen})]

IdleCall == [op |-> "none", pc |-> "idle", who |-> NoOne, leaver |-> FALSE,
             snap |-> FirstMeta, seen |-> {}]

Post == [pc : {"idle", "render", "unlink", "push"}, files : SUBSET Takes,
         last : Takes \cup {NoTake}, uploaded : BOOLEAN]
IdlePost == [pc |-> "idle", files |-> {}, last |-> NoTake, uploaded |-> FALSE]

RecordingTypeOK ==
    /\ take \in [Takes -> TakeStatus]
    /\ owner \in [Takes -> People \cup {NoOne}]
    /\ sharing \in BOOLEAN /\ published \in BOOLEAN /\ screen \in BOOLEAN
    /\ crew \in [People -> Presence]
    /\ rec \in [Callers -> Call]
    /\ jobs \in Nat
    /\ post \in [Posters -> Post]
    /\ crossed \in BOOLEAN /\ unmarked \in BOOLEAN /\ cut \in BOOLEAN
    /\ piled \in BOOLEAN

RecordingInit ==
    /\ take = [t \in Takes |-> "none"]
    /\ owner = [t \in Takes |-> NoOne]
    /\ sharing = FALSE /\ published = FALSE /\ screen = FALSE
    /\ crew = [p \in People |-> "in"]
    /\ rec = [c \in Callers |-> IdleCall]
    /\ jobs = 0
    /\ post = [w \in Posters |-> IdlePost]
    /\ crossed = FALSE /\ unmarked = FALSE /\ cut = FALSE
    /\ piled = FALSE

TakesOf(status) == {t \in Takes : take[t] = status}
ActiveEgresses == TakesOf("active") \cup (IF screen THEN {Screen} ELSE {})

At(c, op, pc) == rec[c].op = op /\ rec[c].pc = pc
Update(c, q) == rec' = [rec EXCEPT ![c] = q]
BusyCallers == {c \in Callers : rec[c].op # "none"}
AskCall == AskBeside(BusyCallers)
GoOn(c, pc) == Update(c, [rec[c] EXCEPT !.pc = pc])

(* The handling of a leaving goes on from the webhook to the job the       *)
(* webhook queues, and from the job to its other work, whatever happened.  *)
Handled(p) == crew' = [crew EXCEPT ![p] = CASE @ = "webhook" -> "queued"
                                            [] @ = "job" -> "out"]
Done(c) == /\ Update(c, IdleCall)
           /\ IF rec[c].leaver THEN Handled(rec[c].who) ELSE UNCHANGED crew

StopEgresses(S) ==
    /\ take' = [t \in Takes |-> IF t \in S /\ take[t] = "active"
                                THEN "raw" ELSE take[t]]
    /\ screen' = (screen /\ Screen \notin S)

MetaKept == UNCHANGED <<main, overtaken>>
NoFault == UNCHANGED <<setter, faults>>

(***************************************************************************)
(* startRecording.                                                         *)
(***************************************************************************)
RecordList(c, p) ==
    /\ rec[c] = IdleCall
    /\ crew[p] = "in"
    /\ AskCall
    /\ main.recorder = NoOne
    /\ Update(c, [IdleCall EXCEPT !.op = "start", !.pc = "egress", !.who = p,
                                 !.snap = main])
    /\ UNCHANGED <<take, owner, screen, crew, filesAndJobs, stage, accidents>>
    /\ MetaKept /\ NoFault

(* Mutant: the egresses LiveKit has active are not looked at. *)
StartUnchecked(c) ==
    /\ At(c, "start", "egress")
    /\ GoOn(c, "audio")
    /\ UNCHANGED <<take, owner, screen, crew, filesAndJobs, stage, accidents, asked>>
    /\ MetaKept /\ NoFault

StartEgressCheck(c) ==
    /\ At(c, "start", "egress")
    /\ IF ActiveEgresses = {} THEN GoOn(c, "audio") ELSE Update(c, IdleCall)
    /\ UNCHANGED <<take, owner, screen, crew, filesAndJobs, stage, accidents, asked>>
    /\ MetaKept /\ NoFault

StartAudio(c) ==
    \E t \in TakesOf("none") :
        /\ At(c, "start", "audio")
        /\ t - 1 \notin TakesOf("none")
        /\ take' = [take EXCEPT ![t] = "active"]
        /\ owner' = [owner EXCEPT ![t] = rec[c].who]
        /\ GoOn(c, "tracks")
        /\ UNCHANGED <<screen, crew, filesAndJobs, stage, accidents, asked>>
        /\ MetaKept /\ NoFault

StartTracks(c) ==
    /\ At(c, "start", "tracks")
    /\ GoOn(c, IF sharing THEN "screen" ELSE "mark")
    /\ UNCHANGED <<take, owner, screen, crew, filesAndJobs, stage, accidents, asked>>
    /\ MetaKept /\ NoFault

(* The track may have gone since: then startTrackEgress fails. *)
StartScreen(c) ==
    /\ At(c, "start", "screen")
    /\ screen' = sharing
    /\ IF sharing THEN GoOn(c, "mark") ELSE Update(c, IdleCall)
    /\ unmarked' = (unmarked \/ ~sharing)
    /\ UNCHANGED <<take, owner, crew, filesAndJobs, stage, cut, asked>>
    /\ MetaKept /\ NoFault

StartMark(c) ==
    /\ At(c, "start", "mark")
    /\ UpdateRoomMetadata([rec[c].snap EXCEPT !.recorder = rec[c].who],
                          {"recorder"})
    /\ Update(c, IdleCall)
    /\ UNCHANGED <<take, owner, screen, crew, filesAndJobs, stage, accidents, asked>>
    /\ NoFault

(* An error is thrown to the recorder; an egress that has begun goes on. *)
StartFails(c) ==
    /\ rec[c].op = "start"
    /\ Fault
    /\ unmarked' = (unmarked \/ rec[c].pc \in {"tracks", "screen", "mark"})
    /\ Update(c, IdleCall)
    /\ UNCHANGED <<take, owner, screen, crew, filesAndJobs, stage, cut, asked, setter>>
    /\ MetaKept

(***************************************************************************)
(* stopRecording: asked for by a user, whom the flag must name if there is *)
(* one, or forced because the recorder left.                               *)
(***************************************************************************)
StopList(c, p) ==
    /\ rec[c] = IdleCall
    /\ crew[p] = "in"
    /\ AskCall
    /\ main.recorder \in {NoOne, p}
    /\ Update(c, [IdleCall EXCEPT !.op = "stop", !.pc = "egress", !.who = p,
                                 !.snap = main])
    /\ UNCHANGED <<take, owner, screen, crew, filesAndJobs, stage, accidents>>
    /\ MetaKept /\ NoFault

ForcedStopList(c) ==
    /\ At(c, "stop", "list")
    /\ Update(c, [rec[c] EXCEPT !.pc = "egress", !.snap = main])
    /\ UNCHANGED <<take, owner, screen, crew, filesAndJobs, stage, accidents, asked>>
    /\ MetaKept /\ NoFault

(* An error of listRooms is only logged: without metadata nobody is named  *)
(* as the recorder, and no flag will be cleared.                           *)
StopListFails(c) ==
    /\ \/ At(c, "stop", "list") /\ GoOn(c, "egress") /\ UNCHANGED asked
       \/ \E p \in People :
             /\ rec[c] = IdleCall
             /\ crew[p] = "in"
             /\ AskCall
             /\ Update(c, [IdleCall EXCEPT !.op = "stop", !.pc = "egress", !.who = p])
    /\ Fault
    /\ cut' = TRUE
    /\ UNCHANGED <<take, owner, screen, crew, filesAndJobs, stage, unmarked, setter>>
    /\ MetaKept

Flagged(c) == rec[c].snap.recorder # NoOne

StopEgressCheck(c) ==
    /\ At(c, "stop", "egress")
    /\ IF ActiveEgresses # {}
       THEN /\ Update(c, [rec[c] EXCEPT !.pc = "stop", !.seen = ActiveEgresses])
            /\ UNCHANGED crew
       ELSE IF Flagged(c) THEN GoOn(c, "clear") /\ UNCHANGED crew
       ELSE Done(c)
    /\ UNCHANGED <<take, owner, screen, filesAndJobs, stage, accidents, asked>>
    /\ MetaKept /\ NoFault

(* All are stopped in parallel; an egress that is no longer active makes   *)
(* its call fail, and with it the whole request.                           *)
StopAll(c) ==
    LET seen == rec[c].seen IN
    /\ At(c, "stop", "stop")
    /\ StopEgresses(seen)
    /\ IF seen \subseteq ActiveEgresses
       THEN GoOn(c, IF Flagged(c) THEN "clear" ELSE "queue") /\ UNCHANGED <<crew, cut>>
       ELSE Done(c) /\ cut' = (cut \/ seen \cap TakesOf("active") # {})
    /\ UNCHANGED <<owner, filesAndJobs, stage, unmarked, asked>>
    /\ MetaKept /\ NoFault

(* Mutant: the flag stays when there was an egress to stop. *)
StopKeepsFlag(c) ==
    /\ At(c, "stop", "clear")
    /\ IF rec[c].seen = {} THEN Done(c) ELSE GoOn(c, "queue") /\ UNCHANGED crew
    /\ UNCHANGED <<take, owner, screen, filesAndJobs, stage, accidents, asked>>
    /\ MetaKept /\ NoFault

StopClear(c) ==
    /\ At(c, "stop", "clear")
    /\ UpdateRoomMetadata([rec[c].snap EXCEPT !.recorder = NoOne], {"recorder"})
    /\ IF rec[c].seen = {} THEN Done(c) ELSE GoOn(c, "queue") /\ UNCHANGED crew
    /\ UNCHANGED <<take, owner, screen, filesAndJobs, stage, accidents, asked>>
    /\ NoFault

(* Mutant: no job is queued for a stop that was forced. *)
StopQueueUnlessForced(c) ==
    /\ At(c, "stop", "queue")
    /\ jobs' = IF rec[c].leaver THEN jobs ELSE jobs + 1
    /\ Done(c)
    /\ UNCHANGED <<take, owner, screen, post, piled, stage, accidents, asked>>
    /\ MetaKept /\ NoFault

StopQueue(c) ==
    /\ At(c, "stop", "queue")
    /\ jobs' = jobs + 1
    /\ Done(c)
    /\ UNCHANGED <<take, owner, screen, post, piled, stage, accidents, asked>>
    /\ MetaKept /\ NoFault

(* One of its calls fails; of several stopEgress some may have succeeded. *)
StopFails(c) ==
    \E S \in SUBSET rec[c].seen :
        /\ rec[c].op = "stop" /\ rec[c].pc # "list"
        /\ Fault
        /\ IF rec[c].pc = "stop"
           THEN S # rec[c].seen /\ StopEgresses(S)
           ELSE S = {} /\ UNCHANGED <<take, screen>>
        /\ cut' = \/ cut
                  \/ rec[c].pc \in {"clear", "queue"} /\ rec[c].seen # {}
                  \/ S # {}
        /\ Done(c)
        /\ UNCHANGED <<owner, filesAndJobs, stage, unmarked, asked, setter>>
        /\ MetaKept

(***************************************************************************)
(* handleParticipantLeft, from the webhook participant_left and from the   *)
(* job attendance-left.                                                    *)
(***************************************************************************)
Leave(p) ==
    /\ crew[p] = "in"
    /\ crew' = [crew EXCEPT ![p] = "left"]
    /\ UNCHANGED <<take, owner, screen, rec, filesAndJobs, stage, accidents, asked>>
    /\ MetaKept /\ NoFault

Handling(p) == CASE crew[p] = "left" -> "webhook" [] crew[p] = "queued" -> "job"
AfterHandling(p) == CASE crew[p] = "left" -> "queued" [] crew[p] = "queued" -> "out"

(* Mutant: the leaver is taken for somebody else. *)
NobodyRecords(p) == FALSE

(* The recorder's leaving goes on to stop the recording. *)
LeaverRecords(p) == main.recorder = p

LeaveList(c, p) ==
    /\ rec[c] = IdleCall
    /\ crew[p] \in {"left", "queued"}
    /\ IF LeaverRecords(p)
       THEN /\ crew' = [crew EXCEPT ![p] = Handling(p)]
            /\ Update(c, [IdleCall EXCEPT !.op = "stop", !.pc = "list",
                                         !.who = p, !.leaver = TRUE])
       ELSE /\ crew' = [crew EXCEPT ![p] = AfterHandling(p)]
            /\ UNCHANGED rec
    /\ UNCHANGED <<take, owner, screen, filesAndJobs, stage, accidents, asked>>
    /\ MetaKept /\ NoFault

LeaveFails(p) ==
    /\ crew[p] \in {"left", "queued"}
    /\ Fault
    /\ crew' = [crew EXCEPT ![p] = AfterHandling(p)]
    /\ UNCHANGED <<take, owner, screen, rec, filesAndJobs, stage, accidents, asked, setter>>
    /\ MetaKept

(***************************************************************************)
(* handleNewScreenShareTrack, and the screen that is shared.               *)
(***************************************************************************)
ShareScreen ==
    /\ ~sharing
    /\ AskCall
    /\ sharing' = TRUE
    /\ published' = TRUE
    /\ UNCHANGED <<take, owner, screen, crew, rec, filesAndJobs, accidents>>
    /\ MetaKept /\ NoFault

(* The egress of a track ends with it. *)
UnshareScreen ==
    /\ sharing
    /\ sharing' = FALSE
    /\ screen' = FALSE
    /\ UNCHANGED <<take, owner, published, crew, rec, filesAndJobs, accidents, asked>>
    /\ MetaKept /\ NoFault

ScreenCheck(c) ==
    /\ rec[c] = IdleCall
    /\ published
    /\ published' = FALSE
    /\ IF ActiveEgresses = {} THEN UNCHANGED rec
       ELSE Update(c, [IdleCall EXCEPT !.op = "screen", !.pc = "track"])
    /\ UNCHANGED <<take, owner, sharing, screen, crew, filesAndJobs, accidents, asked>>
    /\ MetaKept /\ NoFault

(* Fails, and is only logged, when the track has gone. *)
ScreenTrack(c) ==
    /\ At(c, "screen", "track")
    /\ screen' = sharing
    /\ Update(c, IdleCall)
    /\ UNCHANGED <<take, owner, crew, filesAndJobs, stage, accidents, asked>>
    /\ MetaKept /\ NoFault

ScreenFails(c) ==
    /\ At(c, "screen", "track")
    /\ Fault
    /\ Update(c, IdleCall)
    /\ UNCHANGED <<take, owner, screen, crew, filesAndJobs, stage, accidents, asked, setter>>
    /\ MetaKept

(***************************************************************************)
(* handlePostProcessing.                                                   *)
(***************************************************************************)
UpdatePost(w, q) == post' = [post EXCEPT ![w] = q]
PostOnly == /\ UNCHANGED <<owner, screen, crew, rec, stage, accidents, asked, setter>>
            /\ MetaKept

(* All manifests in the folder of the session are read; of several audio   *)
(* files the one read last is made into a video.                           *)
PostRead(w) ==
    /\ post[w] = IdlePost
    /\ jobs > 0
    /\ jobs' = jobs - 1
    /\ IF TakesOf("raw") = {} THEN UNCHANGED post
       ELSE \E t \in TakesOf("raw") :
               UpdatePost(w, [pc |-> "render", files |-> TakesOf("raw"),
                              last |-> t, uploaded |-> FALSE])
    /\ piled' = (piled \/ Cardinality(TakesOf("raw")) > 1)
    /\ UNCHANGED <<take, faults>> /\ PostOnly

(* ffmpeg and the upload. The files may have been unlinked by then. *)
PostRender(w) ==
    /\ post[w].pc = "render"
    /\ IF take[post[w].last] = "raw"
       THEN UpdatePost(w, [post[w] EXCEPT !.pc = "unlink", !.uploaded = TRUE])
       ELSE UpdatePost(w, IdlePost)
    /\ UNCHANGED <<take, jobs, piled, faults>> /\ PostOnly

(* An error of the upload is only logged. *)
PostUploadFails(w) ==
    /\ post[w].pc = "render"
    /\ take[post[w].last] = "raw"
    /\ Fault
    /\ UpdatePost(w, [post[w] EXCEPT !.pc = "unlink"])
    /\ UNCHANGED <<take, jobs, piled>> /\ PostOnly

PostUnlink(w) ==
    /\ post[w].pc = "unlink"
    /\ take' = [t \in Takes |-> IF t \in post[w].files /\ take[t] = "raw"
                                THEN "lost" ELSE take[t]]
    /\ UpdatePost(w, [post[w] EXCEPT !.pc = "push"])
    /\ UNCHANGED <<jobs, piled, faults>> /\ PostOnly

PostPush(w) ==
    /\ post[w].pc = "push"
    /\ take' = IF post[w].uploaded
               THEN [take EXCEPT ![post[w].last] = "published"] ELSE take
    /\ UpdatePost(w, IdlePost)
    /\ UNCHANGED <<jobs, piled, faults>> /\ PostOnly

(* Every error is swallowed: the job counts as done, and is not repeated. *)
PostFails(w) ==
    /\ post[w].pc \in {"render", "push"}
    /\ Fault
    /\ UpdatePost(w, IdlePost)
    /\ UNCHANGED <<take, jobs, piled>> /\ PostOnly

(***************************************************************************)
CallStep(c) ==
    \/ \E p \in People : RecordList(c, p) \/ StopList(c, p) \/ LeaveList(c, p)
    \/ StartEgressCheck(c) \/ StartAudio(c) \/ StartTracks(c) \/ StartScreen(c)
    \/ StartMark(c) \/ StartFails(c)
    \/ ForcedStopList(c) \/ StopListFails(c) \/ StopEgressCheck(c)
    \/ StopAll(c) \/ StopClear(c) \/ StopQueue(c) \/ StopFails(c)
    \/ ScreenCheck(c) \/ ScreenTrack(c) \/ ScreenFails(c)

PostStep(w) ==
    \/ PostRead(w) \/ PostRender(w) \/ PostUploadFails(w)
    \/ PostUnlink(w) \/ PostPush(w) \/ PostFails(w)

(* History: a start is under way together with another request, or with    *)
(* the handling of its user's leaving.                                     *)
ObserveCrossing ==
    crossed' = \/ crossed
               \/ \E a \in Callers :
                     /\ rec'[a].op = "start"
                     /\ \/ crew'[rec'[a].who] \notin {"in", "left"}
                        \/ \E b \in Callers \ {a} : rec'[b].op # "none"

RecordingStep ==
    /\ \/ \E c \in Callers : CallStep(c)
       \/ \E p \in People : Leave(p) \/ LeaveFails(p)
       \/ ShareScreen \/ UnshareScreen
       \/ \E w \in Posters : PostStep(w)
    /\ ObserveCrossing

(***************************************************************************)
(* Properties.                                                             *)
(***************************************************************************)
CallersRest == BusyCallers = {}

(* There is one recording at a time, unless two starts both passed the     *)
(* checks before either had begun its egress.                              *)
OneRecording == Cardinality(TakesOf("active")) > 1 => crossed

(* When no request is being served, the flag everybody in the room sees    *)
(* is set exactly while an audio egress is active.                         *)
FlagMatchesEgress ==
    (CallersRest /\ ~crossed /\ ~unmarked /\ ~cut /\ ~overtaken) =>
        ((main.recorder # NoOne) <=> (TakesOf("active") # {}))

(* Nobody is recorded by someone who is gone: once a leaving has been      *)
(* handled, by webhook and job, the recording of the leaver is stopped,    *)
(* also when one call to LiveKit failed on the way.                        *)
LeaverStopsRecording ==
    (~crossed /\ ~unmarked /\ ~overtaken) =>
        \A t \in Takes : take[t] = "active" => crew[owner[t]] # "out"

(* When no recording is under way, in the queue or being worked on, every  *)
(* recording that was stopped has become a video of the session; excepted  *)
(* are failures and recordings that were stopped so soon one after the     *)
(* other that one job found the files of both.                             *)
PostersRest == jobs = 0 /\ \A w \in Posters : post[w] = IdlePost

StoppedIsPublished ==
    (CallersRest /\ PostersRest /\ ~cut /\ ~piled /\ faults = 0) =>
        TakesOf("raw") \cup TakesOf("lost") = {}

(* The files of a recording are deleted so as not to get in the way of the *)
(* next one: no recording is deleted without having become a video.        *)
NoRecordingDeleted == (PostersRest /\ faults = 0) => TakesOf("lost") = {}
==============================================================================
