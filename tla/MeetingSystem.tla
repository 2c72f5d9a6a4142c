---------------------------- MODULE MeetingSystem -----------------------------
(***************************************************************************)
(* The life of a meeting: the requests of JoinMeeting, the queue workers   *)
(* of Attendance, the LiveKit server and the participants, interleaved.    *)
(***************************************************************************)
EXTENDS Attendance, JoinMeeting

systemVars == <<roomVars, attVars, joinVars>>

NothingStarted ==
    /\ sess = [s \in Sessions |-> "unborn"]
    /\ room = [up |-> FALSE, sid |-> NoSession, humans |-> {},
               breakout |-> FALSE, gen |-> 0]
    /\ tokens = {}
    /\ conn = [u \in Users |-> 0]
    /\ queue = {}

Init == NothingStarted /\ NoAttendance /\ JoinInit

AllDone == JobsDone /\ RequestsDone

(* The server waits for the next request or webhook.                       *)
Rest == AllDone /\ UNCHANGED <<roomVars, attVars, req, origin>>

SystemStep ==
    \/ LiveKit /\ UNCHANGED <<attVars, req, origin>>
    \/ \E w \in Workers : Worker(w) /\ UNCHANGED <<req, origin>>
    \/ \E r \in Reqs : (Receive(r) \/ Serve(r)) /\ UNCHANGED attVars
    \/ Rest

(* History: a request in progress is raced once a step that is not its own *)
(* changes a session or the room.                                          *)
ObserveRaces ==
    raced' = {r \in Reqs : /\ req'[r].pc # "idle"
                           /\ \/ r \in raced
                              \/ /\ req'[r] = req[r]
                                 /\ <<sess, room>>' # <<sess, room>>}

Next == SystemStep /\ ObserveRaces

Spec == Init /\ [][Next]_systemVars

TypeOK == RoomTypeOK /\ AttTypeOK /\ JoinTypeOK

(***************************************************************************)
(* Properties.                                                             *)
(***************************************************************************)

(* The sessions are opened and ended as SessionRegister says.              *)
Register == INSTANCE SessionRegister
ImplementsRegister == Register!RegisterSpec

(* A join that no one else's step disturbed hands out its token for a room *)
(* that is up and a session that is ongoing; if it started the meeting,    *)
(* the metadata of the room names that session.                            *)
UndisturbedJoinIsCoherent ==
    \A r \in Reqs \ raced :
        (At(r, "token") /\ ~LiveKitFaults) =>
            /\ room.up
            /\ req[r].sid \in Ongoing
            /\ req[r].starting => room.sid = req[r].sid

(* Once all requests and jobs are done and the room is gone, a session can *)
(* be left ongoing only if joinMeeting created it for a running meeting    *)
(* that closed meanwhile: no start leaves one behind, unless a job used up *)
(* its attempts or was overtaken by a later one of its user.               *)
StartsLeaveNoSession ==
    (AllDone /\ ~room.up /\ disordered = {}) =>
        \A s \in Ongoing : origin[s] = "missing"

(* A start that ends the ongoing sessions means those left over from an    *)
(* earlier meeting: it must not end the session of a meeting whose room is *)
(* up, which another start has just created.                               *)
StartSparesLiveMeeting ==
    [][\A r \in Reqs : SweepOngoing(r) => ~(room.up /\ room.sid \in Ongoing)]_systemVars

(* Cleaning up an empty room, and the session it left, makes way for a new *)
(* start: the job that LiveKit's room_finished causes must not end the     *)
(* session of the meeting that was started since and whose room is up.     *)
CleanUpSparesNewMeeting ==
    [][\A w \in Workers :
          (JobEndMeeting(w) /\ work[w].job.kind = "closeAll") =>
              ~(room.up /\ room.gen > work[w].job.n /\ room.sid \in Ongoing)]_systemVars
==============================================================================
