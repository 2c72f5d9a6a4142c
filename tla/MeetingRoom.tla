----------------------------- MODULE MeetingRoom -----------------------------
(***************************************************************************)
(* What the request handlers and the queue workers of the meeting back end *)
(* share for ONE meeting code: the MeetingSession documents in MongoDB,    *)
(* the room on the LiveKit server, the join tokens handed out, and the     *)
(* BullMQ queue "meeting" that the LiveKit webhook fills.                  *)
(*                                                                         *)
(* Every operation on a session filters by meetingCode and every LiveKit   *)
(* call names the room by meetingCode, so distinct codes do not interact.  *)
(***************************************************************************)
EXTENDS Integers, FiniteSets

CONSTANTS
    Users,          \* human participants (identity = supabaseId)
    NoUser,         \* stands for "no participant" in a job about the room
    MaxSessions,    \* bound: MeetingSession documents in a behaviour
    MaxConnects,    \* bound: LiveKit connections of one user in a behaviour
    LiveKitFaults   \* TRUE when a call to the LiveKit API may fail

ASSUME MeetingRoomAssumption ==
    /\ NoUser \notin Users
    /\ MaxSessions \in Nat \ {0}
    /\ MaxConnects \in Nat
    /\ LiveKitFaults \in BOOLEAN

Sessions == 1..MaxSessions
NoSession == 0
SessionStatus == {"unborn", "ongoing", "ended"}

VARIABLES
    sess,    \* status of each MeetingSession document
    room,    \* the LiveKit room of this code
    tokens,  \* users holding a join token that has not expired
    conn,    \* number of the latest LiveKit connection of each user
    queue    \* jobs waiting in the BullMQ queue

roomVars == <<sess, room, tokens, conn, queue>>

Jobs == [kind : {"joined", "left"}, who : Users, n : Nat, tries : Nat]
            \cup [kind : {"closeAll"}, who : {NoUser}, n : Nat, tries : Nat]

RoomTypeOK ==
    /\ sess \in [Sessions -> SessionStatus]
    /\ room \in [up : BOOLEAN, sid : Sessions \cup {NoSession},
                 humans : SUBSET Users, breakout : BOOLEAN, gen : Nat]
    /\ tokens \subseteq Users
    /\ conn \in [Users -> Nat]
    /\ queue \subseteq Jobs

Ongoing == {s \in Sessions : sess[s] = "ongoing"}

Born == {s \in Sessions : sess[s] # "unborn"}

(* findOne({meetingCode, status: "ongoing"}) *)
FindOngoing == IF Ongoing = {} THEN NoSession ELSE CHOOSE s \in Ongoing : TRUE

(* Mutant: the update writes a status that the schema does not know. *)
EndWithUnknownStatus ==
    sess' = [s \in Sessions |-> IF s \in Ongoing THEN "finished" ELSE sess[s]]

(* updateMany({status: "ongoing"}, {status: "ended"}) on this code.        *)
EndMeetingByCode ==
    sess' = [s \in Sessions |-> IF s \in Ongoing THEN "ended" ELSE sess[s]]

(* Mutant: the index on {meetingCode, status} is missing. *)
CreateWithoutIndex(s) ==
    /\ sess[s] = "unborn"
    /\ \A t \in Sessions : t < s => sess[t] # "unborn"
    /\ sess' = [sess EXCEPT ![s] = "ongoing"]

(* sessionModel.create: the partial unique index on {meetingCode, status}  *)
(* admits it only while no session of the code is ongoing. Documents are   *)
(* numbered in the order they are created.                                 *)
CreateSession(s) ==
    /\ Ongoing = {}
    /\ sess[s] = "unborn"
    /\ \A t \in Sessions : t < s => sess[t] # "unborn"
    /\ sess' = [sess EXCEPT ![s] = "ongoing"]

(***************************************************************************)
(* Jobs added by the LiveKit webhook. n tells the connection (or, for      *)
(* closeAll, the room) that caused the job: the code does not carry it,    *)
(* it only keeps two jobs of one user apart here.                          *)
(***************************************************************************)
JoinedJob(u, n) == [kind |-> "joined", who |-> u, n |-> n, tries |-> 0]
LeftJob(u, n) == [kind |-> "left", who |-> u, n |-> n, tries |-> 0]
CloseAllJob(g) == [kind |-> "closeAll", who |-> NoUser, n |-> g, tries |-> 0]

NewRoom(sid, humans) ==
    [up |-> TRUE, sid |-> sid, humans |-> humans, breakout |-> FALSE,
     gen |-> room.gen + 1]

(* The room ends on LiveKit: everybody is disconnected, and the webhook    *)
(* receives one participant_left each and a room_finished.                 *)
FinishRoom ==
    /\ room' = [up |-> FALSE, sid |-> NoSession, humans |-> {},
                breakout |-> FALSE, gen |-> room.gen]
    /\ queue' = queue \cup {LeftJob(u, conn[u]) : u \in room.humans}
                      \cup {CloseAllJob(room.gen)}

(* deleteRoom fails when the room is already gone; the failure is caught.  *)
ForceDeleteLiveKitRoom ==
    \/ room.up /\ FinishRoom
    \/ (~room.up \/ LiveKitFaults) /\ UNCHANGED <<room, queue>>

(***************************************************************************)
(* The LiveKit server and the participants (external).                     *)
(***************************************************************************)

(* A participant connects with a token. LiveKit creates a room that does   *)
(* not exist, without metadata: livekit.yaml leaves auto-creation on. A    *)
(* connection the identity already has (forceSwitch) is dropped.           *)
Connect(u) ==
    /\ u \in tokens
    /\ conn[u] < MaxConnects
    /\ conn' = [conn EXCEPT ![u] = @ + 1]
    /\ room' = IF room.up THEN [room EXCEPT !.humans = @ \cup {u}]
                          ELSE NewRoom(NoSession, {u})
    /\ queue' = queue \cup {JoinedJob(u, conn[u] + 1)}
                      \cup {LeftJob(v, conn[v]) : v \in room.humans \cap {u}}
    /\ UNCHANGED <<sess, tokens>>

Disconnect(u) ==
    /\ u \in room.humans
    /\ room' = [room EXCEPT !.humans = @ \ {u}]
    /\ queue' = queue \cup {LeftJob(u, conn[u])}
    /\ UNCHANGED <<sess, tokens, conn>>

(* The tokens live for five minutes. *)
TokenExpires(u) ==
    /\ u \in tokens
    /\ tokens' = tokens \ {u}
    /\ UNCHANGED <<sess, room, conn, queue>>

(* emptyTimeout / departureTimeout: an empty room is closed by LiveKit.    *)
EmptyTimeout ==
    /\ room.up
    /\ room.humans = {}
    /\ FinishRoom
    /\ UNCHANGED <<sess, tokens, conn>>

(* A breakout session is a mark in the metadata of the room, with which    *)
(* checkAndCloseEmptyRoom leaves the room alone. The host sets it and      *)
(* takes it away, or the timer does: none of them looks who is in the main *)
(* room, which is empty while everybody is in a breakout room.             *)
OpenBreakout ==
    /\ room.up /\ ~room.breakout
    /\ room' = [room EXCEPT !.breakout = TRUE]
    /\ UNCHANGED <<sess, tokens, conn, queue>>

CloseBreakout ==
    /\ room.up /\ room.breakout
    /\ room' = [room EXCEPT !.breakout = FALSE]
    /\ UNCHANGED <<sess, tokens, conn, queue>>

LiveKit ==
    \/ \E u \in Users : Connect(u) \/ Disconnect(u) \/ TokenExpires(u)
    \/ EmptyTimeout
    \/ OpenBreakout \/ CloseBreakout
==============================================================================
