----------------------------- MODULE JoinMeeting ------------------------------
(***************************************************************************)
(* The requests of MeetingsService that look at the LiveKit room of a      *)
(* meeting and act on what they saw: joinMeeting (which starts a meeting   *)
(* that is not running), canStartMeeting and getActiveMeeting. Every call  *)
(* to LiveKit or MongoDB is a step of its own; requests interleave there.  *)
(***************************************************************************)
EXTENDS MeetingRoom

CONSTANTS
    Reqs,      \* requests being served at the same time
    Starters,  \* users whose role lets them start this meeting
    Capacity   \* participants a meeting admits (100 in the code)

ASSUME JoinMeetingAssumption ==
    /\ Starters \subseteq Users
    /\ Capacity \in Nat \ {0}

VARIABLES
    req,     \* what each request is doing
    origin,  \* history: how each session came to be
    raced    \* history: requests during which another party changed the
             \* session or the room

joinVars == <<req, origin, raced>>

Calls == {"joinMeeting", "canStartMeeting", "getActiveMeeting"}

ReqPc == {"idle", "listRooms", "listParticipants", "endOld", "deleteOld",
          "sweepStale", "permission", "admission", "sweepOngoing", "create",
          "findAfterConflict", "findOngoing", "createMissing", "createRoom",
          "token"}

(* The part that only joinMeeting executes, after its checks. *)
JoinPc == {"admission", "sweepOngoing", "create", "findAfterConflict",
           "findOngoing", "createMissing", "createRoom", "token"}

(* call is the endpoint, fn the function now executing: joinMeeting calls  *)
(* canStartMeeting. starting is isMeetingStarting, sid currentSessionId.   *)
(* The flags allowStart and forceSwitch of a join are read once each: the  *)
(* client's choice is made at the step that reads it. Only a join's user   *)
(* matters to the state.                                                   *)
Request ==
    {q \in [pc : ReqPc, call : Calls, fn : Calls, user : Users \cup {NoUser},
            starting : BOOLEAN, sid : Sessions \cup {NoSession}] :
        /\ q.pc \in JoinPc => q.fn = "joinMeeting"
        /\ q.fn = "joinMeeting" => q.call = "joinMeeting"
        /\ q.call = "joinMeeting" => q.user \in Users}

IdleRequest == [pc |-> "idle", call |-> "getActiveMeeting",
                fn |-> "getActiveMeeting", user |-> NoUser,
                starting |-> FALSE, sid |-> NoSession]

NewRequest(c, u) == [pc |-> "listRooms", call |-> c, fn |-> c, user |-> u,
                     starting |-> FALSE, sid |-> NoSession]

JoinTypeOK ==
    /\ req \in [Reqs -> Request]
    /\ origin \in [Sessions -> {"none", "start", "missing"}]
    /\ raced \subseteq Reqs

JoinInit ==
    /\ req = [r \in Reqs |-> IdleRequest]
    /\ origin = [s \in Sessions |-> "none"]
    /\ raced = {}

At(r, pc) == req[r].pc = pc
Step(r, pc) == req' = [req EXCEPT ![r].pc = pc]
Reply(r) == req' = [req EXCEPT ![r] = IdleRequest]

Joins == {r \in Reqs : req[r].call = "joinMeeting"}

(* A join may create one session: it is admitted while there is room for   *)
(* one more under the bound MaxSessions.                                   *)
Receive(r) ==
    /\ At(r, "idle")
    /\ \E c \in Calls, u \in Users \cup {NoUser} :
          /\ (c = "joinMeeting") <=> (u \in Users)
          /\ c = "joinMeeting" =>
                Cardinality(Born) + Cardinality(Joins) < MaxSessions
          /\ req' = [req EXCEPT ![r] = NewRequest(c, u)]
    /\ UNCHANGED <<roomVars, origin>>

(* joinMeeting has no room (any longer): it starts the meeting if the      *)
(* client allows that, asking canStartMeeting first, and fails otherwise.  *)
NoRoomToJoin(r) ==
    \/ req' = [req EXCEPT ![r] = [@ EXCEPT
                  !.pc = "listRooms", !.starting = TRUE, !.fn = "canStartMeeting"]]
    \/ Reply(r)

(* isRoomActive: an error of listRooms reads as "no room".                 *)
ListRooms(r) ==
    /\ At(r, "listRooms")
    /\ \/ room.up /\ Step(r, "listParticipants")
       \/ /\ ~room.up \/ LiveKitFaults
          /\ CASE req[r].fn = "joinMeeting" -> NoRoomToJoin(r)
               [] OTHER -> Step(r, "sweepStale")
    /\ UNCHANGED <<roomVars, origin>>

(* getHumanParticipantsCount: an error of listParticipants reads as 0.     *)
ListParticipants(r) ==
    /\ At(r, "listParticipants")
    /\ \/ /\ room.humans # {}
          /\ IF req[r].fn = "joinMeeting" THEN Step(r, "admission") ELSE Reply(r)
       \/ /\ room.humans = {} \/ LiveKitFaults
          /\ Step(r, "endOld")
    /\ UNCHANGED <<roomVars, origin>>

(* Nobody was counted: end the session, ...                                *)
EndOld(r) ==
    /\ At(r, "endOld")
    /\ EndMeetingByCode
    /\ Step(r, "deleteOld")
    /\ UNCHANGED <<room, tokens, conn, queue, origin>>

(* ... then delete the room and carry on without it.                       *)
DeleteOld(r) ==
    /\ At(r, "deleteOld")
    /\ ForceDeleteLiveKitRoom
    /\ CASE req[r].fn = "joinMeeting" -> NoRoomToJoin(r)
         [] req[r].fn = "canStartMeeting" -> Step(r, "permission")
         [] req[r].fn = "getActiveMeeting" -> Reply(r)
    /\ UNCHANGED <<sess, tokens, conn, origin>>

(* No room on LiveKit: canStartMeeting and getActiveMeeting end the        *)
(* session that is still ongoing.                                          *)
SweepStale(r) ==
    /\ At(r, "sweepStale")
    /\ EndMeetingByCode
    /\ IF req[r].fn = "canStartMeeting" THEN Step(r, "permission") ELSE Reply(r)
    /\ UNCHANGED <<room, tokens, conn, queue, origin>>

Permission(r) ==
    /\ At(r, "permission")
    /\ IF req[r].call = "joinMeeting" /\ req[r].user \in Starters
       THEN req' = [req EXCEPT ![r] = [@ EXCEPT !.pc = "sweepOngoing",
                                                !.fn = "joinMeeting"]]
       ELSE Reply(r)
    /\ UNCHANGED <<roomVars, origin>>

(* A running meeting: turn away a second device, unless it switches by     *)
(* force, and turn away from a full room. An error of listParticipants     *)
(* skips both checks.                                                      *)
Admission(r) ==
    LET here == req[r].user \in room.humans IN
    /\ At(r, "admission")
    /\ \/ /\ here \/ Cardinality(room.humans) >= Capacity
          /\ Reply(r)
       \/ /\ here \/ Cardinality(room.humans) < Capacity \/ LiveKitFaults
          /\ Step(r, "findOngoing")
    /\ UNCHANGED <<roomVars, origin>>

(* Starting: end whatever is ongoing, ...                                  *)
SweepOngoing(r) ==
    /\ At(r, "sweepOngoing")
    /\ EndMeetingByCode
    /\ Step(r, "create")
    /\ UNCHANGED <<room, tokens, conn, queue, origin>>

(* ... and create the session; the index may refuse it.                    *)
Create(r) ==
    /\ At(r, "create")
    /\ \/ \E s \in Sessions :
             /\ CreateSession(s)
             /\ origin' = [origin EXCEPT ![s] = "start"]
             /\ req' = [req EXCEPT ![r].pc = "createRoom", ![r].sid = s]
       \/ /\ Ongoing # {}
          /\ Step(r, "findAfterConflict")
          /\ UNCHANGED <<sess, origin>>
    /\ UNCHANGED <<room, tokens, conn, queue>>

FindAfterConflict(r) ==
    /\ At(r, "findAfterConflict")
    /\ req' = [req EXCEPT ![r].pc = "createRoom", ![r].sid = FindOngoing]
    /\ UNCHANGED <<roomVars, origin>>

(* Mutant: a missing session is not created. *)
FindSessionOnly(r) ==
    /\ At(r, "findOngoing")
    /\ req' = [req EXCEPT ![r].sid = FindOngoing, ![r].pc = "token"]
    /\ UNCHANGED <<roomVars, origin>>

(* Joining a running meeting: use its session, or create a missing one.    *)
FindSessionToJoin(r) ==
    /\ At(r, "findOngoing")
    /\ req' = [req EXCEPT ![r].sid = FindOngoing,
                          ![r].pc = IF FindOngoing = NoSession
                                    THEN "createMissing" ELSE "token"]
    /\ UNCHANGED <<roomVars, origin>>

(* Here a refusal of the index is not caught: the request fails.           *)
CreateMissing(r) ==
    /\ At(r, "createMissing")
    /\ \/ \E s \in Sessions :
             /\ CreateSession(s)
             /\ origin' = [origin EXCEPT ![s] = "missing"]
             /\ req' = [req EXCEPT ![r].pc = "token", ![r].sid = s]
       \/ Ongoing # {} /\ Reply(r) /\ UNCHANGED <<sess, origin>>
    /\ UNCHANGED <<room, tokens, conn, queue>>

(* Mutant: the metadata of the room does not name the session. *)
CreateRoomWithoutSession(r) ==
    /\ At(r, "createRoom")
    /\ \/ ~room.up /\ room' = NewRoom(NoSession, {})
       \/ room.up /\ UNCHANGED room
    /\ Step(r, "token")
    /\ UNCHANGED <<sess, tokens, conn, queue, origin>>

(* createRoom with the session in the metadata. For a room that exists     *)
(* LiveKit keeps the room; its metadata may or may not be replaced. An     *)
(* error is logged and the request goes on.                                *)
CreateRoom(r) ==
    /\ At(r, "createRoom")
    /\ \/ ~room.up /\ room' = NewRoom(req[r].sid, {})
       \/ room.up /\ room' = [room EXCEPT !.sid = req[r].sid, !.breakout = FALSE]
       \/ (room.up \/ LiveKitFaults) /\ UNCHANGED room
    /\ Step(r, "token")
    /\ UNCHANGED <<sess, tokens, conn, queue, origin>>

Token(r) ==
    /\ At(r, "token")
    /\ tokens' = tokens \cup {req[r].user}
    /\ Reply(r)
    /\ UNCHANGED <<sess, room, conn, queue, origin>>

Serve(r) ==
    \/ ListRooms(r) \/ ListParticipants(r)
    \/ EndOld(r) \/ DeleteOld(r) \/ SweepStale(r) \/ Permission(r)
    \/ Admission(r) \/ SweepOngoing(r) \/ Create(r) \/ FindAfterConflict(r)
    \/ FindSessionToJoin(r) \/ CreateMissing(r) \/ CreateRoom(r) \/ Token(r)

RequestsDone == \A r \in Reqs : At(r, "idle")
==============================================================================
