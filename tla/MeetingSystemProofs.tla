------------------------- MODULE MeetingSystemProofs --------------------------
(***************************************************************************)
(* Proofs about MeetingSystem: type correctness, the attendance invariants *)
(* in the whole system, that the sessions of a meeting code implement      *)
(* SessionRegister, that an undisturbed join is coherent and that a start  *)
(* leaves no other session open, for any number of users, requests,        *)
(* workers, sessions, connections and attempts.                            *)
(***************************************************************************)
EXTENDS MeetingSystem, AttendanceProofs

(***************************************************************************)
(* Types of the requests.                                                  *)
(***************************************************************************)
LEMMA RequestType ==
    ASSUME NEW q \in Request
    PROVE  /\ q.pc \in ReqPc /\ q.fn \in Calls /\ q.call \in Calls
           /\ q.sid \in Sessions \cup {NoSession}
           /\ q.pc \in JoinPc => q.fn = "joinMeeting"
           /\ q.fn = "joinMeeting" => q.call = "joinMeeting"
           /\ q.call = "joinMeeting" => q.user \in Users
BY DEF Request

LEMMA NextRequestType ==
    ASSUME NEW q \in Request, NEW pc \in ReqPc,
           NEW sid \in Sessions \cup {NoSession}
    PROVE  /\ (pc \in JoinPc => q.fn = "joinMeeting") =>
                 /\ [q EXCEPT !.pc = pc] \in Request
                 /\ [q EXCEPT !.pc = pc, !.sid = sid] \in Request
                 /\ [q EXCEPT !.sid = sid, !.pc = pc] \in Request
           /\ q.call = "joinMeeting" =>
                 [q EXCEPT !.pc = pc, !.fn = "joinMeeting"] \in Request
           /\ pc \notin JoinPc =>
                 [q EXCEPT !.pc = pc, !.starting = TRUE, !.fn = "canStartMeeting"]
                    \in Request
BY DEF Request, Calls

LEMMA IdleRequestType == IdleRequest \in Request
BY DEF IdleRequest, Request, ReqPc, JoinPc, Calls

LEMMA OneRequestType ==
    ASSUME JoinTypeOK, NEW r \in Reqs, NEW q \in Request,
           req' = [req EXCEPT ![r] = q]
    PROVE  req' \in [Reqs -> Request]
BY DEF JoinTypeOK

LEMMA MovedRequestType ==
    ASSUME JoinTypeOK, NEW r \in Reqs, NEW pc, NEW s,
           [req[r] EXCEPT !.pc = pc, !.sid = s] \in Request,
           \/ req' = [req EXCEPT ![r].pc = pc, ![r].sid = s]
           \/ req' = [req EXCEPT ![r].sid = s, ![r].pc = pc]
    PROVE  req' \in [Reqs -> Request]
<1> DEFINE q == [req[r] EXCEPT !.pc = pc, !.sid = s]
<1>1. q = [req[r] EXCEPT !.sid = s, !.pc = pc]
  BY DEF JoinTypeOK, Request
<1>2. req' = [req EXCEPT ![r] = q]
  BY <1>1
<1>3. q \in Request
  OBVIOUS
<1> HIDE DEF q
<1> QED
  BY <1>2, <1>3, OneRequestType

LEMMA StepType ==
    ASSUME JoinTypeOK, NEW r \in Reqs
    PROVE  /\ req[r] \in Request
           /\ \A pc \in ReqPc :
                 (Step(r, pc) /\ (pc \in JoinPc => req[r].fn = "joinMeeting")) =>
                    req' \in [Reqs -> Request]
           /\ Reply(r) => req' \in [Reqs -> Request]
           /\ NoRoomToJoin(r) => req' \in [Reqs -> Request]
<1>1. req[r] \in Request
  BY DEF JoinTypeOK
<1>2. ASSUME NEW pc \in ReqPc, Step(r, pc), pc \in JoinPc => req[r].fn = "joinMeeting"
      PROVE  req' \in [Reqs -> Request]
  <2>1. [req[r] EXCEPT !.pc = pc] \in Request
    BY <1>1, <1>2, NextRequestType
  <2> QED
    BY <1>2, <2>1, OneRequestType DEF Step
<1>3. Reply(r) => req' \in [Reqs -> Request]
  BY IdleRequestType, OneRequestType DEF Reply
<1>4. NoRoomToJoin(r) => req' \in [Reqs -> Request]
  <2>1. "listRooms" \in ReqPc \ JoinPc
    BY DEF ReqPc, JoinPc
  <2>2. [req[r] EXCEPT !.pc = "listRooms", !.starting = TRUE,
                       !.fn = "canStartMeeting"] \in Request
    BY <1>1, <2>1, NextRequestType
  <2> QED
    BY <1>3, <2>2, OneRequestType DEF NoRoomToJoin
<1> QED
  BY <1>1, <1>2, <1>3, <1>4

LEMMA ReceiveType ==
    ASSUME JoinTypeOK, NEW r \in Reqs, Receive(r)
    PROVE  req' \in [Reqs -> Request]
<1>1. PICK c \in Calls, u \in Users \cup {NoUser} :
         /\ (c = "joinMeeting") <=> (u \in Users)
         /\ req' = [req EXCEPT ![r] = NewRequest(c, u)]
  BY DEF Receive
<1>2. "listRooms" \in ReqPc \ JoinPc
  BY DEF ReqPc, JoinPc
<1>3. NewRequest(c, u) \in Request
  BY <1>1, <1>2 DEF Request, NewRequest
<1> QED
  BY <1>1, <1>3, OneRequestType

(* The requests' part of the state keeps its type.                         *)
LEMMA ServeType ==
    ASSUME RoomTypeOK, JoinTypeOK, NEW r \in Reqs, Receive(r) \/ Serve(r)
    PROVE  RoomTypeOK' /\ req' \in [Reqs -> Request]
           /\ origin' \in [Sessions -> {"none", "start", "missing"}]
<1> DEFINE ReqOK == req' \in [Reqs -> Request]
           OriginOK == origin' \in [Sessions -> {"none", "start", "missing"}]
<1>1. /\ req[r] \in Request
      /\ \A pc \in ReqPc :
            (Step(r, pc) /\ (pc \in JoinPc => req[r].fn = "joinMeeting")) => ReqOK
      /\ Reply(r) => ReqOK
      /\ NoRoomToJoin(r) => ReqOK
  BY StepType
<1>2. UNCHANGED origin => OriginOK
  BY DEF JoinTypeOK
<1>3. UNCHANGED roomVars => RoomTypeOK'
  BY DEF RoomTypeOK, roomVars
<1>4. /\ {"createRoom", "token", "createMissing", "sweepOngoing"} \subseteq ReqPc
      /\ req[r].pc \in JoinPc => req[r].fn = "joinMeeting"
      /\ req[r].call = "joinMeeting" => req[r].user \in Users
  BY <1>1, RequestType DEF ReqPc
<1>5. CASE Receive(r)
  BY <1>2, <1>3, <1>5, ReceiveType DEF Receive
<1>6. CASE ListRooms(r)
  BY <1>1, <1>2, <1>3, <1>6 DEF ListRooms, ReqPc, JoinPc
<1>7. CASE ListParticipants(r)
  BY <1>1, <1>2, <1>3, <1>7 DEF ListParticipants, ReqPc, JoinPc
<1>8. CASE EndOld(r)
  <2>1. RoomTypeOK'
    BY <1>8, EndMeetingType DEF EndOld
  <2> QED
    BY <1>1, <1>2, <1>8, <2>1 DEF EndOld, ReqPc, JoinPc
<1>9. CASE DeleteOld(r)
  <2>1. RoomTypeOK'
    BY <1>9, ForceDeleteType DEF DeleteOld
  <2>2. ReqOK
    <3>1. req[r].fn \in Calls
      BY <1>1, RequestType
    <3> QED
      BY <1>1, <1>9, <3>1 DEF DeleteOld, ReqPc, JoinPc, Calls
  <2> QED
    BY <1>2, <1>9, <2>1, <2>2 DEF DeleteOld
<1>10. CASE SweepStale(r)
  <2>1. RoomTypeOK'
    BY <1>10, EndMeetingType DEF SweepStale
  <2> QED
    BY <1>1, <1>2, <1>10, <2>1 DEF SweepStale, ReqPc, JoinPc
<1>11. CASE Permission(r)
  <2>1. req[r].call = "joinMeeting" =>
           [req[r] EXCEPT !.pc = "sweepOngoing", !.fn = "joinMeeting"] \in Request
    BY <1>1, <1>4, NextRequestType
  <2>2. CASE Reply(r)
    BY <1>1, <1>2, <1>3, <1>11, <2>2 DEF Permission
  <2>3. CASE /\ req[r].call = "joinMeeting"
             /\ req' = [req EXCEPT ![r] = [@ EXCEPT !.pc = "sweepOngoing",
                                                    !.fn = "joinMeeting"]]
    <3> DEFINE q == [req[r] EXCEPT !.pc = "sweepOngoing", !.fn = "joinMeeting"]
    <3>1. q \in Request /\ req' = [req EXCEPT ![r] = q]
      BY <2>1, <2>3
    <3> HIDE DEF q
    <3>2. ReqOK
      BY <3>1, OneRequestType
    <3> QED
      BY <1>2, <1>3, <1>11, <3>2 DEF Permission
  <2> QED
    BY <1>11, <2>2, <2>3 DEF Permission
<1>12. CASE Admission(r)
  BY <1>1, <1>2, <1>3, <1>4, <1>12 DEF Admission, ReqPc, JoinPc, At
<1>13. CASE SweepOngoing(r)
  <2>1. RoomTypeOK'
    BY <1>13, EndMeetingType DEF SweepOngoing
  <2> QED
    BY <1>1, <1>2, <1>4, <1>13, <2>1 DEF SweepOngoing, ReqPc, JoinPc, At
<1>14. ASSUME NEW s \in Sessions, CreateSession(s), UNCHANGED <<room, tokens, conn, queue>>
       PROVE  RoomTypeOK'
  BY <1>14 DEF CreateSession, RoomTypeOK, SessionStatus
<1>15. CASE Create(r)
  <2>1. ASSUME NEW s \in Sessions, CreateSession(s),
               origin' = [origin EXCEPT ![s] = "start"],
               req' = [req EXCEPT ![r].pc = "createRoom", ![r].sid = s]
        PROVE  RoomTypeOK' /\ ReqOK /\ OriginOK
    <3>1. [req[r] EXCEPT !.pc = "createRoom", !.sid = s] \in Request
      BY <1>1, <1>4, <1>15, NextRequestType DEF Create, At, JoinPc
    <3>2. ReqOK
      BY <2>1, <3>1, MovedRequestType
    <3> QED
      BY <1>14, <1>15, <2>1, <3>2 DEF Create, JoinTypeOK
  <2>2. ASSUME Step(r, "findAfterConflict"), UNCHANGED <<sess, origin>>
        PROVE  RoomTypeOK' /\ ReqOK /\ OriginOK
    BY <1>1, <1>2, <1>3, <1>4, <1>15, <2>2 DEF Create, ReqPc, JoinPc, At, roomVars
  <2> QED
    BY <1>15, <2>1, <2>2 DEF Create
<1>16. CASE FindAfterConflict(r)
  <2>1. [req[r] EXCEPT !.pc = "createRoom", !.sid = FindOngoing] \in Request
    BY <1>1, <1>4, <1>16, NextRequestType, FindOngoingType
       DEF FindAfterConflict, At, JoinPc
  <2>2. ReqOK
    BY <1>16, <2>1, MovedRequestType DEF FindAfterConflict
  <2> QED
    BY <1>2, <1>3, <1>16, <2>2 DEF FindAfterConflict
<1>17. CASE FindSessionToJoin(r)
  <2> DEFINE pc == IF FindOngoing = NoSession THEN "createMissing" ELSE "token"
  <2>1. pc \in ReqPc
    BY <1>4
  <2>2. req' = [req EXCEPT ![r].sid = FindOngoing, ![r].pc = pc]
    BY <1>17 DEF FindSessionToJoin
  <2> HIDE DEF pc
  <2>3. [req[r] EXCEPT !.pc = pc, !.sid = FindOngoing] \in Request
    BY <1>1, <1>4, <1>17, <2>1, NextRequestType, FindOngoingType
       DEF FindSessionToJoin, At, JoinPc
  <2>4. ReqOK
    BY <2>2, <2>3, MovedRequestType
  <2> QED
    BY <1>2, <1>3, <1>17, <2>4 DEF FindSessionToJoin
<1>18. CASE CreateMissing(r)
  <2>1. ASSUME NEW s \in Sessions, CreateSession(s),
               origin' = [origin EXCEPT ![s] = "missing"],
               req' = [req EXCEPT ![r].pc = "token", ![r].sid = s]
        PROVE  RoomTypeOK' /\ ReqOK /\ OriginOK
    <3>1. [req[r] EXCEPT !.pc = "token", !.sid = s] \in Request
      BY <1>1, <1>4, <1>18, NextRequestType DEF CreateMissing, At, JoinPc
    <3>2. ReqOK
      BY <2>1, <3>1, MovedRequestType
    <3> QED
      BY <1>14, <1>18, <2>1, <3>2 DEF CreateMissing, JoinTypeOK
  <2>2. ASSUME Reply(r), UNCHANGED <<sess, origin>>
        PROVE  RoomTypeOK' /\ ReqOK /\ OriginOK
    BY <1>1, <1>2, <1>3, <1>18, <2>2 DEF CreateMissing, roomVars
  <2> QED
    BY <1>18, <2>1, <2>2 DEF CreateMissing
<1>19. CASE CreateRoom(r)
  <2>1. req[r].sid \in Sessions \cup {NoSession} /\ room.gen \in Nat
    BY <1>1, RequestType DEF RoomTypeOK
  <2>2. room' \in [up : BOOLEAN, sid : Sessions \cup {NoSession},
                   humans : SUBSET Users, breakout : BOOLEAN, gen : Nat]
    <3>1. CASE room' = NewRoom(req[r].sid, {})
      BY <2>1, <3>1 DEF NewRoom
    <3>2. CASE room' = [room EXCEPT !.sid = req[r].sid, !.breakout = FALSE]
      BY <2>1, <3>2 DEF RoomTypeOK
    <3>3. CASE UNCHANGED room
      BY <3>3 DEF RoomTypeOK
    <3> QED
      BY <1>19, <3>1, <3>2, <3>3 DEF CreateRoom
  <2>3. RoomTypeOK'
    BY <1>19, <2>2 DEF CreateRoom, RoomTypeOK
  <2> QED
    BY <1>1, <1>2, <1>4, <1>19, <2>3 DEF CreateRoom, At, JoinPc
<1>20. CASE Token(r)
  <2>1. req[r].user \in Users
    BY <1>1, <1>4, <1>20, RequestType DEF Token, At, JoinPc
  <2> QED
    BY <1>1, <1>2, <1>20, <2>1 DEF Token, RoomTypeOK
<1> QED
  BY <1>5, <1>6, <1>7, <1>8, <1>9, <1>10, <1>11, <1>12, <1>13, <1>15, <1>16,
     <1>17, <1>18, <1>19, <1>20 DEF Serve

(***************************************************************************)
(* The sessions.                                                           *)
(***************************************************************************)

(* Every step leaves the sessions alone, ends those that are ongoing, or   *)
(* creates one.                                                            *)
LEMMA SessionSteps ==
    ASSUME [Next]_systemVars
    PROVE  UNCHANGED sess \/ EndMeetingByCode \/ \E s \in Sessions : CreateSession(s)
<1>1. CASE UNCHANGED systemVars
  BY <1>1 DEF systemVars, roomVars
<1>2. CASE LiveKit
  BY <1>2 DEF LiveKit, Connect, Disconnect, TokenExpires, EmptyTimeout, OpenBreakout, CloseBreakout
<1>3. ASSUME NEW w \in Workers, Worker(w)
      PROVE  UNCHANGED sess \/ EndMeetingByCode
  BY <1>3 DEF Worker, Take, JobStep, FindSession, ReadJoined, WriteJoined, ReadLeft,
              WriteLeft, ReadCloseAll, WriteCloseAll, JobListRooms,
              JobListParticipants, JobEndMeeting, JobDeleteRoom, Ack, Fail, roomVars
<1>4. ASSUME NEW r \in Reqs, Receive(r) \/ Serve(r)
      PROVE  UNCHANGED sess \/ EndMeetingByCode \/ \E s \in Sessions : CreateSession(s)
  BY <1>4 DEF Receive, Serve, ListRooms, ListParticipants, EndOld, DeleteOld,
              SweepStale, Permission, Admission, SweepOngoing, Create,
              FindAfterConflict, FindSessionToJoin, CreateMissing, CreateRoom,
              Token, roomVars
<1>5. CASE Rest
  BY <1>5 DEF Rest, roomVars
<1> QED
  BY <1>1, <1>2, <1>3, <1>4, <1>5 DEF Next, SystemStep

(* Part of the invariant below, what the unique index keeps: two ongoing   *)
(* sessions are one and the same.                                          *)
AtMostOneOngoing == \A s, t \in Ongoing : s = t

(* Documents are created in the order of their numbers. *)
BornInOrder ==
    \A s, t \in Sessions : (s < t /\ sess[t] # "unborn") => sess[s] # "unborn"

LEMMA SessionsInvariant ==
    ASSUME RoomTypeOK, AtMostOneOngoing, BornInOrder, [Next]_systemVars
    PROVE  AtMostOneOngoing' /\ BornInOrder'
<1>1. CASE UNCHANGED sess
  BY <1>1 DEF AtMostOneOngoing, BornInOrder, Ongoing
<1>2. CASE EndMeetingByCode
  BY <1>2 DEF EndMeetingByCode, AtMostOneOngoing, BornInOrder, Ongoing, RoomTypeOK
<1>3. ASSUME NEW s \in Sessions, CreateSession(s)
      PROVE  AtMostOneOngoing' /\ BornInOrder'
  <2>1. \A t \in Sessions : sess'[t] = IF t = s THEN "ongoing" ELSE sess[t]
    BY <1>3 DEF CreateSession, RoomTypeOK
  <2>2. Ongoing' = {s}
    BY <1>3, <2>1 DEF CreateSession, Ongoing
  <2>3. BornInOrder'
    BY <1>3, <2>1 DEF CreateSession, BornInOrder, Sessions
  <2> QED
    BY <2>2, <2>3 DEF AtMostOneOngoing
<1> QED
  BY <1>1, <1>2, <1>3, SessionSteps

(***************************************************************************)
(* The theorems.                                                           *)
(***************************************************************************)
SystemInvariant == TypeOK /\ AttendanceInvariant /\ AtMostOneOngoing /\ BornInOrder

THEOREM SystemIsInvariant == Spec => []SystemInvariant
<1>1. Init => SystemInvariant
  <2> SUFFICES ASSUME Init PROVE SystemInvariant
    OBVIOUS
  <2>1. AttTypeOK /\ AttendanceInvariant
    BY NoAttendanceInvariant DEF Init
  <2>2. RoomTypeOK
    BY DEF Init, NothingStarted, RoomTypeOK, SessionStatus
  <2>3. JoinTypeOK
    BY IdleRequestType DEF Init, JoinInit, JoinTypeOK
  <2>4. AtMostOneOngoing /\ BornInOrder
    BY DEF Init, NothingStarted, AtMostOneOngoing, BornInOrder, Ongoing
  <2> QED
    BY <2>1, <2>2, <2>3, <2>4 DEF SystemInvariant, TypeOK
<1>2. SystemInvariant /\ [Next]_systemVars => SystemInvariant'
  <2> SUFFICES ASSUME SystemInvariant, [Next]_systemVars
               PROVE  SystemInvariant'
    OBVIOUS
  <2>1. /\ RoomTypeOK /\ AttTypeOK /\ JoinTypeOK /\ AttendanceInvariant
        /\ AtMostOneOngoing /\ BornInOrder /\ SessionFound
    BY DEF SystemInvariant, TypeOK, AttendanceInvariant
  <2>2. AtMostOneOngoing' /\ BornInOrder'
    BY <2>1, SessionsInvariant
  <2>3. CASE UNCHANGED systemVars
    <3>1. UNCHANGED roomVars /\ UNCHANGED attVars /\ UNCHANGED joinVars
      BY <2>3 DEF systemVars
    <3>2. RoomTypeOK' /\ JoinTypeOK'
      BY <2>1, <3>1 DEF roomVars, joinVars, RoomTypeOK, JoinTypeOK
    <3> QED
      BY <2>1, <2>2, <3>1, <3>2, AttendanceUntouched DEF SystemInvariant, TypeOK
  <2>4. CASE Next
    <3>1. raced' \subseteq Reqs
      BY <2>4 DEF Next, ObserveRaces
    <3>2. UNCHANGED <<req, origin>> => JoinTypeOK'
      BY <2>1, <3>1 DEF JoinTypeOK
    <3>3. CASE LiveKit /\ UNCHANGED <<attVars, req, origin>>
      <4>1. UNCHANGED attVars /\ UNCHANGED <<req, origin>>
        BY <3>3
      <4> QED
        BY <2>1, <2>2, <3>2, <3>3, <4>1, LiveKitType, AttendanceUntouched
           DEF SystemInvariant, TypeOK
    <3>4. ASSUME NEW w \in Workers, Worker(w), UNCHANGED <<req, origin>>
          PROVE  SystemInvariant'
      BY <2>1, <2>2, <3>2, <3>4, WorkerType, WorkerInvariant
         DEF SystemInvariant, TypeOK
    <3>5. ASSUME NEW r \in Reqs, Receive(r) \/ Serve(r), UNCHANGED attVars
          PROVE  SystemInvariant'
      <4>1. JoinTypeOK'
        BY <2>1, <3>1, <3>5, ServeType DEF JoinTypeOK
      <4> QED
        BY <2>1, <2>2, <3>5, <4>1, ServeType, AttendanceUntouched
           DEF SystemInvariant, TypeOK
    <3>6. CASE Rest
      <4>1. UNCHANGED roomVars /\ UNCHANGED attVars /\ UNCHANGED <<req, origin>>
        BY <3>6 DEF Rest
      <4>2. RoomTypeOK'
        BY <2>1, <4>1 DEF roomVars, RoomTypeOK
      <4> QED
        BY <2>1, <2>2, <3>2, <4>1, <4>2, AttendanceUntouched
           DEF SystemInvariant, TypeOK
    <3> QED
      BY <2>4, <3>3, <3>4, <3>5, <3>6 DEF Next, SystemStep
  <2> QED
    BY <2>3, <2>4
<1> QED
  BY <1>1, <1>2, PTL DEF Spec

(* The variables of the whole system keep their types; in particular only  *)
(* a join is ever answered with a token, and only to a user.               *)
THEOREM TypeCorrect == Spec => []TypeOK
<1>1. SystemInvariant => TypeOK
  BY DEF SystemInvariant
<1> QED
  BY <1>1, SystemIsInvariant, PTL

(* The attendance invariants hold in the whole system too: requests, which *)
(* end and delete meetings under the workers, do not disturb the documents *)
(* of a user whose jobs never overlapped.                                  *)
THEOREM AttendanceHoldsInSystem == Spec => [](OneOpenVisit /\ TotalIsExact)
<1>1. SystemInvariant => OneOpenVisit /\ TotalIsExact
  BY DEF SystemInvariant, AttendanceInvariant
<1> QED
  BY <1>1, SystemIsInvariant, PTL

(* The back end implements SessionRegister: its sessions are opened one    *)
(* after another, only when none is open, and an ended one stays ended.    *)
THEOREM SystemImplementsRegister == Spec => ImplementsRegister
<1>1. Init => Register!RegisterInit
  BY DEF Init, NothingStarted, Register!RegisterInit, Sessions
<1>2. SystemInvariant /\ [Next]_systemVars => [Register!RegisterNext]_sess
  <2> SUFFICES ASSUME SystemInvariant, [Next]_systemVars
               PROVE  [Register!RegisterNext]_sess
    OBVIOUS
  <2>1. RoomTypeOK /\ AtMostOneOngoing /\ BornInOrder
    BY DEF SystemInvariant, TypeOK
  <2>2. CASE EndMeetingByCode
    <3>1. CASE Ongoing = {}
      <4>1. \A s \in Sessions : sess'[s] = sess[s]
        BY <2>2, <3>1 DEF EndMeetingByCode
      <4>2. sess' = sess
        BY <2>1, <2>2, <4>1 DEF EndMeetingByCode, RoomTypeOK
      <4> QED
        BY <4>2
    <3>2. ASSUME NEW s \in Ongoing PROVE Register!End(s)
      <4>1. s \in Sessions /\ sess[s] = "ongoing" /\ Ongoing = {s}
        BY <2>1, <3>2 DEF Ongoing, AtMostOneOngoing
      <4>2. sess' = [sess EXCEPT ![s] = "ended"]
        BY <2>1, <2>2, <4>1 DEF EndMeetingByCode, RoomTypeOK
      <4> QED
        BY <4>1, <4>2 DEF Register!End
    <3> QED
      BY <3>1, <3>2 DEF Register!RegisterNext, Ongoing, Sessions
  <2>3. ASSUME NEW s \in Sessions, CreateSession(s)
        PROVE  Register!Open(s)
    <3>1. \A t \in Sessions : sess[t] = IF t < s THEN "ended" ELSE "unborn"
      <4> SUFFICES ASSUME NEW t \in Sessions
                   PROVE  sess[t] = IF t < s THEN "ended" ELSE "unborn"
        OBVIOUS
      <4>1. sess[t] \in {"unborn", "ongoing", "ended"} /\ sess[t] # "ongoing"
        BY <2>1, <2>3 DEF RoomTypeOK, SessionStatus, CreateSession, Ongoing
      <4>2. CASE t < s
        BY <2>3, <4>1, <4>2 DEF CreateSession
      <4>3. CASE t = s
        BY <2>3, <4>3 DEF CreateSession, Sessions
      <4>4. CASE s < t
        BY <2>1, <2>3, <4>4 DEF CreateSession, BornInOrder, Sessions
      <4> QED
        BY <4>2, <4>3, <4>4 DEF Sessions
    <3> QED
      BY <2>3, <3>1 DEF CreateSession, Register!Open, Sessions
  <2> QED
    BY <2>2, <2>3, SessionSteps DEF Register!RegisterNext, Sessions
<1> QED
  BY <1>1, <1>2, SystemIsInvariant, PTL
     DEF Spec, ImplementsRegister, Register!RegisterSpec

(***************************************************************************)
(* What a join knows.                                                      *)
(***************************************************************************)

(* starting is set with a call of canStartMeeting, after which the join    *)
(* does not look for a running meeting again.                              *)
StartingKnown(r) ==
    (/\ req[r].fn = "joinMeeting"
     /\ req[r].pc \in {"listRooms", "listParticipants", "endOld", "deleteOld",
                       "admission", "findOngoing", "createMissing"}) =>
        ~req[r].starting

(* What a request knows of the room and the sessions while nobody else has *)
(* changed them and the LiveKit API answers.                               *)
RoomKnown(r) ==
    /\ req[r].pc \in {"listParticipants", "admission", "findOngoing",
                      "createMissing", "token"} => room.up
    /\ req[r].pc \in {"sweepStale", "permission", "sweepOngoing", "create",
                      "createRoom"} => ~room.up

SessionKnown(r) ==
    /\ req[r].pc = "create" => Ongoing = {}
    /\ req[r].pc # "findAfterConflict"
    /\ req[r].pc \in {"createRoom", "token"} => req[r].sid \in Ongoing
    /\ (req[r].pc = "token" /\ req[r].starting) => room.sid = req[r].sid

JoinsKnow ==
    /\ \A r \in Reqs : StartingKnown(r)
    /\ \A r \in Reqs \ raced : RoomKnown(r) /\ SessionKnown(r)

LEMMA ForceDeleteLeavesNoRoom ==
    ASSUME ~LiveKitFaults, ForceDeleteLiveKitRoom
    PROVE  ~room'.up
BY DEF ForceDeleteLiveKitRoom, FinishRoom

(* A created session is the one that is ongoing. *)
LEMMA CreatedIsOngoing ==
    ASSUME RoomTypeOK, NEW s \in Sessions, CreateSession(s)
    PROVE  Ongoing' = {s}
<1>1. \A t \in Sessions : sess'[t] = IF t = s THEN "ongoing" ELSE sess[t]
  BY DEF CreateSession, RoomTypeOK
<1> QED
  BY <1>1 DEF CreateSession, Ongoing

(* A step of a request changes no other request.                           *)
LEMMA OtherRequests ==
    ASSUME JoinTypeOK, NEW r \in Reqs, Receive(r) \/ Serve(r),
           NEW o \in Reqs, o # r
    PROVE  req'[o] = req[o]
<1>1. /\ \A pc \in ReqPc : Step(r, pc) => req'[o] = req[o]
      /\ Reply(r) => req'[o] = req[o]
      /\ NoRoomToJoin(r) => req'[o] = req[o]
  BY DEF JoinTypeOK, Step, Reply, NoRoomToJoin
<1>2. CASE Receive(r) \/ Permission(r)
  BY <1>1, <1>2 DEF JoinTypeOK, Receive, Permission
<1>3. CASE ListRooms(r)
  BY <1>1, <1>3 DEF ListRooms, ReqPc
<1>4. CASE ListParticipants(r) \/ EndOld(r) \/ SweepStale(r) \/ Admission(r)
  BY <1>1, <1>4 DEF ListParticipants, EndOld, SweepStale, Admission, ReqPc
<1>5. CASE DeleteOld(r)
  <2>1. req[r].fn \in Calls
    BY RequestType DEF JoinTypeOK
  <2> QED
    BY <1>1, <1>5, <2>1 DEF DeleteOld, ReqPc, Calls
<1>6. CASE SweepOngoing(r) \/ CreateRoom(r) \/ Token(r)
  BY <1>1, <1>6 DEF SweepOngoing, CreateRoom, Token, ReqPc
<1>7. CASE Create(r) \/ CreateMissing(r)
  BY <1>1, <1>7 DEF Create, CreateMissing, JoinTypeOK, ReqPc
<1>8. CASE FindAfterConflict(r) \/ FindSessionToJoin(r)
  BY <1>8 DEF FindAfterConflict, FindSessionToJoin, JoinTypeOK
<1> QED
  BY <1>2, <1>3, <1>4, <1>5, <1>6, <1>7, <1>8 DEF Serve

LEMMA StepMoves ==
    ASSUME JoinTypeOK, NEW r \in Reqs
    PROVE  /\ \A pc \in ReqPc : Step(r, pc) =>
                /\ req'[r].pc = pc /\ req'[r].fn = req[r].fn
                /\ req'[r].sid = req[r].sid /\ req'[r].starting = req[r].starting
           /\ Reply(r) => req'[r] = IdleRequest
           /\ NoRoomToJoin(r) =>
                \/ req'[r] = IdleRequest
                \/ req'[r].pc = "listRooms" /\ req'[r].fn = "canStartMeeting"
<1>1. req[r] \in Request
  BY DEF JoinTypeOK
<1>2. ASSUME NEW pc \in ReqPc, Step(r, pc)
      PROVE  /\ req'[r].pc = pc /\ req'[r].fn = req[r].fn
             /\ req'[r].sid = req[r].sid /\ req'[r].starting = req[r].starting
  <2>1. req'[r] = [req[r] EXCEPT !.pc = pc]
    BY <1>2 DEF JoinTypeOK, Step
  <2> QED
    BY <1>1, <2>1 DEF Request
<1>3. Reply(r) => req'[r] = IdleRequest
  BY DEF JoinTypeOK, Reply
<1>4. ASSUME req' = [req EXCEPT ![r] = [@ EXCEPT
                  !.pc = "listRooms", !.starting = TRUE, !.fn = "canStartMeeting"]]
      PROVE  req'[r].pc = "listRooms" /\ req'[r].fn = "canStartMeeting"
  <2>1. req'[r] = [req[r] EXCEPT !.pc = "listRooms", !.starting = TRUE,
                                 !.fn = "canStartMeeting"]
    BY <1>4 DEF JoinTypeOK
  <2> QED
    BY <1>1, <2>1 DEF Request
<1> QED
  BY <1>2, <1>3, <1>4 DEF NoRoomToJoin

Known(r) == StartingKnown(r) /\ RoomKnown(r) /\ SessionKnown(r)

LEMMA StartingKept ==
    ASSUME JoinTypeOK, NEW r \in Reqs, StartingKnown(r), Receive(r) \/ Serve(r)
    PROVE  StartingKnown(r)'
<1>1. /\ req[r] \in Request
      /\ \A pc \in ReqPc : Step(r, pc) =>
                /\ req'[r].pc = pc /\ req'[r].fn = req[r].fn
                /\ req'[r].sid = req[r].sid /\ req'[r].starting = req[r].starting
      /\ Reply(r) => req'[r] = IdleRequest
      /\ NoRoomToJoin(r) =>
                \/ req'[r] = IdleRequest
                \/ req'[r].pc = "listRooms" /\ req'[r].fn = "canStartMeeting"
  BY StepMoves DEF JoinTypeOK
<1>2. req'[r] = IdleRequest => StartingKnown(r)'
  BY DEF IdleRequest, StartingKnown
<1>3. NoRoomToJoin(r) => StartingKnown(r)'
  BY <1>1, <1>2 DEF StartingKnown
<1>4. CASE Receive(r)
  <2>1. PICK c \in Calls, u \in Users \cup {NoUser} :
           req' = [req EXCEPT ![r] = NewRequest(c, u)]
    BY <1>4 DEF Receive
  <2>2. req'[r] = NewRequest(c, u)
    BY <2>1 DEF JoinTypeOK
  <2> QED
    BY <2>2 DEF NewRequest, StartingKnown
<1>5. CASE \E pc \in ReqPc :
             /\ Step(r, pc)
             /\ req[r].fn = "joinMeeting" =>
                   \/ pc \notin {"listRooms", "listParticipants", "endOld", "deleteOld",
                                 "admission", "findOngoing", "createMissing"}
                   \/ req[r].pc \in {"listRooms", "listParticipants", "endOld",
                                      "deleteOld", "admission", "findOngoing"}
  BY <1>1, <1>5 DEF StartingKnown
<1>14. CASE ListRooms(r)
  BY <1>3, <1>5, <1>14 DEF ListRooms, At, ReqPc
<1>15. CASE ListParticipants(r) \/ EndOld(r) \/ SweepStale(r) \/ Admission(r)
  BY <1>1, <1>2, <1>5, <1>15 DEF ListParticipants, EndOld, SweepStale, Admission,
                                 At, ReqPc
<1>16. CASE DeleteOld(r)
  <2>1. req[r].fn \in Calls
    BY <1>1, RequestType
  <2> QED
    BY <1>1, <1>2, <1>3, <1>5, <1>16, <2>1 DEF DeleteOld, Calls, ReqPc
<1>6. CASE SweepOngoing(r) \/ CreateRoom(r) \/ Token(r)
  BY <1>1, <1>2, <1>6 DEF SweepOngoing, CreateRoom, Token, StartingKnown, At, ReqPc
<1>7. CASE Permission(r)
  <2>1. ASSUME req' = [req EXCEPT ![r] = [@ EXCEPT !.pc = "sweepOngoing",
                                                   !.fn = "joinMeeting"]]
        PROVE  req'[r].pc = "sweepOngoing"
    <3>1. req'[r] = [req[r] EXCEPT !.pc = "sweepOngoing", !.fn = "joinMeeting"]
      BY <2>1 DEF JoinTypeOK
    <3> QED
      BY <1>1, <3>1 DEF Request
  <2> QED
    BY <1>1, <1>2, <1>7, <2>1 DEF Permission, StartingKnown
<1>8. ASSUME NEW pc \in ReqPc, NEW s,
             \/ req' = [req EXCEPT ![r].pc = pc, ![r].sid = s]
             \/ req' = [req EXCEPT ![r].sid = s, ![r].pc = pc]
      PROVE  /\ req'[r].pc = pc /\ req'[r].fn = req[r].fn
             /\ req'[r].starting = req[r].starting
  BY <1>1, <1>8 DEF JoinTypeOK, Request
<1>9. {"createRoom", "token", "createMissing", "findAfterConflict"} \subseteq ReqPc
  BY DEF ReqPc
<1>10. CASE Create(r)
  <2>1. req'[r].pc \in {"createRoom", "findAfterConflict"}
    BY <1>1, <1>8, <1>9, <1>10 DEF Create
  <2> QED
    BY <2>1 DEF StartingKnown
<1>11. CASE FindAfterConflict(r)
  BY <1>8, <1>9, <1>11 DEF FindAfterConflict, StartingKnown
<1>12. CASE FindSessionToJoin(r)
  <2> DEFINE pc == IF FindOngoing = NoSession THEN "createMissing" ELSE "token"
  <2>1. pc \in ReqPc
    BY <1>9
  <2>2. req' = [req EXCEPT ![r].sid = FindOngoing, ![r].pc = pc]
    BY <1>12 DEF FindSessionToJoin
  <2> HIDE DEF pc
  <2>3. req'[r].fn = req[r].fn /\ req'[r].starting = req[r].starting
    BY <1>8, <2>1, <2>2
  <2> QED
    BY <1>12, <2>3 DEF FindSessionToJoin, StartingKnown, At
<1>13. CASE CreateMissing(r)
  <2>1. req'[r] = IdleRequest \/ req'[r].pc = "token"
    BY <1>1, <1>8, <1>9, <1>13 DEF CreateMissing
  <2> QED
    BY <1>2, <2>1 DEF StartingKnown
<1> QED
  BY <1>4, <1>6, <1>7, <1>10, <1>11, <1>12, <1>13, <1>14, <1>15, <1>16 DEF Serve

(* What a request's own step tells it, or leaves true of what it knew.     *)
LEMMA KnowledgeKept ==
    ASSUME RoomTypeOK, JoinTypeOK, ~LiveKitFaults, NEW r \in Reqs,
           Known(r), Receive(r) \/ Serve(r)
    PROVE  RoomKnown(r)' /\ SessionKnown(r)'
<1> DEFINE Knows == RoomKnown(r)' /\ SessionKnown(r)'
<1>1. /\ req[r] \in Request
      /\ \A pc \in ReqPc : Step(r, pc) =>
                /\ req'[r].pc = pc /\ req'[r].fn = req[r].fn
                /\ req'[r].sid = req[r].sid /\ req'[r].starting = req[r].starting
      /\ Reply(r) => req'[r] = IdleRequest
      /\ NoRoomToJoin(r) =>
                \/ req'[r] = IdleRequest
                \/ req'[r].pc = "listRooms" /\ req'[r].fn = "canStartMeeting"
  BY StepMoves DEF JoinTypeOK
<1>2. StartingKnown(r) /\ RoomKnown(r) /\ SessionKnown(r)
  BY DEF Known
<1>3. req'[r].pc \in {"idle", "listRooms", "endOld", "deleteOld"} => Knows
  BY DEF RoomKnown, SessionKnown
<1>4. req'[r] = IdleRequest => Knows
  BY <1>3 DEF IdleRequest
<1>5. ASSUME NEW pc \in {"listRooms", "endOld", "deleteOld"}, Step(r, pc)
      PROVE  Knows
  BY <1>1, <1>3, <1>5 DEF ReqPc
<1>6. ASSUME NEW pc \in {"listParticipants", "admission", "findOngoing"},
             Step(r, pc), room.up, UNCHANGED room
      PROVE  Knows
  BY <1>1, <1>6 DEF ReqPc, RoomKnown, SessionKnown
<1>7. ASSUME NEW pc \in {"sweepStale", "permission", "sweepOngoing"},
             Step(r, pc), ~room'.up
      PROVE  Knows
  BY <1>1, <1>7 DEF ReqPc, RoomKnown, SessionKnown
<1>8. CASE Receive(r)
  <2>1. PICK c \in Calls, u \in Users \cup {NoUser} :
           req' = [req EXCEPT ![r] = NewRequest(c, u)]
    BY <1>8 DEF Receive
  <2>2. req'[r] = NewRequest(c, u)
    BY <2>1 DEF JoinTypeOK
  <2> QED
    BY <1>3, <2>2 DEF NewRequest
<1>9. NoRoomToJoin(r) => Knows
  BY <1>1, <1>3, <1>4
<1>10. CASE ListRooms(r)
  BY <1>6, <1>7, <1>9, <1>10 DEF ListRooms, roomVars
<1>11. CASE ListParticipants(r)
  BY <1>1, <1>2, <1>4, <1>5, <1>6, <1>11
     DEF ListParticipants, RoomKnown, At, roomVars
<1>12. CASE EndOld(r)
  BY <1>5, <1>12 DEF EndOld
<1>13. CASE DeleteOld(r)
  <2>1. ~room'.up
    BY <1>13, ForceDeleteLeavesNoRoom DEF DeleteOld
  <2>2. req[r].fn \in Calls
    BY <1>1, RequestType
  <2> QED
    BY <1>1, <1>4, <1>7, <1>9, <1>13, <2>1, <2>2 DEF DeleteOld, Calls
<1>14. CASE SweepStale(r)
  BY <1>1, <1>2, <1>4, <1>7, <1>14 DEF SweepStale, RoomKnown, At
<1>15. CASE Permission(r)
  <2>1. ASSUME req' = [req EXCEPT ![r] = [@ EXCEPT !.pc = "sweepOngoing",
                                                   !.fn = "joinMeeting"]]
        PROVE  req'[r].pc = "sweepOngoing"
    <3>1. req'[r] = [req[r] EXCEPT !.pc = "sweepOngoing", !.fn = "joinMeeting"]
      BY <2>1 DEF JoinTypeOK
    <3> QED
      BY <1>1, <3>1 DEF Request
  <2>2. ~room'.up
    BY <1>2, <1>15 DEF Permission, RoomKnown, At, roomVars
  <2> QED
    BY <1>1, <1>4, <1>15, <2>1, <2>2 DEF Permission, RoomKnown, SessionKnown
<1>16. CASE Admission(r)
  BY <1>1, <1>2, <1>4, <1>6, <1>16 DEF Admission, RoomKnown, At, roomVars
<1>17. CASE SweepOngoing(r)
  <2>1. Ongoing' = {}
    BY <1>17, EndedIsEmpty DEF SweepOngoing
  <2> QED
    BY <1>1, <1>2, <1>17, <2>1 DEF SweepOngoing, RoomKnown, SessionKnown, At, ReqPc
<1>18. CASE Create(r)
  <2>1. PICK s \in Sessions :
           /\ CreateSession(s)
           /\ req' = [req EXCEPT ![r].pc = "createRoom", ![r].sid = s]
    BY <1>2, <1>18 DEF Create, SessionKnown, At
  <2>2. Ongoing' = {s}
    BY <2>1, CreatedIsOngoing
  <2>3. req'[r].pc = "createRoom" /\ req'[r].sid = s
    BY <1>1, <2>1 DEF JoinTypeOK, Request
  <2>4. ~room'.up
    BY <1>2, <1>18 DEF Create, RoomKnown, At
  <2> QED
    BY <2>2, <2>3, <2>4 DEF RoomKnown, SessionKnown
<1>19. CASE FindAfterConflict(r)
  BY <1>2, <1>19 DEF FindAfterConflict, SessionKnown, At
<1>20. CASE FindSessionToJoin(r)
  <2> DEFINE pc == IF FindOngoing = NoSession THEN "createMissing" ELSE "token"
             s == FindOngoing
  <2>1. /\ req' = [req EXCEPT ![r].sid = s, ![r].pc = pc]
        /\ UNCHANGED <<sess, room>>
    BY <1>20 DEF FindSessionToJoin, roomVars
  <2>3. ~req[r].starting /\ room.up
    <3>1. req[r].fn = "joinMeeting"
      BY <1>1, <1>20, RequestType DEF FindSessionToJoin, At, JoinPc
    <3> QED
      BY <1>2, <1>20, <3>1 DEF FindSessionToJoin, At, StartingKnown, RoomKnown
  <2>4. Ongoing' = Ongoing
    BY <2>1 DEF Ongoing
  <2>2. pc \in {"createMissing", "token"}
    OBVIOUS
  <2>5. pc = "token" => s \in Ongoing
    BY FoundIsOngoing
  <2> HIDE DEF pc, s
  <2>6. req'[r].pc = pc /\ req'[r].sid = s /\ req'[r].starting = req[r].starting
    BY <1>1, <2>1 DEF JoinTypeOK, Request
  <2> QED
    BY <2>1, <2>2, <2>3, <2>4, <2>5, <2>6 DEF RoomKnown, SessionKnown
<1>21. CASE CreateMissing(r)
  <2>1. ASSUME NEW s \in Sessions, CreateSession(s),
               req' = [req EXCEPT ![r].pc = "token", ![r].sid = s]
        PROVE  Knows
    <3>1. Ongoing' = {s}
      BY <2>1, CreatedIsOngoing
    <3>2. /\ req'[r].pc = "token" /\ req'[r].sid = s
          /\ req'[r].starting = req[r].starting
      BY <1>1, <2>1 DEF JoinTypeOK, Request
    <3>3. req[r].fn = "joinMeeting"
      BY <1>1, <1>21, RequestType DEF CreateMissing, At, JoinPc
    <3>4. ~req[r].starting /\ room'.up
      BY <1>2, <1>21, <3>3 DEF CreateMissing, At, StartingKnown, RoomKnown
    <3> QED
      BY <3>1, <3>2, <3>4 DEF RoomKnown, SessionKnown
  <2> QED
    BY <1>1, <1>4, <1>21, <2>1 DEF CreateMissing
<1>22. CASE CreateRoom(r)
  <2>1. /\ req'[r].pc = "token" /\ req'[r].sid = req[r].sid
        /\ req[r].sid \in Ongoing /\ ~room.up
    BY <1>1, <1>2, <1>22 DEF CreateRoom, RoomKnown, SessionKnown, At, ReqPc
  <2>2. room'.up /\ room'.sid = req[r].sid
    BY <1>22, <2>1 DEF CreateRoom, NewRoom
  <2>3. Ongoing' = Ongoing
    BY <1>22 DEF CreateRoom, Ongoing
  <2> QED
    BY <2>1, <2>2, <2>3 DEF RoomKnown, SessionKnown
<1>23. CASE Token(r)
  BY <1>1, <1>4, <1>23 DEF Token
<1> QED
  BY <1>8, <1>10, <1>11, <1>12, <1>13, <1>14, <1>15, <1>16, <1>17, <1>18, <1>19,
     <1>20, <1>21, <1>22, <1>23 DEF Serve

(* A step that changes neither the session nor the room, nor the request,  *)
(* leaves what the request knows true.                                     *)
LEMMA KnownUntouched ==
    ASSUME NEW r \in Reqs, Known(r), req'[r] = req[r], UNCHANGED <<sess, room>>
    PROVE  Known(r)'
<1>1. Ongoing' = Ongoing
  BY DEF Ongoing
<1> QED
  BY <1>1 DEF Known, StartingKnown, RoomKnown, SessionKnown

LEMMA JoinsKnowNext ==
    ASSUME RoomTypeOK, JoinTypeOK, ~LiveKitFaults, JoinsKnow, [Next]_systemVars
    PROVE  JoinsKnow'
<1>1. CASE UNCHANGED systemVars
  <2>1. UNCHANGED <<sess, room, req, raced>>
    BY <1>1 DEF systemVars, roomVars, joinVars
  <2>2. Ongoing' = Ongoing
    BY <2>1 DEF Ongoing
  <2> QED
    BY <2>1, <2>2 DEF JoinsKnow, StartingKnown, RoomKnown, SessionKnown
<1>2. CASE Next
  <2>1. \/ UNCHANGED req
        \/ \E r \in Reqs : Receive(r) \/ Serve(r)
    BY <1>2 DEF Next, SystemStep, Rest
  <2>2. ASSUME NEW o \in Reqs
        PROVE  StartingKnown(o)'
    <3>1. StartingKnown(o)
      BY DEF JoinsKnow
    <3>2. req'[o] = req[o] => StartingKnown(o)'
      BY <3>1 DEF StartingKnown
    <3> QED
      BY <2>1, <3>1, <3>2, OtherRequests, StartingKept
  <2>3. ASSUME NEW o \in Reqs, o \notin raced'
        PROVE  (RoomKnown(o) /\ SessionKnown(o))'
    <3>1. CASE req'[o].pc = "idle"
      BY <3>1 DEF RoomKnown, SessionKnown
    <3>2. CASE req'[o].pc # "idle"
      <4>1. o \notin raced /\ (req'[o] = req[o] => UNCHANGED <<sess, room>>)
        BY <1>2, <2>3, <3>2 DEF Next, ObserveRaces
      <4>2. Known(o)
        BY <4>1 DEF JoinsKnow, Known
      <4>3. CASE req'[o] = req[o]
        <5>1. Known(o)'
          BY <4>1, <4>2, <4>3, KnownUntouched
        <5> QED
          BY <5>1 DEF Known
      <4>4. CASE req'[o] # req[o]
        <5>1. Receive(o) \/ Serve(o)
          BY <2>1, <4>4, OtherRequests
        <5> QED
          BY <4>2, <5>1, KnowledgeKept
      <4> QED
        BY <4>3, <4>4
    <3> QED
      BY <3>1, <3>2
  <2>4. \A o \in Reqs : StartingKnown(o)'
    BY <2>2
  <2>5. \A o \in Reqs : o \notin raced' => (RoomKnown(o) /\ SessionKnown(o))'
    BY <2>3
  <2> QED
    BY <2>4, <2>5 DEF JoinsKnow
<1> QED
  BY <1>1, <1>2

(* A join that nobody disturbed is coherent, whatever the other requests,  *)
(* the workers and LiveKit do meanwhile.                                   *)
THEOREM UndisturbedJoinIsCoherentAlways == Spec => []UndisturbedJoinIsCoherent
<1>1. CASE LiveKitFaults
  <2>1. UndisturbedJoinIsCoherent
    BY <1>1 DEF UndisturbedJoinIsCoherent
  <2> QED
    BY <2>1, PTL
<1>2. CASE ~LiveKitFaults
  <2>1. Init => JoinsKnow
    BY DEF Init, JoinInit, IdleRequest, JoinsKnow, StartingKnown, RoomKnown,
           SessionKnown
  <2>2. SystemInvariant /\ JoinsKnow /\ [Next]_systemVars => JoinsKnow'
    BY <1>2, JoinsKnowNext DEF SystemInvariant, TypeOK
  <2>3. JoinsKnow => UndisturbedJoinIsCoherent
    BY DEF JoinsKnow, RoomKnown, SessionKnown, UndisturbedJoinIsCoherent, At
  <2> QED
    BY <2>1, <2>2, <2>3, SystemIsInvariant, PTL DEF Spec
<1> QED
  BY <1>1, <1>2

(***************************************************************************)
(* What becomes of a started session.                                      *)
(***************************************************************************)

CreatingRoom == \E r \in Reqs : At(r, "createRoom")

(* Sessions are created by joins of users; a started one has a room, will  *)
(* have one, or is about to be ended.                                      *)
StartsKept ==
    /\ \A s \in Ongoing : origin[s] # "none" /\ Users # {}
    /\ disordered = {} =>
          \A s \in Ongoing : origin[s] = "start" =>
              room.up \/ CreatingRoom \/ ClosePending

LEMMA CreatedRoomIsUp ==
    ASSUME ~LiveKitFaults, NEW r \in Reqs, RoomTypeOK, CreateRoom(r)
    PROVE  room'.up
<1>1. CASE ~room.up
  BY <1>1 DEF CreateRoom, NewRoom
<1>2. CASE room.up /\ UNCHANGED room
  BY <1>2
<1>3. CASE room.up /\ room' = [room EXCEPT !.sid = req[r].sid, !.breakout = FALSE]
  BY <1>3 DEF RoomTypeOK
<1> QED
  BY <1>1, <1>2, <1>3 DEF CreateRoom

Held == room.up \/ CreatingRoom \/ ClosePending

LEMMA LiveKitKeepsHeld ==
    ASSUME RoomTypeOK, Held, LiveKit, UNCHANGED <<attVars, req>>
    PROVE  Held'
<1>1. UNCHANGED work /\ CreatingRoom' = CreatingRoom
  BY DEF attVars, CreatingRoom, At
<1>2. queue \subseteq queue' /\ (room.up => room'.up \/ FinishRoom)
  BY LiveKitRoom
<1> QED
  BY <1>1, <1>2, FinishIsReported, QueueKeepsPending DEF Held

LEMMA WorkerKeepsHeld ==
    ASSUME RoomTypeOK, AttTypeOK, Held, NEW w \in Workers, Worker(w), UNCHANGED req
    PROVE  Held' \/ Ongoing' = {} \/ disordered' = Users
<1>1. CreatingRoom' = CreatingRoom
  BY DEF CreatingRoom, At
<1>2. UNCHANGED room \/ FinishRoom
  BY DEF Worker, Take, JobStep, FindSession, ReadJoined, WriteJoined, ReadLeft,
         WriteLeft, ReadCloseAll, WriteCloseAll, JobListRooms, JobListParticipants,
         JobEndMeeting, JobDeleteRoom, ForceDeleteLiveKitRoom, Ack, Fail, roomVars
<1> QED
  BY <1>1, <1>2, FinishIsReported, CloseStaysPending DEF Held

LEMMA RequestKeepsHeld ==
    ASSUME RoomTypeOK, JoinTypeOK, ~LiveKitFaults, Held,
           NEW r \in Reqs, Receive(r) \/ Serve(r), UNCHANGED attVars
    PROVE  Held'
<1>1. UNCHANGED work
  BY DEF attVars
<1>2. CASE UNCHANGED room
  <2>1. queue \subseteq queue'
    BY <1>2 DEF Receive, Serve, ListRooms, ListParticipants, EndOld, DeleteOld,
        SweepStale, Permission, Admission, SweepOngoing, Create, FindAfterConflict,
        FindSessionToJoin, CreateMissing, CreateRoom, Token, roomVars,
        ForceDeleteLiveKitRoom, FinishRoom
  <2>2. ASSUME NEW o \in Reqs, At(o, "createRoom")
        PROVE  Held'
    <3>1. CASE o = r
      <4>1. CreateRoom(r)
        BY <2>2, <3>1 DEF At, Receive, Serve, ListRooms, ListParticipants, EndOld,
           DeleteOld, SweepStale, Permission, Admission, SweepOngoing, Create,
           FindAfterConflict, FindSessionToJoin, CreateMissing, Token
      <4> QED
        BY <4>1, CreatedRoomIsUp DEF Held
    <3>2. CASE o # r
      <4>1. req'[o] = req[o]
        BY <3>2, OtherRequests
      <4> QED
        BY <2>2, <4>1 DEF Held, CreatingRoom, At
    <3> QED
      BY <3>1, <3>2
  <2> QED
    BY <1>1, <1>2, <2>1, <2>2, QueueKeepsPending DEF Held, CreatingRoom
<1>3. CASE DeleteOld(r) /\ FinishRoom
  BY <1>3, FinishIsReported DEF Held
<1>4. CASE CreateRoom(r)
  BY <1>4, CreatedRoomIsUp DEF Held
<1> QED
  BY <1>2, <1>3, <1>4
     DEF Receive, Serve, ListRooms, ListParticipants, EndOld, DeleteOld,
         SweepStale, Permission, Admission, SweepOngoing, Create, FindAfterConflict,
         FindSessionToJoin, CreateMissing, Token, roomVars, ForceDeleteLiveKitRoom

(* Enough for StartsKept while no session is created.                      *)
LEMMA NoSessionCreated ==
    ASSUME StartsKept, Ongoing' \subseteq Ongoing, UNCHANGED origin,
           disordered \subseteq disordered',
           Held => Held' \/ Ongoing' = {} \/ disordered' = Users
    PROVE  StartsKept'
BY DEF StartsKept, Held

LEMMA SessionsOnlyEnd ==
    ASSUME UNCHANGED sess \/ EndMeetingByCode
    PROVE  Ongoing' \subseteq Ongoing
BY EndedIsEmpty DEF Ongoing

LEMMA StartsKeptNext ==
    ASSUME TypeOK, ~LiveKitFaults, StartsKept, [Next]_systemVars
    PROVE  StartsKept'
<1>1. RoomTypeOK /\ AttTypeOK /\ JoinTypeOK
  BY DEF TypeOK
<1>2. CASE UNCHANGED systemVars
  BY <1>2 DEF systemVars, roomVars, attVars, joinVars, StartsKept, CreatingRoom,
              ClosePending, Ongoing, At
<1>3. CASE LiveKit /\ UNCHANGED <<attVars, req, origin>>
  <2>1. UNCHANGED sess /\ UNCHANGED disordered
    BY <1>3 DEF LiveKit, Connect, Disconnect, TokenExpires, EmptyTimeout,
                OpenBreakout, CloseBreakout, attVars
  <2>2. Held => Held'
    BY <1>1, <1>3, LiveKitKeepsHeld
  <2> QED
    BY <1>3, <2>1, <2>2, SessionsOnlyEnd, NoSessionCreated
<1>4. ASSUME NEW w \in Workers, Worker(w), UNCHANGED <<req, origin>>
      PROVE  StartsKept'
  <2>1. (UNCHANGED sess \/ EndMeetingByCode) /\ disordered \subseteq disordered'
    BY <1>4 DEF Worker, Take, JobStep, FindSession, ReadJoined, WriteJoined, ReadLeft,
              WriteLeft, ReadCloseAll, WriteCloseAll, JobListRooms,
              JobListParticipants, JobEndMeeting, JobDeleteRoom, Ack, Fail, roomVars
  <2>2. Held => Held' \/ Ongoing' = {} \/ disordered' = Users
    BY <1>1, <1>4, WorkerKeepsHeld
  <2> QED
    BY <1>4, <2>1, <2>2, SessionsOnlyEnd, NoSessionCreated
<1>5. ASSUME NEW r \in Reqs, Receive(r) \/ Serve(r), UNCHANGED attVars
      PROVE  StartsKept'
  <2>1. UNCHANGED disordered
    BY <1>5 DEF attVars
  <2>2. Held => Held'
    BY <1>1, <1>5, RequestKeepsHeld
  <2>3. CASE UNCHANGED origin /\ (UNCHANGED sess \/ EndMeetingByCode)
    BY <2>1, <2>2, <2>3, SessionsOnlyEnd, NoSessionCreated
  <2>4. ASSUME NEW s \in Sessions, CreateSession(s), req[r].user \in Users,
               \/ origin' = [origin EXCEPT ![s] = "missing"]
               \/ /\ origin' = [origin EXCEPT ![s] = "start"]
                  /\ CreatingRoom'
        PROVE  StartsKept'
    <3>1. Ongoing' = {s}
      BY <1>1, <2>4, CreatedIsOngoing
    <3>2. origin'[s] # "none" /\ (origin'[s] = "start" => CreatingRoom')
      BY <1>1, <2>4 DEF JoinTypeOK
    <3> QED
      BY <2>4, <3>1, <3>2 DEF StartsKept
  <2>5. req[r] \in Request
    BY <1>1 DEF JoinTypeOK
  <2>6. req[r].pc \in JoinPc => req[r].user \in Users
    BY <2>5, RequestType
  <2>7. CASE Create(r)
    <3>1. ASSUME NEW s \in Sessions,
                 req' = [req EXCEPT ![r].pc = "createRoom", ![r].sid = s]
          PROVE  CreatingRoom'
      <4>1. req'[r].pc = "createRoom"
        BY <1>1, <2>5, <3>1 DEF JoinTypeOK, Request
      <4> QED
        BY <4>1 DEF CreatingRoom, At
    <3> QED
      BY <2>3, <2>4, <2>6, <2>7, <3>1 DEF Create, At, JoinPc
  <2>8. CASE CreateMissing(r)
    BY <2>3, <2>4, <2>6, <2>8 DEF CreateMissing, At, JoinPc
  <2> QED
    BY <1>5, <2>3, <2>7, <2>8
       DEF Receive, Serve, ListRooms, ListParticipants, EndOld, DeleteOld,
           SweepStale, Permission, Admission, SweepOngoing, FindAfterConflict,
           FindSessionToJoin, CreateRoom, Token, roomVars
<1>6. CASE Rest
  <2>1. UNCHANGED <<sess, room, queue, work, disordered, req, origin>>
    BY <1>6 DEF Rest, roomVars, attVars
  <2> QED
    BY <2>1 DEF StartsKept, CreatingRoom, ClosePending, Ongoing, At
<1> QED
  BY <1>2, <1>3, <1>4, <1>5, <1>6 DEF Next, SystemStep

(* While LiveKit answers, no start leaves a session behind: between the    *)
(* creation of the session and that of the room the start itself goes on,  *)
(* and from then on the end of the room puts a job in the queue that ends  *)
(* the session, through failures, unless its attempts are used up.         *)
THEOREM StartsLeaveNoSessionAlways ==
    ASSUME ~LiveKitFaults
    PROVE  Spec => []StartsLeaveNoSession
<1>1. Init => StartsKept
  BY DEF Init, NothingStarted, StartsKept, Ongoing
<1>2. SystemInvariant /\ StartsKept /\ [Next]_systemVars => StartsKept'
  BY StartsKeptNext DEF SystemInvariant
<1>3. SystemInvariant /\ StartsKept => StartsLeaveNoSession
  <2> SUFFICES ASSUME TypeOK, StartsKept, AllDone, ~room.up, disordered = {},
                      NEW s \in Ongoing
               PROVE  origin[s] = "missing"
    BY DEF SystemInvariant, StartsLeaveNoSession
  <2>1. ~ClosePending /\ ~CreatingRoom
    BY DEF AllDone, JobsDone, RequestsDone, ClosePending, CreatingRoom, At
  <2>2. origin[s] \in {"none", "start", "missing"}
    BY DEF TypeOK, JoinTypeOK, Ongoing
  <2> QED
    BY <2>1, <2>2 DEF StartsKept
<1> QED
  BY <1>1, <1>2, <1>3, SystemIsInvariant, PTL DEF Spec
==============================================================================
