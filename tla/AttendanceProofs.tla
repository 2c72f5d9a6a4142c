--------------------------- MODULE AttendanceProofs ---------------------------
(***************************************************************************)
(* Proofs about Attendance: type correctness, that a document of a user    *)
(* whose jobs never overlapped has at most one open visit and an exact     *)
(* total and, once the jobs are done, matches presence, for any number of  *)
(* users, workers, sessions, connections and attempts, with or without     *)
(* faults.                                                                 *)
(***************************************************************************)
EXTENDS Attendance, SequenceTheorems, WellFoundedInduction, TLAPS

(***************************************************************************)
(* Documents.                                                              *)
(***************************************************************************)

(* A non-empty set of naturals has a least element: findIndex finds the    *)
(* first open visit whenever there is one.                                 *)
LEMMA LeastNat ==
    ASSUME NEW T \in SUBSET Nat, T # {}
    PROVE  \E i \in T : \A k \in T : i <= k
<1> DEFINE R == OpToRel(<, Nat)
<1>1. IsWellFoundedOn(R, Nat)
  BY NatLessThanWellFounded
<1>2. \A x, y \in Nat : x < y => <<x, y>> \in R
  BY DEF OpToRel
<1> HIDE DEF R
<1>3. PICK x \in T : \A y \in T : <<y, x>> \notin R
  BY <1>1, WFMin
<1>4. ASSUME NEW k \in T PROVE x <= k
  <2>1. x \in Nat /\ k \in Nat
    OBVIOUS
  <2>2. ~(k < x)
    BY <1>2, <1>3, <2>1
  <2> QED
    BY <2>1, <2>2
<1> QED
  BY <1>4

LEMMA FirstOpenIsOpen ==
    ASSUME NEW d \in Document, OpenVisits(d) # {}
    PROVE  FirstOpen(d) \in OpenVisits(d)
<1>1. OpenVisits(d) \in SUBSET Nat
  BY DEF OpenVisits, Indices, Document
<1>2. \E i \in OpenVisits(d) : \A k \in OpenVisits(d) : i <= k
  BY <1>1, LeastNat
<1> QED
  BY <1>2 DEF FirstOpen

LEMMA IndexType ==
    ASSUME NEW d \in Document
    PROVE  /\ OpenVisits(d) \subseteq Nat
           /\ OpenVisits(d) \cap ClosedVisits(d) = {}
BY DEF OpenVisits, ClosedVisits, Indices, Document

LEMMA DocumentType ==
    ASSUME NEW d
    PROVE  /\ d \in Document => d.visits \in Seq(Visit) /\ d.total \in SUBSET Nat
           /\ \A q \in Seq(Visit), T \in SUBSET Nat :
                 [visits |-> q, total |-> T] \in Document
BY DEF Document

(* $push of a visit without leftAt opens one more visit, and closes none.  *)
LEMMA PushedDocument ==
    ASSUME NEW d \in Document, NEW n \in Nat
    PROVE  /\ Pushed(d, n) \in Document
           /\ Pushed(d, n).total = d.total
           /\ OpenVisits(Pushed(d, n)) = OpenVisits(d) \cup {Len(d.visits) + 1}
           /\ ClosedVisits(Pushed(d, n)) = ClosedVisits(d)
<1> DEFINE v == [n |-> n, open |-> TRUE]
           q == Append(d.visits, v)
           e == Pushed(d, n)
<1>1. /\ d.visits \in Seq(Visit)
      /\ d.total \in SUBSET Nat
  BY DocumentType
<1>2. v \in Visit /\ v.open = TRUE
  BY DEF Visit
<1>3. e = [visits |-> q, total |-> d.total]
  BY DEF Pushed
<1> HIDE DEF v, e
<1>4. /\ q \in Seq(Visit)
      /\ Len(q) = Len(d.visits) + 1
      /\ \A i \in 1..Len(d.visits) : q[i] = d.visits[i]
      /\ q[Len(d.visits) + 1] = v
  BY <1>1, <1>2, AppendProperties
<1>5. Len(d.visits) \in Nat
  BY <1>1
<1> HIDE DEF q
<1>6. e \in Document
  BY <1>1, <1>3, <1>4, DocumentType
<1>7. e.total = d.total /\ e.visits = q
  BY <1>3
<1>8. OpenVisits(e) = OpenVisits(d) \cup {Len(d.visits) + 1}
  BY <1>2, <1>4, <1>5, <1>7 DEF OpenVisits, Indices
<1>9. ClosedVisits(e) = ClosedVisits(d)
  BY <1>2, <1>4, <1>5, <1>7 DEF ClosedVisits, Indices
<1> QED
  BY <1>6, <1>7, <1>8, <1>9 DEF e

(* $set of leftAt and of the total. An index outside the array would leave *)
(* the array as it is.                                                     *)
LEMMA ClosedDocument ==
    ASSUME NEW d \in Document, NEW i \in Nat, NEW T \in SUBSET Nat
    PROVE  /\ Closed(d, i, T) \in Document
           /\ Closed(d, i, T).total = T
           /\ i \in OpenVisits(d) =>
                 /\ OpenVisits(Closed(d, i, T)) = OpenVisits(d) \ {i}
                 /\ ClosedVisits(Closed(d, i, T)) = ClosedVisits(d) \cup {i}
<1> DEFINE s == d.visits
           q == [s EXCEPT ![i].open = FALSE]
           e == Closed(d, i, T)
<1>1. e = [visits |-> q, total |-> T]
  BY DEF Closed
<1>2. s \in Seq(Visit)
  BY DocumentType
<1> HIDE DEF s, e
<1>3. /\ q \in Seq(Visit)
      /\ Len(q) = Len(s)
      /\ \A k \in 1..Len(s) : q[k].open = IF k = i THEN FALSE ELSE s[k].open
  <2>1. CASE i \in 1..Len(s)
    <3> DEFINE v == [s[i] EXCEPT !.open = FALSE]
    <3>1. s[i] \in Visit
      BY <1>2, <2>1
    <3>2. v \in Visit /\ v.open = FALSE
      BY <3>1 DEF Visit
    <3>3. q = [s EXCEPT ![i] = v]
      OBVIOUS
    <3> HIDE DEF q, v
    <3>4. /\ [s EXCEPT ![i] = v] \in Seq(Visit)
          /\ Len([s EXCEPT ![i] = v]) = Len(s)
          /\ \A k \in 1..Len(s) :
                [s EXCEPT ![i] = v][k] = IF k = i THEN v ELSE s[k]
      BY <1>2, <2>1, <3>2, ExceptSeq
    <3>5. \A k \in 1..Len(s) : q[k] = IF k = i THEN v ELSE s[k]
      BY <3>3, <3>4
    <3>6. ASSUME NEW k \in 1..Len(s)
          PROVE  q[k].open = IF k = i THEN FALSE ELSE s[k].open
      BY <3>2, <3>5, Zenon
    <3>7. q \in Seq(Visit) /\ Len(q) = Len(s)
      BY <3>3, <3>4
    <3> QED
      BY <3>6, <3>7
  <2>2. CASE i \notin 1..Len(s)
    <3>1. q = s
      BY <1>2, <2>2
    <3> HIDE DEF q
    <3>2. q \in Seq(Visit) /\ Len(q) = Len(s)
      BY <1>2, <3>1
    <3>3. ASSUME NEW k \in 1..Len(s)
          PROVE  q[k].open = IF k = i THEN FALSE ELSE s[k].open
      <4>1. k # i
        BY <2>2
      <4> QED
        BY <3>1, <4>1, Zenon
    <3> QED
      BY <3>2, <3>3
  <2> QED
    BY <2>1, <2>2
<1> HIDE DEF q
<1>4. e \in Document
  BY <1>1, <1>3, DocumentType
<1>5. e.total = T /\ e.visits = q
  BY <1>1
<1>6. ASSUME i \in OpenVisits(d)
      PROVE  /\ OpenVisits(e) = OpenVisits(d) \ {i}
             /\ ClosedVisits(e) = ClosedVisits(d) \cup {i}
  BY <1>3, <1>5, <1>6 DEF OpenVisits, ClosedVisits, Indices, s
<1> QED
  BY <1>4, <1>5, <1>6 DEF e

(***************************************************************************)
(* Types.                                                                  *)
(***************************************************************************)
LEMMA FindOngoingType ==
    /\ FindOngoing \in Sessions \cup {NoSession}
    /\ FindOngoing # NoSession => FindOngoing \in Sessions /\ Ongoing # {}
BY DEF FindOngoing, Ongoing

LEMMA JobType ==
    ASSUME NEW n \in Nat
    PROVE  /\ \A u \in Users : JoinedJob(u, n) \in Jobs /\ LeftJob(u, n) \in Jobs
           /\ CloseAllJob(n) \in Jobs
BY DEF JoinedJob, LeftJob, CloseAllJob, Jobs

LEMMA JobFields ==
    ASSUME NEW j \in Jobs
    PROVE  /\ j.kind \in {"joined", "left", "closeAll"}
           /\ j.kind # "closeAll" => j.who \in Users
           /\ j.n \in Nat /\ j.tries \in Nat
           /\ [j EXCEPT !.tries = @ + 1] \in Jobs
<1>1. CASE j \in [kind : {"joined", "left"}, who : Users, n : Nat, tries : Nat]
  BY <1>1 DEF Jobs
<1>2. CASE j \in [kind : {"closeAll"}, who : {NoUser}, n : Nat, tries : Nat]
  BY <1>2 DEF Jobs
<1> QED
  BY <1>1, <1>2 DEF Jobs

LEMMA EndMeetingType ==
    ASSUME RoomTypeOK, EndMeetingByCode, UNCHANGED <<room, tokens, conn, queue>>
    PROVE  RoomTypeOK'
BY DEF RoomTypeOK, EndMeetingByCode, SessionStatus

LEMMA FinishRoomType ==
    ASSUME RoomTypeOK, FinishRoom, UNCHANGED <<sess, tokens, conn>>
    PROVE  RoomTypeOK'
<1>1. /\ room.gen \in Nat /\ room.humans \subseteq Users
      /\ \A u \in room.humans : conn[u] \in Nat
  BY DEF RoomTypeOK
<1>2. queue' \subseteq Jobs
  BY <1>1, JobType DEF RoomTypeOK, FinishRoom
<1>3. room' \in [up : BOOLEAN, sid : Sessions \cup {NoSession},
                 humans : SUBSET Users, breakout : BOOLEAN, gen : Nat]
  BY <1>1 DEF FinishRoom
<1> QED
  BY <1>2, <1>3 DEF RoomTypeOK

LEMMA ForceDeleteType ==
    ASSUME RoomTypeOK, ForceDeleteLiveKitRoom, UNCHANGED <<sess, tokens, conn>>
    PROVE  RoomTypeOK'
BY FinishRoomType DEF ForceDeleteLiveKitRoom, RoomTypeOK

LEMMA LiveKitType ==
    ASSUME RoomTypeOK, LiveKit
    PROVE  RoomTypeOK'
<1>1. ASSUME NEW u \in Users, Connect(u) PROVE RoomTypeOK'
  <2>1. /\ conn[u] \in Nat /\ conn[u] + 1 \in Nat
        /\ room.gen \in Nat /\ room.humans \subseteq Users
        /\ \A v \in room.humans : conn[v] \in Nat
    BY DEF RoomTypeOK
  <2>2. queue' \subseteq Jobs
    BY <1>1, <2>1, JobType DEF RoomTypeOK, Connect
  <2>3. room' \in [up : BOOLEAN, sid : Sessions \cup {NoSession},
                   humans : SUBSET Users, breakout : BOOLEAN, gen : Nat]
    BY <1>1, <2>1 DEF RoomTypeOK, Connect, NewRoom
  <2> QED
    BY <1>1, <2>1, <2>2, <2>3 DEF RoomTypeOK, Connect
<1>2. ASSUME NEW u \in Users, Disconnect(u) PROVE RoomTypeOK'
  <2>1. LeftJob(u, conn[u]) \in Jobs
    BY JobType DEF RoomTypeOK
  <2> QED
    BY <1>2, <2>1 DEF RoomTypeOK, Disconnect
<1>3. ASSUME NEW u \in Users, TokenExpires(u) PROVE RoomTypeOK'
  BY <1>3 DEF RoomTypeOK, TokenExpires
<1>4. CASE EmptyTimeout
  BY <1>4, FinishRoomType DEF EmptyTimeout
<1>5. CASE OpenBreakout \/ CloseBreakout
  BY <1>5 DEF RoomTypeOK, OpenBreakout, CloseBreakout
<1> QED
  BY <1>1, <1>2, <1>3, <1>4, <1>5 DEF LiveKit

LEMMA ReadDocumentType ==
    ASSUME AttTypeOK, NEW s \in Sessions, NEW u \in Users,
           OpenVisits(att[s][u]) # {}
    PROVE  /\ ReadDocument(s, u) \in Reading
           /\ ReadDocument(s, u).who = u
           /\ ReadDocument(s, u).idx \in OpenVisits(att[s][u])
           /\ ReadDocument(s, u).total = att[s][u].total
<1>1. att[s][u] \in Document
  BY DEF AttTypeOK
<1>2. att[s][u].total \in SUBSET Nat
  BY <1>1, DocumentType
<1>3. /\ FirstOpen(att[s][u]) \in OpenVisits(att[s][u])
      /\ FirstOpen(att[s][u]) \in Nat
  BY <1>1, FirstOpenIsOpen, IndexType
<1> QED
  BY <1>2, <1>3 DEF ReadDocument, Reading

LEMMA WriteType ==
    ASSUME AttTypeOK, NEW s
    PROVE  /\ \A t \in Reading :
                 CloseVisit(s, t) => att' \in [Sessions -> [Users -> Document]]
           /\ \A j \in Jobs :
                 PushVisit(s, j) => att' \in [Sessions -> [Users -> Document]]
<1>1. ASSUME NEW t \in Reading, CloseVisit(s, t)
      PROVE  att' \in [Sessions -> [Users -> Document]]
  <2>1. t.idx \in Nat /\ t.total \cup {t.idx} \in SUBSET Nat
    BY DEF Reading
  <2>2. \A d \in Document : Closed(d, t.idx, t.total \cup {t.idx}) \in Document
    BY <2>1, ClosedDocument
  <2> QED
    BY <1>1, <2>2 DEF CloseVisit, AttTypeOK
<1>2. ASSUME NEW j \in Jobs, PushVisit(s, j)
      PROVE  att' \in [Sessions -> [Users -> Document]]
  <2>1. \A d \in Document : Pushed(d, j.n) \in Document
    BY JobFields, PushedDocument
  <2> QED
    BY <1>2, <2>1 DEF PushVisit, AttTypeOK
<1> QED
  BY <1>1, <1>2

LEMMA WorkerStateType ==
    ASSUME NEW k \in WorkerState
    PROVE  /\ k.pc \in JobPc /\ k.job \in Jobs /\ k.todo \in SUBSET Reading
           /\ \A pc \in JobPc : [k EXCEPT !.pc = pc] \in WorkerState
           /\ \A pc \in JobPc, j \in Jobs :
                 [k EXCEPT !.pc = pc, !.job = j] \in WorkerState
           /\ \A pc \in JobPc, sid \in Sessions \cup {NoSession} :
                 [k EXCEPT !.pc = pc, !.sid = sid] \in WorkerState
           /\ \A pc \in JobPc, todo \in SUBSET Reading :
                 /\ [k EXCEPT !.pc = pc, !.todo = todo] \in WorkerState
                 /\ [k EXCEPT !.todo = todo, !.pc = pc] \in WorkerState
BY DEF WorkerState

LEMMA NewWorkerType ==
    /\ IdleWorker \in WorkerState
    /\ \A j \in Jobs :
          [IdleWorker EXCEPT !.pc = "findSession", !.job = j] \in WorkerState
<1>1. NoJob \in Jobs
  BY DEF NoJob, Jobs
<1>2. {"idle", "findSession"} \subseteq JobPc
  BY DEF JobPc
<1>3. ASSUME NEW pc \in JobPc, NEW j \in Jobs
      PROVE  [pc |-> pc, job |-> j, sid |-> NoSession, todo |-> {}] \in WorkerState
  BY DEF WorkerState
<1>4. IdleWorker \in WorkerState
  BY <1>1, <1>2, <1>3 DEF IdleWorker
<1> QED
  BY <1>2, <1>4, WorkerStateType

(* A step that changes one worker's state. *)
LEMMA OneWorkerType ==
    ASSUME AttTypeOK, NEW w \in Workers, NEW k \in WorkerState,
           work' = [work EXCEPT ![w] = k]
    PROVE  work' \in [Workers -> WorkerState]
BY DEF AttTypeOK

LEMMA WorkerType ==
    ASSUME RoomTypeOK, AttTypeOK, SessionFound, NEW w \in Workers, Worker(w)
    PROVE  RoomTypeOK' /\ AttTypeOK'
<1>1. /\ work[w] \in WorkerState
      /\ work[w].job \in Jobs
      /\ \A k \in WorkerState : work' = [work EXCEPT ![w] = k] =>
            work' \in [Workers -> WorkerState]
  BY WorkerStateType, OneWorkerType DEF AttTypeOK
<1>2. {"read", "write", "listRooms"} \subseteq JobPc
  BY DEF JobPc
<1>3. ASSUME NEW pc \in JobPc, Goto(w, pc)
      PROVE  work' \in [Workers -> WorkerState]
  <2>1. [work[w] EXCEPT !.pc = pc] \in WorkerState
    BY <1>1, WorkerStateType
  <2> QED
    BY <1>1, <1>3, <2>1 DEF Goto
<1>4. ASSUME NEW j \in queue, Take(w, j) PROVE RoomTypeOK' /\ AttTypeOK'
  <2>1. j \in Jobs
    BY DEF RoomTypeOK
  <2>2. work' \in [Workers -> WorkerState]
    BY <1>1, <1>4, <2>1, NewWorkerType DEF Take
  <2> QED
    BY <1>4, <2>2 DEF Take, RoomTypeOK, AttTypeOK
<1>5. CASE FindSession(w)
  <2>1. CASE FindOngoing = NoSession
    BY <1>3, <1>5, <2>1, <1>1, JobFields
       DEF FindSession, JobPc, RoomTypeOK, AttTypeOK, roomVars
  <2>2. CASE FindOngoing # NoSession
    <3>1. [work[w] EXCEPT !.pc = "read", !.sid = FindOngoing] \in WorkerState
      BY <1>1, <1>2, WorkerStateType, FindOngoingType
    <3> QED
      BY <1>1, <1>5, <2>2, <3>1 DEF FindSession, RoomTypeOK, AttTypeOK, roomVars
  <2> QED
    BY <2>1, <2>2
<1>6. CASE ReadJoined(w)
  <2>1. work' \in [Workers -> WorkerState]
    BY <1>3, <1>6 DEF ReadJoined, JobPc
  <2> QED
    BY <1>6, <2>1 DEF ReadJoined, RoomTypeOK, AttTypeOK, roomVars
<1>7. CASE WriteJoined(w)
  <2>1. work' \in [Workers -> WorkerState]
    BY <1>3, <1>7 DEF WriteJoined, JobPc
  <2>2. att' \in [Sessions -> [Users -> Document]]
    BY <1>1, <1>7, WriteType DEF WriteJoined
  <2> QED
    BY <1>7, <2>1, <2>2 DEF WriteJoined, RoomTypeOK, AttTypeOK, roomVars
<1>8. CASE ReadLeft(w)
  <2> DEFINE s == work[w].sid
             u == work[w].job.who
  <2>0. s \in Sessions
    BY <1>8 DEF ReadLeft, SessionFound
  <2>1. u \in Users
    BY <1>1, <1>8, JobFields DEF ReadLeft
  <2>2. CASE OpenVisits(att[s][u]) = {}
    BY <1>3, <1>8, <2>2 DEF ReadLeft, JobPc, RoomTypeOK, AttTypeOK, roomVars
  <2>3. CASE OpenVisits(att[s][u]) # {}
    <3>1. {ReadDocument(s, u)} \in SUBSET Reading
      BY <2>0, <2>1, <2>3, ReadDocumentType
    <3>2. [work[w] EXCEPT !.pc = "write", !.todo = {ReadDocument(s, u)}] \in WorkerState
      BY <1>1, <1>2, <3>1, WorkerStateType
    <3> QED
      BY <1>1, <1>8, <2>3, <3>2 DEF ReadLeft, RoomTypeOK, AttTypeOK, roomVars
  <2> QED
    BY <2>2, <2>3
<1>9. CASE WriteLeft(w)
  <2>1. PICK t \in work[w].todo : CloseVisit(work[w].sid, t)
    BY <1>9 DEF WriteLeft
  <2>2. t \in Reading
    BY <1>1, WorkerStateType
  <2>3. att' \in [Sessions -> [Users -> Document]]
    BY <2>1, <2>2, WriteType
  <2>4. [work[w] EXCEPT !.pc = "listRooms", !.todo = {}] \in WorkerState
    BY <1>1, <1>2, WorkerStateType
  <2> QED
    BY <1>1, <1>9, <2>3, <2>4 DEF WriteLeft, RoomTypeOK, AttTypeOK, roomVars
<1>10. CASE ReadCloseAll(w)
  <2> DEFINE s == work[w].sid
             found == {u \in Users : OpenVisits(att[s][u]) # {}}
             todo == {ReadDocument(s, u) : u \in found}
             pc == IF found = {} THEN "endOnly" ELSE "write"
  <2>0. s \in Sessions
    BY <1>10 DEF ReadCloseAll, SessionFound
  <2>1. todo \in SUBSET Reading
    BY <2>0, ReadDocumentType
  <2>2. pc \in JobPc
    BY DEF JobPc
  <2>3. work' = [work EXCEPT ![w].pc = pc, ![w].todo = todo]
    BY <1>10 DEF ReadCloseAll
  <2> HIDE DEF todo, pc
  <2>4. [work[w] EXCEPT !.pc = pc, !.todo = todo] \in WorkerState
    BY <1>1, <2>1, <2>2, WorkerStateType
  <2>5. work' \in [Workers -> WorkerState]
    BY <1>1, <2>3, <2>4
  <2> QED
    BY <1>10, <2>5 DEF ReadCloseAll, RoomTypeOK, AttTypeOK, roomVars
<1>11. CASE WriteCloseAll(w)
  <2>1. PICK t \in work[w].todo :
           /\ CloseVisit(work[w].sid, t)
           /\ work' = [work EXCEPT
                         ![w].todo = @ \ {t},
                         ![w].pc = IF work[w].todo = {t} THEN "endOnly" ELSE @]
    BY <1>11 DEF WriteCloseAll
  <2>2. t \in Reading /\ work[w].todo \ {t} \in SUBSET Reading
    BY <1>1, WorkerStateType
  <2>3. att' \in [Sessions -> [Users -> Document]]
    BY <2>1, <2>2, WriteType
  <2> DEFINE todo == work[w].todo \ {t}
             pc == IF work[w].todo = {t} THEN "endOnly" ELSE work[w].pc
  <2>4. pc \in JobPc
    BY <1>1, WorkerStateType DEF JobPc
  <2>5. work' = [work EXCEPT ![w].todo = todo, ![w].pc = pc]
    BY <2>1
  <2>6. todo \in SUBSET Reading
    BY <2>2
  <2> HIDE DEF todo, pc
  <2>7. [work[w] EXCEPT !.todo = todo, !.pc = pc] \in WorkerState
    BY <1>1, <2>4, <2>6, WorkerStateType
  <2>8. work' \in [Workers -> WorkerState]
    BY <1>1, <2>5, <2>7
  <2> QED
    BY <1>11, <2>3, <2>8 DEF WriteCloseAll, RoomTypeOK, AttTypeOK, roomVars
<1>12. CASE JobListRooms(w) \/ JobListParticipants(w)
  <2>1. work' \in [Workers -> WorkerState]
    BY <1>3, <1>12 DEF JobListRooms, JobListParticipants, JobPc
  <2> QED
    BY <1>12, <2>1 DEF JobListRooms, JobListParticipants, RoomTypeOK, AttTypeOK, roomVars
<1>13. CASE JobEndMeeting(w)
  <2>1. work' \in [Workers -> WorkerState]
    BY <1>3, <1>13 DEF JobEndMeeting, JobPc
  <2>2. RoomTypeOK'
    BY <1>13, EndMeetingType DEF JobEndMeeting
  <2> QED
    BY <1>13, <2>1, <2>2 DEF JobEndMeeting, AttTypeOK
<1>14. CASE JobDeleteRoom(w)
  <2>1. work' \in [Workers -> WorkerState]
    BY <1>3, <1>14 DEF JobDeleteRoom, JobPc
  <2>2. RoomTypeOK'
    BY <1>14, ForceDeleteType DEF JobDeleteRoom
  <2> QED
    BY <1>14, <2>1, <2>2 DEF JobDeleteRoom, AttTypeOK
<1>15. CASE Ack(w)
  BY <1>1, <1>15, NewWorkerType DEF Ack, RoomTypeOK, AttTypeOK, roomVars
<1>16. CASE Fail(w)
  <2>1. work' \in [Workers -> WorkerState]
    BY <1>1, <1>16, NewWorkerType DEF Fail
  <2>2. queue' \subseteq Jobs
    BY <1>1, <1>16, JobFields DEF Fail, RoomTypeOK
  <2> QED
    BY <1>16, <2>1, <2>2 DEF Fail, RoomTypeOK, AttTypeOK
<1> QED
  BY <1>4, <1>5, <1>6, <1>7, <1>8, <1>9, <1>10, <1>11, <1>12, <1>13, <1>14,
     <1>15, <1>16 DEF Worker, JobStep

(***************************************************************************)
(* The inductive invariant.                                                *)
(***************************************************************************)

(* A worker's step that leaves the documents alone and nothing to write.   *)
LEMMA LocalStep ==
    ASSUME AttTypeOK, AttendanceInvariant, NEW w \in Workers, NEW k,
           work' = [work EXCEPT ![w] = k],
           UNCHANGED att, UNCHANGED overlapped,
           k.pc # "idle" => Busy(w) /\ k.job = work[w].job,
           k.pc # "write", k.todo = {},
           k.pc = "read" => k.sid \in Sessions
    PROVE  AttendanceInvariant'
<1>1. /\ work'[w] = k
      /\ \A v \in Workers : v # w => work'[v] = work[v]
  BY DEF AttTypeOK
<1>2. OneOpenVisit' /\ TotalIsExact'
  BY DEF AttendanceInvariant, OneOpenVisit, TotalIsExact
<1>3. JobsApart'
  BY <1>1 DEF AttendanceInvariant, JobsApart, Busy, Touches
<1>4. SessionFound'
  BY <1>1 DEF AttendanceInvariant, SessionFound
<1>5. NothingOpenToPush'
  BY <1>1 DEF AttendanceInvariant, NothingOpenToPush
<1>6. ReadingsOfJob'
  BY <1>1 DEF AttendanceInvariant, ReadingsOfJob, Touches
<1>7. ReadingsCurrent'
  BY <1>1 DEF AttendanceInvariant, ReadingsCurrent
<1> QED
  BY <1>2, <1>3, <1>4, <1>5, <1>6, <1>7 DEF AttendanceInvariant

(* A worker goes on to write what its reading justifies.                   *)
LEMMA ReadStep ==
    ASSUME AttTypeOK, AttendanceInvariant, NEW w \in Workers, NEW k,
           work' = [work EXCEPT ![w] = k],
           UNCHANGED att, UNCHANGED overlapped,
           work[w].pc = "read",
           k.pc = "write", k.job = work[w].job, k.sid = work[w].sid,
           k.job.kind = "joined" =>
              OpenVisits(att[k.sid][k.job.who]) = {} /\ k.todo = {},
           \A t \in k.todo :
              /\ Touches(k.job, t.who)
              /\ t.idx \in OpenVisits(att[k.sid][t.who])
              /\ t.total = att[k.sid][t.who].total
              /\ \A r \in k.todo : r.who = t.who => r = t
    PROVE  AttendanceInvariant'
<1>1. /\ work'[w] = k
      /\ \A v \in Workers : v # w => work'[v] = work[v]
  BY DEF AttTypeOK
<1>2. OneOpenVisit' /\ TotalIsExact'
  BY DEF AttendanceInvariant, OneOpenVisit, TotalIsExact
<1>3. JobsApart'
  BY <1>1 DEF AttendanceInvariant, JobsApart, Busy, Touches
<1>4. SessionFound'
  BY <1>1 DEF AttendanceInvariant, SessionFound
<1>5. NothingOpenToPush'
  <2> SUFFICES ASSUME NEW v \in Workers,
                      work'[v].pc = "write", work'[v].job.kind = "joined",
                      work'[v].job.who \notin overlapped
               PROVE  OpenVisits(att'[work'[v].sid][work'[v].job.who]) = {}
    BY DEF NothingOpenToPush
  <2>1. CASE v = w
    BY <1>1, <2>1
  <2>2. CASE v # w
    <3>1. work'[v] = work[v] /\ att' = att
      BY <1>1, <2>2
    <3> QED
      BY <3>1 DEF AttendanceInvariant, NothingOpenToPush
  <2> QED
    BY <2>1, <2>2
<1>6. ReadingsOfJob'
  BY <1>1 DEF AttendanceInvariant, ReadingsOfJob, Touches
<1>7. ReadingsCurrent'
  BY <1>1 DEF AttendanceInvariant, ReadingsCurrent
<1> QED
  BY <1>2, <1>3, <1>4, <1>5, <1>6, <1>7 DEF AttendanceInvariant

(* A worker writes one document of a user its job is about.                *)
LEMMA WriteStep ==
    ASSUME AttTypeOK, AttendanceInvariant, NEW w \in Workers, NEW k,
           work' = [work EXCEPT ![w] = k], UNCHANGED overlapped,
           Busy(w), k.job = work[w].job, k.pc # "read", k.sid = work[w].sid,
           NEW s \in Sessions, s = work[w].sid, NEW u \in Users, NEW e,
           att' = [att EXCEPT ![s][u] = e],
           Touches(k.job, u),
           k.pc = "write" => k.job.kind # "joined",
           k.todo \subseteq {t \in work[w].todo : t.who # u},
           k.todo # {} => k.pc = "write",
           u \notin overlapped =>
              /\ \A i, m \in OpenVisits(e) : i = m
              /\ e.total = ClosedVisits(e)
    PROVE  AttendanceInvariant'
<1>1. /\ work'[w] = k
      /\ \A v \in Workers : v # w => work'[v] = work[v]
  BY DEF AttTypeOK
<1>2. /\ att'[s][u] = e
      /\ \A x \in Sessions, y \in Users : (x # s \/ y # u) => att'[x][y] = att[x][y]
  BY DEF AttTypeOK
<1>3. OneOpenVisit'
  <2> SUFFICES ASSUME NEW x \in Sessions, NEW y \in Users, y \notin overlapped
               PROVE  \A i, m \in OpenVisits(att'[x][y]) : i = m
    BY DEF OneOpenVisit
  <2>1. CASE x = s /\ y = u
    BY <1>2, <2>1
  <2>2. CASE x # s \/ y # u
    BY <1>2, <2>2 DEF AttendanceInvariant, OneOpenVisit
  <2> QED
    BY <2>1, <2>2
<1>4. TotalIsExact'
  <2> SUFFICES ASSUME NEW x \in Sessions, NEW y \in Users, y \notin overlapped
               PROVE  att'[x][y].total = ClosedVisits(att'[x][y])
    BY DEF TotalIsExact
  <2>1. CASE x = s /\ y = u
    BY <1>2, <2>1
  <2>2. CASE x # s \/ y # u
    BY <1>2, <2>2 DEF AttendanceInvariant, TotalIsExact
  <2> QED
    BY <2>1, <2>2
<1>5. JobsApart'
  BY <1>1 DEF AttendanceInvariant, JobsApart, Busy, Touches
<1>6. SessionFound'
  BY <1>1 DEF AttendanceInvariant, SessionFound
<1>7. ASSUME NEW v \in Workers, v # w, Busy(v), NEW y \in Users \ overlapped,
             Touches(work[v].job, y), work[v].sid \in Sessions
      PROVE  att'[work[v].sid][y] = att[work[v].sid][y]
  <2>1. y # u
    BY <1>7 DEF AttendanceInvariant, JobsApart
  <2> QED
    BY <1>2, <1>7, <2>1
<1>8. NothingOpenToPush'
  <2> SUFFICES ASSUME NEW v \in Workers,
                      work'[v].pc = "write", work'[v].job.kind = "joined",
                      work'[v].job.who \notin overlapped
               PROVE  OpenVisits(att'[work'[v].sid][work'[v].job.who]) = {}
    BY DEF NothingOpenToPush
  <2>1. v # w /\ work'[v] = work[v]
    BY <1>1
  <2>2. work[v].job \in Jobs
    BY WorkerStateType DEF AttTypeOK
  <2>3. work[v].job.who \in Users \ overlapped
    BY <2>1, <2>2, JobFields
  <2>4. work[v].sid \in Sessions /\ Busy(v) /\ Touches(work[v].job, work[v].job.who)
    BY <2>1 DEF AttendanceInvariant, SessionFound, Busy, Touches
  <2>5. OpenVisits(att[work[v].sid][work[v].job.who]) = {}
    BY <2>1, <2>3 DEF AttendanceInvariant, NothingOpenToPush
  <2> QED
    BY <1>7, <2>1, <2>3, <2>4, <2>5
<1>9. ReadingsOfJob'
  BY <1>1 DEF AttendanceInvariant, ReadingsOfJob, Touches
<1>10. ReadingsCurrent'
  <2> SUFFICES ASSUME NEW v \in Workers, NEW t \in work'[v].todo, t.who \notin overlapped
               PROVE  /\ t.idx \in OpenVisits(att'[work'[v].sid][t.who])
                      /\ t.total = att'[work'[v].sid][t.who].total
    BY DEF ReadingsCurrent
  <2>1. t \in work[v].todo /\ work'[v].sid = work[v].sid
    BY <1>1
  <2>2. t.who \in Users \ overlapped
    <3>1. work[v].todo \in SUBSET Reading
      BY WorkerStateType DEF AttTypeOK
    <3> QED
      BY <2>1, <3>1 DEF Reading
  <2>3. /\ t.idx \in OpenVisits(att[work[v].sid][t.who])
        /\ t.total = att[work[v].sid][t.who].total
    BY <2>1 DEF AttendanceInvariant, ReadingsCurrent
  <2>4. /\ work[v].sid \in Sessions /\ Busy(v) /\ Touches(work[v].job, t.who)
    BY <2>1 DEF AttendanceInvariant, SessionFound, ReadingsOfJob, Busy
  <2>5. att'[work[v].sid][t.who] = att[work[v].sid][t.who]
    <3>1. CASE v = w
      BY <1>1, <1>2, <2>2, <2>4, <3>1
    <3>2. CASE v # w
      BY <1>7, <2>2, <2>4, <3>2
    <3> QED
      BY <3>1, <3>2
  <2> QED
    BY <2>1, <2>3, <2>5
<1> QED
  BY <1>3, <1>4, <1>5, <1>6, <1>8, <1>9, <1>10 DEF AttendanceInvariant

(* A job is begun: from now on the users whose running jobs it meets are   *)
(* no longer spoken of.                                                    *)
LEMMA TakeStep ==
    ASSUME RoomTypeOK, AttTypeOK, AttendanceInvariant,
           NEW w \in Workers, NEW j \in queue, Take(w, j)
    PROVE  AttendanceInvariant'
<1> DEFINE k == [IdleWorker EXCEPT !.pc = "findSession", !.job = j]
<1>1. /\ work' = [work EXCEPT ![w] = k]
      /\ ~Busy(w)
      /\ att' = att
      /\ overlapped \subseteq overlapped'
  BY DEF Take, Busy
<1>2. k.pc = "findSession" /\ k.job = j /\ k.todo = {}
  BY DEF IdleWorker
<1> HIDE DEF k
<1>3. /\ work'[w] = k
      /\ \A v \in Workers : v # w => work'[v] = work[v]
  BY <1>1 DEF AttTypeOK
<1>4. OneOpenVisit' /\ TotalIsExact'
  BY <1>1 DEF AttendanceInvariant, OneOpenVisit, TotalIsExact
<1>5. JobsApart'
  <2> SUFFICES ASSUME NEW u \in Users \ overlapped', NEW v \in Workers, v # w,
                      work[v].pc # "idle", Touches(work[v].job, u), Touches(j, u)
               PROVE  FALSE
    BY <1>1, <1>2, <1>3 DEF AttendanceInvariant, JobsApart, Busy, Touches
  <2>1. work[v].job \in Running
    BY DEF Running
  <2>2. u \in overlapped'
    BY <2>1 DEF Take
  <2> QED
    BY <2>2
<1>6. SessionFound'
  BY <1>2, <1>3 DEF AttendanceInvariant, SessionFound
<1>7. NothingOpenToPush'
  BY <1>1, <1>2, <1>3 DEF AttendanceInvariant, NothingOpenToPush
<1>8. ReadingsOfJob'
  BY <1>2, <1>3 DEF AttendanceInvariant, ReadingsOfJob, Touches
<1>9. ReadingsCurrent'
  BY <1>1, <1>2, <1>3 DEF AttendanceInvariant, ReadingsCurrent
<1> QED
  BY <1>4, <1>5, <1>6, <1>7, <1>8, <1>9 DEF AttendanceInvariant

(* markLeft and closeAllOpenVisits close the one open visit of a document  *)
(* and add its duration to the total they have read.                       *)
LEMMA ClosingKeepsDocument ==
    ASSUME AttTypeOK, AttendanceInvariant, NEW w \in Workers,
           NEW t \in work[w].todo
    PROVE  /\ t.who \in Users
           /\ work[w].sid \in Sessions
           /\ t.who \notin overlapped =>
                LET e == Closed(att[work[w].sid][t.who], t.idx, t.total \cup {t.idx})
                IN  /\ \A i, m \in OpenVisits(e) : i = m
                    /\ e.total = ClosedVisits(e)
<1>1. /\ t.who \in Users /\ t.idx \in Nat /\ t.total \in SUBSET Nat
      /\ t.total \cup {t.idx} \in SUBSET Nat
  <2>1. work[w].todo \in SUBSET Reading
    BY WorkerStateType DEF AttTypeOK
  <2> QED
    BY <2>1 DEF Reading
<1>2. work[w].sid \in Sessions
  BY DEF AttendanceInvariant, ReadingsOfJob, SessionFound
<1>3. ASSUME t.who \notin overlapped
      PROVE  LET e == Closed(att[work[w].sid][t.who], t.idx, t.total \cup {t.idx})
             IN  /\ \A i, m \in OpenVisits(e) : i = m
                 /\ e.total = ClosedVisits(e)
  <2> DEFINE d == att[work[w].sid][t.who]
             e == Closed(d, t.idx, t.total \cup {t.idx})
  <2>1. d \in Document
    BY <1>1, <1>2 DEF AttTypeOK
  <2>2. /\ t.idx \in OpenVisits(d) /\ t.total = d.total
        /\ \A i, m \in OpenVisits(d) : i = m
        /\ d.total = ClosedVisits(d)
    <3>1. t.idx \in OpenVisits(d) /\ t.total = d.total
      BY <1>3 DEF AttendanceInvariant, ReadingsCurrent
    <3>2. \A i, m \in OpenVisits(d) : i = m
      BY <1>1, <1>2, <1>3 DEF AttendanceInvariant, OneOpenVisit
    <3>3. d.total = ClosedVisits(d)
      BY <1>1, <1>2, <1>3 DEF AttendanceInvariant, TotalIsExact
    <3> QED
      BY <3>1, <3>2, <3>3
  <2> HIDE DEF d
  <2>3. /\ e.total = t.total \cup {t.idx}
        /\ OpenVisits(e) = OpenVisits(d) \ {t.idx}
        /\ ClosedVisits(e) = ClosedVisits(d) \cup {t.idx}
    BY <1>1, <2>1, <2>2, ClosedDocument
  <2>4. /\ \A i, m \in OpenVisits(e) : i = m
        /\ e.total = ClosedVisits(e)
    BY <2>2, <2>3
  <2> QED
    BY <2>4 DEF d
<1> QED
  BY <1>1, <1>2, <1>3

LEMMA WorkerInvariant ==
    ASSUME RoomTypeOK, AttTypeOK, AttendanceInvariant, NEW w \in Workers, Worker(w)
    PROVE  AttendanceInvariant'
<1>1. /\ work[w] \in WorkerState
      /\ work[w].todo # {} => work[w].pc = "write" /\ work[w].job.kind # "joined"
      /\ work[w].pc \in {"read", "write"} => work[w].sid \in Sessions
  BY DEF AttTypeOK, AttendanceInvariant, ReadingsOfJob, SessionFound
<1>2. ASSUME NEW pc, Goto(w, pc), UNCHANGED att, UNCHANGED overlapped,
             pc \notin {"read", "write"}, Busy(w), work[w].todo = {}
      PROVE  AttendanceInvariant'
  <2> DEFINE k == [work[w] EXCEPT !.pc = pc]
  <2>1. k.pc = pc /\ k.job = work[w].job /\ k.todo = {}
    BY <1>1, <1>2 DEF WorkerState
  <2>2. work' = [work EXCEPT ![w] = k]
    BY <1>2 DEF Goto
  <2> HIDE DEF k
  <2> QED
    BY <1>2, <2>1, <2>2, LocalStep
<1>3. ASSUME NEW j \in queue, Take(w, j) PROVE AttendanceInvariant'
  BY <1>3, TakeStep
<1>4. CASE FindSession(w)
  <2>1. CASE FindOngoing # NoSession
    <3> DEFINE k == [work[w] EXCEPT !.pc = "read", !.sid = FindOngoing]
    <3>1. /\ k.pc = "read" /\ k.sid \in Sessions /\ k.job = work[w].job
          /\ k.todo = {}
      BY <1>1, <1>4, <2>1, FindOngoingType DEF WorkerState, FindSession
    <3>2. work' = [work EXCEPT ![w] = k]
      BY <1>4, <2>1 DEF FindSession
    <3>3. Busy(w) /\ UNCHANGED att /\ UNCHANGED overlapped
      BY <1>4 DEF FindSession, Busy
    <3> HIDE DEF k
    <3> QED
      BY <3>1, <3>2, <3>3, LocalStep
  <2>2. CASE FindOngoing = NoSession
    <3>1. \E pc \in {"ack", "listRooms", "endOnly"} : Goto(w, pc)
      BY <1>1, <1>4, <2>2, WorkerStateType, JobFields DEF FindSession
    <3>2. Busy(w) /\ UNCHANGED att /\ UNCHANGED overlapped /\ work[w].todo = {}
      BY <1>1, <1>4 DEF FindSession, Busy
    <3> QED
      BY <1>2, <3>1, <3>2
  <2> QED
    BY <2>1, <2>2
<1>5. CASE ReadJoined(w)
  <2>1. Busy(w) /\ UNCHANGED att /\ UNCHANGED overlapped /\ work[w].todo = {}
    BY <1>1, <1>5 DEF ReadJoined, Busy
  <2>2. CASE OpenVisits(att[work[w].sid][work[w].job.who]) # {}
    BY <1>2, <1>5, <2>1, <2>2 DEF ReadJoined
  <2>3. CASE OpenVisits(att[work[w].sid][work[w].job.who]) = {}
    <3> DEFINE k == [work[w] EXCEPT !.pc = "write"]
    <3>1. /\ k.pc = "write" /\ k.job = work[w].job /\ k.sid = work[w].sid
          /\ k.todo = {}
      BY <1>1, <2>1 DEF WorkerState
    <3>2. work' = [work EXCEPT ![w] = k] /\ work[w].pc = "read"
      BY <1>5, <2>3 DEF ReadJoined, Goto
    <3> HIDE DEF k
    <3> QED
      BY <2>1, <2>3, <3>1, <3>2, ReadStep
  <2> QED
    BY <2>2, <2>3
<1>6. CASE WriteJoined(w)
  <2> DEFINE k == [work[w] EXCEPT !.pc = "ack"]
             s == work[w].sid
             u == work[w].job.who
             e == Pushed(att[s][u], work[w].job.n)
  <2>1. /\ work[w].job \in Jobs /\ u \in Users /\ s \in Sessions
        /\ work[w].job.n \in Nat /\ att[s][u] \in Document /\ work[w].todo = {}
    BY <1>1, <1>6, WorkerStateType, JobFields DEF WriteJoined, AttTypeOK
  <2>2. /\ k.pc = "ack" /\ k.job = work[w].job /\ k.sid = s /\ k.todo = {}
    BY <1>1, <2>1 DEF WorkerState
  <2>3. work' = [work EXCEPT ![w] = k] /\ Busy(w) /\ UNCHANGED overlapped
    BY <1>6 DEF WriteJoined, Goto, Busy
  <2>4. att' = [att EXCEPT ![s][u] = e]
    BY <1>6, <2>1 DEF WriteJoined, PushVisit
  <2>5. Touches(k.job, u)
    BY <2>2 DEF Touches
  <2>6. ASSUME u \notin overlapped
        PROVE  /\ \A i, m \in OpenVisits(e) : i = m
               /\ e.total = ClosedVisits(e)
    <3>1. OpenVisits(att[s][u]) = {}
      BY <1>6, <2>6 DEF WriteJoined, AttendanceInvariant, NothingOpenToPush
    <3>2. att[s][u].total = ClosedVisits(att[s][u])
      BY <2>1, <2>6 DEF AttendanceInvariant, TotalIsExact
    <3>3. /\ e.total = att[s][u].total
          /\ ClosedVisits(e) = ClosedVisits(att[s][u])
          /\ \E l : OpenVisits(e) = OpenVisits(att[s][u]) \cup {l}
      BY <2>1, PushedDocument
    <3> HIDE DEF e, s, u
    <3> QED
      BY <3>1, <3>2, <3>3
  <2> HIDE DEF k, e
  <2>7. /\ k.pc # "read" /\ (k.pc = "write" => k.job.kind # "joined")
        /\ k.todo \subseteq {t \in work[w].todo : t.who # u}
        /\ (k.todo # {} => k.pc = "write")
    BY <2>2
  <2>8. s = work[w].sid
    OBVIOUS
  <2> HIDE DEF s, u
  <2> QED
    BY <2>1, <2>2, <2>3, <2>4, <2>5, <2>6, <2>7, <2>8, WriteStep
<1>7. CASE ReadLeft(w)
  <2> DEFINE s == work[w].sid
             u == work[w].job.who
  <2>1. /\ Busy(w) /\ UNCHANGED att /\ UNCHANGED overlapped /\ work[w].todo = {}
        /\ u \in Users /\ s \in Sessions
    BY <1>1, <1>7, WorkerStateType, JobFields DEF ReadLeft, Busy
  <2>2. CASE OpenVisits(att[s][u]) = {}
    BY <1>2, <1>7, <2>1, <2>2 DEF ReadLeft
  <2>3. CASE OpenVisits(att[s][u]) # {}
    <3> DEFINE r == ReadDocument(s, u)
               k == [work[w] EXCEPT !.pc = "write", !.todo = {r}]
    <3>1. /\ r.who = u /\ r.idx \in OpenVisits(att[s][u])
          /\ r.total = att[s][u].total
      BY <2>1, <2>3, ReadDocumentType
    <3> HIDE DEF r
    <3>2. /\ k.pc = "write" /\ k.job = work[w].job /\ k.sid = s /\ k.todo = {r}
      BY <1>1 DEF WorkerState
    <3>3. work' = [work EXCEPT ![w] = k] /\ work[w].pc = "read"
      <4>1. work' = [work EXCEPT ![w].pc = "write", ![w].todo = {r}]
        BY <1>7, <2>3 DEF ReadLeft, r
      <4> QED
        BY <1>7, <4>1 DEF ReadLeft
    <3>4. k.job.kind # "joined" /\ Touches(k.job, r.who)
      BY <1>7, <3>1, <3>2 DEF ReadLeft, Touches
    <3>5. ASSUME NEW t \in k.todo
          PROVE  /\ Touches(k.job, t.who)
                 /\ t.idx \in OpenVisits(att[k.sid][t.who])
                 /\ t.total = att[k.sid][t.who].total
                 /\ \A x \in k.todo : x.who = t.who => x = t
      <4>1. t = r /\ \A x \in k.todo : x = t
        BY <3>2, <3>5
      <4> QED
        BY <3>1, <3>2, <3>4, <4>1
    <3>6. UNCHANGED att /\ UNCHANGED overlapped
      BY <2>1
    <3> HIDE DEF k
    <3> QED
      BY <3>2, <3>3, <3>4, <3>5, <3>6, ReadStep
  <2> QED
    BY <2>2, <2>3
<1>8. CASE WriteLeft(w)
  <2>1. PICK t \in work[w].todo : CloseVisit(work[w].sid, t)
    BY <1>8 DEF WriteLeft
  <2> DEFINE s == work[w].sid
             u == t.who
             e == Closed(att[s][u], t.idx, t.total \cup {t.idx})
             k == [work[w] EXCEPT !.pc = "listRooms", !.todo = {}]
  <2>2. /\ u \in Users /\ s \in Sessions
        /\ u \notin overlapped => /\ \A i, m \in OpenVisits(e) : i = m
                                  /\ e.total = ClosedVisits(e)
    BY ClosingKeepsDocument
  <2>3. att' = [att EXCEPT ![s][u] = e]
    BY <2>1, <2>2 DEF CloseVisit
  <2> HIDE DEF e
  <2>4. /\ k.pc = "listRooms" /\ k.job = work[w].job /\ k.sid = s /\ k.todo = {}
    BY <1>1 DEF WorkerState
  <2>5. work' = [work EXCEPT ![w] = k] /\ Busy(w) /\ UNCHANGED overlapped
    BY <1>8 DEF WriteLeft, Busy
  <2>6. Touches(k.job, u)
    BY <2>4 DEF AttendanceInvariant, ReadingsOfJob
  <2> HIDE DEF k
  <2> QED
    BY <2>2, <2>3, <2>4, <2>5, <2>6, WriteStep
<1>9. CASE ReadCloseAll(w)
  <2> DEFINE s == work[w].sid
             found == {u \in Users : OpenVisits(att[s][u]) # {}}
             todo == {ReadDocument(s, u) : u \in found}
             pc == IF found = {} THEN "endOnly" ELSE "write"
             k == [work[w] EXCEPT !.pc = pc, !.todo = todo]
  <2>1. /\ Busy(w) /\ UNCHANGED att /\ UNCHANGED overlapped
        /\ s \in Sessions /\ work[w].job.kind = "closeAll" /\ work[w].pc = "read"
    BY <1>1, <1>9 DEF ReadCloseAll, Busy
  <2>2. work' = [work EXCEPT ![w] = k]
    BY <1>9 DEF ReadCloseAll
  <2>3. \A t \in todo : /\ t.who \in found /\ t = ReadDocument(s, t.who)
                        /\ t.idx \in OpenVisits(att[s][t.who])
                        /\ t.total = att[s][t.who].total
    BY <2>1, ReadDocumentType
  <2>4. found = {} => todo = {}
    OBVIOUS
  <2> HIDE DEF todo, found
  <2>5. /\ k.pc = pc /\ k.job = work[w].job /\ k.sid = s /\ k.todo = todo
    BY <1>1 DEF WorkerState
  <2> HIDE DEF k
  <2>6. CASE found = {}
    BY <2>1, <2>2, <2>4, <2>5, <2>6, LocalStep
  <2>7. CASE found # {}
    <3>1. k.pc = "write" /\ k.job.kind # "joined"
      BY <2>1, <2>5, <2>7
    <3>2. \A t \in k.todo : /\ Touches(k.job, t.who)
                            /\ t.idx \in OpenVisits(att[k.sid][t.who])
                            /\ t.total = att[k.sid][t.who].total
      BY <2>1, <2>3, <2>5 DEF Touches
    <3>3. \A t, r \in k.todo : r.who = t.who => r = t
      BY <2>3, <2>5
    <3> QED
      BY <2>1, <2>2, <2>5, <3>1, <3>2, <3>3, ReadStep
  <2> QED
    BY <2>6, <2>7
<1>10. CASE WriteCloseAll(w)
  <2>1. PICK t \in work[w].todo :
           /\ CloseVisit(work[w].sid, t)
           /\ work' = [work EXCEPT
                         ![w].todo = @ \ {t},
                         ![w].pc = IF work[w].todo = {t} THEN "endOnly" ELSE @]
    BY <1>10 DEF WriteCloseAll
  <2> DEFINE s == work[w].sid
             u == t.who
             e == Closed(att[s][u], t.idx, t.total \cup {t.idx})
             todo == work[w].todo \ {t}
             pc == IF work[w].todo = {t} THEN "endOnly" ELSE work[w].pc
             k == [work[w] EXCEPT !.todo = todo, !.pc = pc]
  <2>2. /\ u \in Users /\ s \in Sessions
        /\ u \notin overlapped => /\ \A i, m \in OpenVisits(e) : i = m
                                  /\ e.total = ClosedVisits(e)
    BY ClosingKeepsDocument
  <2>3. att' = [att EXCEPT ![s][u] = e]
    BY <2>1, <2>2 DEF CloseVisit
  <2> HIDE DEF e
  <2>4. /\ work[w].job.kind = "closeAll" /\ work[w].pc = "write"
        /\ Busy(w) /\ UNCHANGED overlapped
    BY <1>10 DEF WriteCloseAll, Busy
  <2>5. work' = [work EXCEPT ![w] = k]
    BY <2>1
  <2>6. /\ todo \subseteq {r \in work[w].todo : r.who # u}
        /\ todo # {} => pc = "write"
        /\ pc # "read"
    BY <2>4 DEF AttendanceInvariant, ReadingsOfJob
  <2>7. /\ k.pc = pc /\ k.job = work[w].job /\ k.sid = s /\ k.todo = todo
    BY <1>1 DEF WorkerState
  <2>8. Touches(k.job, u)
    BY <2>7 DEF AttendanceInvariant, ReadingsOfJob
  <2> HIDE DEF k, todo, pc
  <2> QED
    BY <2>2, <2>3, <2>4, <2>5, <2>6, <2>7, <2>8, WriteStep
<1>11. CASE JobListRooms(w) \/ JobListParticipants(w) \/ JobEndMeeting(w) \/ JobDeleteRoom(w)
  <2>1. \E pc \in {"ack", "listParticipants", "endOnly", "endThenDelete", "deleteRoom"} :
           Goto(w, pc)
    BY <1>11 DEF JobListRooms, JobListParticipants, JobEndMeeting, JobDeleteRoom
  <2>2. Busy(w) /\ UNCHANGED att /\ UNCHANGED overlapped /\ work[w].todo = {}
    BY <1>1, <1>11
       DEF JobListRooms, JobListParticipants, JobEndMeeting, JobDeleteRoom, Busy
  <2> QED
    BY <1>2, <2>1, <2>2
<1>12. CASE Ack(w) \/ Fail(w)
  <2>1. work' = [work EXCEPT ![w] = IdleWorker] /\ UNCHANGED att /\ UNCHANGED overlapped
    BY <1>12 DEF Ack, Fail
  <2>2. IdleWorker.pc = "idle" /\ IdleWorker.todo = {}
    BY DEF IdleWorker
  <2> QED
    BY <2>1, <2>2, LocalStep
<1> QED
  BY <1>3, <1>4, <1>5, <1>6, <1>7, <1>8, <1>9, <1>10, <1>11, <1>12
     DEF Worker, JobStep

LEMMA NoAttendanceInvariant ==
    ASSUME NoAttendance
    PROVE  AttTypeOK /\ AttendanceInvariant
<1>1. EmptyDocument \in Document /\ IdleWorker \in WorkerState
  <2>1. <<>> \in Seq(Visit)
    OBVIOUS
  <2> QED
    BY <2>1, NewWorkerType, DocumentType DEF EmptyDocument
<1>2. OpenVisits(EmptyDocument) = {} /\ ClosedVisits(EmptyDocument) = {}
  BY DEF OpenVisits, ClosedVisits, Indices, EmptyDocument
<1>3. EmptyDocument.total = {}
  BY DEF EmptyDocument
<1>4. AttTypeOK
  BY <1>1 DEF NoAttendance, AttTypeOK
<1>5. OneOpenVisit /\ TotalIsExact
  BY <1>2, <1>3 DEF NoAttendance, OneOpenVisit, TotalIsExact
<1>6. \A w \in Workers : work[w].pc = "idle" /\ work[w].todo = {}
  BY DEF NoAttendance, IdleWorker
<1>7. JobsApart /\ SessionFound /\ NothingOpenToPush /\ ReadingsOfJob /\ ReadingsCurrent
  BY <1>6
     DEF JobsApart, SessionFound, NothingOpenToPush, ReadingsOfJob, ReadingsCurrent, Busy
<1> QED
  BY <1>4, <1>5, <1>7 DEF AttendanceInvariant

LEMMA AttendanceUntouched ==
    ASSUME UNCHANGED attVars
    PROVE  /\ AttTypeOK => AttTypeOK'
           /\ AttendanceInvariant => AttendanceInvariant'
<1>1. att' = att /\ work' = work /\ overlapped' = overlapped /\ disordered' = disordered
  BY DEF attVars
<1>2. AttTypeOK => AttTypeOK'
  BY <1>1 DEF AttTypeOK
<1>3. /\ OneOpenVisit => OneOpenVisit'
      /\ TotalIsExact => TotalIsExact'
  BY <1>1 DEF OneOpenVisit, TotalIsExact
<1>4. /\ JobsApart => JobsApart'
      /\ SessionFound => SessionFound'
      /\ ReadingsOfJob => ReadingsOfJob'
  BY <1>1 DEF JobsApart, SessionFound, ReadingsOfJob, Busy, Touches
<1>5. /\ NothingOpenToPush => NothingOpenToPush'
      /\ ReadingsCurrent => ReadingsCurrent'
  BY <1>1 DEF NothingOpenToPush, ReadingsCurrent
<1> QED
  BY <1>2, <1>3, <1>4, <1>5 DEF AttendanceInvariant

LEMMA StartedMeetingType ==
    ASSUME StartedMeeting
    PROVE  RoomTypeOK
BY MeetingRoomAssumption DEF StartedMeeting, RoomTypeOK, Sessions, SessionStatus

(***************************************************************************)
(* The theorems.                                                           *)
(***************************************************************************)

(* Type correctness and the inductive invariant, for every number of       *)
(* users, workers, sessions, connections and attempts.                     *)
THEOREM AttendanceIsInvariant == AttendanceSpec => [](AttendanceTypeOK /\ AttendanceInvariant)
<1> DEFINE Inv == AttendanceTypeOK /\ AttendanceInvariant
<1>1. AttendanceInit => Inv
  BY NoAttendanceInvariant, StartedMeetingType DEF AttendanceInit, AttendanceTypeOK
<1>2. Inv /\ [AttendanceNext]_attendanceVars => Inv'
  <2> SUFFICES ASSUME RoomTypeOK, AttTypeOK, AttendanceInvariant,
                      [AttendanceNext]_attendanceVars
               PROVE  RoomTypeOK' /\ AttTypeOK' /\ AttendanceInvariant'
    BY DEF AttendanceTypeOK
  <2>1. CASE LiveKit /\ UNCHANGED attVars
    BY <2>1, LiveKitType, AttendanceUntouched
  <2>2. ASSUME NEW w \in Workers, Worker(w)
        PROVE  RoomTypeOK' /\ AttTypeOK' /\ AttendanceInvariant'
    <3>1. SessionFound
      BY DEF AttendanceInvariant
    <3> QED
      BY <2>2, <3>1, WorkerType, WorkerInvariant
  <2>3. CASE UNCHANGED attendanceVars
    <3>1. UNCHANGED roomVars /\ UNCHANGED attVars
      BY <2>3 DEF attendanceVars
    <3>2. RoomTypeOK'
      BY <3>1 DEF roomVars, RoomTypeOK
    <3> QED
      BY <3>1, <3>2, AttendanceUntouched
  <2> QED
    BY <2>1, <2>2, <2>3 DEF AttendanceNext, Quiet
<1> QED
  BY <1>1, <1>2, PTL DEF AttendanceSpec

(* The variables keep their types. *)
THEOREM AttendanceTypeCorrect == AttendanceSpec => []AttendanceTypeOK
BY AttendanceIsInvariant, PTL

(* However many workers, retries and faults: a user whose jobs never       *)
(* overlapped has at most one open visit in any session.                   *)
THEOREM OneOpenVisitAlways == AttendanceSpec => []OneOpenVisit
<1>1. AttendanceInvariant => OneOpenVisit
  BY DEF AttendanceInvariant
<1> QED
  BY <1>1, AttendanceIsInvariant, PTL

(* ... and the stored total of such a user adds up exactly the visits that *)
(* are closed, each once: no retry counts a visit twice.                   *)
THEOREM TotalIsExactAlways == AttendanceSpec => []TotalIsExact
<1>1. AttendanceInvariant => TotalIsExact
  BY DEF AttendanceInvariant
<1> QED
  BY <1>1, AttendanceIsInvariant, PTL

(***************************************************************************)
(* Attendance and presence.                                                *)
(***************************************************************************)

(* A room_finished job waits, or runs and has not ended the session yet.   *)
ClosePending ==
    \/ \E j \in queue : j.kind = "closeAll"
    \/ \E w \in Workers : /\ work[w].job.kind = "closeAll"
                          /\ work[w].pc \in {"findSession", "read", "write", "endOnly"}

LEMMA EndedIsEmpty ==
    ASSUME EndMeetingByCode
    PROVE  Ongoing' = {}
BY DEF EndMeetingByCode, Ongoing

LEMMA FoundIsOngoing == FindOngoing # NoSession => FindOngoing \in Ongoing
BY DEF FindOngoing

(* A room_finished job stays until the sessions have ended, or it has used *)
(* up its attempts.                                                        *)
LEMMA CloseStaysPending ==
    ASSUME RoomTypeOK, AttTypeOK, NEW w \in Workers, Worker(w), ClosePending
    PROVE  \/ ClosePending'
           \/ Ongoing' = {}
           \/ disordered' = Users
<1>1. work \in [Workers -> WorkerState] /\ queue \subseteq Jobs
  BY DEF AttTypeOK, RoomTypeOK
<1>2. ASSUME NEW v \in Workers, work'[v] = work[v],
             work[v].job.kind = "closeAll",
             work[v].pc \in {"findSession", "read", "write", "endOnly"}
      PROVE  ClosePending'
  BY <1>2 DEF ClosePending
<1>3. ASSUME NEW j \in queue', j.kind = "closeAll"
      PROVE  ClosePending'
  BY <1>3 DEF ClosePending
<1>4. CASE \E j \in queue : Take(w, j)
  <2>1. PICK j \in queue : Take(w, j)
    BY <1>4
  <2>2. work'[w] = [IdleWorker EXCEPT !.pc = "findSession", !.job = j]
    BY <1>1, <2>1 DEF Take
  <2>3. work'[w].pc = "findSession" /\ work'[w].job = j
    BY <2>2 DEF IdleWorker
  <2>4. j.kind = "closeAll" => ClosePending'
    BY <2>3 DEF ClosePending
  <2>5. ASSUME NEW i \in queue, i.kind = "closeAll"
        PROVE  ClosePending'
    BY <1>3, <2>1, <2>4, <2>5 DEF Take
  <2>6. ASSUME NEW v \in Workers, work[v].job.kind = "closeAll",
               work[v].pc \in {"findSession", "read", "write", "endOnly"}
        PROVE  ClosePending'
    BY <1>1, <1>2, <2>1, <2>6 DEF Take
  <2> QED
    BY <2>5, <2>6 DEF ClosePending
<1>5. CASE JobStep(w)
  <2>1. ASSUME NEW i \in queue, i.kind = "closeAll"
        PROVE  ClosePending'
    <3>1. queue \subseteq queue'
      BY <1>5 DEF JobStep, FindSession, ReadJoined, WriteJoined, ReadLeft, WriteLeft,
                  ReadCloseAll, WriteCloseAll, JobListRooms, JobListParticipants,
                  JobEndMeeting, JobDeleteRoom, ForceDeleteLiveKitRoom, FinishRoom,
                  Ack, roomVars
    <3> QED
      BY <1>3, <2>1, <3>1
  <2>2. ASSUME NEW v \in Workers, v # w, work[v].job.kind = "closeAll",
               work[v].pc \in {"findSession", "read", "write", "endOnly"}
        PROVE  ClosePending'
    <3>1. work'[v] = work[v]
      BY <1>1, <1>5, <2>2
         DEF JobStep, FindSession, ReadJoined, WriteJoined, ReadLeft, WriteLeft,
             ReadCloseAll, WriteCloseAll, JobListRooms, JobListParticipants,
             JobEndMeeting, JobDeleteRoom, Ack, Goto
    <3> QED
      BY <1>2, <2>2, <3>1
  <2>3. ASSUME work[w].job.kind = "closeAll",
               work[w].pc \in {"findSession", "read", "write", "endOnly"}
        PROVE  ClosePending' \/ Ongoing' = {}
    <3>1. ASSUME work'[w].job = work[w].job,
                 work'[w].pc \in {"findSession", "read", "write", "endOnly"}
          PROVE  ClosePending'
      BY <2>3, <3>1 DEF ClosePending
    <3>2. work[w] \in WorkerState
      BY <1>1
    <3>3. CASE FindSession(w)
      <4>1. work'[w].job = work[w].job /\ work'[w].pc \in {"read", "endOnly"}
        BY <1>1, <2>3, <3>2, <3>3 DEF FindSession, Goto, WorkerState
      <4> QED
        BY <3>1, <4>1
    <3>4. CASE ReadCloseAll(w)
      <4>1. work'[w].job = work[w].job /\ work'[w].pc \in {"write", "endOnly"}
        BY <1>1, <3>2, <3>4 DEF ReadCloseAll, WorkerState
      <4> QED
        BY <3>1, <4>1
    <3>5. CASE WriteCloseAll(w)
      <4>1. PICK t \in work[w].todo :
               work' = [work EXCEPT
                          ![w].todo = @ \ {t},
                          ![w].pc = IF work[w].todo = {t} THEN "endOnly" ELSE @]
        BY <3>5 DEF WriteCloseAll
      <4>2. work'[w].job = work[w].job /\ work'[w].pc \in {"write", "endOnly"}
        BY <1>1, <3>2, <3>5, <4>1 DEF WriteCloseAll, WorkerState
      <4> QED
        BY <3>1, <4>2
    <3>6. CASE JobEndMeeting(w)
      BY <3>6, EndedIsEmpty DEF JobEndMeeting
    <3> QED
      BY <1>5, <2>3, <3>3, <3>4, <3>5, <3>6
         DEF JobStep, ReadJoined, WriteJoined, ReadLeft, WriteLeft, JobListRooms,
             JobListParticipants, JobDeleteRoom, Ack
  <2> QED
    BY <2>1, <2>2, <2>3 DEF ClosePending
<1>6. CASE Fail(w)
  <2>1. work' = [work EXCEPT ![w] = IdleWorker]
    BY <1>6 DEF Fail
  <2>2. queue \subseteq queue'
    BY <1>6 DEF Fail
  <2>3. ASSUME NEW i \in queue, i.kind = "closeAll"
        PROVE  ClosePending'
    BY <1>3, <2>2, <2>3
  <2>4. ASSUME NEW v \in Workers, v # w, work[v].job.kind = "closeAll",
               work[v].pc \in {"findSession", "read", "write", "endOnly"}
        PROVE  ClosePending'
    BY <1>1, <1>2, <2>1, <2>4
  <2>5. ASSUME work[w].job.kind = "closeAll"
        PROVE  ClosePending' \/ disordered' = Users
    <3> DEFINE j == work[w].job
    <3>1. j \in Jobs
      BY <1>1 DEF WorkerState
    <3>2. CASE queue' = queue \cup {[j EXCEPT !.tries = @ + 1]}
      <4>1. [j EXCEPT !.tries = @ + 1].kind = "closeAll"
        BY <2>5, <3>1 DEF Jobs
      <4> QED
        BY <1>3, <3>2, <4>1
    <3>3. CASE disordered' = disordered \cup {u \in Users : Touches(j, u)}
      BY <2>5, <3>3 DEF Touches, AttTypeOK
    <3> QED
      BY <1>6, <3>2, <3>3 DEF Fail
  <2> QED
    BY <2>3, <2>4, <2>5 DEF ClosePending
<1> QED
  BY <1>4, <1>5, <1>6 DEF Worker

(* Nothing but LiveKit's end of the room takes the room down; it is        *)
(* reported by a room_finished job.                                        *)
LEMMA FinishIsReported ==
    ASSUME FinishRoom
    PROVE  ClosePending'
<1>1. CloseAllJob(room.gen) \in queue' /\ CloseAllJob(room.gen).kind = "closeAll"
  BY DEF FinishRoom, CloseAllJob
<1> QED
  BY <1>1 DEF ClosePending

LEMMA QueueKeepsPending ==
    ASSUME ClosePending, queue \subseteq queue', UNCHANGED work
    PROVE  ClosePending'
BY DEF ClosePending

(* The meeting goes on, its room has never been closed, and the jobs of u  *)
(* were processed one at a time, in order and to their end.                *)
Live(u) == 1 \in Ongoing /\ ~ClosePending /\ u \notin overlapped \cup disordered

Waiting(u) == {j \in queue : j.who = u}
Serving(w, u) == Busy(w) /\ work[w].job.who = u
Pending(u) == Waiting(u) \cup {work[w].job : w \in {x \in Workers : Serving(x, u)}}

Shown(u) == OpenVisits(att[1][u]) # {}

(* The jobs tell of connections that exist; a user who is present has not  *)
(* left the latest one.                                                    *)
JobsWithin(u) ==
    /\ u \in room.humans => conn[u] > 0
    /\ \A j \in Pending(u) :
          /\ j.n \in 1..conn[u]
          /\ j.n = conn[u] /\ u \in room.humans => j.kind = "joined"

(* The waiting jobs of u are ordered, and later than the one that runs.    *)
JobsInOrder(u) ==
    /\ \A i, j \in Waiting(u) : i = j \/ Earlier(i, j) \/ Earlier(j, i)
    /\ \A w \in Workers : Serving(w, u) =>
          \A j \in Waiting(u) : Earlier(work[w].job, j)

(* The job that tells what u did last is pending as long as any job of u.  *)
LastPending(u) ==
    Pending(u) # {} =>
        \E j \in Pending(u) : /\ j.n = conn[u]
                              /\ j.kind = "joined" <=> u \in room.humans

(* With no job pending the document shows where u is; a job that has done  *)
(* its part on the document shows what it reports.                         *)
Recorded(u) ==
    /\ Pending(u) = {} => (Shown(u) <=> u \in room.humans)
    /\ \A w \in Workers :
          (Serving(w, u) /\ work[w].pc \notin {"findSession", "read", "write"}) =>
              (Shown(u) <=> work[w].job.kind = "joined")

FirstSession ==
    /\ Ongoing \subseteq {1}
    /\ \A w \in Workers : work[w].pc \in {"read", "write"} => work[w].sid = 1

PresenceRecorded ==
    \A u \in Users : Live(u) =>
        room.up /\ JobsWithin(u) /\ JobsInOrder(u) /\ LastPending(u) /\ Recorded(u)

LEMMA JobOfUser ==
    ASSUME NEW j \in Jobs, NEW u \in Users, j.who = u
    PROVE  j.kind \in {"joined", "left"}
<1>1. j.kind = "closeAll" => j.who = NoUser
  BY DEF Jobs
<1> QED
  BY <1>1, JobFields, MeetingRoomAssumption

LEMMA UserJobFields ==
    ASSUME NEW u \in Users, NEW n
    PROVE  /\ JoinedJob(u, n).who = u /\ JoinedJob(u, n).n = n
           /\ JoinedJob(u, n).kind = "joined"
           /\ LeftJob(u, n).who = u /\ LeftJob(u, n).n = n
           /\ LeftJob(u, n).kind = "left"
BY DEF JoinedJob, LeftJob

LEMMA WorkerFields ==
    ASSUME RoomTypeOK, AttTypeOK
    PROVE  /\ \A w \in Workers : work[w] \in WorkerState /\ work[w].job \in Jobs
           /\ queue \subseteq Jobs
           /\ conn \in [Users -> Nat]
BY WorkerStateType DEF AttTypeOK, RoomTypeOK

(* Without a creation of sessions, a step leaves them alone or ends them.  *)
LEMMA LiveKitKeepsSessions ==
    ASSUME LiveKit
    PROVE  UNCHANGED sess
BY DEF LiveKit, Connect, Disconnect, TokenExpires, EmptyTimeout, OpenBreakout, CloseBreakout

LEMMA WorkerOnlyEnds ==
    ASSUME NEW w \in Workers, Worker(w)
    PROVE  /\ UNCHANGED sess \/ EndMeetingByCode
           /\ disordered \subseteq disordered' /\ overlapped \subseteq overlapped'
           /\ UNCHANGED room \/ FinishRoom
BY DEF Worker, Take, JobStep, FindSession, ReadJoined, WriteJoined, ReadLeft,
       WriteLeft, ReadCloseAll, WriteCloseAll, JobListRooms, JobListParticipants,
       JobEndMeeting, JobDeleteRoom, ForceDeleteLiveKitRoom, Ack, Fail, roomVars

LEMMA LiveKitRoom ==
    ASSUME RoomTypeOK, LiveKit
    PROVE  queue \subseteq queue' /\ (room.up => room'.up \/ FinishRoom)
<1>1. CASE EmptyTimeout
  BY <1>1 DEF EmptyTimeout, FinishRoom
<1>2. CASE OpenBreakout \/ CloseBreakout
  BY <1>2 DEF OpenBreakout, CloseBreakout, RoomTypeOK
<1>3. ASSUME NEW u \in Users, Connect(u)
      PROVE  queue \subseteq queue' /\ (room.up => room'.up)
  BY <1>3 DEF Connect, RoomTypeOK, NewRoom
<1>4. ASSUME NEW u \in Users, Disconnect(u) \/ TokenExpires(u)
      PROVE  queue \subseteq queue' /\ (room.up => room'.up)
  BY <1>4 DEF Disconnect, TokenExpires, RoomTypeOK
<1> QED
  BY <1>1, <1>2, <1>3, <1>4 DEF LiveKit

(* A meeting that is live was so all the time. *)
LEMMA LiveBefore ==
    ASSUME RoomTypeOK, AttTypeOK, NEW u \in Users, Live(u)',
           \/ LiveKit /\ UNCHANGED attVars
           \/ \E w \in Workers : Worker(w)
    PROVE  Live(u)
<1>1. CASE LiveKit /\ UNCHANGED attVars
  <2>1. UNCHANGED <<work, overlapped, disordered, sess>>
    BY <1>1, LiveKitKeepsSessions DEF attVars
  <2>2. ~ClosePending
    BY <1>1, <2>1, LiveKitRoom, QueueKeepsPending DEF Live
  <2> QED
    BY <2>1, <2>2 DEF Live, Ongoing
<1>2. ASSUME NEW w \in Workers, Worker(w)
      PROVE  Live(u)
  <2>1. 1 \in Ongoing
    BY <1>2, WorkerOnlyEnds, EndedIsEmpty DEF Live, Ongoing
  <2>2. u \notin overlapped \cup disordered
    BY <1>2, WorkerOnlyEnds DEF Live
  <2>3. ~ClosePending
    BY <1>2, CloseStaysPending DEF Live
  <2> QED
    BY <2>1, <2>2, <2>3 DEF Live
<1> QED
  BY <1>1, <1>2

(***************************************************************************)
(* The jobs of one user.                                                   *)
(***************************************************************************)
Follows(u) == JobsWithin(u) /\ JobsInOrder(u) /\ LastPending(u)

LEMMA OneServer ==
    ASSUME JobsApart, NEW u \in Users, u \notin overlapped,
           NEW v \in Workers, NEW w \in Workers, Serving(v, u), Serving(w, u)
    PROVE  v = w
BY DEF JobsApart, Serving, Touches

LEMMA SameJobs ==
    ASSUME NEW u \in Users, Waiting(u)' = Waiting(u),
           \A w \in Workers : /\ Serving(w, u)' <=> Serving(w, u)
                              /\ Serving(w, u) => work'[w].job = work[w].job
    PROVE  Pending(u)' = Pending(u)
BY DEF Pending

LEMMA SameFollows ==
    ASSUME NEW u \in Users, Follows(u), Waiting(u)' = Waiting(u),
           \A w \in Workers : /\ Serving(w, u)' <=> Serving(w, u)
                              /\ Serving(w, u) => work'[w].job = work[w].job,
           conn'[u] = conn[u], u \in room'.humans <=> u \in room.humans
    PROVE  Follows(u)' /\ Pending(u)' = Pending(u)
<1>1. Pending(u)' = Pending(u)
  BY SameJobs
<1>2. JobsWithin(u)' /\ LastPending(u)'
  BY <1>1 DEF Follows, JobsWithin, LastPending
<1>3. JobsInOrder(u)'
  BY DEF Follows, JobsInOrder
<1> QED
  BY <1>1, <1>2, <1>3 DEF Follows

LEMMA WorkersUntouched ==
    ASSUME UNCHANGED work, NEW u
    PROVE  \A w \in Workers : /\ Serving(w, u)' <=> Serving(w, u)
                              /\ Serving(w, u) => work'[w].job = work[w].job
BY DEF Serving, Busy

(* Jobs of u join the queue while all pending ones are earlier.            *)
LEMMA LaterJobsWait ==
    ASSUME NEW u \in Users, JobsInOrder(u), NEW K, \A k \in K : k.who = u,
           \A k \in K : \A j \in Pending(u) : Earlier(j, k),
           \A k, l \in K : k = l \/ Earlier(k, l) \/ Earlier(l, k),
           UNCHANGED work, Waiting(u)' = Waiting(u) \cup K
    PROVE  JobsInOrder(u)' /\ Pending(u)' = Pending(u) \cup K
<1>1. \A w \in Workers : /\ Serving(w, u)' <=> Serving(w, u)
                         /\ Serving(w, u) => work'[w].job = work[w].job
  BY WorkersUntouched
<1>2. Pending(u)' = Pending(u) \cup K
  BY <1>1 DEF Pending
<1>3. ASSUME NEW i \in Waiting(u)', NEW j \in Waiting(u)'
      PROVE  i = j \/ Earlier(i, j) \/ Earlier(j, i)
  <2>1. CASE i \in Waiting(u) /\ j \in Waiting(u)
    BY <2>1 DEF JobsInOrder
  <2>2. CASE i \in Waiting(u) /\ j \in K
    BY <2>2 DEF Pending
  <2>3. CASE i \in K /\ j \in Waiting(u)
    BY <2>3 DEF Pending
  <2>4. CASE i \in K /\ j \in K
    BY <2>4
  <2> QED
    BY <2>1, <2>2, <2>3, <2>4
<1>4. ASSUME NEW w \in Workers, Serving(w, u)', NEW j \in Waiting(u)'
      PROVE  Earlier(work'[w].job, j)
  <2>1. Serving(w, u) /\ work'[w].job = work[w].job /\ work[w].job \in Pending(u)
    BY <1>1, <1>4 DEF Pending
  <2> QED
    BY <2>1 DEF JobsInOrder
<1> QED
  BY <1>2, <1>3, <1>4 DEF JobsInOrder

(* Pending jobs are earlier than the leaving of a user who is present, and *)
(* than a new connection.                                                  *)
LEMMA PendingEarlier ==
    ASSUME RoomTypeOK, AttTypeOK, NEW u \in Users, JobsWithin(u)
    PROVE  /\ u \in room.humans => \A j \in Pending(u) : Earlier(j, LeftJob(u, conn[u]))
           /\ \A j \in Pending(u) : Earlier(j, JoinedJob(u, conn[u] + 1))
           /\ Earlier(LeftJob(u, conn[u]), JoinedJob(u, conn[u] + 1))
<1>1. conn[u] \in Nat
  BY DEF RoomTypeOK
<1>2. ASSUME u \in room.humans, NEW j \in Pending(u)
      PROVE  Earlier(j, LeftJob(u, conn[u]))
  <2>1. j.n \in 1..conn[u] /\ (j.n = conn[u] => j.kind = "joined")
    BY <1>2 DEF JobsWithin
  <2>2. j.n < conn[u] \/ j.n = conn[u]
    BY <1>1, <2>1
  <2> QED
    BY <2>1, <2>2, UserJobFields DEF Earlier
<1>3. ASSUME NEW j \in Pending(u)
      PROVE  Earlier(j, JoinedJob(u, conn[u] + 1))
  <2>1. j.n \in 1..conn[u]
    BY DEF JobsWithin
  <2>2. j.n < conn[u] + 1
    BY <1>1, <2>1
  <2> QED
    BY <2>2, UserJobFields DEF Earlier
<1>4. Earlier(LeftJob(u, conn[u]), JoinedJob(u, conn[u] + 1))
  <2>1. conn[u] < conn[u] + 1
    BY <1>1
  <2> QED
    BY <2>1, UserJobFields DEF Earlier
<1> QED
  BY <1>2, <1>3, <1>4

LEMMA ConnectFollows ==
    ASSUME RoomTypeOK, AttTypeOK, NEW u \in Users, Follows(u), room.up,
           Connect(u), UNCHANGED work
    PROVE  Follows(u)' /\ Pending(u)' # {}
<1> DEFINE c == conn[u]
           L == {LeftJob(v, conn[v]) : v \in room.humans \cap {u}}
           K == {JoinedJob(u, c + 1)} \cup L
<1>1. c \in Nat /\ JobsWithin(u) /\ JobsInOrder(u)
  BY DEF RoomTypeOK, Follows
<1>2. /\ conn'[u] = c + 1 /\ u \in room'.humans
      /\ queue' = queue \cup K
  BY DEF Connect, RoomTypeOK
<1>3. L = IF u \in room.humans THEN {LeftJob(u, c)} ELSE {}
  OBVIOUS
<1> HIDE DEF L
<1>4. \A k \in K : k = JoinedJob(u, c + 1) \/ (k = LeftJob(u, c) /\ u \in room.humans)
  BY <1>3
<1>5. \A k \in K : k.who = u
  BY <1>4, UserJobFields
<1>6. \A k \in K : \A j \in Pending(u) : Earlier(j, k)
  BY <1>1, <1>4, PendingEarlier
<1>7. \A k, l \in K : k = l \/ Earlier(k, l) \/ Earlier(l, k)
  BY <1>1, <1>4, PendingEarlier
<1>8. JoinedJob(u, c + 1) \in K
  OBVIOUS
<1> HIDE DEF K
<1>9. Waiting(u)' = Waiting(u) \cup K
  BY <1>2, <1>5 DEF Waiting
<1>10. JobsInOrder(u)' /\ Pending(u)' = Pending(u) \cup K
  BY <1>1, <1>5, <1>6, <1>7, <1>9, LaterJobsWait
<1>11. JobsWithin(u)'
  <2>1. conn'[u] > 0
    BY <1>1, <1>2
  <2>2. ASSUME NEW j \in Pending(u)
        PROVE  j.n \in 1..(c + 1) /\ j.n # c + 1
    <3>1. j.n \in 1..c
      BY <2>2, <1>1 DEF JobsWithin
    <3> QED
      BY <1>1, <3>1
  <2>3. JoinedJob(u, c + 1).n \in 1..(c + 1) /\ JoinedJob(u, c + 1).kind = "joined"
    BY <1>1, UserJobFields
  <2>4. u \in room.humans => LeftJob(u, c).n \in 1..(c + 1) /\ LeftJob(u, c).n # c + 1
    <3>1. u \in room.humans => c \in 1..(c + 1)
      BY <1>1 DEF JobsWithin
    <3> QED
      BY <1>1, <3>1, UserJobFields
  <2> QED
    BY <1>2, <1>4, <1>10, <2>1, <2>2, <2>3, <2>4 DEF JobsWithin
<1>12. LastPending(u)'
  BY <1>2, <1>8, <1>10, UserJobFields DEF LastPending
<1> QED
  BY <1>8, <1>10, <1>11, <1>12 DEF Follows

LEMMA DisconnectFollows ==
    ASSUME RoomTypeOK, AttTypeOK, NEW u \in Users, Follows(u),
           Disconnect(u), UNCHANGED work
    PROVE  Follows(u)' /\ Pending(u)' # {}
<1> DEFINE c == conn[u]
           K == {LeftJob(u, c)}
<1>1. /\ c \in Nat /\ JobsWithin(u) /\ JobsInOrder(u)
      /\ u \in room.humans
  BY DEF RoomTypeOK, Follows, Disconnect
<1>2. /\ conn'[u] = c /\ u \notin room'.humans
      /\ queue' = queue \cup K
  BY DEF Disconnect, RoomTypeOK
<1>3. \A k \in K : k.who = u
  BY UserJobFields
<1>4. \A k \in K : \A j \in Pending(u) : Earlier(j, k)
  BY <1>1, PendingEarlier
<1>5. \A k, l \in K : k = l \/ Earlier(k, l) \/ Earlier(l, k)
  OBVIOUS
<1>6. LeftJob(u, c) \in K /\ \A k \in K : k = LeftJob(u, c)
  OBVIOUS
<1> HIDE DEF K
<1>7. Waiting(u)' = Waiting(u) \cup K
  BY <1>2, <1>3 DEF Waiting
<1>8. JobsInOrder(u)' /\ Pending(u)' = Pending(u) \cup K
  BY <1>1, <1>3, <1>4, <1>5, <1>7, LaterJobsWait
<1>9. JobsWithin(u)'
  <2>1. \A j \in Pending(u) : j.n \in 1..c
    BY <1>1 DEF JobsWithin
  <2>2. LeftJob(u, c).n \in 1..c
    <3>1. c \in 1..c
      BY <1>1 DEF JobsWithin
    <3> QED
      BY <3>1, UserJobFields
  <2> QED
    BY <1>2, <1>6, <1>8, <2>1, <2>2 DEF JobsWithin
<1>10. LastPending(u)'
  BY <1>2, <1>6, <1>8, UserJobFields DEF LastPending
<1> QED
  BY <1>6, <1>8, <1>9, <1>10 DEF Follows

(* Steps of LiveKit and of the participants while the meeting is live.     *)
LEMMA LiveKitFollows ==
    ASSUME RoomTypeOK, AttTypeOK, NEW u \in Users, Follows(u), Live(u)', room.up,
           LiveKit, UNCHANGED attVars
    PROVE  /\ room'.up /\ Follows(u)'
           /\ \/ Pending(u)' # {}
              \/ Pending(u)' = Pending(u) /\ (u \in room'.humans <=> u \in room.humans)
<1>1. UNCHANGED work
  BY DEF attVars
<1>2. room'.up /\ ~FinishRoom
  BY LiveKitRoom, FinishIsReported DEF Live
<1>3. ASSUME Waiting(u)' = Waiting(u), conn'[u] = conn[u],
             u \in room'.humans <=> u \in room.humans
      PROVE  Follows(u)' /\ Pending(u)' = Pending(u)
  BY <1>1, <1>3, WorkersUntouched, SameFollows
<1>4. CASE EmptyTimeout
  BY <1>2, <1>4 DEF EmptyTimeout
<1>5. CASE OpenBreakout \/ CloseBreakout
  BY <1>2, <1>3, <1>5 DEF OpenBreakout, CloseBreakout, RoomTypeOK, Waiting
<1>6. CASE Connect(u)
  BY <1>1, <1>2, <1>6, ConnectFollows
<1>7. CASE Disconnect(u)
  BY <1>1, <1>2, <1>7, DisconnectFollows
<1>8. CASE TokenExpires(u)
  BY <1>2, <1>3, <1>8 DEF TokenExpires, Waiting
<1>9. ASSUME NEW v \in Users, v # u, Connect(v) \/ Disconnect(v) \/ TokenExpires(v)
      PROVE  /\ Waiting(u)' = Waiting(u) /\ conn'[u] = conn[u]
             /\ u \in room'.humans <=> u \in room.humans
  <2>1. CASE Connect(v)
    <3> DEFINE L == {LeftJob(x, conn[x]) : x \in room.humans \cap {v}}
               K == {JoinedJob(v, conn[v] + 1)} \cup L
    <3>1. queue' = queue \cup K
      BY <2>1 DEF Connect
    <3>2. \A k \in K : k.who = v
      BY <1>9, UserJobFields
    <3> HIDE DEF K
    <3>3. Waiting(u)' = Waiting(u)
      BY <1>9, <3>1, <3>2 DEF Waiting
    <3> QED
      BY <1>9, <2>1, <3>3 DEF Connect, RoomTypeOK
  <2>2. CASE Disconnect(v)
    <3>1. Waiting(u)' = Waiting(u)
      BY <1>9, <2>2, UserJobFields DEF Waiting, Disconnect
    <3> QED
      BY <1>9, <2>2, <3>1 DEF Disconnect, RoomTypeOK
  <2>3. CASE TokenExpires(v)
    BY <2>3 DEF TokenExpires, Waiting
  <2> QED
    BY <1>9, <2>1, <2>2, <2>3
<1> QED
  BY <1>2, <1>3, <1>4, <1>5, <1>6, <1>7, <1>8, <1>9 DEF LiveKit

(* A begun job was the earliest of its user, whom no other worker serves.  *)
LEMMA TakeFollows ==
    ASSUME RoomTypeOK, AttTypeOK, NEW u \in Users, Follows(u), Live(u)',
           NEW w \in Workers, NEW j \in queue, Take(w, j)
    PROVE  /\ Follows(u)' /\ Pending(u)' = Pending(u)
           /\ \A v \in Workers : Serving(v, u)' =>
                 \/ work'[v].pc = "findSession"
                 \/ Serving(v, u) /\ work'[v] = work[v]
<1>1. /\ work[w].pc = "idle" /\ queue' = queue \ {j}
      /\ work'[w] = [IdleWorker EXCEPT !.pc = "findSession", !.job = j]
      /\ \A v \in Workers : v # w => work'[v] = work[v]
      /\ conn' = conn /\ room' = room
  BY DEF Take, AttTypeOK
<1>2. work'[w].pc = "findSession" /\ work'[w].job = j
  BY <1>1 DEF IdleWorker
<1>3. ~Serving(w, u) /\ (Serving(w, u)' <=> j.who = u)
  BY <1>1, <1>2 DEF Serving, Busy
<1>4. \A v \in Workers : v # w =>
         /\ work'[v].job = work[v].job
         /\ Serving(v, u)' <=> Serving(v, u)
  BY <1>1 DEF Serving, Busy
<1>5. \A v \in Workers : Serving(v, u)' =>
         \/ work'[v].pc = "findSession"
         \/ Serving(v, u) /\ work'[v] = work[v]
  BY <1>1, <1>2, <1>4
<1>6. CASE j.who # u
  <2>1. Waiting(u)' = Waiting(u)
    BY <1>1, <1>6 DEF Waiting
  <2> QED
    BY <1>1, <1>3, <1>4, <1>5, <1>6, <2>1, SameFollows
<1>7. CASE j.who = u
  <2>1. \A i \in Running : ~Touches(i, u)
    BY <1>7 DEF Take, Live, Touches
  <2>2. \A i \in queue : i.who = u => ~Earlier(i, j)
    BY <1>7 DEF Take, Live
  <2>3. \A v \in Workers : ~Serving(v, u)
    BY <2>1 DEF Running, Serving, Busy, Touches
  <2>4. Waiting(u)' = Waiting(u) \ {j} /\ j \in Waiting(u)
    BY <1>1, <1>7 DEF Waiting
  <2>5. Pending(u) = Waiting(u)
    BY <2>3 DEF Pending
  <2>6. \A v \in Workers : Serving(v, u)' <=> v = w
    BY <1>3, <1>4, <1>7, <2>3
  <2>7. Pending(u)' = (Waiting(u) \ {j}) \cup {j}
    BY <1>2, <2>4, <2>6 DEF Pending
  <2>8. Pending(u)' = Pending(u)
    BY <2>4, <2>5, <2>7
  <2>9. JobsWithin(u)' /\ LastPending(u)'
    BY <1>1, <2>8 DEF Follows, JobsWithin, LastPending
  <2>10. \A i \in Waiting(u)' : Earlier(j, i)
    <3>1. \A i \in Waiting(u) : i = j \/ Earlier(i, j) \/ Earlier(j, i)
      BY <2>4 DEF Follows, JobsInOrder
    <3> QED
      BY <2>2, <2>4, <3>1 DEF Waiting
  <2>11. JobsInOrder(u)'
    BY <1>2, <2>4, <2>6, <2>10 DEF Follows, JobsInOrder
  <2> QED
    BY <1>5, <2>8, <2>9, <2>11 DEF Follows
<1> QED
  BY <1>6, <1>7

(* A step of a job before its report keeps the worker serving it.          *)
LEMMA JobStepKeeps ==
    ASSUME RoomTypeOK, AttTypeOK, NEW w \in Workers, JobStep(w), ~Ack(w)
    PROVE  /\ Busy(w) /\ Busy(w)' /\ work'[w].job = work[w].job
           /\ \A v \in Workers : v # w => work'[v] = work[v]
           /\ UNCHANGED <<room, queue>> \/ FinishRoom
           /\ UNCHANGED conn
<1>1. work[w] \in WorkerState
  BY DEF AttTypeOK
<1>2. ASSUME NEW pc \in JobPc \ {"idle"}, Goto(w, pc)
      PROVE  /\ Busy(w)' /\ work'[w].job = work[w].job
             /\ \A v \in Workers : v # w => work'[v] = work[v]
  BY <1>1, <1>2 DEF Goto, Busy, AttTypeOK, WorkerState
<1>3. Busy(w) /\ UNCHANGED conn /\ (UNCHANGED <<room, queue>> \/ FinishRoom)
  BY DEF JobStep, FindSession, ReadJoined, WriteJoined, ReadLeft, WriteLeft,
         ReadCloseAll, WriteCloseAll, JobListRooms, JobListParticipants,
         JobEndMeeting, JobDeleteRoom, ForceDeleteLiveKitRoom, roomVars, Busy
<1>4. ASSUME NEW pc \in JobPc \ {"idle"}, NEW x,
             \/ work' = [work EXCEPT ![w].pc = pc, ![w].sid = x]
             \/ work' = [work EXCEPT ![w].pc = pc, ![w].todo = x]
             \/ work' = [work EXCEPT ![w].todo = x, ![w].pc = pc]
      PROVE  /\ Busy(w)' /\ work'[w].job = work[w].job
             /\ \A v \in Workers : v # w => work'[v] = work[v]
  BY <1>1, <1>4 DEF Busy, AttTypeOK, WorkerState
<1>5. {"read", "write", "listRooms", "listParticipants", "endThenDelete",
       "deleteRoom", "endOnly", "ack"} \subseteq JobPc \ {"idle"}
  BY DEF JobPc
<1>6. CASE FindSession(w)
  <2>1. work[w].job.kind \in {"joined", "left", "closeAll"}
    BY <1>1, WorkerStateType, JobFields
  <2> QED
    BY <1>2, <1>3, <1>4, <1>5, <1>6, <2>1 DEF FindSession
<1>7. CASE ReadJoined(w) \/ WriteJoined(w) \/ JobListRooms(w)
           \/ JobListParticipants(w) \/ JobEndMeeting(w) \/ JobDeleteRoom(w)
  BY <1>2, <1>3, <1>5, <1>7 DEF ReadJoined, WriteJoined, JobListRooms,
     JobListParticipants, JobEndMeeting, JobDeleteRoom
<1>8. CASE ReadLeft(w) \/ WriteLeft(w)
  BY <1>2, <1>3, <1>4, <1>5, <1>8 DEF ReadLeft, WriteLeft
<1>9. CASE ReadCloseAll(w)
  BY <1>3, <1>4, <1>5, <1>9 DEF ReadCloseAll
<1>10. CASE WriteCloseAll(w)
  <2>1. PICK t \in work[w].todo :
           work' = [work EXCEPT
                      ![w].todo = @ \ {t},
                      ![w].pc = IF work[w].todo = {t} THEN "endOnly" ELSE @]
    BY <1>10 DEF WriteCloseAll
  <2>2. work[w].pc = "write"
    BY <1>10 DEF WriteCloseAll
  <2>3. /\ work'[w].pc \in {"endOnly", "write"} /\ work'[w].job = work[w].job
        /\ \A v \in Workers : v # w => work'[v] = work[v]
    BY <1>1, <2>1, <2>2 DEF AttTypeOK, WorkerState
  <2> QED
    BY <1>3, <2>3 DEF Busy
<1> QED
  BY <1>6, <1>7, <1>8, <1>9, <1>10 DEF JobStep

LEMMA JobStepFollows ==
    ASSUME RoomTypeOK, AttTypeOK, NEW u \in Users, Follows(u), Live(u)',
           NEW w \in Workers, JobStep(w), ~Ack(w)
    PROVE  /\ Follows(u)' /\ Pending(u)' = Pending(u) /\ UNCHANGED room
           /\ \A v \in Workers : Serving(v, u)' <=> Serving(v, u)
<1>1. /\ Busy(w) /\ Busy(w)' /\ work'[w].job = work[w].job
      /\ \A v \in Workers : v # w => work'[v] = work[v]
      /\ UNCHANGED <<room, queue>> \/ FinishRoom
      /\ UNCHANGED conn
  BY JobStepKeeps
<1>2. UNCHANGED <<room, queue>>
  BY <1>1, FinishIsReported DEF Live
<1>3. \A v \in Workers : /\ Serving(v, u)' <=> Serving(v, u)
                         /\ Serving(v, u) => work'[v].job = work[v].job
  BY <1>1 DEF Serving, Busy
<1>4. Waiting(u)' = Waiting(u)
  BY <1>2 DEF Waiting
<1> QED
  BY <1>1, <1>2, <1>3, <1>4, SameFollows

(* With a job reported as completed, the last event was that of the job,   *)
(* or is that of a waiting one.                                            *)
LEMMA AckFollows ==
    ASSUME RoomTypeOK, AttTypeOK, JobsApart, NEW u \in Users, u \notin overlapped,
           Follows(u), NEW w \in Workers, Ack(w)
    PROVE  /\ Follows(u)'
           /\ \A v \in Workers : Serving(v, u)' => Serving(v, u) /\ work'[v] = work[v]
           /\ Pending(u)' = {} /\ Pending(u) # {} =>
                 Serving(w, u) /\ (work[w].job.kind = "joined" <=> u \in room.humans)
<1>1. /\ work'[w] = IdleWorker
      /\ \A v \in Workers : v # w => work'[v] = work[v]
      /\ UNCHANGED <<queue, room, conn>>
  BY DEF Ack, AttTypeOK, roomVars
<1>2. ~Serving(w, u)'
  BY <1>1 DEF Serving, Busy, IdleWorker
<1>3. \A v \in Workers : v # w => (Serving(v, u)' <=> Serving(v, u))
  BY <1>1 DEF Serving, Busy
<1>4. \A v \in Workers : Serving(v, u)' => Serving(v, u) /\ work'[v] = work[v]
  BY <1>1, <1>2, <1>3
<1>5. Waiting(u)' = Waiting(u)
  BY <1>1 DEF Waiting
<1>6. CASE ~Serving(w, u)
  <2>1. \A v \in Workers : /\ Serving(v, u)' <=> Serving(v, u)
                           /\ Serving(v, u) => work'[v].job = work[v].job
    BY <1>1, <1>2, <1>3, <1>6
  <2> QED
    BY <1>1, <1>4, <1>5, <2>1, SameFollows
<1>7. CASE Serving(w, u)
  <2> DEFINE j == work[w].job
  <2>1. \A v \in Workers : Serving(v, u) => v = w
    BY <1>7, OneServer
  <2>2. \A v \in Workers : ~Serving(v, u)'
    BY <1>4, <2>1, <1>2
  <2>3. Pending(u)' = Waiting(u)
    BY <1>5, <2>2 DEF Pending
  <2>4. Pending(u) = Waiting(u) \cup {j}
    BY <1>7, <2>1 DEF Pending
  <2>5. JobsWithin(u)' /\ JobsInOrder(u)'
    BY <1>1, <1>5, <2>2, <2>3, <2>4 DEF Follows, JobsWithin, JobsInOrder
  <2>6. PICK k \in Pending(u) : /\ k.n = conn[u]
                                /\ k.kind = "joined" <=> u \in room.humans
    BY <2>4 DEF Follows, LastPending
  <2>7. ASSUME NEW i \in Waiting(u), k = j
        PROVE  FALSE
    <3>1. Earlier(k, i)
      BY <1>7, <2>7 DEF Follows, JobsInOrder
    <3>2. i.n \in 1..conn[u] /\ (i.n = conn[u] /\ u \in room.humans => i.kind = "joined")
      BY <2>4 DEF Follows, JobsWithin
    <3>3. ~(k.n < i.n)
      BY <2>6, <3>2 DEF RoomTypeOK
    <3> QED
      BY <2>6, <3>1, <3>2, <3>3 DEF Earlier
  <2>8. LastPending(u)'
    BY <1>1, <2>3, <2>4, <2>6, <2>7 DEF LastPending
  <2>9. Pending(u)' = {} => (j.kind = "joined" <=> u \in room.humans)
    BY <2>3, <2>4, <2>6
  <2> QED
    BY <1>4, <1>7, <2>5, <2>8, <2>9 DEF Follows
<1> QED
  BY <1>6, <1>7

(* A failed job waits again, in its old place.                             *)
LEMMA FailFollows ==
    ASSUME RoomTypeOK, AttTypeOK, JobsApart, NEW u \in Users, Follows(u), Live(u)',
           u \notin overlapped, NEW w \in Workers, Fail(w)
    PROVE  /\ Follows(u)'
           /\ \A v \in Workers : Serving(v, u)' => Serving(v, u) /\ work'[v] = work[v]
           /\ Pending(u)' = {} => Pending(u) = {}
<1> DEFINE j == work[w].job
           k == [j EXCEPT !.tries = @ + 1]
<1>1. /\ Busy(w) /\ work'[w] = IdleWorker
      /\ \A v \in Workers : v # w => work'[v] = work[v]
      /\ UNCHANGED <<room, conn>>
  BY DEF Fail, AttTypeOK, Busy
<1>2. ~Serving(w, u)'
  BY <1>1 DEF Serving, Busy, IdleWorker
<1>3. \A v \in Workers : v # w => (Serving(v, u)' <=> Serving(v, u))
  BY <1>1 DEF Serving, Busy
<1>4. \A v \in Workers : Serving(v, u)' => Serving(v, u) /\ work'[v] = work[v]
  BY <1>1, <1>2, <1>3
<1>5. j \in Jobs
  BY WorkerFields
<1>6. k.who = j.who /\ k.n = j.n /\ k.kind = j.kind
  BY <1>5 DEF Jobs
<1>7. queue' = queue \/ queue' = queue \cup {k}
  BY DEF Fail
<1> HIDE DEF k
<1>8. CASE ~Serving(w, u)
  <2>1. j.who # u
    BY <1>1, <1>8 DEF Serving
  <2>2. Waiting(u)' = Waiting(u)
    BY <1>6, <1>7, <2>1 DEF Waiting
  <2>3. \A v \in Workers : /\ Serving(v, u)' <=> Serving(v, u)
                           /\ Serving(v, u) => work'[v].job = work[v].job
    BY <1>1, <1>2, <1>3, <1>8
  <2> QED
    BY <1>1, <1>4, <2>2, <2>3, SameFollows
<1>9. CASE Serving(w, u)
  <2>1. j.who = u
    BY <1>9 DEF Serving
  <2>2. queue' = queue \cup {k}
    BY <2>1 DEF Fail, Live, Touches, k
  <2>3. \A v \in Workers : Serving(v, u) => v = w
    BY <1>9, OneServer
  <2>4. \A v \in Workers : ~Serving(v, u)'
    BY <1>2, <1>4, <2>3
  <2>5. Waiting(u)' = Waiting(u) \cup {k}
    BY <1>6, <2>1, <2>2 DEF Waiting
  <2>6. Pending(u)' = Waiting(u) \cup {k}
    BY <2>4, <2>5 DEF Pending
  <2>7. Pending(u) = Waiting(u) \cup {j}
    BY <1>9, <2>3 DEF Pending
  <2>8. JobsWithin(u)'
    BY <1>1, <1>6, <2>6, <2>7 DEF Follows, JobsWithin
  <2>9. \A i \in Waiting(u) : Earlier(k, i)
    BY <1>6, <1>9 DEF Follows, JobsInOrder, Earlier
  <2>10. JobsInOrder(u)'
    BY <2>4, <2>5, <2>9 DEF Follows, JobsInOrder
  <2>11. LastPending(u)'
    <3>1. PICK l \in Pending(u) : /\ l.n = conn[u]
                                  /\ l.kind = "joined" <=> u \in room.humans
      BY <2>7 DEF Follows, LastPending
    <3>2. CASE l = j
      BY <1>1, <1>6, <2>6, <3>1, <3>2 DEF LastPending
    <3>3. CASE l # j
      BY <1>1, <2>6, <2>7, <3>1, <3>3 DEF LastPending
    <3> QED
      BY <3>2, <3>3
  <2> QED
    BY <1>4, <2>6, <2>8, <2>10, <2>11 DEF Follows
<1> QED
  BY <1>8, <1>9

(***************************************************************************)
(* What the document of a user shows.                                      *)
(***************************************************************************)
Early == {"findSession", "read", "write"}

LEMMA RecordedKept ==
    ASSUME NEW u \in Users, Recorded(u), Shown(u)' <=> Shown(u),
           Pending(u)' = {} =>
              Pending(u) = {} /\ (u \in room'.humans <=> u \in room.humans),
           \A v \in Workers : Serving(v, u)' =>
              \/ work'[v].pc \in Early
              \/ Serving(v, u) /\ work'[v] = work[v]
    PROVE  Recorded(u)'
BY DEF Recorded, Early

(* Only the jobs of u write the document of u while the meeting is live.   *)
LEMMA OthersDocument ==
    ASSUME AttTypeOK, ReadingsOfJob, NEW u \in Users, ~ClosePending,
           NEW w \in Workers, JobStep(w), ~Serving(w, u)
    PROVE  Shown(u)' <=> Shown(u)
<1>1. CASE WriteJoined(w)
  <2>1. work[w].job.who # u
    BY <1>1 DEF WriteJoined, Serving, Busy
  <2>2. att'[1][u] = att[1][u]
    BY <1>1, <2>1 DEF WriteJoined, PushVisit, AttTypeOK
  <2> QED
    BY <2>2 DEF Shown
<1>2. CASE WriteLeft(w)
  <2>1. work[w].job.who # u
    BY <1>2 DEF WriteLeft, Serving, Busy
  <2>2. PICK t \in work[w].todo : CloseVisit(work[w].sid, t)
    BY <1>2 DEF WriteLeft
  <2>3. t.who # u
    BY <1>2, <2>1 DEF WriteLeft, ReadingsOfJob, Touches
  <2>4. att'[1][u] = att[1][u]
    BY <2>2, <2>3 DEF CloseVisit, AttTypeOK
  <2> QED
    BY <2>4 DEF Shown
<1>3. CASE WriteCloseAll(w)
  BY <1>3 DEF WriteCloseAll, ClosePending
<1>4. CASE UNCHANGED att
  BY <1>4 DEF Shown
<1> QED
  BY <1>1, <1>2, <1>3, <1>4
     DEF JobStep, FindSession, ReadJoined, ReadLeft, ReadCloseAll, JobListRooms,
         JobListParticipants, JobEndMeeting, JobDeleteRoom, Ack

LEMMA FirstFound ==
    ASSUME FirstSession, 1 \in Ongoing
    PROVE  FindOngoing = 1 /\ FindOngoing # NoSession
<1>1. Ongoing = {1}
  BY DEF FirstSession
<1> QED
  BY <1>1 DEF FindOngoing, NoSession

(* A step that writes, or finds nothing to write, leaves the document as   *)
(* the job reports it.                                                     *)
LEMMA JobShows ==
    ASSUME RoomTypeOK, AttTypeOK, AttendanceInvariant, FirstSession, NEW u \in Users,
           Live(u), Recorded(u), NEW w \in Workers, JobStep(w), ~Ack(w),
           Serving(w, u), work'[w].pc \notin Early
    PROVE  Shown(u)' <=> work[w].job.kind = "joined"
<1> DEFINE d == att[1][u]
<1>1. /\ work[w] \in WorkerState /\ work[w].job \in Jobs /\ work[w].job.who = u
      /\ d \in Document /\ 1 \in Sessions /\ u \notin overlapped
  BY WorkerFields DEF Serving, AttTypeOK, Live, Ongoing
<1>2. work[w].job.kind \in {"joined", "left"}
  BY <1>1, JobOfUser
<1>3. work[w].pc \in {"read", "write"} => work[w].sid = 1
  BY DEF FirstSession
<1>4. CASE work[w].pc \notin Early /\ UNCHANGED att
  <2>1. Shown(u)' = Shown(u)
    BY <1>4 DEF Shown
  <2> QED
    BY <1>4, <2>1 DEF Recorded, Early
<1>5. CASE FindSession(w)
  <2>1. FindOngoing # NoSession
    BY FirstFound DEF Live
  <2>2. work'[w].pc = "read"
    BY <1>1, <1>5, <2>1 DEF FindSession, AttTypeOK, WorkerState
  <2> QED
    BY <2>2 DEF Early
<1>6. CASE ReadJoined(w)
  <2>1. CASE OpenVisits(d) = {}
    <3>1. work'[w].pc = "write"
      BY <1>1, <1>3, <1>6, <2>1 DEF ReadJoined, Goto, AttTypeOK, WorkerState
    <3> QED
      BY <3>1 DEF Early
  <2>2. CASE OpenVisits(d) # {}
    BY <1>6, <2>2 DEF ReadJoined, Shown
  <2> QED
    BY <2>1, <2>2
<1>7. CASE WriteJoined(w)
  <2>1. att'[1][u] = Pushed(d, work[w].job.n)
    BY <1>1, <1>3, <1>7 DEF WriteJoined, PushVisit, AttTypeOK
  <2>2. work[w].job.n \in Nat
    BY <1>1, JobFields
  <2>3. OpenVisits(Pushed(d, work[w].job.n)) # {}
    <3>1. OpenVisits(Pushed(d, work[w].job.n)) = OpenVisits(d) \cup {Len(d.visits) + 1}
      BY <1>1, <2>2, PushedDocument
    <3> QED
      BY <3>1, Zenon
  <2> QED
    BY <1>7, <2>1, <2>3 DEF WriteJoined, Shown
<1>8. CASE ReadLeft(w)
  <2>1. CASE OpenVisits(d) # {}
    <3>1. work[w].sid = 1 /\ work[w].job.who = u
      BY <1>1, <1>3, <1>8 DEF ReadLeft
    <3>2. PICK todo : work' = [work EXCEPT ![w].pc = "write", ![w].todo = todo]
      BY <1>8, <2>1, <3>1 DEF ReadLeft
    <3>3. work'[w] = [work[w] EXCEPT !.pc = "write", !.todo = todo]
      BY <3>2 DEF AttTypeOK
    <3>4. work'[w].pc = "write"
      BY <1>1, <3>3 DEF WorkerState
    <3> QED
      BY <3>4 DEF Early
  <2>2. CASE OpenVisits(d) = {}
    BY <1>8, <2>2 DEF ReadLeft, Shown
  <2> QED
    BY <2>1, <2>2
<1>9. CASE WriteLeft(w)
  <2>1. PICK t \in work[w].todo : CloseVisit(work[w].sid, t)
    BY <1>9 DEF WriteLeft
  <2>2. t.who = u
    BY <1>1, <1>9 DEF WriteLeft, AttendanceInvariant, ReadingsOfJob, Touches
  <2>3. work[w].sid = 1
    BY <1>3, <1>9 DEF WriteLeft
  <2>4. t \in Reading
    BY <1>1, WorkerStateType
  <2>5. t.idx \in Nat /\ t.total \cup {t.idx} \in SUBSET Nat
    BY <2>4 DEF Reading
  <2>6. t.idx \in OpenVisits(d)
    BY <1>1, <2>2, <2>3 DEF AttendanceInvariant, ReadingsCurrent
  <2>7. OpenVisits(d) \subseteq {t.idx}
    BY <1>1, <2>6 DEF AttendanceInvariant, OneOpenVisit
  <2>8. att'[1][u] = Closed(d, t.idx, t.total \cup {t.idx})
    BY <1>1, <2>1, <2>2, <2>3 DEF CloseVisit, AttTypeOK
  <2>9. OpenVisits(att'[1][u]) = OpenVisits(d) \ {t.idx}
    BY <1>1, <2>5, <2>6, <2>8, ClosedDocument
  <2> QED
    BY <1>9, <2>7, <2>9 DEF WriteLeft, Shown
<1>10. CASE ReadCloseAll(w) \/ WriteCloseAll(w)
  BY <1>2, <1>10 DEF ReadCloseAll, WriteCloseAll
<1>11. CASE JobListRooms(w) \/ JobListParticipants(w) \/ JobEndMeeting(w) \/ JobDeleteRoom(w)
  BY <1>4, <1>11 DEF JobListRooms, JobListParticipants, JobEndMeeting, JobDeleteRoom, Early
<1> QED
  BY <1>5, <1>6, <1>7, <1>8, <1>9, <1>10, <1>11 DEF JobStep

LEMMA JobStepRecords ==
    ASSUME RoomTypeOK, AttTypeOK, AttendanceInvariant, FirstSession, NEW u \in Users,
           Live(u), Live(u)', Follows(u), Recorded(u),
           NEW w \in Workers, JobStep(w), ~Ack(w)
    PROVE  Recorded(u)'
<1>1. /\ Pending(u)' = Pending(u) /\ UNCHANGED room
      /\ \A v \in Workers : Serving(v, u)' <=> Serving(v, u)
  BY JobStepFollows
<1>2. /\ work'[w].job = work[w].job
      /\ \A v \in Workers : v # w => work'[v] = work[v]
  BY JobStepKeeps
<1>3. ~ClosePending /\ u \notin overlapped /\ ReadingsOfJob /\ JobsApart
  BY DEF Live, AttendanceInvariant
<1>4. CASE ~Serving(w, u)
  <2>1. Shown(u)' <=> Shown(u)
    BY <1>3, <1>4, OthersDocument
  <2>2. \A v \in Workers : Serving(v, u)' => Serving(v, u) /\ work'[v] = work[v]
    BY <1>1, <1>2, <1>4
  <2> QED
    BY <1>1, <2>1, <2>2, RecordedKept
<1>5. CASE Serving(w, u)
  <2>1. Pending(u)' # {}
    BY <1>1, <1>5 DEF Pending
  <2>2. \A v \in Workers : Serving(v, u)' => v = w
    BY <1>1, <1>3, <1>5, OneServer
  <2>3. work'[w].pc \notin Early => (Shown(u)' <=> work'[w].job.kind = "joined")
    BY <1>2, <1>5, JobShows
  <2> QED
    BY <2>1, <2>2, <2>3 DEF Recorded, Early
<1> QED
  BY <1>4, <1>5

LEMMA AckRecords ==
    ASSUME RoomTypeOK, AttTypeOK, JobsApart, NEW u \in Users, u \notin overlapped,
           Follows(u), Recorded(u), NEW w \in Workers, Ack(w)
    PROVE  Recorded(u)'
<1>1. /\ \A v \in Workers : Serving(v, u)' => Serving(v, u) /\ work'[v] = work[v]
      /\ Pending(u)' = {} /\ Pending(u) # {} =>
            Serving(w, u) /\ (work[w].job.kind = "joined" <=> u \in room.humans)
  BY AckFollows
<1>2. UNCHANGED <<att, room>> /\ work[w].pc = "ack"
  BY DEF Ack, roomVars
<1>3. Shown(u)' <=> Shown(u)
  BY <1>2 DEF Shown
<1>4. CASE Pending(u)' = {} /\ Pending(u) # {}
  <2>1. Shown(u) <=> work[w].job.kind = "joined"
    BY <1>1, <1>2, <1>4 DEF Recorded
  <2>2. Shown(u)' <=> u \in room'.humans
    BY <1>1, <1>2, <1>3, <1>4, <2>1
  <2>3. \A v \in Workers : ~Serving(v, u)'
    BY <1>4 DEF Pending
  <2> QED
    BY <2>2, <2>3 DEF Recorded
<1>5. CASE ~(Pending(u)' = {} /\ Pending(u) # {})
  BY <1>1, <1>2, <1>3, <1>5, RecordedKept
<1> QED
  BY <1>4, <1>5

LEMMA FirstSessionNext ==
    ASSUME RoomTypeOK, AttTypeOK, FirstSession, [AttendanceNext]_attendanceVars
    PROVE  FirstSession'
<1>1. CASE UNCHANGED attendanceVars
  BY <1>1 DEF attendanceVars, roomVars, attVars, FirstSession, Ongoing
<1>2. CASE LiveKit /\ UNCHANGED attVars
  BY <1>2, LiveKitKeepsSessions DEF attVars, FirstSession, Ongoing
<1>3. ASSUME NEW w \in Workers, Worker(w)
      PROVE  FirstSession'
  <2>1. Ongoing' \subseteq {1}
    BY <1>3, WorkerOnlyEnds, EndedIsEmpty DEF FirstSession, Ongoing
  <2>2. work[w] \in WorkerState
    BY DEF AttTypeOK
  <2>3. ASSUME NEW v \in Workers, v # w
        PROVE  work'[v].pc \in {"read", "write"} => work'[v].sid = 1
    <3>1. work'[v] = work[v]
      BY <1>3, <2>3
         DEF Worker, Take, Fail, JobStep, FindSession, ReadJoined, WriteJoined,
             ReadLeft, WriteLeft, ReadCloseAll, WriteCloseAll, JobListRooms,
             JobListParticipants, JobEndMeeting, JobDeleteRoom, Ack, Goto, AttTypeOK
    <3> QED
      BY <3>1 DEF FirstSession
  <2>4. work'[w].pc \in {"read", "write"} => work'[w].sid = 1
    <3>1. CASE (\E j \in queue : Take(w, j)) \/ Fail(w) \/ Ack(w)
      <4>1. \/ work'[w] = IdleWorker
            \/ \E j \in queue :
                  work'[w] = [IdleWorker EXCEPT !.pc = "findSession", !.job = j]
        BY <3>1 DEF Take, Fail, Ack, AttTypeOK
      <4>2. work'[w].pc \in {"idle", "findSession"}
        <5>1. IdleWorker.pc = "idle"
          BY DEF IdleWorker
        <5>2. \A j : [IdleWorker EXCEPT !.pc = "findSession", !.job = j].pc = "findSession"
          BY DEF IdleWorker
        <5> QED
          BY <4>1, <5>1, <5>2
      <4> QED
        BY <4>2
    <3>2. CASE FindSession(w)
      <4>1. CASE FindOngoing # NoSession
        <5>1. FindOngoing = 1
          BY <4>1, FoundIsOngoing DEF FirstSession
        <5>2. work'[w] = [work[w] EXCEPT !.pc = "read", !.sid = FindOngoing]
          BY <3>2, <4>1 DEF FindSession, AttTypeOK
        <5> QED
          BY <2>2, <5>1, <5>2 DEF WorkerState
      <4>2. CASE FindOngoing = NoSession
        <5>1. work[w].job.kind \in {"joined", "left", "closeAll"}
          BY WorkerFields, JobFields
        <5>2. work'[w].pc \in {"ack", "listRooms", "endOnly"}
          BY <2>2, <3>2, <4>2, <5>1 DEF FindSession, Goto, AttTypeOK, WorkerState
        <5> QED
          BY <5>2
      <4> QED
        BY <4>1, <4>2
    <3>3. ASSUME NEW pc, NEW todo,
                 \/ work' = [work EXCEPT ![w].pc = pc]
                 \/ work' = [work EXCEPT ![w].pc = pc, ![w].todo = todo]
                 \/ work' = [work EXCEPT ![w].todo = todo, ![w].pc = pc],
                 work[w].pc \in {"read", "write"}
                    \/ pc \notin {"read", "write"}
          PROVE  work'[w].pc \in {"read", "write"} => work'[w].sid = 1
      BY <2>2, <3>3 DEF AttTypeOK, WorkerState, FirstSession
    <3>4. CASE ReadJoined(w) \/ WriteJoined(w)
      BY <3>3, <3>4 DEF ReadJoined, WriteJoined, Goto
    <3>5. CASE ReadLeft(w)
      <4>1. PICK pc, todo : \/ work' = [work EXCEPT ![w].pc = pc]
                            \/ work' = [work EXCEPT ![w].pc = pc, ![w].todo = todo]
        BY <3>5 DEF ReadLeft, Goto
      <4>2. work[w].pc = "read"
        BY <3>5 DEF ReadLeft
      <4> QED
        BY <3>3, <4>1, <4>2
    <3>6. CASE WriteLeft(w)
      BY <3>3, <3>6 DEF WriteLeft
    <3>7. CASE ReadCloseAll(w)
      BY <3>3, <3>7 DEF ReadCloseAll
    <3>8. CASE WriteCloseAll(w)
      BY <3>3, <3>8 DEF WriteCloseAll
    <3>9. ASSUME NEW pc \in JobPc \ {"read", "write"}, Goto(w, pc)
          PROVE  work'[w].pc \in {"read", "write"} => work'[w].sid = 1
      BY <3>3, <3>9 DEF Goto
    <3>10. CASE JobListRooms(w) \/ JobListParticipants(w)
      BY <3>9, <3>10 DEF JobListRooms, JobListParticipants, JobPc
    <3>11. CASE JobEndMeeting(w) \/ JobDeleteRoom(w)
      BY <3>9, <3>11 DEF JobEndMeeting, JobDeleteRoom, JobPc
    <3> QED
      BY <1>3, <3>1, <3>2, <3>4, <3>5, <3>6, <3>7, <3>8, <3>10, <3>11 DEF Worker, JobStep
  <2> QED
    BY <2>1, <2>3, <2>4 DEF FirstSession
<1> QED
  BY <1>1, <1>2, <1>3 DEF AttendanceNext, Quiet

LEMMA PresenceRecordedNext ==
    ASSUME RoomTypeOK, AttTypeOK, AttendanceInvariant, FirstSession,
           PresenceRecorded, [AttendanceNext]_attendanceVars
    PROVE  PresenceRecorded'
<1> SUFFICES ASSUME NEW u \in Users, Live(u)'
             PROVE  (room.up /\ Follows(u) /\ Recorded(u))'
  BY DEF PresenceRecorded, Follows
<1>1. CASE UNCHANGED attendanceVars
  <2>1. UNCHANGED <<sess, room, queue, conn, att, work, overlapped, disordered>>
    BY <1>1 DEF attendanceVars, roomVars, attVars
  <2>2. Live(u)
    BY <2>1 DEF Live, Ongoing, ClosePending
  <2>3. room.up /\ Follows(u) /\ Recorded(u)
    BY <2>2 DEF PresenceRecorded, Follows
  <2>4. Waiting(u)' = Waiting(u) /\ (Shown(u)' <=> Shown(u))
    BY <2>1 DEF Waiting, Shown
  <2>5. Follows(u)' /\ Pending(u)' = Pending(u)
    BY <2>1, <2>3, <2>4, WorkersUntouched, SameFollows
  <2>6. Recorded(u)'
    BY <2>1, <2>3, <2>4, <2>5, WorkersUntouched, RecordedKept
  <2> QED
    BY <2>1, <2>3, <2>5, <2>6
<1>2. ASSUME \/ LiveKit /\ UNCHANGED attVars
             \/ \E w \in Workers : Worker(w)
      PROVE  (room.up /\ Follows(u) /\ Recorded(u))'
  <2>1. Live(u)
    BY <1>2, LiveBefore
  <2>2. /\ room.up /\ Follows(u) /\ Recorded(u)
        /\ u \notin overlapped /\ JobsApart
    BY <2>1 DEF PresenceRecorded, Follows, Live, AttendanceInvariant
  <2>3. CASE LiveKit /\ UNCHANGED attVars
    <3>1. /\ room'.up /\ Follows(u)'
          /\ \/ Pending(u)' # {}
             \/ Pending(u)' = Pending(u) /\ (u \in room'.humans <=> u \in room.humans)
      BY <2>2, <2>3, LiveKitFollows
    <3>2. UNCHANGED work /\ (Shown(u)' <=> Shown(u))
      BY <2>3 DEF attVars, Shown
    <3>3. Recorded(u)'
      BY <2>2, <3>1, <3>2, WorkersUntouched, RecordedKept
    <3> QED
      BY <3>1, <3>3
  <2>4. ASSUME NEW w \in Workers, Worker(w)
        PROVE  (room.up /\ Follows(u) /\ Recorded(u))'
    <3>1. UNCHANGED room
      BY <2>4, WorkerOnlyEnds, FinishIsReported DEF Live
    <3>2. CASE \E j \in queue : Take(w, j)
      <4>1. PICK j \in queue : Take(w, j)
        BY <3>2
      <4>2. /\ Follows(u)' /\ Pending(u)' = Pending(u)
            /\ \A v \in Workers : Serving(v, u)' =>
                 \/ work'[v].pc = "findSession"
                 \/ Serving(v, u) /\ work'[v] = work[v]
        BY <2>2, <4>1, TakeFollows
      <4>3. Shown(u)' <=> Shown(u)
        BY <4>1 DEF Take, Shown
      <4>4. Recorded(u)'
        BY <2>2, <3>1, <4>2, <4>3, RecordedKept DEF Early
      <4> QED
        BY <2>2, <3>1, <4>2, <4>4
    <3>3. CASE JobStep(w) /\ ~Ack(w)
      BY <2>1, <2>2, <3>1, <3>3, JobStepFollows, JobStepRecords
    <3>4. CASE Ack(w)
      BY <2>2, <3>1, <3>4, AckFollows, AckRecords
    <3>5. CASE Fail(w)
      <4>1. /\ Follows(u)'
            /\ \A v \in Workers : Serving(v, u)' => Serving(v, u) /\ work'[v] = work[v]
            /\ Pending(u)' = {} => Pending(u) = {}
        BY <2>2, <3>5, FailFollows
      <4>2. Shown(u)' <=> Shown(u)
        BY <3>5 DEF Fail, Shown
      <4>3. Recorded(u)'
        BY <2>2, <3>1, <4>1, <4>2, RecordedKept
      <4> QED
        BY <2>2, <3>1, <4>1, <4>3
    <3> QED
      BY <2>4, <3>2, <3>3, <3>4, <3>5 DEF Worker
  <2> QED
    BY <1>2, <2>3, <2>4
<1> QED
  BY <1>1, <1>2 DEF AttendanceNext, Quiet

LEMMA PresenceInit ==
    ASSUME AttendanceInit
    PROVE  FirstSession /\ PresenceRecorded
<1>1. FirstSession
  BY DEF AttendanceInit, StartedMeeting, NoAttendance, FirstSession, Ongoing, IdleWorker
<1>2. ASSUME NEW u \in Users
      PROVE  room.up /\ JobsWithin(u) /\ JobsInOrder(u) /\ LastPending(u) /\ Recorded(u)
  <2>1. room.up /\ room.humans = {} /\ queue = {}
    BY DEF AttendanceInit, StartedMeeting
  <2>2. \A w \in Workers : ~Serving(w, u)
    BY DEF AttendanceInit, NoAttendance, Serving, Busy, IdleWorker
  <2>3. Waiting(u) = {} /\ Pending(u) = {}
    BY <2>1, <2>2 DEF Waiting, Pending
  <2>4. ~Shown(u)
    <3>1. 1 \in Sessions
      BY MeetingRoomAssumption DEF Sessions
    <3>2. att[1][u] = EmptyDocument
      BY <3>1 DEF AttendanceInit, NoAttendance
    <3> QED
      BY <3>2 DEF Shown, OpenVisits, Indices, EmptyDocument
  <2> QED
    BY <2>1, <2>2, <2>3, <2>4 DEF JobsWithin, JobsInOrder, LastPending, Recorded
<1> QED
  BY <1>1, <1>2 DEF PresenceRecorded

(* Once the jobs are done, an ongoing session shows an open visit for      *)
(* exactly the users in its room, through retries and faults, as long as   *)
(* the jobs of the user neither overlapped nor got lost or out of order.   *)
THEOREM AttendanceMatchesPresenceAlways == AttendanceSpec => []AttendanceMatchesPresence
<1>1. AttendanceInit => FirstSession /\ PresenceRecorded
  BY PresenceInit
<1>2. /\ AttendanceTypeOK /\ AttendanceInvariant /\ FirstSession /\ PresenceRecorded
      /\ [AttendanceNext]_attendanceVars
      => (FirstSession /\ PresenceRecorded)'
  BY FirstSessionNext, PresenceRecordedNext DEF AttendanceTypeOK
<1>3. FirstSession /\ PresenceRecorded => AttendanceMatchesPresence
  <2> SUFFICES ASSUME FirstSession, PresenceRecorded, JobsDone, NEW s \in Ongoing,
                      NEW u \in Users \ (overlapped \cup disordered)
               PROVE  (OpenVisits(att[s][u]) # {}) <=> u \in room.humans
    BY DEF AttendanceMatchesPresence
  <2>1. s = 1
    BY DEF FirstSession
  <2>2. ~ClosePending
    BY DEF JobsDone, ClosePending
  <2>3. Pending(u) = {}
    BY DEF JobsDone, Pending, Waiting, Serving, Busy
  <2>4. Recorded(u)
    BY <2>1, <2>2 DEF PresenceRecorded, Live
  <2> QED
    BY <2>1, <2>3, <2>4 DEF Recorded, Shown
<1> QED
  BY <1>1, <1>2, <1>3, AttendanceIsInvariant, PTL DEF AttendanceSpec
==============================================================================
