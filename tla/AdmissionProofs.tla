---------------------------- MODULE AdmissionProofs ---------------------------
(***************************************************************************)
(* Proofs about the waiting room and the sharing of a screen in a running  *)
(* meeting, for any numbers of guests and of requests served at once.      *)
(***************************************************************************)
EXTENDS MeetingControl, FiniteSetTheorems, TLAPS

(***************************************************************************)
(* The inductive invariant.                                                *)
(***************************************************************************)
(* What admission needs of the metadata. *)
MetaTypes ==
    /\ main \in Meta
    /\ setter \in [Setters -> [pc : {"idle", "list", "write"}, snap : Meta]]
    /\ faults \in Nat

(* Only one request to share a screen is served, and while it is, nobody   *)
(* but the one it is for has the permission.                               *)
SharesAlone ==
    ~rivals => \A r, x \in Admins :
        adm[r].op = "share" /\ adm[x].op = "share" => r = x
GrantFollows ==
    ~rivals => \A r \in Admins : adm[r].op = "share" =>
        \E p \in Guests : adm[r].whom = {p} /\ Granted \subseteq {p}
GrantedOnce == ~rivals => \A p, q \in Granted : p = q

(* Somebody who waits although the waiting room is off, and did not come   *)
(* too late, is about to be let in by the request that turned it off.      *)
LetsIn(r, p) ==
    /\ adm[r].op = "toggle" /\ ~adm[r].on
    /\ adm[r].pc = "people" \/ (adm[r].pc = "update" /\ p \in adm[r].whom)
Orderly == ~main.waitingRoom /\ ~overwritten /\ ~overtaken /\ faults = 0
WaitersExpected ==
    Orderly => \A p \in Waiting \ late : \E r \in Admins : LetsIn(r, p)

AdmissionInv ==
    /\ AdmissionTypeOK
    /\ topic = "admission" => MetaTypes
    /\ topic # "admission" => AdmissionInit
    /\ SharesAlone /\ GrantFollows /\ GrantedOnce
    /\ StatusMatchesPermission
    /\ WaitersExpected

(***************************************************************************)
(* Types, and the beginning.                                               *)
(***************************************************************************)
LEMMA AdmissionTypes ==
    /\ FirstMeta \in Meta /\ FirstMeta.waitingRoom = FALSE
    /\ Absent \in Participant /\ ~Absent.in /\ ~Absent.publish
    /\ Absent.sources = "base" /\ Absent.status = "joined"
    /\ IdleRequest \in Request /\ IdleRequest.op = "none" /\ IdleRequest.pc = "idle"
    /\ IdleRequest.whom = {}
BY RoomMetadataAssumption DEF FirstMeta, Meta, Breakouts, NoBreakout, Lists, NoLists, Absent,
   Participant, Status, Sources, IdleRequest, Request

(* Where nothing has happened there is nothing to be said. *)
LEMMA NobodyThere ==
    ASSUME AdmissionInit
    PROVE  /\ AdmissionTypeOK /\ SharesAlone /\ GrantFollows /\ GrantedOnce
           /\ StatusMatchesPermission /\ WaitersExpected
<1>1. AdmissionTypeOK
  BY AdmissionTypes DEF AdmissionInit, AdmissionTypeOK
<1>2. \A p \in Guests : ~part[p].in
  BY AdmissionTypes DEF AdmissionInit
<1>3. \A r \in Admins : adm[r].op = "none"
  BY AdmissionTypes DEF AdmissionInit
<1>4. Granted = {} /\ Waiting = {}
  BY <1>2 DEF Granted, Waiting
<1> QED
  BY <1>1, <1>2, <1>3, <1>4
     DEF SharesAlone, GrantFollows, GrantedOnce, StatusMatchesPermission, WaitersExpected

LEMMA AdmissionInitInv == Init => AdmissionInv
<1> SUFFICES ASSUME Init PROVE AdmissionInv
  OBVIOUS
<1>1. MetaTypes
  BY AdmissionTypes DEF Init, MetaInit, MetaTypes, IdleSetter
<1> QED
  BY <1>1, NobodyThere DEF Init, AdmissionInv

(***************************************************************************)
(* Steps that leave a part of the invariant alone.                         *)
(***************************************************************************)
LEMMA SharesKept ==
    ASSUME AdmissionInv, rivals' = rivals, Granted' \subseteq Granted,
           \A x \in Admins : adm'[x].op = "share" =>
               adm[x].op = "share" /\ adm'[x].whom = adm[x].whom
    PROVE  SharesAlone' /\ GrantFollows' /\ GrantedOnce'
<1>1. SharesAlone'
  BY DEF AdmissionInv, SharesAlone
<1>2. GrantFollows'
  BY DEF AdmissionInv, GrantFollows
<1>3. GrantedOnce'
  BY DEF AdmissionInv, GrantedOnce
<1> QED
  BY <1>1, <1>2, <1>3

LEMMA StatusKept ==
    ASSUME AdmissionInv, part' = part, overwritten' = overwritten
    PROVE  StatusMatchesPermission'
BY DEF AdmissionInv, StatusMatchesPermission

LEMMA WaitersKept ==
    ASSUME AdmissionInv, Orderly' => Orderly, Waiting' \ late' \subseteq Waiting \ late,
           \A x \in Admins, p \in Waiting' \ late' : LetsIn(x, p) =>
               \E y \in Admins : LetsIn(y, p)'
    PROVE  WaitersExpected'
BY DEF AdmissionInv, WaitersExpected

(* A request turns to q. *)
LEMMA Turned ==
    ASSUME AdmissionInv, NEW r \in Admins, NEW q \in Request, Turn(r, q)
    PROVE  /\ adm' \in [Admins -> Request] /\ adm'[r] = q
           /\ \A x \in Admins \ {r} : adm'[x] = adm[x]
BY DEF AdmissionInv, AdmissionTypeOK, Turn

(* Reads, and what arrives: participants and history stay as they are, and *)
(* no request becomes one to share, or ceases to let people in.            *)
LEMMA ReadingInv ==
    ASSUME AdmissionInv, topic = "admission", topic' = topic, MetaTypes',
           NEW r \in Admins, NEW q \in Request, Turn(r, q),
           UNCHANGED <<part, AdmHistory, overtaken, faults>>,
           token' \in [Guests -> Status \cup {"none"}],
           main'.waitingRoom = main.waitingRoom,
           q.op # "share",
           \A p \in Guests : LetsIn(r, p) /\ p \in Waiting =>
               /\ q.op = "toggle" /\ ~q.on
               /\ q.pc = "people" \/ (q.pc = "update" /\ p \in q.whom)
    PROVE  AdmissionInv'
<1>1. /\ adm' \in [Admins -> Request] /\ adm'[r] = q
      /\ \A x \in Admins \ {r} : adm'[x] = adm[x]
  BY Turned
<1>2. UNCHANGED <<part, overwritten, late, rivals>>
  BY DEF AdmHistory
<1>3. AdmissionTypeOK'
  BY <1>1, <1>2 DEF AdmissionInv, AdmissionTypeOK
<1>4. Granted' = Granted /\ Waiting' = Waiting
  BY <1>2 DEF Granted, Waiting
<1>5. SharesAlone' /\ GrantFollows' /\ GrantedOnce'
  BY <1>1, <1>2, <1>4, SharesKept
<1>6. StatusMatchesPermission'
  BY <1>2, StatusKept
<1>7. WaitersExpected'
  <2>1. Orderly' => Orderly
    BY <1>2 DEF Orderly
  <2>2. ASSUME NEW x \in Admins, NEW p \in Waiting' \ late', LetsIn(x, p)
        PROVE  LetsIn(x, p)'
    <3>1. p \in Waiting /\ p \in Guests
      BY <1>4 DEF Waiting
    <3> QED
      BY <1>1, <2>2, <3>1 DEF LetsIn
  <2> QED
    BY <1>2, <1>4, <2>1, <2>2, WaitersKept
<1> QED
  BY <1>3, <1>5, <1>6, <1>7 DEF AdmissionInv

(* Nothing that the invariant is about. *)
LEMMA UnmovedInv ==
    ASSUME AdmissionInv, topic = "admission", topic' = topic, MetaTypes',
           UNCHANGED <<part, adm, AdmHistory>>,
           token' \in [Guests -> Status \cup {"none"}],
           Orderly' => Orderly
    PROVE  AdmissionInv'
<1>1. UNCHANGED <<part, adm, overwritten, late, rivals>>
  BY DEF AdmHistory
<1>2. AdmissionTypeOK'
  BY <1>1 DEF AdmissionInv, AdmissionTypeOK
<1>3. Granted' = Granted /\ Waiting' = Waiting
  BY <1>1 DEF Granted, Waiting
<1>4. SharesAlone' /\ GrantFollows' /\ GrantedOnce'
  BY <1>1, <1>3, SharesKept
<1>5. WaitersExpected'
  BY <1>1, <1>3, WaitersKept DEF LetsIn
<1> QED
  BY <1>1, <1>2, <1>4, <1>5, StatusKept DEF AdmissionInv

(***************************************************************************)
(* Participants.                                                           *)
(***************************************************************************)
LEMMA PresenceInv ==
    ASSUME AdmissionInv, topic = "admission", topic' = topic, NEW p \in Guests,
           Connect(p) \/ Disconnect(p)
    PROVE  AdmissionInv'
<1>1. /\ part \in [Guests -> Participant] /\ token \in [Guests -> Status \cup {"none"}]
      /\ adm \in [Admins -> Request] /\ late \in SUBSET Guests
      /\ overwritten \in BOOLEAN /\ rivals \in BOOLEAN
  BY DEF AdmissionInv, AdmissionTypeOK
<1>2. UNCHANGED <<adm, main, setter, faults, overtaken, overwritten, rivals>>
  BY DEF Connect, Disconnect, Elsewhere
<1>3. PICK new \in Participant :
         /\ part' = [part EXCEPT ![p] = new]
         /\ token' \in [Guests -> Status \cup {"none"}] /\ late' \in SUBSET Guests
         /\ new.in => (new.publish <=> new.status = "joined")
         /\ new.sources = "base"
         /\ late \ {p} \subseteq late'
         /\ (new.in /\ new.status = "waiting" /\ ~main.waitingRoom) => p \in late'
  <2>1. CASE Disconnect(p)
    BY <1>1, <2>1, AdmissionTypes DEF Disconnect
  <2>2. CASE Connect(p)
    <3> DEFINE new == [in |-> TRUE, status |-> token[p], publish |-> token[p] = "joined",
                       sources |-> "base"]
    <3>1. token[p] \in Status
      BY <1>1, <2>2 DEF Connect
    <3>2. new \in Participant /\ new.sources = "base" /\ new.status = token[p]
          /\ (new.publish <=> new.status = "joined")
      BY <3>1 DEF Participant, Sources
    <3>3. part' = [part EXCEPT ![p] = new] /\ token' \in [Guests -> Status \cup {"none"}]
      BY <1>1, <2>2 DEF Connect
    <3>4. /\ late' = IF token[p] = "waiting" /\ TooLate THEN late \cup {p} ELSE late
          /\ ~main.waitingRoom => TooLate
      BY <2>2 DEF Connect, TooLate
    <3> HIDE DEF new
    <3>5. (new.in /\ new.status = "waiting" /\ ~main.waitingRoom) => p \in late'
      BY <3>2, <3>4
    <3> QED
      BY <1>1, <3>2, <3>3, <3>4, <3>5
  <2> QED
    BY <2>1, <2>2
<1>4. part' \in [Guests -> Participant] /\ part'[p] = new
      /\ \A x \in Guests \ {p} : part'[x] = part[x]
  BY <1>1, <1>3
<1>5. AdmissionTypeOK' /\ MetaTypes'
  BY <1>1, <1>2, <1>3, <1>4 DEF AdmissionInv, AdmissionTypeOK, MetaTypes
<1>6. Granted' \subseteq Granted
  BY <1>3, <1>4 DEF Granted
<1>7. SharesAlone' /\ GrantFollows' /\ GrantedOnce'
  BY <1>2, <1>6, SharesKept
<1>8. StatusMatchesPermission'
  BY <1>2, <1>3, <1>4 DEF AdmissionInv, StatusMatchesPermission
<1>9. WaitersExpected'
  <2>1. Orderly' => Orderly
    BY <1>2 DEF Orderly
  <2>2. CASE main.waitingRoom
    BY <1>2, <2>2 DEF WaitersExpected, Orderly
  <2>3. CASE ~main.waitingRoom
    <3>1. Waiting' \ late' \subseteq Waiting \ late
      BY <1>3, <1>4, <2>3 DEF Waiting
    <3> QED
      BY <1>2, <2>1, <3>1, WaitersKept DEF LetsIn
  <2> QED
    BY <2>2, <2>3
<1> QED
  BY <1>5, <1>7, <1>8, <1>9 DEF AdmissionInv

(***************************************************************************)
(* The waiting room.                                                       *)
(***************************************************************************)
LEMMA ToggleInv ==
    ASSUME AdmissionInv, topic = "admission", topic' = topic, NEW r \in Admins,
           \/ \E on \in BOOLEAN : ToggleReceive(r, on)
           \/ ToggleList(r) \/ ListWaiting(r) \/ ApproveReceive(r)
    PROVE  AdmissionInv'
<1>1. /\ UNCHANGED <<part, token, AdmHistory, faults>>
      /\ UNCHANGED <<main, overtaken, setter>>
  BY DEF ToggleReceive, ToggleList, ListWaiting, ApproveReceive, Elsewhere
<1>2. MetaTypes /\ MetaTypes' /\ token' \in [Guests -> Status \cup {"none"}]
  BY <1>1 DEF AdmissionInv, AdmissionTypeOK, MetaTypes
<1>3. adm[r] \in Request /\ part \in [Guests -> Participant]
  BY DEF AdmissionInv, AdmissionTypeOK
<1>4. ASSUME NEW q \in Request, Turn(r, q), q.op # "share",
             \A p \in Guests : LetsIn(r, p) /\ p \in Waiting =>
                 /\ q.op = "toggle" /\ ~q.on
                 /\ q.pc = "people" \/ (q.pc = "update" /\ p \in q.whom)
      PROVE  AdmissionInv'
  BY <1>1, <1>2, <1>4, ReadingInv
<1>5. ASSUME NEW on \in BOOLEAN, ToggleReceive(r, on)
      PROVE  AdmissionInv'
  <2> DEFINE q == [IdleRequest EXCEPT !.op = "toggle", !.pc = "list", !.on = on]
  <2>1. q \in Request /\ q.op # "share" /\ Turn(r, q)
    BY <1>5, AdmissionTypes DEF ToggleReceive, Request
  <2>2. \A p \in Guests : ~LetsIn(r, p)
    BY <1>5, AdmissionTypes DEF ToggleReceive, LetsIn
  <2> HIDE DEF q
  <2> QED
    BY <1>4, <2>1, <2>2
<1>6. CASE ToggleList(r)
  <2> DEFINE q == [adm[r] EXCEPT !.pc = "write", !.snap = main]
  <2>1. q \in Request /\ q.op # "share" /\ Turn(r, q)
    BY <1>2, <1>3, <1>6 DEF ToggleList, Request, Serving, MetaTypes
  <2>2. \A p \in Guests : ~LetsIn(r, p)
    BY <1>6 DEF ToggleList, LetsIn, Serving
  <2> HIDE DEF q
  <2> QED
    BY <1>4, <2>1, <2>2
<1>7. CASE ListWaiting(r)
  <2>1. CASE Waiting = {}
    <3>1. Turn(r, IdleRequest)
      BY <1>7, <2>1 DEF ListWaiting, Answer
    <3> QED
      BY <1>4, <2>1, <3>1, AdmissionTypes
  <2>2. CASE Waiting # {}
    <3> DEFINE q == [adm[r] EXCEPT !.pc = "update", !.whom = Waiting, !.read = part]
    <3>1. Turn(r, q) /\ adm[r].op \in {"toggle", "approve"}
      BY <1>7, <2>2 DEF ListWaiting
    <3>2. Waiting \in SUBSET Guests
      BY DEF Waiting
    <3>3. /\ q \in Request /\ q.op = adm[r].op /\ q.on = adm[r].on
          /\ q.pc = "update" /\ q.whom = Waiting
      BY <1>3, <3>2 DEF Request
    <3> HIDE DEF q
    <3> QED
      BY <1>4, <3>1, <3>3 DEF LetsIn
  <2> QED
    BY <2>1, <2>2
<1>8. CASE ApproveReceive(r)
  <2>1. \A p \in Guests : ~LetsIn(r, p)
    BY <1>8, AdmissionTypes DEF ApproveReceive, LetsIn
  <2>2. CASE Turn(r, [IdleRequest EXCEPT !.op = "approve", !.pc = "people"])
    <3> DEFINE q == [IdleRequest EXCEPT !.op = "approve", !.pc = "people"]
    <3>1. q \in Request /\ q.op # "share"
      BY AdmissionTypes DEF Request
    <3> HIDE DEF q
    <3> QED
      BY <1>4, <2>1, <2>2, <3>1 DEF q
  <2>3. ASSUME NEW p \in Guests,
               Turn(r, [IdleRequest EXCEPT !.op = "approve", !.pc = "update",
                                           !.whom = {p}, !.read = part])
        PROVE  AdmissionInv'
    <3> DEFINE q == [IdleRequest EXCEPT !.op = "approve", !.pc = "update",
                                        !.whom = {p}, !.read = part]
    <3>1. q \in Request /\ q.op # "share" /\ Turn(r, q)
      BY <1>3, <2>3, AdmissionTypes DEF Request
    <3> HIDE DEF q
    <3> QED
      BY <1>4, <2>1, <3>1
  <2> QED
    BY <1>8, <2>2, <2>3 DEF ApproveReceive
<1> QED
  BY <1>5, <1>6, <1>7, <1>8

LEMMA ToggleWriteInv ==
    ASSUME AdmissionInv, topic = "admission", topic' = topic, NEW r \in Admins, ToggleWrite(r)
    PROVE  AdmissionInv'
<1> DEFINE on == adm[r].on
           new == [adm[r].snap EXCEPT !.waitingRoom = on]
           q == IF on THEN IdleRequest ELSE [adm[r] EXCEPT !.pc = "people"]
<1>1. adm[r] \in Request /\ adm[r].op = "toggle"
  BY DEF AdmissionInv, AdmissionTypeOK, ToggleWrite, Serving
<1>2. on \in BOOLEAN /\ new \in Meta /\ new.waitingRoom = on
  BY <1>1 DEF Request, Meta
<1>3. /\ main' = new /\ Turn(r, q)
      /\ UNCHANGED <<part, token, faults, setter, overwritten, late, rivals>>
  BY DEF ToggleWrite, UpdateRoomMetadata, Answer, AdmHistory
<1>4. /\ q \in Request /\ q.op # "share"
      /\ ~on => q.op = "toggle" /\ ~q.on /\ q.pc = "people"
  <2>1. CASE on
    BY <2>1, AdmissionTypes
  <2>2. CASE ~on
    BY <1>1, <2>2 DEF Request
  <2> QED
    BY <2>1, <2>2
<1> HIDE DEF q, new, on
<1>5. /\ adm' \in [Admins -> Request] /\ adm'[r] = q
      /\ \A x \in Admins \ {r} : adm'[x] = adm[x]
  BY <1>3, <1>4, Turned
<1>6. AdmissionTypeOK' /\ MetaTypes'
  BY <1>2, <1>3, <1>5 DEF AdmissionInv, AdmissionTypeOK, MetaTypes
<1>7. Granted' = Granted
  BY <1>3 DEF Granted
<1>8. SharesAlone' /\ GrantFollows' /\ GrantedOnce'
  BY <1>3, <1>4, <1>5, <1>7, SharesKept
<1>9. WaitersExpected'
  <2>1. CASE on
    BY <1>2, <1>3, <2>1 DEF WaitersExpected, Orderly
  <2>2. CASE ~on
    <3>1. \A p : LetsIn(r, p)'
      BY <1>4, <1>5, <2>2 DEF LetsIn
    <3> QED
      BY <3>1 DEF WaitersExpected
  <2> QED
    BY <2>1, <2>2
<1> QED
  BY <1>3, <1>6, <1>8, <1>9, StatusKept DEF AdmissionInv

LEMMA AdmitInv ==
    ASSUME AdmissionInv, topic = "admission", topic' = topic, NEW r \in Admins,
           NEW p \in Guests, Admit(r, p)
    PROVE  AdmissionInv'
<1> DEFINE q == IF adm[r].whom = {p} THEN IdleRequest ELSE [adm[r] EXCEPT !.whom = @ \ {p}]
<1>1. /\ part \in [Guests -> Participant] /\ adm[r] \in Request /\ late \in SUBSET Guests
      /\ adm[r].op \in {"toggle", "approve"} /\ adm[r].pc = "update"
  BY DEF AdmissionInv, AdmissionTypeOK, Admit
<1>2. /\ Turn(r, q)
      /\ UNCHANGED <<token, faults, main, overtaken, setter, overwritten, rivals>>
  BY DEF Admit, Answer, Elsewhere
<1>3. /\ q \in Request /\ q.op # "share"
      /\ adm[r].whom # {p} => /\ q.op = adm[r].op /\ q.on = adm[r].on /\ q.pc = adm[r].pc
                              /\ q.whom = adm[r].whom \ {p}
  <2>1. CASE adm[r].whom = {p}
    BY <2>1, AdmissionTypes
  <2>2. CASE adm[r].whom # {p}
    BY <1>1, <2>2 DEF Request
  <2> QED
    BY <2>1, <2>2
<1> HIDE DEF q
<1>4. /\ adm' \in [Admins -> Request] /\ adm'[r] = q
      /\ \A x \in Admins \ {r} : adm'[x] = adm[x]
  BY <1>2, <1>3, Turned
<1>5. /\ part' \in [Guests -> Participant] /\ late' \in SUBSET Guests
      /\ \A x \in Guests \ {p} : part'[x] = part[x]
      /\ part'[p].in => part'[p].status = "joined" /\ part'[p].publish /\ part'[p].sources = "all"
      /\ late \ {p} \subseteq late'
  <2>1. CASE part[p].in
    <3>1. /\ part' = [part EXCEPT ![p] = Admitted(p)] /\ late' = late \ {p}
          /\ part[p] \in Participant
      BY <1>1, <2>1 DEF Admit, UpdateParticipant
    <3>2. /\ Admitted(p) \in Participant /\ Admitted(p).status = "joined"
          /\ Admitted(p).publish /\ Admitted(p).sources = "all"
      BY <3>1 DEF Admitted, Participant, Status, Sources
    <3> QED
      BY <1>1, <3>1, <3>2
  <2>2. CASE ~part[p].in
    BY <1>1, <2>2 DEF Admit
  <2> QED
    BY <2>1, <2>2
<1>6. AdmissionTypeOK' /\ MetaTypes'
  BY <1>2, <1>4, <1>5 DEF AdmissionInv, AdmissionTypeOK, MetaTypes
<1>7. Granted' \subseteq Granted
  BY <1>5 DEF Granted
<1>8. SharesAlone' /\ GrantFollows' /\ GrantedOnce'
  BY <1>2, <1>3, <1>4, <1>7, SharesKept
<1>9. StatusMatchesPermission'
  BY <1>2, <1>5 DEF AdmissionInv, StatusMatchesPermission
<1>10. WaitersExpected'
  <2>1. Orderly' => Orderly
    BY <1>2 DEF Orderly
  <2>2. Waiting' \ late' \subseteq Waiting \ late /\ p \notin Waiting'
    BY <1>5 DEF Waiting
  <2>3. ASSUME NEW x \in Admins, NEW g \in Waiting' \ late', LetsIn(x, g)
        PROVE  LetsIn(x, g)'
    <3>1. g # p
      BY <2>2
    <3>2. CASE x = r
      BY <1>1, <1>3, <1>4, <2>3, <3>1, <3>2 DEF LetsIn
    <3>3. CASE x # r
      BY <1>4, <2>3, <3>3 DEF LetsIn
    <3> QED
      BY <3>2, <3>3
  <2> QED
    BY <2>1, <2>2, <2>3, WaitersKept
<1> QED
  BY <1>6, <1>8, <1>9, <1>10 DEF AdmissionInv

(***************************************************************************)
(* Sharing a screen, and roles.                                            *)
(***************************************************************************)
LEMMA PermissionReadInv ==
    ASSUME AdmissionInv, topic = "admission", topic' = topic, NEW r \in Admins,
           NEW p \in Guests, RevokeGet(r, p) \/ RoleGet(r, p)
    PROVE  AdmissionInv'
<1>1. PICK op \in {"revoke", "role"} :
         Turn(r, [IdleRequest EXCEPT !.op = op, !.pc = "update", !.whom = {p}, !.read = part])
  BY DEF RevokeGet, RoleGet
<1> DEFINE q == [IdleRequest EXCEPT !.op = op, !.pc = "update", !.whom = {p}, !.read = part]
<1>2. q \in Request /\ q.op # "share"
  BY AdmissionTypes DEF Request, AdmissionInv, AdmissionTypeOK
<1>3. /\ UNCHANGED <<part, token, AdmHistory, faults>>
      /\ UNCHANGED <<main, overtaken, setter>>
  BY DEF RevokeGet, RoleGet, Elsewhere
<1>4. MetaTypes' /\ token' \in [Guests -> Status \cup {"none"}]
  BY <1>3 DEF AdmissionInv, AdmissionTypeOK, MetaTypes
<1>5. \A g \in Guests : ~LetsIn(r, g)
  BY AdmissionTypes DEF RevokeGet, RoleGet, LetsIn
<1> HIDE DEF q
<1> QED
  BY <1>1, <1>2, <1>3, <1>4, <1>5, ReadingInv DEF q

LEMMA ShareListInv ==
    ASSUME AdmissionInv, topic = "admission", topic' = topic, NEW r \in Admins,
           NEW p \in Guests, ShareList(r, p)
    PROVE  AdmissionInv'
<1> DEFINE q == [IdleRequest EXCEPT !.op = "share", !.pc = "update", !.whom = {p}, !.read = part]
<1>1. q \in Request /\ q.op = "share" /\ q.whom = {p}
  BY AdmissionTypes DEF Request, AdmissionInv, AdmissionTypeOK
<1>2. /\ Turn(r, q) /\ adm[r] = IdleRequest /\ Granted \subseteq {p}
      /\ rivals' = (rivals \/ \E x \in Admins : adm[x].op = "share")
      /\ UNCHANGED <<part, token, faults, overwritten, late, main, overtaken, setter>>
  BY DEF ShareList, MayAsk, Elsewhere
<1> HIDE DEF q
<1>3. /\ adm' \in [Admins -> Request] /\ adm'[r] = q
      /\ \A x \in Admins \ {r} : adm'[x] = adm[x]
  BY <1>1, <1>2, Turned
<1>4. AdmissionTypeOK' /\ MetaTypes'
  BY <1>2, <1>3 DEF AdmissionInv, AdmissionTypeOK, MetaTypes
<1>5. Granted' = Granted /\ Waiting' = Waiting
  BY <1>2 DEF Granted, Waiting
<1>6. ~rivals' => ~rivals /\ \A x \in Admins \ {r} : adm'[x].op # "share"
  BY <1>2, <1>3
<1>7. SharesAlone' /\ GrantFollows' /\ GrantedOnce'
  BY <1>1, <1>2, <1>3, <1>5, <1>6 DEF SharesAlone, GrantFollows, GrantedOnce
<1>8. WaitersExpected'
  <2>1. Orderly' => Orderly
    BY <1>2 DEF Orderly
  <2>2. \A g : ~LetsIn(r, g)
    BY <1>2, AdmissionTypes DEF LetsIn
  <2>3. \A x \in Admins : \A g : LetsIn(x, g) => LetsIn(x, g)'
    BY <1>3, <2>2 DEF LetsIn
  <2> QED
    BY <1>2, <1>5, <2>1, <2>3, WaitersKept
<1> QED
  BY <1>2, <1>4, <1>7, <1>8, StatusKept DEF AdmissionInv

(* What is written over with what was read goes unnoticed only when it     *)
(* had not changed.                                                        *)
LEMMA PermissionWriteInv ==
    ASSUME AdmissionInv, topic = "admission", topic' = topic, NEW r \in Admins,
           NEW p \in Guests, ShareGrant(r, p) \/ RevokeWrite(r, p) \/ RoleWrite(r, p)
    PROVE  AdmissionInv'
<1>1. /\ part \in [Guests -> Participant] /\ adm[r] \in Request /\ late \in SUBSET Guests
      /\ overwritten \in BOOLEAN /\ p \in adm[r].whom
      /\ adm[r].op \in {"share", "revoke", "role"} /\ adm[r].read[p] \in Participant
  BY DEF AdmissionInv, AdmissionTypeOK, ShareGrant, RevokeWrite, RoleWrite, Serving, Request
<1>2. /\ Turn(r, IdleRequest)
      /\ UNCHANGED <<token, faults, late, rivals, main, overtaken, setter>>
  BY DEF ShareGrant, RevokeWrite, RoleWrite, SetSources, Answer, Elsewhere
<1>3. /\ adm' \in [Admins -> Request] /\ adm'[r].op = "none"
      /\ \A x \in Admins \ {r} : adm'[x] = adm[x]
  BY <1>2, AdmissionTypes, Turned
<1>4. /\ part' \in [Guests -> Participant] /\ overwritten' \in BOOLEAN
      /\ \A x \in Guests \ {p} : part'[x] = part[x]
      /\ overwritten => overwritten'
      /\ part'[p].in => part[p].in
      /\ ~overwritten' => part'[p].status = part[p].status /\ part'[p].publish = part[p].publish
      /\ adm[r].op # "share" /\ part'[p].sources = "screen" => part[p].sources = "screen"
  <2>1. CASE ~part[p].in
    BY <1>1, <2>1 DEF ShareGrant, RevokeWrite, RoleWrite, SetSources
  <2>2. ASSUME part[p].in, NEW source \in {"screen", "base"}, SetSources(r, p, source),
               adm[r].op # "share" => source = "base"
        PROVE  /\ part' \in [Guests -> Participant] /\ overwritten' \in BOOLEAN
               /\ \A x \in Guests \ {p} : part'[x] = part[x]
               /\ overwritten => overwritten'
               /\ ~overwritten' => part'[p].status = part[p].status /\ part'[p].publish = part[p].publish
               /\ adm[r].op # "share" => part'[p].sources = "base"
    <3> DEFINE new == [adm[r].read[p] EXCEPT !.sources = source]
    <3>1. /\ new \in Participant /\ new.sources = source
          /\ new.status = adm[r].read[p].status /\ new.publish = adm[r].read[p].publish
      BY <1>1 DEF Participant, Sources
    <3>2. /\ part' = [part EXCEPT ![p] = new]
          /\ overwritten' = (overwritten \/ Stale(r, p, {"status", "publish"}))
      BY <2>2 DEF SetSources, UpdateParticipant
    <3>3. ~Stale(r, p, {"status", "publish"}) =>
             part[p].status = adm[r].read[p].status /\ part[p].publish = adm[r].read[p].publish
      BY DEF Stale
    <3>4. overwritten' \in BOOLEAN
      BY <1>1, <3>2, Zenon DEF Stale
    <3> HIDE DEF new
    <3> QED
      BY <1>1, <2>2, <3>1, <3>2, <3>3, <3>4
  <2>3. CASE part[p].in /\ RoleWrite(r, p)
    <3> DEFINE new == [part[p] EXCEPT !.status = adm[r].read[p].status]
    <3>1. /\ new \in Participant /\ new.sources = part[p].sources
          /\ new.status = adm[r].read[p].status /\ new.publish = part[p].publish
      BY <1>1 DEF Participant, Status
    <3>2. /\ part' = [part EXCEPT ![p] = new]
          /\ overwritten' = (overwritten \/ Stale(r, p, {"status"}))
      BY <2>3 DEF RoleWrite, UpdateParticipant
    <3>3. ~Stale(r, p, {"status"}) => part[p].status = adm[r].read[p].status
      BY DEF Stale
    <3>4. overwritten' \in BOOLEAN
      BY <1>1, <3>2, Zenon DEF Stale
    <3> HIDE DEF new
    <3> QED
      BY <1>1, <2>3, <3>1, <3>2, <3>3, <3>4
  <2>4. CASE part[p].in /\ (ShareGrant(r, p) \/ RevokeWrite(r, p))
    BY <2>2, <2>4 DEF ShareGrant, RevokeWrite, Serving
  <2> QED
    BY <2>1, <2>3, <2>4
<1>5. AdmissionTypeOK' /\ MetaTypes'
  BY <1>2, <1>3, <1>4 DEF AdmissionInv, AdmissionTypeOK, MetaTypes
<1>6. SharesAlone' /\ GrantFollows' /\ GrantedOnce'
  <2>1. CASE adm[r].op # "share"
    <3>1. Granted' \subseteq Granted
      BY <1>4, <2>1 DEF Granted
    <3> QED
      BY <1>2, <1>3, <3>1, SharesKept
  <2>2. CASE adm[r].op = "share"
    <3>1. ~rivals' => \A x \in Admins : adm'[x].op # "share"
      BY <1>2, <1>3, <2>2 DEF AdmissionInv, SharesAlone
    <3>2. ~rivals' => Granted' \subseteq {p}
      <4>1. ~rivals => Granted \subseteq {p}
        BY <1>1, <2>2 DEF AdmissionInv, GrantFollows
      <4>2. Granted' \subseteq Granted \cup {p}
        BY <1>4 DEF Granted
      <4> QED
        BY <1>2, <4>1, <4>2
    <3> QED
      BY <3>1, <3>2 DEF SharesAlone, GrantFollows, GrantedOnce
  <2> QED
    BY <2>1, <2>2
<1>7. StatusMatchesPermission'
  BY <1>4 DEF AdmissionInv, StatusMatchesPermission
<1>8. WaitersExpected'
  <2>1. CASE overwritten'
    BY <2>1 DEF WaitersExpected, Orderly
  <2>2. CASE ~overwritten'
    <3>1. Orderly' => Orderly
      BY <1>2, <1>4 DEF Orderly
    <3>2. Waiting' \ late' \subseteq Waiting \ late
      BY <1>2, <1>4, <2>2 DEF Waiting
    <3>3. \A x \in Admins : \A g : LetsIn(x, g) => LetsIn(x, g)'
      BY <1>1, <1>3 DEF LetsIn
    <3> QED
      BY <3>1, <3>2, <3>3, WaitersKept
  <2> QED
    BY <2>1, <2>2
<1> QED
  BY <1>5, <1>6, <1>7, <1>8 DEF AdmissionInv

LEMMA RequestFailsInv ==
    ASSUME AdmissionInv, topic = "admission", topic' = topic, NEW r \in Admins, RequestFails(r)
    PROVE  AdmissionInv'
<1>1. /\ Turn(r, IdleRequest) /\ faults' = faults + 1
      /\ UNCHANGED <<part, token, main, overtaken, setter, overwritten, late, rivals>>
  BY DEF RequestFails, Answer, Fault, Elsewhere, AdmHistory
<1>2. /\ adm' \in [Admins -> Request] /\ adm'[r].op = "none"
      /\ \A x \in Admins \ {r} : adm'[x] = adm[x]
  BY <1>1, AdmissionTypes, Turned
<1>3. AdmissionTypeOK' /\ MetaTypes'
  BY <1>1, <1>2 DEF AdmissionInv, AdmissionTypeOK, MetaTypes
<1>4. Granted' = Granted
  BY <1>1 DEF Granted
<1>5. SharesAlone' /\ GrantFollows' /\ GrantedOnce'
  BY <1>1, <1>2, <1>4, SharesKept
<1>6. WaitersExpected'
  BY <1>1 DEF AdmissionInv, MetaTypes, WaitersExpected, Orderly
<1> QED
  BY <1>1, <1>3, <1>5, <1>6, StatusKept DEF AdmissionInv

(***************************************************************************)
(* All steps.                                                              *)
(***************************************************************************)
LEMMA AdmissionStepInv ==
    ASSUME AdmissionInv, topic = "admission", topic' = topic, AdmissionStep
    PROVE  AdmissionInv'
<1>1. ASSUME NEW p \in Guests, IssueToken(p)
      PROVE  AdmissionInv'
  <2>1. UNCHANGED <<part, adm, AdmHistory, faults, main, overtaken, setter>>
    BY <1>1 DEF IssueToken, Elsewhere
  <2>2. token' \in [Guests -> Status \cup {"none"}]
    BY <1>1 DEF IssueToken, AdmissionInv, AdmissionTypeOK, Status
  <2>3. MetaTypes' /\ (Orderly' => Orderly)
    BY <2>1 DEF AdmissionInv, MetaTypes, Orderly, AdmHistory
  <2> QED
    BY <2>1, <2>2, <2>3, UnmovedInv
<1>2. ASSUME NEW p \in Guests, Connect(p) \/ Disconnect(p)
      PROVE  AdmissionInv'
  BY <1>2, PresenceInv
<1>3. ASSUME NEW r \in Admins,
             \/ \E on \in BOOLEAN : ToggleReceive(r, on)
             \/ ToggleList(r) \/ ListWaiting(r) \/ ApproveReceive(r)
      PROVE  AdmissionInv'
  BY <1>3, ToggleInv
<1>4. ASSUME NEW r \in Admins, ToggleWrite(r) \/ RequestFails(r)
      PROVE  AdmissionInv'
  BY <1>4, ToggleWriteInv, RequestFailsInv
<1>5. ASSUME NEW r \in Admins, NEW p \in Guests,
             Admit(r, p) \/ RevokeGet(r, p) \/ RoleGet(r, p) \/ ShareList(r, p)
      PROVE  AdmissionInv'
  BY <1>5, AdmitInv, PermissionReadInv, ShareListInv
<1>6. ASSUME NEW r \in Admins, NEW p \in Guests,
             ShareGrant(r, p) \/ RevokeWrite(r, p) \/ RoleWrite(r, p)
      PROVE  AdmissionInv'
  BY <1>6, PermissionWriteInv
<1> QED
  BY <1>1, <1>2, <1>3, <1>4, <1>5, <1>6 DEF AdmissionStep

(* A request for a setting changes the switch only by writing an old value *)
(* back, which is recorded.                                                *)
LEMMA SettingStepInv ==
    ASSUME AdmissionInv, topic = "admission", topic' = topic, NEW busy, SettingStep(busy),
           UNCHANGED admissionVars
    PROVE  AdmissionInv'
<1>1. UNCHANGED <<part, token, adm, AdmHistory>> /\ MetaTypes
  BY DEF admissionVars, AdmHistory, AdmissionInv
<1>2. PICK r \in Setters : \/ SettingReceive(r, busy) \/ SettingList(r)
                           \/ SettingWrite(r) \/ SettingFails(r)
  BY DEF SettingStep
<1>3. IdleSetter \in [pc : {"idle", "list", "write"}, snap : Meta]
  BY AdmissionTypes DEF IdleSetter
<1>4. MetaTypes' /\ (Orderly' => Orderly)
  <2>1. CASE SettingReceive(r, busy) \/ SettingList(r)
    BY <1>1, <2>1 DEF SettingReceive, SettingList, MetaTypes, Orderly, AdmHistory
  <2>2. CASE SettingFails(r)
    BY <1>1, <1>3, <2>2 DEF SettingFails, Fault, MetaTypes, Orderly, AdmHistory
  <2>3. CASE SettingWrite(r)
    <3>1. PICK b \in BOOLEAN :
             UpdateRoomMetadata([setter[r].snap EXCEPT !.setting = b], {"setting"})
      BY <2>3 DEF SettingWrite
    <3> DEFINE new == [setter[r].snap EXCEPT !.setting = b]
    <3>2. new \in Meta
      BY <1>1 DEF MetaTypes, Meta
    <3>3. main' = new /\ overtaken' = (overtaken \/ Clobbers(new, {"setting"}))
      BY <3>1 DEF UpdateRoomMetadata
    <3>4. ~Clobbers(new, {"setting"}) => new.waitingRoom = main.waitingRoom
      <4>1. "waitingRoom" \in DOMAIN main \ {"setting"}
        BY <1>1 DEF MetaTypes, Meta
      <4> HIDE DEF new
      <4> QED
        BY <4>1 DEF Clobbers
    <3> HIDE DEF new
    <3> QED
      BY <1>1, <1>3, <2>3, <3>2, <3>3, <3>4 DEF SettingWrite, MetaTypes, Orderly, AdmHistory
  <2> QED
    BY <1>2, <2>1, <2>2, <2>3
<1>5. token' \in [Guests -> Status \cup {"none"}]
  BY <1>1 DEF AdmissionInv, AdmissionTypeOK
<1> QED
  BY <1>1, <1>4, <1>5, UnmovedInv

(* Where admission is not at work its variables keep their first values.   *)
LEMMA AdmissionElsewhere ==
    ASSUME AdmissionInv, topic # "admission", topic' = topic, UNCHANGED admissionVars
    PROVE  AdmissionInv'
<1>1. AdmissionInit'
  BY DEF AdmissionInv, AdmissionInit, admissionVars
<1>2. AdmissionTypeOK' /\ SharesAlone' /\ GrantFollows' /\ GrantedOnce'
      /\ StatusMatchesPermission' /\ WaitersExpected'
  BY <1>1, NobodyThere, PTL
<1> QED
  BY <1>1, <1>2 DEF AdmissionInv

LEMMA AdmissionNextInv ==
    ASSUME AdmissionInv, [Next]_vars
    PROVE  AdmissionInv'
<1>1. CASE Govern
  BY <1>1, AdmissionStepInv DEF Govern
<1>2. CASE Break(BreakoutStep) \/ Record
  BY <1>2, AdmissionElsewhere DEF Break, Record
<1>3. CASE Set
  BY <1>3, SettingStepInv, AdmissionElsewhere DEF Set
<1>4. CASE UNCHANGED vars
  <2>1. /\ UNCHANGED <<main, setter, faults, overtaken, topic>>
        /\ UNCHANGED admissionVars
        /\ UNCHANGED <<part, adm, token, AdmHistory>>
    BY <1>4 DEF vars, metaVars, admissionVars, AdmHistory
  <2>2. CASE topic # "admission"
    BY <2>1, <2>2, AdmissionElsewhere
  <2>3. CASE topic = "admission"
    <3>1. MetaTypes' /\ (Orderly' => Orderly)
      BY <2>1, <2>3 DEF AdmissionInv, MetaTypes, Orderly, AdmHistory
    <3>2. token' \in [Guests -> Status \cup {"none"}]
      BY <2>1 DEF AdmissionInv, AdmissionTypeOK
    <3> QED
      BY <2>1, <2>3, <3>1, <3>2, UnmovedInv
  <2> QED
    BY <2>2, <2>3
<1> QED
  BY <1>1, <1>2, <1>3, <1>4 DEF Next, Rest

(***************************************************************************)
(* Theorems.                                                               *)
(***************************************************************************)
(* The invariant of the admission: what the requests under way will still  *)
(* do for those who wait, and whom a permission is about to go to.         *)
THEOREM AdmissionInvariantHolds == Spec => []AdmissionInv
<1>1. Init => AdmissionInv
  BY AdmissionInitInv
<1>2. AdmissionInv /\ [Next]_vars => AdmissionInv'
  BY AdmissionNextInv
<1> QED
  BY <1>1, <1>2, PTL DEF Spec

(* The status the clients show and the permission LiveKit enforces agree,  *)
(* unless a request wrote back what had changed since it read it.          *)
THEOREM StatusMatchesPermissionAlways == Spec => []StatusMatchesPermission
<1>1. AdmissionInv => StatusMatchesPermission
  BY DEF AdmissionInv
<1> QED
  BY <1>1, AdmissionInvariantHolds, PTL

(* Switching the waiting room off leaves nobody in it but who came too     *)
(* late (toggleWaitingRoom).                                               *)
THEOREM NobodyLeftWaitingAlways == Spec => []NobodyLeftWaiting
<1>1. AdmissionInv => NobodyLeftWaiting
  <2> SUFFICES ASSUME WaitersExpected, AdminsRest, Orderly
               PROVE  Waiting \subseteq late
    BY DEF AdmissionInv, NobodyLeftWaiting, Orderly
  <2>1. \A r \in Admins : adm[r].op = "none"
    BY DEF AdminsRest, BusyAdmins
  <2> QED
    BY <2>1 DEF WaitersExpected, LetsIn
<1> QED
  BY <1>1, AdmissionInvariantHolds, PTL

(* Two participants may share a screen at the same time only if one of     *)
(* them was let in with every source open, or two asked at once            *)
(* (requestScreenShare, toggleWaitingRoom, approveParticipant).            *)
THEOREM OneGrantAlways == Spec => []OneGrant
<1>1. AdmissionInv => OneGrant
  <2> SUFFICES ASSUME AdmissionInv, ~rivals, NEW p \in Sharers, NEW q \in Sharers, p # q,
                      part[p].sources # "all", part[q].sources # "all"
               PROVE  FALSE
    BY DEF OneGrant
  <2>1. p \in Granted /\ q \in Granted
    BY DEF Sharers, Granted
  <2> QED
    BY <2>1 DEF AdmissionInv, GrantedOnce
<1> QED
  BY <1>1, AdmissionInvariantHolds, PTL
==============================================================================
