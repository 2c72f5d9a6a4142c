------------------------------- MODULE Admission ------------------------------
(***************************************************************************)
(* Who may do what in the main room: the waiting room of MeetingsService   *)
(* and the permission to share a screen. LiveKit keeps, for each           *)
(* participant, metadata (with the status) and permissions; the requests   *)
(* read a participant with getParticipant or listParticipants and write it *)
(* back with updateParticipant. The waiting room's switch is waitingRoom   *)
(* in the metadata of the room.                                            *)
(***************************************************************************)
EXTENDS RoomMetadata

CONSTANTS
    Guests,    \* participants the requests are about
    Admins     \* requests served at the same time

ASSUME AdmissionAssumption == IsFiniteSet(Admins)

VARIABLES
    part,         \* each participant as LiveKit has it
    token,        \* the status in the token a person holds, if any
    adm,          \* what each request is doing
    overwritten,  \* history: a write restored an old status or permission
    late,         \* history: who connected as waiting too late to be let in
    rivals        \* history: two requests to share a screen overlapped

admissionVars == <<part, token, adm, overwritten, late, rivals>>

Status == {"waiting", "joined"}
Sources == {"base", "screen", "all"}

(* publish is permission.canPublish, sources is canPublishSources: camera  *)
(* and microphone, those and the screen, or an absent list, which is all.  *)
Participant == [in : BOOLEAN, status : Status, publish : BOOLEAN,
                sources : Sources]
Absent == [in |-> FALSE, status |-> "joined", publish |-> FALSE,
           sources |-> "base"]

(* whom are the participants still to be updated, read is what was read of *)
(* them, on is the new value of the switch.                                *)
Request == [op : {"none", "toggle", "approve", "share", "revoke", "role"},
            pc : {"idle", "list", "write", "people", "update"},
            snap : Meta, on : BOOLEAN, whom : SUBSET Guests,
            read : [Guests -> Participant]]
IdleRequest == [op |-> "none", pc |-> "idle", snap |-> FirstMeta, on |-> FALSE,
                whom |-> {}, read |-> [p \in Guests |-> Absent]]

AdmissionTypeOK ==
    /\ part \in [Guests -> Participant]
    /\ token \in [Guests -> Status \cup {"none"}]
    /\ adm \in [Admins -> Request]
    /\ overwritten \in BOOLEAN
    /\ late \in SUBSET Guests
    /\ rivals \in BOOLEAN

AdmissionInit ==
    /\ part = [p \in Guests |-> Absent]
    /\ token = [p \in Guests |-> "none"]
    /\ adm = [r \in Admins |-> IdleRequest]
    /\ overwritten = FALSE
    /\ late = {}
    /\ rivals = FALSE

BusyAdmins == {r \in Admins : adm[r].op # "none"}
AskAdmin == AskBeside(BusyAdmins)
Serving(r, op, pc) == adm[r].op = op /\ adm[r].pc = pc
Turn(r, q) == adm' = [adm EXCEPT ![r] = q]
Answer(r) == Turn(r, IdleRequest)
Elsewhere == UNCHANGED <<main, overtaken, setter>>
AdmHistory == <<overwritten, late, rivals>>

(* updateParticipant of one participant, who must be there. *)
UpdateParticipant(p, new) ==
    /\ part[p].in
    /\ part' = [part EXCEPT ![p] = new]

(* A write of something that has changed since it was read, other than     *)
(* what the request is about.                                              *)
Stale(r, p, fields) == \E f \in fields : part[p][f] # adm[r].read[p][f]

(***************************************************************************)
(* The end of joinMeeting, and the participant.                            *)
(***************************************************************************)
IssueToken(p) ==
    /\ token[p] = "none" /\ ~part[p].in
    /\ token' = [token EXCEPT ![p] = IF main.waitingRoom THEN "waiting" ELSE "joined"]
    /\ UNCHANGED <<part, adm, asked, faults, AdmHistory>> /\ Elsewhere

(* A waiter the switch was turned off for already, or is being. *)
TooLate == ~main.waitingRoom \/ \E r \in Admins : adm[r].op = "toggle"

Connect(p) ==
    /\ token[p] # "none"
    /\ token' = [token EXCEPT ![p] = "none"]
    /\ part' = [part EXCEPT ![p] = [in |-> TRUE, status |-> token[p],
                                    publish |-> token[p] = "joined",
                                    sources |-> "base"]]
    /\ late' = IF token[p] = "waiting" /\ TooLate THEN late \cup {p} ELSE late
    /\ UNCHANGED <<adm, asked, faults, overwritten, rivals>> /\ Elsewhere

(* Also removeParticipant. *)
Disconnect(p) ==
    /\ part[p].in
    /\ part' = [part EXCEPT ![p] = Absent]
    /\ late' = late \ {p}
    /\ UNCHANGED <<token, adm, asked, faults, overwritten, rivals>> /\ Elsewhere

(***************************************************************************)
(* toggleWaitingRoom; turned off, it lets in who is waiting, as            *)
(* approveParticipant does for "all".                                      *)
(***************************************************************************)
ToggleReceive(r, on) ==
    /\ adm[r] = IdleRequest
    /\ AskAdmin
    /\ Turn(r, [IdleRequest EXCEPT !.op = "toggle", !.pc = "list", !.on = on])
    /\ UNCHANGED <<part, token, faults, AdmHistory>> /\ Elsewhere

ToggleList(r) ==
    /\ Serving(r, "toggle", "list")
    /\ Turn(r, [adm[r] EXCEPT !.pc = "write", !.snap = main])
    /\ UNCHANGED <<part, token, asked, faults, AdmHistory>> /\ Elsewhere

(* Mutant: whoever is waiting when the switch is turned off stays there. *)
ToggleWriteOnly(r) ==
    /\ Serving(r, "toggle", "write")
    /\ UpdateRoomMetadata([adm[r].snap EXCEPT !.waitingRoom = adm[r].on],
                          {"waitingRoom"})
    /\ Answer(r)
    /\ UNCHANGED <<part, token, asked, faults, setter, AdmHistory>>

ToggleWrite(r) ==
    /\ Serving(r, "toggle", "write")
    /\ UpdateRoomMetadata([adm[r].snap EXCEPT !.waitingRoom = adm[r].on],
                          {"waitingRoom"})
    /\ IF adm[r].on THEN Answer(r) ELSE Turn(r, [adm[r] EXCEPT !.pc = "people"])
    /\ UNCHANGED <<part, token, asked, faults, setter, AdmHistory>>

Waiting == {p \in Guests : part[p].in /\ part[p].status = "waiting"}

ListWaiting(r) ==
    /\ adm[r].op \in {"toggle", "approve"} /\ adm[r].pc = "people"
    /\ IF Waiting = {} THEN Answer(r)
       ELSE Turn(r, [adm[r] EXCEPT !.pc = "update", !.whom = Waiting, !.read = part])
    /\ UNCHANGED <<part, token, asked, faults, AdmHistory>> /\ Elsewhere

ApproveReceive(r) ==
    /\ adm[r] = IdleRequest
    /\ AskAdmin
    /\ \/ Turn(r, [IdleRequest EXCEPT !.op = "approve", !.pc = "people"])
       \/ \E p \in Guests :
             /\ part[p].in
             /\ Turn(r, [IdleRequest EXCEPT !.op = "approve", !.pc = "update",
                                            !.whom = {p}, !.read = part])
    /\ UNCHANGED <<part, token, faults, AdmHistory>> /\ Elsewhere

(* Mutant: the permissions are not opened. *)
AdmittedSilent(p) == [part[p] EXCEPT !.status = "joined"]

(* Mutant: a status no client knows. *)
AdmittedUnknown(p) == [part[p] EXCEPT !.status = "approved", !.publish = TRUE,
                                      !.sources = "all"]

Admitted(p) == [part[p] EXCEPT !.status = "joined", !.publish = TRUE,
                               !.sources = "all"]

(* The updates are sent in parallel; one for a participant who has left    *)
(* fails, the others have their effect.                                    *)
Admit(r, p) ==
    /\ adm[r].op \in {"toggle", "approve"} /\ adm[r].pc = "update"
    /\ p \in adm[r].whom
    /\ IF part[p].in
       THEN UpdateParticipant(p, Admitted(p)) /\ late' = late \ {p}
       ELSE UNCHANGED <<part, late>>
    /\ IF adm[r].whom = {p} THEN Answer(r)
       ELSE Turn(r, [adm[r] EXCEPT !.whom = @ \ {p}])
    /\ UNCHANGED <<token, asked, faults, overwritten, rivals>> /\ Elsewhere

(***************************************************************************)
(* requestScreenShare, revokeScreenShare and updateParticipantRole.        *)
(***************************************************************************)
(* Whose list of sources names the screen: what a request looks for.       *)
Granted == {p \in Guests : part[p].in /\ part[p].sources = "screen"}

(* Mutant: nobody else's permission is looked at. *)
AlwaysMayAsk(p) == TRUE

(* Refused while somebody else has the permission. *)
MayAsk(p) == Granted \subseteq {p}

ShareList(r, p) ==
    /\ adm[r] = IdleRequest
    /\ AskAdmin
    /\ part[p].in
    /\ MayAsk(p)
    /\ Turn(r, [IdleRequest EXCEPT !.op = "share", !.pc = "update",
                                   !.whom = {p}, !.read = part])
    /\ rivals' = (rivals \/ \E x \in Admins : adm[x].op = "share")
    /\ UNCHANGED <<part, token, faults, overwritten, late>> /\ Elsewhere

RevokeGet(r, p) ==
    /\ adm[r] = IdleRequest
    /\ AskAdmin
    /\ part[p].in
    /\ Turn(r, [IdleRequest EXCEPT !.op = "revoke", !.pc = "update",
                                   !.whom = {p}, !.read = part])
    /\ UNCHANGED <<part, token, faults, AdmHistory>> /\ Elsewhere

(* Both write the metadata and the other permissions as they were read. *)
SetSources(r, p, new) ==
    /\ IF part[p].in
       THEN /\ UpdateParticipant(p, [adm[r].read[p] EXCEPT !.sources = new])
            /\ overwritten' = \/ overwritten
                              \/ Stale(r, p, {"status", "publish"})
       ELSE UNCHANGED <<part, overwritten>>
    /\ Answer(r)
    /\ UNCHANGED <<token, asked, faults, late, rivals>> /\ Elsewhere

ShareGrant(r, p) ==
    /\ Serving(r, "share", "update") /\ p \in adm[r].whom
    /\ SetSources(r, p, "screen")

RevokeWrite(r, p) ==
    /\ Serving(r, "revoke", "update") /\ p \in adm[r].whom
    /\ SetSources(r, p, "base")

RoleGet(r, p) ==
    /\ adm[r] = IdleRequest
    /\ AskAdmin
    /\ part[p].in
    /\ Turn(r, [IdleRequest EXCEPT !.op = "role", !.pc = "update",
                                   !.whom = {p}, !.read = part])
    /\ UNCHANGED <<part, token, faults, AdmHistory>> /\ Elsewhere

(* Only the metadata is written, with the status as it was read. *)
RoleWrite(r, p) ==
    /\ Serving(r, "role", "update") /\ p \in adm[r].whom
    /\ IF part[p].in
       THEN /\ UpdateParticipant(p, [part[p] EXCEPT !.status = adm[r].read[p].status])
            /\ overwritten' = (overwritten \/ Stale(r, p, {"status"}))
       ELSE UNCHANGED <<part, overwritten>>
    /\ Answer(r)
    /\ UNCHANGED <<token, asked, faults, late, rivals>> /\ Elsewhere

(* A failing call ends its request; what it has done stays. *)
RequestFails(r) ==
    /\ adm[r].op # "none"
    /\ Fault
    /\ Answer(r)
    /\ UNCHANGED <<part, token, asked, AdmHistory>> /\ Elsewhere

AdmissionStep ==
    \/ \E p \in Guests : IssueToken(p) \/ Connect(p) \/ Disconnect(p)
    \/ \E r \in Admins :
          \/ \E on \in BOOLEAN : ToggleReceive(r, on)
          \/ ToggleList(r) \/ ToggleWrite(r) \/ ListWaiting(r)
          \/ ApproveReceive(r) \/ RequestFails(r)
          \/ \E p \in Guests :
                \/ Admit(r, p) \/ ShareList(r, p) \/ ShareGrant(r, p)
                \/ RevokeGet(r, p) \/ RevokeWrite(r, p)
                \/ RoleGet(r, p) \/ RoleWrite(r, p)

(***************************************************************************)
(* Properties.                                                             *)
(***************************************************************************)
AdminsRest == BusyAdmins = {}

(* Who is shown the waiting room cannot be heard or seen, and who is shown *)
(* the meeting can: status and permission of a participant agree, although *)
(* one is metadata the clients read and the other is enforced by LiveKit,  *)
(* unless a request wrote back what had changed since it read it.          *)
StatusMatchesPermission ==
    ~overwritten => \A p \in Guests :
        part[p].in => (part[p].publish <=> part[p].status = "joined")

(* When the waiting room is off and nothing is being done, nobody is left  *)
(* in it but those who connected with a token for it too late, or whom a   *)
(* failing call or an overwritten status left there.                       *)
NobodyLeftWaiting ==
    (AdminsRest /\ ~main.waitingRoom /\ ~overwritten /\ ~overtaken /\ faults = 0)
        => Waiting \subseteq late

(* Whom LiveKit lets publish the screen: who may publish at all and whose  *)
(* list of sources names it, or is absent.                                 *)
Sharers == {p \in Guests : /\ part[p].in /\ part[p].publish
                           /\ part[p].sources \in {"screen", "all"}}

(* Two participants may share a screen at the same time only if one of     *)
(* them did not have to ask for it, because letting him in opened every    *)
(* source to him without a list that would show it, or if two requests for *)
(* it were served at once. ("Refused if somebody else is sharing already", *)
(* meetings.service.ts:791, would allow neither.)                          *)
OneGrant ==
    ~rivals => \A p, q \in Sharers :
        p # q => "all" \in {part[p].sources, part[q].sources}
==============================================================================
