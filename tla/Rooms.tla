--------------------------------- MODULE Rooms --------------------------------
(***************************************************************************)
(* A room with its members and channels (RoomsService, RoomMemberService   *)
(* and RoomChannelService): one document, which each request finds, checks *)
(* against its rules and saves. A request whose check fails changes        *)
(* nothing and is left out, as are names. Channels have no members but the *)
(* ones listed: a private channel those it admits, a public one those with *)
(* a role of their own in it.                                              *)
(***************************************************************************)
EXTENDS Documents

CONSTANTS
    Users,            \* everybody who may be in the room
    Channels,         \* channels the room can have besides General
    MaxMembers,       \* active members of a room (500)
    MaxAdmins,        \* admins of a room, or of a channel (3)
    MaxPrivate,       \* people in a private channel (100)
    MaxRoomRequests

ASSUME RoomsAssumption == IsFiniteSet(Users) /\ MaxMembers \in Nat

VARIABLES
    owner,      \* ownerId
    members,    \* the entries of each user in members, oldest first
    channel,    \* each channel: whether it was created, and who is listed
    over,       \* the room is disbanded
    roomReq,    \* what each request is doing
    blind,      \* history: entries pushed on a room changed since it was read
    strays      \* history: users listed in a channel while not in the room

roomVars == <<owner, members, channel, over, roomReq, blind, strays>>

Listed == {"none", "member", "admin"}
Entry == [role : {"owner", "admin", "member"}, status : {"active", "removed", "left"}]
Newcomer == [role |-> "member", status |-> "active"]
RoomOps == {"none", "join", "rejoin", "add", "addBack", "remove", "setRole",
            "transfer", "leave", "disband", "newChannel", "setChannelRole",
            "addToChannel", "removeFromChannel", "renameChannel"}

(* by asks it, of whom; to is the new role, in a new channel what who is   *)
(* invited becomes: a member of a private one, nothing in a public one.    *)
RoomRequest == [op : RoomOps, by : Users \cup {NoOne}, whom : Users \cup {NoOne},
                ch : Channels \cup {"none"}, to : Listed]
NoRequest == [op |-> "none", by |-> NoOne, whom |-> NoOne, ch |-> "none",
              to |-> "none"]

RoomTypeOK ==
    /\ owner \in Users
    /\ members \in [Users -> Seq(Entry)]
    /\ channel \in [Channels -> [there : BOOLEAN, private : BOOLEAN,
                            role : [Users -> Listed]]]
    /\ over \in BOOLEAN
    /\ roomReq \in [Slots -> RoomRequest]
    /\ blind \in [Users -> Nat]
    /\ strays \subseteq Users

(* createRoom, and some of the others have joined already. *)
RoomInit ==
    /\ owner \in Users
    /\ \E joined \in {s \in SUBSET (Users \ {owner}) : Cardinality(s) < MaxMembers} :
          members = [u \in Users |->
                        IF u = owner THEN <<[Newcomer EXCEPT !.role = "owner"]>>
                        ELSE IF u \in joined THEN <<Newcomer>> ELSE <<>>]
    /\ channel = [c \in Channels |-> [there |-> FALSE, private |-> FALSE,
                                      role |-> [u \in Users |-> "none"]]]
    /\ over = FALSE
    /\ roomReq = [r \in Slots |-> NoRequest]
    /\ blind = [u \in Users |-> 0]
    /\ strays = {}

(***************************************************************************)
(* Looking into the document. find returns the first entry that fits.      *)
(***************************************************************************)
Actives(u) == {i \in DOMAIN members[u] : members[u][i].status = "active"}
IsActive(u) == Actives(u) # {}
Find(u) == CHOOSE i \in Actives(u) : \A j \in Actives(u) : i <= j
Role(u) == IF IsActive(u) THEN members[u][Find(u)].role ELSE "none"
ActiveEntries == UNION {{u} \X Actives(u) : u \in Users}
AdminEntries == {e \in ActiveEntries : members[e[1]][e[2]].role = "admin"}
Removed(u) == ~IsActive(u) /\ \E i \in DOMAIN members[u] : members[u][i].status = "removed"

Leads(u) == u = owner \/ Role(u) = "owner"
CanManage(u, c) == Leads(u) \/ channel[c].role[u] = "admin"

(***************************************************************************)
(* Receiving a request: the document is found, and what it asks for is     *)
(* checked against it.                                                     *)
(***************************************************************************)
BusyRooms == {r \in Slots : roomReq[r].op # "none"}
RoomData == <<owner, members, channel, over, blind, strays>>

RoomFree(r) == roomReq[r] = NoRequest /\ asked < MaxRoomRequests

Accept(r, op, by, whom, c, to) ==
    /\ op = "disband" \/ ~over
    /\ asked' = asked + 1
    /\ roomReq' = [roomReq EXCEPT ![r] = [op |-> op, by |-> by, whom |-> whom,
                                          ch |-> c, to |-> to]]
    /\ UNCHANGED <<RoomData, stale>>

(* Mutant: whoever was removed may come back by himself. *)
MayJoinRemoved(u) ==
    /\ Cardinality(ActiveEntries) < MaxMembers
    /\ ~IsActive(u)

MayJoin(u) ==
    /\ Cardinality(ActiveEntries) < MaxMembers
    /\ ~IsActive(u) /\ ~Removed(u)

JoinReceive(r, u) ==
    /\ MayJoin(u)
    /\ Accept(r, IF members[u] = <<>> THEN "join" ELSE "rejoin", u, u, "none", "none")

(* A removed member is added again by the leader or an admin only. *)
MayAdd(by, u) ==
    /\ by = owner \/ IsActive(by)
    /\ u # owner /\ ~IsActive(u)
    /\ Cardinality(ActiveEntries) < MaxMembers
    /\ (members[u] # <<>> /\ members[u][1].status = "removed")
          => by = owner \/ Role(by) \in {"owner", "admin"}

(* Mutant: an earlier entry of the user is not looked for. *)
AddReceiveNew(r, by, u) ==
    /\ MayAdd(by, u)
    /\ Accept(r, "add", by, u, "none", "none")

AddReceive(r, by, u) ==
    /\ MayAdd(by, u)
    /\ Accept(r, IF members[u] = <<>> THEN "add" ELSE "addBack", by, u, "none", "none")

RemoveReceive(r, by, u) ==
    /\ Leads(by) \/ Role(by) = "admin"
    /\ IsActive(u) /\ ~Leads(u)
    /\ ~(Role(by) = "admin" /\ Role(u) = "admin")
    /\ Accept(r, "remove", by, u, "none", "none")

SetRoleReceive(r, by, u, to) ==
    /\ Role(by) = "owner" /\ by # u
    /\ IsActive(u) /\ Role(u) # "owner"
    /\ (to = "admin" /\ Role(u) # "admin") => Cardinality(AdminEntries) < MaxAdmins
    /\ Accept(r, "setRole", by, u, "none", to)

TransferReceive(r, by, u) ==
    /\ Role(by) = "owner" /\ by # u
    /\ IsActive(u)
    /\ Accept(r, "transfer", by, u, "none", "none")

(* The last one to leave disbands the room, an owner names an heir; an     *)
(* heir may be named by others too.                                        *)
LeaveReceive(r, u, heir) ==
    /\ IsActive(u) /\ ~over
    /\ IF Role(u) = "owner" /\ Cardinality(ActiveEntries) = 1
       THEN Accept(r, "disband", u, u, "none", "none")
       ELSE /\ Role(u) = "owner" => heir # NoOne /\ IsActive(heir)
            /\ Accept(r, "leave", u, heir, "none", "none")

DisbandReceive(r, by) ==
    /\ by = owner
    /\ Accept(r, "disband", by, by, "none", "none")

(* The members invited to a new channel are taken from the request as they *)
(* are; one of them is enough here. Only a private channel lists them.     *)
NewChannelReceive(r, by, c, u, to) ==
    /\ by = owner /\ ~channel[c].there
    /\ \A x \in Slots : roomReq[x].ch # c
    /\ Accept(r, "newChannel", by, u, c, to)

SetChannelRoleReceive(r, by, c, u, to) ==
    /\ CanManage(by, c) /\ channel[c].there
    /\ u # owner
    /\ to = "admin" => Cardinality({x \in Users \ {u, owner} :
                                       channel[c].role[x] = "admin"}) < MaxAdmins
    /\ Accept(r, "setChannelRole", by, u, c, to)

(* Also brings the user into the room. *)
AddToChannelReceive(r, by, c, u) ==
    /\ CanManage(by, c) /\ channel[c].there
    /\ u # by
    /\ channel[c].private =>
          Cardinality({x \in Users : channel[c].role[x] # "none"}) + 1 < MaxPrivate
    /\ (members[u] = <<>> \/ members[u][1].status # "active")
          => Cardinality(ActiveEntries) < MaxMembers
    /\ channel[c].role[u] = "none"
    /\ Accept(r, "addToChannel", by, u, c, "none")

(* Also leaveChannel, for oneself and from a private channel. *)
RemoveFromChannelReceive(r, by, c, u) ==
    /\ channel[c].there
    /\ u # owner
    /\ channel[c].role[u] # "none"
    /\ \/ CanManage(by, c) /\ (Leads(by) \/ channel[c].role[u] # "admin")
       \/ by = u /\ IsActive(u) /\ channel[c].private
    /\ Accept(r, "removeFromChannel", by, u, c, "none")

(* Open to everybody, whoever it is. *)
RenameChannelReceive(r, c) ==
    /\ channel[c].there
    /\ Accept(r, "renameChannel", NoOne, NoOne, c, "none")

(***************************************************************************)
(* Saving the document. r has what it asked for still to be done, and the  *)
(* document is as it was found wherever the save names its version.        *)
(***************************************************************************)
Saving(r, ops) == roomReq[r].op \in ops
RoomDone(r) == roomReq' = [roomReq EXCEPT ![r] = NoRequest]
Replacing(r) == SaveReplacing(r, BusyRooms) /\ RoomDone(r) /\ asked' = asked
Pushing(r) == SavePushing(r, BusyRooms) /\ RoomDone(r) /\ asked' = asked
Purged(gone) ==
    [c \in Channels |-> [channel[c] EXCEPT
        !.role = [u \in Users |-> IF u \in gone THEN "none" ELSE @[u]]]]

(* A new entry, by joinRoom or addMemberByEmailOrId. *)
EnterSave(r) ==
    /\ Saving(r, {"join", "add"})
    /\ Pushing(r)
    /\ LET u == roomReq[r].whom IN
       /\ members' = [members EXCEPT ![u] = Append(@, Newcomer)]
       /\ blind' = IF r \in stale THEN [blind EXCEPT ![u] = @ + 1] ELSE blind
    /\ UNCHANGED <<owner, channel, over, strays>>

(* The earlier entry is taken up again, with nothing of what it had. *)
ReturnSave(r) ==
    /\ Saving(r, {"rejoin", "addBack"})
    /\ Replacing(r)
    /\ LET u == roomReq[r].whom IN
       /\ members' = [members EXCEPT ![u][1] = Newcomer]
       /\ channel' = Purged({u})
    /\ UNCHANGED <<owner, over, blind, strays>>

(* Mutant: the channels of the member are forgotten. *)
RemoveSaveRoomOnly(r) ==
    /\ Saving(r, {"remove"})
    /\ Replacing(r)
    /\ LET u == roomReq[r].whom IN
          members' = [members EXCEPT ![u][Find(u)].status = "removed"]
    /\ UNCHANGED <<owner, channel, over, blind, strays>>

RemoveSave(r) ==
    /\ Saving(r, {"remove"})
    /\ Replacing(r)
    /\ LET u == roomReq[r].whom IN
       /\ members' = [members EXCEPT ![u][Find(u)].status = "removed"]
       /\ channel' = Purged({u})
    /\ UNCHANGED <<owner, over, blind, strays>>

(* Mutant: the role is set in its place, whatever the version. *)
SetRoleSaveAnyway(r) ==
    /\ Saving(r, {"setRole"})
    /\ Pushing(r)
    /\ LET u == roomReq[r].whom IN
       /\ IsActive(u)
       /\ members' = [members EXCEPT ![u][Find(u)].role = roomReq[r].to]
    /\ UNCHANGED <<owner, channel, over, blind, strays>>

SetRoleSave(r) ==
    /\ Saving(r, {"setRole"})
    /\ Replacing(r)
    /\ LET u == roomReq[r].whom IN
          members' = [members EXCEPT ![u][Find(u)].role = roomReq[r].to]
    /\ UNCHANGED <<owner, channel, over, blind, strays>>

(* The new owner has every channel without being listed; the old one is    *)
(* listed where he would be shut out, and becomes a member in his first    *)
(* entry, whatever its status.                                             *)
TransferSave(r) ==
    /\ Saving(r, {"transfer"})
    /\ Replacing(r)
    /\ LET u == roomReq[r].whom
           by == roomReq[r].by IN
       /\ owner' = u
       /\ members' = [members EXCEPT ![u][Find(u)].role = "owner",
                                     ![by][1].role = "member"]
       /\ channel' = [c \in Channels |-> [channel[c] EXCEPT
              !.role = [x \in Users |->
                  IF x = u THEN "none"
                  ELSE IF x = by /\ channel[c].private THEN "member"
                  ELSE @[x]]]]
    /\ UNCHANGED <<over, blind, strays>>

LeaveSave(r) ==
    /\ Saving(r, {"leave"})
    /\ Replacing(r)
    /\ LET u == roomReq[r].by
           heir == roomReq[r].whom
           passed == IF Role(u) = "owner"
                     THEN [members EXCEPT ![heir][Find(heir)].role = "owner"]
                     ELSE members IN
       /\ owner' = IF Role(u) = "owner" THEN heir ELSE owner
       /\ members' = [passed EXCEPT ![u][Find(u)].status = "left"]
       /\ channel' = Purged({u, heir})
    /\ UNCHANGED <<over, blind, strays>>

DisbandSave(r) ==
    /\ Saving(r, {"disband"})
    /\ SavePlain(r) /\ RoomDone(r)
    /\ over' = TRUE
    /\ UNCHANGED <<owner, members, channel, blind, strays, asked>>

NewChannelSave(r) ==
    /\ Saving(r, {"newChannel"})
    /\ Pushing(r)
    /\ LET c == roomReq[r].ch
           private == roomReq[r].to = "member"
           invited == IF private THEN {roomReq[r].whom} \ {roomReq[r].by} ELSE {} IN
       /\ channel' = [channel EXCEPT ![c] =
              [there |-> TRUE, private |-> private,
               role |-> [u \in Users |-> IF u \in invited THEN "member" ELSE "none"]]]
       /\ strays' = strays \cup {u \in invited : ~IsActive(u)}
    /\ UNCHANGED <<owner, members, over, blind>>

(* A public channel lists admins only. *)
SetChannelRoleSave(r) ==
    /\ Saving(r, {"setChannelRole"})
    /\ Replacing(r)
    /\ LET q == roomReq[r]
           listed == IF q.to = "member" /\ ~channel[q.ch].private THEN "none" ELSE q.to IN
       /\ channel' = [channel EXCEPT ![q.ch].role[q.whom] = listed]
       /\ strays' = IF IsActive(q.whom) THEN strays ELSE strays \cup {q.whom}
    /\ UNCHANGED <<owner, members, over, blind>>

AddToChannelSave(r) ==
    /\ Saving(r, {"addToChannel"})
    /\ Replacing(r)
    /\ LET q == roomReq[r]
           u == q.whom IN
       /\ members' = [members EXCEPT ![u] =
              IF @ = <<>> THEN <<Newcomer>>
              ELSE IF @[1].status = "active" THEN @ ELSE [@ EXCEPT ![1] = Newcomer]]
       /\ channel' = [channel EXCEPT ![q.ch].role[u] = "member"]
    /\ UNCHANGED <<owner, over, blind, strays>>

RemoveFromChannelSave(r) ==
    /\ Saving(r, {"removeFromChannel"})
    /\ Replacing(r)
    /\ channel' = [channel EXCEPT ![roomReq[r].ch].role[roomReq[r].whom] = "none"]
    /\ UNCHANGED <<owner, members, over, blind, strays>>

RenameChannelSave(r) ==
    /\ Saving(r, {"renameChannel"})
    /\ Replacing(r)
    /\ UNCHANGED RoomData

RoomRequestFails(r) ==
    /\ Saving(r, RoomOps \ {"none", "join", "add", "newChannel", "disband"})
    /\ VersionError(r)
    /\ RoomDone(r)
    /\ UNCHANGED <<RoomData, asked>>

ReceiveMember(r) ==
    /\ RoomFree(r)
    /\ \E u \in Users :
           \/ JoinReceive(r, u) \/ DisbandReceive(r, u)
           \/ \E heir \in Users \cup {NoOne} : LeaveReceive(r, u, heir)
           \/ \E v \in Users :
                 \/ AddReceive(r, u, v) \/ RemoveReceive(r, u, v) \/ TransferReceive(r, u, v)
                 \/ \E to \in {"admin", "member"} : SetRoleReceive(r, u, v, to)

ReceiveChannel(r) ==
    /\ RoomFree(r)
    /\ \E c \in Channels :
           \/ RenameChannelReceive(r, c)
           \/ \E u, v \in Users :
                 \/ AddToChannelReceive(r, u, c, v)
                 \/ \E to \in {"none", "member"} : NewChannelReceive(r, u, c, v, to)
                 \/ RemoveFromChannelReceive(r, u, c, v)
                 \/ \E to \in {"admin", "member"} : SetChannelRoleReceive(r, u, c, v, to)

SaveRoom(r) ==
    \/ EnterSave(r) \/ ReturnSave(r) \/ RemoveSave(r) \/ SetRoleSave(r)
    \/ TransferSave(r) \/ LeaveSave(r) \/ DisbandSave(r)
    \/ NewChannelSave(r) \/ SetChannelRoleSave(r) \/ AddToChannelSave(r)
    \/ RemoveFromChannelSave(r) \/ RenameChannelSave(r)

RoomStep == \E r \in Slots :
    ReceiveMember(r) \/ ReceiveChannel(r) \/ SaveRoom(r) \/ RoomRequestFails(r)

(***************************************************************************)
(* Properties.                                                             *)
(***************************************************************************)
(* What the members are promised: each change of standing is one step of   *)
(* RoomMembership, made from the standings of that moment, although it was *)
(* decided on a document read some awaits before, as long as nobody has    *)
(* been entered twice.                                                     *)
Membership == INSTANCE RoomMembership WITH
    role <- [u \in Users |-> Role(u)],
    torn <- \E u \in Users : Len(members[u]) > 1
ImplementsMembership == Membership!Spec

(* Joining pushes an entry without naming the version of the room: a user  *)
(* has a second entry, and the room more members than it may have, only    *)
(* for each entry that was pushed on a room changed since it was read.     *)
EntriesBounded ==
    /\ \A u \in Users : Len(members[u]) <= 1 + blind[u]
    /\ Cardinality(ActiveEntries)
          <= MaxMembers + Cardinality(UNION {{u} \X (1..blind[u]) : u \in Users})

(* Nobody keeps a place in a channel after leaving the room or being       *)
(* removed from it; who is listed without being in the room was put there  *)
(* as the request named him.                                               *)
ChannelsWithinRoom ==
    \A c \in Channels, u \in Users :
        channel[c].role[u] # "none" => IsActive(u) \/ u \in strays

(* Who was removed from the room comes back only through somebody who may  *)
(* bring him back, and still may when it takes effect; or by a request to  *)
(* join that was checked before he was there at all. Of who has been       *)
(* entered twice only the first entry is asked whether he was removed.     *)
Readmits(q, u) ==
    /\ q.whom = u
    /\ \/ q.op = "addBack" /\ (Leads(q.by) \/ Role(q.by) = "admin")
       \/ q.op = "addToChannel" /\ CanManage(q.by, q.ch)
RemovedStaysOut ==
    [][\A u \in Users : (Len(members[u]) <= 1 /\ Removed(u) /\ IsActive(u)')
          => blind'[u] > blind[u] \/ \E r \in Slots : Readmits(roomReq[r], u)]_roomVars
==============================================================================
