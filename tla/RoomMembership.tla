----------------------------- MODULE RoomMembership ---------------------------
(***************************************************************************)
(* What the members of a room are promised, whatever requests are served   *)
(* at once: a room has one owner, who alone can pass the room on, and who  *)
(* enters, leaves, rises or falls does so in one step from the standing he *)
(* has at that moment. The promise ends (torn) with the first user who has *)
(* been entered twice.                                                     *)
(***************************************************************************)
EXTENDS Integers, FiniteSets

CONSTANTS
    Users,        \* everybody who may be in the room
    MaxAdmins     \* admins a room can have

VARIABLES
    role,         \* the standing of each user
    owner,        \* whom the room belongs to
    torn          \* somebody has been entered twice

vars == <<role, owner, torn>>

Roles == {"none", "member", "admin", "owner"}

TypeOK ==
    /\ role \in [Users -> Roles]
    /\ owner \in Users
    /\ torn \in BOOLEAN

Init ==
    /\ owner \in Users
    /\ role \in [Users -> {"none", "member", "owner"}]
    /\ \A u \in Users : role[u] = "owner" <=> u = owner
    /\ torn = FALSE

Become(u, standing) == role' = [role EXCEPT ![u] = standing]
Admins == {u \in Users : role[u] = "admin"}

Enter(u) == role[u] = "none" /\ Become(u, "member") /\ owner' = owner

Exit(u) ==
    /\ role[u] \in {"member", "admin"}
    /\ Become(u, "none")
    /\ owner' = owner

Promote(u) ==
    /\ role[u] = "member"
    /\ Cardinality(Admins) < MaxAdmins
    /\ Become(u, "admin")
    /\ owner' = owner

Demote(u) == role[u] = "admin" /\ Become(u, "member") /\ owner' = owner

(* The owner stays as a member, or leaves. *)
HandOver(u, v) ==
    /\ role[u] = "owner" /\ role[v] \in {"member", "admin"}
    /\ \E rest \in {"member", "none"} :
          role' = [role EXCEPT ![u] = rest, ![v] = "owner"]
    /\ owner' = v

(* The owner leaves without an heir. *)
Abandon(u) ==
    /\ role[u] = "owner"
    /\ Become(u, "none")
    /\ owner' = u

Change(u) ==
    \/ Enter(u) \/ Exit(u) \/ Promote(u) \/ Demote(u) \/ Abandon(u)
    \/ \E v \in Users : HandOver(u, v)

Next ==
    \/ ~torn' /\ ~torn /\ \E u \in Users : Change(u)
    \/ torn' /\ role' \in [Users -> Roles] /\ owner' \in Users

Spec == Init /\ [][Next]_vars
==============================================================================
