------------------------------ MODULE RoomsProofs -----------------------------
(***************************************************************************)
(* Proofs about a room: its standings change as RoomMembership promises,   *)
(* its entries are bounded, its channels are within it, and who was        *)
(* removed stays out, for any numbers of users, channels and requests.     *)
(***************************************************************************)
EXTENDS DocumentsProofs, SequenceTheorems

(***************************************************************************)
(* The standing of a user, from his entries alone.                         *)
(***************************************************************************)
ActiveIn(s) == {i \in DOMAIN s : s[i].status = "active"}
FirstIn(s) == First(ActiveIn(s))
Standing(s) == IF ActiveIn(s) # {} THEN s[FirstIn(s)].role ELSE "none"

LEMMA StandingType ==
    ASSUME NEW s \in Seq(Entry)
    PROVE  /\ ActiveIn(s) # {} => FirstIn(s) \in ActiveIn(s) /\ FirstIn(s) \in 1..Len(s)
           /\ Standing(s) \in {"none", "member", "admin", "owner"}
           /\ Standing(s) = "none" <=> ActiveIn(s) = {}
<1>1. ActiveIn(s) \subseteq Nat /\ ActiveIn(s) \subseteq 1..Len(s)
  BY LenProperties DEF ActiveIn
<1>2. ActiveIn(s) # {} => FirstIn(s) \in ActiveIn(s)
  BY <1>1, FirstType DEF FirstIn
<1>3. ActiveIn(s) # {} => s[FirstIn(s)] \in Entry
  BY <1>1, <1>2, ElementOfSeq
<1> QED
  BY <1>1, <1>2, <1>3 DEF Standing, Entry

(* With one entry there is nothing to choose from. *)
LEMMA OneEntry ==
    ASSUME NEW s \in Seq(Entry), Len(s) <= 1
    PROVE  /\ s = <<>> => ActiveIn(s) = {} /\ Standing(s) = "none"
           /\ s # <<>> => /\ Len(s) = 1 /\ s[1] \in Entry
                          /\ ActiveIn(s) = IF s[1].status = "active" THEN {1} ELSE {}
                          /\ Standing(s) = IF s[1].status = "active" THEN s[1].role ELSE "none"
           /\ ActiveIn(s) # {} => s # <<>> /\ FirstIn(s) = 1
<1>1. Len(s) \in Nat /\ DOMAIN s = 1..Len(s)
  BY LenProperties
<1>2. CASE s = <<>>
  <2>1. ActiveIn(s) = {}
    BY <1>2 DEF ActiveIn
  <2> QED
    BY <1>2, <2>1 DEF Standing
<1>3. CASE s # <<>>
  <2>1. Len(s) = 1 /\ DOMAIN s = {1}
    BY <1>1, <1>3, EmptySeq
  <2>2. s[1] \in Entry
    BY <2>1, ElementOfSeq
  <2>3. ActiveIn(s) = IF s[1].status = "active" THEN {1} ELSE {}
    BY <2>1 DEF ActiveIn
  <2>4. ActiveIn(s) # {} => FirstIn(s) = 1
    BY <2>3, StandingType
  <2> QED
    BY <1>3, <2>1, <2>2, <2>3, <2>4 DEF Standing
<1> QED
  BY <1>2, <1>3

(* The standing in the room is the one of the entries. *)
LEMMA StandingIs ==
    \A u : /\ Actives(u) = ActiveIn(members[u])
           /\ IsActive(u) <=> ActiveIn(members[u]) # {}
           /\ Find(u) = FirstIn(members[u])
           /\ Role(u) = Standing(members[u])
<1> USE DEF Actives, IsActive, Find, Role, ActiveIn, FirstIn, First, Standing
<1> QED
  OBVIOUS

LEMMA StandingWillBe ==
    \A u : /\ Actives(u)' = ActiveIn(members'[u])
           /\ IsActive(u)' <=> ActiveIn(members'[u]) # {}
           /\ Role(u)' = Standing(members'[u])
<1> USE DEF Actives, IsActive, Find, Role, ActiveIn, FirstIn, First, Standing
<1> QED
  OBVIOUS

(***************************************************************************)
(* The inductive invariant.                                                *)
(***************************************************************************)
ChannelOps == {"newChannel", "setChannelRole", "addToChannel", "removeFromChannel",
               "renameChannel"}

(* Requests name whom and what they need. *)
RequestsNamed ==
    \A r \in Slots :
        /\ roomReq[r].op \notin {"none", "leave", "renameChannel"}
              => roomReq[r].by \in Users /\ roomReq[r].whom \in Users
        /\ roomReq[r].op = "leave" => roomReq[r].by \in Users
        /\ roomReq[r].op \in ChannelOps => roomReq[r].ch \in Channels
        /\ roomReq[r].op = "setRole" => roomReq[r].to \in {"member", "admin"}

(* What was checked for q when it was received. *)
Checked(q) ==
    /\ q.op \in {"join", "add"} => members[q.whom] = <<>>
    /\ q.op \in {"rejoin", "addBack"} => members[q.whom] # <<>> /\ ~IsActive(q.whom)
    /\ q.op = "rejoin" => ~Removed(q.whom)
    /\ (q.op = "addBack" /\ members[q.whom][1].status = "removed")
          => Leads(q.by) \/ Role(q.by) = "admin"
    /\ q.op \in {"join", "add", "rejoin", "addBack"} => Cardinality(ActiveEntries) < MaxMembers
    /\ q.op = "remove" => IsActive(q.whom) /\ ~Leads(q.whom)
    /\ q.op = "setRole" =>
          /\ IsActive(q.whom) /\ Role(q.whom) # "owner"
          /\ (q.to = "admin" /\ Role(q.whom) # "admin") => Cardinality(AdminEntries) < MaxAdmins
    /\ q.op = "transfer" => Role(q.by) = "owner" /\ q.by # q.whom /\ IsActive(q.whom)
    /\ q.op = "leave" => /\ IsActive(q.by)
                         /\ Role(q.by) = "owner" => q.whom \in Users /\ IsActive(q.whom)
    /\ q.op = "addToChannel" =>
          /\ CanManage(q.by, q.ch)
          /\ (members[q.whom] = <<>> \/ members[q.whom][1].status # "active")
                => Cardinality(ActiveEntries) < MaxMembers

(* A request whose room has kept its version finds what it checked.        *)
Fresh == \A r \in Slots \ stale : Checked(roomReq[r])

(* As long as nobody was entered twice, only the owner is one.             *)
Torn == \E u \in Users : Len(members[u]) > 1
OwnerLeads == ~Torn => \A u \in Users : Role(u) = "owner" => u = owner

RoomsIdle == topic # "room" => roomReq = [r \in Slots |-> NoRequest]

RoomInv ==
    /\ RoomTypeOK /\ RequestsNamed
    /\ Fresh
    /\ OwnerLeads
    /\ ChannelsWithinRoom
    /\ EntriesBounded
    /\ RoomsIdle

(***************************************************************************)
(* Types, and finite sets.                                                 *)
(***************************************************************************)
LEMMA EntryTypes ==
    /\ Newcomer \in Entry /\ Newcomer.status = "active" /\ Newcomer.role = "member"
    /\ [Newcomer EXCEPT !.role = "owner"] \in Entry
    /\ [Newcomer EXCEPT !.role = "owner"].status = "active"
    /\ [Newcomer EXCEPT !.role = "owner"].role = "owner"
    /\ NoRequest \in RoomRequest /\ NoRequest.op = "none"
BY DEF Newcomer, Entry, NoRequest, RoomRequest, RoomOps, Listed

(* One entry of s becomes e. *)
LEMMA Rewrite ==
    ASSUME NEW s \in Seq(Entry), NEW i \in 1..Len(s), NEW e \in Entry
    PROVE  /\ [s EXCEPT ![i] = e] \in Seq(Entry)
           /\ Len([s EXCEPT ![i] = e]) = Len(s)
           /\ [s EXCEPT ![i] = e] # <<>>
           /\ [s EXCEPT ![i] = e][i] = e
           /\ ActiveIn([s EXCEPT ![i] = e]) = IF e.status = "active" THEN ActiveIn(s) \cup {i}
                                                                    ELSE ActiveIn(s) \ {i}
<1> DEFINE t == [s EXCEPT ![i] = e]
<1>1. t \in Seq(Entry) /\ Len(t) = Len(s) /\ \A j \in 1..Len(s) : t[j] = IF j = i THEN e ELSE s[j]
  BY ExceptSeq
<1>2. DOMAIN s = 1..Len(s) /\ DOMAIN t = 1..Len(s)
  BY <1>1, LenProperties
<1> HIDE DEF t
<1>3. t # <<>>
  BY <1>1, EmptySeq
<1>4. ActiveIn(t) = IF e.status = "active" THEN ActiveIn(s) \cup {i} ELSE ActiveIn(s) \ {i}
  BY <1>1, <1>2 DEF ActiveIn
<1> QED
  BY <1>1, <1>3, <1>4 DEF t

(* Pairs of a user and one of finitely many numbers are finitely many. *)
LEMMA FinitePairs ==
    ASSUME NEW f \in [Users -> SUBSET Nat], \A u \in Users : IsFiniteSet(f[u])
    PROVE  IsFiniteSet(UNION {{u} \X f[u] : u \in Users})
<1> DEFINE T == {{u} \X f[u] : u \in Users}
           g == [u \in Users |-> {u} \X f[u]]
<1>1. g \in Surjection(Users, T)
  BY DEF Surjection
<1>2. IsFiniteSet(T)
  BY <1>1, RoomsAssumption, FS_Surjection
<1>3. ASSUME NEW u \in Users
      PROVE  IsFiniteSet({u} \X f[u])
  <2> DEFINE h == [i \in f[u] |-> <<u, i>>]
  <2>1. h \in [f[u] -> {u} \X f[u]]
    OBVIOUS
  <2>2. \A p \in {u} \X f[u] : \E i \in f[u] : h[i] = p
    OBVIOUS
  <2>3. h \in Surjection(f[u], {u} \X f[u])
    BY <2>1, <2>2 DEF Surjection
  <2>4. IsFiniteSet(f[u])
    OBVIOUS
  <2> HIDE DEF h
  <2> QED
    BY <2>3, <2>4, FS_Surjection
<1>4. \A S \in T : IsFiniteSet(S)
  BY <1>3
<1> QED
  BY <1>2, <1>4, FS_UNION

LEMMA ActiveEntriesFinite ==
    ASSUME RoomTypeOK
    PROVE  /\ IsFiniteSet(ActiveEntries) /\ Cardinality(ActiveEntries) \in Nat
           /\ \A u, i : <<u, i>> \in ActiveEntries <=> u \in Users /\ i \in Actives(u)
<1> DEFINE f == [u \in Users |-> Actives(u)]
<1>1. ASSUME NEW u \in Users
      PROVE  Actives(u) \in SUBSET Nat /\ IsFiniteSet(Actives(u))
  <2>1. members[u] \in Seq(Entry)
    BY DEF RoomTypeOK
  <2>2. Actives(u) \subseteq 1..Len(members[u]) /\ Len(members[u]) \in Nat
    BY <2>1, LenProperties DEF Actives
  <2>3. IsFiniteSet(1..Len(members[u]))
    BY <2>2, FS_Interval
  <2> QED
    BY <2>2, <2>3, FS_Subset
<1>2. f \in [Users -> SUBSET Nat] /\ \A u \in Users : IsFiniteSet(f[u])
  BY <1>1
<1>3. ActiveEntries = UNION {{u} \X f[u] : u \in Users}
  BY DEF ActiveEntries
<1> HIDE DEF f
<1>4. IsFiniteSet(ActiveEntries)
  BY <1>2, <1>3, FinitePairs
<1>5. \A u, i : <<u, i>> \in ActiveEntries <=> u \in Users /\ i \in Actives(u)
  BY DEF ActiveEntries
<1> QED
  BY <1>4, <1>5, FS_CardinalityType

(* The pairs that stand for entries pushed on a changed room. *)
Pushed(n) == UNION {{u} \X (1..n[u]) : u \in Users}

LEMMA PushedFinite ==
    ASSUME NEW n \in [Users -> Nat]
    PROVE  IsFiniteSet(Pushed(n)) /\ Cardinality(Pushed(n)) \in Nat
<1> DEFINE f == [u \in Users |-> 1..n[u]]
<1>1. f \in [Users -> SUBSET Nat] /\ \A u \in Users : IsFiniteSet(f[u])
  <2>1. \A u \in Users : f[u] = 1..n[u] /\ 1..n[u] \in SUBSET Nat
    OBVIOUS
  <2>2. \A u \in Users : IsFiniteSet(1..n[u])
    BY FS_Interval
  <2> QED
    BY <2>1, <2>2
<1>2. Pushed(n) = UNION {{u} \X f[u] : u \in Users}
  BY DEF Pushed
<1> HIDE DEF f
<1> QED
  BY <1>1, <1>2, FinitePairs, FS_CardinalityType

LEMMA PushedGrows ==
    ASSUME NEW n \in [Users -> Nat], NEW u \in Users
    PROVE  Cardinality(Pushed([n EXCEPT ![u] = @ + 1])) = Cardinality(Pushed(n)) + 1
<1> DEFINE n1 == [n EXCEPT ![u] = n[u] + 1]
<1>1. n1 \in [Users -> Nat] /\ n1[u] = n[u] + 1 /\ \A x \in Users \ {u} : n1[x] = n[x]
  OBVIOUS
<1>2. \A x, i : <<x, i>> \in Pushed(n) <=> x \in Users /\ i \in 1..n[x]
  BY DEF Pushed
<1>3. \A x, i : <<x, i>> \in Pushed(n1) <=> x \in Users /\ i \in 1..n1[x]
  BY DEF Pushed
<1>4. \A e \in Pushed(n) \cup Pushed(n1) : \E x \in Users, i \in Nat : e = <<x, i>>
  BY <1>1 DEF Pushed
<1> HIDE DEF n1
<1>5. <<u, n[u] + 1>> \notin Pushed(n)
  BY <1>2
<1>6. \A x \in Users, i \in Nat :
        <<x, i>> \in Pushed(n1) <=> <<x, i>> \in Pushed(n) \/ <<x, i>> = <<u, n[u] + 1>>
  <2> SUFFICES ASSUME NEW x \in Users, NEW i \in Nat
               PROVE  i \in 1..n1[x] <=> i \in 1..n[x] \/ (x = u /\ i = n[u] + 1)
    BY <1>2, <1>3
  <2>1. n[u] \in Nat /\ n[x] \in Nat
    OBVIOUS
  <2>2. CASE x = u
    BY <1>1, <2>1, <2>2
  <2>3. CASE x # u
    BY <1>1, <2>3
  <2> QED
    BY <2>2, <2>3
<1>7. Pushed(n1) = Pushed(n) \cup {<<u, n[u] + 1>>}
  BY <1>4, <1>6
<1> QED
  BY <1>5, <1>7, PushedFinite, FS_AddElement DEF n1

(***************************************************************************)
(* How a change of entries looks from the promise.                         *)
(***************************************************************************)
(* The entries of one user become s. *)
LEMMA Changed ==
    ASSUME RoomTypeOK, NEW u \in Users, NEW s \in Seq(Entry), Len(s) >= Len(members[u]),
           members' = [members EXCEPT ![u] = s]
    PROVE  /\ members' \in [Users -> Seq(Entry)] /\ members'[u] = s
           /\ \A x \in Users \ {u} : members'[x] = members[x]
           /\ ~Torn' => ~Torn /\ Len(s) <= 1 /\ \A x \in Users : Len(members[x]) <= 1
           /\ [x \in Users |-> Role(x)]' = [[x \in Users |-> Role(x)] EXCEPT ![u] = Standing(s)]
<1>1. /\ members \in [Users -> Seq(Entry)] /\ members' \in [Users -> Seq(Entry)]
      /\ members'[u] = s /\ \A x \in Users \ {u} : members'[x] = members[x]
  BY DEF RoomTypeOK
<1>2. ~Torn' => ~Torn /\ Len(s) <= 1 /\ \A x \in Users : Len(members[x]) <= 1
  <2>1. \A x \in Users : Len(members[x]) \in Nat /\ Len(members'[x]) \in Nat
    BY <1>1, LenProperties
  <2>2. \A x \in Users : Len(members'[x]) >= Len(members[x])
    BY <1>1, <2>1
  <2> QED
    BY <1>1, <2>1, <2>2 DEF Torn
<1>3. \A x \in Users : Role(x)' = IF x = u THEN Standing(s) ELSE Role(x)
  BY <1>1, StandingIs, StandingWillBe
<1> QED
  BY <1>1, <1>2, <1>3

LEMMA RolesAreRoles ==
    ASSUME RoomTypeOK
    PROVE  \A u \in Users : Role(u) \in Membership!Roles
BY StandingIs, StandingType DEF RoomTypeOK, Membership!Roles

(* Nobody being entered twice, the admins are as many as their entries.    *)
LEMMA AdminsCounted ==
    ASSUME RoomTypeOK, ~Torn
    PROVE  Cardinality(AdminEntries) = Cardinality({u \in Users : Role(u) = "admin"})
<1> DEFINE A == {u \in Users : Role(u) = "admin"}
           f == [u \in A |-> <<u, 1>>]
<1>1. ASSUME NEW u \in Users
      PROVE  /\ u \in A <=> <<u, 1>> \in AdminEntries
             /\ \A i : <<u, i>> \in AdminEntries => i = 1
  <2>1. members[u] \in Seq(Entry) /\ Len(members[u]) <= 1
    <3>1. members[u] \in Seq(Entry) /\ Len(members[u]) \in Nat /\ ~(Len(members[u]) > 1)
      BY LenProperties DEF RoomTypeOK, Torn
    <3> QED
      BY <3>1
  <2>2. \A i : <<u, i>> \in AdminEntries <=> i \in Actives(u) /\ members[u][i].role = "admin"
    BY ActiveEntriesFinite DEF AdminEntries
  <2>3. /\ Actives(u) \subseteq {1}
        /\ Role(u) = "admin" <=> 1 \in Actives(u) /\ members[u][1].role = "admin"
    BY <2>1, OneEntry, StandingIs
  <2> QED
    BY <2>2, <2>3
<1>2. AdminEntries \subseteq ActiveEntries
  BY DEF AdminEntries
<1>3. \A e \in AdminEntries : \E u \in A : e = <<u, 1>>
  <2> SUFFICES ASSUME NEW e \in AdminEntries PROVE \E u \in A : e = <<u, 1>>
    OBVIOUS
  <2>1. PICK u \in Users : e \in {u} \X Actives(u)
    BY <1>2 DEF ActiveEntries
  <2>2. PICK i : e = <<u, i>>
    BY <2>1
  <2> QED
    BY <1>1, <2>2
<1>4. f \in Bijection(A, AdminEntries)
  <2>1. f \in [A -> AdminEntries]
    BY <1>1
  <2>2. \A u, v \in A : f[u] = f[v] => u = v
    OBVIOUS
  <2>3. \A e \in AdminEntries : \E u \in A : f[u] = e
    BY <1>3
  <2> QED
    BY <2>1, <2>2, <2>3 DEF Bijection, Injection, IsInjective, Surjection
<1>5. IsFiniteSet(A)
  BY RoomsAssumption, FS_Subset
<1> QED
  BY <1>4, <1>5, FS_Bijection DEF ExistsBijection

(* A step that the promise knows by its change of one standing.            *)
LEMMA OneStanding ==
    ASSUME RoomTypeOK, owner' \in Users, ~Torn' => owner' = owner,
           NEW u \in Users, NEW s \in Seq(Entry), Len(s) >= Len(members[u]),
           members' = [members EXCEPT ![u] = s],
           ~Torn' => \/ Standing(s) = Role(u)
                     \/ Role(u) = "none" /\ Standing(s) = "member"
                     \/ Role(u) \in {"member", "admin"} /\ Standing(s) = "none"
                     \/ Role(u) = "admin" /\ Standing(s) = "member"
                     \/ /\ Role(u) = "member" /\ Standing(s) = "admin"
                        /\ Cardinality(AdminEntries) < MaxAdmins
                     \/ Role(u) = "owner" /\ u = owner /\ Standing(s) = "none"
    PROVE  [Membership!Next]_(Membership!vars)
<1> DEFINE before == [x \in Users |-> Role(x)]
           after == [x \in Users |-> Role(x)]'
<1>1. /\ members' \in [Users -> Seq(Entry)] /\ after = [before EXCEPT ![u] = Standing(s)]
      /\ ~Torn' => ~Torn /\ \A x \in Users : Len(members[x]) <= 1
  BY Changed
<1>2. CASE Torn'
  <2>1. after \in [Users -> Membership!Roles]
    <3>1. \A x \in Users : Role(x)' \in Membership!Roles
      BY <1>1, StandingWillBe, StandingType DEF Membership!Roles
    <3> QED
      BY <3>1
  <2> QED
    BY <1>2, <2>1 DEF Membership!Next, Torn
<1>3. CASE ~Torn'
  <2>1. before[u] = Role(u) /\ ~Torn /\ owner' = owner
    BY <1>1, <1>3
  <2>2. CASE Standing(s) = Role(u)
    <3>1. after = before
      BY <1>1, <2>1, <2>2
    <3>2. (\E x \in Users : Len(members[x]) > 1) = (\E x \in Users : Len(members'[x]) > 1)
      BY <1>3, <2>1 DEF Torn
    <3> QED
      BY <2>1, <3>1, <3>2 DEF Membership!vars
  <2>3. CASE Standing(s) # Role(u)
    <3>1. Membership!Change(u)
      <4> HIDE DEF after, before
      <4>1. CASE Role(u) = "none" /\ Standing(s) = "member"
        BY <1>1, <2>1, <4>1 DEF Membership!Change, Membership!Enter, Membership!Become, before, after
      <4>2. CASE Role(u) \in {"member", "admin"} /\ Standing(s) = "none"
        BY <1>1, <2>1, <4>2 DEF Membership!Change, Membership!Exit, Membership!Become, before, after
      <4>3. CASE Role(u) = "admin" /\ Standing(s) = "member"
        BY <1>1, <2>1, <4>3 DEF Membership!Change, Membership!Demote, Membership!Become, before, after
      <4>4. CASE /\ Role(u) = "member" /\ Standing(s) = "admin"
                 /\ Cardinality(AdminEntries) < MaxAdmins
        <5>1. Membership!Admins = {x \in Users : Role(x) = "admin"}
          BY DEF Membership!Admins
        <5>2. Membership!Cardinality(Membership!Admins) < MaxAdmins
          <6>1. Cardinality(Membership!Admins) < MaxAdmins
            BY <2>1, <4>4, <5>1, AdminsCounted
          <6>2. Membership!Cardinality(Membership!Admins) = Cardinality(Membership!Admins)
            BY Zenon DEF Cardinality, Membership!Cardinality
          <6> QED
            BY <6>1, <6>2
        <5>3. Membership!Become(u, "admin")
          BY <1>1, <4>4 DEF Membership!Become, before, after
        <5>4. [x \in Users |-> Role(x)][u] = "member"
          BY <4>4
        <5>5. Membership!Promote(u)
          BY <2>1, <5>2, <5>3, <5>4 DEF Membership!Promote
        <5> QED
          BY <5>5 DEF Membership!Change
      <4>5. CASE Role(u) = "owner" /\ u = owner /\ Standing(s) = "none"
        BY <1>1, <2>1, <4>5 DEF Membership!Change, Membership!Abandon, Membership!Become, before, after
      <4> QED
        BY <1>3, <2>3, <4>1, <4>2, <4>3, <4>4, <4>5
    <3> QED
      BY <1>3, <2>1, <3>1 DEF Membership!Next, Torn
  <2> QED
    BY <2>2, <2>3
<1> QED
  BY <1>2, <1>3

LEMMA SameStandings ==
    ASSUME UNCHANGED <<members, owner>>
    PROVE  [Membership!Next]_(Membership!vars)
<1>1. \A u : Role(u)' = Role(u)
  BY DEF Role, IsActive, Find, Actives
<1>2. (\E x \in Users : Len(members[x]) > 1) = (\E x \in Users : Len(members'[x]) > 1)
  OBVIOUS
<1> QED
  BY <1>1, <1>2 DEF Membership!vars

(***************************************************************************)
(* The bound on the entries.                                               *)
(***************************************************************************)
(* Nobody comes in. *)
LEMMA BoundKept ==
    ASSUME RoomTypeOK, EntriesBounded, members' \in [Users -> Seq(Entry)],
           \A u \in Users : /\ Len(members'[u]) = Len(members[u])
                            /\ ActiveIn(members'[u]) \subseteq ActiveIn(members[u]),
           blind' = blind
    PROVE  EntriesBounded'
<1>1. ActiveEntries' \subseteq ActiveEntries
  BY StandingIs, StandingWillBe DEF ActiveEntries
<1>2. Cardinality(ActiveEntries') \in Nat /\ Cardinality(ActiveEntries') <= Cardinality(ActiveEntries)
  BY <1>1, ActiveEntriesFinite, FS_Subset, FS_CardinalityType
<1>3. blind \in [Users -> Nat] /\ Cardinality(Pushed(blind)) \in Nat
  BY PushedFinite DEF RoomTypeOK
<1>4. Cardinality(ActiveEntries) <= MaxMembers + Cardinality(Pushed(blind))
  BY DEF EntriesBounded, Pushed
<1>5. Cardinality(ActiveEntries') <= MaxMembers + Cardinality(Pushed(blind))
  BY <1>2, <1>3, <1>4, ActiveEntriesFinite, RoomsAssumption
<1> QED
  BY <1>5 DEF EntriesBounded, Pushed

(* One entry k of u comes in, where there was a place; or one was pushed.  *)
LEMMA BoundGrown ==
    ASSUME RoomTypeOK, EntriesBounded, members' \in [Users -> Seq(Entry)],
           NEW u \in Users, NEW k,
           \A x \in Users \ {u} : members'[x] = members[x],
           ActiveIn(members'[u]) \subseteq ActiveIn(members[u]) \cup {k},
           \/ blind' = blind /\ Cardinality(ActiveEntries) < MaxMembers
           \/ blind' = [blind EXCEPT ![u] = @ + 1],
           Len(members'[u]) <= 1 + blind'[u]
    PROVE  EntriesBounded'
<1>1. ActiveEntries' \subseteq ActiveEntries \cup {<<u, k>>}
  BY StandingIs, StandingWillBe DEF ActiveEntries
<1>2. /\ Cardinality(ActiveEntries') \in Nat
      /\ Cardinality(ActiveEntries') <= Cardinality(ActiveEntries) + 1
  <2>1. /\ IsFiniteSet(ActiveEntries \cup {<<u, k>>})
        /\ Cardinality(ActiveEntries \cup {<<u, k>>}) <= Cardinality(ActiveEntries) + 1
    <3>1. IsFiniteSet(ActiveEntries) /\ Cardinality(ActiveEntries) \in Nat
      BY ActiveEntriesFinite
    <3>2. /\ IsFiniteSet(ActiveEntries \cup {<<u, k>>})
          /\ \/ Cardinality(ActiveEntries \cup {<<u, k>>}) = Cardinality(ActiveEntries)
             \/ Cardinality(ActiveEntries \cup {<<u, k>>}) = Cardinality(ActiveEntries) + 1
      BY <3>1, FS_AddElement, Zenon
    <3> QED
      BY <3>1, <3>2
  <2>2. /\ IsFiniteSet(ActiveEntries')
        /\ Cardinality(ActiveEntries') <= Cardinality(ActiveEntries \cup {<<u, k>>})
    BY <1>1, <2>1, FS_Subset
  <2> QED
    BY <2>1, <2>2, ActiveEntriesFinite, FS_CardinalityType
<1>3. blind \in [Users -> Nat] /\ Cardinality(Pushed(blind)) \in Nat
  BY PushedFinite DEF RoomTypeOK
<1>4. Cardinality(ActiveEntries) <= MaxMembers + Cardinality(Pushed(blind))
  BY DEF EntriesBounded, Pushed
<1>5. Cardinality(ActiveEntries') <= MaxMembers + Cardinality(Pushed(blind'))
  <2>1. CASE blind' = blind /\ Cardinality(ActiveEntries) < MaxMembers
    BY <1>2, <1>3, <2>1, ActiveEntriesFinite, RoomsAssumption
  <2>2. CASE blind' = [blind EXCEPT ![u] = @ + 1]
    <3>1. Cardinality(Pushed(blind')) = Cardinality(Pushed(blind)) + 1
      BY <1>3, <2>2, PushedGrows
    <3> QED
      BY <1>2, <1>3, <1>4, <3>1, ActiveEntriesFinite, RoomsAssumption
  <2> QED
    BY <2>1, <2>2
<1>6. \A x \in Users : Len(members'[x]) <= 1 + blind'[x]
  <2>1. \A x \in Users \ {u} : blind'[x] = blind[x]
    BY <1>3
  <2> QED
    BY <2>1 DEF EntriesBounded
<1> QED
  BY <1>5, <1>6 DEF EntriesBounded, Pushed

(***************************************************************************)
(* What a step does to the requests.                                       *)
(***************************************************************************)
(* A request is over that left every reading of the room stale, or left    *)
(* the room as it is.                                                      *)
LEMMA RequestsKept ==
    ASSUME RoomTypeOK, RequestsNamed, Fresh, topic = "room", topic' = topic,
           NEW r \in Slots, RoomDone(r),
           \/ BusyRooms \ {r} \subseteq stale'
           \/ UNCHANGED <<members, owner, channel>> /\ stale \ {r} \subseteq stale'
    PROVE  /\ roomReq' \in [Slots -> RoomRequest]
           /\ RequestsNamed' /\ Fresh' /\ RoomsIdle'
<1>1. /\ roomReq' = [roomReq EXCEPT ![r] = NoRequest] /\ roomReq' \in [Slots -> RoomRequest]
      /\ roomReq'[r] = NoRequest /\ \A x \in Slots \ {r} : roomReq'[x] = roomReq[x]
  BY EntryTypes DEF RoomDone, RoomTypeOK
<1>2. RequestsNamed'
  BY <1>1, EntryTypes DEF RequestsNamed, ChannelOps
<1>3. \A x \in Slots : roomReq'[x].op = "none" => Checked(roomReq[x])'
  BY DEF Checked
<1>4. roomReq'[r].op = "none"
  BY <1>1, EntryTypes
<1>5. Fresh'
  <2>1. CASE BusyRooms \ {r} \subseteq stale'
    <3>1. \A x \in Slots \ stale' : roomReq'[x].op = "none"
      BY <1>1, <1>4, <2>1 DEF BusyRooms
    <3> QED
      BY <1>3, <3>1 DEF Fresh
  <2>2. CASE UNCHANGED <<members, owner, channel>> /\ stale \ {r} \subseteq stale'
    <3>1. ASSUME NEW x \in Slots \ {r}, x \notin stale'
          PROVE  Checked(roomReq[x])'
      <4>1. Checked(roomReq[x]) /\ roomReq'[x] = roomReq[x]
        BY <1>1, <2>2, <3>1 DEF Fresh
      <4>2. /\ \A u : Role(u)' = Role(u) /\ (IsActive(u)' <=> IsActive(u)) /\ Actives(u)' = Actives(u)
            /\ \A u : Leads(u)' <=> Leads(u)
            /\ \A u : Removed(u)' <=> Removed(u)
            /\ \A u, c : CanManage(u, c)' <=> CanManage(u, c)
        BY <2>2 DEF Role, IsActive, Find, Actives, Leads, Removed, CanManage
      <4>3. ActiveEntries' = ActiveEntries /\ AdminEntries' = AdminEntries
        BY <2>2, <4>2 DEF ActiveEntries, AdminEntries
      <4> QED
        BY <2>2, <4>1, <4>2, <4>3, Zenon DEF Checked
    <3> QED
      BY <1>3, <1>4, <3>1 DEF Fresh
  <2> QED
    BY <2>1, <2>2
<1> QED
  BY <1>1, <1>2, <1>5 DEF RoomsIdle

(***************************************************************************)
(* Saving the room.                                                        *)
(***************************************************************************)
Promised == [Membership!Next]_(Membership!vars)

(* A promised change leaves the owner alone in his standing.               *)
LEMMA OwnerKept ==
    ASSUME RoomTypeOK, members' \in [Users -> Seq(Entry)], OwnerLeads, Promised
    PROVE  OwnerLeads'
<1> SUFFICES ASSUME ~Torn' PROVE \A u \in Users : Role(u)' = "owner" => u = owner'
  BY DEF OwnerLeads
<1> DEFINE before == [x \in Users |-> Role(x)]
           after == [x \in Users |-> Role(x)]'
<1>1. ~(\E x \in Users : Len(members'[x]) > 1)
  BY DEF Torn
<1>2. \A u \in Users : before[u] = Role(u) /\ after[u] = Role(u)'
  OBVIOUS
<1>3. CASE UNCHANGED Membership!vars
  <2>1. after = before /\ owner' = owner
    BY <1>3 DEF Membership!vars
  <2>2. ~Torn
    BY <1>1, <1>3 DEF Membership!vars, Torn
  <2> QED
    BY <1>2, <2>1, <2>2 DEF OwnerLeads
<1>4. CASE Membership!Next
  <2>1. ~Torn /\ \E u \in Users : Membership!Change(u)
    BY <1>1, <1>4 DEF Membership!Next, Torn
  <2>2. \A u \in Users : before[u] = "owner" => u = owner
    BY <1>2, <2>1 DEF OwnerLeads
  <2>3. PICK v \in Users : Membership!Change(v)
    BY <2>1
  <2> HIDE DEF before, after
  <2>4. CASE \/ Membership!Enter(v) \/ Membership!Exit(v)
             \/ Membership!Promote(v) \/ Membership!Demote(v) \/ Membership!Abandon(v)
    <3>1. PICK standing \in {"none", "member", "admin"} : after = [before EXCEPT ![v] = standing]
      BY <2>4 DEF Membership!Enter, Membership!Exit, Membership!Promote, Membership!Demote,
         Membership!Abandon, Membership!Become, before, after
    <3>2. owner' = owner \/ before[v] = "owner"
      BY <2>4 DEF Membership!Enter, Membership!Exit, Membership!Promote, Membership!Demote,
         Membership!Abandon, before
    <3>3. \A u \in Users : after[u] = "owner" => u # v /\ before[u] = "owner"
      BY <3>1 DEF before
    <3> QED
      BY <1>2, <2>2, <2>3, <3>2, <3>3
  <2>5. ASSUME NEW w \in Users, Membership!HandOver(v, w)
        PROVE  \A u \in Users : Role(u)' = "owner" => u = owner'
    <3>1. before[v] = "owner" /\ owner' = w
      BY <2>5 DEF Membership!HandOver, before
    <3>2. PICK rest \in {"member", "none"} : after = [before EXCEPT ![v] = rest, ![w] = "owner"]
      BY <2>5 DEF Membership!HandOver, before, after
    <3>3. \A u \in Users \ {v, w} : after[u] = before[u]
      BY <3>2 DEF before
    <3>4. v # w => after[v] = rest
      BY <3>2 DEF before
    <3> QED
      BY <1>2, <2>2, <2>3, <3>1, <3>3, <3>4
  <2> QED
    BY <2>3, <2>4, <2>5 DEF Membership!Change
<1> QED
  BY <1>3, <1>4 DEF Promised

(* What is left to show of a save. *)
LEMMA SavedInv ==
    ASSUME RoomInv, topic = "room", topic' = topic, NEW r \in Slots, RoomDone(r),
           \/ BusyRooms \ {r} \subseteq stale'
           \/ UNCHANGED <<members, owner, channel>> /\ stale \ {r} \subseteq stale',
           owner' \in Users, members' \in [Users -> Seq(Entry)],
           channel' \in [Channels -> [there : BOOLEAN, private : BOOLEAN,
                                      role : [Users -> Listed]]],
           over' \in BOOLEAN, blind' \in [Users -> Nat], strays' \subseteq Users,
           Promised, ChannelsWithinRoom', EntriesBounded'
    PROVE  RoomInv' /\ Promised
<1>1. roomReq' \in [Slots -> RoomRequest] /\ RequestsNamed' /\ Fresh' /\ RoomsIdle'
  BY RequestsKept DEF RoomInv
<1>2. RoomTypeOK'
  BY <1>1 DEF RoomTypeOK
<1>3. OwnerLeads'
  BY OwnerKept DEF RoomInv
<1> QED
  BY <1>1, <1>2, <1>3 DEF RoomInv

(* What is known of the request when its save begins. *)
LEMMA SavingTypes ==
    ASSUME RoomInv, NEW r \in Slots
    PROVE  /\ owner \in Users /\ members \in [Users -> Seq(Entry)]
           /\ channel \in [Channels -> [there : BOOLEAN, private : BOOLEAN,
                                        role : [Users -> Listed]]]
           /\ over \in BOOLEAN /\ blind \in [Users -> Nat] /\ strays \subseteq Users
           /\ \A u \in Users : members[u] \in Seq(Entry) /\ Len(members[u]) \in Nat
           /\ \A u \in Users : Role(u) \in {"none", "member", "admin", "owner"}
           /\ \A u \in Users : Role(u) = "none" <=> ~IsActive(u)
           /\ \A u \in Users : Len(members[u]) <= 1 + blind[u]
           /\ roomReq[r] \in RoomRequest
           /\ r \notin stale => Checked(roomReq[r])
<1>1. /\ owner \in Users /\ members \in [Users -> Seq(Entry)]
      /\ channel \in [Channels -> [there : BOOLEAN, private : BOOLEAN,
                                   role : [Users -> Listed]]]
      /\ over \in BOOLEAN /\ blind \in [Users -> Nat] /\ strays \subseteq Users
      /\ roomReq[r] \in RoomRequest
  BY DEF RoomInv, RoomTypeOK
<1>2. \A u \in Users : members[u] \in Seq(Entry) /\ Len(members[u]) \in Nat
  BY <1>1, LenProperties
<1>3. \A u \in Users : /\ Role(u) \in {"none", "member", "admin", "owner"}
                       /\ Role(u) = "none" <=> ~IsActive(u)
  BY <1>2, StandingIs, StandingType
<1>4. \A u \in Users : Len(members[u]) <= 1 + blind[u]
  BY DEF RoomInv, EntriesBounded
<1> QED
  BY <1>1, <1>2, <1>3, <1>4 DEF RoomInv, Fresh

(* Who keeps a place in a channel keeps his standing, or is in the room.   *)
LEMMA ChannelsKept ==
    ASSUME ChannelsWithinRoom, strays \subseteq strays',
           \A c \in Channels, u \in Users : channel'[c].role[u] # "none" =>
              \/ channel[c].role[u] # "none" /\ (IsActive(u) => ActiveIn(members'[u]) # {})
              \/ ActiveIn(members'[u]) # {}
              \/ u \in strays'
    PROVE  ChannelsWithinRoom'
<1> SUFFICES ASSUME NEW c \in Channels, NEW u \in Users, channel'[c].role[u] # "none"
             PROVE  IsActive(u)' \/ u \in strays'
  BY DEF ChannelsWithinRoom
<1> QED
  BY StandingWillBe DEF ChannelsWithinRoom

LEMMA EnterSaveInv ==
    ASSUME RoomInv, topic = "room", topic' = topic, NEW r \in Slots, EnterSave(r)
    PROVE  RoomInv' /\ Promised
<1> DEFINE u == roomReq[r].whom
           s == Append(members[u], Newcomer)
<1>1. u \in Users /\ roomReq[r].op \in {"join", "add"}
  BY DEF EnterSave, Saving, RoomInv, RequestsNamed
<1>2. /\ RoomDone(r) /\ BusyRooms \ {r} \subseteq stale'
      /\ members' = [members EXCEPT ![u] = s]
      /\ blind' = IF r \in stale THEN [blind EXCEPT ![u] = @ + 1] ELSE blind
      /\ UNCHANGED <<owner, channel, over, strays>>
  BY DEF EnterSave, Pushing, SavePushing, SaveVersion
<1>3. r \notin stale => members[u] = <<>> /\ Cardinality(ActiveEntries) < MaxMembers
  BY <1>1, SavingTypes DEF Checked
<1>4. /\ s \in Seq(Entry) /\ Len(s) = Len(members[u]) + 1 /\ s # <<>>
      /\ s[Len(members[u]) + 1] = Newcomer
      /\ \A i \in 1..Len(members[u]) : s[i] = members[u][i]
  <2>1. members[u] \in Seq(Entry) /\ Newcomer \in Entry
    BY <1>1, SavingTypes, EntryTypes
  <2> HIDE DEF u
  <2> QED
    BY <2>1, AppendProperties
<1>5. ActiveIn(s) = ActiveIn(members[u]) \cup {Len(members[u]) + 1}
  <2>1. DOMAIN s = 1..(Len(members[u]) + 1) /\ DOMAIN members[u] = 1..Len(members[u])
    BY <1>1, <1>4, SavingTypes, LenProperties
  <2>2. Len(members[u]) \in Nat
    BY <1>1, SavingTypes
  <2> HIDE DEF s, u
  <2> QED
    BY <1>4, <2>1, <2>2, EntryTypes DEF ActiveIn
<1> HIDE DEF s, u
<1>6. /\ members' \in [Users -> Seq(Entry)] /\ members'[u] = s
      /\ \A x \in Users \ {u} : members'[x] = members[x]
      /\ ~Torn' => Len(s) <= 1
  <2>1. Len(s) >= Len(members[u])
    BY <1>1, <1>4, SavingTypes
  <2> QED
    BY <1>1, <1>2, <1>4, <2>1, Changed DEF RoomInv
<1>7. blind' \in [Users -> Nat] /\ Len(s) <= 1 + blind'[u]
  <2>1. /\ blind \in [Users -> Nat] /\ Len(members[u]) \in Nat
        /\ Len(members[u]) <= 1 + blind[u]
    BY <1>1, SavingTypes
  <2>2. CASE r \in stale
    BY <1>1, <1>2, <1>4, <2>1, <2>2
  <2>3. CASE r \notin stale
    <3>1. Len(members[u]) = 0
      BY <1>3, <2>3
    <3> QED
      BY <1>1, <1>2, <1>4, <2>1, <2>3, <3>1
  <2> QED
    BY <2>2, <2>3
<1>8. EntriesBounded'
  BY <1>1, <1>2, <1>3, <1>5, <1>6, <1>7, BoundGrown DEF RoomInv
<1>9. Promised
  <2>1. ~Torn' => Role(u) = "none" /\ Standing(s) = "member"
    <3> SUFFICES ASSUME ~Torn' PROVE Role(u) = "none" /\ Standing(s) = "member"
      OBVIOUS
    <3>1. Len(s) = 1 /\ Len(members[u]) = 0
      BY <1>1, <1>4, <1>6, SavingTypes
    <3>2. s[1] = Newcomer
      BY <1>4, <3>1
    <3>3. Standing(s) = "member"
      <4>1. Standing(s) = IF s[1].status = "active" THEN s[1].role ELSE "none"
        <5>1. Len(s) <= 1
          BY <3>1
        <5> QED
          BY <1>4, <5>1, OneEntry, Zenon
      <4> QED
        BY <3>2, <4>1, EntryTypes
    <3>4. members[u] = <<>>
      BY <1>1, <3>1, SavingTypes, EmptySeq
    <3> QED
      BY <1>1, <3>3, <3>4, SavingTypes, OneEntry, StandingIs, EmptySeq
  <2>2. Len(s) >= Len(members[u])
    BY <1>1, <1>4, SavingTypes
  <2>3. owner' \in Users
    BY <1>2, SavingTypes
  <2> QED
    BY <1>1, <1>2, <1>4, <2>1, <2>2, <2>3, OneStanding DEF Promised, RoomInv
<1>10. ChannelsWithinRoom'
  BY <1>2, <1>5, <1>6, ChannelsKept, StandingIs DEF RoomInv
<1> QED
  BY <1>2, <1>6, <1>7, <1>8, <1>9, <1>10, SavedInv, SavingTypes

(* One entry of one user is rewritten. *)
LEMMA OneRewritten ==
    ASSUME RoomInv, NEW u \in Users, NEW i \in 1..Len(members[u]), NEW e \in Entry,
           members' = [members EXCEPT ![u] = [members[u] EXCEPT ![i] = e]]
    PROVE  /\ members' \in [Users -> Seq(Entry)]
           /\ \A x \in Users \ {u} : members'[x] = members[x]
           /\ members'[u] \in Seq(Entry) /\ Len(members'[u]) = Len(members[u])
           /\ Len(members'[u]) >= Len(members[u])
           /\ ActiveIn(members'[u]) = IF e.status = "active" THEN ActiveIn(members[u]) \cup {i}
                                                            ELSE ActiveIn(members[u]) \ {i}
           /\ ~Torn' => Standing(members'[u]) = IF e.status = "active" THEN e.role ELSE "none"
<1> DEFINE s == [members[u] EXCEPT ![i] = e]
<1>1. members[u] \in Seq(Entry) /\ Len(members[u]) \in Nat
  BY LenProperties DEF RoomInv, RoomTypeOK
<1>2. /\ s \in Seq(Entry) /\ Len(s) = Len(members[u]) /\ s # <<>> /\ s[i] = e
      /\ ActiveIn(s) = IF e.status = "active" THEN ActiveIn(members[u]) \cup {i}
                                             ELSE ActiveIn(members[u]) \ {i}
  BY <1>1, Rewrite
<1> HIDE DEF s
<1>3. Len(s) >= Len(members[u])
  BY <1>1, <1>2
<1>4. /\ members' \in [Users -> Seq(Entry)] /\ members'[u] = s
      /\ \A x \in Users \ {u} : members'[x] = members[x]
      /\ ~Torn' => ~Torn /\ Len(s) <= 1
  BY <1>2, <1>3, Changed DEF RoomInv, s
<1>5. ASSUME ~Torn'
      PROVE  Standing(s) = IF e.status = "active" THEN e.role ELSE "none"
  <2>1. Len(s) <= 1 /\ i = 1
    BY <1>1, <1>2, <1>4, <1>5
  <2>2. Standing(s) = IF s[1].status = "active" THEN s[1].role ELSE "none"
    BY <1>2, <2>1, OneEntry, Zenon
  <2> QED
    BY <1>2, <2>1, <2>2
<1> QED
  BY <1>2, <1>3, <1>4, <1>5

(* Nobody is in a channel who is purged from all. *)
LEMMA PurgedChannels ==
    ASSUME RoomInv, NEW gone, channel' = Purged(gone)
    PROVE  /\ channel' \in [Channels -> [there : BOOLEAN, private : BOOLEAN,
                                        role : [Users -> Listed]]]
           /\ \A c \in Channels, x \in Users :
                 channel'[c].role[x] = IF x \in gone THEN "none" ELSE channel[c].role[x]
<1>1. channel \in [Channels -> [there : BOOLEAN, private : BOOLEAN, role : [Users -> Listed]]]
  BY DEF RoomInv, RoomTypeOK
<1>2. ASSUME NEW c \in Channels
      PROVE  /\ channel'[c] \in [there : BOOLEAN, private : BOOLEAN, role : [Users -> Listed]]
             /\ channel'[c].role = [x \in Users |-> IF x \in gone THEN "none" ELSE channel[c].role[x]]
  <2>1. channel'[c] = [channel[c] EXCEPT !.role =
                          [x \in Users |-> IF x \in gone THEN "none" ELSE channel[c].role[x]]]
    BY DEF Purged
  <2>2. [x \in Users |-> IF x \in gone THEN "none" ELSE channel[c].role[x]] \in [Users -> Listed]
    BY <1>1 DEF Listed
  <2> QED
    BY <1>1, <2>1, <2>2
<1>3. channel' = [c \in Channels |-> channel'[c]]
  BY DEF Purged
<1> QED
  BY <1>2, <1>3

LEMMA ReturnSaveInv ==
    ASSUME RoomInv, topic = "room", topic' = topic, NEW r \in Slots, ReturnSave(r)
    PROVE  RoomInv' /\ Promised
<1> DEFINE u == roomReq[r].whom
<1>1. u \in Users /\ roomReq[r].op \in {"rejoin", "addBack"}
  BY DEF ReturnSave, Saving, RoomInv, RequestsNamed
<1>2. /\ RoomDone(r) /\ BusyRooms \ {r} \subseteq stale' /\ r \notin stale
      /\ channel' = Purged({u})
      /\ UNCHANGED <<owner, over, blind, strays>>
  BY DEF ReturnSave, Replacing, SaveReplacing, SaveVersion
<1>3. members' = [members EXCEPT ![u] = [members[u] EXCEPT ![1] = Newcomer]]
  BY DEF ReturnSave
<1>4. members[u] # <<>> /\ ~IsActive(u) /\ Cardinality(ActiveEntries) < MaxMembers
  BY <1>1, <1>2, SavingTypes DEF Checked
<1>5. 1 \in 1..Len(members[u])
  BY <1>1, <1>4, SavingTypes, EmptySeq
<1> HIDE DEF u
<1>6. /\ members' \in [Users -> Seq(Entry)]
      /\ \A x \in Users \ {u} : members'[x] = members[x]
      /\ members'[u] \in Seq(Entry) /\ Len(members'[u]) = Len(members[u])
      /\ Len(members'[u]) >= Len(members[u])
      /\ ActiveIn(members'[u]) = ActiveIn(members[u]) \cup {1}
      /\ ~Torn' => Standing(members'[u]) = "member"
  <2> DEFINE e == Newcomer
             i == 1
  <2>1. i \in 1..Len(members[u]) /\ u \in Users
        /\ members' = [members EXCEPT ![u] = [members[u] EXCEPT ![i] = e]]
    BY <1>1, <1>3, <1>5
  <2>2. e \in Entry /\ e.status = "active" /\ e.role = "member" /\ i = 1
    BY EntryTypes
  <2> HIDE DEF e, i
  <2>3. /\ members' \in [Users -> Seq(Entry)]
        /\ \A x \in Users \ {u} : members'[x] = members[x]
        /\ members'[u] \in Seq(Entry) /\ Len(members'[u]) = Len(members[u])
        /\ Len(members'[u]) >= Len(members[u])
        /\ ActiveIn(members'[u]) = IF e.status = "active" THEN ActiveIn(members[u]) \cup {i}
                                                         ELSE ActiveIn(members[u]) \ {i}
        /\ ~Torn' => Standing(members'[u]) = IF e.status = "active" THEN e.role ELSE "none"
    BY <2>1, <2>2, OneRewritten
  <2> QED
    BY <2>2, <2>3
<1>7. members' = [members EXCEPT ![u] = members'[u]]
  BY <1>1, <1>3, SavingTypes
<1>8. EntriesBounded'
  <2>1. Len(members'[u]) <= 1 + blind'[u]
    BY <1>1, <1>2, <1>6, SavingTypes
  <2> QED
    BY <1>1, <1>2, <1>4, <1>6, <2>1, BoundGrown DEF RoomInv
<1>9. Promised
  <2>1. Role(u) = "none"
    BY <1>1, <1>4, SavingTypes
  <2>2. owner' \in Users
    BY <1>2, SavingTypes
  <2> QED
    BY <1>1, <1>2, <1>6, <1>7, <2>1, <2>2, OneStanding DEF Promised, RoomInv
<1>10. /\ channel' \in [Channels -> [there : BOOLEAN, private : BOOLEAN, role : [Users -> Listed]]]
       /\ \A c \in Channels, x \in Users :
             channel'[c].role[x] = IF x \in {u} THEN "none" ELSE channel[c].role[x]
  <2> DEFINE gone == {u}
  <2>1. channel' = Purged(gone)
    BY <1>2
  <2> HIDE DEF gone
  <2>2. /\ channel' \in [Channels -> [there : BOOLEAN, private : BOOLEAN, role : [Users -> Listed]]]
        /\ \A c \in Channels, x \in Users :
              channel'[c].role[x] = IF x \in gone THEN "none" ELSE channel[c].role[x]
    BY <2>1, PurgedChannels
  <2> QED
    BY <2>2 DEF gone
<1>11. ChannelsWithinRoom'
  BY <1>2, <1>6, <1>10, ChannelsKept, StandingIs DEF RoomInv
<1> QED
  BY <1>2, <1>6, <1>8, <1>9, <1>10, <1>11, SavedInv, SavingTypes

(* The first active entry of an active user. *)
LEMMA FoundEntry ==
    ASSUME RoomInv, NEW u \in Users, IsActive(u)
    PROVE  /\ Find(u) \in 1..Len(members[u]) /\ Find(u) \in ActiveIn(members[u])
           /\ members[u][Find(u)] \in Entry /\ members[u][Find(u)].status = "active"
           /\ members[u][Find(u)].role = Role(u)
<1>1. members[u] \in Seq(Entry)
  BY DEF RoomInv, RoomTypeOK
<1>2. Find(u) \in 1..Len(members[u]) /\ Find(u) \in ActiveIn(members[u])
  BY <1>1, StandingIs, StandingType
<1>3. members[u][Find(u)] \in Entry
  BY <1>1, <1>2, ElementOfSeq
<1> QED
  BY <1>2, <1>3 DEF ActiveIn, Role

LEMMA RemoveSaveInv ==
    ASSUME RoomInv, topic = "room", topic' = topic, NEW r \in Slots, RemoveSave(r)
    PROVE  RoomInv' /\ Promised
<1> DEFINE u == roomReq[r].whom
           e == [members[u][Find(u)] EXCEPT !.status = "removed"]
<1>1. u \in Users /\ roomReq[r].op = "remove"
  BY DEF RemoveSave, Saving, RoomInv, RequestsNamed
<1>2. /\ RoomDone(r) /\ BusyRooms \ {r} \subseteq stale' /\ r \notin stale
      /\ channel' = Purged({u})
      /\ UNCHANGED <<owner, over, blind, strays>>
  BY DEF RemoveSave, Replacing, SaveReplacing, SaveVersion
<1>3. members' = [members EXCEPT ![u] = [members[u] EXCEPT ![Find(u)] = e]]
  BY DEF RemoveSave
<1>4. IsActive(u) /\ ~Leads(u)
  BY <1>1, <1>2, SavingTypes DEF Checked
<1>5. Find(u) \in 1..Len(members[u]) /\ members[u][Find(u)] \in Entry
  BY <1>1, <1>4, FoundEntry
<1>6. e \in Entry /\ e.status = "removed"
  BY <1>5 DEF Entry
<1> HIDE DEF e, u
<1>7. /\ members' \in [Users -> Seq(Entry)]
      /\ \A x \in Users \ {u} : members'[x] = members[x]
      /\ members'[u] \in Seq(Entry) /\ Len(members'[u]) = Len(members[u])
      /\ Len(members'[u]) >= Len(members[u])
      /\ ActiveIn(members'[u]) = ActiveIn(members[u]) \ {Find(u)}
      /\ ~Torn' => Standing(members'[u]) = "none"
  BY <1>1, <1>3, <1>5, <1>6, OneRewritten
<1>8. members' = [members EXCEPT ![u] = members'[u]]
  BY <1>1, <1>3, SavingTypes
<1>9. EntriesBounded'
  BY <1>2, <1>7, BoundKept DEF RoomInv
<1>10. Promised
  <2>1. Role(u) \in {"member", "admin"}
    BY <1>1, <1>4, SavingTypes DEF Leads
  <2>2. owner' \in Users
    BY <1>2, SavingTypes
  <2> QED
    BY <1>1, <1>2, <1>7, <1>8, <2>1, <2>2, OneStanding DEF Promised, RoomInv
<1>11. /\ channel' \in [Channels -> [there : BOOLEAN, private : BOOLEAN, role : [Users -> Listed]]]
       /\ \A c \in Channels, x \in Users :
             channel'[c].role[x] = IF x \in {u} THEN "none" ELSE channel[c].role[x]
  <2> DEFINE gone == {u}
  <2>1. channel' = Purged(gone)
    BY <1>2
  <2> HIDE DEF gone
  <2>2. /\ channel' \in [Channels -> [there : BOOLEAN, private : BOOLEAN, role : [Users -> Listed]]]
        /\ \A c \in Channels, x \in Users :
              channel'[c].role[x] = IF x \in gone THEN "none" ELSE channel[c].role[x]
    BY <2>1, PurgedChannels
  <2> QED
    BY <2>2 DEF gone
<1>12. ChannelsWithinRoom'
  BY <1>2, <1>7, <1>11, ChannelsKept, StandingIs DEF RoomInv
<1> QED
  BY <1>2, <1>7, <1>9, <1>10, <1>11, <1>12, SavedInv, SavingTypes

LEMMA SetRoleSaveInv ==
    ASSUME RoomInv, topic = "room", topic' = topic, NEW r \in Slots, SetRoleSave(r)
    PROVE  RoomInv' /\ Promised
<1> DEFINE u == roomReq[r].whom
           to == roomReq[r].to
           e == [members[u][Find(u)] EXCEPT !.role = to]
<1>1. u \in Users /\ to \in {"member", "admin"} /\ roomReq[r].op = "setRole"
  BY DEF SetRoleSave, Saving, RoomInv, RequestsNamed
<1>2. /\ RoomDone(r) /\ BusyRooms \ {r} \subseteq stale' /\ r \notin stale
      /\ UNCHANGED <<owner, channel, over, blind, strays>>
  BY DEF SetRoleSave, Replacing, SaveReplacing, SaveVersion
<1>3. members' = [members EXCEPT ![u] = [members[u] EXCEPT ![Find(u)] = e]]
  BY DEF SetRoleSave
<1>4. /\ IsActive(u) /\ Role(u) # "owner"
      /\ (to = "admin" /\ Role(u) # "admin") => Cardinality(AdminEntries) < MaxAdmins
  BY <1>1, <1>2, SavingTypes DEF Checked
<1>5. /\ Find(u) \in 1..Len(members[u]) /\ Find(u) \in ActiveIn(members[u])
      /\ members[u][Find(u)] \in Entry /\ members[u][Find(u)].status = "active"
  BY <1>1, <1>4, FoundEntry
<1>6. e \in Entry /\ e.status = "active" /\ e.role = to
  BY <1>1, <1>5 DEF Entry
<1> HIDE DEF e, u, to
<1>7. /\ members' \in [Users -> Seq(Entry)]
      /\ \A x \in Users \ {u} : members'[x] = members[x]
      /\ members'[u] \in Seq(Entry) /\ Len(members'[u]) = Len(members[u])
      /\ Len(members'[u]) >= Len(members[u])
      /\ ActiveIn(members'[u]) = ActiveIn(members[u])
      /\ ~Torn' => Standing(members'[u]) = to
  <2>1. /\ members' \in [Users -> Seq(Entry)]
        /\ \A x \in Users \ {u} : members'[x] = members[x]
        /\ members'[u] \in Seq(Entry) /\ Len(members'[u]) = Len(members[u])
        /\ Len(members'[u]) >= Len(members[u])
        /\ ActiveIn(members'[u]) = ActiveIn(members[u]) \cup {Find(u)}
        /\ ~Torn' => Standing(members'[u]) = to
    BY <1>1, <1>3, <1>5, <1>6, OneRewritten
  <2> QED
    BY <1>5, <2>1
<1>8. members' = [members EXCEPT ![u] = members'[u]]
  BY <1>1, <1>3, SavingTypes
<1>9. EntriesBounded'
  BY <1>2, <1>7, BoundKept DEF RoomInv
<1>10. Promised
  <2>1. Role(u) \in {"member", "admin"}
    BY <1>1, <1>4, SavingTypes
  <2>2. owner' \in Users
    BY <1>2, SavingTypes
  <2> QED
    BY <1>1, <1>2, <1>4, <1>7, <1>8, <2>1, <2>2, OneStanding DEF Promised, RoomInv
<1>11. ChannelsWithinRoom'
  BY <1>2, <1>7, ChannelsKept, StandingIs DEF RoomInv
<1> QED
  BY <1>2, <1>7, <1>9, <1>10, <1>11, SavedInv, SavingTypes

(* Saves that leave the entries alone. *)
LEMMA SameEntries ==
    ASSUME RoomInv, UNCHANGED <<members, owner, blind>>
    PROVE  Promised /\ EntriesBounded'
<1>1. Promised
  BY SameStandings DEF Promised
<1>2. EntriesBounded'
  BY BoundKept DEF RoomInv, RoomTypeOK
<1> QED
  BY <1>1, <1>2

LEMMA DisbandSaveInv ==
    ASSUME RoomInv, topic = "room", topic' = topic, NEW r \in Slots,
           DisbandSave(r) \/ RenameChannelSave(r) \/ RoomRequestFails(r)
    PROVE  RoomInv' /\ Promised
<1>1. /\ RoomDone(r) /\ stale \ {r} \subseteq stale' /\ over' \in BOOLEAN
      /\ UNCHANGED <<owner, members, channel, blind, strays>>
  <2>1. over \in BOOLEAN
    BY SavingTypes
  <2>2. CASE DisbandSave(r)
    BY <2>2 DEF DisbandSave, SavePlain
  <2>3. CASE RenameChannelSave(r)
    BY <2>1, <2>3 DEF RenameChannelSave, Replacing, SaveReplacing, SaveVersion, RoomData
  <2>4. CASE RoomRequestFails(r)
    BY <2>1, <2>4 DEF RoomRequestFails, VersionError, RoomData
  <2> QED
    BY <2>2, <2>3, <2>4
<1>2. ChannelsWithinRoom'
  BY <1>1, StandingIs, ChannelsKept DEF RoomInv
<1> QED
  BY <1>1, <1>2, SameEntries, SavingTypes, SavedInv

LEMMA ChannelSaveInv ==
    ASSUME RoomInv, topic = "room", topic' = topic, NEW r \in Slots,
           NewChannelSave(r) \/ SetChannelRoleSave(r) \/ RemoveFromChannelSave(r)
    PROVE  RoomInv' /\ Promised
<1> DEFINE c == roomReq[r].ch
           u == roomReq[r].whom
           Shape == [there : BOOLEAN, private : BOOLEAN, role : [Users -> Listed]]
<1>1. u \in Users /\ c \in Channels /\ roomReq[r].to \in Listed
  <2>1. roomReq[r].op \in {"newChannel", "setChannelRole", "removeFromChannel"}
    BY DEF NewChannelSave, SetChannelRoleSave, RemoveFromChannelSave, Saving
  <2> QED
    BY <2>1, SavingTypes DEF RoomInv, RequestsNamed, ChannelOps, RoomRequest
<1>2. /\ RoomDone(r) /\ BusyRooms \ {r} \subseteq stale'
      /\ UNCHANGED <<owner, members, over, blind>>
  BY DEF NewChannelSave, SetChannelRoleSave, RemoveFromChannelSave, Replacing, Pushing,
     SaveReplacing, SavePushing, SaveVersion
<1>3. /\ channel' \in [Channels -> Shape] /\ strays' \subseteq Users /\ strays \subseteq strays'
      /\ \A d \in Channels, x \in Users : channel'[d].role[x] # "none" =>
            channel[d].role[x] # "none" \/ IsActive(x) \/ x \in strays'
  <2>0. channel \in [Channels -> Shape] /\ strays \subseteq Users
    BY SavingTypes
  <2>1. CASE NewChannelSave(r)
    <3> DEFINE private == roomReq[r].to = "member"
               invited == IF private THEN {u} \ {roomReq[r].by} ELSE {}
               role == [x \in Users |-> IF x \in invited THEN "member" ELSE "none"]
               new == [there |-> TRUE, private |-> private, role |-> role]
    <3>1. /\ channel' = [channel EXCEPT ![c] = new]
          /\ strays' = strays \cup {x \in invited : ~IsActive(x)}
      BY <2>1 DEF NewChannelSave
    <3>2. invited \subseteq Users /\ role \in [Users -> Listed] /\ private \in BOOLEAN
      BY <1>1 DEF Listed
    <3>3. \A x \in Users : role[x] # "none" => x \in invited
      OBVIOUS
    <3> HIDE DEF private, invited, role
    <3>4. new \in Shape /\ new.role = role
      BY <3>2
    <3> HIDE DEF new, c, u
    <3>5. /\ channel' \in [Channels -> Shape] /\ channel'[c] = new
          /\ \A d \in Channels \ {c} : channel'[d] = channel[d]
      BY <1>1, <2>0, <3>1, <3>4
    <3>6. \A d \in Channels, x \in Users : channel'[d].role[x] # "none" =>
            channel[d].role[x] # "none" \/ (x \in invited)
      BY <3>3, <3>4, <3>5
    <3> QED
      BY <2>0, <3>1, <3>2, <3>5, <3>6
  <2>2. ASSUME NEW listed \in Listed, channel' = [channel EXCEPT ![c].role[u] = listed],
               strays \subseteq strays', strays' \subseteq Users,
               listed = "none" \/ IsActive(u) \/ u \in strays'
        PROVE  /\ channel' \in [Channels -> Shape]
               /\ \A d \in Channels, x \in Users : channel'[d].role[x] # "none" =>
                     channel[d].role[x] # "none" \/ IsActive(x) \/ x \in strays'
    <3> DEFINE new == [channel[c] EXCEPT !.role = [channel[c].role EXCEPT ![u] = listed]]
    <3>1. channel' = [channel EXCEPT ![c] = new]
      BY <2>2
    <3>2. [channel[c].role EXCEPT ![u] = listed] \in [Users -> Listed]
      BY <1>1, <2>0
    <3>3. new \in Shape /\ new.role = [channel[c].role EXCEPT ![u] = listed]
      BY <1>1, <2>0, <3>2
    <3>4. \A x \in Users \ {u} : new.role[x] = channel[c].role[x]
      BY <1>1, <2>0, <3>3
    <3>5. new.role[u] = listed
      BY <1>1, <2>0, <3>3
    <3> HIDE DEF new, c, u
    <3>6. /\ channel' \in [Channels -> Shape] /\ channel'[c] = new
          /\ \A d \in Channels \ {c} : channel'[d] = channel[d]
      BY <1>1, <2>0, <3>1, <3>3
    <3> QED
      BY <2>2, <3>4, <3>5, <3>6
  <2>3. CASE SetChannelRoleSave(r)
    <3> DEFINE listed == IF roomReq[r].to = "member" /\ ~channel[c].private THEN "none"
                         ELSE roomReq[r].to
    <3>1. channel' = [channel EXCEPT ![c].role[u] = listed]
      BY <2>3 DEF SetChannelRoleSave
    <3>2. strays' = IF IsActive(u) THEN strays ELSE strays \cup {u}
      BY <2>3 DEF SetChannelRoleSave
    <3>3. listed \in Listed
      BY <1>1 DEF Listed
    <3> HIDE DEF listed
    <3> QED
      BY <1>1, <2>0, <2>2, <3>1, <3>2, <3>3
  <2>4. CASE RemoveFromChannelSave(r)
    <3>1. channel' = [channel EXCEPT ![c].role[u] = "none"] /\ strays' = strays
      BY <2>4 DEF RemoveFromChannelSave
    <3>2. "none" \in Listed
      BY DEF Listed
    <3> QED
      BY <2>0, <2>2, <3>1, <3>2
  <2> QED
    BY <2>1, <2>3, <2>4
<1>4. ChannelsWithinRoom'
  BY <1>2, <1>3, ChannelsKept, StandingIs DEF RoomInv
<1> HIDE DEF c, u
<1> QED
  BY <1>2, <1>3, <1>4, SameEntries, SavingTypes, SavedInv

LEMMA AddToChannelSaveInv ==
    ASSUME RoomInv, topic = "room", topic' = topic, NEW r \in Slots, AddToChannelSave(r)
    PROVE  RoomInv' /\ Promised
<1> DEFINE c == roomReq[r].ch
           u == roomReq[r].whom
           Shape == [there : BOOLEAN, private : BOOLEAN, role : [Users -> Listed]]
           s == IF members[u] = <<>> THEN <<Newcomer>>
                ELSE IF members[u][1].status = "active" THEN members[u]
                ELSE [members[u] EXCEPT ![1] = Newcomer]
<1>1. u \in Users /\ c \in Channels /\ roomReq[r].op = "addToChannel"
  <2>1. roomReq[r].op = "addToChannel"
    BY DEF AddToChannelSave, Saving
  <2> QED
    BY <2>1 DEF RoomInv, RequestsNamed, ChannelOps
<1>2. /\ RoomDone(r) /\ BusyRooms \ {r} \subseteq stale' /\ r \notin stale
      /\ UNCHANGED <<owner, over, blind, strays>>
  BY DEF AddToChannelSave, Replacing, SaveReplacing, SaveVersion
<1>3. members' = [members EXCEPT ![u] = s]
  BY DEF AddToChannelSave
<1>4. (members[u] = <<>> \/ members[u][1].status # "active")
        => Cardinality(ActiveEntries) < MaxMembers
  BY <1>1, <1>2, SavingTypes DEF Checked
<1>5. /\ members[u] \in Seq(Entry) /\ Len(members[u]) \in Nat
      /\ Len(members[u]) <= 1 + blind[u]
      /\ members[u] # <<>> => 1 \in 1..Len(members[u])
  BY <1>1, SavingTypes, EmptySeq
<1> HIDE DEF c, u
<1>6. /\ s \in Seq(Entry) /\ s # <<>> /\ 1 \in ActiveIn(s)
      /\ Len(s) >= Len(members[u]) /\ Len(s) <= 1 + blind[u]
      /\ ActiveIn(s) = ActiveIn(members[u]) \cup {1}
      /\ members[u] # <<>> => Len(s) = Len(members[u])
      /\ (members[u] # <<>> /\ members[u][1].status = "active") => s = members[u]
      /\ (members[u] = <<>> \/ members[u][1].status # "active") => s[1] = Newcomer
  <2>1. CASE members[u] = <<>>
    <3>1. s = <<Newcomer>>
      BY <2>1
    <3> HIDE DEF s
    <3>2. s \in Seq(Entry) /\ Len(s) = 1 /\ s[1] = Newcomer /\ s # <<>> /\ DOMAIN s = {1}
      BY <3>1, EntryTypes
    <3>3. ActiveIn(s) = {1} /\ ActiveIn(members[u]) = {}
      BY <2>1, <3>2, EntryTypes DEF ActiveIn
    <3>4. Len(members[u]) = 0 /\ blind[u] \in Nat
      BY <1>1, <2>1, SavingTypes
    <3> QED
      BY <2>1, <3>2, <3>3, <3>4
  <2>2. CASE members[u] # <<>> /\ members[u][1].status = "active"
    <3>1. s = members[u] /\ 1 \in ActiveIn(members[u])
      BY <1>5, <2>2, LenProperties DEF ActiveIn
    <3> HIDE DEF s
    <3>2. ActiveIn(s) = ActiveIn(members[u]) \cup {1}
      BY <3>1
    <3>3. Len(s) >= Len(members[u]) /\ Len(s) <= 1 + blind[u]
      BY <1>5, <3>1
    <3> QED
      BY <1>5, <2>2, <3>1, <3>2, <3>3, Zenon
  <2>3. CASE members[u] # <<>> /\ members[u][1].status # "active"
    <3> DEFINE z == [members[u] EXCEPT ![1] = Newcomer]
    <3>1. /\ z \in Seq(Entry) /\ Len(z) = Len(members[u]) /\ z # <<>> /\ z[1] = Newcomer
          /\ ActiveIn(z) = ActiveIn(members[u]) \cup {1}
      <4>1. 1 \in 1..Len(members[u]) /\ members[u] \in Seq(Entry) /\ Newcomer \in Entry
        BY <1>5, <2>3, EntryTypes
      <4>2. \A i \in 1..Len(members[u]) :
              LET x == [members[u] EXCEPT ![i] = Newcomer] IN
              /\ x \in Seq(Entry) /\ Len(x) = Len(members[u]) /\ x # <<>> /\ x[i] = Newcomer
              /\ ActiveIn(x) = IF Newcomer.status = "active" THEN ActiveIn(members[u]) \cup {i}
                                                            ELSE ActiveIn(members[u]) \ {i}
        BY <4>1, Rewrite
      <4>3. /\ z \in Seq(Entry) /\ Len(z) = Len(members[u]) /\ z # <<>> /\ z[1] = Newcomer
            /\ ActiveIn(z) = IF Newcomer.status = "active" THEN ActiveIn(members[u]) \cup {1}
                                                          ELSE ActiveIn(members[u]) \ {1}
        BY <4>1, <4>2, Zenon
      <4> HIDE DEF z
      <4> QED
        BY <4>3, EntryTypes
    <3>2. s = z
      BY <2>3
    <3> HIDE DEF s, z
    <3>3. /\ Len(s) >= Len(members[u]) /\ Len(s) <= 1 + blind[u] /\ 1 \in ActiveIn(s)
      BY <1>5, <3>1, <3>2
    <3> QED
      BY <2>3, <3>1, <3>2, <3>3
  <2> QED
    BY <2>1, <2>2, <2>3
<1> HIDE DEF s
<1>7. /\ members' \in [Users -> Seq(Entry)] /\ members'[u] = s
      /\ \A x \in Users \ {u} : members'[x] = members[x]
      /\ ~Torn' => Len(s) <= 1
  BY <1>1, <1>3, <1>6, Changed DEF RoomInv
<1>8. EntriesBounded'
  <2>1. CASE members[u] = <<>> \/ members[u][1].status # "active"
    <3>1. Len(members'[u]) <= 1 + blind'[u]
      BY <1>1, <1>2, <1>6, <1>7
    <3>2. ActiveIn(members'[u]) \subseteq ActiveIn(members[u]) \cup {1}
      BY <1>6, <1>7
    <3> QED
      BY <1>1, <1>2, <1>4, <1>7, <2>1, <3>1, <3>2, BoundGrown DEF RoomInv
  <2>2. CASE members[u] # <<>> /\ members[u][1].status = "active"
    <3>1. members' = members
      BY <1>1, <1>3, <1>6, <2>2, SavingTypes
    <3> QED
      BY <1>2, <3>1, SameEntries
  <2> QED
    BY <2>1, <2>2
<1>9. Promised
  <2>1. CASE members[u] # <<>> /\ members[u][1].status = "active"
    <3>1. members' = members
      BY <1>1, <1>3, <1>6, <2>1, SavingTypes
    <3> QED
      BY <1>2, <3>1, SameEntries
  <2>2. CASE members[u] = <<>> \/ members[u][1].status # "active"
    <3>1. ~Torn' => Role(u) = "none" /\ Standing(s) = "member"
      <4> SUFFICES ASSUME ~Torn' PROVE Role(u) = "none" /\ Standing(s) = "member"
        OBVIOUS
      <4>1. Len(s) <= 1 /\ Len(members[u]) <= 1
        BY <1>1, <1>5, <1>6, <1>7
      <4>2. Standing(s) = IF s[1].status = "active" THEN s[1].role ELSE "none"
        BY <1>6, <4>1, OneEntry, Zenon
      <4>3. Standing(members[u]) = "none"
        <5> DEFINE z == members[u]
        <5>1. z \in Seq(Entry) /\ Len(z) <= 1
          BY <1>5, <4>1
        <5> HIDE DEF z
        <5>2. /\ z # <<>> => Standing(z) = IF z[1].status = "active" THEN z[1].role ELSE "none"
              /\ z = <<>> => Standing(z) = "none"
          BY <5>1, OneEntry, Zenon
        <5> QED
          BY <2>2, <5>2 DEF z
      <4> QED
        BY <1>6, <2>2, <4>2, <4>3, StandingIs, EntryTypes
    <3>2. owner' \in Users
      BY <1>2, SavingTypes
    <3> QED
      BY <1>1, <1>2, <1>3, <1>6, <3>1, <3>2, OneStanding DEF Promised, RoomInv
  <2> QED
    BY <2>1, <2>2
<1>10. /\ channel' \in [Channels -> Shape]
       /\ \A d \in Channels, x \in Users : channel'[d].role[x] # "none" =>
             channel[d].role[x] # "none" \/ x = u
  <2>0. channel \in [Channels -> Shape] /\ "member" \in Listed
    BY SavingTypes DEF Listed
  <2> DEFINE new == [channel[c] EXCEPT !.role = [channel[c].role EXCEPT ![u] = "member"]]
  <2>1. channel' = [channel EXCEPT ![c] = new]
    BY DEF AddToChannelSave, c, u
  <2>2. [channel[c].role EXCEPT ![u] = "member"] \in [Users -> Listed]
    BY <1>1, <2>0
  <2>3. new \in Shape /\ new.role = [channel[c].role EXCEPT ![u] = "member"]
    BY <1>1, <2>0, <2>2
  <2>4. \A x \in Users \ {u} : new.role[x] = channel[c].role[x]
    BY <1>1, <2>0, <2>3
  <2> HIDE DEF new
  <2>5. /\ channel' \in [Channels -> Shape] /\ channel'[c] = new
        /\ \A d \in Channels \ {c} : channel'[d] = channel[d]
    BY <1>1, <2>0, <2>1, <2>3
  <2> QED
    BY <2>4, <2>5
<1>11. ChannelsWithinRoom'
  BY <1>2, <1>6, <1>7, <1>10, ChannelsKept, StandingIs DEF RoomInv
<1> QED
  BY <1>2, <1>7, <1>8, <1>9, <1>10, <1>11, SavedInv, SavingTypes

(* One hands the room over to another. *)
LEMMA TwoStandings ==
    ASSUME RoomInv, NEW u \in Users, NEW v \in Users, u # v, owner' = u,
           NEW s \in Seq(Entry), NEW t \in Seq(Entry),
           Len(s) = Len(members[u]), Len(t) = Len(members[v]),
           members' = [members EXCEPT ![u] = s, ![v] = t],
           Role(v) = "owner", IsActive(u),
           ~Torn' => Standing(s) = "owner" /\ Standing(t) \in {"member", "none"}
    PROVE  Promised
<1> DEFINE before == [x \in Users |-> Role(x)]
           after == [x \in Users |-> Role(x)]'
<1>1. /\ members \in [Users -> Seq(Entry)] /\ members' \in [Users -> Seq(Entry)]
      /\ members'[u] = s /\ members'[v] = t /\ \A x \in Users \ {u, v} : members'[x] = members[x]
  BY DEF RoomInv, RoomTypeOK
<1>2. \A x \in Users : Len(members'[x]) = Len(members[x])
  BY <1>1
<1>3. \A x \in Users : Role(x)' = IF x = u THEN Standing(s)
                                  ELSE IF x = v THEN Standing(t) ELSE Role(x)
  BY <1>1, StandingIs, StandingWillBe
<1>4. CASE Torn'
  <2>1. after \in [Users -> Membership!Roles]
    <3>1. \A x \in Users : Role(x)' \in Membership!Roles
      BY <1>1, StandingWillBe, StandingType DEF Membership!Roles
    <3> QED
      BY <3>1
  <2> QED
    BY <1>4, <2>1 DEF Promised, Membership!Next, Torn
<1>5. CASE ~Torn'
  <2>1. ~Torn
    BY <1>2, <1>5 DEF Torn
  <2>2. Role(u) \in {"member", "admin"}
    <3>1. Role(u) # "owner" /\ v = owner
      BY <2>1 DEF RoomInv, OwnerLeads
    <3>2. Role(u) \in {"none", "member", "admin", "owner"} /\ Role(u) # "none"
      BY <1>1, StandingIs, StandingType
    <3> QED
      BY <3>1, <3>2
  <2>3. after = [before EXCEPT ![v] = Standing(t), ![u] = "owner"]
    BY <1>3, <1>5
  <2>4. before[v] = "owner" /\ before[u] \in {"member", "admin"}
    BY <2>2
  <2>5. Standing(t) \in {"member", "none"}
    BY <1>5
  <2> HIDE DEF before, after
  <2>6. Membership!HandOver(v, u)
    BY <2>3, <2>4, <2>5 DEF Membership!HandOver, before, after
  <2>7. Membership!Change(v)
    BY <2>6 DEF Membership!Change
  <2> QED
    BY <1>5, <2>1, <2>7 DEF Promised, Membership!Next, Torn
<1> QED
  BY <1>4, <1>5

(* The first entry of somebody who leads is rewritten in its role only.    *)
LEMMA RoleRewritten ==
    ASSUME RoomInv, NEW u \in Users, NEW i \in 1..Len(members[u]),
           NEW role \in {"owner", "admin", "member"},
           NEW s, s = [members[u] EXCEPT ![i] = [members[u][i] EXCEPT !.role = role]]
    PROVE  /\ s \in Seq(Entry) /\ Len(s) = Len(members[u])
           /\ ActiveIn(s) = ActiveIn(members[u])
           /\ (Len(s) <= 1 /\ IsActive(u)) => Standing(s) = role
<1> DEFINE e == [members[u][i] EXCEPT !.role = role]
           z == [members[u] EXCEPT ![i] = e]
<1>1. members[u] \in Seq(Entry) /\ Len(members[u]) \in Nat /\ DOMAIN members[u] = 1..Len(members[u])
  BY LenProperties DEF RoomInv, RoomTypeOK
<1>2. members[u][i] \in Entry
  BY <1>1, ElementOfSeq
<1>3. e \in Entry /\ e.status = members[u][i].status /\ e.role = role
  BY <1>2 DEF Entry
<1> HIDE DEF e
<1> DEFINE m == members[u]
<1>4. /\ z \in Seq(Entry) /\ Len(z) = Len(m) /\ z # <<>> /\ z[i] = e
      /\ ActiveIn(z) = IF e.status = "active" THEN ActiveIn(m) \cup {i}
                                             ELSE ActiveIn(m) \ {i}
  <2>1. m \in Seq(Entry) /\ i \in 1..Len(m) /\ e \in Entry
    BY <1>1, <1>3
  <2> HIDE DEF m
  <2>2. /\ [m EXCEPT ![i] = e] \in Seq(Entry)
        /\ Len([m EXCEPT ![i] = e]) = Len(m)
        /\ [m EXCEPT ![i] = e] # <<>>
        /\ [m EXCEPT ![i] = e][i] = e
        /\ ActiveIn([m EXCEPT ![i] = e]) = IF e.status = "active" THEN ActiveIn(m) \cup {i}
                                                                 ELSE ActiveIn(m) \ {i}
    BY <2>1, Rewrite
  <2>3. z = [m EXCEPT ![i] = e]
    BY DEF m
  <2> QED
    BY <2>2, <2>3
<1>5. i \in ActiveIn(members[u]) <=> e.status = "active"
  BY <1>1, <1>3 DEF ActiveIn
<1>6. s = z
  BY DEF e
<1> HIDE DEF z
<1>7. ActiveIn(s) = ActiveIn(members[u])
  BY <1>4, <1>5, <1>6
<1>8. ASSUME Len(s) <= 1, IsActive(u)
      PROVE  Standing(s) = role
  <2>1. ActiveIn(s) # {} /\ s \in Seq(Entry) /\ s # <<>>
    BY <1>4, <1>6, <1>7, <1>8, StandingIs
  <2>2. /\ Standing(s) = IF s[1].status = "active" THEN s[1].role ELSE "none"
        /\ ActiveIn(s) = IF s[1].status = "active" THEN {1} ELSE {}
    BY <1>8, <2>1, OneEntry, Zenon
  <2>3. i = 1
    BY <1>1, <1>4, <1>6, <1>8
  <2> QED
    BY <1>3, <1>4, <1>6, <2>1, <2>2, <2>3
<1> QED
  BY <1>4, <1>6, <1>7, <1>8

LEMMA TransferSaveInv ==
    ASSUME RoomInv, topic = "room", topic' = topic, NEW r \in Slots, TransferSave(r)
    PROVE  RoomInv' /\ Promised
<1> DEFINE u == roomReq[r].whom
           by == roomReq[r].by
           s == [members[u] EXCEPT ![Find(u)] = [members[u][Find(u)] EXCEPT !.role = "owner"]]
           t == [members[by] EXCEPT ![1] = [members[by][1] EXCEPT !.role = "member"]]
           Listing(c) == [x \in Users |-> IF x = u THEN "none"
                                          ELSE IF x = by /\ channel[c].private THEN "member"
                                          ELSE channel[c].role[x]]
           Shape == [there : BOOLEAN, private : BOOLEAN, role : [Users -> Listed]]
<1>1. u \in Users /\ by \in Users /\ roomReq[r].op = "transfer"
  <2>1. roomReq[r].op = "transfer"
    BY DEF TransferSave, Saving
  <2> QED
    BY <2>1 DEF RoomInv, RequestsNamed
<1>2. /\ RoomDone(r) /\ BusyRooms \ {r} \subseteq stale' /\ r \notin stale
      /\ UNCHANGED <<over, blind, strays>> /\ owner' = u
  BY DEF TransferSave, Replacing, SaveReplacing, SaveVersion
<1>3. Role(by) = "owner" /\ u # by /\ IsActive(u) /\ IsActive(by)
  <2>1. Role(by) = "owner" /\ u # by /\ IsActive(u)
    BY <1>1, <1>2, SavingTypes DEF Checked
  <2> QED
    BY <1>1, <2>1, SavingTypes
<1>4. members' = [members EXCEPT ![u] = s, ![by] = t]
  BY <1>3 DEF TransferSave
<1>5. /\ channel' = [c \in Channels |-> [channel[c] EXCEPT !.role = Listing(c)]]
  BY DEF TransferSave
<1>6. /\ s = [members[u] EXCEPT ![Find(u)] = [members[u][Find(u)] EXCEPT !.role = "owner"]]
      /\ t = [members[by] EXCEPT ![1] = [members[by][1] EXCEPT !.role = "member"]]
  OBVIOUS
<1>7. \A c \in Channels : /\ Listing(c) \in [Users -> Listed]
                          /\ \A x \in Users : Listing(c)[x] # "none" => channel[c].role[x] # "none" \/ x = by
  <2>1. channel \in [Channels -> Shape]
    BY SavingTypes
  <2> QED
    BY <2>1 DEF Listed
<1> HIDE DEF s, t, u, by, Listing
<1>8. Find(u) \in 1..Len(members[u]) /\ 1 \in 1..Len(members[by])
  <2>1. Find(u) \in 1..Len(members[u]) /\ Find(by) \in 1..Len(members[by])
    BY <1>1, <1>3, FoundEntry
  <2> QED
    BY <1>1, <2>1, SavingTypes
<1>9. /\ s \in Seq(Entry) /\ Len(s) = Len(members[u])
      /\ ActiveIn(s) = ActiveIn(members[u])
      /\ Len(s) <= 1 => Standing(s) = "owner"
  <2>1. \A i \in 1..Len(members[u]) :
          LET z == [members[u] EXCEPT ![i] = [members[u][i] EXCEPT !.role = "owner"]] IN
          /\ z \in Seq(Entry) /\ Len(z) = Len(members[u])
          /\ ActiveIn(z) = ActiveIn(members[u])
          /\ Len(z) <= 1 => Standing(z) = "owner"
    BY <1>1, <1>3, RoleRewritten
  <2> QED
    BY <1>6, <1>8, <2>1, Zenon
<1>10. /\ t \in Seq(Entry) /\ Len(t) = Len(members[by])
       /\ ActiveIn(t) = ActiveIn(members[by])
       /\ Len(t) <= 1 => Standing(t) = "member"
  <2>1. \A i \in 1..Len(members[by]) :
          LET z == [members[by] EXCEPT ![i] = [members[by][i] EXCEPT !.role = "member"]] IN
          /\ z \in Seq(Entry) /\ Len(z) = Len(members[by])
          /\ ActiveIn(z) = ActiveIn(members[by])
          /\ Len(z) <= 1 => Standing(z) = "member"
    BY <1>1, <1>3, RoleRewritten
  <2> QED
    BY <1>6, <1>8, <2>1, Zenon
<1>11. /\ members' \in [Users -> Seq(Entry)] /\ members'[u] = s /\ members'[by] = t
       /\ \A x \in Users \ {u, by} : members'[x] = members[x]
  BY <1>1, <1>3, <1>4, <1>9, <1>10, SavingTypes
<1>12. \A x \in Users : Len(members'[x]) = Len(members[x]) /\ ActiveIn(members'[x]) = ActiveIn(members[x])
  BY <1>9, <1>10, <1>11
<1>13. EntriesBounded'
  BY <1>2, <1>11, <1>12, BoundKept DEF RoomInv
<1>14. Promised
  <2>1. ~Torn' => Len(s) <= 1 /\ Len(t) <= 1
    <3>1. ~Torn' => \A x \in Users : ~(Len(members'[x]) > 1)
      BY DEF Torn
    <3>2. Len(s) \in Nat /\ Len(t) \in Nat
      BY <1>9, <1>10, LenProperties
    <3> QED
      BY <1>1, <1>11, <3>1, <3>2
  <2> QED
    BY <1>1, <1>2, <1>3, <1>4, <1>9, <1>10, <2>1, TwoStandings
<1>15. /\ channel' \in [Channels -> Shape]
       /\ \A c \in Channels, x \in Users : channel'[c].role[x] # "none" =>
             channel[c].role[x] # "none" \/ x = by
  <2>1. channel \in [Channels -> Shape]
    BY SavingTypes
  <2>2. \A c \in Channels : channel'[c] \in Shape /\ channel'[c].role = Listing(c)
    BY <1>5, <1>7, <2>1
  <2> QED
    BY <1>5, <1>7, <2>2
<1>16. ChannelsWithinRoom'
  BY <1>1, <1>2, <1>3, <1>12, <1>15, ChannelsKept, StandingIs DEF RoomInv
<1> QED
  BY <1>1, <1>2, <1>11, <1>13, <1>14, <1>15, <1>16, SavedInv, SavingTypes

(* Who leaves takes his standing with him; an heir gets the room.          *)
LEMMA LeaveSaveInv ==
    ASSUME RoomInv, topic = "room", topic' = topic, NEW r \in Slots, LeaveSave(r)
    PROVE  RoomInv' /\ Promised
<1> DEFINE u == roomReq[r].by
           heir == roomReq[r].whom
           passed == IF Role(u) = "owner"
                     THEN [members EXCEPT ![heir][Find(heir)].role = "owner"]
                     ELSE members
<1>1. u \in Users /\ roomReq[r].op = "leave"
  <2>1. roomReq[r].op = "leave"
    BY DEF LeaveSave, Saving
  <2> QED
    BY <2>1 DEF RoomInv, RequestsNamed
<1>2. /\ RoomDone(r) /\ BusyRooms \ {r} \subseteq stale' /\ r \notin stale
      /\ UNCHANGED <<over, blind, strays>>
      /\ channel' = Purged({u, heir})
      /\ owner' = IF Role(u) = "owner" THEN heir ELSE owner
  BY DEF LeaveSave, Replacing, SaveReplacing, SaveVersion
<1>3. members' = [passed EXCEPT ![u][Find(u)].status = "left"]
  BY DEF LeaveSave
<1>4. IsActive(u) /\ (Role(u) = "owner" => heir \in Users /\ IsActive(heir))
  BY <1>1, <1>2, SavingTypes DEF Checked
<1>5. /\ Find(u) \in 1..Len(members[u]) /\ Find(u) \in ActiveIn(members[u])
      /\ members[u][Find(u)] \in Entry
  BY <1>1, <1>4, FoundEntry
<1>6. /\ channel' \in [Channels -> [there : BOOLEAN, private : BOOLEAN, role : [Users -> Listed]]]
      /\ \A c \in Channels, x \in Users :
             channel'[c].role[x] = IF x \in {u, heir} THEN "none" ELSE channel[c].role[x]
  <2> DEFINE gone == {u, heir}
  <2>1. channel' = Purged(gone)
    BY <1>2
  <2> HIDE DEF gone
  <2>2. /\ channel' \in [Channels -> [there : BOOLEAN, private : BOOLEAN, role : [Users -> Listed]]]
        /\ \A c \in Channels, x \in Users :
               channel'[c].role[x] = IF x \in gone THEN "none" ELSE channel[c].role[x]
    BY <2>1, PurgedChannels
  <2> QED
    BY <2>2 DEF gone
<1> HIDE DEF u, heir
<1>7. owner' \in Users
  BY <1>2, <1>4, SavingTypes
(* The last three facts of each case are what the end of the proof needs. *)
<1>8. ASSUME Role(u) # "owner" \/ heir = u
      PROVE  /\ members' \in [Users -> Seq(Entry)] /\ Promised
             /\ \A x \in Users : Len(members'[x]) = Len(members[x])
             /\ \A x \in Users : ActiveIn(members'[x]) \subseteq ActiveIn(members[x])
             /\ \A x \in Users \ {u} : ActiveIn(members'[x]) = ActiveIn(members[x])
  <2>1. PICK e \in Entry : /\ e.status = "left"
                           /\ members' = [members EXCEPT ![u] = [members[u] EXCEPT ![Find(u)] = e]]
    <3>1. CASE Role(u) # "owner"
      <4> DEFINE e == [members[u][Find(u)] EXCEPT !.status = "left"]
      <4>1. e \in Entry /\ e.status = "left"
        BY <1>5 DEF Entry
      <4>2. members' = [members EXCEPT ![u] = [members[u] EXCEPT ![Find(u)] = e]]
        BY <1>3, <3>1
      <4> QED
        BY <4>1, <4>2
    <3>2. CASE Role(u) = "owner"
      <4> DEFINE d == [members[u][Find(u)] EXCEPT !.role = "owner"]
                 e == [d EXCEPT !.status = "left"]
      <4>1. e \in Entry /\ e.status = "left"
        BY <1>5 DEF Entry
      <4>2. passed = [members EXCEPT ![u] = [members[u] EXCEPT ![Find(u)] = d]]
        BY <1>8, <3>2
      <4>3. members' = [passed EXCEPT ![u] = [passed[u] EXCEPT ![Find(u)] =
                           [passed[u][Find(u)] EXCEPT !.status = "left"]]]
        BY <1>3
      <4>4. /\ members \in [Users -> Seq(Entry)] /\ DOMAIN members[u] = 1..Len(members[u])
            /\ members[u] \in Seq(Entry)
        BY <1>1, SavingTypes, LenProperties
      <4>5. passed[u] = [members[u] EXCEPT ![Find(u)] = d]
        BY <1>1, <4>2, <4>4
      <4>6. passed[u][Find(u)] = d
        BY <1>5, <4>4, <4>5
      <4> HIDE DEF passed, d
      <4>7. [passed[u] EXCEPT ![Find(u)] = e] = [members[u] EXCEPT ![Find(u)] = e]
        BY <4>4, <4>5
      <4>8. members' = [passed EXCEPT ![u] = [members[u] EXCEPT ![Find(u)] = e]]
        BY <4>3, <4>6, <4>7
      <4>9. members' = [members EXCEPT ![u] = [members[u] EXCEPT ![Find(u)] = e]]
        BY <4>2, <4>4, <4>8
      <4> QED
        BY <4>1, <4>9
    <3> QED
      BY <3>1, <3>2
  <2>2. /\ members' \in [Users -> Seq(Entry)]
        /\ \A x \in Users \ {u} : members'[x] = members[x]
        /\ members'[u] \in Seq(Entry) /\ Len(members'[u]) = Len(members[u])
        /\ Len(members'[u]) >= Len(members[u])
        /\ ActiveIn(members'[u]) = ActiveIn(members[u]) \ {Find(u)}
        /\ ~Torn' => Standing(members'[u]) = "none"
    BY <1>1, <1>5, <2>1, OneRewritten
  <2>3. members' = [members EXCEPT ![u] = members'[u]]
    BY <1>1, <2>1, SavingTypes
  <2>4. Promised
    <3>1. Role(u) \in {"member", "admin", "owner"}
      BY <1>1, <1>4, SavingTypes
    <3>2. ~Torn' => (Role(u) = "owner" => u = owner) /\ owner' = owner
      <4>1. ~Torn' => ~Torn
        BY <1>1, <2>2, <2>3, Changed DEF RoomInv
      <4>2. ~Torn => (Role(u) = "owner" => u = owner)
        BY <1>1 DEF RoomInv, OwnerLeads
      <4> QED
        BY <1>2, <1>8, <4>1, <4>2
    <3> QED
      BY <1>1, <1>7, <2>2, <2>3, <3>1, <3>2, OneStanding DEF Promised, RoomInv
  <2> QED
    BY <2>2, <2>4
<1>9. ASSUME Role(u) = "owner", heir # u
      PROVE  /\ members' \in [Users -> Seq(Entry)] /\ Promised
             /\ \A x \in Users : Len(members'[x]) = Len(members[x])
             /\ \A x \in Users : ActiveIn(members'[x]) \subseteq ActiveIn(members[x])
             /\ \A x \in Users \ {u} : ActiveIn(members'[x]) = ActiveIn(members[x])
  <2> DEFINE e == [members[u][Find(u)] EXCEPT !.status = "left"]
             t == [members[u] EXCEPT ![Find(u)] = e]
             s == [members[heir] EXCEPT ![Find(heir)] = [members[heir][Find(heir)] EXCEPT !.role = "owner"]]
  <2>1. heir \in Users /\ IsActive(heir) /\ owner' = heir
    BY <1>2, <1>4, <1>9
  <2>2. members' = [members EXCEPT ![heir] = s, ![u] = t]
    BY <1>3, <1>9
  <2>3. Find(heir) \in 1..Len(members[heir])
    BY <2>1, FoundEntry
  <2>4. /\ s \in Seq(Entry) /\ Len(s) = Len(members[heir])
        /\ ActiveIn(s) = ActiveIn(members[heir])
        /\ Len(s) <= 1 => Standing(s) = "owner"
    <3>1. \A i \in 1..Len(members[heir]) :
            LET z == [members[heir] EXCEPT ![i] = [members[heir][i] EXCEPT !.role = "owner"]] IN
            /\ z \in Seq(Entry) /\ Len(z) = Len(members[heir])
            /\ ActiveIn(z) = ActiveIn(members[heir])
            /\ Len(z) <= 1 => Standing(z) = "owner"
      BY <2>1, RoleRewritten
    <3> QED
      BY <2>3, <3>1, Zenon
  <2>5. e \in Entry /\ e.status = "left"
    BY <1>5 DEF Entry
  <2> HIDE DEF e, s
  <2>6. /\ t \in Seq(Entry) /\ Len(t) = Len(members[u]) /\ t # <<>> /\ t[Find(u)] = e
        /\ ActiveIn(t) = ActiveIn(members[u]) \ {Find(u)}
    <3>1. members[u] \in Seq(Entry)
      BY <1>1, SavingTypes
    <3>2. \A d \in Entry :
            LET x == [members[u] EXCEPT ![Find(u)] = d] IN
            /\ x \in Seq(Entry) /\ Len(x) = Len(members[u]) /\ x # <<>> /\ x[Find(u)] = d
            /\ ActiveIn(x) = IF d.status = "active" THEN ActiveIn(members[u]) \cup {Find(u)}
                                                   ELSE ActiveIn(members[u]) \ {Find(u)}
      BY <1>5, <3>1, Rewrite
    <3>3. /\ t \in Seq(Entry) /\ Len(t) = Len(members[u]) /\ t # <<>> /\ t[Find(u)] = e
          /\ ActiveIn(t) = IF e.status = "active" THEN ActiveIn(members[u]) \cup {Find(u)}
                                                 ELSE ActiveIn(members[u]) \ {Find(u)}
      BY <2>5, <3>2, Zenon
    <3> HIDE DEF t
    <3> QED
      BY <2>5, <3>3
  <2> HIDE DEF t
  <2>7. /\ members' \in [Users -> Seq(Entry)] /\ members'[heir] = s /\ members'[u] = t
        /\ \A x \in Users \ {u, heir} : members'[x] = members[x]
    BY <1>1, <1>9, <2>1, <2>2, <2>4, <2>6, SavingTypes
  <2>8. Len(t) <= 1 => Standing(t) = "none"
    <3>1. Len(t) <= 1 => Standing(t) = IF t[1].status = "active" THEN t[1].role ELSE "none"
      BY <2>6, OneEntry, Zenon
    <3>2. Len(t) <= 1 => Find(u) = 1
      BY <1>1, <1>5, <2>6, SavingTypes
    <3> QED
      BY <2>5, <2>6, <3>1, <3>2
  <2>9. Promised
    <3>1. ~Torn' => Len(s) <= 1 /\ Len(t) <= 1
      <4>1. ~Torn' => \A x \in Users : ~(Len(members'[x]) > 1)
        BY DEF Torn
      <4>2. Len(s) \in Nat /\ Len(t) \in Nat
        BY <2>4, <2>6, LenProperties
      <4> QED
        BY <1>1, <2>1, <2>7, <4>1, <4>2
    <3> QED
      BY <1>1, <1>9, <2>1, <2>2, <2>4, <2>6, <2>8, <3>1, TwoStandings
  <2> QED
    BY <2>4, <2>6, <2>7, <2>9
<1>10. /\ members' \in [Users -> Seq(Entry)] /\ Promised
       /\ \A x \in Users : Len(members'[x]) = Len(members[x])
       /\ \A x \in Users : ActiveIn(members'[x]) \subseteq ActiveIn(members[x])
       /\ \A x \in Users \ {u} : ActiveIn(members'[x]) = ActiveIn(members[x])
  BY <1>8, <1>9
<1>11. EntriesBounded'
  BY <1>2, <1>10, BoundKept DEF RoomInv
<1>12. ChannelsWithinRoom'
  BY <1>2, <1>6, <1>10, ChannelsKept, StandingIs DEF RoomInv
<1> QED
  BY <1>2, <1>6, <1>7, <1>10, <1>11, <1>12, SavedInv, SavingTypes

(***************************************************************************)
(* Receiving a request.                                                    *)
(***************************************************************************)
(* What is checked against the same document comes out the same.           *)
LEMMA SameChecks ==
    ASSUME UNCHANGED <<members, owner, channel>>, NEW x, Checked(roomReq'[x])
    PROVE  Checked(roomReq[x])'
<1>1. \A u : Role(u)' = Role(u) /\ (IsActive(u)' <=> IsActive(u)) /\ Actives(u)' = Actives(u)
  BY DEF Role, IsActive, Find, Actives
<1>2. /\ \A u : Leads(u)' <=> Leads(u)
      /\ \A u : Removed(u)' <=> Removed(u)
      /\ \A u, c : CanManage(u, c)' <=> CanManage(u, c)
  BY <1>1 DEF Leads, Removed, CanManage
<1>3. ActiveEntries' = ActiveEntries /\ AdminEntries' = AdminEntries
  BY <1>1 DEF ActiveEntries, AdminEntries
<1> QED
  BY <1>1, <1>2, <1>3, Zenon DEF Checked

(* A request is accepted that names what it needs and was checked.         *)
LEMMA AcceptInv ==
    ASSUME RoomInv, topic = "room", topic' = topic, NEW r \in Slots,
           NEW op \in RoomOps, NEW by \in Users \cup {NoOne}, NEW whom \in Users \cup {NoOne},
           NEW c \in Channels \cup {"none"}, NEW to \in Listed,
           Accept(r, op, by, whom, c, to),
           op \notin {"none", "leave", "renameChannel"} => by \in Users /\ whom \in Users,
           op = "leave" => by \in Users,
           op \in ChannelOps => c \in Channels,
           op = "setRole" => to \in {"member", "admin"},
           Checked([op |-> op, by |-> by, whom |-> whom, ch |-> c, to |-> to])
    PROVE  RoomInv' /\ Promised
<1> DEFINE q == [op |-> op, by |-> by, whom |-> whom, ch |-> c, to |-> to]
<1>1. /\ roomReq' = [roomReq EXCEPT ![r] = q] /\ q \in RoomRequest
      /\ UNCHANGED <<owner, members, channel, over, blind, strays, stale>>
  BY DEF Accept, RoomData, RoomRequest
<1>2. /\ roomReq' \in [Slots -> RoomRequest] /\ roomReq'[r] = q
      /\ \A x \in Slots \ {r} : roomReq'[x] = roomReq[x]
  BY <1>1 DEF RoomInv, RoomTypeOK
<1>3. RoomTypeOK'
  BY <1>1, <1>2 DEF RoomInv, RoomTypeOK
<1>4. RequestsNamed'
  <2>1. ASSUME NEW x \in Slots, x # r
        PROVE  /\ roomReq'[x].op \notin {"none", "leave", "renameChannel"}
                     => roomReq'[x].by \in Users /\ roomReq'[x].whom \in Users
               /\ roomReq'[x].op = "leave" => roomReq'[x].by \in Users
               /\ roomReq'[x].op \in ChannelOps => roomReq'[x].ch \in Channels
               /\ roomReq'[x].op = "setRole" => roomReq'[x].to \in {"member", "admin"}
    BY <1>2, <2>1 DEF RoomInv, RequestsNamed
  <2>2. /\ roomReq'[r].op \notin {"none", "leave", "renameChannel"}
              => roomReq'[r].by \in Users /\ roomReq'[r].whom \in Users
        /\ roomReq'[r].op = "leave" => roomReq'[r].by \in Users
        /\ roomReq'[r].op \in ChannelOps => roomReq'[r].ch \in Channels
        /\ roomReq'[r].op = "setRole" => roomReq'[r].to \in {"member", "admin"}
    BY <1>2
  <2> QED
    BY <2>1, <2>2 DEF RequestsNamed
<1> HIDE DEF q
<1>5. Fresh'
  <2> SUFFICES ASSUME NEW x \in Slots, x \notin stale' PROVE Checked(roomReq[x])'
    BY DEF Fresh
  <2>1. Checked(roomReq'[x])
    <3>1. CASE x = r
      BY <1>2, <3>1 DEF q
    <3>2. CASE x # r
      <4>1. Checked(roomReq[x])
        BY <1>1 DEF RoomInv, Fresh
      <4> QED
        BY <1>2, <3>2, <4>1
    <3> QED
      BY <3>1, <3>2
  <2> QED
    BY <1>1, <2>1, SameChecks
<1>6. Promised /\ EntriesBounded'
  BY <1>1, SameEntries
<1>7. OwnerLeads'
  BY <1>3, <1>6, OwnerKept DEF RoomInv, RoomTypeOK
<1>8. ChannelsWithinRoom'
  BY <1>1, ChannelsKept, StandingIs DEF RoomInv
<1>9. RoomsIdle'
  BY DEF RoomsIdle
<1> QED
  BY <1>3, <1>4, <1>5, <1>6, <1>7, <1>8, <1>9 DEF RoomInv

(* By or for one user, who stands alone in the request.                    *)
LEMMA ReceiveOneInv ==
    ASSUME RoomInv, topic = "room", topic' = topic, NEW r \in Slots, NEW u \in Users,
           NEW heir \in Users \cup {NoOne},
           JoinReceive(r, u) \/ DisbandReceive(r, u) \/ LeaveReceive(r, u, heir)
    PROVE  RoomInv' /\ Promised
<1> USE DEF RoomOps, Listed, ChannelOps
<1>1. CASE JoinReceive(r, u)
  <2>1. CASE members[u] = <<>>
    <3>1. Accept(r, "join", u, u, "none", "none") /\ Cardinality(ActiveEntries) < MaxMembers
      BY <1>1, <2>1 DEF JoinReceive, MayJoin
    <3>2. Checked([op |-> "join", by |-> u, whom |-> u, ch |-> "none", to |-> "none"])
      BY <2>1, <3>1 DEF Checked
    <3> QED
      BY <3>1, <3>2, AcceptInv
  <2>2. CASE members[u] # <<>>
    <3>1. Accept(r, "rejoin", u, u, "none", "none") /\ MayJoin(u)
      BY <1>1, <2>2 DEF JoinReceive
    <3>2. Checked([op |-> "rejoin", by |-> u, whom |-> u, ch |-> "none", to |-> "none"])
      BY <2>2, <3>1 DEF Checked, MayJoin
    <3> QED
      BY <3>1, <3>2, AcceptInv
  <2> QED
    BY <2>1, <2>2
<1>2. ASSUME Accept(r, "disband", u, u, "none", "none")
      PROVE  RoomInv' /\ Promised
  <2>1. Checked([op |-> "disband", by |-> u, whom |-> u, ch |-> "none", to |-> "none"])
    BY DEF Checked
  <2> QED
    BY <1>2, <2>1, AcceptInv
<1>3. ASSUME IsActive(u), Role(u) = "owner" => heir # NoOne /\ IsActive(heir),
             Accept(r, "leave", u, heir, "none", "none")
      PROVE  RoomInv' /\ Promised
  <2>1. Checked([op |-> "leave", by |-> u, whom |-> heir, ch |-> "none", to |-> "none"])
    BY <1>3 DEF Checked
  <2> QED
    BY <1>3, <2>1, AcceptInv
<1> QED
  BY <1>1, <1>2, <1>3 DEF DisbandReceive, LeaveReceive

(* By one user for another. *)
LEMMA ReceiveTwoInv ==
    ASSUME RoomInv, topic = "room", topic' = topic, NEW r \in Slots,
           NEW by \in Users, NEW u \in Users, NEW to \in {"admin", "member"},
           \/ AddReceive(r, by, u) \/ RemoveReceive(r, by, u)
           \/ TransferReceive(r, by, u) \/ SetRoleReceive(r, by, u, to)
    PROVE  RoomInv' /\ Promised
<1> USE DEF RoomOps, Listed, ChannelOps
<1>1. CASE AddReceive(r, by, u)
  <2>1. MayAdd(by, u)
    BY <1>1 DEF AddReceive
  <2>2. CASE members[u] = <<>>
    <3>1. Accept(r, "add", by, u, "none", "none")
      BY <1>1, <2>2 DEF AddReceive
    <3>2. Checked([op |-> "add", by |-> by, whom |-> u, ch |-> "none", to |-> "none"])
      BY <2>1, <2>2 DEF Checked, MayAdd
    <3> QED
      BY <3>1, <3>2, AcceptInv
  <2>3. CASE members[u] # <<>>
    <3>1. Accept(r, "addBack", by, u, "none", "none")
      BY <1>1, <2>3 DEF AddReceive
    <3>2. Checked([op |-> "addBack", by |-> by, whom |-> u, ch |-> "none", to |-> "none"])
      BY <2>1, <2>3 DEF Checked, MayAdd, Leads
    <3> QED
      BY <3>1, <3>2, AcceptInv
  <2> QED
    BY <2>2, <2>3
<1>2. CASE RemoveReceive(r, by, u)
  <2>1. Accept(r, "remove", by, u, "none", "none")
    BY <1>2 DEF RemoveReceive
  <2>2. Checked([op |-> "remove", by |-> by, whom |-> u, ch |-> "none", to |-> "none"])
    BY <1>2 DEF Checked, RemoveReceive
  <2> QED
    BY <2>1, <2>2, AcceptInv
<1>3. CASE TransferReceive(r, by, u)
  <2>1. Accept(r, "transfer", by, u, "none", "none")
    BY <1>3 DEF TransferReceive
  <2>2. Checked([op |-> "transfer", by |-> by, whom |-> u, ch |-> "none", to |-> "none"])
    BY <1>3 DEF Checked, TransferReceive
  <2> QED
    BY <2>1, <2>2, AcceptInv
<1>4. CASE SetRoleReceive(r, by, u, to)
  <2>1. Accept(r, "setRole", by, u, "none", to)
    BY <1>4 DEF SetRoleReceive
  <2>2. Checked([op |-> "setRole", by |-> by, whom |-> u, ch |-> "none", to |-> to])
    BY <1>4 DEF Checked, SetRoleReceive
  <2> QED
    BY <2>1, <2>2, AcceptInv
<1> QED
  BY <1>1, <1>2, <1>3, <1>4

LEMMA ReceiveChannelInv ==
    ASSUME RoomInv, topic = "room", topic' = topic, NEW r \in Slots, ReceiveChannel(r)
    PROVE  RoomInv' /\ Promised
<1> USE DEF RoomOps, Listed, ChannelOps
<1>1. PICK c \in Channels :
         \/ RenameChannelReceive(r, c)
         \/ \E u, v \in Users :
               \/ AddToChannelReceive(r, u, c, v)
               \/ \E to \in {"none", "member"} : NewChannelReceive(r, u, c, v, to)
               \/ RemoveFromChannelReceive(r, u, c, v)
               \/ \E to \in {"admin", "member"} : SetChannelRoleReceive(r, u, c, v, to)
  BY DEF ReceiveChannel
<1>2. CASE RenameChannelReceive(r, c)
  <2>1. Accept(r, "renameChannel", NoOne, NoOne, c, "none")
    BY <1>2 DEF RenameChannelReceive
  <2>2. Checked([op |-> "renameChannel", by |-> NoOne, whom |-> NoOne, ch |-> c, to |-> "none"])
    BY DEF Checked
  <2> QED
    BY <2>1, <2>2, AcceptInv
<1>3. ASSUME NEW u \in Users, NEW v \in Users, AddToChannelReceive(r, u, c, v)
      PROVE  RoomInv' /\ Promised
  <2>1. Accept(r, "addToChannel", u, v, c, "none")
    BY <1>3 DEF AddToChannelReceive
  <2>2. Checked([op |-> "addToChannel", by |-> u, whom |-> v, ch |-> c, to |-> "none"])
    BY <1>3 DEF Checked, AddToChannelReceive
  <2> QED
    BY <2>1, <2>2, AcceptInv
<1>4. ASSUME NEW u \in Users, NEW v \in Users, NEW to \in {"none", "member"},
             NewChannelReceive(r, u, c, v, to)
      PROVE  RoomInv' /\ Promised
  <2>1. Accept(r, "newChannel", u, v, c, to)
    BY <1>4 DEF NewChannelReceive
  <2>2. Checked([op |-> "newChannel", by |-> u, whom |-> v, ch |-> c, to |-> to])
    BY DEF Checked
  <2> QED
    BY <2>1, <2>2, AcceptInv
<1>5. ASSUME NEW u \in Users, NEW v \in Users, RemoveFromChannelReceive(r, u, c, v)
      PROVE  RoomInv' /\ Promised
  <2>1. Accept(r, "removeFromChannel", u, v, c, "none")
    BY <1>5 DEF RemoveFromChannelReceive
  <2>2. Checked([op |-> "removeFromChannel", by |-> u, whom |-> v, ch |-> c, to |-> "none"])
    BY DEF Checked
  <2> QED
    BY <2>1, <2>2, AcceptInv
<1>6. ASSUME NEW u \in Users, NEW v \in Users, NEW to \in {"admin", "member"},
             SetChannelRoleReceive(r, u, c, v, to)
      PROVE  RoomInv' /\ Promised
  <2>1. Accept(r, "setChannelRole", u, v, c, to)
    BY <1>6 DEF SetChannelRoleReceive
  <2>2. Checked([op |-> "setChannelRole", by |-> u, whom |-> v, ch |-> c, to |-> to])
    BY DEF Checked
  <2> QED
    BY <2>1, <2>2, AcceptInv
<1> QED
  BY <1>1, <1>2, <1>3, <1>4, <1>5, <1>6

(***************************************************************************)
(* All steps.                                                              *)
(***************************************************************************)
LEMMA RoomStepInv ==
    ASSUME RoomInv, RoomStep, topic = "room", topic' = topic
    PROVE  RoomInv' /\ Promised
<1>1. PICK r \in Slots : ReceiveMember(r) \/ ReceiveChannel(r) \/ SaveRoom(r) \/ RoomRequestFails(r)
  BY DEF RoomStep
<1>2. CASE ReceiveMember(r)
  <2>1. ASSUME NEW u \in Users, NEW heir \in Users \cup {NoOne},
               JoinReceive(r, u) \/ DisbandReceive(r, u) \/ LeaveReceive(r, u, heir)
        PROVE  RoomInv' /\ Promised
    BY <2>1, ReceiveOneInv
  <2>2. ASSUME NEW u \in Users, NEW v \in Users, NEW to \in {"admin", "member"},
               \/ AddReceive(r, u, v) \/ RemoveReceive(r, u, v)
               \/ TransferReceive(r, u, v) \/ SetRoleReceive(r, u, v, to)
        PROVE  RoomInv' /\ Promised
    BY <2>2, ReceiveTwoInv
  <2> QED
    BY <1>2, <2>1, <2>2 DEF ReceiveMember
<1>3. CASE SaveRoom(r)
  BY <1>3, EnterSaveInv, ReturnSaveInv, RemoveSaveInv, SetRoleSaveInv, TransferSaveInv,
     LeaveSaveInv, DisbandSaveInv, ChannelSaveInv, AddToChannelSaveInv DEF SaveRoom
<1> QED
  BY <1>1, <1>2, <1>3, ReceiveChannelInv, DisbandSaveInv

(* Nothing happens to the room. *)
LEMMA RoomElsewhere ==
    ASSUME RoomInv, topic' = topic, UNCHANGED roomVars,
           topic # "room" \/ stale' = stale
    PROVE  RoomInv' /\ Promised
<1>1. /\ owner' = owner /\ members' = members /\ channel' = channel /\ over' = over
      /\ roomReq' = roomReq /\ blind' = blind /\ strays' = strays
  BY DEF roomVars
<1>2. RoomTypeOK' /\ RequestsNamed' /\ RoomsIdle'
  BY <1>1 DEF RoomInv, RoomTypeOK, RequestsNamed, RoomsIdle
<1>3. Promised /\ EntriesBounded'
  BY <1>1, SameEntries
<1>4. Fresh'
  <2> SUFFICES ASSUME NEW x \in Slots, x \notin stale' PROVE Checked(roomReq[x])'
    BY DEF Fresh
  <2>1. CASE topic # "room"
    <3>1. roomReq'[x] = NoRequest
      BY <1>1, <2>1 DEF RoomInv, RoomsIdle
    <3> QED
      BY <3>1, EntryTypes DEF Checked
  <2>2. CASE stale' = stale
    BY <1>1, <2>2, SameChecks DEF RoomInv, Fresh
  <2> QED
    BY <2>1, <2>2
<1>5. OwnerLeads'
  BY <1>2, <1>3, OwnerKept DEF RoomInv, RoomTypeOK
<1>6. ChannelsWithinRoom'
  BY <1>1, ChannelsKept, StandingIs DEF RoomInv
<1> QED
  BY <1>2, <1>3, <1>4, <1>5, <1>6 DEF RoomInv

LEMMA RoomNextInv ==
    ASSUME RoomInv, [Next]_vars
    PROVE  RoomInv' /\ Promised
<1>1. CASE ChangeRoom
  BY <1>1, RoomStepInv DEF ChangeRoom
<1>2. CASE ChangePoll \/ ChangeSubmission \/ ChangeChat
  BY <1>2, RoomElsewhere DEF ChangePoll, ChangeSubmission, ChangeChat
<1>3. CASE UNCHANGED vars
  BY <1>3, RoomElsewhere DEF vars, documentVars
<1> QED
  BY <1>1, <1>2, <1>3 DEF Next, Rest

(***************************************************************************)
(* The beginning.                                                          *)
(***************************************************************************)
(* The owner and some members, each entered once. *)
LEMMA FirstMembers ==
    ASSUME RoomInit
    PROVE  /\ owner \in Users /\ members \in [Users -> Seq(Entry)] /\ ~Torn
           /\ \A u \in Users : Len(members[u]) <= 1
           /\ \A u \in Users : Role(u) \in {"none", "member", "owner"}
           /\ \A u \in Users : Role(u) = "owner" <=> u = owner
           /\ Cardinality(ActiveEntries) <= MaxMembers
<1> DEFINE Lead == [Newcomer EXCEPT !.role = "owner"]
<1>1. PICK joined \in SUBSET (Users \ {owner}) :
         /\ Cardinality(joined) < MaxMembers
         /\ members = [u \in Users |-> IF u = owner THEN <<Lead>>
                                       ELSE IF u \in joined THEN <<Newcomer>> ELSE <<>>]
  BY DEF RoomInit
<1>2. owner \in Users
  BY DEF RoomInit
<1>3. Lead \in Entry /\ Lead.status = "active" /\ Lead.role = "owner"
  BY EntryTypes
<1> HIDE DEF Lead
<1>4. ASSUME NEW u \in Users
      PROVE  /\ members[u] \in Seq(Entry) /\ Len(members[u]) <= 1
             /\ Role(u) = IF u = owner THEN "owner" ELSE IF u \in joined THEN "member" ELSE "none"
             /\ Actives(u) = IF u \in joined \cup {owner} THEN {1} ELSE {}
  <2>1. ASSUME NEW e \in Entry, members[u] = <<e>>, e.status = "active"
        PROVE  /\ members[u] \in Seq(Entry) /\ Len(members[u]) <= 1
               /\ Role(u) = e.role /\ Actives(u) = {1}
    <3>1. members[u] \in Seq(Entry) /\ Len(members[u]) = 1 /\ members[u][1] = e /\ members[u] # <<>>
      BY <2>1
    <3>2. /\ ActiveIn(members[u]) = IF members[u][1].status = "active" THEN {1} ELSE {}
          /\ Standing(members[u]) = IF members[u][1].status = "active" THEN members[u][1].role ELSE "none"
      <4>1. Len(members[u]) <= 1
        BY <3>1
      <4> QED
        BY <3>1, <4>1, OneEntry, Zenon
    <3> QED
      BY <2>1, <3>1, <3>2, StandingIs
  <2>2. CASE u = owner
    BY <1>1, <1>3, <2>1, <2>2
  <2>3. CASE u # owner /\ u \in joined
    BY <1>1, <2>1, <2>3, EntryTypes
  <2>4. CASE u # owner /\ u \notin joined
    <3>1. members[u] = <<>> /\ members[u] \in Seq(Entry) /\ Len(members[u]) = 0
      BY <1>1, <2>4
    <3>2. ActiveIn(members[u]) = {} /\ Standing(members[u]) = "none"
      <4>1. Len(members[u]) <= 1
        BY <3>1
      <4> QED
        BY <3>1, <4>1, OneEntry, Zenon
    <3>3. Actives(u) = {} /\ Role(u) = "none" /\ Len(members[u]) <= 1
      BY <3>1, <3>2, StandingIs
    <3> QED
      BY <2>4, <3>1, <3>3
  <2> QED
    BY <2>2, <2>3, <2>4
<1>5. members \in [Users -> Seq(Entry)]
  <2>1. members = [u \in Users |-> members[u]]
    BY <1>1
  <2> QED
    BY <1>4, <2>1
<1>6. ~Torn
  <2>1. \A u \in Users : Len(members[u]) \in Nat
    BY <1>4, LenProperties
  <2> QED
    BY <1>4, <2>1 DEF Torn
<1>7. Cardinality(ActiveEntries) <= MaxMembers
  <2> DEFINE there == joined \cup {owner}
             f == [u \in there |-> <<u, 1>>]
  <2>1. /\ IsFiniteSet(joined) /\ IsFiniteSet(there)
        /\ Cardinality(there) = Cardinality(joined) + 1
    <3>1. IsFiniteSet(joined) /\ owner \notin joined
      BY <1>1, RoomsAssumption, FS_Subset
    <3>2. IsFiniteSet(there) /\ Cardinality(there) = Cardinality(joined) + 1
      BY <3>1, FS_AddElement, Zenon
    <3> QED
      BY <3>1, <3>2
  <2>2. ActiveEntries = {<<u, 1>> : u \in there}
    <3>1. \A u \in Users : Actives(u) = IF u \in there THEN {1} ELSE {}
      BY <1>4
    <3>2. there \subseteq Users
      BY <1>2
    <3> HIDE DEF there
    <3>3. ActiveEntries \subseteq {<<u, 1>> : u \in there}
      BY <3>1 DEF ActiveEntries
    <3>4. {<<u, 1>> : u \in there} \subseteq ActiveEntries
      <4> SUFFICES ASSUME NEW u \in there PROVE <<u, 1>> \in ActiveEntries
        OBVIOUS
      <4>1. <<u, 1>> \in {u} \X Actives(u) /\ u \in Users
        BY <3>1, <3>2
      <4> QED
        BY <4>1 DEF ActiveEntries
    <3> QED
      BY <3>3, <3>4
  <2>3. f \in Surjection(there, ActiveEntries)
    BY <2>2 DEF Surjection
  <2> HIDE DEF there, f
  <2>4. /\ IsFiniteSet(ActiveEntries)
        /\ Cardinality(ActiveEntries) <= Cardinality(there)
    BY <2>1, <2>3, FS_Surjection
  <2> QED
    BY <1>1, <2>1, <2>4, RoomsAssumption, FS_CardinalityType
<1> QED
  BY <1>2, <1>4, <1>5, <1>6, <1>7

LEMMA RoomInitInv ==
    ASSUME Init
    PROVE  RoomInv /\ Membership!Init
<1> DEFINE roles == [u \in Users |-> Role(u)]
<1>1. RoomInit /\ stale = {}
  BY DEF Init, DocumentInit
<1>2. RoomTypeOK /\ RequestsNamed /\ RoomsIdle
  BY <1>1, FirstMembers, EntryTypes
     DEF RoomInit, RoomTypeOK, Listed, RequestsNamed, ChannelOps, RoomsIdle
<1>3. Fresh
  <2>1. \A r \in Slots : roomReq[r].op = "none"
    BY <1>1, EntryTypes DEF RoomInit
  <2> QED
    BY <2>1 DEF Fresh, Checked
<1>4. OwnerLeads /\ ChannelsWithinRoom
  BY <1>1, FirstMembers DEF OwnerLeads, ChannelsWithinRoom, RoomInit
<1>5. EntriesBounded
  <2>1. blind \in [Users -> Nat] /\ \A u \in Users : blind[u] = 0
    BY <1>1 DEF RoomInit
  <2>2. Cardinality(Pushed(blind)) \in Nat /\ Cardinality(ActiveEntries) \in Nat
    BY <1>2, <2>1, PushedFinite, ActiveEntriesFinite
  <2>3. Cardinality(ActiveEntries) <= MaxMembers + Cardinality(Pushed(blind))
    BY <1>1, <2>2, FirstMembers, RoomsAssumption
  <2>4. \A u \in Users : Len(members[u]) <= 1 + blind[u]
    BY <1>1, <2>1, FirstMembers
  <2> QED
    BY <2>3, <2>4 DEF EntriesBounded, Pushed
<1>6. Membership!Init
  <2>1. roles \in [Users -> {"none", "member", "owner"}] /\ \A u \in Users : roles[u] = "owner" <=> u = owner
    BY <1>1, FirstMembers
  <2>2. (\E u \in Users : Len(members[u]) > 1) = FALSE /\ owner \in Users
    BY <1>1, FirstMembers DEF Torn
  <2> QED
    BY <2>1, <2>2 DEF Membership!Init
<1> QED
  BY <1>2, <1>3, <1>4, <1>5, <1>6 DEF RoomInv

(***************************************************************************)
(* Who was removed.                                                        *)
(***************************************************************************)
LEMMA ReceivingChangesNobody ==
    ASSUME NEW r \in Slots, ReceiveMember(r) \/ ReceiveChannel(r)
    PROVE  members' = members
<1>1. ASSUME NEW op, NEW u, NEW v, NEW c, NEW to, Accept(r, op, u, v, c, to)
      PROVE  members' = members
  BY <1>1 DEF Accept, RoomData
<1>2. ASSUME NEW u, NEW v, NEW to,
             \/ JoinReceive(r, u) \/ DisbandReceive(r, u) \/ LeaveReceive(r, u, v)
             \/ AddReceive(r, u, v) \/ RemoveReceive(r, u, v) \/ TransferReceive(r, u, v)
             \/ SetRoleReceive(r, u, v, to)
      PROVE  members' = members
  BY <1>1, <1>2 DEF JoinReceive, DisbandReceive, LeaveReceive, AddReceive, RemoveReceive,
     TransferReceive, SetRoleReceive
<1>3. ASSUME NEW c, NEW u, NEW v, NEW to,
             \/ RenameChannelReceive(r, c) \/ AddToChannelReceive(r, u, c, v)
             \/ NewChannelReceive(r, u, c, v, to) \/ RemoveFromChannelReceive(r, u, c, v)
             \/ SetChannelRoleReceive(r, u, c, v, to)
      PROVE  members' = members
  BY <1>1, <1>3 DEF RenameChannelReceive, AddToChannelReceive, NewChannelReceive,
     RemoveFromChannelReceive, SetChannelRoleReceive
<1>4. CASE ReceiveMember(r)
  BY <1>2, <1>4 DEF ReceiveMember
<1>5. CASE ReceiveChannel(r)
  BY <1>3, <1>5 DEF ReceiveChannel
<1> QED
  BY <1>4, <1>5

(* One save brings a removed user back. *)
LEMMA SaveReadmits ==
    ASSUME RoomInv, NEW r \in Slots, SaveRoom(r), NEW u \in Users,
           members[u] # <<>>, members[u][1].status = "removed", ~IsActive(u), Removed(u),
           members'[u] # members[u]
    PROVE  blind'[u] > blind[u] \/ Readmits(roomReq[r], u)
<1> DEFINE q == roomReq[r]
<1>1. /\ members \in [Users -> Seq(Entry)] /\ blind \in [Users -> Nat]
      /\ r \notin stale => Checked(q)
      /\ Role(u) = "none"
  BY SavingTypes
<1> HIDE DEF q
<1>2. CASE EnterSave(r)
  <2>1. /\ q.op \in {"join", "add"} /\ q.whom \in Users
        /\ members' = [members EXCEPT ![q.whom] = Append(@, Newcomer)]
        /\ blind' = IF r \in stale THEN [blind EXCEPT ![q.whom] = @ + 1] ELSE blind
    BY <1>2 DEF EnterSave, Saving, RoomInv, RequestsNamed, q
  <2>2. q.whom = u
    BY <1>1, <2>1
  <2>3. r \in stale
    BY <1>1, <2>1, <2>2 DEF Checked
  <2> QED
    BY <1>1, <2>1, <2>2, <2>3
<1>3. CASE ReturnSave(r)
  <2>1. /\ q.op \in {"rejoin", "addBack"} /\ q.whom \in Users /\ r \notin stale
        /\ members' = [members EXCEPT ![q.whom][1] = Newcomer]
    BY <1>3 DEF ReturnSave, Saving, Replacing, SaveReplacing, RoomInv, RequestsNamed, q
  <2>2. q.whom = u
    BY <1>1, <2>1
  <2>3. q.op = "addBack" /\ (Leads(q.by) \/ Role(q.by) = "admin")
    BY <1>1, <2>1, <2>2 DEF Checked
  <2> QED
    BY <2>2, <2>3 DEF Readmits, q
<1>4. CASE AddToChannelSave(r)
  <2>1. /\ q.op = "addToChannel" /\ q.whom \in Users /\ r \notin stale
        /\ members' = [members EXCEPT ![q.whom] =
              IF @ = <<>> THEN <<Newcomer>>
              ELSE IF @[1].status = "active" THEN @ ELSE [@ EXCEPT ![1] = Newcomer]]
    BY <1>4 DEF AddToChannelSave, Saving, Replacing, SaveReplacing, RoomInv, RequestsNamed, q
  <2>2. q.whom = u
    BY <1>1, <2>1
  <2>3. CanManage(q.by, q.ch)
    BY <1>1, <2>1 DEF Checked
  <2> QED
    BY <2>1, <2>2, <2>3 DEF Readmits, q
(* The other saves change entries of who is active. *)
<1>5. CASE RemoveSave(r) \/ SetRoleSave(r)
  <2>1. /\ q.op \in {"remove", "setRole"} /\ r \notin stale
        /\ \/ members' = [members EXCEPT ![q.whom][Find(q.whom)].status = "removed"]
           \/ members' = [members EXCEPT ![q.whom][Find(q.whom)].role = q.to]
    BY <1>5 DEF RemoveSave, SetRoleSave, Saving, Replacing, SaveReplacing, q
  <2>2. q.whom # u
    BY <1>1, <2>1 DEF Checked
  <2> QED
    BY <1>1, <2>1, <2>2
<1>6. CASE TransferSave(r)
  <2>1. /\ q.op = "transfer" /\ r \notin stale
        /\ members' = [members EXCEPT ![q.whom][Find(q.whom)].role = "owner",
                                      ![q.by][1].role = "member"]
    BY <1>6 DEF TransferSave, Saving, Replacing, SaveReplacing, q
  <2>2. q.whom # u /\ q.by # u
    BY <1>1, <2>1 DEF Checked
  <2> QED
    BY <1>1, <2>1, <2>2
<1>7. CASE LeaveSave(r)
  <2>1. /\ q.op = "leave" /\ r \notin stale
        /\ \/ /\ Role(q.by) = "owner"
              /\ members' = [[members EXCEPT ![q.whom][Find(q.whom)].role = "owner"]
                                EXCEPT ![q.by][Find(q.by)].status = "left"]
           \/ members' = [members EXCEPT ![q.by][Find(q.by)].status = "left"]
    BY <1>7 DEF LeaveSave, Saving, Replacing, SaveReplacing, q
  <2>2. q.by # u /\ (Role(q.by) = "owner" => q.whom # u)
    BY <1>1, <2>1 DEF Checked
  <2> QED
    BY <1>1, <2>1, <2>2
<1>8. CASE \/ DisbandSave(r) \/ NewChannelSave(r) \/ SetChannelRoleSave(r)
           \/ RemoveFromChannelSave(r) \/ RenameChannelSave(r)
  BY <1>8 DEF DisbandSave, NewChannelSave, SetChannelRoleSave, RemoveFromChannelSave,
     RenameChannelSave, RoomData
<1> QED
  BY <1>2, <1>3, <1>4, <1>5, <1>6, <1>7, <1>8 DEF SaveRoom

LEMMA RemovedBarred ==
    ASSUME RoomInv, [Next]_vars, NEW u \in Users,
           Len(members[u]) <= 1, Removed(u), IsActive(u)'
    PROVE  blind'[u] > blind[u] \/ \E r \in Slots : Readmits(roomReq[r], u)
<1>1. ~IsActive(u) /\ members[u] # <<>> /\ members[u][1].status = "removed"
  <2>1. ~IsActive(u) /\ \E i \in DOMAIN members[u] : members[u][i].status = "removed"
    BY DEF Removed
  <2>2. members[u] \in Seq(Entry) /\ Len(members[u]) \in Nat /\ DOMAIN members[u] = 1..Len(members[u])
    BY LenProperties DEF RoomInv, RoomTypeOK
  <2>3. DOMAIN members[u] = {1}
    BY <2>1, <2>2
  <2>4. members[u] # <<>>
    BY <2>1, <2>2, EmptySeq
  <2> QED
    BY <2>1, <2>3, <2>4
<1>2. members'[u] # members[u]
  BY <1>1, StandingIs, StandingWillBe
<1>3. RoomStep
  BY <1>2 DEF Next, ChangeRoom, ChangePoll, ChangeSubmission, ChangeChat, Rest, vars, roomVars
<1>4. PICK r \in Slots : SaveRoom(r)
  <2>1. PICK r \in Slots : ReceiveMember(r) \/ ReceiveChannel(r) \/ SaveRoom(r) \/ RoomRequestFails(r)
    BY <1>3 DEF RoomStep
  <2>2. ~RoomRequestFails(r)
    BY <1>2 DEF RoomRequestFails, RoomData
  <2> QED
    BY <1>2, <2>1, <2>2, ReceivingChangesNobody
<1> QED
  BY <1>1, <1>2, <1>4, SaveReadmits

(***************************************************************************)
(* Theorems.                                                               *)
(***************************************************************************)
(* The invariant of a room: a request whose room has kept its version      *)
(* finds what it checked, so that a save that replaces the room needs no   *)
(* second look.                                                            *)
THEOREM RoomInvariantHolds == Spec => []RoomInv
<1>1. Init => RoomInv
  BY RoomInitInv
<1>2. RoomInv /\ [Next]_vars => RoomInv'
  BY RoomNextInv
<1> QED
  BY <1>1, <1>2, PTL DEF Spec

(* As long as nobody was entered twice, the requests that change members   *)
(* in the rooms service do what RoomMembership promises: one owner, who    *)
(* alone passes the room on, admins within their number, and nobody rising *)
(* or leaving from a standing he no longer had.                            *)
THEOREM MembershipImplemented == Spec => ImplementsMembership
<1>1. Init => Membership!Init
  BY RoomInitInv
<1>2. RoomInv /\ [Next]_vars => [Membership!Next]_(Membership!vars)
  BY RoomNextInv DEF Promised
<1> QED
  BY <1>1, <1>2, RoomInvariantHolds, PTL DEF Spec, ImplementsMembership, Membership!Spec

(* However many join at once, each entry beyond one of a user, and each    *)
(* beyond the limit of the room, was pushed on a room that had changed.    *)
THEOREM EntriesBoundedAlways == Spec => []EntriesBounded
<1>1. RoomInv => EntriesBounded
  BY DEF RoomInv
<1> QED
  BY <1>1, RoomInvariantHolds, PTL

(* Leaving and being removed takes every place in a channel, and nobody    *)
(* gets one without the room unless a request named him unchecked.         *)
THEOREM ChannelsWithinRoomAlways == Spec => []ChannelsWithinRoom
<1>1. RoomInv => ChannelsWithinRoom
  BY DEF RoomInv
<1> QED
  BY <1>1, RoomInvariantHolds, PTL

(* Who was removed comes back only by a request of somebody who may bring  *)
(* him back when it is saved, or pushed by one checked before his removal. *)
THEOREM RemovedStaysOutAlways == Spec => RemovedStaysOut
<1>1. RoomInv /\ [Next]_vars =>
        [\A u \in Users : (Len(members[u]) <= 1 /\ Removed(u) /\ IsActive(u)')
            => blind'[u] > blind[u] \/ \E r \in Slots : Readmits(roomReq[r], u)]_roomVars
  BY RemovedBarred
<1> QED
  BY <1>1, RoomInvariantHolds, PTL DEF Spec, RemovedStaysOut

(***************************************************************************)
(* The types of all four documents.                                        *)
(***************************************************************************)
(* Requests are counted as they are received. *)
LEMMA AskedCounts ==
    ASSUME [Next]_vars
    PROVE  asked' \in {asked, asked + 1}
<1>1. ASSUME NEW r \in Slots, ReceiveMember(r) \/ ReceiveChannel(r)
      PROVE  asked' = asked + 1
  <2>1. ASSUME NEW op, NEW u, NEW v, NEW c, NEW to, Accept(r, op, u, v, c, to)
        PROVE  asked' = asked + 1
    BY <2>1 DEF Accept
  <2>2. ASSUME NEW u, NEW v, NEW to,
               \/ JoinReceive(r, u) \/ DisbandReceive(r, u) \/ LeaveReceive(r, u, v)
               \/ AddReceive(r, u, v) \/ RemoveReceive(r, u, v) \/ TransferReceive(r, u, v)
               \/ SetRoleReceive(r, u, v, to)
        PROVE  asked' = asked + 1
    BY <2>1, <2>2 DEF JoinReceive, DisbandReceive, LeaveReceive, AddReceive, RemoveReceive,
       TransferReceive, SetRoleReceive
  <2>3. ASSUME NEW c, NEW u, NEW v, NEW to,
               \/ RenameChannelReceive(r, c) \/ AddToChannelReceive(r, u, c, v)
               \/ NewChannelReceive(r, u, c, v, to) \/ RemoveFromChannelReceive(r, u, c, v)
               \/ SetChannelRoleReceive(r, u, c, v, to)
        PROVE  asked' = asked + 1
    BY <2>1, <2>3 DEF RenameChannelReceive, AddToChannelReceive, NewChannelReceive,
       RemoveFromChannelReceive, SetChannelRoleReceive
  <2>4. CASE ReceiveMember(r)
    BY <2>2, <2>4 DEF ReceiveMember
  <2>5. CASE ReceiveChannel(r)
    BY <2>3, <2>5 DEF ReceiveChannel
  <2> QED
    BY <1>1, <2>4, <2>5
<1>2. ASSUME NEW r \in Slots, SaveRoom(r) \/ RoomRequestFails(r)
      PROVE  asked' = asked
  BY <1>2 DEF SaveRoom, RoomRequestFails, Replacing, Pushing, EnterSave, ReturnSave,
     RemoveSave, SetRoleSave, TransferSave, LeaveSave, DisbandSave, NewChannelSave,
     SetChannelRoleSave, AddToChannelSave, RemoveFromChannelSave, RenameChannelSave
<1>3. CASE RoomStep
  BY <1>1, <1>2, <1>3 DEF RoomStep
<1>4. CASE PollStep
  <2>1. ASSUME NEW r \in Slots, NEW u, NEW choice,
               CreateReceive(r) \/ VoteReceive(r, u, choice) \/ CloseReceive(r)
        PROVE  asked' = asked + 1
    BY <2>1 DEF CreateReceive, VoteReceive, CloseReceive, PollReceive
  <2>2. ASSUME NEW r \in Slots,
               \/ CreatePoll(r) \/ VoteRefused(r) \/ VoteChecked(r) \/ VoteSave(r)
               \/ CloseSave(r) \/ PollRequestFails(r) \/ SessionEnds \/ DeletePoll
        PROVE  asked' = asked
    BY <2>2 DEF CreatePoll, VoteRefused, VoteChecked, VoteSave, CloseSave, PollRequestFails,
       SessionEnds, DeletePoll, PollAnswer, documentVars
  <2>3. CASE SessionEnds \/ DeletePoll
    BY <2>3 DEF SessionEnds, DeletePoll, documentVars
  <2> QED
    BY <1>4, <2>1, <2>2, <2>3 DEF PollStep
<1>5. CASE SubmissionStep
  <2>1. ASSUME NEW r \in Slots, NEW q, SubReceive(r, q)
        PROVE  asked' = asked + 1
    BY <2>1 DEF SubReceive
  <2>2. ASSUME NEW r \in Slots, NEW mark, NEW note,
               \/ StartReceive(r) \/ HandInReceive(r, mark) \/ GradeReceive(r, mark, note)
               \/ MarkReceive(r, mark) \/ FileReceive(r) \/ DeleteReceive(r)
        PROVE  asked' = asked + 1
    BY <2>1, <2>2 DEF StartReceive, HandInReceive, GradeReceive, MarkReceive, FileReceive,
       DeleteReceive
  <2>3. ASSUME NEW r \in Slots,
               \/ StartBegin(r) \/ StartUpsert(r) \/ StartCount(r) \/ StartCreate(r)
               \/ HandIn(r) \/ FileSave(r) \/ GradeSave(r) \/ GradeCreate(r) \/ MarkSave(r)
               \/ ResetSave(r) \/ DeleteSave(r) \/ SubmissionFails(r)
        PROVE  asked' = asked
    BY <2>3, Zenon DEF StartBegin, StartUpsert, StartCount, StartCreate, HandIn, FileSave,
       GradeSave, GradeCreate, MarkSave, ResetSave, DeleteSave, SubmissionFails, SubDone,
       documentVars
  <2> QED
    BY <1>5, <2>2, <2>3 DEF SubmissionStep
<1>6. CASE ChatStep
  <2>1. ASSUME NEW m \in Messages, Send(m)
        PROVE  asked' = asked
    BY <2>1 DEF Send, documentVars
  <2>2. ASSUME NEW r \in Slots, NEW m \in Messages,
               ReactReceive(r, m) \/ PinReceive(r, m) \/ UnpinReceive(r, m) \/ RevokeReceive(r, m)
        PROVE  asked' = asked + 1
    BY <2>2 DEF ReactReceive, PinReceive, UnpinReceive, RevokeReceive, ChatReceive
  <2>3. ASSUME NEW r \in Slots,
               \/ ReactSave(r) \/ PinFind(r) \/ PinPush(r) \/ PinMark(r)
               \/ UnpinPull(r) \/ UnpinClear(r) \/ RevokePull(r) \/ RevokeSave(r)
               \/ ChatRequestFails(r)
        PROVE  asked' = asked
    BY <2>3 DEF ReactSave, PinFind, PinPush, PinMark, UnpinPull, UnpinClear, RevokePull, RevokeSave,
       ChatRequestFails, ChatGoesOn, ChatAnswer, documentVars
  <2> QED
    BY <1>6, <2>1, <2>2, <2>3 DEF ChatStep
<1>7. CASE Rest \/ UNCHANGED vars
  BY <1>7 DEF Rest, vars, documentVars
<1> QED
  BY <1>3, <1>4, <1>5, <1>6, <1>7
     DEF Next, ChangeRoom, ChangePoll, ChangeSubmission, ChangeChat

(* All the variables keep their types, in every behaviour about any of the *)
(* four documents; in particular only requests in progress hold documents. *)
THEOREM DocumentsTypeCorrect == Spec => []TypeOK
<1>1. Spec => [](asked \in Nat)
  <2>1. Init => asked \in Nat
    BY DEF Init, DocumentInit
  <2>2. asked \in Nat /\ [Next]_vars => (asked \in Nat)'
    BY AskedCounts
  <2> QED
    BY <2>1, <2>2, PTL DEF Spec
<1>2. asked \in Nat /\ RoomInv /\ PollInv /\ SubInv /\ ChatInv => TypeOK
  BY DEF TypeOK, DocumentTypeOK, RoomInv, PollInv, SubInv, ChatInv
<1> QED
  BY <1>1, <1>2, RoomInvariantHolds, PollInvariantHolds, SubmissionInvariantHolds,
     PinsInvariantHolds, PTL
==============================================================================
