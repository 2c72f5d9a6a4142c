----------------------------- MODULE RoomMetadata -----------------------------
(***************************************************************************)
(* The metadata of the main LiveKit room of one running meeting: one JSON  *)
(* record that the settings of the meeting, the breakout session and the   *)
(* recording share. Every operation reads all of it with listRooms,        *)
(* changes its own field and writes all of it back with                    *)
(* updateRoomMetadata; LiveKit checks no version.                          *)
(*                                                                         *)
(* Here are the record, the two calls, and the operations on the plain     *)
(* settings (isChatEnabled, approvalPermission), of which one boolean      *)
(* stands for both.                                                        *)
(***************************************************************************)
EXTENDS Integers, FiniteSets

CONSTANTS
    People,        \* participants other than the host
    NoOne,         \* stands for "no recorder"
    MaxSubs,       \* bound: breakout rooms of a session
    Free,          \* assignedUsers is absent: everybody chooses a room
    MaxBreakouts,  \* bound: breakout sessions in a behaviour
    Setters,       \* requests that change a setting at the same time
    MaxAsked,      \* bound: requests in a behaviour
    MaxFaults      \* bound: failing LiveKit calls and crashes

ASSUME RoomMetadataAssumption ==
    /\ NoOne \notin People
    /\ \A S \in SUBSET People : Free # S
    /\ MaxBreakouts \in Nat
    /\ MaxSubs \in Nat
    /\ MaxAsked \in Nat
    /\ MaxFaults \in Nat
    /\ IsFiniteSet(Setters)

VARIABLES
    main,       \* metadata of the main room
    setter,     \* what each request for a setting is doing
    asked,      \* requests so far
    faults,     \* failing calls and crashes so far
    overtaken   \* history: a write restored an old value of a field that
                \* was not its own

metaVars == <<main, setter, asked, faults, overtaken>>

Breakouts == 1..MaxBreakouts
NoBreakout == 0

(* The breakout rooms of a session are numbered from 1 (sub_1, sub_2, ...) *)
(* and each has its assignedUsers: a list, or free choice. How many there  *)
(* are the host says anew with every start; without a session there is no  *)
(* list at all.                                                            *)
Subs == 1..MaxSubs
Lists == UNION {[1..n -> {Free} \cup SUBSET People] : n \in Subs}
NoLists == [s \in {} |-> Free]

(* waitingRoom is isWaitingRoomEnabled, breakout is                        *)
(* breakoutSession.startedAt (the n-th start), timed tells                 *)
(* whether it has a duration, recorder is recording.recorderId.            *)
Meta == [setting : BOOLEAN, waitingRoom : BOOLEAN,
         breakout : Breakouts \cup {NoBreakout}, timed : BOOLEAN,
         assigned : Lists \cup {NoLists}, recorder : People \cup {NoOne}]

FirstMeta == [setting |-> FALSE, waitingRoom |-> FALSE,
              breakout |-> NoBreakout, timed |-> FALSE,
              assigned |-> NoLists, recorder |-> NoOne]

IdleSetter == [pc |-> "idle", snap |-> FirstMeta]

MetaTypeOK ==
    /\ main \in Meta
    /\ setter \in [Setters -> [pc : {"idle", "list", "write"}, snap : Meta]]
    /\ asked \in 0..MaxAsked
    /\ faults \in 0..MaxFaults
    /\ overtaken \in BOOLEAN

MetaInit ==
    /\ main = FirstMeta
    /\ setter = [r \in Setters |-> IdleSetter]
    /\ asked = 0
    /\ faults = 0
    /\ overtaken = FALSE

(* A write of new by an operation that owns the fields own. *)
Clobbers(new, own) == \E f \in DOMAIN main \ own : new[f] # main[f]

UpdateRoomMetadata(new, own) ==
    /\ main' = new
    /\ overtaken' = (overtaken \/ Clobbers(new, own))

(* A request arrives while those in busy, and some for settings, are being *)
(* served: the bound counts it once more for each of them.                 *)
AskBeside(busy) ==
    LET cost == 1 + Cardinality(busy)
                  + Cardinality({r \in Setters : setter[r].pc # "idle"}) IN
    /\ asked + cost <= MaxAsked
    /\ asked' = asked + cost

(* A call of the LiveKit API that fails, or a crash. *)
Fault ==
    /\ faults < MaxFaults
    /\ faults' = faults + 1

(***************************************************************************)
(* updateApprovalPermission and toggleRoomChat.                            *)
(***************************************************************************)
SettingReceive(r, busy) ==
    /\ setter[r].pc = "idle"
    /\ AskBeside(busy)
    /\ setter' = [setter EXCEPT ![r].pc = "list"]
    /\ UNCHANGED <<main, faults, overtaken>>

SettingList(r) ==
    /\ setter[r].pc = "list"
    /\ setter' = [setter EXCEPT ![r] = [pc |-> "write", snap |-> main]]
    /\ UNCHANGED <<main, asked, faults, overtaken>>

SettingWrite(r) ==
    /\ setter[r].pc = "write"
    /\ \E b \in BOOLEAN :
          UpdateRoomMetadata([setter[r].snap EXCEPT !.setting = b], {"setting"})
    /\ setter' = [setter EXCEPT ![r] = IdleSetter]
    /\ UNCHANGED <<asked, faults>>

(* An error of either call is thrown to the client. *)
SettingFails(r) ==
    /\ setter[r].pc # "idle"
    /\ Fault
    /\ setter' = [setter EXCEPT ![r] = IdleSetter]
    /\ UNCHANGED <<main, asked, overtaken>>

SettersRest == \A r \in Setters : setter[r].pc = "idle"

SettingStep(busy) ==
    \E r \in Setters : \/ SettingReceive(r, busy)
                       \/ SettingList(r)
                       \/ SettingWrite(r)
                       \/ SettingFails(r)
==============================================================================
