------------------------------- MODULE DirectChat ------------------------------
(***************************************************************************)
(* The pinned messages of a direct conversation (DirectChatService). That  *)
(* a message is pinned is kept twice: pinnedMessages of the conversation   *)
(* lists it, at most MaxPins of them, and the message says isPinned. Each  *)
(* request updates one document after the other. What the messages and the *)
(* reactions say is left out: a reaction only changes the version of its   *)
(* message. Who may do what can only refuse a request, which changes       *)
(* nothing.                                                                *)
(***************************************************************************)
EXTENDS Documents

CONSTANTS
    Messages,
    MaxPins,          \* 3 in the code
    MaxChatRequests

ASSUME ChatAssumption == MaxPins \in Nat /\ NoOne \notin Messages

VARIABLES
    message,     \* the document of each message
    pins,        \* pinnedMessages of the conversation
    chatReq,     \* what each request is doing
    mixed        \* history: messages whose two documents may disagree

chatVars == <<message, pins, chatReq, mixed>>

(* file is whether there are attachments, revoked whether deletedAt is set. *)
Message == [sent : BOOLEAN, file : BOOLEAN, pinned : BOOLEAN, revoked : BOOLEAN]
NoMessage == [sent |-> FALSE, file |-> FALSE, pinned |-> FALSE, revoked |-> FALSE]

PinOps == {"find", "push", "mark", "resync"}
UnpinOps == {"drop", "clear", "withdraw", "revoke"}

(* was and file are what a revocation read in the message. *)
ChatRequest == [op : {"none", "react"} \cup PinOps \cup UnpinOps, m : Messages \cup {NoOne},
                was : BOOLEAN, file : BOOLEAN]
NoChatRequest == [op |-> "none", m |-> NoOne, was |-> FALSE, file |-> FALSE]
About(m, op) == [NoChatRequest EXCEPT !.op = op, !.m = m]

ChatTypeOK ==
    /\ message \in [Messages -> Message]
    /\ pins \subseteq Messages
    /\ chatReq \in [Slots -> ChatRequest]
    /\ mixed \subseteq Messages

ChatInit ==
    /\ message = [m \in Messages |-> NoMessage]
    /\ pins = {}
    /\ chatReq = [r \in Slots |-> NoChatRequest]
    /\ mixed = {}

ChatRests == \A r \in Slots : chatReq[r] = NoChatRequest
HoldsMessage(m) == {r \in Slots : chatReq[r].m = m /\ chatReq[r].op \in {"react", "revoke", "withdraw"}}
Pinning(m) == \E r \in Slots : chatReq[r].m = m /\ chatReq[r].op \in PinOps
Unpinning(m) == \E r \in Slots : chatReq[r].m = m /\ chatReq[r].op \in UnpinOps

Mix(m) == mixed' = mixed \cup {m}
MixIf(m, bad) == mixed' = IF bad THEN mixed \cup {m} ELSE mixed
Unmix(m) == mixed' = mixed \ {m}

ChatReceive(r, q) ==
    /\ chatReq[r] = NoChatRequest /\ message[q.m].sent
    /\ asked < MaxChatRequests
    /\ asked' = asked + 1
    /\ chatReq' = [chatReq EXCEPT ![r] = q]
    /\ UNCHANGED <<message, pins, stale>>

ChatGoesOn(r, op) == chatReq' = [chatReq EXCEPT ![r].op = op] /\ UNCHANGED documentVars
ChatAnswer(r) == chatReq' = [chatReq EXCEPT ![r] = NoChatRequest] /\ asked' = asked

Send(m) ==
    /\ ~message[m].sent
    /\ \E file \in BOOLEAN : message' = [message EXCEPT ![m].sent = TRUE, ![m].file = file]
    /\ UNCHANGED <<pins, chatReq, mixed, documentVars>>

(***************************************************************************)
(* reactMessage replaces the reactions it has read.                        *)
(***************************************************************************)
ReactReceive(r, m) ==
    /\ ~message[m].revoked
    /\ ChatReceive(r, About(m, "react"))
    /\ UNCHANGED mixed

ReactSave(r) ==
    /\ chatReq[r].op = "react"
    /\ SaveReplacing(r, HoldsMessage(chatReq[r].m))
    /\ ChatAnswer(r)
    /\ UNCHANGED <<message, pins, mixed>>

(***************************************************************************)
(* pinMessage finds the message, then the conversation, then adds the      *)
(* message to the list with one update that also holds the two conditions, *)
(* and then marks the message.                                             *)
(***************************************************************************)
PinReceive(r, m) ==
    /\ ~message[m].revoked
    /\ ChatReceive(r, About(m, "find"))
    /\ MixIf(m, Unpinning(m))

(* The list agrees with the message as soon as this request has marked it. *)
Settled(m) == ~Unpinning(m) /\ ~message[m].revoked
Settle(m) == mixed' = IF Settled(m) THEN mixed \ {m} ELSE mixed

(* A message that is already in the list is refused, but marked again.     *)
PinFind(r) ==
    /\ chatReq[r].op = "find"
    /\ LET m == chatReq[r].m IN
       \/ m \in pins /\ ChatGoesOn(r, "resync") /\ Settle(m)
       \/ /\ m \notin pins /\ Cardinality(pins) < MaxPins
          /\ ChatGoesOn(r, "push") /\ UNCHANGED mixed
       \/ /\ m \notin pins /\ Cardinality(pins) >= MaxPins
          /\ ChatAnswer(r) /\ UNCHANGED <<mixed, stale>>
    /\ UNCHANGED <<message, pins>>

(* Mutant: the update does not repeat the conditions. *)
PinPushUnchecked(r) ==
    /\ chatReq[r].op = "push"
    /\ pins' = pins \cup {chatReq[r].m}
    /\ ChatGoesOn(r, "mark")
    /\ Settle(chatReq[r].m)
    /\ UNCHANGED message

PinPush(r) ==
    /\ chatReq[r].op = "push"
    /\ LET m == chatReq[r].m IN
       IF m \notin pins /\ Cardinality(pins) < MaxPins
       THEN /\ pins' = pins \cup {m}
            /\ ChatGoesOn(r, "mark") /\ Settle(m)
       ELSE ChatAnswer(r) /\ UNCHANGED <<pins, mixed, stale>>
    /\ UNCHANGED message

PinMark(r) ==
    /\ chatReq[r].op \in {"mark", "resync"}
    /\ message' = [message EXCEPT ![chatReq[r].m].pinned = TRUE]
    /\ ChatAnswer(r)
    /\ UNCHANGED <<pins, mixed, stale>>

(***************************************************************************)
(* unpinMessage takes the message off the list and then clears the mark.   *)
(***************************************************************************)
UnpinReceive(r, m) ==
    /\ ChatReceive(r, About(m, "drop"))
    /\ IF Pinning(m) THEN Mix(m) ELSE Unmix(m)

UnpinPull(r) ==
    /\ chatReq[r].op = "drop"
    /\ pins' = pins \ {chatReq[r].m}
    /\ ChatGoesOn(r, "clear")
    /\ UNCHANGED <<message, mixed>>

UnpinClear(r) ==
    /\ chatReq[r].op = "clear"
    /\ message' = [message EXCEPT ![chatReq[r].m].pinned = FALSE]
    /\ ChatAnswer(r)
    /\ UNCHANGED <<pins, mixed, stale>>

(***************************************************************************)
(* deleteMessage takes a message that says it is pinned off the list, and  *)
(* saves the message it has found. The attachments, if there are any, are  *)
(* replaced by none.                                                       *)
(***************************************************************************)
RevokeReceive(r, m) ==
    /\ ChatReceive(r, [op |-> IF message[m].pinned THEN "withdraw" ELSE "revoke", m |-> m,
                       was |-> message[m].pinned, file |-> message[m].file])
    /\ CASE Pinning(m) -> Mix(m)
         [] ~Pinning(m) /\ message[m].pinned -> Unmix(m)
         [] OTHER -> UNCHANGED mixed

RevokePull(r) ==
    /\ chatReq[r].op = "withdraw"
    /\ pins' = pins \ {chatReq[r].m}
    /\ ChatGoesOn(r, "revoke")
    /\ UNCHANGED <<message, mixed>>

RevokeSave(r) ==
    /\ chatReq[r].op = "revoke"
    /\ LET q == chatReq[r] IN
       /\ IF q.file THEN SaveReplacing(r, HoldsMessage(q.m)) ELSE SavePlain(r)
       /\ message' = [message EXCEPT ![q.m].revoked = TRUE,
                                     ![q.m].pinned = @ /\ ~q.was,
                                     ![q.m].file = @ /\ ~q.file]
    /\ ChatAnswer(r)
    /\ UNCHANGED <<pins, mixed>>

(* The version has changed, or the database fails: what was done stays.    *)
ChatRequestFails(r) ==
    /\ chatReq[r].op # "none"
    /\ MixIf(chatReq[r].m, chatReq[r].op \in {"mark", "resync"} \cup UnpinOps)
    /\ ChatAnswer(r)
    /\ stale' = stale \ {r}
    /\ UNCHANGED <<message, pins>>

ChatStep ==
    \/ \E m \in Messages : Send(m)
    \/ \E r \in Slots :
          \/ \E m \in Messages : ReactReceive(r, m) \/ PinReceive(r, m) \/ UnpinReceive(r, m)
                                 \/ RevokeReceive(r, m)
          \/ ReactSave(r) \/ PinFind(r) \/ PinPush(r) \/ PinMark(r)
          \/ UnpinPull(r) \/ UnpinClear(r) \/ RevokePull(r) \/ RevokeSave(r)
          \/ ChatRequestFails(r)

(***************************************************************************)
(* Properties.                                                             *)
(***************************************************************************)
(* The list never exceeds MaxPins, however many users pin at once. It      *)
(* agrees with each message nothing is being done with, and holds no       *)
(* revoked one, unless pinning the message ran beside taking it off, or    *)
(* one of the two was cut short; and then only until a request that has    *)
(* no such rival sets it right: unpinning it, pinning it, or revoking it   *)
(* while it is marked.                                                     *)
PinsWithinLimit == Cardinality(pins) <= MaxPins
PinsAgree ==
    \A m \in Messages \ mixed :
        ~Pinning(m) /\ ~Unpinning(m) =>
            /\ m \in pins <=> message[m].pinned
            /\ message[m].revoked => m \notin pins
PinsKept == PinsWithinLimit /\ PinsAgree
==============================================================================
