--------------------------------- MODULE Polls --------------------------------
(***************************************************************************)
(* A poll of a meeting (PollsService): one document with the voters of     *)
(* each option. A vote reads the document, looks up the session and the    *)
(* voter, and saves the lists of voters it has changed. The options of a   *)
(* vote are a set: the clients name each one once.                         *)
(***************************************************************************)
EXTENDS Documents

CONSTANTS
    Voters,
    Options,
    MaxPollRequests

VARIABLES
    poll,         \* the document
    session,      \* the status of the session the poll belongs to
    pollReq,      \* what each request is doing
    counted       \* history: the last vote of each user that was saved

pollVars == <<poll, session, pollReq, counted>>

Votes == [Options -> SUBSET Voters]
Poll == [status : {"none", "active", "closed", "deleted"}, allowMultiple : BOOLEAN,
         voters : Votes]
NoVotes == [o \in Options |-> {}]
NoPoll == [status |-> "none", allowMultiple |-> FALSE, voters |-> NoVotes]

PollRequest == [op : {"none", "create", "session", "vote", "close"}, by : Voters \cup {NoOne},
                choice : SUBSET Options, read : Votes]
NoPollRequest == [op |-> "none", by |-> NoOne, choice |-> {}, read |-> NoVotes]

PollTypeOK ==
    /\ poll \in Poll
    /\ session \in {"ongoing", "ended"}
    /\ pollReq \in [Slots -> PollRequest]
    /\ counted \in [Voters -> SUBSET Options]

PollInit ==
    /\ poll = NoPoll
    /\ session = "ongoing"
    /\ pollReq = [r \in Slots |-> NoPollRequest]
    /\ counted = [u \in Voters |-> {}]

PollsRest == \A r \in Slots : pollReq[r] = NoPollRequest
PollThere == poll.status \in {"active", "closed"}
HoldsPoll == {r \in Slots : pollReq[r].op \in {"session", "vote", "close"}}

PollReceive(r, q) ==
    /\ pollReq[r] = NoPollRequest
    /\ asked < MaxPollRequests
    /\ asked' = asked + 1
    /\ pollReq' = [pollReq EXCEPT ![r] = q]
    /\ UNCHANGED <<poll, session, counted, stale>>

PollAnswer(r) == pollReq' = [pollReq EXCEPT ![r] = NoPollRequest] /\ asked' = asked

(* endMeeting, or the room of the meeting being closed. *)
SessionEnds ==
    /\ session = "ongoing"
    /\ session' = "ended"
    /\ UNCHANGED <<poll, pollReq, counted, documentVars>>

(* createPoll looks for the session, then for the user. *)
CreateReceive(r) ==
    /\ session = "ongoing" /\ poll = NoPoll
    /\ PollsRest
    /\ PollReceive(r, [NoPollRequest EXCEPT !.op = "create"])

CreatePoll(r) ==
    /\ pollReq[r].op = "create"
    /\ \E many \in BOOLEAN :
          poll' = [NoPoll EXCEPT !.status = "active", !.allowMultiple = many]
    /\ PollAnswer(r)
    /\ UNCHANGED <<session, counted, stale>>

VoteReceive(r, u, choice) ==
    /\ poll.status = "active"
    /\ PollReceive(r, [op |-> "session", by |-> u, choice |-> choice,
                       read |-> poll.voters])

(* The session has ended, or more was chosen than one may. *)
VoteRefused(r) ==
    /\ pollReq[r].op = "session"
    /\ session = "ended" \/ (~poll.allowMultiple /\ Cardinality(pollReq[r].choice) > 1)
    /\ PollAnswer(r)
    /\ stale' = stale \ {r}
    /\ UNCHANGED <<poll, session, counted>>

VoteChecked(r) ==
    /\ pollReq[r].op = "session"
    /\ session = "ongoing"
    /\ poll.allowMultiple \/ Cardinality(pollReq[r].choice) <= 1
    /\ pollReq' = [pollReq EXCEPT ![r].op = "vote"]
    /\ UNCHANGED <<poll, session, counted, documentVars>>

(* The earlier vote of the user is taken back on every option, and the new *)
(* one added; the lists that differ from what was read are saved. Choosing *)
(* nothing without an earlier vote is accepted and saves nothing.          *)
NewVoters(q) ==
    [o \in Options |-> (q.read[o] \ {q.by}) \cup (IF o \in q.choice THEN {q.by} ELSE {})]
Touched(q) == {o \in Options : o \in q.choice \/ q.by \in q.read[o]}

(* Mutant: the lists are saved whatever the version. *)
VoteSaveAnyway(r) ==
    /\ pollReq[r].op = "vote" /\ PollThere
    /\ LET q == pollReq[r] IN
       /\ SavePushing(r, HoldsPoll)
       /\ poll' = [poll EXCEPT !.voters = [o \in Options |->
                      IF o \in Touched(q) THEN NewVoters(q)[o] ELSE @[o]]]
       /\ counted' = [counted EXCEPT ![q.by] = q.choice]
    /\ PollAnswer(r)
    /\ UNCHANGED session

VoteSave(r) ==
    /\ pollReq[r].op = "vote" /\ PollThere
    /\ LET q == pollReq[r] IN
       /\ IF Touched(q) = {} THEN SavePlain(r) ELSE SaveReplacing(r, HoldsPoll)
       /\ poll' = [poll EXCEPT !.voters = [o \in Options |->
                      IF o \in Touched(q) THEN NewVoters(q)[o] ELSE @[o]]]
       /\ counted' = IF Touched(q) = {} THEN counted
                     ELSE [counted EXCEPT ![q.by] = q.choice]
    /\ PollAnswer(r)
    /\ UNCHANGED session

CloseReceive(r) ==
    /\ PollThere
    /\ PollReceive(r, [NoPollRequest EXCEPT !.op = "close"])

(* Only the status is saved. *)
CloseSave(r) ==
    /\ pollReq[r].op = "close" /\ PollThere
    /\ poll' = [poll EXCEPT !.status = "closed"]
    /\ SavePlain(r)
    /\ PollAnswer(r)
    /\ UNCHANGED <<session, counted>>

(* One call; a save of the document that was found before fails then. *)
DeletePoll ==
    /\ PollThere
    /\ poll' = [poll EXCEPT !.status = "deleted", !.voters = NoVotes]
    /\ UNCHANGED <<session, pollReq, counted, documentVars>>

PollRequestFails(r) ==
    /\ \/ pollReq[r].op = "vote" /\ (r \in stale \/ ~PollThere)
       \/ pollReq[r].op = "close" /\ ~PollThere
    /\ stale' = stale \ {r}
    /\ PollAnswer(r)
    /\ UNCHANGED <<poll, session, counted>>

PollStep ==
    \/ SessionEnds \/ DeletePoll
    \/ \E r \in Slots :
          \/ CreateReceive(r) \/ CreatePoll(r)
          \/ \E u \in Voters, choice \in SUBSET Options : VoteReceive(r, u, choice)
          \/ VoteRefused(r) \/ VoteChecked(r) \/ VoteSave(r)
          \/ CloseReceive(r) \/ CloseSave(r) \/ PollRequestFails(r)

(***************************************************************************)
(* Properties.                                                             *)
(***************************************************************************)
(* The options show the last vote of every user and nothing else:          *)
(* no vote is lost, counted twice or left next to the one that replaced    *)
(* it, although each vote saves lists it read some awaits before, which    *)
(* hold the votes of others.                                               *)
VotesCounted ==
    PollThere => /\ \A u \in Voters : counted[u] = {o \in Options : u \in poll.voters[o]}
                 /\ ~poll.allowMultiple => \A u \in Voters : Cardinality(counted[u]) <= 1
==============================================================================
