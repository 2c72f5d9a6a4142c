---------------------------- MODULE DocumentsProofs ---------------------------
(***************************************************************************)
(* Proofs about polls, the submissions of an assignment and the pins of a  *)
(* conversation: every vote that is saved is counted, once and in the      *)
(* place of the earlier one; an attempt at a quiz is handed in once, and   *)
(* the score of a marked attempt is the sum of its points; and the list of *)
(* the pinned messages keeps its limit and agrees with the messages. They  *)
(* hold for any numbers of voters, options, attempts, marks, messages and  *)
(* requests, of which TLC checks no more than two at once: a request that  *)
(* is not stale has read the document as it is.                            *)
(***************************************************************************)
EXTENDS SharedDocuments, FiniteSetTheorems, WellFoundedInduction, TLAPS

(***************************************************************************)
(* Polls: the inductive invariant.                                         *)
(***************************************************************************)
(* Before the poll is created only its creation can be under way.          *)
BeforeCreation ==
    poll.status = "none" =>
        /\ poll = NoPoll
        /\ counted = [u \in Voters |-> {}]
        /\ \A r \in Slots : pollReq[r].op \in {"none", "create"}

OneCreation ==
    \A r \in Slots : pollReq[r].op = "create" =>
        /\ poll.status = "none"
        /\ \A x \in Slots \ {r} : pollReq[x].op = "none"

(* Votes are cast by voters. *)
VotersVote ==
    \A r \in Slots : pollReq[r].op \in {"session", "vote"} => pollReq[r].by \in Voters

(* A vote that can still be saved was decided on the lists as they are.    *)
FreshReading ==
    PollThere => \A r \in Slots :
        (pollReq[r].op \in {"session", "vote"} /\ r \notin stale)
            => pollReq[r].read = poll.voters

(* A vote that was checked chooses no more than the poll allows.           *)
ChoiceAllowed ==
    ~poll.allowMultiple => \A r \in Slots :
        pollReq[r].op = "vote" => Cardinality(pollReq[r].choice) <= 1

(* The polls rest while another document is the topic. *)
OtherTopic ==
    topic # "poll" => poll.status = "none" /\ pollReq = [r \in Slots |-> NoPollRequest]

PollInv ==
    /\ PollTypeOK
    /\ stale \subseteq Slots
    /\ BeforeCreation /\ OneCreation /\ VotersVote /\ FreshReading /\ ChoiceAllowed
    /\ VotesCounted
    /\ OtherTopic

(***************************************************************************)
(* Types of requests.                                                      *)
(***************************************************************************)
LEMMA PollRequestTypes ==
    /\ NoPollRequest \in PollRequest
    /\ NoPoll \in Poll
    /\ \A q \in PollRequest :
          /\ q.op \in {"none", "create", "session", "vote", "close"}
          /\ q.choice \in SUBSET Options
          /\ q.read \in Votes
          /\ [q EXCEPT !.op = "vote"] \in PollRequest
          /\ q.op = "vote" => q = [op |-> "vote", by |-> q.by, choice |-> q.choice,
                                   read |-> q.read]
    /\ \A op \in {"create", "close"} : [NoPollRequest EXCEPT !.op = op] \in PollRequest
BY DEF NoPollRequest, PollRequest, NoPoll, Poll, NoVotes, Votes

LEMMA PollInitInv == Init => PollInv
<1> SUFFICES ASSUME Init PROVE PollInv
  OBVIOUS
<1> USE DEF Init, DocumentInit, PollInit
<1>1. PollTypeOK
  BY PollRequestTypes DEF PollTypeOK
<1>2. BeforeCreation /\ OneCreation /\ VotersVote /\ FreshReading /\ ChoiceAllowed /\ OtherTopic /\ VotesCounted
  BY DEF BeforeCreation, OneCreation, VotersVote, FreshReading, ChoiceAllowed, OtherTopic, VotesCounted,
         NoPoll, NoPollRequest, PollThere
<1> QED
  BY <1>1, <1>2 DEF PollInv

(* A step of another document. *)
LEMMA PollsElsewhere ==
    ASSUME PollInv, UNCHANGED pollVars, topic' = topic, stale' \subseteq Slots,
           topic # "poll"
    PROVE  PollInv'
<1>1. \A r \in Slots : pollReq[r].op = "none"
  BY DEF PollInv, OtherTopic, NoPollRequest
<1>2. PollTypeOK' /\ BeforeCreation' /\ OneCreation' /\ VotersVote' /\ ChoiceAllowed' /\ OtherTopic'
  BY DEF PollInv, PollTypeOK, BeforeCreation, OneCreation, VotersVote, ChoiceAllowed, OtherTopic, pollVars
<1>3. FreshReading' /\ VotesCounted'
  BY DEF PollInv, OtherTopic, FreshReading, VotesCounted, PollThere, pollVars
<1> QED
  BY <1>2, <1>3 DEF PollInv
LEMMA SessionEndsInv ==
    ASSUME PollInv, topic = "poll", topic' = topic, SessionEnds
    PROVE  PollInv'
<1> USE DEF PollInv
<1>1. PollTypeOK' /\ stale' \subseteq Slots
  BY PollRequestTypes DEF PollTypeOK, SessionEnds, documentVars
<1>2. BeforeCreation' /\ OneCreation' /\ VotersVote'
  BY DEF BeforeCreation, VotersVote, OneCreation, PollTypeOK, SessionEnds, documentVars
<1>3. FreshReading'
  BY DEF FreshReading, BeforeCreation, OneCreation, PollTypeOK, PollThere, SessionEnds, documentVars
<1>4. ChoiceAllowed'
  BY DEF ChoiceAllowed, BeforeCreation, OneCreation, PollTypeOK, PollThere, SessionEnds, documentVars
<1>5. VotesCounted'
  BY DEF VotesCounted, BeforeCreation, PollThere, SessionEnds, documentVars
<1> QED
  BY <1>1, <1>2, <1>3, <1>4, <1>5 DEF OtherTopic

LEMMA DeletePollInv ==
    ASSUME PollInv, topic = "poll", topic' = topic, DeletePoll
    PROVE  PollInv'
<1> USE DEF PollInv
<1>1. PollTypeOK' /\ stale' \subseteq Slots
  BY PollRequestTypes DEF PollTypeOK, DeletePoll, documentVars, PollThere, Poll, NoVotes, Votes
<1>2. BeforeCreation' /\ OneCreation' /\ VotersVote'
  BY DEF BeforeCreation, VotersVote, OneCreation, PollTypeOK, DeletePoll, documentVars, NoVotes, Poll, PollThere
<1>3. FreshReading'
  BY DEF FreshReading, BeforeCreation, OneCreation, PollTypeOK, PollThere, DeletePoll, documentVars, NoVotes, Poll, PollThere
<1>4. ChoiceAllowed'
  BY DEF ChoiceAllowed, BeforeCreation, OneCreation, PollTypeOK, PollThere, DeletePoll, documentVars, NoVotes, Poll, PollThere
<1>5. VotesCounted'
  BY DEF VotesCounted, BeforeCreation, PollThere, DeletePoll, documentVars, NoVotes, Poll, PollThere
<1> QED
  BY <1>1, <1>2, <1>3, <1>4, <1>5 DEF OtherTopic

LEMMA CreateReceiveInv ==
    ASSUME PollInv, NEW r \in Slots, topic = "poll", topic' = topic, CreateReceive(r)
    PROVE  PollInv'
<1> USE DEF PollInv
<1>1. PollTypeOK' /\ stale' \subseteq Slots
  BY PollRequestTypes DEF PollTypeOK, CreateReceive, PollReceive
<1>2. BeforeCreation' /\ OneCreation' /\ VotersVote'
  BY DEF BeforeCreation, VotersVote, OneCreation, PollTypeOK, CreateReceive, PollReceive, PollsRest, NoPollRequest, NoPoll
<1>3. FreshReading'
  BY DEF FreshReading, BeforeCreation, OneCreation, PollTypeOK, PollThere, CreateReceive, PollReceive, PollsRest, NoPollRequest, NoPoll
<1>4. ChoiceAllowed'
  BY DEF ChoiceAllowed, BeforeCreation, OneCreation, PollTypeOK, PollThere, CreateReceive, PollReceive, PollsRest, NoPollRequest, NoPoll
<1>5. VotesCounted'
  BY DEF VotesCounted, BeforeCreation, PollThere, CreateReceive, PollReceive, PollsRest, NoPollRequest, NoPoll
<1> QED
  BY <1>1, <1>2, <1>3, <1>4, <1>5 DEF OtherTopic

LEMMA CreatePollInv ==
    ASSUME PollInv, NEW r \in Slots, topic = "poll", topic' = topic, CreatePoll(r)
    PROVE  PollInv'
<1> USE DEF PollInv
<1>1. PollTypeOK' /\ stale' \subseteq Slots
  BY PollRequestTypes DEF PollTypeOK, CreatePoll, PollAnswer, NoPoll, Poll, NoVotes, Votes
<1>2. BeforeCreation' /\ OneCreation' /\ VotersVote'
  BY DEF BeforeCreation, VotersVote, OneCreation, PollTypeOK, CreatePoll, PollAnswer, NoPollRequest, NoPoll, NoVotes, Poll
<1>3. FreshReading'
  BY DEF FreshReading, BeforeCreation, OneCreation, PollTypeOK, PollThere, CreatePoll, PollAnswer, NoPollRequest, NoPoll, NoVotes, Poll
<1>4. ChoiceAllowed'
  BY DEF ChoiceAllowed, BeforeCreation, OneCreation, PollTypeOK, PollThere, CreatePoll, PollAnswer, NoPollRequest, NoPoll, NoVotes, Poll
<1>5. VotesCounted'
  <2>1. counted' = [u \in Voters |-> {}] /\ poll'.voters = NoVotes
    BY DEF OneCreation, BeforeCreation, CreatePoll, NoPoll, Poll, NoVotes
  <2> QED
    BY <2>1, FS_EmptySet DEF VotesCounted, NoVotes
<1> QED
  BY <1>1, <1>2, <1>3, <1>4, <1>5 DEF OtherTopic

LEMMA VoteReceiveInv ==
    ASSUME PollInv, NEW r \in Slots, NEW u \in Voters, NEW choice \in SUBSET Options, topic = "poll", topic' = topic, VoteReceive(r, u, choice)
    PROVE  PollInv'
<1> USE DEF PollInv
<1>1. PollTypeOK' /\ stale' \subseteq Slots
  BY PollRequestTypes DEF PollTypeOK, VoteReceive, PollReceive, PollRequest, Poll
<1>2. BeforeCreation' /\ OneCreation' /\ VotersVote'
  BY DEF BeforeCreation, VotersVote, OneCreation, PollTypeOK, VoteReceive, PollReceive, NoPollRequest, PollThere
<1>3. FreshReading'
  BY DEF FreshReading, BeforeCreation, OneCreation, PollTypeOK, PollThere, VoteReceive, PollReceive, NoPollRequest, PollThere
<1>4. ChoiceAllowed'
  BY DEF ChoiceAllowed, BeforeCreation, OneCreation, PollTypeOK, PollThere, VoteReceive, PollReceive, NoPollRequest, PollThere
<1>5. VotesCounted'
  BY DEF VotesCounted, BeforeCreation, PollThere, VoteReceive, PollReceive, NoPollRequest, PollThere
<1> QED
  BY <1>1, <1>2, <1>3, <1>4, <1>5 DEF OtherTopic

LEMMA VoteRefusedInv ==
    ASSUME PollInv, NEW r \in Slots, topic = "poll", topic' = topic, VoteRefused(r)
    PROVE  PollInv'
<1> USE DEF PollInv
<1>1. PollTypeOK' /\ stale' \subseteq Slots
  BY PollRequestTypes DEF PollTypeOK, VoteRefused, PollAnswer
<1>2. BeforeCreation' /\ OneCreation' /\ VotersVote'
  BY DEF BeforeCreation, VotersVote, OneCreation, PollTypeOK, VoteRefused, PollAnswer, NoPollRequest
<1>3. FreshReading'
  BY DEF FreshReading, BeforeCreation, OneCreation, PollTypeOK, PollThere, VoteRefused, PollAnswer, NoPollRequest
<1>4. ChoiceAllowed'
  BY DEF ChoiceAllowed, BeforeCreation, OneCreation, PollTypeOK, PollThere, VoteRefused, PollAnswer, NoPollRequest
<1>5. VotesCounted'
  BY DEF VotesCounted, BeforeCreation, PollThere, VoteRefused, PollAnswer, NoPollRequest
<1> QED
  BY <1>1, <1>2, <1>3, <1>4, <1>5 DEF OtherTopic

LEMMA VoteCheckedInv ==
    ASSUME PollInv, NEW r \in Slots, topic = "poll", topic' = topic, VoteChecked(r)
    PROVE  PollInv'
<1> USE DEF PollInv
<1>1. PollTypeOK' /\ stale' \subseteq Slots
  BY PollRequestTypes DEF PollTypeOK, VoteChecked, documentVars
<1>2. BeforeCreation' /\ OneCreation' /\ VotersVote'
  BY DEF BeforeCreation, VotersVote, OneCreation, PollTypeOK, VoteChecked, PollRequest, documentVars
<1>3. FreshReading'
  BY DEF FreshReading, BeforeCreation, OneCreation, PollTypeOK, PollThere, VoteChecked, PollRequest, documentVars
<1>4. ChoiceAllowed'
  BY DEF ChoiceAllowed, BeforeCreation, OneCreation, PollTypeOK, PollThere, VoteChecked, PollRequest, documentVars
<1>5. VotesCounted'
  BY DEF VotesCounted, BeforeCreation, PollThere, VoteChecked, PollRequest, documentVars
<1> QED
  BY <1>1, <1>2, <1>3, <1>4, <1>5 DEF OtherTopic

(* The save of a vote. Where nothing is touched nothing changes; otherwise *)
(* the lists read are the lists there are.                                 *)
LEMMA VoteSaveInv ==
    ASSUME PollInv, NEW r \in Slots, topic = "poll", topic' = topic, VoteSave(r)
    PROVE  PollInv'
<1> DEFINE q == pollReq[r]
<1>1. /\ q \in PollRequest /\ q.op = "vote" /\ PollThere
      /\ q.choice \subseteq Options /\ q.read \in Votes /\ q.by \in Voters \cup {NoOne}
      /\ poll \in Poll /\ counted \in [Voters -> SUBSET Options]
  BY DEF PollInv, PollTypeOK, VoteSave, PollRequest
<1>2. /\ NewVoters(q) \in [Options -> SUBSET (Voters \cup {NoOne})]
      /\ \A o \in Options : NewVoters(q)[o] =
            (q.read[o] \ {q.by}) \cup (IF o \in q.choice THEN {q.by} ELSE {})
      /\ Touched(q) \subseteq Options
      /\ \A o \in Options \ Touched(q) : o \notin q.choice /\ q.by \notin q.read[o]
  BY <1>1 DEF NewVoters, Touched, Votes
<1>3. /\ pollReq' = [pollReq EXCEPT ![r] = NoPollRequest]
      /\ poll' = [poll EXCEPT !.voters = [o \in Options |->
                     IF o \in Touched(q) THEN NewVoters(q)[o] ELSE @[o]]]
      /\ counted' = IF Touched(q) = {} THEN counted
                    ELSE [counted EXCEPT ![q.by] = q.choice]
      /\ session' = session
      /\ Touched(q) = {} => stale' = stale \ {r}
      /\ Touched(q) # {} => r \notin stale /\ stale' = (stale \cup HoldsPoll) \ {r}
  BY DEF VoteSave, PollAnswer, SavePlain, SaveReplacing, SaveVersion
<1> HIDE DEF q
<1>4. poll'.voters = [o \in Options |-> IF o \in Touched(q) THEN NewVoters(q)[o]
                                        ELSE poll.voters[o]]
      /\ poll'.status = poll.status /\ poll'.allowMultiple = poll.allowMultiple
  BY <1>1, <1>3 DEF Poll
<1>5. CASE Touched(q) = {}
  <2>1. poll' = poll /\ counted' = counted
    BY <1>1, <1>3, <1>4, <1>5 DEF Poll, Votes
  <2>2. /\ stale' = stale \ {r} /\ pollReq' = [pollReq EXCEPT ![r] = NoPollRequest]
        /\ session' = session
    BY <1>3, <1>5
  <2>3. PollTypeOK' /\ stale' \subseteq Slots
    BY <2>1, <2>2, PollRequestTypes DEF PollInv, PollTypeOK
  <2>4. BeforeCreation' /\ OneCreation' /\ VotersVote' /\ ChoiceAllowed'
    BY <1>1, <2>1, <2>2 DEF PollInv, PollTypeOK, BeforeCreation, OneCreation, VotersVote,
       ChoiceAllowed, PollThere, NoPollRequest
  <2>5. FreshReading'
    BY <2>1, <2>2 DEF PollInv, PollTypeOK, FreshReading, PollThere, NoPollRequest
  <2>6. VotesCounted'
    BY <2>1 DEF PollInv, VotesCounted, PollThere
  <2> QED
    BY <2>3, <2>4, <2>5, <2>6 DEF PollInv, OtherTopic
<1>6. CASE Touched(q) # {}
  <2>1. q.read = poll.voters /\ q.by \in Voters
    BY <1>1, <1>3, <1>6 DEF PollInv, FreshReading, VotersVote, q
  <2>2. \A o \in Options : poll'.voters[o] =
            (poll.voters[o] \ {q.by}) \cup (IF o \in q.choice THEN {q.by} ELSE {})
    BY <1>1, <1>2, <1>4, <2>1 DEF Poll, Votes
  <2>3. poll' \in Poll /\ counted' \in [Voters -> SUBSET Options]
    <3>1. poll'.voters \in [Options -> SUBSET Voters]
      BY <1>1, <1>2, <1>4, <2>1 DEF Poll, Votes
    <3>2. poll' = [status |-> poll.status, allowMultiple |-> poll.allowMultiple,
                   voters |-> poll'.voters]
      BY <1>1, <1>3, <1>4 DEF Poll
    <3> QED
      BY <1>1, <1>3, <1>6, <2>1, <3>1, <3>2 DEF Poll, Votes
  <2>4. PollTypeOK' /\ stale' \subseteq Slots
    BY <1>3, <1>6, <2>3, PollRequestTypes DEF PollInv, PollTypeOK, HoldsPoll
  <2>5. BeforeCreation' /\ OneCreation' /\ VotersVote' /\ ChoiceAllowed'
    BY <1>1, <1>3, <1>4 DEF PollInv, PollTypeOK, BeforeCreation, OneCreation, VotersVote,
       ChoiceAllowed, PollThere, NoPollRequest
  <2>6. FreshReading'
    BY <1>3, <1>6 DEF PollInv, PollTypeOK, FreshReading, HoldsPoll, NoPollRequest
  <2>7. VotesCounted'
    <3>1. \A u \in Voters : counted'[u] = {o \in Options : u \in poll'.voters[o]}
      BY <1>1, <1>3, <1>6, <2>1, <2>2 DEF PollInv, VotesCounted
    <3>2. ~poll.allowMultiple => Cardinality(q.choice) <= 1
      BY <1>1 DEF PollInv, ChoiceAllowed, q
    <3>3. ~poll.allowMultiple => \A u \in Voters : Cardinality(counted'[u]) <= 1
      BY <1>1, <1>3, <1>6, <2>1, <3>2 DEF PollInv, VotesCounted
    <3> QED
      BY <1>4, <3>1, <3>3 DEF VotesCounted
  <2> QED
    BY <2>4, <2>5, <2>6, <2>7 DEF PollInv, OtherTopic
<1> QED
  BY <1>5, <1>6

LEMMA CloseReceiveInv ==
    ASSUME PollInv, NEW r \in Slots, topic = "poll", topic' = topic, CloseReceive(r)
    PROVE  PollInv'
<1> USE DEF PollInv
<1>1. PollTypeOK' /\ stale' \subseteq Slots
  BY PollRequestTypes DEF PollTypeOK, CloseReceive, PollReceive
<1>2. BeforeCreation' /\ OneCreation' /\ VotersVote'
  BY DEF BeforeCreation, VotersVote, OneCreation, PollTypeOK, CloseReceive, PollReceive, NoPollRequest, PollThere
<1>3. FreshReading'
  BY DEF FreshReading, BeforeCreation, OneCreation, PollTypeOK, PollThere, CloseReceive, PollReceive, NoPollRequest, PollThere
<1>4. ChoiceAllowed'
  BY DEF ChoiceAllowed, BeforeCreation, OneCreation, PollTypeOK, PollThere, CloseReceive, PollReceive, NoPollRequest, PollThere
<1>5. VotesCounted'
  BY DEF VotesCounted, BeforeCreation, PollThere, CloseReceive, PollReceive, NoPollRequest, PollThere
<1> QED
  BY <1>1, <1>2, <1>3, <1>4, <1>5 DEF OtherTopic

LEMMA CloseSaveInv ==
    ASSUME PollInv, NEW r \in Slots, topic = "poll", topic' = topic, CloseSave(r)
    PROVE  PollInv'
<1> USE DEF PollInv
<1>1. PollTypeOK' /\ stale' \subseteq Slots
  BY PollRequestTypes DEF PollTypeOK, CloseSave, PollAnswer, SavePlain, Poll
<1>2. BeforeCreation' /\ OneCreation' /\ VotersVote'
  BY DEF BeforeCreation, VotersVote, OneCreation, PollTypeOK, CloseSave, PollAnswer, SavePlain, NoPollRequest, PollThere, Poll
<1>3. FreshReading'
  BY DEF FreshReading, BeforeCreation, OneCreation, PollTypeOK, PollThere, CloseSave, PollAnswer, SavePlain, NoPollRequest, PollThere, Poll
<1>4. ChoiceAllowed'
  BY DEF ChoiceAllowed, BeforeCreation, OneCreation, PollTypeOK, PollThere, CloseSave, PollAnswer, SavePlain, NoPollRequest, PollThere, Poll
<1>5. VotesCounted'
  BY DEF VotesCounted, BeforeCreation, PollThere, CloseSave, PollAnswer, SavePlain, NoPollRequest, PollThere, Poll
<1> QED
  BY <1>1, <1>2, <1>3, <1>4, <1>5 DEF OtherTopic

LEMMA PollRequestFailsInv ==
    ASSUME PollInv, NEW r \in Slots, topic = "poll", topic' = topic, PollRequestFails(r)
    PROVE  PollInv'
<1> USE DEF PollInv
<1>1. PollTypeOK' /\ stale' \subseteq Slots
  BY PollRequestTypes DEF PollTypeOK, PollRequestFails, PollAnswer
<1>2. BeforeCreation' /\ OneCreation' /\ VotersVote'
  BY DEF BeforeCreation, VotersVote, OneCreation, PollTypeOK, PollRequestFails, PollAnswer, NoPollRequest
<1>3. FreshReading'
  BY DEF FreshReading, BeforeCreation, OneCreation, PollTypeOK, PollThere, PollRequestFails, PollAnswer, NoPollRequest
<1>4. ChoiceAllowed'
  BY DEF ChoiceAllowed, BeforeCreation, OneCreation, PollTypeOK, PollThere, PollRequestFails, PollAnswer, NoPollRequest
<1>5. VotesCounted'
  BY DEF VotesCounted, BeforeCreation, PollThere, PollRequestFails, PollAnswer, NoPollRequest
<1> QED
  BY <1>1, <1>2, <1>3, <1>4, <1>5 DEF OtherTopic

(***************************************************************************)
(* All steps.                                                              *)
(***************************************************************************)
LEMMA PollStepInv ==
    ASSUME PollInv, PollStep, topic = "poll", topic' = topic
    PROVE  PollInv'
<1>1. CASE SessionEnds \/ DeletePoll
  BY <1>1, SessionEndsInv, DeletePollInv
<1>2. ASSUME NEW r \in Slots, CreateReceive(r) \/ CreatePoll(r) \/ CloseReceive(r) \/ CloseSave(r)
      PROVE  PollInv'
  BY <1>2, CreateReceiveInv, CreatePollInv, CloseReceiveInv, CloseSaveInv
<1>3. ASSUME NEW r \in Slots, NEW u \in Voters, NEW choice \in SUBSET Options,
             VoteReceive(r, u, choice)
      PROVE  PollInv'
  BY <1>3, VoteReceiveInv
<1>4. ASSUME NEW r \in Slots,
             VoteRefused(r) \/ VoteChecked(r) \/ VoteSave(r) \/ PollRequestFails(r)
      PROVE  PollInv'
  BY <1>4, VoteRefusedInv, VoteCheckedInv, VoteSaveInv, PollRequestFailsInv
<1> QED
  BY <1>1, <1>2, <1>3, <1>4 DEF PollStep

(* Other documents leave the slots that are stale among the slots. *)
LEMMA StaleSlots ==
    ASSUME stale \subseteq Slots, RoomStep \/ SubmissionStep \/ ChatStep
    PROVE  stale' \subseteq Slots
<1> USE DEF SaveVersion, SaveReplacing, SavePushing, SaveInPlace, SavePlain, VersionError
<1>1. ASSUME NEW r \in Slots, ReceiveMember(r) \/ ReceiveChannel(r)
      PROVE  stale' \subseteq Slots
  <2>1. ASSUME NEW op, NEW u, NEW v, NEW c, NEW to, Accept(r, op, u, v, c, to)
        PROVE  stale' = stale
    BY <2>1 DEF Accept
  <2>2. ASSUME NEW u, NEW v, NEW to,
               \/ JoinReceive(r, u) \/ DisbandReceive(r, u) \/ LeaveReceive(r, u, v)
               \/ AddReceive(r, u, v) \/ RemoveReceive(r, u, v) \/ TransferReceive(r, u, v)
               \/ SetRoleReceive(r, u, v, to)
        PROVE  stale' = stale
    BY <2>1, <2>2 DEF JoinReceive, DisbandReceive, LeaveReceive, AddReceive, RemoveReceive,
       TransferReceive, SetRoleReceive
  <2>3. ASSUME NEW c, NEW u, NEW v, NEW to,
               \/ RenameChannelReceive(r, c) \/ AddToChannelReceive(r, u, c, v)
               \/ NewChannelReceive(r, u, c, v, to) \/ RemoveFromChannelReceive(r, u, c, v)
               \/ SetChannelRoleReceive(r, u, c, v, to)
        PROVE  stale' = stale
    BY <2>1, <2>3 DEF RenameChannelReceive, AddToChannelReceive, NewChannelReceive,
       RemoveFromChannelReceive, SetChannelRoleReceive
  <2>4. CASE ReceiveMember(r)
    BY <2>2, <2>4 DEF ReceiveMember
  <2>5. CASE ReceiveChannel(r)
    BY <2>3, <2>5 DEF ReceiveChannel
  <2> QED
    BY <1>1, <2>4, <2>5
<1>2. ASSUME NEW r \in Slots, SaveRoom(r) \/ RoomRequestFails(r)
      PROVE  stale' \subseteq Slots
  BY <1>2 DEF SaveRoom, RoomRequestFails, BusyRooms, Replacing, Pushing, EnterSave, ReturnSave,
     RemoveSave, SetRoleSave, TransferSave, LeaveSave, DisbandSave, NewChannelSave,
     SetChannelRoleSave, AddToChannelSave, RemoveFromChannelSave, RenameChannelSave
<1>3. ASSUME NEW r \in Slots,
             \/ StartReceive(r) \/ StartBegin(r) \/ StartUpsert(r) \/ StartCount(r)
             \/ StartCreate(r) \/ HandIn(r) \/ FileReceive(r) \/ FileSave(r)
             \/ \E mark \in Marks : HandInReceive(r, mark) \/ GradeReceive(r, mark, FALSE)
             \/ \E note \in BOOLEAN : GradeReceive(r, Undefined, note)
             \/ \E marks \in Markings : MarkReceive(r, marks)
      PROVE  stale' \subseteq Slots
  BY <1>3 DEF StartReceive, StartBegin, StartUpsert, StartCount, StartCreate, HandIn, FileReceive,
     FileSave, HandInReceive, GradeReceive, MarkReceive, Holding, documentVars
<1>4. ASSUME NEW r \in Slots,
             \/ GradeSave(r) \/ GradeCreate(r) \/ MarkSave(r) \/ DeleteReceive(r)
             \/ ResetSave(r) \/ DeleteSave(r) \/ SubmissionFails(r)
      PROVE  stale' \subseteq Slots
  BY <1>4 DEF GradeSave, GradeCreate, MarkSave, DeleteReceive, ResetSave, DeleteSave,
     SubmissionFails, Holding
<1>5. CASE ChatStep
  <2>1. ASSUME NEW m \in Messages, Send(m)
        PROVE  stale' \subseteq Slots
    BY <2>1 DEF Send, documentVars
  <2>2. ASSUME NEW r \in Slots, NEW m \in Messages,
               ReactReceive(r, m) \/ PinReceive(r, m) \/ UnpinReceive(r, m) \/ RevokeReceive(r, m)
        PROVE  stale' \subseteq Slots
    BY <2>2 DEF ReactReceive, PinReceive, UnpinReceive, RevokeReceive, ChatReceive
  <2>3. ASSUME NEW r \in Slots,
               \/ ReactSave(r) \/ PinFind(r) \/ PinPush(r) \/ PinMark(r)
               \/ UnpinPull(r) \/ UnpinClear(r) \/ RevokePull(r) \/ RevokeSave(r)
               \/ ChatRequestFails(r)
        PROVE  stale' \subseteq Slots
    BY <2>3 DEF ReactSave, PinFind, PinPush, PinMark, UnpinPull, UnpinClear, RevokePull, RevokeSave,
       ChatRequestFails, ChatGoesOn, HoldsMessage, documentVars
  <2> QED
    BY <1>5, <2>1, <2>2, <2>3 DEF ChatStep
<1> QED
  BY <1>1, <1>2, <1>3, <1>4, <1>5 DEF RoomStep, SubmissionStep

LEMMA PollNextInv ==
    ASSUME PollInv, [Next]_vars
    PROVE  PollInv'
<1>1. CASE ChangePoll
  BY <1>1, PollStepInv DEF ChangePoll
<1>2. CASE ChangeRoom \/ ChangeSubmission \/ ChangeChat
  <2>1. topic # "poll" /\ topic' = topic /\ UNCHANGED pollVars /\ (RoomStep \/ SubmissionStep \/ ChatStep)
    BY <1>2 DEF ChangeRoom, ChangeSubmission, ChangeChat
  <2> QED
    BY <2>1, StaleSlots, PollsElsewhere DEF PollInv
<1>3. CASE UNCHANGED vars
  BY <1>3 DEF PollInv, PollTypeOK, BeforeCreation, OneCreation, VotersVote, FreshReading,
     ChoiceAllowed, VotesCounted, OtherTopic, PollThere, vars, documentVars, pollVars
<1> QED
  BY <1>1, <1>2, <1>3 DEF Next, Rest

(***************************************************************************)
(* Theorems.                                                               *)
(***************************************************************************)
(* The invariant of the polls: a request that is not stale has read the    *)
(* poll as it is, and the options show what was counted.                   *)
THEOREM PollInvariantHolds == Spec => []PollInv
<1>1. Init => PollInv
  BY PollInitInv
<1>2. PollInv /\ [Next]_vars => PollInv'
  BY PollNextInv
<1> QED
  BY <1>1, <1>2, PTL DEF Spec

(* The options of a poll show the last vote of every user that was saved,  *)
(* and nothing else, however many votes are saved at once (votePoll).      *)
THEOREM VotesCountedAlways == Spec => []VotesCounted
<1>1. PollInv => VotesCounted
  BY DEF PollInv
<1> QED
  BY <1>1, PollInvariantHolds, PTL

(***************************************************************************)
(* Submissions: the inductive invariant.                                   *)
(***************************************************************************)
(* Requests hold attempts that are there, and of the right kind. *)
HeldThere == \A r \in Slots : subReq[r].n # 0 => sub[subReq[r].n].there

KindsFit ==
    /\ kind.essay => kind.quiz
    /\ \A r \in Slots :
          /\ subReq[r].op = "file" => ~kind.quiz
          /\ subReq[r].op = "handIn" => kind.quiz
          /\ subReq[r].op = "mark" =>
                kind.essay /\ \A i \in subReq[r].writes : subReq[r].marks[i] # Undefined

(* A hand-in that can still be saved finds its attempt open. *)
HandInOpen ==
    \A r \in Slots : (subReq[r].op = "handIn" /\ subReq[r].n # 0 /\ r \notin stale)
        => ~sub[subReq[r].n].in

(* Marks whose attempt has not changed were added to the points it has.    *)
Points(n) == IF sub[n].mcq = Undefined THEN 0 ELSE sub[n].mcq
AllGiven(marks) == Given(marks, 1) + Given(marks, 2)

WellMarked(q) ==
    (q.op = "mark" /\ q.n # 0) => /\ q.total = Points(q.n) + AllGiven(q.marks)
                                  /\ ~q.plain => sub[q.n].mcq # Undefined

MarkCurrent == \A r \in Slots : r \notin stale => WellMarked(subReq[r])

(* An attempt was handed in as often as it was taken back, and once more   *)
(* when it is in.                                                          *)
HandedCount ==
    kind.quiz => \A n \in There :
        handed[n] <= (IF sub[n].in THEN 1 ELSE 0) + resets[n]

Adds(doc) == doc.mcq + doc.essay[1] + doc.essay[2]
ScoreFits(doc, short) == doc.score <= Adds(doc) /\ (~short => doc.score = Adds(doc))

ScoreOfMarked ==
    \A n \in There : sub[n].grading = "graded" =>
        /\ kind.essay
        /\ n \notin hasty => ScoreFits(sub[n], n \in partial)

(* The submissions rest while another document is the topic. *)
SubmissionsIdle == topic # "submission" => subReq = [r \in Slots |-> NoSubRequest]

SubInv ==
    /\ SubmissionTypeOK
    /\ HeldThere /\ KindsFit /\ HandInOpen /\ MarkCurrent
    /\ HandedCount /\ ScoreOfMarked
    /\ SubmissionsIdle

(***************************************************************************)
(* Types, and the attempt that comes first.                                *)
(***************************************************************************)
LEMMA RequestTypes ==
    /\ NoSubRequest \in SubmissionRequest
    /\ NoSubRequest.n = 0 /\ NoSubRequest.op = "none"
BY DEF NoSubRequest, SubmissionRequest, NoEssay, Score, Undefined, Questions

LEMMA SubmissionTypes ==
    /\ NoSubmission \in Submission
    /\ Unsubmitted \in Submission
    /\ [Unsubmitted EXCEPT !.started = TRUE] \in Submission
    /\ [Unsubmitted EXCEPT !.in = TRUE] \in Submission
BY DEF NoSubmission, Unsubmitted, Submission, Score, Undefined, NoEssay, Questions

LEMMA FirstType ==
    ASSUME NEW S, S \subseteq Nat, S # {}
    PROVE  First(S) \in S
<1> DEFINE R == OpToRel(<, Nat)
<1>1. \A x, y \in Nat : <<y, x>> \in R <=> y < x
  BY DEF OpToRel
<1>2. IsWellFoundedOn(R, Nat)
  BY NatLessThanWellFounded
<1> HIDE DEF R
<1>3. PICK x \in S : \A y \in S : ~ (<<y, x>> \in R)
  BY <1>2, WFMin
<1>4. ASSUME NEW y \in S
      PROVE  x <= y
  <2>1. <<y, x>> \notin R
    BY <1>3
  <2>2. y \in Nat /\ x \in Nat
    OBVIOUS
  <2>3. ~(y < x)
    BY <1>1, <2>1, <2>2
  <2> QED
    BY <2>2, <2>3
<1> QED
  BY <1>4 DEF First

LEMMA ThereTypes ==
    ASSUME SubmissionTypeOK
    PROVE  /\ There \subseteq Attempts /\ Open \subseteq There
           /\ Attempts \subseteq Nat /\ 0 \notin Attempts
           /\ There # {} => First(There) \in There
           /\ Open # {} => First(Open) \in Open
           /\ Cardinality(There) + 1 \in Nat
<1>1. There \subseteq Attempts /\ Open \subseteq There /\ Attempts \subseteq Nat /\ 0 \notin Attempts
  BY SubmissionAssumption DEF There, Open, Attempts
<1>2. There # {} => First(There) \in There
  BY <1>1, FirstType
<1>3. Open # {} => First(Open) \in Open
  BY <1>1, FirstType
<1>4. Cardinality(There) \in Nat
  <2>1. IsFiniteSet(Attempts)
    <3>1. 1 \in Int /\ MaxAttempts \in Int
      BY SubmissionAssumption
    <3> QED
      BY <3>1, FS_Interval DEF Attempts
  <2>2. IsFiniteSet(There)
    BY <1>1, <2>1, FS_Subset
  <2> QED
    BY <2>2, FS_CardinalityType
<1> QED
  BY <1>1, <1>2, <1>3, <1>4

LEMMA SubInitInv == Init => SubInv
<1> SUFFICES ASSUME Init PROVE SubInv
  OBVIOUS
<1>0. kind \in Kind /\ (kind.essay => kind.quiz)
  BY Zenon DEF Init, SubmissionInit
<1>1. /\ sub = [n \in Attempts |-> NoSubmission]
      /\ subReq = [r \in Slots |-> NoSubRequest]
      /\ handed = [n \in Attempts |-> 0] /\ resets = [n \in Attempts |-> 0]
      /\ rivals = 0 /\ hasty = {} /\ partial = {}
  BY DEF Init, SubmissionInit
<1>2. SubmissionTypeOK
  <2>1. sub \in [Attempts -> Submission] /\ subReq \in [Slots -> SubmissionRequest]
    BY <1>1, RequestTypes, SubmissionTypes
  <2>2. handed \in [Attempts -> Nat] /\ resets \in [Attempts -> Nat]
    BY <1>1
  <2> QED
    BY <1>0, <1>1, <2>1, <2>2 DEF SubmissionTypeOK
<1>3. There = {}
  BY <1>1 DEF There, NoSubmission
<1>4. HeldThere /\ KindsFit /\ HandInOpen /\ MarkCurrent
  <2>1. \A r \in Slots : subReq[r].n = 0 /\ subReq[r].op = "none"
    BY <1>1, RequestTypes
  <2> QED
    BY <1>0, <2>1, Zenon DEF HeldThere, KindsFit, HandInOpen, MarkCurrent, WellMarked
<1>5. HandedCount /\ ScoreOfMarked /\ SubmissionsIdle
  BY <1>1, <1>3 DEF HandedCount, ScoreOfMarked, SubmissionsIdle
<1> QED
  BY <1>2, <1>4, <1>5 DEF SubInv

(***************************************************************************)
(* The three ways in which a step leaves the submissions alone or adds one.*)
(***************************************************************************)
(* A request is received, or goes on, with q. *)
LEMMA TurnInv ==
    ASSUME SubInv, topic = "submission", topic' = topic,
           NEW r \in Slots, NEW q \in SubmissionRequest, SubTurn(r, q),
           UNCHANGED <<kind, sub, handed, resets, hasty, partial, stale>>, rivals' \in Nat,
           q.n # 0 => sub[q.n].there,
           q.op = "file" => ~kind.quiz,
           q.op = "handIn" => kind.quiz /\ (q.n # 0 => ~sub[q.n].in),
           q.op = "mark" => kind.essay /\ \A i \in q.writes : q.marks[i] # Undefined,
           WellMarked(q)
    PROVE  SubInv'
<1>1. subReq' \in [Slots -> SubmissionRequest] /\ subReq' = [subReq EXCEPT ![r] = q]
  BY DEF SubInv, SubmissionTypeOK, SubTurn
<1>2. SubmissionTypeOK'
  BY <1>1 DEF SubInv, SubmissionTypeOK
<1>3. HeldThere' /\ KindsFit' /\ HandInOpen' /\ MarkCurrent'
  <2>1. subReq'[r] = q /\ \A x \in Slots \ {r} : subReq'[x] = subReq[x]
    BY <1>1 DEF SubInv, SubmissionTypeOK
  <2>2. HeldThere'
    BY <2>1 DEF SubInv, HeldThere
  <2>3. KindsFit'
    BY <2>1 DEF SubInv, KindsFit
  <2>4. HandInOpen'
    BY <2>1 DEF SubInv, HandInOpen
  <2>5. MarkCurrent'
    <3>1. stale' = stale /\ WellMarked(q)'
      BY DEF WellMarked, Points
    <3>2. ASSUME NEW x \in Slots \ {r}, x \notin stale
          PROVE  WellMarked(subReq[x])'
      <4>1. WellMarked(subReq[x])
        BY <3>2 DEF SubInv, MarkCurrent
      <4> QED
        BY <2>1, <4>1 DEF WellMarked, Points
    <3>3. WellMarked(subReq[r])'
      BY <2>1, <3>1 DEF WellMarked, Points
    <3> QED
      BY <3>1, <3>2, <3>3 DEF MarkCurrent
  <2> QED
    BY <2>2, <2>3, <2>4, <2>5
<1>4. HandedCount' /\ ScoreOfMarked' /\ SubmissionsIdle'
  BY DEF SubInv, HandedCount, ScoreOfMarked, SubmissionsIdle, There
<1> QED
  BY <1>2, <1>3, <1>4 DEF SubInv

(* A request ends and changes nothing. *)
LEMMA EndInv ==
    ASSUME SubInv, topic = "submission", topic' = topic,
           NEW r \in Slots, SubDone(r), stale \ {r} \subseteq stale',
           UNCHANGED <<sub, SubHistory>>
    PROVE  SubInv'
<1>1. /\ subReq' \in [Slots -> SubmissionRequest]
      /\ subReq' = [subReq EXCEPT ![r] = NoSubRequest] /\ kind' = kind
  BY RequestTypes DEF SubInv, SubmissionTypeOK, SubDone, SubTurn
<1>2. SubmissionTypeOK'
  BY <1>1 DEF SubInv, SubmissionTypeOK, SubHistory
<1>3. HeldThere' /\ KindsFit' /\ HandInOpen' /\ MarkCurrent'
  BY <1>1, RequestTypes DEF SubInv, SubmissionTypeOK, HeldThere, KindsFit, HandInOpen, MarkCurrent, WellMarked, Points
<1>4. HandedCount' /\ ScoreOfMarked' /\ SubmissionsIdle'
  BY <1>1 DEF SubInv, HandedCount, ScoreOfMarked, SubmissionsIdle, There, SubHistory
<1> QED
  BY <1>2, <1>3, <1>4 DEF SubInv

(* A request ends with a new submission. *)
LEMMA CreateInv ==
    ASSUME SubInv, topic = "submission", topic' = topic,
           NEW r \in Slots, SubDone(r), stale' = stale, rivals' = rivals,
           NEW n, NEW doc \in Submission, Create(n, doc),
           doc.grading = "none", doc.there
    PROVE  SubInv'
<1>1. /\ subReq' \in [Slots -> SubmissionRequest]
      /\ subReq' = [subReq EXCEPT ![r] = NoSubRequest] /\ kind' = kind
  BY RequestTypes DEF SubInv, SubmissionTypeOK, SubDone, SubTurn
<1>2. /\ n \in Attempts /\ ~sub[n].there
      /\ sub' = [sub EXCEPT ![n] = doc]
      /\ handed' = [handed EXCEPT ![n] = IF doc.in THEN 1 ELSE 0]
      /\ resets' = [resets EXCEPT ![n] = 0]
      /\ hasty' = hasty \ {n} /\ partial' = partial \ {n}
  BY DEF Create, There
<1>3. SubmissionTypeOK'
  BY <1>1, <1>2 DEF SubInv, SubmissionTypeOK
<1>4. \A x \in Slots : subReq[x].n # n \/ subReq[x].n = 0
  BY <1>2 DEF SubInv, HeldThere
<1>5. HeldThere' /\ KindsFit' /\ HandInOpen' /\ MarkCurrent'
  BY <1>1, <1>2, <1>4, RequestTypes DEF SubInv, SubmissionTypeOK, SubmissionRequest, HeldThere, KindsFit,
     HandInOpen, MarkCurrent, WellMarked, Points
<1>6. HandedCount'
  BY <1>1, <1>2 DEF SubInv, SubmissionTypeOK, HandedCount, There, Submission
<1>7. ScoreOfMarked' /\ SubmissionsIdle'
  BY <1>1, <1>2 DEF SubInv, SubmissionTypeOK, ScoreOfMarked, SubmissionsIdle, There
<1> QED
  BY <1>3, <1>5, <1>6, <1>7 DEF SubInv

(***************************************************************************)
(* Receiving a request.                                                    *)
(***************************************************************************)
LEMMA StartReceiveInv ==
    ASSUME SubInv, topic = "submission", topic' = topic, NEW r \in Slots,
           StartReceive(r) \/ StartCount(r)
    PROVE  SubInv'
<1> USE DEF SubHistory
<1>1. Cardinality(There) + 1 \in Nat /\ rivals \in Nat
  BY ThereTypes DEF SubInv, SubmissionTypeOK
<1>2. CASE StartReceive(r)
  <2>1. UNCHANGED <<kind, sub, handed, resets, hasty, partial, stale>> /\ rivals' \in Nat
    BY <1>1, <1>2 DEF StartReceive
  <2>2. CASE Open # {} /\ ~sub[First(Open)].started
    <3> DEFINE q == [NoSubRequest EXCEPT !.op = "begin", !.n = First(Open)]
    <3>1. First(Open) \in Attempts /\ sub[First(Open)].there
      BY <2>2, ThereTypes DEF SubInv, There, Open
    <3>2. SubTurn(r, q)
      BY <1>2, <2>2 DEF StartReceive, SubReceive
    <3>3. /\ q \in SubmissionRequest /\ q.n = First(Open) /\ q.op = "begin"
      BY <3>1, RequestTypes DEF SubmissionRequest, Score
    <3> HIDE DEF q
    <3> QED
      BY <2>1, <3>1, <3>2, <3>3, TurnInv DEF WellMarked
  <2>3. CASE ~(Open # {} /\ ~sub[First(Open)].started)
    <3>1. PICK op \in {"count", "upsert"} : SubTurn(r, [NoSubRequest EXCEPT !.op = op])
      BY <1>2, <2>3 DEF StartReceive, SubReceive
    <3> DEFINE q == [NoSubRequest EXCEPT !.op = op]
    <3>2. q \in SubmissionRequest /\ q.n = 0 /\ q.op \in {"count", "upsert"}
      BY RequestTypes DEF SubmissionRequest, Score
    <3> HIDE DEF q
    <3> QED
      BY <2>1, <3>1, <3>2, TurnInv DEF WellMarked, q
  <2> QED
    BY <2>2, <2>3
<1>3. CASE StartCount(r)
  <2> DEFINE q == [NoSubRequest EXCEPT !.op = "create", !.mark = Cardinality(There) + 1]
  <2>1. q \in SubmissionRequest /\ q.n = 0 /\ q.op = "create"
    BY <1>1, RequestTypes DEF SubmissionRequest, Score
  <2>2. SubTurn(r, q) /\ UNCHANGED <<kind, sub, handed, resets, hasty, partial, stale>> /\ rivals' \in Nat
    BY <1>1, <1>3 DEF StartCount, documentVars
  <2> HIDE DEF q
  <2> QED
    BY <2>1, <2>2, TurnInv DEF WellMarked
<1> QED
  BY <1>2, <1>3

LEMMA HandInReceiveInv ==
    ASSUME SubInv, topic = "submission", topic' = topic, NEW r \in Slots,
           NEW mark \in Marks, HandInReceive(r, mark)
    PROVE  SubInv'
<1> DEFINE q == [NoSubRequest EXCEPT !.op = "handIn", !.n = First(Open), !.mark = mark]
<1>1. First(Open) \in Attempts /\ sub[First(Open)].there /\ ~sub[First(Open)].in
  BY ThereTypes DEF SubInv, There, Open, HandInReceive
<1>2. /\ SubTurn(r, q) /\ kind.quiz /\ rivals' \in Nat
      /\ UNCHANGED <<kind, sub, handed, resets, hasty, partial, stale>>
  BY DEF HandInReceive, SubReceive, SubHistory, SubInv, SubmissionTypeOK
<1>3. q \in SubmissionRequest /\ q.n = First(Open) /\ q.op = "handIn"
  BY <1>1, SubmissionAssumption, RequestTypes DEF SubmissionRequest, Score
<1> HIDE DEF q
<1> QED
  BY <1>1, <1>2, <1>3, TurnInv DEF WellMarked

LEMMA FileReceiveInv ==
    ASSUME SubInv, topic = "submission", topic' = topic, NEW r \in Slots, FileReceive(r)
    PROVE  SubInv'
<1> DEFINE q == [NoSubRequest EXCEPT !.op = "file", !.n = IF There = {} THEN 0 ELSE First(There),
                                     !.plain = There = {}]
<1>1. There # {} => First(There) \in Attempts /\ sub[First(There)].there
  BY ThereTypes DEF SubInv, There
<1>2. /\ SubTurn(r, q) /\ ~kind.quiz /\ rivals' \in Nat
      /\ UNCHANGED <<kind, sub, handed, resets, hasty, partial, stale>>
  BY DEF FileReceive, SubReceive, SubHistory, SubInv, SubmissionTypeOK
<1>3. /\ q \in SubmissionRequest /\ q.op = "file"
      /\ q.n = IF There = {} THEN 0 ELSE First(There)
  BY <1>1, RequestTypes DEF SubmissionRequest, Score
<1> HIDE DEF q
<1> QED
  BY <1>1, <1>2, <1>3, TurnInv DEF WellMarked

LEMMA GradeReceiveInv ==
    ASSUME SubInv, topic = "submission", topic' = topic, NEW r \in Slots,
           NEW mark \in Score, NEW note \in BOOLEAN, GradeReceive(r, mark, note)
    PROVE  SubInv'
<1>1. UNCHANGED <<kind, sub, handed, resets, hasty, partial, stale>> /\ rivals' \in Nat
  <2>1. rivals \in Nat
    BY DEF SubInv, SubmissionTypeOK
  <2>2. rivals' = rivals \/ rivals' = rivals + 1
    BY Zenon DEF GradeReceive
  <2>3. rivals' \in Nat
    BY <2>1, <2>2
  <2>4. UNCHANGED <<kind, sub, handed, resets, hasty, partial, stale>>
    BY Zenon DEF GradeReceive
  <2> QED
    BY <2>3, <2>4
<1>2. ASSUME NEW n \in There,
             SubReceive(r, [NoSubRequest EXCEPT !.op = "grade", !.n = n,
                                                !.mark = mark, !.plain = note])
      PROVE  SubInv'
  <2> DEFINE q == [NoSubRequest EXCEPT !.op = "grade", !.n = n, !.mark = mark, !.plain = note]
  <2>1. q \in SubmissionRequest /\ q.op = "grade" /\ q.n = n /\ sub[n].there
    BY RequestTypes DEF SubmissionRequest, There
  <2>2. SubTurn(r, q)
    BY <1>2 DEF SubReceive
  <2> HIDE DEF q
  <2> QED
    BY <1>1, <2>1, <2>2, TurnInv DEF WellMarked
<1>3. ASSUME SubReceive(r, [NoSubRequest EXCEPT !.op = "gradeNew", !.mark = mark, !.plain = note])
      PROVE  SubInv'
  <2> DEFINE q == [NoSubRequest EXCEPT !.op = "gradeNew", !.mark = mark, !.plain = note]
  <2>1. q \in SubmissionRequest /\ q.op = "gradeNew" /\ q.n = 0
    BY RequestTypes DEF SubmissionRequest
  <2>2. SubTurn(r, q)
    BY <1>3 DEF SubReceive
  <2> HIDE DEF q
  <2> QED
    BY <1>1, <2>1, <2>2, TurnInv DEF WellMarked
<1> QED
  BY <1>2, <1>3 DEF GradeReceive

(* What a request that marks holds: the marks it writes are given ones.    *)
LEMMA MarkingTypes ==
    ASSUME NEW n \in Attempts, NEW marks \in [Questions -> Score], NEW total \in Nat
    PROVE  /\ Marking(n, marks, total) \in SubmissionRequest
           /\ Marking(n, marks, total).op = "mark" /\ Marking(n, marks, total).n = n
           /\ Marking(n, marks, total).total = total
           /\ Marking(n, marks, total).marks = marks
           /\ \A i \in Marking(n, marks, total).writes : marks[i] # Undefined
           /\ ~Marking(n, marks, total).plain => sub[n].mcq # Undefined
<1> DEFINE writes == {i \in Questions : marks[i] \notin {Undefined, sub[n].essay[i]}
                                          /\ sub[n].mcq # Undefined}
           none == writes = {}
           q == [NoSubRequest EXCEPT !.op = "mark", !.n = n, !.total = total, !.marks = marks,
                                     !.writes = writes, !.plain = none]
<1>1. writes \in SUBSET Questions /\ none \in BOOLEAN
  OBVIOUS
<1>2. (\A i \in writes : marks[i] # Undefined) /\ (~none => sub[n].mcq # Undefined)
  OBVIOUS
<1>3. Marking(n, marks, total) = q
  BY DEF Marking
<1> HIDE DEF writes, none
<1>4. /\ q \in SubmissionRequest /\ q.op = "mark" /\ q.n = n /\ q.total = total
      /\ q.marks = marks /\ q.writes = writes /\ q.plain = none
  BY <1>1, RequestTypes DEF SubmissionRequest
<1> HIDE DEF q
<1> QED
  BY <1>2, <1>3, <1>4

LEMMA GivenType ==
    ASSUME NEW marks \in [Questions -> Score]
    PROVE  Given(marks, 1) \in Nat /\ Given(marks, 2) \in Nat
BY DEF Given, Questions, Score, Undefined

LEMMA MarkReceiveInv ==
    ASSUME SubInv, topic = "submission", topic' = topic, NEW r \in Slots,
           NEW marks \in Markings, MarkReceive(r, marks)
    PROVE  SubInv'
<1> DEFINE n == First(There)
           total == Points(n) + Given(marks, 1) + Given(marks, 2)
           q == Marking(n, marks, total)
<1>1. n \in Attempts /\ sub[n].there
  BY ThereTypes DEF SubInv, There, MarkReceive
<1>2. /\ SubTurn(r, q) /\ kind.essay
      /\ UNCHANGED <<kind, sub, handed, resets, hasty, partial, stale>> /\ rivals' = rivals
  BY DEF MarkReceive, SubReceive, Points, SubHistory
<1>3. rivals \in Nat /\ marks \in [Questions -> Score] /\ Points(n) \in Nat
  BY <1>1, SubmissionAssumption DEF SubInv, SubmissionTypeOK, Submission, Score, Undefined, Points
<1>4. total \in Nat /\ total = Points(n) + AllGiven(marks)
  BY <1>3, GivenType DEF AllGiven
<1> HIDE DEF total, n
<1>5. /\ q \in SubmissionRequest /\ q.op = "mark" /\ q.n = n /\ q.total = total /\ q.marks = marks
      /\ (\A i \in q.writes : q.marks[i] # Undefined) /\ (~q.plain => sub[n].mcq # Undefined)
  BY <1>1, <1>3, <1>4, MarkingTypes
<1> HIDE DEF q
<1>6. WellMarked(q)
  BY <1>4, <1>5 DEF WellMarked
<1> QED
  BY <1>1, <1>2, <1>3, <1>5, <1>6, TurnInv

LEMMA DeleteReceiveInv ==
    ASSUME SubInv, topic = "submission", topic' = topic, NEW r \in Slots, DeleteReceive(r)
    PROVE  SubInv'
<1> DEFINE n == First(There)
           q == [NoSubRequest EXCEPT !.n = n,
                      !.op = IF sub[n].score # Undefined \/ sub[n].noted THEN "reset"
                             ELSE "delete",
                      !.plain = kind.quiz]
<1>1. n \in Attempts /\ sub[n].there
  BY ThereTypes DEF SubInv, There, DeleteReceive
<1>2. /\ SubTurn(r, q)
      /\ UNCHANGED <<kind, sub, handed, resets, hasty, partial, stale>> /\ rivals' \in Nat
  BY DEF DeleteReceive, SubReceive, SubHistory, SubInv, SubmissionTypeOK
<1>3. kind.quiz \in BOOLEAN
  BY DEF SubInv, SubmissionTypeOK, Kind
<1>4. q \in SubmissionRequest /\ q.op \in {"reset", "delete"} /\ q.n = n
  BY <1>1, <1>3, RequestTypes DEF SubmissionRequest, Score
<1> HIDE DEF q, n
<1> QED
  BY <1>1, <1>2, <1>4, TurnInv DEF WellMarked

(***************************************************************************)
(* Requests that create a submission, or end without one.                  *)
(***************************************************************************)
LEMMA GradedFields ==
    ASSUME NEW doc \in Submission, NEW q, q.mark \in Score, q.plain \in BOOLEAN
    PROVE  /\ Graded(doc, q) \in Submission
           /\ Graded(doc, q).there = doc.there /\ Graded(doc, q).in = doc.in
           /\ Graded(doc, q).mcq = doc.mcq /\ Graded(doc, q).essay = doc.essay
           /\ Graded(doc, q).grading = doc.grading
           /\ q.mark = Undefined => Graded(doc, q).score = doc.score
<1>1. CASE q.mark = Undefined
  BY <1>1 DEF Graded, Submission
<1>2. CASE q.mark # Undefined
  BY <1>2 DEF Graded, Submission
<1> QED
  BY <1>1, <1>2

LEMMA CreatesInv ==
    ASSUME SubInv, topic = "submission", topic' = topic, NEW r \in Slots, StartUpsert(r) \/ StartCreate(r) \/ GradeCreate(r)
    PROVE  SubInv'
<1>1. CASE StartUpsert(r)
  <2>1. CASE There = {}
    BY <1>1, <2>1, SubmissionTypes, CreateInv DEF StartUpsert, Unsubmitted, NoSubmission
  <2>2. CASE There # {}
    BY <1>1, <2>2, EndInv DEF StartUpsert, SubHistory
  <2> QED
    BY <2>1, <2>2
<1>2. CASE StartCreate(r)
  BY <1>2, SubmissionTypes, CreateInv DEF StartCreate, Unsubmitted, NoSubmission
<1>3. CASE GradeCreate(r)
  <2> DEFINE doc == Graded(Unsubmitted, subReq[r])
  <2>1. subReq[r].mark \in Score /\ subReq[r].plain \in BOOLEAN
    BY DEF SubInv, SubmissionTypeOK, SubmissionRequest
  <2>2. doc \in Submission /\ doc.grading = "none" /\ doc.there
    BY <2>1, SubmissionTypes, GradedFields DEF Unsubmitted, NoSubmission
  <2> HIDE DEF doc
  <2>3. Create(1, doc) /\ SubDone(r) /\ stale' = stale /\ rivals' = rivals
    BY <1>3 DEF GradeCreate, doc
  <2> QED
    BY <2>2, <2>3, CreateInv
<1> QED
  BY <1>1, <1>2, <1>3

LEMMA SubmissionFailsInv ==
    ASSUME SubInv, topic = "submission", topic' = topic, NEW r \in Slots, SubmissionFails(r)
    PROVE  SubInv'
<1>1. SubDone(r) /\ stale \ {r} \subseteq stale' /\ UNCHANGED <<sub, SubHistory>>
  BY DEF SubmissionFails
<1> QED
  BY <1>1, EndInv

(***************************************************************************)
(* Requests that save the attempt they hold.                               *)
(***************************************************************************)
(* What a save leaves: the request is over, the attempt is doc, and who    *)
(* holds it is stale if what it was decided on has changed.                *)
LEMMA SaveInv ==
    ASSUME SubInv, topic = "submission", topic' = topic, NEW r \in Slots,
           subReq[r].n # 0, SubDone(r), rivals' = rivals,
           NEW doc \in Submission, sub' = [sub EXCEPT ![subReq[r].n] = doc], doc.there,
           handed' \in [Attempts -> Nat], resets' \in [Attempts -> Nat],
           \A n \in Attempts \ {subReq[r].n} :
               /\ handed'[n] = handed[n] /\ resets'[n] = resets[n]
               /\ (n \in hasty' <=> n \in hasty) /\ (n \in partial' <=> n \in partial),
           hasty' \subseteq Attempts, partial' \subseteq Attempts,
           stale \ {r} \subseteq stale',
           \/ Holding(subReq[r].n) \ {r} \subseteq stale'
           \/ doc.mcq = sub[subReq[r].n].mcq /\ (sub[subReq[r].n].in \/ ~doc.in),
           kind.quiz => handed'[subReq[r].n]
                          <= (IF doc.in THEN 1 ELSE 0) + resets'[subReq[r].n],
           doc.grading = "graded" =>
               /\ kind.essay
               /\ subReq[r].n \notin hasty' => ScoreFits(doc, subReq[r].n \in partial')
    PROVE  SubInv'
<1> DEFINE m == subReq[r].n
<1>1. /\ subReq' \in [Slots -> SubmissionRequest]
      /\ subReq' = [subReq EXCEPT ![r] = NoSubRequest] /\ kind' = kind
      /\ subReq'[r] = NoSubRequest /\ \A x \in Slots \ {r} : subReq'[x] = subReq[x]
  BY RequestTypes DEF SubInv, SubmissionTypeOK, SubDone, SubTurn
<1>2. /\ m \in Attempts /\ sub[m].there /\ sub'[m] = doc
      /\ sub' \in [Attempts -> Submission]
      /\ \A n \in Attempts \ {m} : sub'[n] = sub[n]
  BY DEF SubInv, SubmissionTypeOK, SubmissionRequest, HeldThere
<1> HIDE DEF m
<1>3. SubmissionTypeOK'
  BY <1>1, <1>2 DEF SubInv, SubmissionTypeOK
<1>4. \A x \in Slots : subReq[x].n \in Attempts \cup {0}
  BY DEF SubInv, SubmissionTypeOK, SubmissionRequest
<1>5. HeldThere' /\ KindsFit'
  BY <1>1, <1>2, <1>4, RequestTypes DEF SubInv, HeldThere, KindsFit
<1>6. HandInOpen'
  BY <1>1, <1>2, <1>4, RequestTypes DEF SubInv, HandInOpen, Holding, m
<1>7. MarkCurrent'
  <2>1. ASSUME NEW x \in Slots \ {r}, x \notin stale'
        PROVE  WellMarked(subReq[x])'
    <3>1. WellMarked(subReq[x]) /\ subReq'[x] = subReq[x]
      BY <1>1, <2>1 DEF SubInv, MarkCurrent
    <3>2. CASE subReq[x].n # m
      BY <1>2, <1>4, <3>1, <3>2 DEF WellMarked, Points
    <3>3. CASE subReq[x].n = m
      <4>1. doc.mcq = sub[m].mcq
        BY <2>1, <3>3 DEF Holding, m
      <4> QED
        BY <1>2, <3>1, <3>3, <4>1 DEF WellMarked, Points
    <3> QED
      BY <3>2, <3>3
  <2>2. WellMarked(subReq[r])'
    BY <1>1, RequestTypes DEF WellMarked
  <2> QED
    BY <2>1, <2>2 DEF MarkCurrent
<1>8. HandedCount'
  BY <1>1, <1>2 DEF SubInv, HandedCount, There, m
<1>9. ScoreOfMarked'
  <2> SUFFICES ASSUME NEW n \in There', sub'[n].grading = "graded"
               PROVE  kind'.essay /\ (n \notin hasty' => ScoreFits(sub'[n], n \in partial'))
    BY DEF ScoreOfMarked, ScoreFits, Adds
  <2>1. CASE n = m
    BY <1>1, <1>2, <2>1 DEF m
  <2>2. CASE n # m
    <3>1. /\ n \in There /\ sub'[n] = sub[n] /\ (n \in hasty' <=> n \in hasty)
          /\ (n \in partial' <=> n \in partial)
      BY <1>2, <2>2 DEF There, m
    <3> QED
      BY <1>1, <3>1 DEF SubInv, ScoreOfMarked, ScoreFits
  <2> QED
    BY <2>1, <2>2
<1>10. SubmissionsIdle'
  BY DEF SubmissionsIdle
<1> QED
  BY <1>3, <1>5, <1>6, <1>7, <1>8, <1>9, <1>10 DEF SubInv

LEMMA StartBeginInv ==
    ASSUME SubInv, topic = "submission", topic' = topic, NEW r \in Slots, StartBegin(r)
    PROVE  SubInv'
<1> DEFINE m == subReq[r].n
<1>1. /\ sub \in [Attempts -> Submission] /\ subReq[r] \in SubmissionRequest
      /\ handed \in [Attempts -> Nat] /\ resets \in [Attempts -> Nat]
      /\ hasty \subseteq Attempts /\ partial \subseteq Attempts
  BY DEF SubInv, SubmissionTypeOK
<1>2. m # 0 /\ m \in Attempts /\ sub[m] \in Submission /\ sub[m].there
  BY <1>1 DEF StartBegin, SubInv, SubmissionRequest, HeldThere
<1> DEFINE doc == [sub[m] EXCEPT !.started = TRUE]
<1>3. /\ doc \in Submission /\ doc.there /\ doc.in = sub[m].in /\ doc.mcq = sub[m].mcq
      /\ doc.grading = sub[m].grading /\ doc.score = sub[m].score /\ doc.essay = sub[m].essay
  BY <1>2 DEF Submission
<1>4. /\ SubDone(r) /\ rivals' = rivals /\ stale \ {r} \subseteq stale'
      /\ handed' = handed /\ resets' = resets /\ hasty' = hasty /\ partial' = partial
      /\ sub' = [sub EXCEPT ![m] = doc]
  BY <1>1 DEF StartBegin, SubHistory, SavePlain
<1>5. /\ kind.quiz => handed[m] <= (IF sub[m].in THEN 1 ELSE 0) + resets[m]
      /\ sub[m].grading = "graded" => kind.essay /\ (m \notin hasty => ScoreFits(sub[m], m \in partial))
  BY <1>2 DEF SubInv, HandedCount, ScoreOfMarked, There
<1> HIDE DEF doc
<1> QED
  BY <1>1, <1>2, <1>3, <1>4, <1>5, SaveInv DEF ScoreFits, Adds

LEMMA HandInInv ==
    ASSUME SubInv, topic = "submission", topic' = topic, NEW r \in Slots, HandIn(r)
    PROVE  SubInv'
<1> DEFINE m == subReq[r].n
<1>1. /\ sub \in [Attempts -> Submission] /\ subReq[r] \in SubmissionRequest
      /\ handed \in [Attempts -> Nat] /\ resets \in [Attempts -> Nat]
      /\ hasty \subseteq Attempts /\ partial \subseteq Attempts
  BY DEF SubInv, SubmissionTypeOK
<1>2. m # 0 /\ m \in Attempts /\ sub[m] \in Submission /\ sub[m].there
  BY <1>1 DEF HandIn, SubInv, SubmissionRequest, HeldThere
<1> DEFINE doc == HandedIn(m, subReq[r].mark)
<1>3. /\ doc \in Submission /\ doc.there /\ doc.in /\ doc.grading # "graded"
  <2>1. NoEssay \in [Questions -> Nat] /\ subReq[r].mark \in Score
    BY <1>1 DEF NoEssay, Questions, SubmissionRequest
  <2>2. kind.essay \in BOOLEAN
    BY DEF SubInv, SubmissionTypeOK, Kind
  <2> QED
    BY <1>2, <2>1, <2>2 DEF HandedIn, Submission
<1>4. /\ SubDone(r) /\ rivals' = rivals /\ resets' = resets /\ hasty' = hasty /\ partial' = partial
      /\ handed' = [handed EXCEPT ![m] = @ + 1]
      /\ sub' = [sub EXCEPT ![m] = doc]
      /\ r \notin stale /\ stale' = (stale \cup Holding(m)) \ {r}
  BY DEF HandIn, SaveReplacing, SaveVersion
<1>5. kind.quiz => handed[m] <= resets[m]
  <2>1. ~sub[m].in
    BY <1>2, <1>4, Zenon DEF HandIn, SubInv, HandInOpen, Doing
  <2>2. kind.quiz => handed[m] <= (IF sub[m].in THEN 1 ELSE 0) + resets[m]
    BY <1>2 DEF SubInv, HandedCount, There
  <2>3. (IF sub[m].in THEN 1 ELSE 0) = 0
    BY <2>1, Zenon
  <2>4. handed[m] \in Nat /\ resets[m] \in Nat
    BY <1>1, <1>2
  <2> QED
    BY <2>2, <2>3, <2>4
<1>6. handed' \in [Attempts -> Nat] /\ handed'[m] = handed[m] + 1
  BY <1>1, <1>2, <1>4
<1>7. kind.quiz => handed'[m] <= 1 + resets'[m]
  BY <1>1, <1>2, <1>4, <1>5, <1>6
<1> HIDE DEF doc
<1> QED
  BY <1>1, <1>2, <1>3, <1>4, <1>6, <1>7, SaveInv

LEMMA GradeSaveInv ==
    ASSUME SubInv, topic = "submission", topic' = topic, NEW r \in Slots, GradeSave(r)
    PROVE  SubInv'
<1> DEFINE m == subReq[r].n
<1>1. /\ sub \in [Attempts -> Submission] /\ subReq[r] \in SubmissionRequest
      /\ handed \in [Attempts -> Nat] /\ resets \in [Attempts -> Nat]
      /\ hasty \subseteq Attempts /\ partial \subseteq Attempts
  BY DEF SubInv, SubmissionTypeOK
<1>2. m # 0 /\ m \in Attempts /\ sub[m] \in Submission /\ sub[m].there
  BY <1>1 DEF GradeSave, SubInv, SubmissionRequest, HeldThere
<1> DEFINE doc == Graded(sub[m], subReq[r])
<1>3. /\ doc \in Submission /\ doc.there /\ doc.in = sub[m].in /\ doc.mcq = sub[m].mcq
      /\ doc.grading = sub[m].grading /\ doc.essay = sub[m].essay
      /\ subReq[r].mark = Undefined => doc.score = sub[m].score
  <2>1. subReq[r].mark \in Score /\ subReq[r].plain \in BOOLEAN
    BY <1>1 DEF SubmissionRequest
  <2> QED
    BY <1>2, <2>1, GradedFields
<1>4. /\ SubDone(r) /\ rivals' = rivals /\ stale \ {r} \subseteq stale'
      /\ handed' = handed /\ resets' = resets /\ partial' = partial
      /\ hasty' = IF subReq[r].mark = Undefined THEN hasty ELSE hasty \cup {m}
      /\ sub' = [sub EXCEPT ![m] = doc]
  BY <1>1, <1>2 DEF GradeSave, SavePlain
<1>5. /\ kind.quiz => handed[m] <= (IF sub[m].in THEN 1 ELSE 0) + resets[m]
      /\ sub[m].grading = "graded" => kind.essay /\ (m \notin hasty => ScoreFits(sub[m], m \in partial))
  BY <1>2 DEF SubInv, HandedCount, ScoreOfMarked, There
<1> HIDE DEF doc
<1>6. CASE subReq[r].mark = Undefined
  BY <1>1, <1>2, <1>3, <1>4, <1>5, <1>6, SaveInv DEF ScoreFits, Adds
<1>7. CASE subReq[r].mark # Undefined
  BY <1>1, <1>2, <1>3, <1>4, <1>5, <1>7, SaveInv
<1> QED
  BY <1>6, <1>7

LEMMA ResetSaveInv ==
    ASSUME SubInv, topic = "submission", topic' = topic, NEW r \in Slots, ResetSave(r)
    PROVE  SubInv'
<1> DEFINE m == subReq[r].n
<1>1. /\ sub \in [Attempts -> Submission] /\ subReq[r] \in SubmissionRequest
      /\ handed \in [Attempts -> Nat] /\ resets \in [Attempts -> Nat]
      /\ hasty \subseteq Attempts /\ partial \subseteq Attempts
  BY DEF SubInv, SubmissionTypeOK
<1>2. m # 0 /\ m \in Attempts /\ sub[m] \in Submission /\ sub[m].there
  BY <1>1 DEF ResetSave, SubInv, SubmissionRequest, HeldThere
<1> DEFINE doc == [sub[m] EXCEPT !.in = FALSE]
<1>3. /\ doc \in Submission /\ doc.there /\ ~doc.in /\ doc.mcq = sub[m].mcq
      /\ doc.grading = sub[m].grading /\ doc.score = sub[m].score /\ doc.essay = sub[m].essay
  BY <1>2 DEF Submission
<1>4. /\ SubDone(r) /\ rivals' = rivals /\ stale \ {r} \subseteq stale'
      /\ handed' = handed /\ resets' = [resets EXCEPT ![m] = @ + 1] /\ hasty' = hasty /\ partial' = partial
      /\ sub' = [sub EXCEPT ![m] = doc]
  BY <1>1 DEF ResetSave, SavePlain, SaveReplacing, SaveVersion
<1>5. /\ kind.quiz => handed[m] <= (IF sub[m].in THEN 1 ELSE 0) + resets[m]
      /\ sub[m].grading = "graded" => kind.essay /\ (m \notin hasty => ScoreFits(sub[m], m \in partial))
  BY <1>2 DEF SubInv, HandedCount, ScoreOfMarked, There
<1>6. resets' \in [Attempts -> Nat] /\ resets'[m] = resets[m] + 1
  BY <1>1, <1>2, <1>4
<1>7. kind.quiz => handed'[m] <= 0 + resets'[m]
  BY <1>1, <1>2, <1>4, <1>5, <1>6
<1> HIDE DEF doc
<1> QED
  BY <1>1, <1>2, <1>3, <1>4, <1>5, <1>6, <1>7, SaveInv DEF ScoreFits, Adds

LEMMA FileSaveInv ==
    ASSUME SubInv, topic = "submission", topic' = topic, NEW r \in Slots, FileSave(r)
    PROVE  SubInv'
<1>1. CASE subReq[r].plain
  BY <1>1, SubmissionTypes, CreateInv DEF FileSave, Unsubmitted, NoSubmission
<1>2. CASE ~subReq[r].plain
  <2> DEFINE m == subReq[r].n
  <2>1. /\ sub \in [Attempts -> Submission] /\ subReq[r] \in SubmissionRequest
        /\ handed \in [Attempts -> Nat] /\ resets \in [Attempts -> Nat]
        /\ hasty \subseteq Attempts /\ partial \subseteq Attempts
    BY DEF SubInv, SubmissionTypeOK
  <2>2. m # 0 /\ m \in Attempts /\ sub[m] \in Submission /\ sub[m].there
    BY <1>2, <2>1 DEF FileSave, SubInv, SubmissionRequest, HeldThere
  <2> DEFINE doc == [sub[m] EXCEPT !.in = TRUE]
  <2>3. /\ doc \in Submission /\ doc.there /\ doc.in /\ doc.mcq = sub[m].mcq
        /\ doc.grading = sub[m].grading /\ doc.score = sub[m].score /\ doc.essay = sub[m].essay
    BY <2>2 DEF Submission
  <2>4. /\ SubDone(r) /\ rivals' = rivals /\ resets' = resets /\ hasty' = hasty /\ partial' = partial
        /\ handed' = [handed EXCEPT ![m] = @ + 1]
        /\ sub' = [sub EXCEPT ![m] = doc]
        /\ stale' = (stale \cup Holding(m)) \ {r}
    BY <1>2, <2>1 DEF FileSave, SaveReplacing, SaveVersion
  <2>5. ~kind.quiz
    BY DEF FileSave, Doing, SubInv, KindsFit
  <2>6. sub[m].grading = "graded" => kind.essay /\ (m \notin hasty => ScoreFits(sub[m], m \in partial))
    BY <2>2 DEF SubInv, ScoreOfMarked, There
  <2>7. handed' \in [Attempts -> Nat]
    BY <2>1, <2>2, <2>4
  <2> HIDE DEF doc
  <2> QED
    BY <2>1, <2>2, <2>3, <2>4, <2>5, <2>6, <2>7, SaveInv DEF ScoreFits, Adds
<1> QED
  BY <1>1, <1>2

LEMMA MarkSaveInv ==
    ASSUME SubInv, topic = "submission", topic' = topic, NEW r \in Slots, MarkSave(r)
    PROVE  SubInv'
<1> DEFINE m == subReq[r].n
           q == subReq[r]
<1>1. /\ sub \in [Attempts -> Submission] /\ q \in SubmissionRequest
      /\ handed \in [Attempts -> Nat] /\ resets \in [Attempts -> Nat]
      /\ hasty \subseteq Attempts /\ partial \subseteq Attempts
  BY DEF SubInv, SubmissionTypeOK
<1>2. m # 0 /\ m \in Attempts /\ sub[m] \in Submission /\ sub[m].there
  BY <1>1 DEF MarkSave, SubInv, SubmissionRequest, HeldThere
<1>3. /\ q.op = "mark" /\ q.total \in Nat /\ q.marks \in [Questions -> Score]
      /\ q.writes \subseteq Questions
  BY <1>1 DEF MarkSave, Doing, SubmissionRequest
<1>4. kind.essay /\ \A i \in q.writes : q.marks[i] # Undefined
  BY <1>3 DEF SubInv, KindsFit
<1> DEFINE essay == [i \in Questions |-> IF i \in q.writes THEN q.marks[i] ELSE sub[m].essay[i]]
           doc == Marked(q)
<1>5. essay \in [Questions -> Nat] /\ sub[m].essay \in [Questions -> Nat] /\ sub[m].mcq \in Score
  <2>1. sub[m].essay \in [Questions -> Nat] /\ sub[m].mcq \in Score
    BY <1>2 DEF Submission
  <2>2. ASSUME NEW i \in Questions
        PROVE  (IF i \in q.writes THEN q.marks[i] ELSE sub[m].essay[i]) \in Nat
    BY <1>3, <1>4, <2>1 DEF Score
  <2> QED
    BY <2>1, <2>2
<1>6. /\ doc \in Submission /\ doc.there /\ doc.in = sub[m].in /\ doc.mcq = sub[m].mcq
      /\ doc.score = q.total /\ doc.essay = essay
  <2>1. doc = [sub[m] EXCEPT !.essay = essay, !.score = q.total, !.grading = "graded"]
    BY DEF Marked
  <2> HIDE DEF essay, q, m, doc
  <2> QED
    BY <1>2, <1>3, <1>5, <2>1 DEF Submission, Score
<1>7. /\ SubDone(r) /\ rivals' = rivals /\ handed' = handed /\ resets' = resets
      /\ sub' = [sub EXCEPT ![m] = doc]
      /\ hasty' = IF Outdated(q, r) THEN hasty \cup {m} ELSE hasty \ {m}
      /\ partial' = IF LeavesOut(q) THEN partial \cup {m} ELSE partial \ {m}
      /\ stale \ {r} \subseteq stale'
  <2>1. SubDone(r) /\ rivals' = rivals /\ handed' = handed /\ resets' = resets
    BY DEF MarkSave
  <2>2. /\ sub' = [sub EXCEPT ![m] = doc]
        /\ hasty' = IF Outdated(q, r) THEN hasty \cup {m} ELSE hasty \ {m}
        /\ partial' = IF LeavesOut(q) THEN partial \cup {m} ELSE partial \ {m}
    BY DEF MarkSave
  <2>3. SavePlain(r) \/ SaveInPlace(r)
    BY Zenon DEF MarkSave
  <2>4. stale \ {r} \subseteq stale'
    BY <2>3 DEF SavePlain, SaveInPlace
  <2> QED
    BY <2>1, <2>2, <2>4
<1>8. ASSUME m \notin hasty'
      PROVE  ScoreFits(doc, m \in partial')
  <2>1. ~Outdated(q, r)
    BY <1>7, <1>8
  <2>2. r \notin stale /\ (q.plain => sub[m].mcq # Undefined)
    <3>1. CASE q.plain
      BY <2>1, <3>1, Zenon DEF Outdated
    <3>2. CASE ~q.plain
      <4>1. SaveInPlace(r)
        BY <3>2, Zenon DEF MarkSave
      <4> QED
        BY <3>2, <4>1, Zenon DEF SaveInPlace
    <3> QED
      BY <3>1, <3>2
  <2>3. q.total = Points(m) + AllGiven(q.marks) /\ (~q.plain => sub[m].mcq # Undefined)
    BY <1>2, <1>3, <2>2 DEF SubInv, MarkCurrent, WellMarked
  <2>4. Points(m) = sub[m].mcq
    BY <2>2, <2>3, Zenon DEF Points
  <2>5. \A i \in Questions : q.marks[i] # Undefined => q.marks[i] = essay[i]
    BY <1>6, <2>1 DEF Outdated
  <2>6. \A i \in Questions : Given(q.marks, i) <= essay[i]
    BY <1>3, <1>5, <2>5 DEF Given, Score
  <2>7. ASSUME m \notin partial', NEW i \in Questions
        PROVE  Given(q.marks, i) = essay[i]
    <3>1. ~LeavesOut(q)
      BY <1>7, <2>7
    <3>2. CASE q.marks[i] # Undefined
      BY <2>5, <3>2 DEF Given
    <3>3. CASE q.marks[i] = Undefined
      <4>1. sub[m].essay[i] = 0
        BY <3>1, <3>3 DEF LeavesOut
      <4>2. essay[i] = sub[m].essay[i]
        BY <1>4, <3>3
      <4> QED
        BY <3>3, <4>1, <4>2 DEF Given
    <3> QED
      BY <3>2, <3>3
  <2>8. 1 \in Questions /\ 2 \in Questions
    BY DEF Questions
  <2> HIDE DEF essay, doc
  <2>9. /\ essay[1] \in Nat /\ essay[2] \in Nat /\ Given(q.marks, 1) \in Nat
        /\ Given(q.marks, 2) \in Nat /\ sub[m].mcq \in Int
    BY <1>3, <1>5, <2>8, GivenType DEF Score, Undefined
  <2>10. /\ doc.score = sub[m].mcq + (Given(q.marks, 1) + Given(q.marks, 2))
         /\ Adds(doc) = sub[m].mcq + essay[1] + essay[2]
    BY <1>6, <2>3, <2>4 DEF Adds, AllGiven
  <2>11. doc.score <= Adds(doc)
    BY <2>6, <2>8, <2>9, <2>10
  <2>12. m \notin partial' => doc.score = Adds(doc)
    BY <2>7, <2>8, <2>9, <2>10
  <2> QED
    BY <2>11, <2>12 DEF ScoreFits
<1>9. kind.quiz => handed[m] <= (IF sub[m].in THEN 1 ELSE 0) + resets[m]
  BY <1>2 DEF SubInv, HandedCount, There
<1>10. /\ hasty' \subseteq Attempts /\ partial' \subseteq Attempts
       /\ \A n \in Attempts \ {m} :
              (n \in hasty' <=> n \in hasty) /\ (n \in partial' <=> n \in partial)
  BY <1>1, <1>2, <1>7
<1> HIDE DEF doc, essay
<1> QED
  BY <1>1, <1>2, <1>4, <1>6, <1>7, <1>8, <1>9, <1>10, SaveInv

LEMMA DeleteSaveInv ==
    ASSUME SubInv, topic = "submission", topic' = topic, NEW r \in Slots, DeleteSave(r)
    PROVE  SubInv'
<1> DEFINE m == subReq[r].n
           Dropped(x) == IF x = r THEN NoSubRequest
                         ELSE IF subReq[x].n = m THEN [subReq[x] EXCEPT !.n = 0]
                         ELSE subReq[x]
<1>1. /\ sub \in [Attempts -> Submission] /\ subReq \in [Slots -> SubmissionRequest]
      /\ \A x \in Slots : subReq[x] \in SubmissionRequest
  BY DEF SubInv, SubmissionTypeOK
<1>2. m # 0 /\ m \in Attempts
  BY <1>1 DEF DeleteSave, SubmissionRequest
<1>3. \A x \in Slots : /\ Dropped(x) \in SubmissionRequest
                       /\ Dropped(x).n # m
                       /\ Dropped(x) = subReq[x] \/ Dropped(x).n = 0
                       /\ Dropped(x).op \in {subReq[x].op, "none"}
                       /\ (Dropped(x).op # "none" =>
                              /\ Dropped(x).writes = subReq[x].writes
                              /\ Dropped(x).marks = subReq[x].marks)
  BY <1>1, <1>2, RequestTypes DEF SubmissionRequest
<1>4. /\ sub' = [sub EXCEPT ![m] = NoSubmission]
      /\ subReq' = [x \in Slots |-> Dropped(x)]
      /\ stale' = stale \ {r} /\ kind' = kind /\ rivals' = rivals
      /\ handed' = handed /\ resets' = resets /\ hasty' = hasty /\ partial' = partial
  BY DEF DeleteSave, SubHistory
<1>5. subReq'[r] = NoSubRequest
  BY <1>4
<1> HIDE DEF Dropped, m
<1>6. SubmissionTypeOK'
  BY <1>1, <1>2, <1>3, <1>4, SubmissionTypes DEF SubInv, SubmissionTypeOK
<1>7. /\ \A n \in Attempts \ {m} : sub'[n] = sub[n]
      /\ sub'[m] = NoSubmission /\ ~NoSubmission.there
      /\ \A x \in Slots : subReq'[x] = Dropped(x)
  BY <1>1, <1>2, <1>4 DEF NoSubmission
<1>8. \A x \in Slots : Dropped(x).n # 0 => Dropped(x).n \in Attempts \ {m} /\ Dropped(x) = subReq[x]
  BY <1>1, <1>3 DEF SubmissionRequest
<1>9. HeldThere' /\ KindsFit'
  BY <1>3, <1>4, <1>7, <1>8 DEF SubInv, HeldThere, KindsFit
<1>10. HandInOpen'
  BY <1>4, <1>5, <1>7, <1>8, RequestTypes DEF SubInv, HandInOpen
<1>11. MarkCurrent'
  <2>1. ASSUME NEW x \in Slots, x \notin stale', subReq'[x].op = "mark", subReq'[x].n # 0
        PROVE  WellMarked(subReq[x])'
    <3>1. x # r /\ x \notin stale
      BY <1>4, <1>5, <2>1, RequestTypes
    <3>2. subReq'[x] = subReq[x] /\ sub'[subReq[x].n] = sub[subReq[x].n]
      BY <1>7, <1>8, <2>1
    <3>3. WellMarked(subReq[x])
      BY <3>1 DEF SubInv, MarkCurrent
    <3> QED
      BY <3>2, <3>3 DEF WellMarked, Points
  <2> QED
    BY <2>1 DEF MarkCurrent, WellMarked
<1>12. HandedCount' /\ ScoreOfMarked' /\ SubmissionsIdle'
  BY <1>4, <1>7 DEF SubInv, HandedCount, ScoreOfMarked, SubmissionsIdle, There
<1> QED
  BY <1>6, <1>9, <1>10, <1>11, <1>12 DEF SubInv

(***************************************************************************)
(* Every step, and the theorems.                                           *)
(***************************************************************************)
LEMMA SubStepInv ==
    ASSUME SubInv, topic = "submission", topic' = topic, SubmissionStep
    PROVE  SubInv'
<1>1. PICK r \in Slots :
        \/ StartReceive(r) \/ StartBegin(r) \/ StartUpsert(r) \/ StartCount(r) \/ StartCreate(r)
        \/ \E mark \in Marks : HandInReceive(r, mark) \/ GradeReceive(r, mark, FALSE)
        \/ \E note \in BOOLEAN : GradeReceive(r, Undefined, note)
        \/ \E marks \in Markings : MarkReceive(r, marks)
        \/ HandIn(r) \/ FileReceive(r) \/ FileSave(r)
        \/ GradeSave(r) \/ GradeCreate(r) \/ MarkSave(r)
        \/ DeleteReceive(r) \/ ResetSave(r) \/ DeleteSave(r) \/ SubmissionFails(r)
  BY Zenon DEF SubmissionStep
<1>2. CASE StartReceive(r) \/ StartCount(r)
  BY <1>2, StartReceiveInv
<1>3. CASE \E mark \in Marks : HandInReceive(r, mark) \/ GradeReceive(r, mark, FALSE)
  <2>1. Marks \subseteq Score
    BY SubmissionAssumption DEF Score
  <2> QED
    BY <1>3, <2>1, HandInReceiveInv, GradeReceiveInv
<1>8. CASE \E note \in BOOLEAN : GradeReceive(r, Undefined, note)
  <2>1. Undefined \in Score
    BY DEF Score
  <2> QED
    BY <1>8, <2>1, GradeReceiveInv
<1>9. CASE \E marks \in Markings : MarkReceive(r, marks)
  BY <1>9, MarkReceiveInv
<1>4. CASE FileReceive(r) \/ DeleteReceive(r)
  BY <1>4, FileReceiveInv, DeleteReceiveInv
<1>5. CASE StartUpsert(r) \/ StartCreate(r) \/ GradeCreate(r)
  BY <1>5, CreatesInv
<1>6. CASE StartBegin(r) \/ HandIn(r) \/ FileSave(r) \/ GradeSave(r)
  BY <1>6, StartBeginInv, HandInInv, FileSaveInv, GradeSaveInv
<1>7. CASE MarkSave(r) \/ ResetSave(r) \/ DeleteSave(r) \/ SubmissionFails(r)
  BY <1>7, MarkSaveInv, ResetSaveInv, DeleteSaveInv, SubmissionFailsInv
<1> QED
  BY <1>1, <1>2, <1>3, <1>4, <1>5, <1>6, <1>7, <1>8, <1>9, Zenon

LEMMA SubNextInv == SubInv /\ [Next]_vars => SubInv'
<1> SUFFICES ASSUME SubInv, [Next]_vars PROVE SubInv'
  OBVIOUS
<1>1. CASE ChangeSubmission
  BY <1>1, SubStepInv DEF ChangeSubmission
<1>2. ASSUME UNCHANGED submissionVars, topic' = topic,
             topic = "submission" => stale' = stale
      PROVE  SubInv'
  <2>1. SubmissionTypeOK' /\ HeldThere' /\ KindsFit' /\ HandedCount' /\ ScoreOfMarked' /\ SubmissionsIdle'
    BY <1>2 DEF SubInv, submissionVars, SubmissionTypeOK, HeldThere, KindsFit, HandedCount,
       ScoreOfMarked, SubmissionsIdle, There
  <2>2. CASE topic = "submission"
    BY <1>2, <2>1, <2>2 DEF SubInv, submissionVars, HandInOpen, MarkCurrent, WellMarked, Points
  <2>3. CASE topic # "submission"
    <3>1. \A r \in Slots : subReq'[r] = NoSubRequest
      BY <1>2, <2>3 DEF SubInv, SubmissionsIdle, submissionVars
    <3> QED
      BY <2>1, <3>1, RequestTypes DEF SubInv, HandInOpen, MarkCurrent, WellMarked
  <2> QED
    BY <2>2, <2>3
<1>3. CASE ChangeRoom \/ ChangePoll \/ ChangeChat
  BY <1>2, <1>3 DEF ChangeRoom, ChangePoll, ChangeChat
<1>4. CASE Rest \/ UNCHANGED vars
  BY <1>2, <1>4 DEF Rest, vars, documentVars
<1> QED
  BY <1>1, <1>3, <1>4 DEF Next

(* Each behaviour keeps the invariant of the submissions. *)
THEOREM SubmissionInvariantHolds == Spec => []SubInv
<1> QED
  BY SubInitInv, SubNextInv, PTL DEF Spec

(* An attempt at a quiz is handed in once for each time it was open,       *)
(* although several hand-ins may have found it open (submitQuiz).          *)
THEOREM HandedInOnceAlways == Spec => []HandedInOnce
<1>1. SubInv => HandedInOnce
  <2> SUFFICES ASSUME SubInv, kind.quiz, NEW n \in There
               PROVE  handed[n] <= 1 + resets[n]
    BY DEF HandedInOnce
  <2>1. handed[n] \in Nat /\ resets[n] \in Nat
    BY DEF SubInv, SubmissionTypeOK, There
  <2>2. handed[n] <= (IF sub[n].in THEN 1 ELSE 0) + resets[n]
    BY DEF SubInv, HandedCount
  <2> QED
    BY <2>1, <2>2
<1> QED
  BY <1>1, SubmissionInvariantHolds, PTL

(* The score of a marked quiz is never more than the points of the answers *)
(* handed in and the marks of its essays, and no less when the last marks  *)
(* left no marked essay out (gradeEssayQuestion), but for hasty marks and  *)
(* whole scores.                                                           *)
THEOREM ScoreIsSumAlways == Spec => []ScoreIsSum
<1>1. SubInv => ScoreIsSum
  BY DEF SubInv, ScoreOfMarked, ScoreFits, Adds, ScoreIsSum, IsMarked, Total, There
<1> QED
  BY <1>1, SubmissionInvariantHolds, PTL

(***************************************************************************)
(* The attempts that are open. Where several are allowed, each request     *)
(* that is making one counts as if it had made it.                         *)
(***************************************************************************)
FreshlyOpen == {n \in Open : resets[n] = 0}

OnlyFirst ==
    ~kind.many =>
        /\ There \subseteq {1}
        /\ \A r \in Slots : subReq[r].op \notin {"count", "create"}

OpenCounted ==
    (kind.quiz /\ kind.many) =>
        /\ \A r \in Slots : subReq[r].op # "upsert"
        /\ IsFiniteSet(Creating)
        /\ Cardinality(FreshlyOpen) + Cardinality(Creating) <= 1 + rivals

AttemptsInv == OnlyFirst /\ OpenCounted

LEMMA AttemptsFinite ==
    ASSUME SubmissionTypeOK
    PROVE  /\ IsFiniteSet(There) /\ IsFiniteSet(Open) /\ IsFiniteSet(FreshlyOpen)
           /\ Cardinality(FreshlyOpen) \in Nat
<1>1. IsFiniteSet(Attempts)
  <2>1. 1 \in Int /\ MaxAttempts \in Int
    BY SubmissionAssumption
  <2> QED
    BY <2>1, FS_Interval DEF Attempts
<1>2. There \subseteq Attempts /\ Open \subseteq Attempts /\ FreshlyOpen \subseteq Attempts
  BY DEF There, Open, FreshlyOpen
<1> QED
  BY <1>1, <1>2, FS_Subset, FS_CardinalityType

(* What a step may do to the attempts without opening one. *)
LEMMA NoneOpened ==
    ASSUME SubInv, SubInv', AttemptsInv, kind' = kind, rivals' >= rivals,
           \A n \in Attempts : sub'[n].there =>
               /\ sub[n].there
               /\ ~sub'[n].in /\ resets'[n] = 0 => ~sub[n].in /\ resets[n] = 0,
           \A x \in Slots : subReq'[x].op \in {"count", "create", "upsert", "gradeNew"} =>
               \/ subReq'[x].op = subReq[x].op
               \/ subReq'[x].op = "create" /\ subReq[x].op = "count"
               \/ subReq'[x].op = "upsert" /\ ~kind.many
    PROVE  AttemptsInv'
<1>1. There' \subseteq There
  BY DEF There
<1>2. FreshlyOpen' \subseteq FreshlyOpen
  BY DEF FreshlyOpen, Open, There
<1>3. Creating' \subseteq Creating
  BY DEF Creating
<1>4. OnlyFirst'
  BY <1>1 DEF AttemptsInv, OnlyFirst
<1>5. ASSUME kind.quiz, kind.many
      PROVE  /\ \A r \in Slots : subReq'[r].op # "upsert"
             /\ IsFiniteSet(Creating')
             /\ Cardinality(FreshlyOpen') + Cardinality(Creating') <= 1 + rivals'
  <2>1. /\ \A r \in Slots : subReq[r].op # "upsert"
        /\ IsFiniteSet(Creating)
        /\ Cardinality(FreshlyOpen) + Cardinality(Creating) <= 1 + rivals
    BY <1>5 DEF AttemptsInv, OpenCounted
  <2>2. /\ IsFiniteSet(Creating') /\ Cardinality(Creating') <= Cardinality(Creating)
        /\ Cardinality(Creating') \in Nat /\ Cardinality(Creating) \in Nat
    BY <1>3, <2>1, FS_Subset, FS_CardinalityType
  <2>3. /\ Cardinality(FreshlyOpen') <= Cardinality(FreshlyOpen)
        /\ Cardinality(FreshlyOpen') \in Nat /\ Cardinality(FreshlyOpen) \in Nat
    BY <1>2, AttemptsFinite, FS_Subset, FS_CardinalityType DEF SubInv
  <2>4. rivals \in Nat /\ rivals' \in Nat
    BY DEF SubInv, SubmissionTypeOK
  <2>5. Cardinality(FreshlyOpen') + Cardinality(Creating') <= 1 + rivals'
    BY <2>1, <2>2, <2>3, <2>4
  <2>6. \A r \in Slots : subReq'[r].op # "upsert"
    BY <1>5, <2>1
  <2> QED
    BY <2>2, <2>5, <2>6
<1>6. OpenCounted'
  BY <1>5 DEF OpenCounted
<1> QED
  BY <1>4, <1>6 DEF AttemptsInv

(* A request that will make an attempt found none open: it is the only one *)
(* to do so, or a rival.                                                   *)
LEMMA MakerReceived ==
    ASSUME SubInv, SubInv', AttemptsInv, NEW r \in Slots,
           NEW op \in {"count", "gradeNew"}, op = "count" => kind.many,
           subReq[r] = NoSubRequest,
           subReq'[r].op = op, \A x \in Slots \ {r} : subReq'[x] = subReq[x],
           UNCHANGED <<kind, sub, resets>>, Open = {},
           rivals' = IF Creating # {} THEN rivals + 1 ELSE rivals
    PROVE  AttemptsInv'
<1>1. There' = There /\ Open' = {} /\ FreshlyOpen' = {} /\ FreshlyOpen = {}
  BY DEF There, Open, FreshlyOpen
<1>2. Creating' = Creating \cup {r} /\ r \notin Creating
  BY RequestTypes DEF Creating
<1>3. OnlyFirst'
  BY <1>1 DEF AttemptsInv, OnlyFirst
<1>4. ASSUME kind.quiz, kind.many
      PROVE  /\ \A x \in Slots : subReq'[x].op # "upsert"
             /\ IsFiniteSet(Creating')
             /\ Cardinality(FreshlyOpen') + Cardinality(Creating') <= 1 + rivals'
  <2>1. /\ \A x \in Slots : subReq[x].op # "upsert"
        /\ IsFiniteSet(Creating)
        /\ Cardinality(FreshlyOpen) + Cardinality(Creating) <= 1 + rivals
    BY <1>4 DEF AttemptsInv, OpenCounted
  <2>2. /\ IsFiniteSet(Creating') /\ Cardinality(Creating') = Cardinality(Creating) + 1
        /\ Cardinality(Creating) \in Nat
    BY <1>2, <2>1, FS_AddElement, FS_CardinalityType
  <2>3. Cardinality(FreshlyOpen') = 0 /\ Cardinality(FreshlyOpen) = 0
    BY <1>1, FS_EmptySet
  <2>4. rivals \in Nat
    BY DEF SubInv, SubmissionTypeOK
  <2>5. Cardinality(FreshlyOpen') + Cardinality(Creating') <= 1 + rivals'
    <3>1. CASE Creating = {}
      <4>1. Cardinality(Creating) = 0
        BY <3>1, FS_EmptySet
      <4> QED
        BY <2>2, <2>3, <2>4, <3>1, <4>1
    <3>2. CASE Creating # {}
      BY <2>1, <2>2, <2>3, <2>4, <3>2
    <3> QED
      BY <3>1, <3>2
  <2>6. \A x \in Slots : subReq'[x].op # "upsert"
    BY <2>1
  <2> QED
    BY <2>2, <2>5, <2>6
<1>5. OpenCounted'
  BY <1>4 DEF OpenCounted
<1> QED
  BY <1>3, <1>5 DEF AttemptsInv

(* The attempt is made. *)
LEMMA AttemptMade ==
    ASSUME SubInv, SubInv', AttemptsInv, NEW r \in Slots, SubDone(r), rivals' = rivals,
           NEW n, NEW doc, Create(n, doc), ~kind.many => n = 1,
           subReq[r].op \in {"create", "gradeNew", "upsert", "file"}
    PROVE  AttemptsInv'
<1>1. /\ n \in Attempts /\ ~sub[n].there
      /\ sub' = [sub EXCEPT ![n] = doc] /\ resets' = [resets EXCEPT ![n] = 0]
      /\ kind' = kind /\ subReq' = [subReq EXCEPT ![r] = NoSubRequest]
  BY DEF Create, There, SubDone, SubTurn
<1>2. /\ subReq'[r].op = "none" /\ \A x \in Slots \ {r} : subReq'[x] = subReq[x]
      /\ \A k \in Attempts \ {n} : sub'[k] = sub[k] /\ resets'[k] = resets[k]
  BY <1>1, RequestTypes DEF SubInv, SubmissionTypeOK
<1>3. There' \subseteq There \cup {n}
  BY <1>1, <1>2 DEF There
<1>4. FreshlyOpen' \subseteq FreshlyOpen \cup {n}
  BY <1>1, <1>2 DEF FreshlyOpen, Open, There
<1>5. Creating' = Creating \ {r}
  BY <1>2 DEF Creating
<1>6. OnlyFirst'
  BY <1>1, <1>2, <1>3 DEF AttemptsInv, OnlyFirst
<1>7. ASSUME kind.quiz, kind.many
      PROVE  /\ \A x \in Slots : subReq'[x].op # "upsert"
             /\ IsFiniteSet(Creating')
             /\ Cardinality(FreshlyOpen') + Cardinality(Creating') <= 1 + rivals'
  <2>1. /\ \A x \in Slots : subReq[x].op # "upsert"
        /\ IsFiniteSet(Creating)
        /\ Cardinality(FreshlyOpen) + Cardinality(Creating) <= 1 + rivals
    BY <1>7 DEF AttemptsInv, OpenCounted
  <2>2. r \in Creating
    BY <1>7, <2>1 DEF Creating, SubInv, KindsFit
  <2>3. /\ IsFiniteSet(Creating') /\ Cardinality(Creating') = Cardinality(Creating) - 1
        /\ Cardinality(Creating) \in Nat
    BY <1>5, <2>1, <2>2, FS_RemoveElement, FS_CardinalityType
  <2>4. /\ Cardinality(FreshlyOpen') <= Cardinality(FreshlyOpen) + 1
        /\ Cardinality(FreshlyOpen') \in Nat /\ Cardinality(FreshlyOpen) \in Nat
    <3>1. IsFiniteSet(FreshlyOpen) /\ Cardinality(FreshlyOpen) \in Nat
      BY AttemptsFinite DEF SubInv
    <3>2. /\ IsFiniteSet(FreshlyOpen \cup {n})
          /\ Cardinality(FreshlyOpen \cup {n}) <= Cardinality(FreshlyOpen) + 1
          /\ Cardinality(FreshlyOpen \cup {n}) \in Nat
      <4>1. /\ IsFiniteSet(FreshlyOpen \cup {n})
            /\ \/ Cardinality(FreshlyOpen \cup {n}) = Cardinality(FreshlyOpen)
               \/ Cardinality(FreshlyOpen \cup {n}) = Cardinality(FreshlyOpen) + 1
        BY <3>1, FS_AddElement, Zenon
      <4> QED
        BY <3>1, <4>1
    <3>3. /\ Cardinality(FreshlyOpen') <= Cardinality(FreshlyOpen \cup {n})
          /\ Cardinality(FreshlyOpen') \in Nat
      BY <1>4, <3>2, FS_Subset, FS_CardinalityType
    <3> QED
      BY <3>1, <3>2, <3>3
  <2>5. rivals \in Nat
    BY DEF SubInv, SubmissionTypeOK
  <2>6. Cardinality(FreshlyOpen') + Cardinality(Creating') <= 1 + rivals'
    BY <2>1, <2>3, <2>4, <2>5
  <2>7. \A x \in Slots : subReq'[x].op # "upsert"
    BY <1>2, <2>1
  <2> QED
    BY <2>3, <2>6, <2>7
<1>8. OpenCounted'
  BY <1>1, <1>7 DEF OpenCounted
<1> QED
  BY <1>6, <1>8 DEF AttemptsInv

LEMMA TurnCounted ==
    ASSUME SubInv, SubInv', AttemptsInv, NEW r \in Slots, NEW q, SubTurn(r, q),
           UNCHANGED <<kind, sub, resets>>, rivals' >= rivals,
           \/ q.op \notin {"count", "create", "upsert", "gradeNew"}
           \/ q.op = "create" /\ Doing(r, "count")
           \/ q.op = "upsert" /\ ~kind.many
    PROVE  AttemptsInv'
<1>1. subReq'[r] = q /\ \A x \in Slots \ {r} : subReq'[x] = subReq[x]
  BY DEF SubInv, SubmissionTypeOK, SubTurn
<1>2. \A x \in Slots : subReq'[x].op \in {"count", "create", "upsert", "gradeNew"} =>
               \/ subReq'[x].op = subReq[x].op
               \/ subReq'[x].op = "create" /\ subReq[x].op = "count"
               \/ subReq'[x].op = "upsert" /\ ~kind.many
  BY <1>1 DEF Doing
<1> QED
  BY <1>2, NoneOpened

LEMMA SaveCounted ==
    ASSUME SubInv, SubInv', AttemptsInv, NEW r \in Slots, SubDone(r), rivals' = rivals,
           subReq[r].n # 0, NEW doc, sub' = [sub EXCEPT ![subReq[r].n] = doc],
           \/ resets' = resets /\ (doc.in \/ ~sub[subReq[r].n].in)
           \/ resets' = [resets EXCEPT ![subReq[r].n] = @ + 1]
    PROVE  AttemptsInv'
<1> DEFINE m == subReq[r].n
<1>1. /\ kind' = kind /\ rivals' >= rivals
      /\ subReq'[r].op = "none" /\ \A x \in Slots \ {r} : subReq'[x] = subReq[x]
  BY RequestTypes DEF SubInv, SubmissionTypeOK, SubDone, SubTurn
<1>2. m \in Attempts /\ sub[m].there
  BY DEF SubInv, SubmissionTypeOK, SubmissionRequest, HeldThere
<1>3. /\ sub'[m] = doc /\ \A n \in Attempts \ {m} : sub'[n] = sub[n]
      /\ \A n \in Attempts \ {m} : resets'[n] = resets[n]
      /\ \/ resets'[m] = resets[m] /\ (doc.in \/ ~sub[m].in)
         \/ resets'[m] = resets[m] + 1
      /\ resets[m] \in Nat
  BY <1>2 DEF SubInv, SubmissionTypeOK
<1> HIDE DEF m
<1>4. \A n \in Attempts : sub'[n].there =>
               /\ sub[n].there
               /\ ~sub'[n].in /\ resets'[n] = 0 => ~sub[n].in /\ resets[n] = 0
  BY <1>2, <1>3
<1>5. \A x \in Slots : subReq'[x].op \in {"count", "create", "upsert", "gradeNew"} =>
               \/ subReq'[x].op = subReq[x].op
               \/ subReq'[x].op = "create" /\ subReq[x].op = "count"
               \/ subReq'[x].op = "upsert" /\ ~kind.many
  BY <1>1
<1> QED
  BY <1>1, <1>4, <1>5, NoneOpened

LEMMA StartReceiveCounted ==
    ASSUME SubInv, SubInv', AttemptsInv, NEW r \in Slots, StartReceive(r)
    PROVE  AttemptsInv'
<1>1. /\ UNCHANGED <<kind, sub, resets>> /\ rivals \in Nat
      /\ rivals' = IF Open = {} /\ Creating # {} THEN rivals + 1 ELSE rivals
  BY Zenon DEF StartReceive, SubInv, SubmissionTypeOK
<1>2. rivals' >= rivals
  BY <1>1
<1>3. CASE Open # {} /\ ~sub[First(Open)].started
  <2> DEFINE q == [NoSubRequest EXCEPT !.op = "begin", !.n = First(Open)]
  <2>1. SubTurn(r, q) /\ q.op = "begin"
    BY <1>3 DEF StartReceive, SubReceive, NoSubRequest
  <2> QED
    BY <1>1, <1>2, <2>1, TurnCounted
<1>4. CASE Open = {} /\ kind.many
  <2> DEFINE q == [NoSubRequest EXCEPT !.op = "count"]
  <2>1. SubTurn(r, q) /\ q.op = "count" /\ subReq[r] = NoSubRequest
    BY <1>4 DEF StartReceive, SubReceive, NoSubRequest
  <2> HIDE DEF q
  <2>2. subReq'[r] = q /\ \A x \in Slots \ {r} : subReq'[x] = subReq[x]
    BY <2>1 DEF SubInv, SubmissionTypeOK, SubTurn
  <2>3. rivals' = IF Creating # {} THEN rivals + 1 ELSE rivals
    BY <1>1, <1>4
  <2> QED
    BY <1>1, <1>4, <2>1, <2>2, <2>3, MakerReceived
<1>5. CASE Open = {} /\ ~kind.many
  <2> DEFINE q == [NoSubRequest EXCEPT !.op = "upsert"]
  <2>1. SubTurn(r, q) /\ q.op = "upsert"
    BY <1>5 DEF StartReceive, SubReceive, NoSubRequest
  <2> QED
    BY <1>1, <1>2, <1>5, <2>1, TurnCounted
<1> QED
  BY <1>3, <1>4, <1>5, Zenon DEF StartReceive

LEMMA GradeReceiveCounted ==
    ASSUME SubInv, SubInv', AttemptsInv, NEW r \in Slots, NEW mark, NEW note,
           GradeReceive(r, mark, note)
    PROVE  AttemptsInv'
<1>1. UNCHANGED <<kind, sub, resets>> /\ rivals \in Nat
  BY Zenon DEF GradeReceive, SubInv, SubmissionTypeOK
<1>2. ASSUME NEW n \in There, rivals' = rivals,
             SubReceive(r, [NoSubRequest EXCEPT !.op = "grade", !.n = n,
                                                !.mark = mark, !.plain = note])
      PROVE  AttemptsInv'
  <2> DEFINE q == [NoSubRequest EXCEPT !.op = "grade", !.n = n, !.mark = mark, !.plain = note]
  <2>1. SubTurn(r, q) /\ q.op = "grade" /\ rivals' >= rivals
    BY <1>1, <1>2 DEF SubReceive, NoSubRequest
  <2> QED
    BY <1>1, <2>1, TurnCounted
<1>3. ASSUME There = {}, rivals' = IF Creating # {} THEN rivals + 1 ELSE rivals,
             SubReceive(r, [NoSubRequest EXCEPT !.op = "gradeNew", !.mark = mark, !.plain = note])
      PROVE  AttemptsInv'
  <2> DEFINE q == [NoSubRequest EXCEPT !.op = "gradeNew", !.mark = mark, !.plain = note]
  <2>1. SubTurn(r, q) /\ q.op = "gradeNew" /\ subReq[r] = NoSubRequest
    BY <1>3 DEF SubReceive, NoSubRequest
  <2> HIDE DEF q
  <2>2. subReq'[r] = q /\ \A x \in Slots \ {r} : subReq'[x] = subReq[x]
    BY <2>1 DEF SubInv, SubmissionTypeOK, SubTurn
  <2>3. Open = {}
    BY <1>3 DEF Open
  <2> QED
    BY <1>1, <1>3, <2>1, <2>2, <2>3, MakerReceived
<1> QED
  BY <1>2, <1>3, Zenon DEF GradeReceive

(* The other requests that are received. *)
LEMMA ReceivedCounted ==
    ASSUME SubInv, SubInv', AttemptsInv, NEW r \in Slots,
           \/ FileReceive(r) \/ DeleteReceive(r) \/ StartCount(r)
           \/ \E mark \in Marks : HandInReceive(r, mark)
           \/ \E marks \in Markings : MarkReceive(r, marks)
    PROVE  AttemptsInv'
<1>1. UNCHANGED <<kind, sub, resets>> /\ rivals' = rivals /\ rivals \in Nat
  <2>1. UNCHANGED <<kind, sub, SubHistory>>
    BY Zenon DEF FileReceive, DeleteReceive, StartCount, HandInReceive, MarkReceive
  <2> QED
    BY <2>1 DEF SubHistory, SubInv, SubmissionTypeOK
<1>2. rivals' >= rivals
  BY <1>1
<1>3. CASE StartCount(r)
  <2> DEFINE q == [NoSubRequest EXCEPT !.op = "create", !.mark = Cardinality(There) + 1]
  <2>1. SubTurn(r, q) /\ q.op = "create" /\ Doing(r, "count")
    BY <1>3 DEF StartCount, NoSubRequest
  <2> QED
    BY <1>1, <1>2, <2>1, TurnCounted
<1>4. CASE FileReceive(r)
  <2> DEFINE q == [NoSubRequest EXCEPT !.op = "file", !.n = IF There = {} THEN 0 ELSE First(There),
                                       !.plain = There = {}]
  <2>1. SubTurn(r, q) /\ q.op = "file"
    BY <1>4 DEF FileReceive, SubReceive, NoSubRequest
  <2> QED
    BY <1>1, <1>2, <2>1, TurnCounted
<1>5. CASE DeleteReceive(r)
  <2> DEFINE n == First(There)
             q == [NoSubRequest EXCEPT !.n = n,
                      !.op = IF sub[n].score # Undefined \/ sub[n].noted THEN "reset"
                             ELSE "delete",
                      !.plain = kind.quiz]
  <2>1. SubTurn(r, q) /\ q.op \in {"reset", "delete"}
    BY <1>5 DEF DeleteReceive, SubReceive, NoSubRequest
  <2> QED
    BY <1>1, <1>2, <2>1, TurnCounted
<1>6. ASSUME NEW mark \in Marks, HandInReceive(r, mark)
      PROVE  AttemptsInv'
  <2> DEFINE q == [NoSubRequest EXCEPT !.op = "handIn", !.n = First(Open), !.mark = mark]
  <2>1. SubTurn(r, q)
    BY <1>6 DEF HandInReceive, SubReceive
  <2>2. q.op = "handIn"
    BY DEF NoSubRequest
  <2> HIDE DEF q
  <2> QED
    BY <1>1, <1>2, <2>1, <2>2, TurnCounted
<1>7. ASSUME NEW marks \in Markings, MarkReceive(r, marks)
      PROVE  AttemptsInv'
  <2> DEFINE n == First(There)
             q == Marking(n, marks, Points(n) + Given(marks, 1) + Given(marks, 2))
  <2>1. SubTurn(r, q)
    BY <1>7 DEF MarkReceive, SubReceive, Points
  <2>2. q.op = "mark"
    BY DEF Marking, NoSubRequest
  <2> HIDE DEF q
  <2> QED
    BY <1>1, <1>2, <2>1, <2>2, TurnCounted
<1> QED
  BY <1>3, <1>4, <1>5, <1>6, <1>7

LEMMA CreatedCounted ==
    ASSUME SubInv, SubInv', AttemptsInv, NEW r \in Slots,
           StartUpsert(r) \/ StartCreate(r) \/ GradeCreate(r)
    PROVE  AttemptsInv'
<1>1. CASE StartUpsert(r)
  <2>1. CASE There = {}
    BY <1>1, <2>1, AttemptMade DEF StartUpsert, Doing
  <2>2. CASE There # {}
    <3>1. /\ SubTurn(r, NoSubRequest) /\ UNCHANGED <<kind, sub, resets>> /\ rivals' = rivals
          /\ rivals \in Nat
      BY <1>1, <2>2 DEF StartUpsert, SubDone, SubInv, SubmissionTypeOK
    <3>2. rivals' >= rivals
      BY <3>1
    <3> QED
      BY <3>1, <3>2, RequestTypes, TurnCounted
  <2> QED
    BY <2>1, <2>2
<1>2. CASE StartCreate(r)
  <2>1. kind.many
    BY <1>2 DEF StartCreate, Doing, AttemptsInv, OnlyFirst
  <2> QED
    BY <1>2, <2>1, AttemptMade DEF StartCreate, Doing
<1>3. CASE GradeCreate(r)
  BY <1>3, AttemptMade DEF GradeCreate, Doing
<1> QED
  BY <1>1, <1>2, <1>3

LEMMA SavedCounted ==
    ASSUME SubInv, SubInv', AttemptsInv, NEW r \in Slots,
           \/ StartBegin(r) \/ HandIn(r) \/ FileSave(r) \/ GradeSave(r) \/ MarkSave(r) \/ ResetSave(r)
    PROVE  AttemptsInv'
<1> DEFINE m == subReq[r].n
<1>1. m # 0 => m \in Attempts /\ sub[m] \in Submission
  BY DEF SubInv, SubmissionTypeOK, SubmissionRequest
<1>2. CASE StartBegin(r)
  <2> DEFINE doc == [sub[m] EXCEPT !.started = TRUE]
  <2>1. /\ m # 0 /\ SubDone(r) /\ rivals' = rivals /\ resets' = resets
        /\ sub' = [sub EXCEPT ![m] = doc]
    BY <1>2 DEF StartBegin, SubHistory
  <2>2. doc.in = sub[m].in
    BY <1>1, <2>1 DEF Submission
  <2> HIDE DEF doc
  <2> QED
    BY <1>1, <2>1, <2>2, SaveCounted DEF Submission
<1>3. CASE HandIn(r)
  <2>1. /\ m # 0 /\ SubDone(r) /\ rivals' = rivals /\ resets' = resets
        /\ sub' = [sub EXCEPT ![m] = HandedIn(m, subReq[r].mark)]
    BY <1>3 DEF HandIn
  <2>2. HandedIn(m, subReq[r].mark).in
    BY <1>1, <2>1 DEF HandedIn, Submission
  <2> QED
    BY <2>1, <2>2, SaveCounted
<1>4. CASE FileSave(r)
  <2>1. CASE subReq[r].plain
    <3> DEFINE doc == [Unsubmitted EXCEPT !.in = TRUE]
    <3>1. Create(1, doc) /\ SubDone(r) /\ rivals' = rivals /\ subReq[r].op = "file"
      BY <1>4, <2>1 DEF FileSave, Doing
    <3> HIDE DEF doc
    <3> QED
      BY <3>1, AttemptMade
  <2>2. CASE ~subReq[r].plain
    <3> DEFINE doc == [sub[m] EXCEPT !.in = TRUE]
    <3>1. /\ m # 0 /\ SubDone(r) /\ rivals' = rivals /\ resets' = resets
          /\ sub' = [sub EXCEPT ![m] = doc]
      BY <1>4, <2>2 DEF FileSave
    <3>2. doc.in
      BY <1>1, <3>1 DEF Submission
    <3> HIDE DEF doc
    <3> QED
      BY <3>1, <3>2, SaveCounted
  <2> QED
    BY <2>1, <2>2
<1>5. CASE GradeSave(r)
  <2> DEFINE doc == Graded(sub[m], subReq[r])
  <2>1. /\ m # 0 /\ SubDone(r) /\ rivals' = rivals /\ resets' = resets
        /\ sub' = [sub EXCEPT ![m] = doc]
    BY <1>5 DEF GradeSave
  <2>2. doc.in = sub[m].in
    BY <1>1, <2>1 DEF Submission, Graded
  <2> HIDE DEF doc
  <2> QED
    BY <1>1, <2>1, <2>2, SaveCounted DEF Submission
<1>6. CASE MarkSave(r)
  <2> DEFINE doc == Marked(subReq[r])
  <2>1. /\ m # 0 /\ SubDone(r) /\ rivals' = rivals /\ resets' = resets
        /\ sub' = [sub EXCEPT ![m] = doc]
    BY <1>6 DEF MarkSave
  <2>2. doc.in = sub[m].in
    BY <1>1, <2>1 DEF Submission, Marked
  <2> HIDE DEF doc
  <2> QED
    BY <1>1, <2>1, <2>2, SaveCounted DEF Submission
<1>7. CASE ResetSave(r)
  <2> DEFINE doc == [sub[m] EXCEPT !.in = FALSE]
  <2>1. /\ m # 0 /\ SubDone(r) /\ rivals' = rivals
        /\ resets' = [resets EXCEPT ![m] = @ + 1]
        /\ sub' = [sub EXCEPT ![m] = doc]
    BY <1>7 DEF ResetSave
  <2> HIDE DEF doc
  <2> QED
    BY <2>1, SaveCounted
<1> QED
  BY <1>2, <1>3, <1>4, <1>5, <1>6, <1>7

LEMMA EndedCounted ==
    ASSUME SubInv, SubInv', AttemptsInv, NEW r \in Slots,
           DeleteSave(r) \/ SubmissionFails(r)
    PROVE  AttemptsInv'
<1>1. rivals' = rivals /\ rivals' >= rivals /\ resets' = resets /\ kind' = kind
  BY DEF DeleteSave, SubmissionFails, SubDone, SubHistory, SubInv, SubmissionTypeOK
<1>2. CASE SubmissionFails(r)
  BY <1>1, <1>2, RequestTypes, TurnCounted DEF SubmissionFails, SubDone
<1>3. CASE DeleteSave(r)
  <2>1. \A n \in Attempts : sub'[n] = sub[n] \/ ~sub'[n].there
    BY <1>3 DEF DeleteSave, NoSubmission, SubInv, SubmissionTypeOK
  <2>2. \A x \in Slots : subReq'[x].op \in {subReq[x].op, "none"}
    BY <1>3, RequestTypes DEF DeleteSave, SubInv, SubmissionTypeOK, SubmissionRequest
  <2>3. \A n \in Attempts : sub'[n].there =>
               /\ sub[n].there
               /\ ~sub'[n].in /\ resets'[n] = 0 => ~sub[n].in /\ resets[n] = 0
    BY <1>1, <2>1
  <2>4. \A x \in Slots : subReq'[x].op \in {"count", "create", "upsert", "gradeNew"} =>
               subReq'[x].op = subReq[x].op
    BY <2>2
  <2> QED
    BY <1>1, <2>3, <2>4, NoneOpened
<1> QED
  BY <1>2, <1>3

LEMMA AttemptsNextInv ==
    ASSUME SubInv, SubInv', AttemptsInv, [Next]_vars
    PROVE  AttemptsInv'
<1>1. CASE ChangeSubmission
  <2>1. PICK r \in Slots :
        \/ StartReceive(r) \/ StartBegin(r) \/ StartUpsert(r) \/ StartCount(r) \/ StartCreate(r)
        \/ \E mark \in Marks : HandInReceive(r, mark) \/ GradeReceive(r, mark, FALSE)
        \/ \E note \in BOOLEAN : GradeReceive(r, Undefined, note)
        \/ \E marks \in Markings : MarkReceive(r, marks)
        \/ HandIn(r) \/ FileReceive(r) \/ FileSave(r)
        \/ GradeSave(r) \/ GradeCreate(r) \/ MarkSave(r)
        \/ DeleteReceive(r) \/ ResetSave(r) \/ DeleteSave(r) \/ SubmissionFails(r)
    BY <1>1, Zenon DEF ChangeSubmission, SubmissionStep
  <2>2. CASE \/ StartReceive(r) \/ \E mark \in Marks : GradeReceive(r, mark, FALSE)
             \/ \E note \in BOOLEAN : GradeReceive(r, Undefined, note)
    BY <2>2, StartReceiveCounted, GradeReceiveCounted
  <2>3. CASE \/ FileReceive(r) \/ DeleteReceive(r) \/ StartCount(r)
             \/ \E mark \in Marks : HandInReceive(r, mark)
             \/ \E marks \in Markings : MarkReceive(r, marks)
    BY <2>3, ReceivedCounted
  <2>4. CASE StartUpsert(r) \/ StartCreate(r) \/ GradeCreate(r)
    BY <2>4, CreatedCounted
  <2>5. CASE \/ StartBegin(r) \/ HandIn(r) \/ FileSave(r) \/ GradeSave(r) \/ MarkSave(r)
             \/ ResetSave(r)
    BY <2>5, SavedCounted
  <2>6. CASE DeleteSave(r) \/ SubmissionFails(r)
    BY <2>6, EndedCounted
  <2> QED
    BY <2>1, <2>2, <2>3, <2>4, <2>5, <2>6
<1>2. ASSUME UNCHANGED submissionVars
      PROVE  AttemptsInv'
  BY <1>2 DEF submissionVars, AttemptsInv, OnlyFirst, OpenCounted, FreshlyOpen, Open, There, Creating
<1>3. CASE ChangeRoom \/ ChangePoll \/ ChangeChat
  BY <1>2, <1>3 DEF ChangeRoom, ChangePoll, ChangeChat
<1>4. CASE Rest \/ UNCHANGED vars
  BY <1>2, <1>4 DEF Rest, vars
<1> QED
  BY <1>1, <1>3, <1>4 DEF Next

(* Each behaviour keeps count of the attempts that are open. *)
THEOREM AttemptsInvariantHolds == Spec => []AttemptsInv
<1>1. Init => AttemptsInv
  <2> SUFFICES ASSUME Init PROVE AttemptsInv
    OBVIOUS
  <2>1. /\ sub = [n \in Attempts |-> NoSubmission]
        /\ subReq = [r \in Slots |-> NoSubRequest] /\ rivals = 0
    BY DEF Init, SubmissionInit
  <2>2. There = {} /\ Open = {} /\ FreshlyOpen = {} /\ Creating = {}
    BY <2>1 DEF There, NoSubmission, Open, FreshlyOpen, Creating, NoSubRequest
  <2>3. Cardinality(FreshlyOpen) = 0 /\ Cardinality(Creating) = 0 /\ IsFiniteSet(Creating)
    BY <2>2, FS_EmptySet
  <2>4. \A r \in Slots : subReq[r].op = "none"
    BY <2>1 DEF NoSubRequest
  <2> QED
    BY <2>1, <2>2, <2>3, <2>4 DEF AttemptsInv, OnlyFirst, OpenCounted
<1>2. SubInv /\ SubInv' /\ AttemptsInv /\ [Next]_vars => AttemptsInv'
  BY AttemptsNextInv
<1> QED
  BY <1>1, <1>2, SubmissionInvariantHolds, PTL DEF Spec

(* A student has one attempt open at a time (startQuiz, and grades given   *)
(* before the first one), but for rivals and attempts taken back.          *)
THEOREM OneOpenAttemptAlways == Spec => []OneOpenAttempt
<1>1. SubInv /\ AttemptsInv => OneOpenAttempt
  <2> SUFFICES ASSUME SubInv, AttemptsInv, kind.quiz
               PROVE  Cardinality(Open) <= 1 + rivals + Cardinality({n \in There : resets[n] > 0})
    BY DEF OneOpenAttempt
  <2> DEFINE Returned == {n \in There : resets[n] > 0}
  <2>1. /\ IsFiniteSet(There) /\ IsFiniteSet(Open) /\ IsFiniteSet(FreshlyOpen)
        /\ Cardinality(FreshlyOpen) \in Nat /\ rivals \in Nat
        /\ \A n \in There : resets[n] \in Nat
    BY AttemptsFinite DEF SubInv, SubmissionTypeOK, There
  <2>2. IsFiniteSet(Returned) /\ Cardinality(Returned) \in Nat
    BY <2>1, FS_Subset, FS_CardinalityType
  <2>3. Cardinality(Open) \in Nat
    BY <2>1, FS_CardinalityType
  <2>4. CASE kind.many
    <3>1. Open \subseteq FreshlyOpen \cup Returned
      BY <2>1 DEF Open, FreshlyOpen
    <3>2. /\ IsFiniteSet(FreshlyOpen \cup Returned)
          /\ Cardinality(FreshlyOpen \cup Returned) <= Cardinality(FreshlyOpen) + Cardinality(Returned)
          /\ Cardinality(FreshlyOpen \cup Returned) \in Nat
      <4>1. /\ IsFiniteSet(FreshlyOpen \cup Returned)
            /\ Cardinality(FreshlyOpen \cup Returned)
                 = Cardinality(FreshlyOpen) + Cardinality(Returned)
                    - Cardinality(FreshlyOpen \cap Returned)
        BY <2>1, <2>2, FS_Union
      <4>2. Cardinality(FreshlyOpen \cap Returned) \in Nat
        BY <2>2, FS_Intersection, FS_CardinalityType
      <4>3. Cardinality(FreshlyOpen \cup Returned) \in Nat
        BY <4>1, FS_CardinalityType
      <4> QED
        BY <2>1, <2>2, <4>1, <4>2, <4>3
    <3>3. Cardinality(Open) <= Cardinality(FreshlyOpen \cup Returned)
      BY <3>1, <3>2, FS_Subset
    <3>4. /\ IsFiniteSet(Creating)
          /\ Cardinality(FreshlyOpen) + Cardinality(Creating) <= 1 + rivals
      BY <2>4 DEF AttemptsInv, OpenCounted
    <3>5. Cardinality(Creating) \in Nat
      BY <3>4, FS_CardinalityType
    <3> QED
      BY <2>1, <2>2, <2>3, <3>2, <3>3, <3>4, <3>5
  <2>5. CASE ~kind.many
    <3>1. Open \subseteq {1}
      BY <2>5 DEF Open, AttemptsInv, OnlyFirst
    <3>2. Cardinality(Open) <= 1
      <4>1. IsFiniteSet({1}) /\ Cardinality({1}) = 1
        BY FS_Singleton
      <4>2. Cardinality(Open) <= Cardinality({1})
        BY <3>1, <4>1, FS_Subset, Zenon
      <4> QED
        BY <4>1, <4>2
    <3> QED
      BY <2>1, <2>2, <2>3, <3>2
  <2> QED
    BY <2>4, <2>5
<1> QED
  BY <1>1, SubmissionInvariantHolds, AttemptsInvariantHolds, PTL

(***************************************************************************)
(* The pins of a conversation.                                             *)
(***************************************************************************)
At(r, m, ops) == chatReq[r].m = m /\ chatReq[r].op \in ops

(* While pins and unpins of m do not run beside each other, what is not in *)
(* the list and the message yet is what the requests under way will do.    *)
PinsPending(m) ==
    /\ ~(Pinning(m) /\ Unpinning(m))
    /\ Pinning(m) => ~message[m].revoked
    /\ ~Unpinning(m) =>
          /\ message[m].pinned => m \in pins
          /\ m \in pins /\ ~message[m].pinned => \E r \in Slots : At(r, m, {"mark", "resync"})
          /\ message[m].revoked => m \notin pins
          /\ \A r \in Slots : At(r, m, {"mark", "resync"}) => m \in pins
    /\ Unpinning(m) =>
          /\ m \in pins => \E r \in Slots : At(r, m, {"drop", "withdraw"})
          /\ message[m].pinned => \E r \in Slots : \/ At(r, m, {"drop", "clear"})
                                                   \/ At(r, m, {"withdraw", "revoke"}) /\ chatReq[r].was

PinsFit == IsFiniteSet(pins) /\ Cardinality(pins) <= MaxPins
ChatRequestsFit ==
    \A r \in Slots : /\ chatReq[r].op = "none" => chatReq[r].m = NoOne
                     /\ chatReq[r].op # "none" => chatReq[r].m \in Messages
                     /\ chatReq[r].op = "withdraw" => chatReq[r].was
PinsAccounted == \A m \in Messages \ mixed : PinsPending(m)

ChatInv == ChatTypeOK /\ PinsFit /\ ChatRequestsFit /\ PinsAccounted

LEMMA ChatTypes ==
    ASSUME ChatInv
    PROVE  /\ message \in [Messages -> Message] /\ pins \subseteq Messages
           /\ chatReq \in [Slots -> ChatRequest] /\ mixed \subseteq Messages
           /\ \A r \in Slots : chatReq[r] \in ChatRequest
           /\ \A m \in Messages : message[m] \in Message
           /\ NoChatRequest \in ChatRequest /\ NoOne \notin Messages
  BY ChatAssumption DEF ChatInv, ChatTypeOK, ChatRequest, NoChatRequest

(* What a request says with another operation. *)
LEMMA NextOp ==
    ASSUME NEW q \in ChatRequest, NEW op \in {"none", "react"} \cup PinOps \cup UnpinOps
    PROVE  /\ [q EXCEPT !.op = op] \in ChatRequest
           /\ [q EXCEPT !.op = op].op = op
           /\ [q EXCEPT !.op = op].m = q.m
           /\ [q EXCEPT !.op = op].was = q.was
  BY DEF ChatRequest

LEMMA FirstOp ==
    ASSUME NEW m \in Messages, NEW op \in {"none", "react"} \cup PinOps \cup UnpinOps
    PROVE  About(m, op) \in ChatRequest /\ About(m, op).op = op /\ About(m, op).m = m
  BY DEF ChatRequest, About, NoChatRequest

(* A step of one request, about m, keeps the invariant if it keeps what is *)
(* said of m.                                                              *)
LEMMA ChatTurn ==
    ASSUME ChatInv, NEW r \in Slots, NEW m \in Messages, NEW q \in ChatRequest,
           chatReq[r].m \in {m, NoOne}, q.m \in {m, NoOne},
           q.op = "none" => q.m = NoOne, q.op # "none" => q.m = m, q.op = "withdraw" => q.was,
           chatReq' = [chatReq EXCEPT ![r] = q],
           message' \in [Messages -> Message],
           \A x \in Messages \ {m} : message'[x] = message[x],
           pins' \subseteq pins \cup {m}, pins \ {m} \subseteq pins', PinsFit',
           mixed' = mixed \/ mixed' = mixed \cup {m} \/ mixed' = mixed \ {m},
           m \notin mixed' => PinsPending(m)'
    PROVE  ChatInv'
<1>1. ChatTypeOK'
  BY ChatTypes DEF ChatTypeOK
<1>2. \A x \in Slots : chatReq'[x] = IF x = r THEN q ELSE chatReq[x]
  BY ChatTypes
<1>3. ChatRequestsFit'
  BY <1>2 DEF ChatInv, ChatRequestsFit
<1>4. ASSUME NEW n \in Messages \ mixed', n # m
      PROVE  PinsPending(n)'
  <2>1. n \notin mixed /\ PinsPending(n)
    BY <1>4 DEF ChatInv, PinsAccounted
  <2>2. message'[n] = message[n] /\ (n \in pins' <=> n \in pins)
    BY <1>4
  <2>3. chatReq[r].m # n /\ q.m # n
    BY <1>4, ChatTypes
  <2>4. \A x \in Slots : /\ chatReq'[x].m = n <=> chatReq[x].m = n
                         /\ chatReq[x].m = n => chatReq'[x] = chatReq[x]
    BY <1>2, <2>3
  <2>5. \A ops : \A x \in Slots : At(x, n, ops)' <=> At(x, n, ops)
    BY <2>4 DEF At
  <2>6. (Pinning(n)' <=> Pinning(n)) /\ (Unpinning(n)' <=> Unpinning(n))
    BY <2>4 DEF Pinning, Unpinning
  <2>7. \A x \in Slots : At(x, n, {"withdraw", "revoke"}) => chatReq'[x].was = chatReq[x].was
    BY <2>4 DEF At
  <2>8. /\ (\E x \in Slots : At(x, n, {"mark", "resync"}))' <=> \E x \in Slots : At(x, n, {"mark", "resync"})
        /\ (\E x \in Slots : At(x, n, {"drop", "withdraw"}))' <=> \E x \in Slots : At(x, n, {"drop", "withdraw"})
    BY <2>5
  <2> QED
    BY <2>1, <2>2, <2>5, <2>6, <2>7, <2>8 DEF PinsPending
<1>5. PinsAccounted'
  BY <1>4 DEF PinsAccounted
<1> QED
  BY <1>1, <1>3, <1>5 DEF ChatInv


(* A request that is received.                                             *)
LEMMA ChatReceived ==
    ASSUME ChatInv, NEW r \in Slots, NEW m \in Messages,
           ReactReceive(r, m) \/ PinReceive(r, m) \/ UnpinReceive(r, m) \/ RevokeReceive(r, m)
    PROVE  ChatInv'
<1>1. PICK p \in ChatRequest :
        /\ p.m = m /\ p.op # "none" /\ (p.op = "withdraw" => p.was)
        /\ chatReq[r] = NoChatRequest
        /\ chatReq' = [chatReq EXCEPT ![r] = p] /\ message' = message /\ pins' = pins
        /\ \/ ReactReceive(r, m) /\ p.op = "react" /\ mixed' = mixed
           \/ PinReceive(r, m) /\ p.op = "find"
           \/ UnpinReceive(r, m) /\ p.op = "drop"
           \/ /\ RevokeReceive(r, m) /\ p.was = message[m].pinned
              /\ p.op = IF message[m].pinned THEN "withdraw" ELSE "revoke"
  <2>1. CASE ReactReceive(r, m)
    <3> DEFINE p == About(m, "react")
    <3>1. p \in ChatRequest /\ p.op = "react" /\ p.m = m
      BY FirstOp
    <3>2. ChatReceive(r, p) /\ mixed' = mixed
      BY <2>1 DEF ReactReceive
    <3> HIDE DEF p
    <3> QED
      BY <2>1, <3>1, <3>2 DEF ChatReceive
  <2>2. CASE PinReceive(r, m)
    <3> DEFINE p == About(m, "find")
    <3>1. p \in ChatRequest /\ p.op = "find" /\ p.m = m
      BY FirstOp DEF PinOps
    <3>2. ChatReceive(r, p)
      BY <2>2 DEF PinReceive
    <3> HIDE DEF p
    <3> QED
      BY <2>2, <3>1, <3>2 DEF ChatReceive
  <2>3. CASE UnpinReceive(r, m)
    <3> DEFINE p == About(m, "drop")
    <3>1. p \in ChatRequest /\ p.op = "drop" /\ p.m = m
      BY FirstOp DEF UnpinOps
    <3>2. ChatReceive(r, p)
      BY <2>3 DEF UnpinReceive
    <3> HIDE DEF p
    <3> QED
      BY <2>3, <3>1, <3>2 DEF ChatReceive
  <2>4. CASE RevokeReceive(r, m)
    <3> DEFINE p == [op |-> IF message[m].pinned THEN "withdraw" ELSE "revoke", m |-> m,
                     was |-> message[m].pinned, file |-> message[m].file]
    <3>1. p \in ChatRequest /\ (p.op = "withdraw" => p.was) /\ p.op # "none"
      BY ChatTypes DEF Message, ChatRequest, UnpinOps
    <3>2. ChatReceive(r, p)
      BY <2>4 DEF RevokeReceive
    <3> QED
      BY <2>4, <3>1, <3>2 DEF ChatReceive
  <2> QED
    BY <2>1, <2>2, <2>3, <2>4
<1>2. \A x \in Slots : chatReq'[x] = IF x = r THEN p ELSE chatReq[x]
  BY <1>1, ChatTypes
<1>3. chatReq[r].op = "none" /\ chatReq[r].m = NoOne
  BY <1>1 DEF NoChatRequest
<1>4. /\ Pinning(m)' <=> Pinning(m) \/ p.op \in PinOps
      /\ Unpinning(m)' <=> Unpinning(m) \/ p.op \in UnpinOps
  BY <1>1, <1>2, <1>3 DEF Pinning, Unpinning, PinOps, UnpinOps
<1>5. \A ops : \A x \in Slots : At(x, m, ops)' <=> IF x = r THEN p.op \in ops ELSE At(x, m, ops)
  BY <1>1, <1>2 DEF At
<1>6. \A ops : \A x \in Slots : "none" \notin ops /\ At(x, m, ops) => x # r /\ At(x, m, ops)' /\ chatReq'[x] = chatReq[x]
  BY <1>2, <1>3, <1>5 DEF At
<1>7. ASSUME m \notin mixed'
      PROVE  PinsPending(m)'
  <2>1. CASE ReactReceive(r, m) /\ p.op = "react" /\ mixed' = mixed
    BY <1>1, <1>4, <1>5, <1>6, <1>7, <2>1 DEF ChatInv, PinsAccounted, PinsPending, PinOps, UnpinOps
  <2>2. CASE PinReceive(r, m) /\ p.op = "find"
    <3>1. ~Unpinning(m) /\ m \notin mixed /\ ~message[m].revoked
      BY <1>7, <2>2, ChatTypes DEF PinReceive, MixIf
    <3> QED
      BY <1>1, <1>4, <1>5, <1>6, <2>2, <3>1 DEF ChatInv, PinsAccounted, PinsPending, PinOps, UnpinOps
  <2>3. CASE UnpinReceive(r, m) /\ p.op = "drop"
    <3>1. ~Pinning(m)
      BY <1>7, <2>3, ChatTypes DEF UnpinReceive, Mix
    <3> QED
      BY <1>1, <1>4, <1>5, <2>3, <3>1 DEF PinsPending, PinOps, UnpinOps
  <2>4. CASE /\ RevokeReceive(r, m) /\ p.was = message[m].pinned
             /\ p.op = IF message[m].pinned THEN "withdraw" ELSE "revoke"
    <3>1. ~Pinning(m) /\ (~message[m].pinned => m \notin mixed)
      BY <1>7, <2>4, ChatTypes, Zenon DEF RevokeReceive, Mix
    <3>2. ~Pinning(m)' /\ Unpinning(m)'
      BY <1>4, <2>4, <3>1 DEF PinOps, UnpinOps
    <3>3. CASE message[m].pinned
      <4>1. At(r, m, {"drop", "withdraw"})' /\ At(r, m, {"withdraw", "revoke"})' /\ chatReq'[r].was
        BY <1>2, <1>5, <2>4, <3>3
      <4> QED
        BY <3>2, <4>1 DEF PinsPending
    <3>4. CASE ~message[m].pinned
      <4>1. PinsPending(m)
        BY <3>1, <3>4 DEF ChatInv, PinsAccounted
      <4>2. m \in pins => \E x \in Slots : At(x, m, {"drop", "withdraw"})
        <5>1. ASSUME NEW x \in Slots, At(x, m, {"mark", "resync"})
              PROVE  Pinning(m)
          BY <5>1 DEF At, Pinning, PinOps
        <5> QED
          BY <3>1, <3>4, <4>1, <5>1 DEF PinsPending
      <4>3. (m \in pins => \E x \in Slots : At(x, m, {"drop", "withdraw"}))'
        BY <1>1, <1>6, <4>2
      <4> QED
        BY <1>1, <3>2, <3>4, <4>3 DEF PinsPending
    <3> QED
      BY <3>3, <3>4
  <2> QED
    BY <1>1, <2>1, <2>2, <2>3, <2>4
<1>8. mixed' = mixed \/ mixed' = mixed \cup {m} \/ mixed' = mixed \ {m}
  <2>1. CASE PinReceive(r, m)
    BY <2>1 DEF PinReceive, MixIf
  <2>2. CASE UnpinReceive(r, m)
    BY <2>2 DEF UnpinReceive, Mix, Unmix
  <2>3. CASE RevokeReceive(r, m)
    BY <2>3, Zenon DEF RevokeReceive, Mix, Unmix
  <2> QED
    BY <1>1, <2>1, <2>2, <2>3
<1>9. PinsFit' /\ message' \in [Messages -> Message] /\ pins' = pins /\ message' = message
  BY <1>1, ChatTypes DEF ChatInv, PinsFit
<1> QED
  BY <1>1, <1>3, <1>7, <1>8, <1>9, ChatTurn

(* A request that goes on, or is over, seen from its own message.          *)
TurnsTo(r, m, q) ==
    /\ chatReq[r].m = m /\ q.m \in {m, NoOne}
    /\ q.op # "none" => q.m = m
    /\ q.op = "none" => q.m = NoOne
    /\ chatReq' = [chatReq EXCEPT ![r] = q]

LEMMA TurnSeen ==
    ASSUME ChatInv, NEW r \in Slots, NEW m \in Messages, NEW q \in ChatRequest,
           TurnsTo(r, m, q)
    PROVE  /\ \A x \in Slots : chatReq'[x] = IF x = r THEN q ELSE chatReq[x]
           /\ \A x \in Slots : At(x, m, {"mark", "resync"})' <=> IF x = r THEN q.op \in {"mark", "resync"} ELSE At(x, m, {"mark", "resync"})
           /\ \A x \in Slots : At(x, m, {"drop", "withdraw"})' <=> IF x = r THEN q.op \in {"drop", "withdraw"} ELSE At(x, m, {"drop", "withdraw"})
           /\ \A x \in Slots : At(x, m, {"drop", "clear"})' <=> IF x = r THEN q.op \in {"drop", "clear"} ELSE At(x, m, {"drop", "clear"})
           /\ \A x \in Slots : At(x, m, {"withdraw", "revoke"})' <=> IF x = r THEN q.op \in {"withdraw", "revoke"} ELSE At(x, m, {"withdraw", "revoke"})
           /\ Pinning(m)' <=> \/ q.op \in PinOps
                              \/ \E x \in Slots \ {r} : At(x, m, PinOps)
           /\ Unpinning(m)' <=> \/ q.op \in UnpinOps
                                \/ \E x \in Slots \ {r} : At(x, m, UnpinOps)
           /\ Pinning(m) <=> \/ chatReq[r].op \in PinOps
                             \/ \E x \in Slots \ {r} : At(x, m, PinOps)
           /\ Unpinning(m) <=> \/ chatReq[r].op \in UnpinOps
                               \/ \E x \in Slots \ {r} : At(x, m, UnpinOps)
<1>1. \A x \in Slots : chatReq'[x] = IF x = r THEN q ELSE chatReq[x]
  BY ChatTypes DEF TurnsTo
<1>2. m # NoOne
  BY ChatTypes
<1>3. \A ops : \A x \in Slots : "none" \notin ops =>
         (At(x, m, ops)' <=> IF x = r THEN q.op \in ops ELSE At(x, m, ops))
  BY <1>1, <1>2 DEF At, TurnsTo
<1>4. /\ Pinning(m) <=> \E x \in Slots : At(x, m, PinOps)
      /\ Unpinning(m) <=> \E x \in Slots : At(x, m, UnpinOps)
  BY DEF Pinning, Unpinning, At
<1>5. /\ Pinning(m)' <=> \E x \in Slots : At(x, m, PinOps)'
      /\ Unpinning(m)' <=> \E x \in Slots : At(x, m, UnpinOps)'
  BY DEF Pinning, Unpinning, At
<1>6. "none" \notin PinOps /\ "none" \notin UnpinOps
  BY DEF PinOps, UnpinOps
<1>7. \A ops : At(r, m, ops) <=> chatReq[r].op \in ops
  BY DEF At, TurnsTo
<1>8. /\ Pinning(m)' <=> (q.op \in PinOps \/ \E x \in Slots \ {r} : At(x, m, PinOps))
      /\ Unpinning(m)' <=> (q.op \in UnpinOps \/ \E x \in Slots \ {r} : At(x, m, UnpinOps))
  BY <1>3, <1>5, <1>6
<1>9. /\ Pinning(m) <=> (chatReq[r].op \in PinOps \/ \E x \in Slots \ {r} : At(x, m, PinOps))
      /\ Unpinning(m) <=> (chatReq[r].op \in UnpinOps \/ \E x \in Slots \ {r} : At(x, m, UnpinOps))
  BY <1>4, <1>7
<1>10. /\ \A x \in Slots : At(x, m, {"mark", "resync"})' <=> IF x = r THEN q.op \in {"mark", "resync"} ELSE At(x, m, {"mark", "resync"})
       /\ \A x \in Slots : At(x, m, {"drop", "withdraw"})' <=> IF x = r THEN q.op \in {"drop", "withdraw"} ELSE At(x, m, {"drop", "withdraw"})
       /\ \A x \in Slots : At(x, m, {"drop", "clear"})' <=> IF x = r THEN q.op \in {"drop", "clear"} ELSE At(x, m, {"drop", "clear"})
       /\ \A x \in Slots : At(x, m, {"withdraw", "revoke"})' <=> IF x = r THEN q.op \in {"withdraw", "revoke"} ELSE At(x, m, {"withdraw", "revoke"})
  BY <1>3
<1> QED
  BY <1>1, <1>8, <1>9, <1>10

LEMMA RequestNamed ==
    ASSUME ChatInv, NEW r \in Slots, chatReq[r].op # "none"
    PROVE  chatReq[r].m \in Messages /\ chatReq[r].m # NoOne /\ chatReq[r] \in ChatRequest
  BY ChatTypes DEF ChatInv, ChatRequestsFit

LEMMA NoChatTypes == NoChatRequest \in ChatRequest /\ NoChatRequest.op = "none" /\ NoChatRequest.m = NoOne
  BY DEF NoChatRequest, ChatRequest

LEMMA PinFindInv == ASSUME ChatInv, NEW r \in Slots, PinFind(r) PROVE ChatInv'
<1>1. chatReq[r].op = "find" /\ message' = message /\ pins' = pins
  BY DEF PinFind
<1>2. PICK m \in Messages : chatReq[r].m = m /\ chatReq[r] \in ChatRequest
  BY <1>1, RequestNamed
<1>3. PICK q \in ChatRequest :
        /\ chatReq' = [chatReq EXCEPT ![r] = q]
        /\ \/ q.op = "resync" /\ q.m = m /\ m \in pins /\ Settle(m)
           \/ q.op = "push" /\ q.m = m /\ mixed' = mixed
           \/ q.op = "none" /\ q.m = NoOne /\ mixed' = mixed
  <2>1. CASE m \in pins /\ ChatGoesOn(r, "resync") /\ Settle(m)
    <3> DEFINE q == [chatReq[r] EXCEPT !.op = "resync"]
    <3>1. q \in ChatRequest /\ q.op = "resync" /\ q.m = m
      BY <1>2, NextOp DEF PinOps
    <3>2. chatReq' = [chatReq EXCEPT ![r] = q]
      BY <2>1 DEF ChatGoesOn
    <3> HIDE DEF q
    <3> QED
      BY <2>1, <3>1, <3>2
  <2>2. CASE ChatGoesOn(r, "push") /\ UNCHANGED mixed
    <3> DEFINE q == [chatReq[r] EXCEPT !.op = "push"]
    <3>1. q \in ChatRequest /\ q.op = "push" /\ q.m = m
      BY <1>2, NextOp DEF PinOps
    <3>2. chatReq' = [chatReq EXCEPT ![r] = q]
      BY <2>2 DEF ChatGoesOn
    <3> HIDE DEF q
    <3> QED
      BY <2>2, <3>1, <3>2
  <2>3. CASE ChatAnswer(r) /\ UNCHANGED <<mixed, stale>>
    BY <2>3, NoChatTypes DEF ChatAnswer
  <2> QED
    BY <1>2, <2>1, <2>2, <2>3 DEF PinFind
<1>4. TurnsTo(r, m, q)
  BY <1>2, <1>3 DEF TurnsTo
<1>5. /\ \A x \in Slots : At(x, m, {"mark", "resync"})' <=> IF x = r THEN q.op \in {"mark", "resync"} ELSE At(x, m, {"mark", "resync"})
      /\ Pinning(m)' <=> q.op \in PinOps \/ \E x \in Slots \ {r} : At(x, m, PinOps)
      /\ Unpinning(m)' <=> q.op \in UnpinOps \/ \E x \in Slots \ {r} : At(x, m, UnpinOps)
      /\ Pinning(m) <=> chatReq[r].op \in PinOps \/ \E x \in Slots \ {r} : At(x, m, PinOps)
      /\ Unpinning(m) <=> chatReq[r].op \in UnpinOps \/ \E x \in Slots \ {r} : At(x, m, UnpinOps)
  BY <1>4, TurnSeen
<1>6. (Unpinning(m)' <=> Unpinning(m)) /\ Pinning(m)
  BY <1>1, <1>3, <1>5 DEF PinOps, UnpinOps
<1>7. ASSUME m \notin mixed'
      PROVE  PinsPending(m)'
  <2>1. ~Unpinning(m) /\ ~message[m].revoked
    BY <1>2, <1>3, <1>6, <1>7 DEF ChatInv, PinsAccounted, PinsPending, Settle, Settled
  <2>2. CASE q.op = "resync"
    <3>1. At(r, m, {"mark", "resync"})' /\ m \in pins
      BY <1>3, <1>5, <2>2
    <3> QED
      BY <1>1, <1>6, <2>1, <3>1 DEF PinsPending
  <2>3. CASE q.op \in {"push", "none"}
    <3>1. PinsPending(m)
      BY <1>2, <1>3, <1>7, <2>3 DEF ChatInv, PinsAccounted
    <3>2. ~At(r, m, {"mark", "resync"}) /\ ~At(r, m, {"mark", "resync"})'
      BY <1>1, <1>2, <1>5, <2>3 DEF At
    <3>3. \A x \in Slots : At(x, m, {"mark", "resync"})' <=> At(x, m, {"mark", "resync"})
      BY <1>5, <3>2
    <3>4. (\E x \in Slots : At(x, m, {"mark", "resync"}))' <=> \E x \in Slots : At(x, m, {"mark", "resync"})
      BY <3>3
    <3> QED
      BY <1>1, <1>6, <2>1, <3>1, <3>3, <3>4 DEF PinsPending
  <2> QED
    BY <1>3, <2>2, <2>3
<1>8. mixed' = mixed \/ mixed' = mixed \cup {m} \/ mixed' = mixed \ {m}
  BY <1>3 DEF Settle
<1>9. PinsFit' /\ message' \in [Messages -> Message] /\ pins' = pins /\ message' = message
  BY <1>1, ChatTypes DEF ChatInv, PinsFit
<1> QED
  BY <1>2, <1>3, <1>7, <1>8, <1>9, ChatTurn

LEMMA PinPushInv == ASSUME ChatInv, NEW r \in Slots, PinPush(r) PROVE ChatInv'
<1>1. chatReq[r].op = "push" /\ message' = message
  BY DEF PinPush
<1>2. PICK m \in Messages : chatReq[r].m = m /\ chatReq[r] \in ChatRequest
  BY <1>1, RequestNamed
<1>3. PICK q \in ChatRequest :
        /\ chatReq' = [chatReq EXCEPT ![r] = q]
        /\ \/ /\ q.op = "mark" /\ q.m = m /\ Settle(m)
              /\ m \notin pins /\ Cardinality(pins) < MaxPins /\ pins' = pins \cup {m}
           \/ q.op = "none" /\ q.m = NoOne /\ mixed' = mixed /\ pins' = pins
  <2>1. CASE m \notin pins /\ Cardinality(pins) < MaxPins
    <3> DEFINE q == [chatReq[r] EXCEPT !.op = "mark"]
    <3>1. q \in ChatRequest /\ q.op = "mark" /\ q.m = m
      BY <1>2, NextOp DEF PinOps
    <3>2. chatReq' = [chatReq EXCEPT ![r] = q] /\ pins' = pins \cup {m} /\ Settle(m)
      BY <1>2, <2>1 DEF PinPush, ChatGoesOn
    <3> HIDE DEF q
    <3> QED
      BY <2>1, <3>1, <3>2
  <2>2. CASE ~(m \notin pins /\ Cardinality(pins) < MaxPins)
    <3>1. ChatAnswer(r) /\ UNCHANGED <<pins, mixed, stale>>
      BY <1>2, <2>2 DEF PinPush
    <3> QED
      BY <3>1, NoChatTypes DEF ChatAnswer
  <2> QED
    BY <2>1, <2>2
<1>4. TurnsTo(r, m, q)
  BY <1>2, <1>3 DEF TurnsTo
<1>5. /\ \A x \in Slots : At(x, m, {"mark", "resync"})' <=> IF x = r THEN q.op \in {"mark", "resync"} ELSE At(x, m, {"mark", "resync"})
      /\ Pinning(m)' <=> q.op \in PinOps \/ \E x \in Slots \ {r} : At(x, m, PinOps)
      /\ Unpinning(m)' <=> q.op \in UnpinOps \/ \E x \in Slots \ {r} : At(x, m, UnpinOps)
      /\ Pinning(m) <=> chatReq[r].op \in PinOps \/ \E x \in Slots \ {r} : At(x, m, PinOps)
      /\ Unpinning(m) <=> chatReq[r].op \in UnpinOps \/ \E x \in Slots \ {r} : At(x, m, UnpinOps)
  BY <1>4, TurnSeen
<1>6. (Unpinning(m)' <=> Unpinning(m)) /\ Pinning(m)
  BY <1>1, <1>3, <1>5 DEF PinOps, UnpinOps
<1>7. ASSUME m \notin mixed'
      PROVE  PinsPending(m)'
  <2>1. ~Unpinning(m) /\ ~message[m].revoked
    BY <1>2, <1>3, <1>6, <1>7 DEF ChatInv, PinsAccounted, PinsPending, Settle, Settled
  <2>2. CASE q.op = "mark"
    <3>1. At(r, m, {"mark", "resync"})' /\ m \in pins'
      BY <1>3, <1>5, <2>2
    <3> QED
      BY <1>1, <1>6, <2>1, <3>1 DEF PinsPending
  <2>3. CASE q.op = "none"
    <3>1. PinsPending(m) /\ pins' = pins
      BY <1>2, <1>3, <1>7, <2>3 DEF ChatInv, PinsAccounted
    <3>2. ~At(r, m, {"mark", "resync"}) /\ ~At(r, m, {"mark", "resync"})'
      BY <1>1, <1>2, <1>5, <2>3 DEF At
    <3>3. \A x \in Slots : At(x, m, {"mark", "resync"})' <=> At(x, m, {"mark", "resync"})
      BY <1>5, <3>2
    <3>4. (\E x \in Slots : At(x, m, {"mark", "resync"}))' <=> \E x \in Slots : At(x, m, {"mark", "resync"})
      BY <3>3
    <3> QED
      BY <1>1, <1>6, <2>1, <3>1, <3>3, <3>4 DEF PinsPending
  <2> QED
    BY <1>3, <2>2, <2>3
<1>8. mixed' = mixed \/ mixed' = mixed \cup {m} \/ mixed' = mixed \ {m}
  BY <1>3 DEF Settle
<1>9. PinsFit'
  <2>1. IsFiniteSet(pins) /\ Cardinality(pins) <= MaxPins /\ Cardinality(pins) \in Nat /\ MaxPins \in Nat
    BY FS_CardinalityType, ChatAssumption DEF ChatInv, PinsFit
  <2>2. CASE pins' = pins
    BY <2>1, <2>2 DEF PinsFit
  <2>3. CASE m \notin pins /\ Cardinality(pins) < MaxPins /\ pins' = pins \cup {m}
    <3>1. IsFiniteSet(pins') /\ Cardinality(pins') = Cardinality(pins) + 1
      BY <2>1, <2>3, FS_AddElement
    <3> QED
      BY <2>1, <2>3, <3>1 DEF PinsFit
  <2> QED
    BY <1>3, <2>2, <2>3
<1>10. message' \in [Messages -> Message] /\ pins' \subseteq pins \cup {m} /\ pins \ {m} \subseteq pins'
  BY <1>1, <1>3, ChatTypes
<1> QED
  BY <1>1, <1>2, <1>3, <1>7, <1>8, <1>9, <1>10, ChatTurn

LEMMA PinMarkInv == ASSUME ChatInv, NEW r \in Slots, PinMark(r) PROVE ChatInv'
<1>1. chatReq[r].op \in {"mark", "resync"}
  BY DEF PinMark
<1>2. PICK m \in Messages, q \in ChatRequest :
        /\ chatReq[r].m = m /\ q = NoChatRequest /\ q.op = "none" /\ q.m = NoOne
  BY <1>1, RequestNamed, NoChatTypes
<1>3. /\ message' = [message EXCEPT ![m].pinned = TRUE]
      /\ chatReq' = [chatReq EXCEPT ![r] = q] /\ pins' = pins /\ mixed' = mixed
  BY <1>2 DEF PinMark, ChatAnswer
<1>4. /\ message' \in [Messages -> Message] /\ \A x \in Messages \ {m} : message'[x] = message[x]
      /\ message'[m].pinned /\ message'[m].revoked = message[m].revoked
  <2>1. message \in [Messages -> Message] /\ message[m] \in Message
    BY ChatTypes
  <2> QED
    BY <1>3, <2>1 DEF Message
<1>5. TurnsTo(r, m, q)
  BY <1>2, <1>3 DEF TurnsTo
<1>6. /\ \A x \in Slots : At(x, m, {"mark", "resync"})' <=> IF x = r THEN q.op \in {"mark", "resync"} ELSE At(x, m, {"mark", "resync"})
      /\ Pinning(m)' <=> q.op \in PinOps \/ \E x \in Slots \ {r} : At(x, m, PinOps)
      /\ Unpinning(m)' <=> q.op \in UnpinOps \/ \E x \in Slots \ {r} : At(x, m, UnpinOps)
      /\ Pinning(m) <=> chatReq[r].op \in PinOps \/ \E x \in Slots \ {r} : At(x, m, PinOps)
      /\ Unpinning(m) <=> chatReq[r].op \in UnpinOps \/ \E x \in Slots \ {r} : At(x, m, UnpinOps)
  BY <1>5, TurnSeen
<1>7. ASSUME m \notin mixed'
      PROVE  PinsPending(m)'
  <2>1. PinsPending(m) /\ Pinning(m) /\ At(r, m, {"mark", "resync"})
    BY <1>1, <1>2, <1>3, <1>6, <1>7 DEF ChatInv, PinsAccounted, PinOps, At
  <2>2. m \in pins /\ ~Unpinning(m) /\ ~message[m].revoked
    BY <2>1 DEF PinsPending
  <2>3. ~Unpinning(m)'
    BY <1>2, <1>6, <2>2 DEF UnpinOps
  <2> QED
    BY <1>3, <1>4, <2>2, <2>3 DEF PinsPending
<1>8. PinsFit'
  BY <1>3 DEF ChatInv, PinsFit
<1> QED
  BY <1>1, <1>2, <1>3, <1>4, <1>7, <1>8, ChatTurn

(* A request that ends, having found that it need change nothing.          *)
LEMMA ChatNothingDone ==
    ASSUME ChatInv, NEW r \in Slots, chatReq[r].op \in {"react", "find", "push"},
           ChatAnswer(r), UNCHANGED <<message, pins, mixed>>
    PROVE  ChatInv'
<1>1. message' = message /\ pins' = pins /\ mixed' = mixed
  OBVIOUS
<1>2. PICK m \in Messages, q \in ChatRequest :
        /\ chatReq[r].m = m /\ q = NoChatRequest /\ q.op = "none" /\ q.m = NoOne
  BY RequestNamed, NoChatTypes
<1>3. chatReq' = [chatReq EXCEPT ![r] = q]
  BY <1>2 DEF ChatAnswer
<1>4. TurnsTo(r, m, q)
  BY <1>2, <1>3 DEF TurnsTo
<1>5. /\ \A x \in Slots : chatReq'[x] = IF x = r THEN q ELSE chatReq[x]
      /\ \A x \in Slots : At(x, m, {"mark", "resync"})' <=> IF x = r THEN q.op \in {"mark", "resync"} ELSE At(x, m, {"mark", "resync"})
      /\ \A x \in Slots : At(x, m, {"drop", "withdraw"})' <=> IF x = r THEN q.op \in {"drop", "withdraw"} ELSE At(x, m, {"drop", "withdraw"})
      /\ \A x \in Slots : At(x, m, {"drop", "clear"})' <=> IF x = r THEN q.op \in {"drop", "clear"} ELSE At(x, m, {"drop", "clear"})
      /\ \A x \in Slots : At(x, m, {"withdraw", "revoke"})' <=> IF x = r THEN q.op \in {"withdraw", "revoke"} ELSE At(x, m, {"withdraw", "revoke"})
      /\ Pinning(m)' <=> q.op \in PinOps \/ \E x \in Slots \ {r} : At(x, m, PinOps)
      /\ Unpinning(m)' <=> q.op \in UnpinOps \/ \E x \in Slots \ {r} : At(x, m, UnpinOps)
      /\ Pinning(m) <=> chatReq[r].op \in PinOps \/ \E x \in Slots \ {r} : At(x, m, PinOps)
      /\ Unpinning(m) <=> chatReq[r].op \in UnpinOps \/ \E x \in Slots \ {r} : At(x, m, UnpinOps)
  BY <1>4, TurnSeen
<1>6. ASSUME m \notin mixed
      PROVE  PinsPending(m)'
  <2>1. PinsPending(m)
    BY <1>6 DEF ChatInv, PinsAccounted
  <2>2. /\ (\E x \in Slots : At(x, m, {"mark", "resync"}))' <=> \E x \in Slots : At(x, m, {"mark", "resync"})
        /\ \A x \in Slots : At(x, m, {"mark", "resync"})' => At(x, m, {"mark", "resync"})
        /\ (\E x \in Slots : At(x, m, {"drop", "withdraw"}))' <=> \E x \in Slots : At(x, m, {"drop", "withdraw"})
        /\ \A x \in Slots : At(x, m, {"drop", "clear"}) => At(x, m, {"drop", "clear"})'
        /\ \A x \in Slots : At(x, m, {"withdraw", "revoke"}) /\ chatReq[x].was
                               => At(x, m, {"withdraw", "revoke"})' /\ chatReq'[x].was
    <3>1. /\ ~At(r, m, {"mark", "resync"}) /\ ~At(r, m, {"drop", "withdraw"})
          /\ ~At(r, m, {"drop", "clear"}) /\ ~At(r, m, {"withdraw", "revoke"})
      BY DEF At
    <3> QED
      BY <1>2, <1>5, <3>1
  <2>3. (Pinning(m)' => Pinning(m)) /\ (Unpinning(m)' <=> Unpinning(m))
    BY <1>2, <1>5 DEF PinOps, UnpinOps
  <2> QED
    BY <1>1, <2>1, <2>2, <2>3 DEF PinsPending
<1>7. message' \in [Messages -> Message] /\ PinsFit'
  BY <1>1, ChatTypes DEF ChatInv, PinsFit
<1> QED
  BY <1>1, <1>2, <1>3, <1>6, <1>7, ChatTurn

LEMMA ChatFailsInv == ASSUME ChatInv, NEW r \in Slots, ChatRequestFails(r) PROVE ChatInv'
<1>1. CASE chatReq[r].op \in {"react", "find", "push"}
  <2>1. mixed' = mixed
    BY <1>1 DEF ChatRequestFails, MixIf, UnpinOps
  <2> QED
    BY <1>1, <2>1, ChatNothingDone DEF ChatRequestFails
<1>2. CASE chatReq[r].op \in {"mark", "resync"} \cup UnpinOps
  <2>1. PICK m \in Messages, q \in ChatRequest :
          /\ chatReq[r].m = m /\ q = NoChatRequest /\ q.op = "none" /\ q.m = NoOne
    BY RequestNamed, NoChatTypes DEF ChatRequestFails
  <2>2. /\ chatReq' = [chatReq EXCEPT ![r] = q] /\ mixed' = mixed \cup {m}
        /\ message' = message /\ pins' = pins
    BY <1>2, <2>1 DEF ChatRequestFails, ChatAnswer, MixIf
  <2>3. message' \in [Messages -> Message] /\ PinsFit'
    BY <2>2, ChatTypes DEF ChatInv, PinsFit
  <2> QED
    BY <2>1, <2>2, <2>3, ChatTurn
<1>3. chatReq[r] \in ChatRequest /\ chatReq[r].op # "none"
  BY ChatTypes DEF ChatRequestFails
<1> QED
  BY <1>1, <1>2, <1>3 DEF ChatRequest, PinOps

(* The message is taken off the list.                                      *)
LEMMA PullInv ==
    ASSUME ChatInv, NEW r \in Slots, UnpinPull(r) \/ RevokePull(r)
    PROVE  ChatInv'
<1>1. chatReq[r].op \in {"drop", "withdraw"} /\ message' = message /\ mixed' = mixed
  BY DEF UnpinPull, RevokePull
<1>2. PICK m \in Messages, q \in ChatRequest :
        /\ chatReq[r].m = m /\ q.m = m /\ q.was = chatReq[r].was
        /\ q = [chatReq[r] EXCEPT !.op = q.op]
        /\ q.op = IF chatReq[r].op = "drop" THEN "clear" ELSE "revoke"
  <2> DEFINE op == IF chatReq[r].op = "drop" THEN "clear" ELSE "revoke"
  <2>1. chatReq[r].m \in Messages /\ chatReq[r] \in ChatRequest /\ op \in UnpinOps
    BY <1>1, RequestNamed DEF UnpinOps
  <2> DEFINE p == [chatReq[r] EXCEPT !.op = op]
  <2>2. p \in ChatRequest /\ p.op = op /\ p.m = chatReq[r].m /\ p.was = chatReq[r].was
    BY <2>1, NextOp
  <2>3. p = [chatReq[r] EXCEPT !.op = p.op]
    BY <2>2
  <2> HIDE DEF p
  <2> QED
    BY <2>1, <2>2, <2>3
<1>3. chatReq' = [chatReq EXCEPT ![r] = q] /\ pins' = pins \ {m}
  <2>1. CASE UnpinPull(r)
    <3>1. q = [chatReq[r] EXCEPT !.op = "clear"]
      BY <1>2, <2>1 DEF UnpinPull
    <3> QED
      BY <1>2, <2>1, <3>1 DEF UnpinPull, ChatGoesOn
  <2>2. CASE RevokePull(r)
    <3>1. q = [chatReq[r] EXCEPT !.op = "revoke"]
      BY <1>2, <2>2 DEF RevokePull
    <3> QED
      BY <1>2, <2>2, <3>1 DEF RevokePull, ChatGoesOn
  <2> QED
    BY <2>1, <2>2
<1>4. TurnsTo(r, m, q)
  BY <1>2, <1>3 DEF TurnsTo
<1>5. /\ \A x \in Slots : chatReq'[x] = IF x = r THEN q ELSE chatReq[x]
      /\ \A x \in Slots : At(x, m, {"mark", "resync"})' <=> IF x = r THEN q.op \in {"mark", "resync"} ELSE At(x, m, {"mark", "resync"})
      /\ \A x \in Slots : At(x, m, {"drop", "withdraw"})' <=> IF x = r THEN q.op \in {"drop", "withdraw"} ELSE At(x, m, {"drop", "withdraw"})
      /\ \A x \in Slots : At(x, m, {"drop", "clear"})' <=> IF x = r THEN q.op \in {"drop", "clear"} ELSE At(x, m, {"drop", "clear"})
      /\ \A x \in Slots : At(x, m, {"withdraw", "revoke"})' <=> IF x = r THEN q.op \in {"withdraw", "revoke"} ELSE At(x, m, {"withdraw", "revoke"})
      /\ Pinning(m)' <=> q.op \in PinOps \/ \E x \in Slots \ {r} : At(x, m, PinOps)
      /\ Unpinning(m)' <=> q.op \in UnpinOps \/ \E x \in Slots \ {r} : At(x, m, UnpinOps)
      /\ Pinning(m) <=> chatReq[r].op \in PinOps \/ \E x \in Slots \ {r} : At(x, m, PinOps)
      /\ Unpinning(m) <=> chatReq[r].op \in UnpinOps \/ \E x \in Slots \ {r} : At(x, m, UnpinOps)
  BY <1>4, TurnSeen
<1>6. chatReq[r].op = "withdraw" => q.was
  BY <1>2 DEF ChatInv, ChatRequestsFit
<1>7. ASSUME m \notin mixed
      PROVE  PinsPending(m)'
  <2>1. Unpinning(m) /\ PinsPending(m)
    BY <1>1, <1>5, <1>7 DEF UnpinOps, ChatInv, PinsAccounted
  <2>2. Unpinning(m)' /\ ~Pinning(m)'
    BY <1>1, <1>2, <1>5, <2>1 DEF UnpinOps, PinOps, PinsPending
  <2>3. m \notin pins'
    BY <1>3
  <2>4. \/ At(r, m, {"drop", "clear"})'
        \/ At(r, m, {"withdraw", "revoke"})' /\ chatReq'[r].was
    BY <1>1, <1>2, <1>5, <1>6
  <2> QED
    BY <2>2, <2>3, <2>4 DEF PinsPending
<1>8. PinsFit'
  <2>1. IsFiniteSet(pins) /\ pins' \in SUBSET pins /\ Cardinality(pins) \in Nat /\ Cardinality(pins) <= MaxPins
    BY <1>3, FS_CardinalityType DEF ChatInv, PinsFit
  <2>2. IsFiniteSet(pins') /\ Cardinality(pins') <= Cardinality(pins) /\ Cardinality(pins') \in Nat
    BY <2>1, FS_Subset, FS_CardinalityType
  <2> QED
    BY <2>1, <2>2, ChatAssumption DEF PinsFit
<1>9. message' \in [Messages -> Message] /\ pins' \subseteq pins \cup {m} /\ pins \ {m} \subseteq pins'
  BY <1>1, <1>3, ChatTypes
<1>10. q.op # "none" /\ q.op # "withdraw"
  BY <1>2
<1> QED
  BY <1>1, <1>2, <1>3, <1>7, <1>8, <1>9, <1>10, ChatTurn

(* The message says that it is not pinned, or that it was revoked.         *)
LEMMA ClearInv ==
    ASSUME ChatInv, NEW r \in Slots, UnpinClear(r) \/ RevokeSave(r)
    PROVE  ChatInv'
<1>1. chatReq[r].op \in {"clear", "revoke"}
  BY DEF UnpinClear, RevokeSave
<1>2. PICK m \in Messages, q \in ChatRequest :
        /\ chatReq[r].m = m /\ q = NoChatRequest /\ q.op = "none" /\ q.m = NoOne
  BY <1>1, RequestNamed, NoChatTypes
<1>3. chatReq' = [chatReq EXCEPT ![r] = q] /\ pins' = pins /\ mixed' = mixed
  BY <1>2 DEF UnpinClear, RevokeSave, ChatAnswer
<1>4. TurnsTo(r, m, q)
  BY <1>2, <1>3 DEF TurnsTo
<1>5. /\ \A x \in Slots : chatReq'[x] = IF x = r THEN q ELSE chatReq[x]
      /\ \A x \in Slots : At(x, m, {"mark", "resync"})' <=> IF x = r THEN q.op \in {"mark", "resync"} ELSE At(x, m, {"mark", "resync"})
      /\ \A x \in Slots : At(x, m, {"drop", "withdraw"})' <=> IF x = r THEN q.op \in {"drop", "withdraw"} ELSE At(x, m, {"drop", "withdraw"})
      /\ \A x \in Slots : At(x, m, {"drop", "clear"})' <=> IF x = r THEN q.op \in {"drop", "clear"} ELSE At(x, m, {"drop", "clear"})
      /\ \A x \in Slots : At(x, m, {"withdraw", "revoke"})' <=> IF x = r THEN q.op \in {"withdraw", "revoke"} ELSE At(x, m, {"withdraw", "revoke"})
      /\ Pinning(m)' <=> q.op \in PinOps \/ \E x \in Slots \ {r} : At(x, m, PinOps)
      /\ Unpinning(m)' <=> q.op \in UnpinOps \/ \E x \in Slots \ {r} : At(x, m, UnpinOps)
      /\ Pinning(m) <=> chatReq[r].op \in PinOps \/ \E x \in Slots \ {r} : At(x, m, PinOps)
      /\ Unpinning(m) <=> chatReq[r].op \in UnpinOps \/ \E x \in Slots \ {r} : At(x, m, UnpinOps)
  BY <1>4, TurnSeen
<1>6. /\ message' \in [Messages -> Message] /\ \A x \in Messages \ {m} : message'[x] = message[x]
      /\ message'[m].pinned => /\ message[m].pinned
                               /\ ~(chatReq[r].op = "clear" \/ chatReq[r].was)
  <2>1. message \in [Messages -> Message] /\ message[m] \in Message /\ chatReq[r] \in ChatRequest
    BY ChatTypes
  <2>2. CASE UnpinClear(r)
    <3>1. message' = [message EXCEPT ![m].pinned = FALSE]
      BY <1>2, <2>2 DEF UnpinClear
    <3> QED
      BY <2>1, <3>1 DEF Message
  <2>3. CASE RevokeSave(r)
    <3>1. /\ message' = [message EXCEPT ![m].revoked = TRUE,
                                        ![m].pinned = @ /\ ~chatReq[r].was,
                                        ![m].file = @ /\ ~chatReq[r].file]
          /\ chatReq[r].op = "revoke"
      BY <1>2, <2>3 DEF RevokeSave
    <3>2. chatReq[r].was \in BOOLEAN /\ chatReq[r].file \in BOOLEAN
      BY <2>1 DEF ChatRequest
    <3>3. message' = [message EXCEPT ![m] = [@ EXCEPT !.revoked = TRUE,
             !.pinned = message[m].pinned /\ ~chatReq[r].was, !.file = message[m].file /\ ~chatReq[r].file]]
      BY <2>1, <3>1 DEF Message
    <3>4. message'[m].pinned = (message[m].pinned /\ ~chatReq[r].was)
      BY <2>1, <3>3 DEF Message
    <3>5. message' \in [Messages -> Message] /\ \A x \in Messages \ {m} : message'[x] = message[x]
      BY <2>1, <3>2, <3>3 DEF Message
    <3> QED
      BY <2>1, <3>1, <3>2, <3>4, <3>5 DEF Message
  <2> QED
    BY <2>2, <2>3
<1>7. ASSUME m \notin mixed
      PROVE  PinsPending(m)'
  <2>1. Unpinning(m) /\ PinsPending(m)
    BY <1>1, <1>5, <1>7 DEF UnpinOps, ChatInv, PinsAccounted
  <2>2. ~Pinning(m)'
    BY <1>1, <1>2, <1>5, <2>1 DEF UnpinOps, PinOps, PinsPending
  <2>3. ASSUME m \in pins
        PROVE  \E x \in Slots : At(x, m, {"drop", "withdraw"})'
    <3>1. PICK x \in Slots : At(x, m, {"drop", "withdraw"})
      BY <2>1, <2>3 DEF PinsPending
    <3>2. x # r
      BY <1>1, <3>1 DEF At
    <3> QED
      BY <1>5, <3>1, <3>2
  <2>4. ASSUME message'[m].pinned
        PROVE  \E x \in Slots : \/ At(x, m, {"drop", "clear"})'
                                \/ At(x, m, {"withdraw", "revoke"})' /\ chatReq'[x].was
    <3>1. message[m].pinned /\ ~(chatReq[r].op = "clear" \/ chatReq[r].was)
      BY <1>6, <2>4
    <3>2. PICK x \in Slots : \/ At(x, m, {"drop", "clear"})
                             \/ At(x, m, {"withdraw", "revoke"}) /\ chatReq[x].was
      BY <2>1, <3>1 DEF PinsPending
    <3>3. x # r
      BY <1>1, <3>1, <3>2 DEF At
    <3> QED
      BY <1>5, <3>2, <3>3
  <2>5. \A x \in Slots : /\ At(x, m, {"drop", "withdraw"})' \/ At(x, m, {"drop", "clear"})'
                               \/ At(x, m, {"withdraw", "revoke"})' => Unpinning(m)'
                         /\ At(x, m, {"mark", "resync"})' => Pinning(m)'
    BY DEF At, Pinning, Unpinning, PinOps, UnpinOps
  <2> QED
    BY <1>3, <2>2, <2>3, <2>4, <2>5 DEF PinsPending
<1>8. PinsFit'
  BY <1>3 DEF ChatInv, PinsFit
<1> QED
  BY <1>2, <1>3, <1>6, <1>7, <1>8, ChatTurn

LEMMA SendInv == ASSUME ChatInv, NEW m \in Messages, Send(m) PROVE ChatInv'
<1>1. /\ pins' = pins /\ chatReq' = chatReq /\ mixed' = mixed
      /\ message' \in [Messages -> Message]
      /\ \A x \in Messages : message'[x].pinned = message[x].pinned /\ message'[x].revoked = message[x].revoked
  <2>1. PICK file \in BOOLEAN : message' = [message EXCEPT ![m].sent = TRUE, ![m].file = file]
    BY DEF Send
  <2>2. message \in [Messages -> Message] /\ message[m] \in Message
    BY ChatTypes
  <2> QED
    BY <2>1, <2>2 DEF Send, Message
<1>2. ChatTypeOK' /\ PinsFit' /\ ChatRequestsFit'
  BY <1>1, ChatTypes DEF ChatInv, ChatTypeOK, PinsFit, ChatRequestsFit
<1>3. PinsAccounted'
  BY <1>1 DEF ChatInv, PinsAccounted, PinsPending, Pinning, Unpinning, At
<1> QED
  BY <1>2, <1>3 DEF ChatInv

LEMMA ChatStepInv == ChatInv /\ ChatStep => ChatInv'
<1> SUFFICES ASSUME ChatInv, ChatStep PROVE ChatInv'
  OBVIOUS
<1>1. CASE \E m \in Messages : Send(m)
  BY <1>1, SendInv
<1>2. ASSUME NEW r \in Slots,
             \/ \E m \in Messages : ReactReceive(r, m) \/ PinReceive(r, m) \/ UnpinReceive(r, m)
                                    \/ RevokeReceive(r, m)
             \/ ReactSave(r) \/ PinFind(r) \/ PinPush(r) \/ PinMark(r)
             \/ UnpinPull(r) \/ UnpinClear(r) \/ RevokePull(r) \/ RevokeSave(r)
             \/ ChatRequestFails(r)
      PROVE  ChatInv'
  <2>1. CASE ReactSave(r)
    BY <2>1, ChatNothingDone DEF ReactSave
  <2> QED
    BY <1>2, <2>1, ChatReceived, PinFindInv, PinPushInv, PinMarkInv, PullInv, ClearInv, ChatFailsInv
<1> QED
  BY <1>1, <1>2 DEF ChatStep

LEMMA ChatNextInv == ChatInv /\ [Next]_vars => ChatInv'
<1> SUFFICES ASSUME ChatInv, [Next]_vars PROVE ChatInv'
  OBVIOUS
<1>1. CASE ChangeChat
  BY <1>1, ChatStepInv DEF ChangeChat
<1>2. ASSUME UNCHANGED chatVars
      PROVE  ChatInv'
  <2>1. message' = message /\ pins' = pins /\ chatReq' = chatReq /\ mixed' = mixed
    BY <1>2 DEF chatVars
  <2> QED
    BY <2>1 DEF ChatInv, ChatTypeOK, PinsFit, ChatRequestsFit, PinsAccounted, PinsPending, Pinning,
       Unpinning, At
<1>3. CASE ChangeRoom \/ ChangePoll \/ ChangeSubmission
  BY <1>2, <1>3 DEF ChangeRoom, ChangePoll, ChangeSubmission
<1>4. CASE Rest \/ UNCHANGED vars
  BY <1>2, <1>4 DEF Rest, vars
<1> QED
  BY <1>1, <1>3, <1>4 DEF Next

(* The invariant of the pins: what a request under way is still going to   *)
(* write accounts for every difference between the list and a message.     *)
THEOREM PinsInvariantHolds == Spec => []ChatInv
<1>1. Init => ChatInv
  <2> SUFFICES ASSUME Init PROVE ChatInv
    OBVIOUS
  <2>1. /\ message = [m \in Messages |-> NoMessage] /\ pins = {} /\ mixed = {}
        /\ chatReq = [r \in Slots |-> NoChatRequest]
    BY DEF Init, ChatInit
  <2>2. ChatTypeOK /\ ChatRequestsFit
    BY <2>1, NoChatTypes DEF ChatTypeOK, ChatRequestsFit, Message, NoMessage
  <2>3. PinsFit
    BY <2>1, FS_EmptySet, ChatAssumption DEF PinsFit
  <2>4. PinsAccounted
    BY <2>1, NoChatTypes DEF PinsAccounted, PinsPending, Pinning, Unpinning, At, PinOps, UnpinOps, NoMessage
  <2> QED
    BY <2>2, <2>3, <2>4 DEF ChatInv
<1>2. ChatInv /\ [Next]_vars => ChatInv'
  BY ChatNextInv
<1> QED
  BY <1>1, <1>2, PTL DEF Spec

(* Never more than MaxPins messages are pinned, however many are pinned at *)
(* once, and list and message agree but for the accidents that history     *)
(* names.                                                                  *)
THEOREM PinsKeptAlways == Spec => []PinsKept
<1>1. ChatInv => PinsKept
  <2> SUFFICES ASSUME ChatInv PROVE PinsKept
    OBVIOUS
  <2>1. PinsWithinLimit
    BY DEF ChatInv, PinsFit, PinsWithinLimit
  <2>2. ASSUME NEW m \in Messages \ mixed, ~Pinning(m), ~Unpinning(m)
        PROVE  (m \in pins <=> message[m].pinned) /\ (message[m].revoked => m \notin pins)
    <3>1. PinsPending(m)
      BY DEF ChatInv, PinsAccounted
    <3>2. \A r \in Slots : ~At(r, m, {"mark", "resync"})
      BY <2>2 DEF At, Pinning, PinOps
    <3> QED
      BY <2>2, <3>1, <3>2, ChatTypes DEF PinsPending, Message
  <2> QED
    BY <2>1, <2>2 DEF PinsKept, PinsAgree
<1> QED
  BY <1>1, PinsInvariantHolds, PTL

==============================================================================
