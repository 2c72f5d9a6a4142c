---------------------------- MODULE SharedDocuments ---------------------------
(***************************************************************************)
(* Documents that several users change at once: a room, a poll, the        *)
(* submissions of an assignment and the messages of a conversation. No     *)
(* request concerns two of them, so that each behaviour is about one, the  *)
(* topic.                                                                  *)
(***************************************************************************)
EXTENDS Rooms, Polls, Submissions, DirectChat

VARIABLE topic

vars == <<documentVars, roomVars, pollVars, submissionVars, chatVars, topic>>

Topics == {"room", "poll", "submission", "chat"}

Init ==
    /\ DocumentInit /\ RoomInit /\ PollInit /\ SubmissionInit /\ ChatInit
    /\ topic \in Topics
    /\ topic # "room" => \A u \in Users \ {owner} : members[u] = <<>>
    /\ topic # "submission" => kind = [quiz |-> FALSE, many |-> FALSE, essay |-> FALSE]

ChangeRoom ==
    /\ topic = "room" /\ RoomStep
    /\ UNCHANGED <<pollVars, submissionVars, chatVars, topic>>

ChangePoll ==
    /\ topic = "poll" /\ PollStep
    /\ UNCHANGED <<roomVars, submissionVars, chatVars, topic>>

ChangeSubmission ==
    /\ topic = "submission" /\ SubmissionStep
    /\ UNCHANGED <<roomVars, pollVars, chatVars, topic>>

ChangeChat ==
    /\ topic = "chat" /\ ChatStep
    /\ UNCHANGED <<roomVars, pollVars, submissionVars, topic>>

(* Nothing is under way: the server waits for the next request. *)
Rest ==
    /\ BusyRooms = {} /\ PollsRest /\ SubmissionsRest /\ ChatRests
    /\ UNCHANGED vars

Next == ChangeRoom \/ ChangePoll \/ ChangeSubmission \/ ChangeChat \/ Rest

Spec == Init /\ [][Next]_vars

TypeOK == DocumentTypeOK /\ RoomTypeOK /\ PollTypeOK /\ SubmissionTypeOK /\ ChatTypeOK
==============================================================================
