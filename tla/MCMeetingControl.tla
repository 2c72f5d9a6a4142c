--------------------------- MODULE MCMeetingControl ---------------------------
(***************************************************************************)
(* Instances of MeetingControl for TLC.                                    *)
(***************************************************************************)
EXTENDS MeetingControl, TLC

(* A start comes with one sub room or with two, so that one may leave out  *)
(* a room of the session it replaces; with two, both have lists, so that   *)
(* two assignments may meet.                                               *)
OneOrTwo == {<<Free>>, <<{}, {}>>}

OneFree == {<<Free>>}

(* Breakout sessions are followed until two operations have disturbed each *)
(* other: from then on their properties say nothing any more.              *)
Followed == topic = "breakout" => Undisturbed

(* The last request is one more about breakout sessions, and nothing fails *)
(* in a behaviour that has it.                                             *)
Budget == asked < MaxAsked \/ (topic = "breakout" /\ faults = 0)
==============================================================================
