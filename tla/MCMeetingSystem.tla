--------------------------- MODULE MCMeetingSystem ----------------------------
(* MeetingSystem on a few users, requests and workers. *)
EXTENDS MeetingSystem, TLC
WorkerRequestSymmetry == Permutations(Workers) \cup Permutations(Reqs)

(* Behaviours without breakout sessions: a mark only keeps a job from     *)
(* closing the room.                                                       *)
Unmarked == ~room.breakout
==============================================================================
