----------------------------- MODULE MCAttendance -----------------------------
(* Attendance on one or two users and workers. *)
EXTENDS Attendance, TLC
WorkerSymmetry == Permutations(Workers)
==============================================================================
