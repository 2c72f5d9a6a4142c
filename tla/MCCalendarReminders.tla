------------------------- MODULE MCCalendarReminders -------------------------
(* CalendarReminders for one event; the executions of the scan are alike. *)
EXTENDS CalendarReminders, TLC
ScanSymmetry == Permutations(Scans)
==============================================================================
