---------------------------- MODULE MeetingControl ----------------------------
(***************************************************************************)
(* What is done to a running meeting: breakout sessions, recordings, the   *)
(* waiting room and screen sharing, with the plain settings. What they     *)
(* have in common is the metadata of the main room, which each writes as a *)
(* whole; the topic of a behaviour says which of them is at work in it     *)
(* next to requests for settings, which stand for the writes of the        *)
(* others.                                                                 *)
(***************************************************************************)
EXTENDS BreakoutRooms, Recordings, Admission

CONSTANT Topics    \* which of them a run looks at

ASSUME TopicsAssumption == Topics \subseteq {"breakout", "recording", "admission"}

VARIABLE topic

vars == <<metaVars, breakoutVars, recordingVars, admissionVars, topic>>

Init ==
    /\ MetaInit /\ BreakoutInit /\ RecordingInit /\ AdmissionInit
    /\ topic \in Topics

Break(step) ==
    /\ topic = "breakout" /\ step
    /\ UNCHANGED <<recordingVars, admissionVars, topic>>

Record ==
    /\ topic = "recording" /\ RecordingStep
    /\ UNCHANGED <<breakoutVars, admissionVars, topic>>

Govern ==
    /\ topic = "admission" /\ AdmissionStep
    /\ UNCHANGED <<breakoutVars, recordingVars, topic>>

Set ==
    /\ SettingStep(BusyHosts \cup BusyCallers \cup BusyAdmins)
    /\ UNCHANGED <<breakoutVars, recordingVars, admissionVars, topic>>

(* Nothing is under way: the server waits for the next request. *)
Rest ==
    /\ AtRest /\ CallersRest /\ AdminsRest /\ SettersRest
    /\ UNCHANGED vars

Next == Break(BreakoutStep) \/ Record \/ Govern \/ Set \/ Rest

(* A request that was received is served, and BullMQ hands a job that is   *)
(* due to a worker, which runs it: steps that all show in run.             *)
Fairness ==
    /\ WF_run(topic = "breakout" /\ RunTimer)
    /\ \A r \in Hosts : WF_run(topic = "breakout" /\ Serve(r))

Spec == Init /\ [][Next]_vars /\ Fairness

TypeOK == MetaTypeOK /\ BreakoutTypeOK /\ RecordingTypeOK /\ AdmissionTypeOK
==============================================================================
