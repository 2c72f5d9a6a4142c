--------------------------- MODULE SessionRegister ----------------------------
(***************************************************************************)
(* What the back end promises about the sessions of a meeting code, and    *)
(* all that recordings, polls, invitations and attendance rely on: they    *)
(* are opened one after another, each in turn, only when none is open, and *)
(* an ended one stays ended.                                               *)
(***************************************************************************)
EXTENDS Integers

CONSTANT MaxSessions

VARIABLE sess

RegisterInit == sess = [s \in 1..MaxSessions |-> "unborn"]

Open(s) ==
    /\ \A t \in 1..MaxSessions :
          sess[t] = IF t < s THEN "ended" ELSE "unborn"
    /\ sess' = [sess EXCEPT ![s] = "ongoing"]

End(s) ==
    /\ sess[s] = "ongoing"
    /\ sess' = [sess EXCEPT ![s] = "ended"]

RegisterNext == \E s \in 1..MaxSessions : Open(s) \/ End(s)

RegisterSpec == RegisterInit /\ [][RegisterNext]_sess
==============================================================================
