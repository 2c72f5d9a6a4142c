------------------------------ MODULE Submissions -----------------------------
(***************************************************************************)
(* The work a student hands in for an assignment (AssignmentsService): a   *)
(* file assignment has one submission, a quiz one for each attempt, told   *)
(* apart by attemptNumber, which is unique. The student and the teachers   *)
(* send requests; each finds a submission and saves it, creates or deletes *)
(* it. Dates, time limits and who may do what can only refuse a request,   *)
(* which changes nothing.                                                  *)
(***************************************************************************)
EXTENDS Documents

CONSTANTS
    MaxAttempts,          \* attempts of the student that are followed
    Marks,                \* points for the choice questions, or for a whole submission
    Markings,             \* marks one request gives to the essays, or to some of them
    MaxSubmissionRequests

VARIABLES
    kind,       \* what the assignment is and what it allows
    sub,        \* the submission of each attempt
    subReq,     \* what each request is doing
    handed,     \* history: how often each attempt was handed in
    resets,     \* history: how often it was taken back
    rivals,     \* history: who found no open attempt while one was being made
    hasty,      \* history: attempts with a score saved on an old reading, or as a whole
    partial     \* history: attempts marked last by a request that left out a marked essay

submissionVars == <<kind, sub, subReq, handed, resets, rivals, hasty, partial>>

Attempts == 1..MaxAttempts
Undefined == -1
Score == Nat \cup {Undefined}
Questions == {1, 2}       \* the essay questions: one that is marked and one left out

Kind == [quiz : BOOLEAN, many : BOOLEAN, essay : BOOLEAN]

(* in is whether submittedAt is set; mcq is quizScore; essay are the       *)
(* scores kept with the essay answers; noted is whether there is feedback. *)
Submission == [there : BOOLEAN, started : BOOLEAN, in : BOOLEAN, mcq : Score,
               essay : [Questions -> Nat], score : Score, noted : BOOLEAN,
               grading : {"none", "auto_graded", "pending_manual", "graded"}]
NoEssay == [i \in Questions |-> 0]
NoSubmission == [there |-> FALSE, started |-> FALSE, in |-> FALSE, mcq |-> Undefined,
                 essay |-> NoEssay, score |-> Undefined, noted |-> FALSE, grading |-> "none"]
Unsubmitted == [NoSubmission EXCEPT !.there = TRUE]

(* n is the attempt, or 0 when there is none (any more); mark and total    *)
(* are what is to be saved; marks are those a request gives to essays, or  *)
(* Undefined, and writes the answers whose mark it changes.                *)
SubmissionRequest ==
    [op : {"none", "count", "create", "upsert", "begin", "handIn", "file", "mark",
           "grade", "gradeNew", "reset", "delete"},
     n : Attempts \cup {0}, mark : Score, total : Nat, plain : BOOLEAN,
     marks : [Questions -> Score], writes : SUBSET Questions]
NoSubRequest == [op |-> "none", n |-> 0, mark |-> 0, total |-> 0, plain |-> FALSE,
                 marks |-> NoEssay, writes |-> {}]

ASSUME SubmissionAssumption ==
    MaxAttempts \in Nat /\ Marks \subseteq Nat /\ Markings \subseteq [Questions -> Score]

SubmissionTypeOK ==
    /\ kind \in Kind
    /\ sub \in [Attempts -> Submission]
    /\ subReq \in [Slots -> SubmissionRequest]
    /\ handed \in [Attempts -> Nat]
    /\ resets \in [Attempts -> Nat]
    /\ rivals \in Nat
    /\ hasty \subseteq Attempts
    /\ partial \subseteq Attempts

SubmissionInit ==
    /\ kind \in {k \in Kind : ~k.quiz => ~k.many /\ ~k.essay}
    /\ sub = [n \in Attempts |-> NoSubmission]
    /\ subReq = [r \in Slots |-> NoSubRequest]
    /\ handed = [n \in Attempts |-> 0]
    /\ resets = [n \in Attempts |-> 0]
    /\ rivals = 0
    /\ hasty = {}
    /\ partial = {}

There == {n \in Attempts : sub[n].there}
Open == {n \in There : ~sub[n].in}
First(S) == CHOOSE n \in S : \A m \in S : n <= m
Holding(n) == {r \in Slots : subReq[r].n = n}
Doing(r, op) == subReq[r].op = op
SubTurn(r, q) == subReq' = [subReq EXCEPT ![r] = q]
SubHistory == <<handed, resets, rivals, hasty, partial>>

SubReceive(r, q) ==
    /\ subReq[r] = NoSubRequest
    /\ asked < MaxSubmissionRequests
    /\ asked' = asked + 1
    /\ SubTurn(r, q)

SubDone(r) == SubTurn(r, NoSubRequest) /\ UNCHANGED <<kind, asked>>

(* A new document; two of one attempt are refused by the index. *)
Create(n, doc) ==
    /\ n \in Attempts \ There
    /\ sub' = [sub EXCEPT ![n] = doc]
    /\ handed' = [handed EXCEPT ![n] = IF doc.in THEN 1 ELSE 0]
    /\ resets' = [resets EXCEPT ![n] = 0]
    /\ hasty' = hasty \ {n}
    /\ partial' = partial \ {n}

Creating == {x \in Slots : subReq[x].op \in {"count", "create", "gradeNew"}}

(***************************************************************************)
(* startQuiz.                                                              *)
(***************************************************************************)
(* Mutant: an open attempt is not looked for. *)
StartReceiveAnother(r) ==
    /\ kind.many /\ Cardinality(There) + Cardinality(Creating) < MaxAttempts
    /\ SubReceive(r, [NoSubRequest EXCEPT !.op = "count"])
    /\ UNCHANGED <<kind, sub, SubHistory, stale>>

StartReceive(r) ==
    /\ kind.quiz
    /\ CASE Open # {} /\ ~sub[First(Open)].started ->
                SubReceive(r, [NoSubRequest EXCEPT !.op = "begin", !.n = First(Open)])
         [] Open = {} /\ kind.many /\ Cardinality(There) + Cardinality(Creating) < MaxAttempts ->
                SubReceive(r, [NoSubRequest EXCEPT !.op = "count"])
         [] Open = {} /\ ~kind.many /\ There = {} ->
                SubReceive(r, [NoSubRequest EXCEPT !.op = "upsert"])
         [] OTHER -> FALSE
    /\ rivals' = IF Open = {} /\ Creating # {} THEN rivals + 1 ELSE rivals
    /\ UNCHANGED <<kind, sub, handed, resets, hasty, partial, stale>>

StartBegin(r) ==
    /\ Doing(r, "begin") /\ subReq[r].n # 0
    /\ sub' = [sub EXCEPT ![subReq[r].n].started = TRUE]
    /\ SavePlain(r) /\ SubDone(r)
    /\ UNCHANGED SubHistory

(* findOneAndUpdate with upsert: made unless there is one by now. *)
StartUpsert(r) ==
    /\ Doing(r, "upsert")
    /\ IF There = {} THEN Create(1, [Unsubmitted EXCEPT !.started = TRUE])
       ELSE UNCHANGED <<sub, handed, resets, hasty, partial>>
    /\ SubDone(r)
    /\ UNCHANGED <<rivals, stale>>

StartCount(r) ==
    /\ Doing(r, "count")
    /\ SubTurn(r, [NoSubRequest EXCEPT !.op = "create", !.mark = Cardinality(There) + 1])
    /\ UNCHANGED <<kind, sub, SubHistory, documentVars>>

StartCreate(r) ==
    /\ Doing(r, "create")
    /\ Create(subReq[r].mark, [Unsubmitted EXCEPT !.started = TRUE])
    /\ SubDone(r)
    /\ UNCHANGED <<rivals, stale>>

(***************************************************************************)
(* submitQuiz, and submit of a file assignment.                            *)
(***************************************************************************)
HandInReceive(r, mark) ==
    /\ kind.quiz /\ Open # {}
    /\ SubReceive(r, [NoSubRequest EXCEPT !.op = "handIn", !.n = First(Open), !.mark = mark])
    /\ UNCHANGED <<kind, sub, SubHistory, stale>>

(* Mutant: a grading status the schema does not know. *)
HandedInUngraded(n, mark) ==
    [sub[n] EXCEPT !.in = TRUE, !.mcq = mark, !.grading = "submitted"]

HandedIn(n, mark) ==
    [sub[n] EXCEPT !.in = TRUE, !.mcq = mark, !.essay = NoEssay,
                   !.score = IF kind.essay THEN @ ELSE mark,
                   !.grading = IF kind.essay THEN "pending_manual" ELSE "auto_graded"]

(* Mutant: the answers are saved whatever the version. *)
HandInAnyway(r) ==
    /\ Doing(r, "handIn") /\ subReq[r].n # 0
    /\ LET n == subReq[r].n IN
       /\ SavePushing(r, Holding(n))
       /\ sub' = [sub EXCEPT ![n] = HandedIn(n, subReq[r].mark)]
       /\ handed' = [handed EXCEPT ![n] = @ + 1]
    /\ SubDone(r)
    /\ UNCHANGED <<resets, rivals, hasty, partial>>

(* The answers are replaced. *)
HandIn(r) ==
    /\ Doing(r, "handIn") /\ subReq[r].n # 0
    /\ LET n == subReq[r].n IN
       /\ SaveReplacing(r, Holding(n))
       /\ sub' = [sub EXCEPT ![n] = HandedIn(n, subReq[r].mark)]
       /\ handed' = [handed EXCEPT ![n] = @ + 1]
    /\ SubDone(r)
    /\ UNCHANGED <<resets, rivals, hasty, partial>>

FileReceive(r) ==
    /\ ~kind.quiz
    /\ SubReceive(r, [NoSubRequest EXCEPT !.op = "file", !.n = IF There = {} THEN 0 ELSE First(There),
                                          !.plain = There = {}])
    /\ UNCHANGED <<kind, sub, SubHistory, stale>>

(* The attachments are replaced; or the submission is created. *)
FileSave(r) ==
    /\ Doing(r, "file")
    /\ IF subReq[r].plain
       THEN /\ Create(1, [Unsubmitted EXCEPT !.in = TRUE])
            /\ stale' = stale
       ELSE /\ subReq[r].n # 0
            /\ SaveReplacing(r, Holding(subReq[r].n))
            /\ sub' = [sub EXCEPT ![subReq[r].n].in = TRUE]
            /\ handed' = [handed EXCEPT ![subReq[r].n] = @ + 1]
            /\ UNCHANGED <<resets, hasty, partial>>
    /\ SubDone(r)
    /\ UNCHANGED rivals

(***************************************************************************)
(* grade, gradeStudent and gradeEssayQuestion.                             *)
(***************************************************************************)
(* A submission by its id, or the first of the student, or none yet. A     *)
(* request without a score leaves feedback, or an empty one.               *)
GradeReceive(r, mark, note) ==
    /\ \/ /\ \E n \in There : SubReceive(r, [NoSubRequest EXCEPT !.op = "grade", !.n = n,
                                                        !.mark = mark, !.plain = note])
          /\ rivals' = rivals
       \/ /\ There = {}
          /\ SubReceive(r, [NoSubRequest EXCEPT !.op = "gradeNew", !.mark = mark, !.plain = note])
          /\ rivals' = IF Creating # {} THEN rivals + 1 ELSE rivals
    /\ UNCHANGED <<kind, sub, handed, resets, hasty, partial, stale>>

Graded(doc, q) ==
    IF q.mark = Undefined THEN [doc EXCEPT !.noted = q.plain] ELSE [doc EXCEPT !.score = q.mark]

GradeSave(r) ==
    /\ Doing(r, "grade") /\ subReq[r].n # 0
    /\ sub' = [sub EXCEPT ![subReq[r].n] = Graded(@, subReq[r])]
    /\ hasty' = IF subReq[r].mark = Undefined THEN hasty ELSE hasty \cup {subReq[r].n}
    /\ SavePlain(r) /\ SubDone(r)
    /\ UNCHANGED <<handed, resets, rivals, partial>>

GradeCreate(r) ==
    /\ Doing(r, "gradeNew")
    /\ Create(1, Graded(Unsubmitted, subReq[r]))
    /\ SubDone(r)
    /\ UNCHANGED <<rivals, stale>>

Given(marks, i) == IF marks[i] = Undefined THEN 0 ELSE marks[i]

(* The marks are kept with the answers, in their places, if there are      *)
(* answers and they had other marks.                                       *)
Marking(n, marks, total) ==
    LET writes == {i \in Questions : marks[i] \notin {Undefined, sub[n].essay[i]}
                                        /\ sub[n].mcq # Undefined}
    IN  [NoSubRequest EXCEPT !.op = "mark", !.n = n, !.total = total, !.marks = marks,
                             !.writes = writes, !.plain = writes = {}]

(* Mutant: the points of the choice questions are forgotten. *)
MarkReceiveAlone(r, marks) ==
    /\ kind.essay /\ There # {}
    /\ SubReceive(r, Marking(First(There), marks, Given(marks, 1) + Given(marks, 2)))
    /\ UNCHANGED <<kind, sub, SubHistory, stale>>

(* The marks of the request, and no others, are added to the points read.  *)
MarkReceive(r, marks) ==
    /\ kind.essay /\ There # {}
    /\ LET n == First(There)
           points == IF sub[n].mcq = Undefined THEN 0 ELSE sub[n].mcq IN
       SubReceive(r, Marking(n, marks, points + Given(marks, 1) + Given(marks, 2)))
    /\ UNCHANGED <<kind, sub, SubHistory, stale>>

Marked(q) ==
    [sub[q.n] EXCEPT !.essay = [i \in Questions |-> IF i \in q.writes THEN q.marks[i] ELSE @[i]],
                     !.score = q.total, !.grading = "graded"]

(* History: what the request saves counts other marks than the answers     *)
(* will have, or leaves out an answer that has one.                        *)
Outdated(q, r) ==
    \/ q.plain /\ (r \in stale \/ sub[q.n].mcq = Undefined)
    \/ \E i \in Questions : q.marks[i] \notin {Undefined, Marked(q).essay[i]}
LeavesOut(q) == \E i \in Questions : q.marks[i] = Undefined /\ sub[q.n].essay[i] # 0

MarkSave(r) ==
    /\ Doing(r, "mark") /\ subReq[r].n # 0
    /\ LET q == subReq[r] IN
       /\ sub' = [sub EXCEPT ![q.n] = Marked(q)]
       /\ IF q.plain THEN SavePlain(r) ELSE SaveInPlace(r)
       /\ hasty' = IF Outdated(q, r) THEN hasty \cup {q.n} ELSE hasty \ {q.n}
       /\ partial' = IF LeavesOut(q) THEN partial \cup {q.n} ELSE partial \ {q.n}
    /\ SubDone(r)
    /\ UNCHANGED <<handed, resets, rivals>>

(***************************************************************************)
(* deleteSubmission.                                                       *)
(***************************************************************************)
(* A submission with a score or feedback is kept and only taken back. *)
DeleteReceive(r) ==
    /\ There # {}
    /\ LET n == First(There) IN
       SubReceive(r, [NoSubRequest EXCEPT !.n = n,
                      !.op = IF sub[n].score # Undefined \/ sub[n].noted THEN "reset"
                             ELSE "delete",
                      !.plain = kind.quiz])
    /\ UNCHANGED <<kind, sub, SubHistory, stale>>

(* The attachments, if there are any, are replaced by none. *)
ResetSave(r) ==
    /\ Doing(r, "reset") /\ subReq[r].n # 0
    /\ LET n == subReq[r].n IN
       /\ IF subReq[r].plain THEN SavePlain(r) ELSE SaveReplacing(r, Holding(n))
       /\ sub' = [sub EXCEPT ![n].in = FALSE]
       /\ resets' = [resets EXCEPT ![n] = @ + 1]
    /\ SubDone(r)
    /\ UNCHANGED <<handed, rivals, hasty, partial>>

(* deleteOne; who holds the document cannot save it any more. *)
DeleteSave(r) ==
    /\ Doing(r, "delete") /\ subReq[r].n # 0
    /\ LET n == subReq[r].n IN
       /\ sub' = [sub EXCEPT ![n] = NoSubmission]
       /\ subReq' = [x \in Slots |-> IF x = r THEN NoSubRequest
                                     ELSE IF subReq[x].n = n THEN [subReq[x] EXCEPT !.n = 0]
                                     ELSE subReq[x]]
       /\ stale' = stale \ {r}
    /\ UNCHANGED <<kind, asked, SubHistory>>

(* A VersionError, a document that is gone, or one that is there already.  *)
Gone(r) == subReq[r].n = 0 /\ ~subReq[r].plain
Taken(r) ==
    \/ Doing(r, "create") /\ subReq[r].mark \in There
    \/ (Doing(r, "gradeNew") \/ (Doing(r, "file") /\ subReq[r].plain)) /\ 1 \in There

SubmissionFails(r) ==
    /\ \/ subReq[r].op \in {"begin", "handIn", "grade", "mark", "reset", "delete"}
          /\ subReq[r].n = 0
       \/ Doing(r, "file") /\ Gone(r)
       \/ r \in stale /\ (subReq[r].op = "handIn"
                          \/ (subReq[r].op \in {"file", "mark", "reset"} /\ ~subReq[r].plain))
       \/ Taken(r)
    /\ stale' = stale \ {r}
    /\ SubDone(r)
    /\ UNCHANGED <<sub, SubHistory>>

SubmissionStep == \E r \in Slots :
    \/ StartReceive(r) \/ StartBegin(r) \/ StartUpsert(r) \/ StartCount(r) \/ StartCreate(r)
    \/ \E mark \in Marks : HandInReceive(r, mark) \/ GradeReceive(r, mark, FALSE)
    \/ \E note \in BOOLEAN : GradeReceive(r, Undefined, note)
    \/ \E marks \in Markings : MarkReceive(r, marks)
    \/ HandIn(r) \/ FileReceive(r) \/ FileSave(r)
    \/ GradeSave(r) \/ GradeCreate(r) \/ MarkSave(r)
    \/ DeleteReceive(r) \/ ResetSave(r) \/ DeleteSave(r) \/ SubmissionFails(r)

SubmissionsRest == \A r \in Slots : subReq[r] = NoSubRequest

(***************************************************************************)
(* Properties.                                                             *)
(***************************************************************************)
(* An attempt at a quiz is handed in once, and again only after it was     *)
(* taken back, however many hand-ins found it open.                        *)
HandedInOnce ==
    kind.quiz => \A n \in There : handed[n] <= 1 + resets[n]

Total(n) == sub[n].mcq + sub[n].essay[1] + sub[n].essay[2]
IsMarked(n) == sub[n].grading = "graded" /\ sub[n].in

(* The score of a quiz whose essays were marked is the points of the       *)
(* answers that were handed in and the marks kept with its essays; it is   *)
(* never more, and less only when the last marks were given by a request   *)
(* that left out an essay marked before: the total ("MCQ + essay",         *)
(* assignments.service.ts:1384) counts the marks it names. Excepted is an attempt whose      *)
(* score was given as a whole, or marked before it was handed in, or by a  *)
(* request that did not write a mark because it had found it in place and  *)
(* somebody changed it meanwhile.                                          *)
ScoreIsSum ==
    \A n \in There \ hasty : IsMarked(n) =>
        /\ sub[n].score <= Total(n)
        /\ n \notin partial => sub[n].score = Total(n)

(* A student has one attempt open at a time, but for starts (or a grade    *)
(* given before the first one) that were served at once and for attempts   *)
(* that were taken back.                                                   *)
OneOpenAttempt ==
    kind.quiz => Cardinality(Open) <= 1 + rivals + Cardinality({n \in There : resets[n] > 0})
==============================================================================
