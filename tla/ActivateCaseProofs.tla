------------------------- MODULE ActivateCaseProofs -------------------------
(* What holds of prepare-case and activate-case for any branches, numbers  *)
(* of iterations and commands. The two theorems about evidence are about   *)
(* commands without --results-dir.                                         *)
EXTENDS ActivateCase, TLAPS

USE DEF fixtures, evidence, given, vars

InLoop == {"collecting", "looping", "judging", "publishing"}
InActivation == {"activating", "writing", "checking", "restoring"}

(* Which command does what, and for which of the two cases.                *)
CommandInv ==
  /\ pc # "idle" => outcome = "none"
  /\ pc = "sibling" =>
       command.dir = "backport" /\ loop.about = "backport" /\ triage.status = "none"
  /\ pc \in InLoop \cup {"sibling"} => command.kind = "prepare"
  /\ pc \in InLoop =>
       \/ loop.about = command.dir
       \/ command.dir = "backport" /\ loop.about = "triage" /\ triage.status = "none"
  /\ pc = "publishing" => loop.about # command.dir
  /\ pc \in InActivation /\ command.kind = "activate" => target = command.dir
  /\ pc \in InActivation => command.kind # "none"
  /\ pc \in InActivation /\ command.kind = "prepare" => loop.about = command.dir
  /\ pc \in InLoop \cup InActivation /\ command.kind = "prepare" /\ loop.about = command.dir =>
       (command.dir = "backport" <=> triage.status # "none")
  /\ pc \in InActivation /\ command.kind = "prepare" /\ target # command.dir =>
       command.dir = "backport"

(* The case being activated, and the sibling that comes before it.         *)
StatusInv ==
  /\ pc = "writing" => status[target] = "quarantined"
  /\ pc \in {"checking", "restoring"} => status[target] = "active"
  /\ pc \in InActivation /\ command.kind = "prepare" /\ command.dir = "backport"
       /\ target = "backport" => status["triage"] = "active"

(* What the command has activated so far.                                  *)
ActivatedInv ==
  pc # "idle" \/ outcome \in {"failed", "unproven"} =>
    \A d \in Dir : status[d] = "active" /\ started[d] # "active" =>
      \/ command.kind = "prepare" /\ command.dir = "backport" /\ d = "triage"
      \/ pc \in {"checking", "restoring"} /\ d = target

(* A report that is looked at is there.                                    *)
JudgedInv == pc \in {"judging", "publishing"} => loop.iteration \in Iterations

IInv == TypeOK /\ JudgedInv /\ CommandInv /\ StatusInv /\ ActivatedInv
-----------------------------------------------------------------------------
(* Without --results-dir the reports are where the loop left them.                               *)

Judged == {"judging", "publishing"} \cup InActivation

LoopReportInv ==
  pc \in Judged /\ command.kind = "prepare" =>
    /\ loop.iteration \in Iterations
    /\ LastReport.fresh /\ LastReport.about = loop.about
    /\ pc \in {"writing", "checking", "restoring"} /\ target = command.dir =>
         LastReport.verdict = "passed"

TriageReportInv ==
  pc # "idle" /\ triage.status = "generated" =>
    LET r == reports["triage"][triage.iteration]
    IN  /\ triage.iteration \in Iterations
        /\ command.kind = "prepare" /\ command.dir = "backport" /\ loop.about = "backport"
        /\ r.about = "triage" /\ r.fresh /\ r.verdict = "passed" /\ r.found = triageResult

RInv ==
  /\ command.place = "own"
  /\ LoopReportInv
  /\ TriageReportInv
  /\ PassActivates
-----------------------------------------------------------------------------
(* Type correctness.                                                       *)

LEMMA AgeType == TypeOK => \A d \in Dir : Age(d) => /\ reports' \in [Dir \cup {"given"} -> [Iterations -> Report]]
                                                     /\ newest' \in [Dir \cup {"given"} -> 0 .. MaxIterations]
<1> SUFFICES ASSUME TypeOK, NEW d \in Dir
             PROVE  Aged(d) \in [Dir \cup {"given"} -> [Iterations -> Report]]
  BY DEF Age, TypeOK
<1>1. ASSUME NEW p \in Dir \cup {"given"}, NEW i \in Iterations
      PROVE  (IF reports[p][i].about = d THEN [reports[p][i] EXCEPT !.fresh = FALSE]
              ELSE reports[p][i]) \in Report
  <2>1. reports[p][i] \in Report
    BY DEF TypeOK
  <2> QED
    BY <2>1 DEF Report
<1> QED
  BY <1>1 DEF Aged

LEMMA InitType == Init => TypeOK
<1>1. NoReport \in Report
  BY DEF NoReport, Report, Dir, Answer
<1>2. Init => reports \in [Dir \cup {"given"} -> [Iterations -> Report]]
  BY <1>1 DEF Init
<1> QED
  BY <1>2, ActivateAssumption DEF Init, TypeOK, Command, Dir, Phase, Answer

LEMMA CompleteType ==
  ASSUME TypeOK, Complete
  PROVE  /\ branch' \in Answer /\ mock' \in Branches \cup {Missing}
         /\ completion' \in {"none", "silent", "warned"}
         /\ UNCHANGED <<status, triageResult>>
<1>1. Requested \in Answer
  BY DEF Requested, TypeOK, Answer
<1>2. CASE loop.about = "triage"
  BY <1>2 DEF TypeOK, Complete
<1>3. CASE loop.about # "triage"
  <2>1. branch' \in Answer
    BY <1>1, <1>3 DEF TypeOK, Complete
  <2>2. Requested # NoBranch => Requested \in Branches
    BY <1>1 DEF Answer
  <2> QED
    BY <1>3, <2>1, <2>2 DEF TypeOK, Complete
<1> QED
  BY <1>2, <1>3

LEMMA NextType == TypeOK /\ JudgedInv /\ [Next]_vars => TypeOK'
<1> SUFFICES ASSUME TypeOK, JudgedInv, [Next]_vars PROVE TypeOK'
  OBVIOUS
<1> USE ActivateAssumption DEF TypeOK, Phase, Dir
<1>1. ASSUME NEW d \in Dir, ActivateCommand(d) PROVE TypeOK'
  BY <1>1 DEF ActivateCommand, Begin, Command
<1>2. ASSUME NEW d \in Dir, PrepareCommand(d) PROVE TypeOK'
  BY <1>2 DEF PrepareCommand, Begin, Command
<1>3. ASSUME NEW d \in Dir, Edit(d) PROVE TypeOK'
  BY <1>3, AgeType DEF Edit
<1>4. CASE UseCached \/ PrepareSibling
  BY <1>4 DEF UseCached, PrepareSibling
<1>5. CASE Collect
  BY <1>5, AgeType DEF Collect
<1>6. CASE CompleteExisting \/ Capture
  BY <1>6, AgeType, CompleteType DEF CompleteExisting, Capture
<1>7. CASE Iterate
  <2>1. loop.iteration + 1 \in Iterations /\ loop.iteration + 1 \in 0 .. MaxIterations
    BY <1>7 DEF Iterate, Iterations
  <2>2. Place(loop.about) \in Dir \cup {"given"}
    BY DEF Place
  <2>3. reports' \in [Dir \cup {"given"} -> [Iterations -> Report]]
    BY <1>7, <2>1, <2>2 DEF Iterate, Run, Report
  <2> QED
    BY <1>7, <2>1, <2>2, <2>3 DEF Iterate, Run
<1>8. CASE Accept
  BY <1>8 DEF Accept, Finish, Command
<1>9. CASE Publish
  <2>1. LastReport \in Report
    BY <1>9 DEF Publish, JudgedInv, LastReport, Place
  <2> QED
    BY <1>9, <2>1 DEF Publish, Report
<1>10. CASE SkipActive \/ Refuse \/ RefuseUnproven \/ FindEvidence
  BY <1>10 DEF SkipActive, Refuse, RefuseUnproven, FindEvidence, Finish, Command
<1>11. CASE WriteActive \/ Activated \/ Reject \/ Restore
  BY <1>11 DEF WriteActive, Activated, Reject, Restore, Finish, Command
<1>12. CASE Fail \/ Die
  <2>1. CASE Partly
    <3>1. Requested \in Answer
      BY DEF Requested, Answer
    <3> QED
      BY <1>12, <2>1, <3>1, AgeType DEF Fail, Die, Finish, Partly
  <2>2. CASE Tear /\ UNCHANGED <<branch, mock>>
    BY <1>12, <2>2, AgeType DEF Fail, Die, Finish, Tear
  <2>3. CASE UNCHANGED <<fixtures, evidence>>
    BY <1>12, <2>3 DEF Fail, Die, Finish
  <2> QED
    BY <1>12, <2>1, <2>2, <2>3 DEF Fail, Die
<1>13. CASE UNCHANGED vars
  BY <1>13
<1> QED
  BY <1>1, <1>2, <1>3, <1>4, <1>5, <1>6, <1>7, <1>8, <1>9, <1>10, <1>11, <1>12, <1>13 DEF Next

LEMMA JudgedStep == ASSUME TypeOK, JudgedInv, [Next]_vars PROVE JudgedInv'
<1> USE DEF JudgedInv, Iterations
<1>1. CASE Iterate
  BY <1>1, ActivateAssumption DEF TypeOK, Iterate, Run
<1>2. CASE Next /\ ~Iterate
  BY <1>2 DEF Next, ActivateCommand, PrepareCommand, Begin, Edit, UseCached, PrepareSibling,
     Collect, CompleteExisting, Capture, Accept, Publish, Fail, Finish, SkipActive, Refuse,
     RefuseUnproven, FindEvidence, WriteActive, Activated, Reject, Restore, Die
<1> QED
  BY <1>1, <1>2

(* Every variable keeps its type.                                          *)
THEOREM TypeCorrect == Spec => []TypeOK
<1>1. Init => JudgedInv
  BY DEF Init, JudgedInv
<1> QED
  BY <1>1, InitType, NextType, JudgedStep, PTL DEF Spec
-----------------------------------------------------------------------------
(* The order of the two activations, and what failures leave.              *)

LEMMA CommandStep == ASSUME IInv, TypeOK', Next PROVE CommandInv'
<1> USE DEF IInv, CommandInv, InLoop, InActivation
<1>1. ASSUME NEW d \in Dir, ActivateCommand(d) \/ PrepareCommand(d) \/ Edit(d) PROVE CommandInv'
  BY <1>1 DEF ActivateCommand, PrepareCommand, Begin, Edit, Dir
<1>2. CASE UseCached \/ PrepareSibling
  BY <1>2 DEF UseCached, PrepareSibling, TypeOK, Dir
<1>3. CASE Collect \/ CompleteExisting \/ Capture \/ Iterate
  BY <1>3 DEF Collect, CompleteExisting, Capture, Iterate, Run, TypeOK, Dir
<1>4. CASE Accept
  BY <1>4 DEF Accept, Finish
<1>5. CASE Publish
  BY <1>5 DEF Publish
<1>6. CASE SkipActive \/ FindEvidence \/ WriteActive \/ Activated \/ Reject
  BY <1>6 DEF SkipActive, FindEvidence, WriteActive, Activated, Reject, Finish
<1>7. CASE Fail \/ Refuse \/ RefuseUnproven \/ Restore \/ Die
  BY <1>7 DEF Fail, Refuse, RefuseUnproven, Restore, Die, Finish
<1> QED
  BY <1>1, <1>2, <1>3, <1>4, <1>5, <1>6, <1>7 DEF Next

LEMMA StatusStep == ASSUME IInv, TypeOK', Next PROVE StatusInv'
<1> USE DEF IInv, StatusInv, CommandInv, InLoop, InActivation, TypeOK
<1>1. ASSUME NEW d \in Dir, ActivateCommand(d) \/ PrepareCommand(d) \/ Edit(d) PROVE StatusInv'
  BY <1>1 DEF ActivateCommand, PrepareCommand, Begin, Edit
<1>2. CASE UseCached \/ PrepareSibling \/ Collect \/ CompleteExisting \/ Capture \/ Iterate \/ Publish
  BY <1>2 DEF UseCached, PrepareSibling, Collect, CompleteExisting, Capture, Iterate, Run, Publish
<1>3. CASE Accept
  BY <1>3 DEF Accept, Finish
<1>4. CASE SkipActive \/ FindEvidence \/ WriteActive \/ Activated \/ Reject
  BY <1>4 DEF SkipActive, FindEvidence, WriteActive, Activated, Reject, Finish, Dir
<1>5. CASE Fail \/ Refuse \/ RefuseUnproven \/ Restore \/ Die
  BY <1>5 DEF Fail, Refuse, RefuseUnproven, Restore, Die, Finish
<1> QED
  BY <1>1, <1>2, <1>3, <1>4, <1>5 DEF Next

LEMMA ActivatedStep == ASSUME IInv, TypeOK', Next PROVE ActivatedInv'
<1> USE DEF IInv, ActivatedInv, StatusInv, CommandInv, InLoop, InActivation, TypeOK, Dir
<1>1. ASSUME NEW d \in Dir, ActivateCommand(d) \/ PrepareCommand(d) \/ Edit(d)
      PROVE  ActivatedInv'
  BY <1>1 DEF ActivateCommand, PrepareCommand, Begin, Edit
<1>2. CASE UseCached \/ PrepareSibling \/ Iterate \/ Publish
  BY <1>2 DEF UseCached, PrepareSibling, Iterate, Run, Publish
<1>3. CASE Collect
  BY <1>3 DEF Collect
<1>4. CASE CompleteExisting \/ Capture
  BY <1>4, CompleteType DEF CompleteExisting, Capture
<1>5. CASE Accept
  BY <1>5 DEF Accept, Finish
<1>6. CASE SkipActive \/ FindEvidence \/ Reject
  BY <1>6 DEF SkipActive, FindEvidence, Reject
<1>7. CASE WriteActive
  BY <1>7 DEF WriteActive
<1>8. CASE Activated
  BY <1>8 DEF Activated, Finish, Command
<1>9. CASE Fail \/ Refuse \/ RefuseUnproven
  BY <1>9 DEF Fail, Partly, Refuse, RefuseUnproven, Finish
<1>10. CASE Restore
  BY <1>10 DEF Restore, Finish
<1>11. CASE Die
  BY <1>11 DEF Die, Finish, Partly, Tear
<1> QED
  BY <1>1, <1>2, <1>3, <1>4, <1>5, <1>6, <1>7, <1>8, <1>9, <1>10, <1>11 DEF Next

LEMMA Invariance == Spec => []IInv
<1>1. Init => IInv
  BY InitType DEF Init, IInv, TypeOK, JudgedInv, CommandInv, StatusInv, ActivatedInv, InLoop,
     InActivation
<1>2. IInv /\ [Next]_vars => IInv'
  <2>1. CASE UNCHANGED vars
    BY <2>1 DEF IInv, TypeOK, JudgedInv, CommandInv, StatusInv, ActivatedInv
  <2>2. CASE Next
    BY <2>2, NextType, JudgedStep, CommandStep, StatusStep, ActivatedStep DEF IInv
  <2> QED
    BY <2>1, <2>2
<1> QED
  BY <1>1, <1>2, PTL DEF Spec

(* When prepare-case activates a backport case, its triage case is active. *)
THEOREM SiblingFirstCorrect == Spec => []SiblingFirst
<1>1. IInv => SiblingFirst
  BY DEF IInv, StatusInv, InActivation, SiblingFirst
<1> QED
  BY <1>1, Invariance, PTL

(* A command that ends with an error leaves no case active that was not    *)
(* active before, except the sibling of the case it was about.             *)
THEOREM FailureCorrect == Spec => []FailureActivatesNothing
<1>1. IInv => FailureActivatesNothing
  <2> SUFFICES ASSUME IInv, outcome \in {"failed", "unproven"}, NEW d \in Dir,
                      status[d] = "active", started[d] # "active"
               PROVE  command.kind = "prepare" /\ command.dir = "backport" /\ d = "triage"
    BY DEF FailureActivatesNothing
  <2> QED
    BY DEF IInv, ActivatedInv, CommandInv
<1> QED
  BY <1>1, Invariance, PTL
(* With --overwrite the inferred fixtures agree with the triage result, or *)
(* a warning says that they do not.                                        *)
THEOREM CompletedCorrect == Spec => []CompletedAgrees
<1>1. Init => CompletedAgrees
  BY DEF Init, CompletedAgrees
<1>2. ASSUME TypeOK, CompletedAgrees, [Next]_vars PROVE CompletedAgrees'
  <2> USE DEF CompletedAgrees, Requested
  <2>1. CASE CompleteExisting \/ Capture
    <3>1. ASSUME loop.about = "backport", command.overwrite, completion' = "silent"
          PROVE  branch' = Requested' /\ (Requested' # NoBranch => mock' = Requested')
      BY <2>1, <3>1 DEF CompleteExisting, Capture, Complete, TypeOK, Answer
    <3> QED
      BY <2>1, <3>1 DEF CompleteExisting, Capture
  <2>2. CASE Next /\ ~(CompleteExisting \/ Capture)
    BY <1>2, <2>2 DEF Next, ActivateCommand, PrepareCommand, Begin, Edit, UseCached,
       PrepareSibling, Collect, Iterate, Run, Accept, Publish, Fail, Finish, SkipActive, Refuse,
       RefuseUnproven, FindEvidence, WriteActive, Activated, Reject, Restore, Die, TypeOK
  <2>3. CASE UNCHANGED vars
    BY <1>2, <2>3
  <2> QED
    BY <1>2, <2>1, <2>2, <2>3
<1> QED
  BY <1>1, <1>2, TypeCorrect, PTL DEF Spec
-----------------------------------------------------------------------------
(* The evidence.                                                           *)

LEMMA PlaceStep ==
  ASSUME "given" \notin Places, command.place = "own", Next
  PROVE  command'.place = "own"
<1>1. ASSUME NEW d \in Dir, ActivateCommand(d) \/ PrepareCommand(d) PROVE command'.place = "own"
  <2>1. CASE ActivateCommand(d)
    BY <2>1 DEF ActivateCommand, Begin
  <2>2. CASE PrepareCommand(d)
    <3>1. PICK place \in Places : command'.place = place
      BY <2>2 DEF PrepareCommand, Begin
    <3> QED
      BY <3>1, ActivateAssumption
  <2> QED
    BY <1>1, <2>1, <2>2
<1>2. CASE UNCHANGED command
  BY <1>2
<1>3. Next => UNCHANGED command \/ \E d \in Dir : ActivateCommand(d) \/ PrepareCommand(d)
  BY DEF Next, Edit, UseCached, PrepareSibling, Collect, CompleteExisting, Capture, Iterate, Accept,
     Publish, Fail, SkipActive, Refuse, RefuseUnproven, FindEvidence, WriteActive, Activated,
     Reject, Restore, Die
<1> QED
  BY <1>1, <1>2, <1>3

(* The report of the iteration that was run is where it is looked for.     *)
LEMMA RunReport ==
  ASSUME TypeOK, command.place = "own", Iterate
  PROVE  /\ loop'.iteration \in Iterations /\ loop'.about = loop.about
         /\ reports'[loop.about][loop'.iteration].fresh
         /\ reports'[loop.about][loop'.iteration].about = loop.about
         /\ \A d \in Dir : d # loop.about => reports'[d] = reports[d]
<1> DEFINE i == loop.iteration + 1
<1>1. i \in Iterations /\ loop' = [loop EXCEPT !.iteration = i]
  BY ActivateAssumption DEF Iterate, Run, Iterations, TypeOK
<1>2. loop'.iteration = i /\ loop'.about = loop.about
  BY <1>1 DEF TypeOK
<1>3. Place(loop.about) = loop.about
  BY DEF Place
<1>4. PICK r : /\ reports' = [reports EXCEPT ![loop.about][i] = r]
               /\ r.fresh /\ r.about = loop.about
  <2>1. PICK verdict \in {"passed", "failed", "skipped"}, found \in Answer :
          reports' = [reports EXCEPT ![loop.about][i] =
            [about |-> loop.about, verdict |-> verdict, fresh |-> TRUE, found |-> found]]
    BY <1>3 DEF Iterate, Run
  <2> DEFINE report == [about |-> loop.about, verdict |-> verdict, fresh |-> TRUE,
                        found |-> found]
  <2>2. reports' = [reports EXCEPT ![loop.about][i] = report] /\ report.fresh
          /\ report.about = loop.about
    BY <2>1
  <2> HIDE DEF report
  <2> QED
    BY <2>2
<1> QED
  BY <1>1, <1>2, <1>4 DEF TypeOK, Dir

LEMMA LoopReportStep ==
  ASSUME IInv, TypeOK', command.place = "own", command'.place = "own", LoopReportInv, Next
  PROVE  LoopReportInv'
<1> USE DEF LoopReportInv, Judged, InActivation, IInv, CommandInv, InLoop, LastReport, Place
<1>1. ASSUME NEW d \in Dir, ActivateCommand(d) \/ PrepareCommand(d) \/ Edit(d)
      PROVE  LoopReportInv'
  BY <1>1 DEF ActivateCommand, PrepareCommand, Begin, Edit
<1>2. CASE UseCached \/ PrepareSibling \/ Collect \/ CompleteExisting \/ Capture \/ Publish
  BY <1>2 DEF UseCached, PrepareSibling, Collect, CompleteExisting, Capture, Publish
<1>3. CASE Iterate
  BY <1>3, RunReport DEF Iterate, Run
<1>4. CASE Accept
  BY <1>4 DEF Accept, Finish
<1>5. CASE FindEvidence
  BY <1>5 DEF FindEvidence, Evidence
<1>6. CASE SkipActive \/ WriteActive \/ Activated \/ Reject
  BY <1>6 DEF SkipActive, WriteActive, Activated, Reject, Finish
<1>7. CASE Fail \/ Refuse \/ RefuseUnproven \/ Restore \/ Die
  BY <1>7 DEF Fail, Refuse, RefuseUnproven, Restore, Die, Finish
<1> QED
  BY <1>1, <1>2, <1>3, <1>4, <1>5, <1>6, <1>7 DEF Next

LEMMA TriageReportStep ==
  ASSUME IInv, TypeOK', command.place = "own", LoopReportInv, TriageReportInv, Next
  PROVE  TriageReportInv'
<1> USE DEF TriageReportInv
<1>1. ASSUME NEW d \in Dir, ActivateCommand(d) \/ PrepareCommand(d) \/ Edit(d)
      PROVE  TriageReportInv'
  BY <1>1 DEF ActivateCommand, PrepareCommand, Begin, Edit
<1>2. CASE UseCached \/ PrepareSibling
  BY <1>2 DEF UseCached, PrepareSibling, IInv, CommandInv, TypeOK
<1>3. CASE Collect \/ CompleteExisting \/ Capture
  <2>1. SUFFICES ASSUME triage.status = "generated", pc # "idle"
                 PROVE  /\ reports'["triage"][triage.iteration] =
                              reports["triage"][triage.iteration]
                        /\ UNCHANGED <<triage, command, triageResult>> /\ loop'.about = loop.about
    BY <1>3 DEF Collect, CompleteExisting, Capture
  <2>2. Age(loop.about)
    BY <1>3 DEF Collect, CompleteExisting, Capture
  <2>3. reports'["triage"][triage.iteration] = reports["triage"][triage.iteration]
    BY <2>1, <2>2 DEF Age, Aged, Dir
  <2> QED
    BY <1>3, <2>1, <2>3, CompleteType DEF Collect, CompleteExisting, Capture, IInv
<1>4. CASE Iterate
  BY <1>4, RunReport DEF Iterate, Run, IInv, Dir
<1>5. CASE Publish
  <2>1. command.kind = "prepare" /\ command.dir = "backport" /\ loop.about = "triage"
    BY <1>5 DEF Publish, IInv, CommandInv, InLoop
  <2>2. LastReport = reports["triage"][loop.iteration]
    BY <2>1 DEF LastReport, Place
  <2>3. LastReport.fresh /\ LastReport.about = "triage" /\ loop.iteration \in Iterations
    BY <1>5, <2>1 DEF Publish, LoopReportInv, Judged
  <2> QED
    BY <1>5, <2>1, <2>2, <2>3 DEF Publish
<1>6. CASE Accept \/ SkipActive \/ FindEvidence \/ WriteActive \/ Activated \/ Reject
  BY <1>6 DEF Accept, SkipActive, FindEvidence, WriteActive, Activated, Reject, Finish
<1>7. CASE Fail \/ Refuse \/ RefuseUnproven \/ Restore \/ Die
  BY <1>7 DEF Fail, Refuse, RefuseUnproven, Restore, Die, Finish
<1> QED
  BY <1>1, <1>2, <1>3, <1>4, <1>5, <1>6, <1>7 DEF Next

LEMMA PassStep ==
  ASSUME IInv, TypeOK', command.place = "own", TriageReportInv, PassActivates, Next
  PROVE  PassActivates'
<1> USE DEF PassActivates
<1>1. CASE RefuseUnproven
  <2>1. SUFFICES ASSUME command.kind = "prepare", triage.status # "cached"
                 PROVE  LastReport.verdict # "passed"
    BY <1>1 DEF RefuseUnproven, LastReport, Place
  <2>2. PICK r \in Evidence(target) : r.verdict # "passed"
    BY <1>1 DEF RefuseUnproven
  <2>3. CASE target = command.dir
    BY <1>1, <2>1, <2>2, <2>3 DEF RefuseUnproven, Evidence, LastReport, IInv, CommandInv, InActivation
  <2>4. CASE target # command.dir
    <3>1. command.dir = "backport" /\ target = "triage" /\ triage.status = "generated"
      BY <1>1, <2>1, <2>4 DEF RefuseUnproven, IInv, CommandInv, InActivation, InLoop, TypeOK, Dir
    <3>2. r = reports["triage"][triage.iteration]
      BY <2>1, <2>2, <3>1 DEF Evidence, Place
    <3> QED
      BY <1>1, <2>2, <3>1, <3>2 DEF RefuseUnproven, TriageReportInv
  <2> QED
    BY <2>3, <2>4
<1>2. CASE outcome' # "unproven"
  BY <1>2
<1>3. Next => RefuseUnproven \/ outcome' # "unproven"
  BY DEF Next, ActivateCommand, PrepareCommand, Begin, Edit, UseCached, PrepareSibling,
     Collect, CompleteExisting, Capture, Iterate, Accept, Publish, Fail, Finish, SkipActive, Refuse,
     FindEvidence, WriteActive, Activated, Reject, Restore, Die, IInv, CommandInv
<1> QED
  BY <1>1, <1>2, <1>3

LEMMA ReportsInvariance ==
  ASSUME "given" \notin Places
  PROVE  Spec => [](IInv /\ RInv)
<1>1. Init => RInv
  BY DEF Init, RInv, LoopReportInv, Judged, InActivation, TriageReportInv, PassActivates
<1>2. IInv /\ IInv' /\ RInv /\ [Next]_vars => RInv'
  <2>1. CASE UNCHANGED vars
    BY <2>1 DEF RInv, LoopReportInv, TriageReportInv, PassActivates, LastReport, Place
  <2>2. CASE Next
    BY <2>2, PlaceStep, LoopReportStep, TriageReportStep, PassStep DEF RInv, IInv
  <2> QED
    BY <2>1, <2>2
<1> QED
  BY <1>1, <1>2, Invariance, PTL DEF Spec

(* Without --results-dir, prepare-case activates a case it ran on a        *)
(* passing run of that case with the fixtures it still has.                *)
THEOREM FreshRunCorrect ==
  ASSUME "given" \notin Places
  PROVE  Spec => []ActivatedOnFreshRun
<1>1. IInv /\ RInv => ActivatedOnFreshRun
  <2> SUFFICES ASSUME IInv, RInv, pc \in {"writing", "checking"}, command.kind = "prepare",
                      target = command.dir \/ triage.status = "generated"
               PROVE  \E r \in Evidence(target) :
                        /\ r.about = target /\ r.verdict = "passed" /\ r.fresh
                        /\ target # command.dir => r.found = triageResult
    BY DEF ActivatedOnFreshRun
  <2>1. loop.about = command.dir /\ Place("triage") = "triage"
    BY DEF IInv, CommandInv, InActivation, RInv, Place
  <2>2. CASE target = command.dir
    BY <2>1, <2>2 DEF RInv, LoopReportInv, Judged, InActivation, Evidence, LastReport
  <2>3. CASE target # command.dir
    <3>1. target = "triage" /\ triage.status = "generated"
      BY <2>3 DEF RInv, TriageReportInv, IInv, TypeOK, Dir
    <3> QED
      BY <2>1, <2>3, <3>1 DEF Evidence, RInv, TriageReportInv
  <2> QED
    BY <2>2, <2>3
<1> QED
  BY <1>1, ReportsInvariance, PTL

(* Without --results-dir, --activate-on-pass does not fail for want of     *)
(* evidence after loops that passed.                                       *)
THEOREM PassActivatesCorrect ==
  ASSUME "given" \notin Places
  PROVE  Spec => []PassActivates
<1>1. RInv => PassActivates
  BY DEF RInv
<1> QED
  BY <1>1, ReportsInvariance, PTL
-----------------------------------------------------------------------------
(* ActivateCase implements ActivateContract.                               *)
USE DEF Earlier

(* Without --results-dir, a report below a directory is of its case.       *)
OwnReports ==
  \A p \in Dir \cup {"given"}, i \in Iterations :
    reports[p][i].verdict = "none" \/ reports[p][i].about = p

LEMMA OwnStep ==
  ASSUME TypeOK, command.place = "own", OwnReports, Next
  PROVE  OwnReports'
<1> USE DEF OwnReports
<1>1. ASSUME NEW d \in Dir, Age(d) PROVE OwnReports'
  <2> SUFFICES ASSUME NEW p \in Dir \cup {"given"}, NEW i \in Iterations
               PROVE  reports'[p][i].verdict = "none" \/ reports'[p][i].about = p
    OBVIOUS
  <2>1. reports[p][i] \in Report
    BY DEF TypeOK
  <2>2. reports'[p][i].verdict = reports[p][i].verdict
          /\ reports'[p][i].about = reports[p][i].about
    BY <1>1, <2>1 DEF Age, Aged, Report
  <2> QED
    BY <2>2
<1>2. CASE Iterate
  <2> DEFINE k == loop.iteration + 1
  <2>1. k \in Iterations
    BY <1>2, ActivateAssumption DEF Iterate, Iterations, TypeOK
  <2>2. PICK verdict \in {"passed", "failed", "skipped"}, found \in Answer :
          reports' = [reports EXCEPT ![loop.about][k] =
            [about |-> loop.about, verdict |-> verdict, fresh |-> TRUE, found |-> found]]
    BY <1>2 DEF Iterate, Run, Place
  <2> DEFINE r == [about |-> loop.about, verdict |-> verdict, fresh |-> TRUE, found |-> found]
  <2>3. reports' = [reports EXCEPT ![loop.about][k] = r] /\ r.about = loop.about
    BY <2>2
  <2> HIDE DEF r, k
  <2> QED
    BY <2>1, <2>3 DEF TypeOK, Dir
<1>3. CASE UNCHANGED reports
  BY <1>3
<1>4. Next => \/ Iterate \/ UNCHANGED reports \/ \E d \in Dir : Age(d)
  BY DEF Next, ActivateCommand, PrepareCommand, Begin, Edit, UseCached, PrepareSibling, Collect,
     CompleteExisting, Capture, Accept, Publish, Fail, Partly, SkipActive, Refuse, RefuseUnproven,
     FindEvidence, WriteActive, Activated, Reject, Restore, Die, Tear, TypeOK
<1> QED
  BY <1>1, <1>2, <1>3, <1>4

(* Fixtures that change take the proof from their case and from no other,  *)
(* and a run proves no case but its own.                                   *)
LEMMA AgedFresh ==
  ASSUME TypeOK, NEW d \in Dir, Age(d)
  PROVE  Fresh' = Fresh \ {d}
<1>1. ASSUME NEW p \in Dir \cup {"given"}, NEW i \in Iterations
      PROVE  /\ reports'[p][i].about = reports[p][i].about
             /\ reports'[p][i].verdict = reports[p][i].verdict
             /\ reports'[p][i].fresh <=> reports[p][i].fresh /\ reports[p][i].about # d
  <2>1. reports[p][i] \in Report
    BY DEF TypeOK
  <2> QED
    BY <2>1 DEF Age, Aged, Report
<1> QED
  BY <1>1 DEF Fresh

LEMMA RunFresh ==
  ASSUME TypeOK, OwnReports, command.place = "own", Iterate
  PROVE  Fresh \ {loop.about} \subseteq Fresh' /\ Fresh' \subseteq Fresh \cup {loop.about}
<1> DEFINE k == loop.iteration + 1
<1>1. k \in Iterations
  BY ActivateAssumption DEF Iterate, Iterations, TypeOK
<1>2. PICK verdict \in {"passed", "failed", "skipped"}, found \in Answer :
        reports' = [reports EXCEPT ![loop.about][k] =
          [about |-> loop.about, verdict |-> verdict, fresh |-> TRUE, found |-> found]]
  BY DEF Iterate, Run, Place
<1> DEFINE r == [about |-> loop.about, verdict |-> verdict, fresh |-> TRUE, found |-> found]
<1>3. reports' = [reports EXCEPT ![loop.about][k] = r] /\ r.about = loop.about
  BY <1>2
<1> HIDE DEF r, k
<1>4. ASSUME NEW d \in Dir, d # loop.about PROVE d \in Fresh <=> d \in Fresh'
  <2>1. ASSUME NEW p \in Dir \cup {"given"}, NEW i \in Iterations,
               p # loop.about \/ i # k
        PROVE  reports'[p][i] = reports[p][i]
    BY <1>3, <2>1 DEF TypeOK
  <2>2. reports'[loop.about][k] = r /\ loop.about \in Dir
    BY <1>1, <1>3 DEF TypeOK, Dir
  <2>3. reports[loop.about][k].verdict = "none" \/ reports[loop.about][k].about = loop.about
    BY <1>1, <2>2 DEF OwnReports
  <2> QED
    BY <1>1, <1>3, <1>4, <2>1, <2>2, <2>3 DEF Fresh
<1> QED
  BY <1>4 DEF Fresh
(* Where a command stands in the terms of the contract.                    *)
LEMMA LoopIs ==
  ASSUME IInv, pc \in InLoop
  PROVE  /\ OrderOf.kind = "prepare" /\ ResultOf = "open" /\ Trial = {}
         /\ loop.about \in Dir /\ loop.about \in Contract!Writable
         /\ OrderOf.overwrite = command.overwrite
BY DEF IInv, CommandInv, InLoop, TypeOK, OrderOf, ResultOf, Trial, Relied, Dir, Contract!Writable,
   Contract!About

LEMMA FailedIs ==
  ASSUME IInv, pc = "idle", outcome \in {"failed", "unproven"}
  PROVE  Confirmed \ ActiveBefore \subseteq Earlier[OrderOf.case]
<1>1. command.dir \in Dir /\ OrderOf.case = command.dir
  BY DEF IInv, TypeOK, Command, OrderOf
<1>2. ASSUME NEW d \in Confirmed \ ActiveBefore PROVE d = "triage" /\ command.dir = "backport"
  BY DEF IInv, ActivatedInv, Confirmed, ActiveBefore
<1> QED
  BY <1>1, <1>2

LEMMA ContractInitially == Init => Contract!ContractInit
<1> SUFFICES ASSUME Init PROVE Contract!ContractInit
  OBVIOUS
<1>1. Fresh = {}
  BY DEF Init, Fresh, NoReport
<1>2. Confirmed = {} /\ ActiveBefore = {} /\ Trial = {} /\ Relied = {}
  BY DEF Init, Confirmed, ActiveBefore, Trial, Relied
<1>3. ResultOf = "none" /\ OrderOf.kind = "none"
  BY DEF Init, ResultOf, OrderOf
<1> QED
  BY <1>1, <1>2, <1>3 DEF Contract!ContractInit

LEMMA StartStep ==
  ASSUME IInv, NEW d \in Dir, ActivateCommand(d) \/ PrepareCommand(d)
  PROVE  Contract!Start
<1>1. pc = "idle" /\ ResultOf # "open" /\ ResultOf' = "open"
  BY DEF ActivateCommand, PrepareCommand, Begin, ResultOf, IInv, TypeOK
<1>2. OrderOf'.kind \in {"activate", "prepare"} /\ OrderOf'.case \in Dir
        /\ (OrderOf'.kind = "activate" => ~OrderOf'.overwrite)
  BY DEF ActivateCommand, PrepareCommand, Begin, OrderOf
<1>3. Trial = {} /\ Trial' = {} /\ Relied' = {}
  BY <1>1 DEF ActivateCommand, PrepareCommand, Trial, Relied
<1>4. ActiveBefore' = Confirmed /\ UNCHANGED Confirmed
  BY <1>3 DEF ActivateCommand, PrepareCommand, Begin, ActiveBefore, Confirmed
<1>5. UNCHANGED Fresh
  BY DEF ActivateCommand, PrepareCommand, Fresh
<1> QED
  BY <1>1, <1>2, <1>3, <1>4, <1>5 DEF Contract!Start

LEMMA EditStep ==
  ASSUME IInv, NEW d \in Dir, Edit(d)
  PROVE  Contract!Edit(d)
<1>1. ResultOf # "open" /\ ResultOf' = "none"
  BY DEF Edit, ResultOf, IInv, TypeOK
<1>2. Fresh' = Fresh \ {d}
  BY AgedFresh DEF Edit, IInv
<1>3. UNCHANGED <<Confirmed, Trial>>
  BY DEF Edit, Confirmed, Trial, IInv, TypeOK
<1>4. UNCHANGED <<OrderOf, Relied, ActiveBefore>>
  BY DEF Edit, OrderOf, Relied, ActiveBefore
<1> QED
  BY <1>1, <1>2, <1>3, <1>4 DEF Contract!Edit

LEMMA RelyStep ==
  ASSUME IInv, UseCached
  PROVE  Contract!Rely
<1>1. ResultOf = "open" /\ OrderOf.kind = "prepare" /\ OrderOf.case = "backport"
  BY DEF UseCached, ResultOf, OrderOf, IInv, CommandInv
<1>2. Relied' = {"triage"}
  BY DEF UseCached, Relied, TypeOK, IInv
<1>3. UNCHANGED <<OrderOf, ResultOf, Confirmed, Trial, Fresh, ActiveBefore>>
  BY DEF UseCached, OrderOf, ResultOf, Confirmed, Trial, Fresh, ActiveBefore
<1> QED
  BY <1>1, <1>2, <1>3 DEF Contract!Rely, Dir

(* Fixtures that a prepare loop writes, wholly or partly.                  *)
LEMMA WriteStep ==
  ASSUME IInv, IInv', Collect \/ CompleteExisting \/ Capture \/ (Fail /\ Partly)
  PROVE  Contract!Write(loop.about)
<1>1. pc \in InLoop /\ Age(loop.about)
  BY DEF Collect, CompleteExisting, Capture, Partly, InLoop
<1>2. pc' \in InLoop \/ (pc' = "idle" /\ outcome' = "failed")
  BY DEF Collect, CompleteExisting, Capture, Fail, Finish, InLoop
<1>3. \/ status' = status
      \/ command.overwrite /\ status' = [status EXCEPT ![loop.about] = "quarantined"]
  BY DEF Collect, CompleteExisting, Complete, Capture, Partly
<1>4. UNCHANGED <<command, started, triage>>
  BY DEF Collect, CompleteExisting, Capture, Fail
<1>5. Fresh' = Fresh \ {loop.about}
  BY <1>1, AgedFresh, LoopIs DEF IInv
<1>6. Trial = {} /\ Trial' = {}
  BY <1>1, <1>2 DEF Trial, InLoop
<1>7. Confirmed' \in {Confirmed} \cup (IF OrderOf.overwrite THEN {Confirmed \ {loop.about}} ELSE {})
  BY <1>3, <1>6 DEF Confirmed, OrderOf, IInv, TypeOK
<1>8. ResultOf' \in {"open", "failed"}
  BY <1>2 DEF ResultOf, InLoop
<1>9. UNCHANGED <<OrderOf, Relied, ActiveBefore>>
  BY <1>4 DEF OrderOf, Relied, ActiveBefore
<1>10. ResultOf' = "failed" =>
         Confirmed' \ ActiveBefore \subseteq Earlier[OrderOf.case]
  <2>1. ResultOf' = "failed" => pc' = "idle" /\ outcome' \in {"failed", "unproven"}
    BY <1>2 DEF ResultOf, InLoop
  <2>2. command'.dir \in Dir /\ OrderOf'.case = command'.dir
    BY DEF IInv, TypeOK, Command, OrderOf
  <2>3. ASSUME ResultOf' = "failed", NEW d \in Confirmed' \ ActiveBefore'
        PROVE  d = "triage" /\ command'.dir = "backport"
    BY <2>1, <2>3 DEF IInv, ActivatedInv, Confirmed, ActiveBefore
  <2> QED
    BY <2>2, <2>3, <1>9
<1> QED
  BY <1>1, <1>5, <1>6, <1>7, <1>8, <1>9, <1>10, LoopIs DEF Contract!Write

LEMMA IterateStep ==
  ASSUME IInv, OwnReports, command.place = "own", Iterate
  PROVE  Contract!Run(loop.about)
<1>1. pc \in InLoop
  BY DEF Iterate, InLoop
<1>2. UNCHANGED <<OrderOf, ResultOf, Confirmed, Trial, Relied, ActiveBefore>>
  BY DEF Iterate, Run, OrderOf, ResultOf, Confirmed, Trial, Relied, ActiveBefore
<1> QED
  BY <1>1, <1>2, LoopIs, RunFresh DEF Contract!Run, IInv

(* A case is written active, and found valid, or not.                      *)
LEMMA TrialStep ==
  ASSUME IInv, RInv, WriteActive
  PROVE  Contract!Try(target)
<1>1. ResultOf = "open" /\ Trial = {} /\ Trial' = {target}
  BY DEF WriteActive, ResultOf, Trial
<1>2. target \in Dir /\ status[target] = "quarantined" /\ target \notin Confirmed
  BY DEF WriteActive, IInv, StatusInv, TypeOK, Confirmed
<1>3. Confirmed' = Confirmed
  BY <1>1, <1>2 DEF WriteActive, Confirmed, IInv, TypeOK
<1>4. UNCHANGED <<OrderOf, ResultOf, Fresh, Relied, ActiveBefore>>
  BY DEF WriteActive, OrderOf, ResultOf, Fresh, Relied, ActiveBefore
<1>5. CASE command.kind = "activate"
  BY <1>1, <1>2, <1>3, <1>4, <1>5 DEF Contract!Try, OrderOf, IInv, CommandInv, InActivation, WriteActive
<1>6. CASE command.kind = "prepare" /\ target = command.dir
  <2>1. target \in Fresh
    <3>1. /\ loop.about = target /\ loop.iteration \in Iterations
          /\ LastReport.about = target /\ LastReport.verdict = "passed" /\ LastReport.fresh
      BY <1>6 DEF WriteActive, RInv, LoopReportInv, Judged, InActivation, IInv, CommandInv
    <3> QED
      BY <1>2, <3>1 DEF Fresh, LastReport, Place
  <2>2. Earlier[target] \subseteq Confirmed
    BY <1>1, <1>2, <1>6 DEF WriteActive, IInv, StatusInv, InActivation, Confirmed, Dir
  <2> QED
    BY <1>1, <1>2, <1>3, <1>4, <1>6, <2>1, <2>2 DEF Contract!Try, OrderOf
<1>7. CASE command.kind = "prepare" /\ target # command.dir
  <2>1. target = "triage" /\ command.dir = "backport" /\ triage.status \in {"cached", "generated"}
    BY <1>2, <1>7 DEF WriteActive, IInv, CommandInv, InActivation, InLoop, TypeOK, Dir
  <2>2. target \in Fresh \cup Relied
    BY <1>2, <2>1 DEF WriteActive, RInv, TriageReportInv, Fresh, Relied
  <2>3. target \in Earlier[OrderOf.case]
    BY <2>1 DEF OrderOf, Dir
  <2> QED
    BY <1>1, <1>2, <1>3, <1>4, <1>7, <2>2, <2>3 DEF Contract!Try, OrderOf
<1>8. command.kind \in {"activate", "prepare"}
  BY DEF WriteActive, IInv, CommandInv, InActivation, TypeOK, Command
<1> QED
  BY <1>5, <1>6, <1>7, <1>8

LEMMA ConfirmStep ==
  ASSUME IInv, Activated
  PROVE  Contract!Confirm
<1>1. Trial = {target} /\ Trial' = {}
  BY DEF Activated, Finish, Trial
<1>2. Confirmed' = Confirmed \cup {target}
  BY <1>1 DEF Activated, Confirmed, IInv, StatusInv, TypeOK
<1>3. ResultOf' = IF OrderOf.case \in Trial THEN "done" ELSE "open"
  BY <1>1 DEF Activated, Finish, ResultOf, OrderOf
<1>4. UNCHANGED <<OrderOf, Fresh, Relied, ActiveBefore>>
  BY DEF Activated, OrderOf, Fresh, Relied, ActiveBefore
<1> QED
  BY <1>1, <1>2, <1>3, <1>4 DEF Contract!Confirm

LEMMA FailStep ==
  ASSUME IInv, IInv', Refuse \/ RefuseUnproven \/ Restore \/ (Fail /\ UNCHANGED <<fixtures, evidence>>)
  PROVE  Contract!Fail
<1>1. ResultOf = "open" /\ pc' = "idle" /\ outcome' \in {"failed", "unproven"}
  BY DEF Refuse, RefuseUnproven, Restore, Fail, Finish, ResultOf
<1>2. ResultOf' = "failed" /\ Trial' = {}
  BY <1>1 DEF ResultOf, Trial
<1>3. Confirmed' = Confirmed
  <2>1. CASE Restore
    BY <2>1 DEF Restore, Finish, Trial, Confirmed, IInv, TypeOK
  <2>2. CASE ~Restore
    BY <2>2 DEF Refuse, RefuseUnproven, Fail, Finish, Trial, Confirmed
  <2> QED
    BY <2>1, <2>2
<1>4. UNCHANGED <<OrderOf, Fresh, Relied, ActiveBefore>>
  BY DEF Refuse, RefuseUnproven, Restore, Fail, OrderOf, Fresh, Relied, ActiveBefore
<1>5. Confirmed \ ActiveBefore \subseteq Earlier[OrderOf.case]
  <2>1. (Confirmed \ ActiveBefore \subseteq Earlier[OrderOf.case])'
    <3>1. command'.dir \in Dir /\ OrderOf'.case = command'.dir
      BY DEF IInv, TypeOK, Command, OrderOf
    <3>2. ASSUME NEW d \in Confirmed' \ ActiveBefore' PROVE d = "triage" /\ command'.dir = "backport"
      BY <1>1, <3>2 DEF IInv, ActivatedInv, Confirmed, ActiveBefore
    <3> QED
      BY <3>1, <3>2
  <2> QED
    BY <1>3, <1>4, <2>1
<1> QED
  BY <1>1, <1>2, <1>3, <1>4, <1>5 DEF Contract!Fail

LEMMA AcceptedStep ==
  ASSUME IInv, Accept
  PROVE  Contract!EndPrepared \/ UNCHANGED Contract!contractVars
<1>1. pc \in InLoop /\ Trial' = {}
  BY DEF Accept, Finish, InLoop, Trial
<1>2. UNCHANGED <<OrderOf, Fresh, Relied, ActiveBefore>>
  BY DEF Accept, OrderOf, Fresh, Relied, ActiveBefore
<1>3. UNCHANGED <<Trial, Confirmed>>
  BY <1>1, LoopIs DEF Accept, Confirmed
<1>4. ResultOf' \in {"open", "done"}
  BY DEF Accept, Finish, ResultOf
<1> QED
  BY <1>1, <1>2, <1>3, <1>4, LoopIs DEF Contract!EndPrepared, Contract!contractVars

(* What a command that is killed leaves.                                   *)
LEMMA DieStep ==
  ASSUME IInv, Die
  PROVE  Contract!Die
<1>1. ResultOf = "open" /\ ResultOf' = "killed" /\ Trial' = {}
  BY DEF Die, Finish, ResultOf, Trial
<1>2. UNCHANGED <<OrderOf, Relied, ActiveBefore>>
  BY DEF Die, OrderOf, Relied, ActiveBefore
<1> DEFINE Kept == /\ Confirmed \ Contract!Writable \subseteq Confirmed'
                   /\ Confirmed' \subseteq Confirmed \cup Trial
                   /\ Fresh \ Contract!About \subseteq Fresh' /\ Fresh' \subseteq Fresh
<1>3. ASSUME UNCHANGED <<fixtures, evidence>> PROVE Kept
  BY <1>1, <1>3 DEF Confirmed, Fresh
<1>4. ASSUME Partly \/ (Tear /\ pc \in {"collecting", "judging"}) PROVE Kept
  <2>1. pc \in InLoop
    BY <1>4 DEF Partly, InLoop
  <2>2. Age(loop.about)
    BY <1>4 DEF Partly, Tear
  <2>3. Fresh' = Fresh \ {loop.about}
    BY <2>1, <2>2, AgedFresh, LoopIs DEF IInv
  <2>4. \/ status' = status
        \/ \E s \in {"quarantined", "torn"} : status' = [status EXCEPT ![loop.about] = s]
    BY <1>4 DEF Partly, Tear
  <2>5. Confirmed' \in {Confirmed, Confirmed \ {loop.about}}
    BY <1>1, <2>1, <2>4, LoopIs DEF Confirmed, IInv, TypeOK
  <2>6. loop.about \in Contract!Writable /\ loop.about \in Contract!About
    BY <2>1, LoopIs DEF Contract!Writable
  <2> QED
    BY <2>3, <2>5, <2>6
<1>5. ASSUME Tear /\ pc \in {"writing", "restoring"} PROVE Kept
  <2>1. Age(target) /\ status' = [status EXCEPT ![target] = "torn"] /\ target \in Dir
    BY <1>5 DEF Tear, IInv, TypeOK
  <2>2. Fresh' = Fresh \ {target}
    BY <2>1, AgedFresh DEF IInv
  <2>3. target \in Contract!About
    BY <1>5 DEF IInv, CommandInv, InActivation, TypeOK, Command, OrderOf, Dir, Contract!About
  <2>4. Confirmed' = Confirmed
    BY <1>1, <1>5, <2>1 DEF Confirmed, Trial, IInv, StatusInv, TypeOK
  <2> QED
    BY <2>2, <2>3, <2>4
<1>6. ASSUME Tear /\ pc = "publishing" PROVE Kept
  BY <1>1, <1>6 DEF Tear, Confirmed, Trial, Fresh
<1>7. Kept
  BY <1>3, <1>4, <1>5, <1>6 DEF Die, Tear
<1> QED
  BY <1>1, <1>2, <1>7 DEF Contract!Die

LEMMA ActivationSteps ==
  ASSUME IInv, IInv', RInv, OwnReports, [Next]_vars
  PROVE  [Contract!ContractNext]_(Contract!contractVars)
<1> USE DEF Contract!ContractNext
<1>1. ASSUME NEW d \in Dir, ActivateCommand(d) \/ PrepareCommand(d) PROVE Contract!ContractNext
  BY <1>1, StartStep
<1>2. ASSUME NEW d \in Dir, Edit(d) PROVE Contract!ContractNext
  BY <1>2, EditStep
<1>3. CASE UseCached
  BY <1>3, RelyStep
<1>4. CASE Collect \/ CompleteExisting \/ Capture \/ (Fail /\ Partly)
  BY <1>4, WriteStep DEF IInv, TypeOK
<1>5. CASE Iterate
  BY <1>5, IterateStep DEF IInv, TypeOK, RInv
<1>6. CASE Accept
  BY <1>6, AcceptedStep
<1>7. CASE WriteActive
  BY <1>7, TrialStep DEF IInv, TypeOK
<1>8. CASE Activated
  BY <1>8, ConfirmStep
<1>9. CASE Refuse \/ RefuseUnproven \/ Restore \/ (Fail /\ UNCHANGED <<fixtures, evidence>>)
  BY <1>9, FailStep
<1>10. CASE Die
  BY <1>10, DieStep
<1>11. CASE PrepareSibling \/ SkipActive \/ FindEvidence \/ Reject
  BY <1>11 DEF PrepareSibling, SkipActive, FindEvidence, Reject, Contract!contractVars,
     OrderOf, ResultOf, Trial, Confirmed, Fresh, Relied, ActiveBefore
<1>12. CASE Publish
  <2>1. triage.status = "none"
    BY <1>12 DEF Publish, IInv, CommandInv, InLoop
  <2> QED
    BY <1>12, <2>1 DEF Publish, Contract!contractVars,
       OrderOf, ResultOf, Trial, Confirmed, Fresh, Relied, ActiveBefore
<1>13. CASE UNCHANGED vars
  BY <1>13 DEF Contract!contractVars, OrderOf, ResultOf, Trial, Confirmed, Fresh, Relied,
     ActiveBefore
<1>14. Fail => Partly \/ UNCHANGED <<fixtures, evidence>>
  BY DEF Fail
<1> QED
  BY <1>1, <1>2, <1>3, <1>4, <1>5, <1>6, <1>7, <1>8, <1>9, <1>10, <1>11, <1>12, <1>13, <1>14 DEF Next

(* Without --results-dir prepare-case and activate-case implement the      *)
(* contract: each step of a command is a step of it, or does not show.     *)
THEOREM ActivationIsKept ==
  ASSUME "given" \notin Places
  PROVE  Spec => ActivationKept
<1>1. Init => OwnReports
  BY DEF Init, OwnReports, NoReport
<1>2. IInv /\ RInv /\ OwnReports /\ [Next]_vars => OwnReports'
  <2>1. CASE UNCHANGED vars
    BY <2>1 DEF OwnReports
  <2> QED
    BY <2>1, OwnStep DEF IInv, RInv
<1>3. IInv /\ IInv' /\ RInv /\ OwnReports /\ [Next]_vars
        => [Contract!ContractNext]_(Contract!contractVars)
  BY ActivationSteps
<1>4. Spec => [](IInv /\ RInv)
  BY ReportsInvariance
<1> QED
  BY <1>1, <1>2, <1>3, <1>4, ContractInitially, PTL
     DEF Spec, ActivationKept, Contract!ContractSpec
=============================================================================
