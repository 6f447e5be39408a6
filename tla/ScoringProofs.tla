--------------------------- MODULE ScoringProofs ---------------------------
(* What holds of a score and of a comparison for all results, clones and   *)
(* expectations, and any number of attempts.                               *)
EXTENDS Scoring, FiniteSetTheorems, TLAPS

-----------------------------------------------------------------------------
(* What an attempt reports.                                                *)
LEMMA ReportedIs ==
  ASSUME ScoringTypeOK, NEW answer \in Answers[workflow]
  PROVE  Reported(answer) \in Outcome /\ answer \in AgentAnswer /\ answer.fields \in Outcome
<1>1. answer \in AgentAnswer
  BY ScoringAssumption DEF ScoringTypeOK
<1>2. Inputs \in Outcome
  BY ScoringAssumption DEF ScoringTypeOK, Inputs, FromTriage, ExpectedResult, Acceptance
<1>3. \A m \in Metric : Inputs[m] \in Verdict \cup {Absent}
  BY <1>2 DEF Outcome
<1>4. \A m \in Metric : answer.fields[m] \in Verdict \cup {Absent}
  BY <1>1 DEF AgentAnswer, Outcome
<1>5. workflow # "triage" => Resolves[workflow] \in Verdict \cup {Absent}
  BY ScoringAssumption DEF ScoringTypeOK
<1>6. \A m \in Metric : Reported(answer)[m] \in Verdict \cup {Absent}
  BY <1>3, <1>4, <1>5 DEF Reported, States
<1> QED
  BY <1>1, <1>6 DEF Reported, AgentAnswer, Outcome

LEMMA DeltaIs ==
  ASSUME NEW c \in Clone
  PROVE  /\ Delta(c) \subseteq Path /\ ByAgent(c) \subseteq Path /\ c.tree \subseteq Path
         /\ Named(c) \subseteq Path /\ Named(c) \subseteq Expectable
         /\ Len(c.commits) = 1 => Delta(c) = ByAgent(c)
<1>1. /\ c.commits \in Seq(SUBSET Path) /\ c.base \subseteq Path
      /\ c.tree \subseteq Path /\ c.loose \subseteq Path
  BY DEF Clone
<1>2. c.commits # <<>> => Len(c.commits) \in DOMAIN c.commits
  BY <1>1
<1>3. \A k \in DOMAIN c.commits : c.commits[k] \subseteq Path
  BY <1>1
<1>4. Len(c.commits) = 1 => c.commits # <<>> /\ DOMAIN c.commits = {1}
  <2>1. DOMAIN c.commits = 1..Len(c.commits)
    BY <1>1
  <2>2. 1..1 = {1} /\ Len(<<>>) = 0
    OBVIOUS
  <2> QED
    BY <2>1, <2>2
<1>5. ByAgent(c) \subseteq Path
  BY <1>1, <1>3 DEF ByAgent
<1>6. Delta(c) \subseteq Path
  BY <1>1, <1>2, <1>3 DEF Delta
<1>7. ASSUME Len(c.commits) = 1 PROVE Delta(c) = ByAgent(c)
  BY <1>4, <1>7 DEF Delta, ByAgent
<1> QED
  BY <1>1, <1>5, <1>6, <1>7, ScoringAssumption DEF Named

LEMMA MadeIs ==
  ASSUME NEW n \in Nat, NEW answer, NEW touched, NEW c
  PROVE  Made(n, answer, touched, c) \subseteq Kind
<1>1. \A k \in DOMAIN CaptureOrder : CaptureOrder[k] \in Kind
  BY DEF CaptureOrder, Kind
<1> QED
  BY <1>1 DEF Made

(* A clone is one after whatever its agent does.                           *)
LEMMA WorkIs ==
  ASSUME NEW c \in Clone
  PROVE  /\ \A p \in Path : /\ [c EXCEPT !.tree = @ \cup {p}] \in Clone
                            /\ [c EXCEPT !.loose = @ \cup {p}] \in Clone
         /\ [c EXCEPT !.tree = @ \cup c.loose, !.loose = {}] \in Clone
         /\ [c EXCEPT !.commits = Append(@, c.tree), !.tree = {}] \in Clone
         /\ c.commits # <<>> =>
              [c EXCEPT !.commits[Len(c.commits)] = @ \cup c.tree, !.tree = {}] \in Clone
<1>1. c.commits \in Seq(SUBSET Path) /\ c.tree \subseteq Path /\ c.loose \subseteq Path
  BY DEF Clone
<1>2. Append(c.commits, c.tree) \in Seq(SUBSET Path)
  BY <1>1
<1>3. ASSUME c.commits # <<>>
      PROVE  [c.commits EXCEPT ![Len(c.commits)] = @ \cup c.tree] \in Seq(SUBSET Path)
  BY <1>1, <1>3
<1> QED
  BY <1>1, <1>2, <1>3 DEF Clone
-----------------------------------------------------------------------------
(* The strengthening: where the parts of an actual result come from, what  *)
(* a triage result that was started from resolved to, and that nothing     *)
(* takes files out of the artifact directory under an actual result.       *)
SaidBy(a, m) ==
  IF States(a.of, m) THEN a.fields[m] = Resolves[a.of]
  ELSE \/ a.fields[m] = a.given[m]
       \/ /\ m \in Filled[a.of] /\ a.given[m] = Absent
          /\ FromTriage => a.fields[m] = triaged[m]
FieldsAreSaid == actual # NotThere => \A m \in Metric : SaidBy(actual, m)
TriageIsBackport ==
  (FromTriage /\ (clone # NotThere \/ actual # NotThere)) =>
    triaged[ResolutionMetric] = Resolves["backport"]
UnrelatedIsOfTheCommit ==
  (actual # NotThere /\ actual.of = "backport" /\ actual.commits = 1) =>
    actual.unrelated = actual.changed \ Expectable
KindsAreThere ==
  /\ capturedKinds # NotThere => capturedKinds \subseteq artifacts
  /\ (actual # NotThere /\ actual.of = "backport") => actual.kinds \ {"srpm"} \subseteq artifacts
PartsInv == FieldsAreSaid /\ TriageIsBackport /\ UnrelatedIsOfTheCommit /\ KindsAreThere
ScoringInv == ScoringTypeOK /\ PartsInv

LEMMA ScoringInitInv == ScoringInit => ScoringInv
<1> SUFFICES ASSUME ScoringInit PROVE ScoringInv
  OBVIOUS
<1>1. PartsInv
  BY DEF ScoringInit, PartsInv, FieldsAreSaid, TriageIsBackport, UnrelatedIsOfTheCommit,
         KindsAreThere
<1>2. 0 \in 0..AttemptLimit /\ 0 \in 0..WorkLimit
  BY ScoringAssumption
<1>3. reports \in [{"baseline", "candidate"} -> CaseReport \cup {NotThere}]
  BY DEF ScoringInit
<1>4. ScoringTypeOK
  BY <1>2, <1>3 DEF ScoringInit, ScoringTypeOK
<1> QED
  BY <1>1, <1>4 DEF ScoringInv

(* An actual result that is written, of a directory's kinds there and the  *)
(* files touched, has its parts.                                           *)
WellMade(a, there, touched) ==
  /\ a.fields \in Outcome /\ a.given \in Outcome
  /\ a.kinds \subseteq Kind /\ a.kinds \ {"srpm"} \subseteq there
  /\ a.touched \subseteq Path /\ a.unrelated \subseteq Path
  /\ a.unrelated = touched \ Expectable
  /\ a.uncommitted \subseteq Path /\ a.changed \subseteq Path
  /\ a.changed = ByAgent(clone) /\ a.commits = Len(clone.commits)
  /\ a.of = workflow
  /\ \A m \in Metric : SaidBy(a, m)

LEMMA ActualIs ==
  ASSUME ScoringTypeOK, NEW answer \in Answers[workflow], NEW there, there \subseteq Kind,
         NEW touched, touched \subseteq Path, clone \in Clone
  PROVE  WellMade(ActualOf(answer, there, touched, clone), there, touched)
<1>1. Reported(answer) \in Outcome /\ answer \in AgentAnswer /\ answer.fields \in Outcome
  BY ReportedIs
<1>2. answer.claims \subseteq Path
  BY <1>1 DEF AgentAnswer
<1>3. ByAgent(clone) \subseteq Path /\ clone.tree \subseteq Path
  BY DeltaIs
<1>4. GeneratedKinds(answer, there) \subseteq Kind
  BY DEF GeneratedKinds, Kind
<1>5. GeneratedKinds(answer, there) \ {"srpm"} \subseteq there
  BY DEF GeneratedKinds
<1> DEFINE a == ActualOf(answer, there, touched, clone)
<1>6. a.fields = Reported(answer) /\ a.given = answer.fields /\ a.of = workflow
  BY DEF ActualOf
<1>7. \A m \in Metric : SaidBy(a, m)
  BY <1>6 DEF SaidBy, Reported, Inputs
<1>8. /\ a.kinds = GeneratedKinds(answer, there) /\ a.touched = touched \cup answer.claims
      /\ a.unrelated = touched \ Expectable /\ a.uncommitted = clone.tree
      /\ a.changed = ByAgent(clone) /\ a.commits = Len(clone.commits)
  BY DEF ActualOf
<1> HIDE DEF a
<1>9. WellMade(a, there, touched)
  BY <1>1, <1>2, <1>3, <1>4, <1>5, <1>6, <1>7, <1>8 DEF WellMade
<1> QED
  BY <1>9 DEF a

LEMMA FinishedIs ==
  ASSUME ScoringInv, NEW answer \in Answers[workflow], clone # NotThere,
         FinishTriage(answer) \/ FinishRebase(answer)
  PROVE  ScoringInv'
<1>1. clone \in Clone /\ artifacts \subseteq Kind /\ ScoringTypeOK
  BY DEF ScoringInv, ScoringTypeOK
<1>2. CASE FinishTriage(answer)
  <2> DEFINE a == ActualOf(answer, {}, {}, clone)
  <2>0. {} \subseteq Kind /\ {} \subseteq Path /\ workflow = "triage" /\ ~FromTriage
    BY <1>1, <1>2 DEF FinishTriage, FromTriage
  <2>1. WellMade(a, {}, {}) /\ a.of = "triage"
    BY <1>1, <2>0, ActualIs DEF ActualOf
  <2>2. actual' = [a EXCEPT !.touched = {}, !.kinds = {}]
    BY <1>2 DEF FinishTriage
  <2>3. /\ actual'.touched = {} /\ actual'.kinds = {}
        /\ actual'.fields = a.fields /\ actual'.given = a.given
        /\ actual'.unrelated = a.unrelated /\ actual'.uncommitted = a.uncommitted
        /\ actual'.changed = a.changed /\ actual'.of = a.of
    BY <2>2 DEF ActualOf
  <2> HIDE DEF a
  <2>4. \A m \in Metric : SaidBy(actual', m)
    BY <2>1, <2>3 DEF WellMade, SaidBy
  <2>5. FieldsAreSaid' /\ TriageIsBackport'
    BY <1>2, <2>0, <2>4 DEF FinishTriage, FieldsAreSaid, TriageIsBackport, SaidBy, FromTriage
  <2> QED
    BY <1>2, <2>1, <2>3, <2>5
       DEF FinishTriage, WellMade, ScoringInv, ScoringTypeOK, PartsInv,
           UnrelatedIsOfTheCommit, KindsAreThere
<1>3. CASE FinishRebase(answer)
  <2> DEFINE a == ActualOf(answer, artifacts, {}, clone)
  <2>0. artifacts \subseteq Kind /\ {} \subseteq Path /\ workflow = "rebase" /\ ~FromTriage
    BY <1>1, <1>3 DEF FinishRebase, FromTriage
  <2>1. WellMade(a, artifacts, {}) /\ a.of = "rebase"
    BY <1>1, <2>0, ActualIs DEF ActualOf
  <2>2. actual' = a
    BY <1>3 DEF FinishRebase
  <2> HIDE DEF a
  <2>3. FieldsAreSaid' /\ TriageIsBackport'
    BY <1>3, <2>0, <2>1, <2>2
       DEF FinishRebase, WellMade, FieldsAreSaid, TriageIsBackport, SaidBy, FromTriage
  <2> QED
    BY <1>3, <2>1, <2>2, <2>3
       DEF FinishRebase, WellMade, ScoringInv, ScoringTypeOK, PartsInv,
           UnrelatedIsOfTheCommit, KindsAreThere
<1> QED
  BY <1>2, <1>3

LEMMA BackportIs ==
  ASSUME ScoringInv, NEW answer \in Answers[workflow], NEW n \in 0..BackportWrites,
         FinishBackport(answer, n)
  PROVE  ScoringInv'
<1> DEFINE touched == Delta(clone) \cup Named(clone)
           made == Made(n, answer, touched, clone)
           a == ActualOf(answer, artifacts \cup made, touched, clone)
<1>1. clone \in Clone /\ artifacts \subseteq Kind /\ artifacts' = artifacts \cup made
  BY DEF FinishBackport, ScoringInv, ScoringTypeOK
<1>n. n \in Nat
  BY DEF BackportWrites, CaptureOrder
<1>2. touched \subseteq Path /\ made \subseteq Kind
  BY <1>1, <1>n, DeltaIs, MadeIs
<1>3. WellMade(a, artifacts \cup made, touched)
  <2>1. artifacts \cup made \subseteq Kind /\ ScoringTypeOK
    BY <1>1, <1>2 DEF ScoringInv
  <2> HIDE DEF made, touched
  <2> QED
    BY <1>1, <1>2, <2>1, ActualIs
<1>4. a.commits = 1 => a.unrelated = a.changed \ Expectable
  BY <1>1, <1>3, DeltaIs DEF WellMade
<1>5. capturedKinds' \in {made, capturedKinds} /\ actual' \in {a, actual}
  BY DEF FinishBackport
<1>6. UNCHANGED <<workflow, expected, triaged, attempts, work, reports>> /\ clone' = NotThere
  BY DEF FinishBackport
<1>7. clone # NotThere
  BY DEF FinishBackport
<1> HIDE DEF a, made, touched
<1>8. capturedKinds' # NotThere => capturedKinds' \subseteq artifacts'
  BY <1>1, <1>5 DEF ScoringInv, PartsInv, KindsAreThere
<1>9. TriageIsBackport'
  BY <1>6, <1>7 DEF ScoringInv, PartsInv, TriageIsBackport, FromTriage
<1>10. FieldsAreSaid'
  BY <1>3, <1>5, <1>6 DEF WellMade, ScoringInv, PartsInv, FieldsAreSaid, SaidBy, FromTriage
<1>11. capturedKinds' \in (SUBSET Kind) \cup {NotThere}
  BY <1>2, <1>5 DEF ScoringInv, ScoringTypeOK
<1>12. CASE actual' = a
  BY <1>1, <1>2, <1>3, <1>4, <1>6, <1>8, <1>9, <1>10, <1>11, <1>12
     DEF WellMade, ScoringInv, ScoringTypeOK, PartsInv, UnrelatedIsOfTheCommit, KindsAreThere
<1>13. CASE actual' = actual
  BY <1>1, <1>2, <1>6, <1>8, <1>9, <1>10, <1>11, <1>13
     DEF ScoringInv, ScoringTypeOK, PartsInv, UnrelatedIsOfTheCommit, KindsAreThere
<1> QED
  BY <1>5, <1>12, <1>13

LEMMA ScoringNextInv == ScoringInv /\ [ScoringNext]_scoringVars => ScoringInv'
<1> SUFFICES ASSUME ScoringInv, [ScoringNext]_scoringVars PROVE ScoringInv'
  OBVIOUS
<1> USE DEF ScoringInv, ScoringTypeOK, PartsInv, FieldsAreSaid, SaidBy, TriageIsBackport,
            FromTriage, UnrelatedIsOfTheCommit, KindsAreThere, onFile
<1>1. ASSUME NEW base \in LastChange, Begin(base) PROVE ScoringInv'
  <2>1. clone' \in Clone
    BY <1>1, ScoringAssumption DEF Begin, Clone
  <2> QED
    BY <1>1, <2>1, ScoringAssumption DEF Begin, Startable
<1>2. ASSUME NEW next \in Clone, AgentWorks(next) PROVE ScoringInv'
  BY <1>2, ScoringAssumption DEF AgentWorks
<1>3. ASSUME NEW p \in Path, WriteFile(p) PROVE ScoringInv'
  BY <1>2, <1>3, WorkIs DEF WriteFile, AgentWorks
<1>4. CASE AddFiles
  BY <1>2, <1>4, WorkIs DEF AddFiles, AgentWorks
<1>5. CASE CommitWork
  BY <1>2, <1>5, WorkIs DEF CommitWork
<1>6. CASE AmendWork
  BY <1>2, <1>6, WorkIs DEF AmendWork
<1>7. CASE Abandon
  BY <1>7 DEF Abandon
<1>8. ASSUME NEW answer \in Answers[workflow], FinishTriage(answer) \/ FinishRebase(answer)
      PROVE  ScoringInv'
  BY <1>8, FinishedIs DEF FinishTriage, FinishRebase
<1>9. ASSUME NEW answer \in Answers[workflow], NEW n \in 0..BackportWrites,
             FinishBackport(answer, n)
      PROVE  ScoringInv'
  BY <1>9, BackportIs
<1>10. ASSUME NEW e \in Expected, EditExpected(e) PROVE ScoringInv'
  BY <1>10 DEF EditExpected
<1>11. ASSUME NEW r \in DOMAIN reports, NEW report \in CaseReport, WriteReport(r, report)
       PROVE  ScoringInv'
  <2>1. /\ artifacts' = {} /\ capturedKinds' = NotThere /\ actual' = NotThere
        /\ UNCHANGED <<workflow, expected, triaged, attempts, work, clone>>
    BY <1>11 DEF WriteReport
  <2>2. reports' \in [{"baseline", "candidate"} -> CaseReport \cup {NotThere}]
    BY <1>11 DEF WriteReport
  <2> QED
    BY <2>1, <2>2
<1>12. ASSUME NEW r \in DOMAIN reports, ScoreResults(r) PROVE ScoringInv'
  <2>1. Headline(expected) \in BOOLEAN
    BY DEF Headline
  <2>2. CaseVerdict \in {"passed", "failed", "skipped", "missing"}
    BY DEF CaseVerdict
  <2>3. [headline |-> Headline(expected), statuses |-> {CaseVerdict}] \in CaseReport
    <3> DEFINE h == Headline(expected)
               v == CaseVerdict
    <3> HIDE DEF h, v
    <3>1. h \in BOOLEAN /\ v \in {"passed", "failed", "skipped", "missing"}
      BY <2>1, <2>2 DEF h, v
    <3>2. {v} \in (SUBSET {"passed", "failed", "skipped", "missing"}) \ {{}}
      BY <3>1
    <3>3. [headline |-> h, statuses |-> {v}] \in CaseReport
      BY <3>1, <3>2 DEF CaseReport, RunStatus
    <3> QED
      BY <3>3 DEF h, v
  <2> QED
    BY <1>11, <1>12, <2>3 DEF ScoreResults
<1>13. ASSUME NEW r \in DOMAIN reports, NEW statuses \in (SUBSET RunStatus) \ {{}},
              ReportRun(r, statuses)
       PROVE  ScoringInv'
  <2>1. [headline |-> FALSE, statuses |-> statuses] \in CaseReport
    BY DEF CaseReport, RunStatus
  <2> QED
    BY <1>11, <1>13, <2>1 DEF ReportRun
<1>14. CASE UNCHANGED scoringVars
  BY <1>14 DEF scoringVars
<1> QED
  BY <1>1, <1>3, <1>4, <1>5, <1>6, <1>7, <1>8, <1>9, <1>10, <1>12, <1>13, <1>14
     DEF ScoringNext

LEMMA ScoringInvariant == ScoringSpec => []ScoringInv
<1> QED
  BY ScoringInitInv, ScoringNextInv, PTL DEF ScoringSpec

(* The state of a case's results and scores has its type.                  *)
THEOREM ScoringTypeCorrect == ScoringSpec => []ScoringTypeOK
<1>1. ScoringInv => ScoringTypeOK
  BY DEF ScoringInv
<1> QED
  BY <1>1, ScoringInvariant, PTL
-----------------------------------------------------------------------------
LEMMA PassedIs ==
  ASSUME CaseVerdict = "passed"
  PROVE  actual # NotThere /\ Passes(actual)
  BY DEF CaseVerdict

(* No pass but on what the workflow came back with, but for its own        *)
(* resolution and for fields filled in where it had no value: whatever the *)
(* recorded triage results, the expectations and the edits of them.        *)
THEOREM PassesAreEarned == ScoringSpec => []PassIsEarned
<1>1. ASSUME ScoringInv, CaseVerdict = "passed"
      PROVE  /\ ~actual.tripped
             /\ FromTriage => triaged[ResolutionMetric] = Resolves["backport"]
             /\ \E accept \in Acceptable : \A m \in Metric : Earned(m, accept.fields[m])
  <2>1. actual # NotThere
    BY <1>1, PassedIs
  <2>2. PICK accept \in Acceptable : ScoredOnce(accept, actual)
    BY <1>1, PassedIs DEF Passes
  <2>3. ~actual.tripped
    BY <2>2 DEF ScoredOnce, Clean
  <2>4. \A m \in Metric : SaidBy(actual, m) /\ Agrees(m, accept.fields[m], actual.fields[m])
    BY <1>1, <2>1, <2>2 DEF ScoringInv, PartsInv, FieldsAreSaid, ScoredOnce
  <2>5. Agrees(ResolutionMetric, accept.fields[ResolutionMetric], actual.fields[ResolutionMetric])
          => accept.fields[ResolutionMetric] = actual.fields[ResolutionMetric]
    BY ScoringAssumption DEF Agrees
  <2>6. \A m \in Metric : Earned(m, accept.fields[m])
    BY <2>4, <2>5 DEF SaidBy, Earned, States
  <2>7. FromTriage => triaged[ResolutionMetric] = Resolves["backport"]
    BY <1>1, <2>1 DEF ScoringInv, PartsInv, TriageIsBackport
  <2> QED
    BY <2>3, <2>6, <2>7
<1>2. ScoringInv => PassIsEarned
  BY <1>1 DEF PassIsEarned
<1> QED
  BY <1>2, ScoringInvariant, PTL

(* The gates judge the files the agent changed, in every clone and after   *)
(* any sequence of writes, additions, one commit and amendments of it.     *)
THEOREM GatesAreFair == ScoringSpec => []GatesJudgeTheAgent
<1>1. ASSUME ScoringInv, actual # NotThere, actual.of = "backport", actual.commits = 1
      PROVE  /\ actual.unrelated \subseteq actual.changed
             /\ CaseVerdict = "passed" => actual.changed \subseteq Expectable
  <2>1. actual.unrelated = actual.changed \ Expectable
    BY <1>1 DEF ScoringInv, PartsInv, UnrelatedIsOfTheCommit
  <2>2. CaseVerdict = "passed" => actual.unrelated = {}
    BY PassedIs DEF Passes, ScoredOnce, Clean
  <2> QED
    BY <2>1, <2>2
<1>2. ScoringInv => GatesJudgeTheAgent
  BY <1>1 DEF GatesJudgeTheAgent
<1> QED
  BY <1>2, ScoringInvariant, PTL

(* What the outcome a backport passes with requires is in its artifact     *)
(* directory, after any number of attempts that were killed while          *)
(* capturing.                                                              *)
THEOREM RequiredKindsAreThere == ScoringSpec => []RequiredKindsExist
<1>1. ASSUME ScoringInv, CaseVerdict = "passed", actual.of = "backport"
      PROVE  \A accept \in Acceptable :
               ScoredOnce(accept, actual) => accept.required \ {"srpm"} \subseteq artifacts
  <2>1. actual # NotThere
    BY <1>1, PassedIs
  <2>2. \A accept \in Acceptable : ScoredOnce(accept, actual) =>
                                   accept.required \subseteq ActualKinds(actual)
    BY DEF ScoredOnce
  <2>3. /\ capturedKinds # NotThere => capturedKinds \subseteq artifacts
        /\ actual.kinds \ {"srpm"} \subseteq artifacts
    BY <1>1, <2>1 DEF ScoringInv, PartsInv, KindsAreThere
  <2> QED
    BY <2>2, <2>3 DEF ActualKinds
<1>2. ScoringInv => RequiredKindsExist
  BY <1>1 DEF RequiredKindsExist
<1> QED
  BY <1>2, ScoringInvariant, PTL
-----------------------------------------------------------------------------
(* The status of a case in a report that has it.                           *)
LEMMA StatusIs ==
  ASSUME NEW report \in CaseReport, report # NotThere
  PROVE  /\ StatusIn(report) # "absent"
         /\ StatusIn(report) = "passed" <=> report.statuses = {"passed"}
<1>1. report.statuses \subseteq {"passed", "failed", "skipped", "missing"}
  BY DEF CaseReport, RunStatus
<1>2. IsFiniteSet(report.statuses)
  <2>1. IsFiniteSet({"passed", "failed", "skipped", "missing"})
    <3>1. IsFiniteSet({"passed"} \cup {"failed"} \cup {"skipped"} \cup {"missing"})
      BY FS_Singleton, FS_Union
    <3>2. {"passed"} \cup {"failed"} \cup {"skipped"} \cup {"missing"}
            = {"passed", "failed", "skipped", "missing"}
      OBVIOUS
    <3> QED
      BY <3>1, <3>2
  <2> QED
    BY <1>1, <2>1, FS_Subset
<1>3. CASE Cardinality(report.statuses) = 1
  <2>1. PICK x : report.statuses = {x}
    BY <1>2, <1>3, FS_Singleton
  <2>2. (CHOOSE s \in report.statuses : TRUE) = x
    BY <2>1
  <2>3. StatusIn(report) = x
    BY <1>3, <2>2 DEF StatusIn, InReport
  <2> QED
    BY <1>1, <2>1, <2>3
<1>4. CASE Cardinality(report.statuses) # 1
  <2>1. StatusIn(report) = "flaky"
    BY <1>4 DEF StatusIn, InReport
  <2>2. report.statuses # {"passed"}
    BY <1>4, FS_Singleton
  <2> QED
    BY <2>1, <2>2
<1> QED
  BY <1>3, <1>4

(* A regression makes the comparison fail, whatever became of the case's   *)
(* standing between the two reports, and nothing else in both does.        *)
THEOREM RegressionsShow == ScoringSpec => []RegressionShows
<1>1. ASSUME ScoringTypeOK PROVE RegressionShows
  <2> DEFINE base == reports["baseline"]
             cand == reports["candidate"]
  <2>1. base \in CaseReport \cup {NotThere} /\ cand \in CaseReport \cup {NotThere}
    BY <1>1 DEF ScoringTypeOK
  <2>2. /\ StatusIn(base) = "absent" <=> base = NotThere
        /\ StatusIn(cand) = "absent" <=> cand = NotThere
    BY <2>1, StatusIs DEF StatusIn, InReport
  <2>3. base # NotThere => (StatusIn(base) = "passed" <=> base.statuses = {"passed"})
    BY <2>1, StatusIs
  <2>4. cand # NotThere => (StatusIn(cand) = "passed" <=> cand.statuses = {"passed"})
    BY <2>1, StatusIs
  <2>5. Counts(base, cand) <=> Counts(cand, base)
    BY DEF Counts
  <2>6. base # NotThere /\ base.headline => Counts(base, cand)
    BY DEF Counts, InReport
  <2> HIDE DEF base, cand
  <2>7. (InReport(base) /\ base.headline /\ base.statuses = {"passed"}
             /\ (~InReport(cand) \/ cand.statuses # {"passed"}))
           => Nonzero(base, cand)
    BY <2>2, <2>3, <2>4, <2>6 DEF InReport, Nonzero, CompareCase
  <2>8. (InReport(base) /\ InReport(cand) /\ Nonzero(base, cand)) => base.statuses = {"passed"}
    BY <2>2, <2>3, <2>4 DEF InReport, Nonzero, CompareCase
  <2>9. CompareCase(base, cand) = "win" <=> CompareCase(cand, base) = "regression"
    BY <2>2, <2>5 DEF CompareCase
  <2> QED
    BY <2>7, <2>8, <2>9 DEF RegressionShows, base, cand
<1> QED
  BY <1>1, ScoringTypeCorrect, PTL
=============================================================================
