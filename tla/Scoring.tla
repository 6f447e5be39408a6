------------------------------ MODULE Scoring ------------------------------
(***************************************************************************)
(* From what an agent did to the verdict on its case: the actual result    *)
(* and the artifacts of a workflow (ymir_workflows.py, artifacts.py), its  *)
(* score (scoring.py) and the comparison of two reports (comparison.py).   *)
(*                                                                         *)
(* The attempts at a case share its artifact directory, which no one       *)
(* empties, and the file of its actual result, which only an attempt that  *)
(* gets to its end writes. Both outlive the expected result they were made *)
(* for, which a maintainer may edit at any time.                           *)
(***************************************************************************)
EXTENDS FiniteSets, Naturals, Sequences

CONSTANTS
  Path,         \* files in a clone of the package's repository
  Versioned,    \* those that were there when the agent started
  Patches,      \* those that are patches
  SpecFile,     \* the package's spec file
  Expectable,   \* those a backport may change
  Metric,       \* fields of a result that are compared
  Exact,        \* those compared even if the expected result has none
  Lenient,      \* those not compared if the actual result has none
  UrlMetric,         \* the field with the URLs of patches
  ResolutionMetric,  \* the field with the resolution
  Covers,       \* <<expected, actual>>: other URLs, but of the same commits
  Verdict,      \* values of fields
  Absent,       \* no value
  NotThere,     \* no file, no clone
  Resolves,     \* [Workflow -> the resolution that is the workflow's name]
  Filled,       \* [Workflow -> fields an attempt takes from its inputs]
  Answers,      \* [Workflow -> what it comes back with]
  Expected,     \* what expected results may say
  Triaged,      \* what a recorded triage result may say
  LastChange,   \* sets of files the repository's last commit may have changed
  WorkLimit,    \* bound on what the agents of all attempts do to their clones
  AttemptLimit  \* bound on attempts

Workflow == {"triage", "backport", "rebase"}
Kind == {"srpm", "backport_result", "log_result", "spec_file", "commit_diff", "patch_files"}
Outcome == [Metric -> Verdict \cup {Absent}]

(* counts: the case is no doubtful one. primary and alternates: what will  *)
(* do, the latter with all they replace in the former. scope: the files    *)
(* that may change, if not empty.                                          *)
CaseStatus == {"active", "quarantined", "excluded"}
Acceptance == [fields : Outcome, required : SUBSET Kind, scope : SUBSET Path]
ExpectedResult ==
  [status : CaseStatus, counts : BOOLEAN, primary : Acceptance, alternates : SUBSET Acceptance]

(* fields: what a triage agent says; of another workflow, what its agent   *)
(* says of the build and what its state has for the fields that inputs     *)
(* would fill. srpm: a source package is named, and may be there. tripped: *)
(* an unsafe operation, a replay violation or an error is reported.        *)
AgentAnswer ==
  [fields : Outcome, srpm : {"none", "named", "there"}, log : BOOLEAN,
   claims : SUBSET Path, tripped : BOOLEAN]

ASSUME ScoringAssumption ==
  /\ SpecFile \in Versioned \cap Expectable
  /\ Versioned \subseteq Path /\ Patches \subseteq Expectable /\ Expectable \subseteq Path
  /\ Exact \subseteq Metric /\ Lenient \subseteq Metric \ Exact /\ UrlMetric \in Metric
  /\ ResolutionMetric \in Exact \ {UrlMetric}
  /\ Covers \subseteq Verdict \X Verdict
  /\ Absent \notin Verdict
  /\ Resolves \in [Workflow \ {"triage"} -> Verdict]
  /\ Filled \in [Workflow -> SUBSET (Metric \ {ResolutionMetric})]
  /\ Answers \in [Workflow -> SUBSET AgentAnswer]
  /\ Expected \subseteq ExpectedResult
  /\ Triaged \subseteq Outcome
  /\ LastChange \subseteq SUBSET Versioned
  /\ WorkLimit \in Nat /\ AttemptLimit \in Nat

VARIABLES
  workflow,
  expected,   \* the expected result of the case
  triaged,    \* the triage result recorded for the case, or NotThere
  attempts,   \* how many have begun, with both versions
  work,       \* how often an agent has changed its clone
  clone,      \* the clone of the attempt under way, or NotThere
  artifacts,  \* kinds of files in the artifact directory
  capturedKinds,   \* kinds its manifest names, or NotThere
  actual,     \* the actual result on file, or NotThere
  reports     \* [baseline and candidate -> what it says of the case, or NotThere]

scoringVars ==
  <<workflow, expected, triaged, attempts, work, clone, artifacts, capturedKinds, actual, reports>>
onFile == <<artifacts, capturedKinds, actual>>
-----------------------------------------------------------------------------
(* What a workflow is started with: for a backport a recorded triage       *)
(* result if there is one, else the expected result.                       *)
FromTriage == workflow = "backport" /\ triaged # NotThere
Inputs == IF FromTriage THEN triaged ELSE expected.primary.fields

(* A workflow other than triage states its resolution itself.              *)
States(w, m) == w # "triage" /\ m = ResolutionMetric

(* Mutant of Reported: the input comes before what the workflow has.       *)
ReportedInput(answer) ==
  [m \in Metric |-> IF States(workflow, m) THEN Resolves[workflow]
                    ELSE IF Inputs[m] # Absent /\ m \in Filled[workflow]
                    THEN Inputs[m] ELSE answer.fields[m]]

(* The fields an attempt reports: the workflow's own resolution, what it   *)
(* came back with, and where that has no value the input's.                *)
Reported(answer) ==
  [m \in Metric |-> IF States(workflow, m) THEN Resolves[workflow]
                    ELSE IF answer.fields[m] = Absent /\ m \in Filled[workflow]
                    THEN Inputs[m] ELSE answer.fields[m]]

(* A backport does not start from the result of a triage that came to      *)
(* something else, and no workflow without its inputs.                     *)
Startable ==
  /\ FromTriage => triaged[ResolutionMetric] = Resolves["backport"]
  /\ workflow # "triage" => \A m \in Filled[workflow] : Inputs[m] # Absent

(* Mutant of Delta: what is committed does not matter.                     *)
DeltaTree(c) == c.tree

(* _backport_git_delta: the last commit and the changes since.             *)
Delta(c) ==
  (IF c.commits = <<>> THEN c.base ELSE c.commits[Len(c.commits)]) \cup c.tree

(* Patches that are not in git yet but that a changed spec names.          *)
Named(c) == IF SpecFile \in Delta(c) THEN c.loose \cap Patches ELSE {}

(* capture_backport_artifacts, in the order of its writes.                 *)
CaptureOrder ==
  <<"srpm", "backport_result", "log_result", "spec_file", "commit_diff", "patch_files">>
Makes(kind, answer, touched, c) ==
  CASE kind = "srpm" -> answer.srpm = "there"
    [] kind = "log_result" -> answer.log
    [] kind = "commit_diff" -> Delta(c) # {}
    [] kind = "patch_files" -> touched \cap Patches # {}
    [] OTHER -> TRUE

Made(n, answer, touched, c) ==
  {CaptureOrder[k] : k \in {j \in DOMAIN CaptureOrder :
                              j <= n /\ Makes(CaptureOrder[j], answer, touched, c)}}

(* The kinds the names of the generated artifacts tell: those of an SRPM   *)
(* the agent names, and of whatever is in the directory.                   *)
GeneratedKinds(answer, there) == there \cup (IF answer.srpm = "none" THEN {} ELSE {"srpm"})

ScoringInit ==
  /\ workflow \in Workflow
  /\ expected \in Expected
  /\ triaged \in Triaged \cup {NotThere}
  /\ attempts = 0
  /\ work = 0
  /\ clone = NotThere
  /\ artifacts = {}
  /\ capturedKinds = NotThere
  /\ actual = NotThere
  /\ reports = [r \in {"baseline", "candidate"} |-> NotThere]
-----------------------------------------------------------------------------
(* Mutant of Begin: the directory is emptied, the actual result is not.    *)
BeginEmpty(base) ==
  /\ clone = NotThere /\ reports["candidate"] = NotThere
  /\ attempts < AttemptLimit
  /\ Startable
  /\ attempts' = attempts + 1
  /\ clone' = [base |-> base, commits |-> <<>>, tree |-> {}, loose |-> {}]
  /\ artifacts' = {} /\ capturedKinds' = NotThere
  /\ UNCHANGED <<workflow, expected, triaged, work, actual, reports>>

(* An attempt begins with a clone of the package's repository.             *)
Begin(base) ==
  /\ clone = NotThere /\ reports["candidate"] = NotThere
  /\ attempts < AttemptLimit
  /\ Startable
  /\ attempts' = attempts + 1
  /\ clone' = [base |-> base, commits |-> <<>>, tree |-> {}, loose |-> {}]
  /\ UNCHANGED <<workflow, expected, triaged, work, onFile, reports>>

(* What the agent did to files git knows of (history).                     *)
ByAgent(c) == c.tree \cup UNION {c.commits[k] : k \in DOMAIN c.commits}

(* The agent changes a file git knows or makes one it does not know, adds  *)
(* those, commits, or amends its last commit.                              *)
Known(c) == Versioned \cup ByAgent(c)
AgentWorks(next) ==
  /\ clone # NotThere /\ workflow = "backport"
  /\ work < WorkLimit
  /\ work' = work + 1
  /\ clone' = next
  /\ UNCHANGED <<workflow, expected, triaged, attempts, onFile, reports>>

WriteFile(p) ==
  AgentWorks(IF p \in Known(clone) THEN [clone EXCEPT !.tree = @ \cup {p}]
             ELSE [clone EXCEPT !.loose = @ \cup {p}])
AddFiles == AgentWorks([clone EXCEPT !.tree = @ \cup clone.loose, !.loose = {}])
CommitWork ==
  /\ clone # NotThere /\ clone.tree # {}
  /\ AgentWorks([clone EXCEPT !.commits = Append(@, clone.tree), !.tree = {}])
AmendWork ==
  /\ clone # NotThere /\ clone.tree # {} /\ clone.commits # <<>>
  /\ AgentWorks([clone EXCEPT !.commits[Len(clone.commits)] = @ \cup clone.tree, !.tree = {}])

(* The attempt ends without a result: it fails, or it is out of time.      *)
Abandon ==
  /\ clone # NotThere
  /\ clone' = NotThere
  /\ UNCHANGED <<workflow, expected, triaged, attempts, work, onFile, reports>>

ActualOf(answer, there, touched, c) ==
  [fields |-> Reported(answer), kinds |-> GeneratedKinds(answer, there),
   touched |-> touched \cup answer.claims, unrelated |-> touched \ Expectable,
   uncommitted |-> c.tree, tripped |-> answer.tripped,
   of |-> workflow, given |-> answer.fields,
   commits |-> Len(c.commits), changed |-> ByAgent(c)]

(* A backport's artifacts are captured, then their manifest, and after a   *)
(* judge had a look the actual result is written. A killed attempt gets n  *)
(* of these writes done and no more. The file list of a rebase has what is *)
(* in the directory.                                                       *)
BackportWrites == Len(CaptureOrder) + 2
FinishTriage(answer) ==
  /\ clone # NotThere /\ workflow = "triage"
  /\ actual' = [ActualOf(answer, {}, {}, clone) EXCEPT !.touched = {}, !.kinds = {}]
  /\ clone' = NotThere
  /\ UNCHANGED <<workflow, expected, triaged, attempts, work, artifacts, capturedKinds, reports>>

FinishRebase(answer) ==
  /\ clone # NotThere /\ workflow = "rebase"
  /\ actual' = ActualOf(answer, artifacts, {}, clone)
  /\ clone' = NotThere
  /\ UNCHANGED <<workflow, expected, triaged, attempts, work, artifacts, capturedKinds, reports>>

FinishBackport(answer, n) ==
  LET touched == Delta(clone) \cup Named(clone)
      made == Made(n, answer, touched, clone)
  IN  /\ clone # NotThere /\ workflow = "backport"
      /\ artifacts' = artifacts \cup made
      /\ capturedKinds' = IF n > Len(CaptureOrder) THEN made ELSE capturedKinds
      /\ actual' = IF n = BackportWrites THEN ActualOf(answer, artifacts \cup made, touched, clone)
                   ELSE actual
      /\ clone' = NotThere
      /\ UNCHANGED <<workflow, expected, triaged, attempts, work, reports>>

EditExpected(e) ==
  /\ clone = NotThere
  /\ expected # e
  /\ expected' = e
  /\ UNCHANGED <<workflow, triaged, attempts, work, clone, onFile, reports>>
-----------------------------------------------------------------------------
(* Other URLs will do if every commit of the expected ones is in them.     *)
UrlsCover(want, got) == <<want, got>> \in Covers

(* _compare and _compare_list.                                             *)
Agrees(m, want, got) ==
  \/ want = got
  \/ m \notin Exact /\ want = Absent
  \/ m \in Lenient /\ got = Absent
  \/ m = UrlMetric /\ UrlsCover(want, got)

(* The hard gates and the errors.                                          *)
Clean(a) == ~a.tripped /\ a.unrelated = {} /\ a.uncommitted = {}

(* The names of patches do not matter, but whether there is one does.      *)
InScope(scope, touched) ==
  scope # {} =>
    /\ scope \ Patches = touched \ Patches
    /\ scope \cap Patches # {} <=> touched \cap Patches # {}

(* The manifest is looked up in the directory when the score is made.      *)
ActualKinds(a) ==
  a.kinds \cup IF a.of = "backport" /\ capturedKinds # NotThere THEN capturedKinds ELSE {}

ScoredOnce(accept, a) ==
  /\ Clean(a)
  /\ accept.required \subseteq ActualKinds(a)
  /\ InScope(accept.scope, a.touched)
  /\ \A m \in Metric : Agrees(m, accept.fields[m], a.fields[m])

Acceptable == {expected.primary} \cup expected.alternates
Passes(a) == \E accept \in Acceptable : ScoredOnce(accept, a)

(* _score_expected_file and _headline_exclusion_reason.                    *)
Headline(e) == e.status = "active" /\ e.counts
CaseVerdict ==
  IF expected.status = "excluded" THEN "skipped"
  ELSE IF actual = NotThere THEN "missing"
  ELSE IF Passes(actual) THEN "passed" ELSE "failed"

(* The version that is compared with is run first; the results of either   *)
(* have a directory of their own.                                          *)
WriteReport(r, report) ==
  /\ clone = NotThere
  /\ reports["candidate"] = NotThere
  /\ reports' = [reports EXCEPT ![r] = report]
  /\ artifacts' = {} /\ capturedKinds' = NotThere /\ actual' = NotThere
  /\ UNCHANGED <<workflow, expected, triaged, attempts, work, clone>>

ScoreResults(r) == WriteReport(r, [headline |-> Headline(expected), statuses |-> {CaseVerdict}])

(* The report of a run has an entry for every repetition, and does not say *)
(* whether a case counts.                                                  *)
RunStatus == {"passed", "failed"}
ReportRun(r, statuses) == WriteReport(r, [headline |-> FALSE, statuses |-> statuses])

ScoringNext ==
  \/ \E base \in LastChange : Begin(base)
  \/ \E p \in Path : WriteFile(p)
  \/ AddFiles
  \/ CommitWork
  \/ AmendWork
  \/ Abandon
  \/ \E answer \in Answers[workflow] : FinishTriage(answer) \/ FinishRebase(answer)
  \/ \E answer \in Answers[workflow], n \in 0..BackportWrites : FinishBackport(answer, n)
  \/ \E e \in Expected : EditExpected(e)
  \/ \E r \in DOMAIN reports :
       \/ ScoreResults(r)
       \/ \E statuses \in (SUBSET RunStatus) \ {{}} : ReportRun(r, statuses)

ScoringSpec == ScoringInit /\ [][ScoringNext]_scoringVars
-----------------------------------------------------------------------------
(* comparison.py: a case with different results is flaky.                  *)
InReport(report) == report # NotThere
StatusIn(report) ==
  IF ~InReport(report) THEN "absent"
  ELSE IF Cardinality(report.statuses) = 1 THEN CHOOSE s \in report.statuses : TRUE
  ELSE "flaky"

(* Mutant of Counts: a case counts if it counts now.                       *)
CountsNow(base, cand) == InReport(cand) /\ cand.headline
Counts(base, cand) ==
  \/ InReport(base) /\ base.headline
  \/ InReport(cand) /\ cand.headline

CompareCase(base, cand) ==
  LET before == StatusIn(base)
      after == StatusIn(cand)
  IN  IF ~Counts(base, cand) THEN "non_headline"
      ELSE IF before = "absent" THEN "missing_in_baseline"
      ELSE IF after = "absent" THEN "missing_in_candidate"
      ELSE IF after = "passed" /\ before # "passed" THEN "win"
      ELSE IF before = "passed" /\ after # "passed" THEN "regression"
      ELSE IF before = "passed" THEN "unchanged_pass" ELSE "unchanged_fail"

Nonzero(base, cand) == CompareCase(base, cand) \in {"regression", "missing_in_candidate"}
-----------------------------------------------------------------------------
Clone == [base : SUBSET Path, commits : Seq(SUBSET Path), tree : SUBSET Path,
          loose : SUBSET Path]
CaseReport == [headline : BOOLEAN,
           statuses : (SUBSET (RunStatus \cup {"skipped", "missing"})) \ {{}}]
ScoringTypeOK ==
  /\ workflow \in Workflow
  /\ expected \in Expected /\ triaged \in Triaged \cup {NotThere}
  /\ attempts \in 0..AttemptLimit /\ work \in 0..WorkLimit
  /\ clone \in Clone \cup {NotThere}
  /\ artifacts \subseteq Kind
  /\ capturedKinds \in (SUBSET Kind) \cup {NotThere}
  /\ actual # NotThere =>
       /\ actual.fields \in Outcome /\ actual.given \in Outcome
       /\ actual.kinds \subseteq Kind
       /\ actual.touched \subseteq Path /\ actual.unrelated \subseteq Path
       /\ actual.uncommitted \subseteq Path
       /\ actual.changed \subseteq Path
  /\ reports \in [{"baseline", "candidate"} -> CaseReport \cup {NotThere}]

(* A case passes without a gate in its way and in all fields of one        *)
(* acceptable outcome on what its workflow came back with. Two things are  *)
(* not the workflow's answer: the resolution, which of a backport or a     *)
(* rebase is wanted to be just that, and fields filled in where there was  *)
(* no value, for a backport by a triage result that is right about them    *)
(* and resolved to a backport. What the expected result said then, or says *)
(* now, never replaces a wrong answer.                                     *)
Earned(m, want) ==
  IF States(actual.of, m) THEN want = Resolves[actual.of]
  ELSE \/ Agrees(m, want, actual.given[m])
       \/ /\ m \in Filled[actual.of] /\ actual.given[m] = Absent
          /\ FromTriage => Agrees(m, want, triaged[m])
PassIsEarned ==
  CaseVerdict = "passed" =>
    /\ ~actual.tripped
    /\ FromTriage => triaged[ResolutionMetric] = Resolves["backport"]
    /\ \E accept \in Acceptable : \A m \in Metric : Earned(m, accept.fields[m])

(* The gates judge what the agent did to the package and nothing else:     *)
(* after one commit, amended or not, a passed backport leaves all other    *)
(* files alone and nothing that git knows uncommitted, and no file is held *)
(* against it that it did not change. Without a commit, or after several,  *)
(* the last commit of the repository is not what the agent did.            *)
GatesJudgeTheAgent ==
  (actual # NotThere /\ actual.of = "backport" /\ actual.commits = 1) =>
    /\ actual.unrelated \subseteq actual.changed
    /\ CaseVerdict = "passed" => actual.changed \subseteq Expectable

(* Whenever a backport is scored, with whatever later attempt killed half  *)
(* way, a kind that the outcome it passes with requires is there to be     *)
(* looked at, but for a source package: naming one is enough.              *)
RequiredKindsExist ==
  (CaseVerdict = "passed" /\ actual.of = "backport") =>
    \A accept \in Acceptable :
      ScoredOnce(accept, actual) => accept.required \ {"srpm"} \subseteq artifacts

(* A case that counted and passed in the baseline and does not pass in the *)
(* candidate makes the comparison fail, also when the case was excluded or *)
(* put in quarantine in between; it fails for no other case that both      *)
(* reports have; and what is a win one way is a regression the other way.  *)
RegressionShows ==
  LET base == reports["baseline"]
      cand == reports["candidate"]
  IN  /\ (InReport(base) /\ base.headline /\ base.statuses = {"passed"}
             /\ (~InReport(cand) \/ cand.statuses # {"passed"}))
           => Nonzero(base, cand)
      /\ (InReport(base) /\ InReport(cand) /\ Nonzero(base, cand)) => base.statuses = {"passed"}
      /\ CompareCase(base, cand) = "win" <=> CompareCase(cand, base) = "regression"
=============================================================================
