---------------------------- MODULE ActivateCase ----------------------------
(***************************************************************************)
(* prepare-case and activate-case over the two directories that hold a     *)
(* case of the backport workflow: the case itself and its sibling of the   *)
(* triage workflow, whose result the backport starts from. The module has  *)
(* what the two prepare loops leave behind (module PrepareCase has the     *)
(* loop), the triage result, the fixtures inferred from it, and the        *)
(* activation of both cases on the evidence of their run reports.          *)
(***************************************************************************)
EXTENDS Naturals

CONSTANTS
  MaxIterations,  \* --max-iterations
  MaxCommands,    \* bound: how many commands the user gives
  Branches,       \* target branches a triage may find
  NoBranch,       \* a triage result without one
  Missing, Torn,  \* a file that is not there, or whose writing was cut short
  Places          \* --results-dir: "own" (not given), "given"

ASSUME ActivateAssumption ==
  /\ MaxIterations \in Nat
  /\ MaxCommands \in Nat
  /\ Places \subseteq {"own", "given"}
  /\ NoBranch \notin Branches
  /\ {Missing, Torn} \cap (Branches \cup {NoBranch}) = {}
  /\ Missing # Torn

Dir == {"triage", "backport"}
Answer == Branches \cup {NoBranch}
Iterations == 1 .. MaxIterations

VARIABLES
  commands,      \* how many commands the user gave
  command,       \* the one under way, or the last one
  pc,            \* what it is doing
  outcome,       \* how it ended
  status,        \* [Dir -> case_status of the expected fixture]
  branch,        \* target_branch of the backport's expected fixture
  mock,          \* the branch of the backport's mock_data
  triageResult,  \* the backport's triage_results file
  reports,       \* [place -> [iteration -> run report]]
  newest,        \* [place -> the iteration of the newest report, or 0]
  loop,          \* whose prepare loop is under way, and its iteration
  triage,        \* the payload's triage_result
  target,        \* the case being activated
  completion,    \* what the last completion of the backport's fixtures said
  started        \* history: status when the command began

fixtures == <<status, branch, mock, triageResult>>
evidence == <<reports, newest>>
given    == <<commands, command, started>>
vars == <<given, pc, outcome, fixtures, evidence, loop, triage, target, completion>>

Phase == {"idle", "sibling", "collecting", "looping", "judging", "publishing",
          "activating", "writing", "checking", "restoring"}
Command == [kind : {"none", "activate", "prepare"}, dir : Dir, overwrite : BOOLEAN, imports : BOOLEAN, place : {"own", "given"}]
Report == [about : Dir, verdict : {"none", "passed", "failed", "skipped"},
           fresh : BOOLEAN, found : Answer]
NoReport == [about |-> "triage", verdict |-> "none", fresh |-> FALSE, found |-> NoBranch]

TypeOK ==
  /\ commands \in 0 .. MaxCommands
  /\ command \in Command
  /\ pc \in Phase
  /\ outcome \in {"none", "done", "failed", "unproven", "killed"}
  /\ status \in [Dir -> {"quarantined", "active", "torn"}]
  /\ branch \in Answer
  /\ mock \in Branches \cup {Missing}
  /\ triageResult \in Answer \cup {Missing, Torn}
  /\ reports \in [Dir \cup {"given"} -> [Iterations -> Report]]
  /\ newest \in [Dir \cup {"given"} -> 0 .. MaxIterations]
  /\ loop \in [about : Dir, iteration : 0 .. MaxIterations]
  /\ triage \in [status : {"none", "cached", "generated"}, iteration : 0 .. MaxIterations]
  /\ target \in Dir
  /\ completion \in {"none", "silent", "warned"}
  /\ started \in [Dir -> {"quarantined", "active", "torn"}]

Init ==
  /\ commands = 0
  /\ command = [kind |-> "none", dir |-> "triage", overwrite |-> FALSE, imports |-> FALSE,
                place |-> "own"]
  /\ pc = "idle"
  /\ outcome = "none"
  /\ status = [d \in Dir |-> "quarantined"]
  /\ branch \in Answer
  /\ mock \in Branches \cup {Missing}
  /\ triageResult = Missing
  /\ reports = [p \in Dir \cup {"given"} |-> [i \in Iterations |-> NoReport]]
  /\ newest = [p \in Dir \cup {"given"} |-> 0]
  /\ loop = [about |-> "triage", iteration |-> 0]
  /\ triage = [status |-> "none", iteration |-> 0]
  /\ target = "triage"
  /\ completion = "none"
  /\ started = status

(* Run reports are kept where --results-dir says, for both workflows, or   *)
(* below the cases directory of their own.                                 *)
Place(d) == IF command.place = "given" THEN "given" ELSE d

(* Reports of d are about other fixtures from now on.                      *)
Aged(d) ==
  [p \in Dir \cup {"given"} |->
    [i \in Iterations |->
      IF reports[p][i].about = d THEN [reports[p][i] EXCEPT !.fresh = FALSE] ELSE reports[p][i]]]
Age(d) == reports' = Aged(d) /\ UNCHANGED newest

Finish(result) ==
  /\ pc' = "idle"
  /\ outcome' = result
  /\ completion' = "none"
-----------------------------------------------------------------------------
(* The user.                                                               *)

Begin(c) ==
  /\ pc = "idle"
  /\ commands < MaxCommands
  /\ commands' = commands + 1
  /\ command' = c
  /\ outcome' = "none"
  /\ started' = status

ActivateCommand(d) ==
  /\ Begin([kind |-> "activate", dir |-> d, overwrite |-> FALSE, imports |-> FALSE,
            place |-> "own"])
  /\ pc' = "activating"
  /\ target' = d
  /\ loop' = [about |-> d, iteration |-> 0]
  /\ triage' = [status |-> "none", iteration |-> 0]
  /\ UNCHANGED <<fixtures, evidence, completion>>

PrepareCommand(d) ==
  /\ \E overwrite, imports \in BOOLEAN, place \in Places :
       Begin([kind |-> "prepare", dir |-> d, overwrite |-> overwrite, imports |-> imports,
              place |-> place])
  /\ pc' = IF d = "backport" THEN "sibling" ELSE "collecting"
  /\ loop' = [about |-> d, iteration |-> 0]
  /\ triage' = [status |-> "none", iteration |-> 0]
  /\ completion' = "none"
  /\ UNCHANGED <<fixtures, evidence, target>>

(* Fixtures edited by hand before a command, torn files repaired or        *)
(* removed.                                                                *)
Edit(d) ==
  /\ pc = "idle"
  /\ commands < MaxCommands
  /\ status' = [status EXCEPT ![d] = IF @ = "torn" THEN "quarantined" ELSE @]
  /\ triageResult' \in IF d = "backport" THEN {triageResult, Missing} ELSE {triageResult}
  /\ Age(d)
  /\ outcome' = "none"
  /\ UNCHANGED <<given, pc, branch, mock, loop, triage, target, completion>>
-----------------------------------------------------------------------------
(* The prepare loops.                                                      *)

(* A triage result that is there is taken as it is.                        *)
UseCached ==
  /\ pc = "sibling"
  /\ triageResult # Missing
  /\ triage' = [status |-> "cached", iteration |-> 0]
  /\ pc' = "collecting"
  /\ UNCHANGED <<given, outcome, fixtures, evidence, loop, target, completion>>

(* Otherwise the sibling is prepared first, if it can be read.             *)
PrepareSibling ==
  /\ pc = "sibling"
  /\ triageResult = Missing
  /\ command.overwrite \/ status["triage"] # "torn"
  /\ loop' = [about |-> "triage", iteration |-> 0]
  /\ pc' = "collecting"
  /\ UNCHANGED <<given, outcome, fixtures, evidence, triage, target, completion>>

(* The sibling is imported again only when that may overwrite it.          *)
Imports == command.imports /\ (loop.about = command.dir \/ command.overwrite)

(* Mutant of Collect: it writes over what is there in any case.            *)
CollectOver ==
  /\ pc = "collecting"
  /\ Imports
  /\ pc' = "looping"
  /\ status' = [status EXCEPT ![loop.about] = "quarantined"]
  /\ IF loop.about = "backport"
     THEN branch' \in Answer /\ mock' \in Branches \cup {mock} /\ completion' = "none"
     ELSE UNCHANGED <<branch, mock, completion>>
  /\ Age(loop.about)
  /\ UNCHANGED <<given, outcome, triageResult, loop, triage, target>>

(* collect-case writes the fixtures, and does so only over others when it  *)
(* may overwrite them.                                                     *)
Collect ==
  /\ pc = "collecting"
  /\ Imports
  /\ command.overwrite
  /\ pc' = "looping"
  /\ status' = [status EXCEPT ![loop.about] = "quarantined"]
  /\ IF loop.about = "backport"
     THEN branch' \in Answer /\ mock' \in Branches \cup {mock} /\ completion' = "none"
     ELSE UNCHANGED <<branch, mock, completion>>
  /\ Age(loop.about)
  /\ UNCHANGED <<given, outcome, triageResult, loop, triage, target>>

(* The branch the triage result asks for, or the expected fixture's own.   *)
Requested == IF triageResult \in Branches THEN triageResult ELSE branch

(* Mutant of Complete: the branch of the mock data is that of the expected *)
(* fixture as it was loaded.                                               *)
CompleteStale ==
  /\ status[loop.about] # "torn"
  /\ IF loop.about = "triage"
     THEN UNCHANGED <<branch, mock, completion>>
     ELSE /\ triageResult # Torn
          /\ branch' = IF command.overwrite THEN Requested ELSE branch
          /\ \E found, builds \in BOOLEAN :
               LET infer == branch # NoBranch /\ (mock = Missing \/ command.overwrite)
               IN  /\ mock' = IF infer /\ found THEN branch ELSE mock
                   /\ completion' =
                        IF branch' # Requested \/ (infer /\ ~found)
                           \/ (Requested # NoBranch /\ ~builds)
                        THEN "warned" ELSE "silent"
  /\ UNCHANGED <<status, triageResult>>

(* _prepare_complete_existing_case: the backport's fixtures are brought    *)
(* into line with the triage result, or a warning says they are not; what  *)
(* is there is replaced only with --overwrite. It warns, too, when the     *)
(* branch's source (the mock data's pre_fix_ref) or its Koji builds cannot *)
(* be found. The package is known: an expected fixture without it is not   *)
(* valid.                                                                  *)
Complete ==
  /\ status[loop.about] # "torn"
  /\ IF loop.about = "triage"
     THEN UNCHANGED <<branch, mock, completion>>
     ELSE /\ triageResult # Torn
          /\ branch' = IF command.overwrite THEN Requested ELSE branch
          /\ \E found, builds \in BOOLEAN :
               LET infer == Requested # NoBranch /\ (mock = Missing \/ command.overwrite)
               IN  /\ mock' = IF infer /\ found THEN Requested ELSE mock
                   /\ completion' =
                        IF branch' # Requested \/ (infer /\ ~found)
                           \/ (Requested # NoBranch /\ ~builds)
                        THEN "warned" ELSE "silent"
  /\ UNCHANGED <<status, triageResult>>

CompleteExisting ==
  /\ pc = "collecting"
  /\ ~Imports
  /\ Complete
  /\ pc' = "looping"
  /\ Age(loop.about)
  /\ UNCHANGED <<given, outcome, loop, triage, target>>

(* An iteration's run; its report takes the place of one with the same     *)
(* path. Only a passing triage finds something that is used.               *)
Run(i) ==
  /\ loop' = [loop EXCEPT !.iteration = i]
  /\ newest' = [newest EXCEPT ![Place(loop.about)] = i]
  /\ \E verdict \in {"passed", "failed", "skipped"}, found \in Answer :
       /\ verdict # "passed" \/ loop.about # "triage" => found = NoBranch
       /\ reports' = [reports EXCEPT ![Place(loop.about)][i] =
            [about |-> loop.about, verdict |-> verdict, fresh |-> TRUE, found |-> found]]
  /\ pc' = "judging"

(* Mutant of Iterate: one iteration too many.                              *)
IterateOnce ==
  /\ pc = "looping"
  /\ loop.iteration <= MaxIterations
  /\ Run(loop.iteration + 1)
  /\ UNCHANGED <<given, outcome, fixtures, triage, target, completion>>

Iterate ==
  /\ pc = "looping"
  /\ loop.iteration < MaxIterations
  /\ Run(loop.iteration + 1)
  /\ UNCHANGED <<given, outcome, fixtures, triage, target, completion>>

(* The run missed something: it is captured, and the fixtures are          *)
(* completed again.                                                        *)
Capture ==
  /\ pc = "judging"
  /\ Complete
  /\ pc' = "looping"
  /\ Age(loop.about)
  /\ UNCHANGED <<given, outcome, loop, triage, target>>

(* What the last iteration reported.                                       *)
LastReport == reports[Place(loop.about)][loop.iteration]

(* Mutant of Accept: the sibling is forgotten.                             *)
AcceptAlone ==
  /\ pc = "judging"
  /\ LastReport.verdict # "failed"
  /\ IF loop.about # command.dir
     THEN pc' = "publishing" /\ UNCHANGED <<target, outcome, completion>>
     ELSE \/ Finish("done") /\ UNCHANGED target
          \/ /\ pc' = "activating"
             /\ target' = command.dir
             /\ UNCHANGED <<outcome, completion>>
  /\ UNCHANGED <<given, fixtures, evidence, loop, triage>>

(* The loop accepts a run that did not fail. With --activate-on-pass the   *)
(* case is activated, a backport after its sibling.                        *)
Accept ==
  /\ pc = "judging"
  /\ LastReport.verdict # "failed"
  /\ IF loop.about # command.dir
     THEN pc' = "publishing" /\ UNCHANGED <<target, outcome, completion>>
     ELSE \/ Finish("done") /\ UNCHANGED target
          \/ /\ pc' = "activating"
             /\ target' = IF triage.status = "none" THEN command.dir ELSE "triage"
             /\ UNCHANGED <<outcome, completion>>
  /\ UNCHANGED <<given, fixtures, evidence, loop, triage>>

(* Mutant of Publish: the entry's status is not looked at.                 *)
PublishAny ==
  /\ pc = "publishing"
  /\ triageResult' = LastReport.found
  /\ triage' = [status |-> "generated", iteration |-> loop.iteration]
  /\ loop' = [about |-> "backport", iteration |-> 0]
  /\ pc' = "collecting"
  /\ UNCHANGED <<given, outcome, status, branch, mock, evidence, target, completion>>

(* The triage's actual result becomes the backport's triage result.        *)
Publish ==
  /\ pc = "publishing"
  /\ LastReport.verdict = "passed"
  /\ triageResult' = LastReport.found
  /\ triage' = [status |-> "generated", iteration |-> loop.iteration]
  /\ loop' = [about |-> "backport", iteration |-> 0]
  /\ pc' = "collecting"
  /\ UNCHANGED <<given, outcome, status, branch, mock, evidence, target, completion>>

(* What stays of an import, a capture or a completion that stops half way. *)
Partly ==
  /\ pc \in {"collecting", "judging"}
  /\ IF pc = "collecting" /\ Imports
     THEN /\ command.overwrite
          /\ status' = [status EXCEPT ![loop.about] = "quarantined"]
          /\ branch' \in IF loop.about = "backport" THEN Answer ELSE {branch}
     ELSE /\ UNCHANGED status
          /\ branch' = IF loop.about = "backport" /\ command.overwrite THEN Requested ELSE branch
  /\ Age(loop.about)
  /\ UNCHANGED <<mock, triageResult>>

(* Anything before the activation fails: nothing to import over, a file    *)
(* that cannot be read, validation, capture, the limit of iterations.      *)
Fail ==
  /\ pc \in {"sibling", "collecting", "looping", "judging", "publishing"}
  /\ Finish("failed")
  /\ UNCHANGED <<fixtures, evidence>> \/ Partly
  /\ UNCHANGED <<given, loop, triage, target>>
-----------------------------------------------------------------------------
(* The activation of one case, or of the sibling and then the case.        *)

Newest(d) == IF newest[d] = 0 THEN NoReport ELSE reports[d][newest[d]]

(* Mutant of Evidence: the report of the first iteration.                  *)
EvidenceFirst(d) ==
  CASE command.kind = "activate" -> {reports[p][i] : p \in Dir \cup {"given"}, i \in Iterations}
    [] command.kind = "prepare" /\ d = command.dir -> {reports[Place(d)][1]}
    [] OTHER -> IF triage.status = "generated" THEN {reports[Place(d)][1]} ELSE {Newest(d)}

(* The reports that may serve as evidence: activate-case may be given any; *)
(* prepare-case takes that of its last iteration and, for the sibling,     *)
(* that of the iteration that gave the triage result or, when it was       *)
(* there, the newest below the sibling's own directory.                    *)
Evidence(d) ==
  CASE command.kind = "activate" -> {reports[p][i] : p \in Dir \cup {"given"}, i \in Iterations}
    [] command.kind = "prepare" /\ d = command.dir -> {reports[Place(d)][loop.iteration]}
    [] OTHER -> IF triage.status = "generated"
                THEN {reports[Place(d)][triage.iteration]} ELSE {Newest(d)}

(* A sibling that is active already is left alone.                         *)
SkipActive ==
  /\ pc = "activating"
  /\ target # command.dir
  /\ status[target] = "active"
  /\ target' = command.dir
  /\ UNCHANGED <<given, pc, outcome, fixtures, evidence, loop, triage, completion>>

(* The expected fixture cannot be read, is not quarantined, or must not be *)
(* activated; or the fixtures are not valid.                               *)
Refuse ==
  /\ pc = "activating"
  /\ ~(target # command.dir /\ status[target] = "active")
  /\ Finish("failed")
  /\ UNCHANGED <<given, fixtures, evidence, loop, triage, target>>

(* There is no passing report.                                             *)
RefuseUnproven ==
  /\ pc = "activating"
  /\ status[target] = "quarantined"
  /\ \E r \in Evidence(target) : r.verdict # "passed"
  /\ Finish("unproven")
  /\ UNCHANGED <<given, fixtures, evidence, loop, triage, target>>

FindEvidence ==
  /\ pc = "activating"
  /\ status[target] = "quarantined"
  /\ \E r \in Evidence(target) : r.verdict = "passed"
  /\ pc' = "writing"
  /\ UNCHANGED <<given, outcome, fixtures, evidence, loop, triage, target, completion>>

WriteActive ==
  /\ pc = "writing"
  /\ status' = [status EXCEPT ![target] = "active"]
  /\ pc' = "checking"
  /\ UNCHANGED <<given, outcome, branch, mock, triageResult, evidence, loop, triage, target,
                 completion>>

(* The second validation finds nothing; the next case, if there is one.    *)
Activated ==
  /\ pc = "checking"
  /\ IF target = command.dir
     THEN Finish("done") /\ UNCHANGED target
     ELSE pc' = "activating" /\ target' = command.dir /\ UNCHANGED <<outcome, completion>>
  /\ UNCHANGED <<given, fixtures, evidence, loop, triage>>

(* Mutant of Reject: nothing is restored.                                  *)
RejectOnly ==
  /\ pc = "checking"
  /\ Finish("failed")
  /\ UNCHANGED <<given, fixtures, evidence, loop, triage, target>>

(* The second validation finds an error.                                   *)
Reject ==
  /\ pc = "checking"
  /\ pc' = "restoring"
  /\ UNCHANGED <<given, outcome, fixtures, evidence, loop, triage, target, completion>>

Restore ==
  /\ pc = "restoring"
  /\ status' = [status EXCEPT ![target] = "quarantined"]
  /\ Finish("failed")
  /\ UNCHANGED <<given, branch, mock, triageResult, evidence, loop, triage, target>>

(* Killed, or the disk full: the file being written is cut short.          *)
Tear ==
  \/ /\ pc \in {"collecting", "judging", "writing", "restoring"}
     /\ LET written == IF pc \in {"writing", "restoring"} THEN target ELSE loop.about
        IN  status' = [status EXCEPT ![written] = "torn"] /\ Age(written)
     /\ UNCHANGED triageResult
  \/ pc = "publishing" /\ triageResult' = Torn /\ UNCHANGED <<status, evidence>>

Die ==
  /\ pc # "idle"
  /\ Finish("killed")
  /\ \/ UNCHANGED <<fixtures, evidence>>
     \/ Partly
     \/ Tear /\ UNCHANGED <<branch, mock>>
  /\ UNCHANGED <<given, loop, triage, target>>
-----------------------------------------------------------------------------
Next ==
  \/ \E d \in Dir : ActivateCommand(d) \/ PrepareCommand(d) \/ Edit(d)
  \/ UseCached \/ PrepareSibling \/ Collect \/ CompleteExisting
  \/ Iterate \/ Capture \/ Accept \/ Publish \/ Fail
  \/ SkipActive \/ Refuse \/ RefuseUnproven \/ FindEvidence
  \/ WriteActive \/ Activated \/ Reject \/ Restore
  \/ Die

Spec == Init /\ [][Next]_vars
-----------------------------------------------------------------------------
(* A case that prepare-case itself ran is activated on a passing run of    *)
(* its own, with the fixtures as they still are, and with the triage       *)
(* result that the backport was prepared from.                             *)
ActivatedOnFreshRun ==
  pc \in {"writing", "checking"} /\ command.kind = "prepare"
    /\ (target = command.dir \/ triage.status = "generated") =>
      \E r \in Evidence(target) :
        /\ r.about = target /\ r.verdict = "passed" /\ r.fresh
        /\ target # command.dir => r.found = triageResult

(* prepare-case activates a backport case after its sibling.               *)
SiblingFirst ==
  pc \in {"writing", "checking"} /\ command.kind = "prepare" /\ command.dir = "backport"
    /\ target = "backport" => status["triage"] = "active"

(* A command that ends with an error has activated nothing, except the     *)
(* sibling of the case it was about. A killed one may have.                *)
FailureActivatesNothing ==
  outcome \in {"failed", "unproven"} =>
    \A d \in Dir :
      status[d] = "active" /\ started[d] # "active" =>
        command.kind = "prepare" /\ command.dir = "backport" /\ d = "triage"

(* Fixtures completed without a warning, with --overwrite, agree with the  *)
(* triage result when the backport is run.                                 *)
CompletedAgrees ==
  pc \in {"looping", "judging"} /\ loop.about = "backport" /\ command.overwrite
    /\ completion = "silent" =>
      branch = Requested /\ (Requested # NoBranch => mock = Requested)

(* --activate-on-pass activates: a command whose runs passed is not        *)
(* refused for want of evidence, unless it did not run the triage itself.  *)
PassActivates ==
  outcome = "unproven" /\ command.kind = "prepare" =>
    triage.status = "cached" \/ LastReport.verdict # "passed"
-----------------------------------------------------------------------------
(* What activation promises. Between WriteActive and the second validation *)
(* a case is on trial.                                                     *)
Earlier == [d \in Dir |-> {"triage"} \ {d}]
Trial == IF pc \in {"checking", "restoring"} THEN {target} ELSE {}
Confirmed == {d \in Dir : status[d] = "active"} \ Trial
ActiveBefore == {d \in Dir : started[d] = "active"}
Fresh == {d \in Dir : \E p \in Dir \cup {"given"}, i \in Iterations :
           /\ reports[p][i].about = d
           /\ reports[p][i].verdict = "passed" /\ reports[p][i].fresh}
Relied == IF triage.status = "cached" THEN {"triage"} ELSE {}
ResultOf == IF pc # "idle" THEN "open" ELSE IF outcome = "unproven" THEN "failed" ELSE outcome
OrderOf == [kind |-> command.kind, case |-> command.dir, overwrite |-> command.overwrite]

Contract == INSTANCE ActivateContract WITH
  Case   <- Dir,
  Before <- Earlier,
  order  <- OrderOf,
  result <- ResultOf,
  active <- Confirmed,
  trial  <- Trial,
  fresh  <- Fresh,
  relied <- Relied,
  since  <- ActiveBefore

(* Every step of a command is one the contract allows: it tries a case on  *)
(* a fresh passing run, in order, confirms or takes back what it tried,    *)
(* and ends no activation without leave to overwrite.                      *)
ActivationKept == Contract!ContractSpec
=============================================================================
