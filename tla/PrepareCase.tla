---------------------------- MODULE PrepareCase ----------------------------
(***************************************************************************)
(* `ymir-harness prepare-case': run the workflow against the recorded      *)
(* fixtures, capture what the run missed, and run again until nothing is   *)
(* missing or the iteration limit is reached (cli._prepare_case).          *)
(*                                                                         *)
(* Three actors share the results directory of an iteration: the workflow, *)
(* which logs a line for every input the fixtures do not hold; the monitor *)
(* of ymir_workflows._await_workflow, which wakes up every two seconds and *)
(* cancels the workflow when a file of that directory names a missed URL;  *)
(* and the prepare loop, which reads the same files once the run is over.  *)
(* The directory's name depends only on the run id and the iteration, so   *)
(* a later invocation of the command finds the files of an earlier one.    *)
(*                                                                         *)
(* Data is abstracted to items: one item is one external input that can be *)
(* recorded as a fixture.                                                  *)
(***************************************************************************)
EXTENDS Naturals, FiniteSets

CONSTANTS
  Item,            \* external inputs the workflow may ask for
  KindOf,          \* [Item -> Kind]
  Host,            \* hosts the items live on
  HostOf,          \* [Item -> Host]
  Mentioned,       \* URLs the agent names in commands that replay cannot answer
  AllowedHosts,    \* DEFAULT_ALLOWED_HOSTS and --allow-host
  SafeHosts,       \* hosts that may be allowed without asking
  MaxIterations,   \* --max-iterations
  MaxAutoHosts,    \* MAX_PREPARE_AUTO_ALLOWED_HOSTS
  OverwriteFlags,  \* the choices for --overwrite
  MaxInvocations,  \* bound: how often the user runs the command
  NoItem           \* no item

(* web: a URL read over HTTP; git: a source repository cloned by a         *)
(* subprocess; jira: a Jira issue or search; koji: a candidate build;      *)
(* lookaside: a source archive.                                            *)
Kind == {"web", "git", "jira", "koji", "lookaside"}

ASSUME ItemAssumption ==
  /\ IsFiniteSet(Item)
  /\ KindOf \in [Item -> Kind]
  /\ HostOf \in [Item -> Host]
  /\ Mentioned \subseteq {i \in Item : KindOf[i] \in {"web", "git"}}
  /\ NoItem \notin Item

ASSUME HostAssumption ==
  /\ IsFiniteSet(Host)
  /\ AllowedHosts \subseteq Host
  /\ SafeHosts \subseteq Host

ASSUME BoundAssumption ==
  /\ MaxIterations \in Nat \ {0}
  /\ MaxAutoHosts \in Nat
  /\ MaxInvocations \in Nat
  /\ OverwriteFlags \subseteq BOOLEAN

VARIABLES
  content,     \* items whose successful content is a fixture
  failures,    \* items with a recorded error (a status >= 400, a git failure)
  log,         \* [1..MaxIterations -> SUBSET Item]: misses the last run's files name
  leftover,    \* the same for what earlier runs left in files no run empties
  runJson,     \* the same for the run.json of the iteration's results directory
  actual,      \* the same for its actual-results file
  pc,          \* what the invocation is doing
  iteration,   \* the loop variable
  violated,    \* misses the case's files name as replay violations
  stoppedOn,   \* the item the monitor cancelled the current run for
  report,      \* status of the case's entry in the iteration's run report
  warned,      \* the iteration's validation had replay warnings
  autoHosts,   \* hosts allowed by this invocation
  overwrite,   \* this invocation was given --overwrite
  excluded,    \* the fixture says case_status "excluded"
  captured,    \* items captured in this iteration
  skips,       \* <<item, reason>>: items skipped in this iteration
  status,      \* the status prepare-case prints
  invocations  \* invocations so far

fixtures == <<content, failures>>
results  == <<log, leftover, runJson, actual>>
run      == <<violated, stoppedOn, report, warned>>
flags    == <<overwrite, excluded>>
capture  == <<captured, skips>>
vars == <<fixtures, results, pc, iteration, run, autoHosts, flags, capture, status,
          invocations>>

Iterations == 1 .. MaxIterations
Phase   == {"idle", "validating", "running", "reported", "capturing", "deciding"}
Report  == {"none", "passed", "failed", "skipped"}
(* Why an item was skipped: its host is not allowed; it is recorded and    *)
(* the reason is one _prepare_has_only_recorded_replay_candidates knows;   *)
(* it is recorded and the reason is one it does not know.                  *)
SkipReason == {"denied", "recorded", "kept"}
Status  == {"none", "succeeded", "validation_warnings", "validation_blocked",
            "capture_failed", "blocked", "max_iterations", "aborted"}

TypeOK ==
  /\ content \subseteq Item
  /\ failures \subseteq Item
  /\ log \in [Iterations -> SUBSET Item]
  /\ leftover \in [Iterations -> SUBSET Item]
  /\ runJson \in [Iterations -> SUBSET Item]
  /\ actual \in [Iterations -> SUBSET Item]
  /\ pc \in Phase
  /\ iteration \in Iterations
  /\ violated \subseteq Item
  /\ stoppedOn \in Item \cup {NoItem}
  /\ report \in Report
  /\ warned \in BOOLEAN
  /\ autoHosts \subseteq Host
  /\ overwrite \in BOOLEAN
  /\ excluded \in BOOLEAN
  /\ captured \subseteq Item
  /\ skips \subseteq Item \X SkipReason
  /\ status \in Status
  /\ invocations \in 0 .. MaxInvocations

-----------------------------------------------------------------------------
(* What the fixtures answer, and what a results directory names.           *)

(* A recorded git failure is replayed before the repository is looked at.  *)
Served(i) == IF i \in failures THEN "error"
             ELSE IF i \in content THEN "content"
             ELSE "miss"

(* Items whose miss is a URL in the log, which is all the monitor and the  *)
(* run report look for.                                                    *)
UrlItems == {i \in Item : KindOf[i] \in {"web", "git"}}

(* Every file of the iteration's results directory is searched.            *)
Candidates ==
  log[iteration] \cup leftover[iteration] \cup runJson[iteration] \cup actual[iteration]

(* Mutant of ReplayCandidates: source archives are forgotten.              *)
ReplayCandidatesNoLookaside ==
  {i \in Candidates :
     \/ KindOf[i] = "web" /\ Served(i) = "miss"
     \/ KindOf[i] = "git" /\ i \notin content
     \/ KindOf[i] = "jira"}

(* The candidates that keep a passing run from being the last one. A Jira  *)
(* miss counts whether or not it is recorded, a Koji miss never does, and  *)
(* of a repository only its fixture counts, not a recorded failure.        *)
ReplayCandidates ==
  {i \in Candidates :
     \/ KindOf[i] = "web" /\ Served(i) = "miss"
     \/ KindOf[i] = "git" /\ i \notin content
     \/ KindOf[i] = "lookaside" /\ i \notin content
     \/ KindOf[i] = "jira"}

Recorded(i) == i \in content \cup failures
-----------------------------------------------------------------------------
(* The steps of one invocation.                                            *)

Init ==
  /\ content \in SUBSET Item
  /\ failures = {}
  /\ log = [n \in Iterations |-> {}]
  /\ leftover = [n \in Iterations |-> {}]
  /\ runJson = [n \in Iterations |-> {}]
  /\ actual = [n \in Iterations |-> {}]
  /\ pc = "idle"
  /\ iteration = 1
  /\ violated = {}
  /\ stoppedOn = NoItem
  /\ report = "none"
  /\ warned = FALSE
  /\ autoHosts = {}
  /\ overwrite = FALSE
  /\ excluded = FALSE
  /\ captured = {}
  /\ skips = {}
  /\ status = "none"
  /\ invocations = 0

(* An iteration starts with nothing known of its run and its capture.      *)
ClearIteration ==
  /\ violated' = {} /\ stoppedOn' = NoItem /\ report' = "none" /\ warned' = FALSE
  /\ captured' = {} /\ skips' = {}

(* The user runs the command on a collected case. Fixtures and results     *)
(* directories are what earlier invocations left.                          *)
Invoke ==
  /\ pc = "idle"
  /\ invocations < MaxInvocations
  /\ invocations' = invocations + 1
  /\ pc' = "validating"
  /\ iteration' = 1
  /\ ClearIteration
  /\ autoHosts' = {}
  /\ overwrite' \in OverwriteFlags
  /\ excluded' \in BOOLEAN
  /\ status' = "none"
  /\ UNCHANGED <<fixtures, results>>

(* The invocation ends with status s.                                      *)
Finish(s) ==
  /\ pc' = "idle"
  /\ status' = s

(* _prepare_run_iteration returns no report.                               *)
ValidationBlocks ==
  /\ pc = "validating"
  /\ Finish("validation_blocked")
  /\ UNCHANGED <<fixtures, results, iteration, run, autoHosts, flags, capture, invocations>>

(* An excluded case gets the entry "skipped" and no run: its other files   *)
(* stay as they are.                                                       *)
SkipRun ==
  /\ pc = "validating"
  /\ excluded
  /\ pc' = "reported"
  /\ report' = "skipped"
  /\ warned' \in BOOLEAN
  /\ runJson' = [runJson EXCEPT ![iteration] = {}]
  /\ UNCHANGED <<fixtures, log, leftover, actual, iteration, violated, stoppedOn, autoHosts,
                 flags, capture, status, invocations>>

(* Source cache, mock repositories or Jira mock cannot be materialized:    *)
(* the entry fails before the case's log files are opened.                 *)
SetupFails ==
  /\ pc = "validating"
  /\ ~excluded
  /\ pc' = "reported"
  /\ report' = "failed"
  /\ warned' \in BOOLEAN
  /\ runJson' = [runJson EXCEPT ![iteration] = {}]
  /\ UNCHANGED <<fixtures, log, leftover, actual, iteration, violated, stoppedOn, autoHosts,
                 flags, capture, status, invocations>>

(* Mutant of StartRun: the workflow's log files are appended to.           *)
StartRunAppending ==
  /\ pc = "validating"
  /\ ~excluded
  /\ pc' = "running"
  /\ warned' \in BOOLEAN
  /\ UNCHANGED <<fixtures, results, iteration, violated, stoppedOn, report, autoHosts,
                 flags, capture, status, invocations>>

(* The workflow's and the gateway's output files are opened for writing,   *)
(* which empties them. Nothing empties the rest: the workflow's artifacts, *)
(* a worker's result, the gateway's debug log, run.json, the actual        *)
(* results. Which of the earlier runs' misses the first three still name   *)
(* is settled here, with what they name as a violation: until this step    *)
(* all of them are in log or leftover.                                     *)
StartRun ==
  /\ pc = "validating"
  /\ ~excluded
  /\ pc' = "running"
  /\ log' = [log EXCEPT ![iteration] = {}]
  /\ \E stale \in SUBSET (log[iteration] \cup leftover[iteration]) :
       /\ leftover' = [leftover EXCEPT ![iteration] = stale]
       /\ violated' \in SUBSET (stale \cap UrlItems)
  /\ warned' \in BOOLEAN
  /\ UNCHANGED <<fixtures, runJson, actual, iteration, stoppedOn, report, autoHosts, flags,
                 capture, status, invocations>>

(* The workflow asks for an item the fixtures do not answer. The miss is   *)
(* logged as a replay miss or, when a guard blocked it, as a violation.    *)
LogMiss(i) ==
  /\ pc = "running"
  /\ Served(i) = "miss"
  /\ i \notin log[iteration]
  /\ log' = [log EXCEPT ![iteration] = @ \cup {i}]
  /\ violated' \in {violated} \cup {violated \cup {j} : j \in {i} \cap UrlItems}
  /\ UNCHANGED <<fixtures, leftover, runJson, actual, pc, iteration, stoppedOn, report, warned,
                 autoHosts, flags, capture, status, invocations>>

(* A recorded web error is replayed as recorded, but the tool's "Failed to *)
(* fetch patch from ...: HTTP 404" is the line an unrecorded URL leaves    *)
(* too, and it counts as a violation.                                      *)
LogRecordedError(i) ==
  /\ pc = "running"
  /\ KindOf[i] = "web"
  /\ Served(i) = "error"
  /\ i \notin log[iteration]
  /\ log' = [log EXCEPT ![iteration] = @ \cup {i}]
  /\ violated' = violated \cup {i}
  /\ UNCHANGED <<fixtures, leftover, runJson, actual, pc, iteration, stoppedOn, report, warned,
                 autoHosts, flags, capture, status, invocations>>

(* A command that is no download of one URL and no git command, a grep for *)
(* the URL say, is answered with a replay miss for each URL it names,      *)
(* recorded or not.                                                        *)
LogMentioned(i) ==
  /\ pc = "running"
  /\ i \in Mentioned
  /\ i \notin log[iteration]
  /\ log' = [log EXCEPT ![iteration] = @ \cup {i}]
  /\ UNCHANGED <<fixtures, leftover, runJson, actual, pc, iteration, run, autoHosts, flags,
                 capture, status, invocations>>

(* The run is over and its entry is r: run.json is written with the URLs   *)
(* named by the entry's reason or score. The reason of a failed run names  *)
(* at most three of the violations, that of a timeout none.                *)
WriteReport(r, named) ==
  /\ pc' = "reported"
  /\ report' = r
  /\ runJson' = [runJson EXCEPT ![iteration] = named]

(* A tick of the monitor finds a missed URL in some file of the results    *)
(* directory, cancels the workflow and raises; the message, with the URL,  *)
(* goes to the log and becomes the reason of the failed entry.             *)
StopOnMiss(i) ==
  /\ pc = "running"
  /\ i \in Candidates \cap UrlItems
  /\ stoppedOn' = i
  /\ log' = [log EXCEPT ![iteration] = @ \cup {i}]
  /\ \E named \in SUBSET violated : WriteReport("failed", named \cup {i})
  /\ UNCHANGED <<fixtures, leftover, actual, iteration, violated, warned, autoHosts, flags,
                 capture, status, invocations>>

(* The workflow raises or times out: no actual-results file is written.    *)
WorkflowRaises ==
  /\ pc = "running"
  /\ \E named \in SUBSET violated : WriteReport("failed", named)
  /\ UNCHANGED <<fixtures, log, leftover, actual, iteration, violated, stoppedOn, warned,
                 autoHosts, flags, capture, status, invocations>>

(* The workflow returns a result: its artifacts are written over those of  *)
(* an earlier run, and the actual results with the misses the case's files *)
(* name. A violation fails the score, a replay miss does not.              *)
WorkflowReturns ==
  /\ pc = "running"
  /\ \E stale \in SUBSET leftover[iteration] :
       LET named == log[iteration] \cup stale
       IN  /\ leftover' = [leftover EXCEPT ![iteration] = stale]
           /\ actual' = [actual EXCEPT ![iteration] = named \cap UrlItems]
           /\ violated' = violated \cap named
  /\ \E r \in {"passed", "failed"} :
       /\ violated' # {} => r = "failed"
       /\ WriteReport(r, violated')
  /\ UNCHANGED <<fixtures, log, iteration, stoppedOn, warned, autoHosts, flags, capture,
                 status, invocations>>

(* A report without failures ends the loop when the results directory      *)
(* names nothing that is missing; otherwise what is missing is captured.   *)
Accepted == IF warned THEN "validation_warnings" ELSE "succeeded"

AcceptRun ==
  /\ pc = "reported"
  /\ report # "failed"
  /\ ReplayCandidates = {}
  /\ Finish(Accepted)
  /\ UNCHANGED <<fixtures, results, iteration, run, autoHosts, flags, capture, invocations>>

BeginCapture ==
  /\ pc = "reported"
  /\ report = "failed" \/ ReplayCandidates # {}
  /\ pc' = "capturing"
  /\ UNCHANGED <<fixtures, results, iteration, run, autoHosts, flags, capture, status,
                 invocations>>
-----------------------------------------------------------------------------
(* One pass of capture_missing over the candidates.                        *)

(* Mutants: a safe host needs no permission; only good recordings are kept. *)
DeniedIfUnsafe ==
  {i \in Candidates : KindOf[i] # "koji" /\ HostOf[i] \notin AllowedHosts \cup SafeHosts}
KeptContent == {i \in Candidates : i \in content /\ ~overwrite}

(* Koji is asked whatever the allowed hosts are.                           *)
Denied ==
  {i \in Candidates : KindOf[i] # "koji" /\ HostOf[i] \notin AllowedHosts \cup autoHosts}
Kept    == {i \in Candidates \ Denied : Recorded(i) /\ ~overwrite}
Fetched == Candidates \ (Denied \cup Kept)

(* A Jira, Koji or lookaside fixture and a git failure are skipped for     *)
(* reasons the loop does not know to mean "recorded".                      *)
Plain == {i \in Item : KindOf[i] = "web" \/ (KindOf[i] = "git" /\ i \notin failures)}

SkipsOf ==
  {<<i, "denied">> : i \in Denied} \cup
  {<<i, "recorded">> : i \in Kept \cap Plain} \cup
  {<<i, "kept">> : i \in Kept \ Plain}

(* reply says how the server answers each fetch. A web error is a fixture  *)
(* too, but never replaces one; whatever goes wrong with a clone becomes a *)
(* git failure; every other failure ends prepare-case.                     *)
Got(reply) == {i \in Fetched : reply[i] = "ok"}
Errors(reply) ==
  {i \in Fetched : \/ KindOf[i] = "git" /\ reply[i] # "ok"
                   \/ KindOf[i] = "web" /\ reply[i] = "error" /\ ~Recorded(i)}
Superseded(reply) == {i \in Fetched : KindOf[i] = "web" /\ reply[i] = "error" /\ Recorded(i)}
Broken(reply) == Fetched \ (Got(reply) \cup Errors(reply) \cup Superseded(reply))

(* _prepare_auto_allowed_hosts: the safe hosts of the URLs a pass denied   *)
(* are allowed while there are slots, and the pass is repeated.            *)
FreshHosts ==
  {HostOf[i] : i \in {j \in Denied : HostOf[j] \in SafeHosts}} \ (AllowedHosts \cup autoHosts)
SlotsPerPass == MaxAutoHosts  \* mutant of Slots: the cap holds for each pass alone
Slots == MaxAutoHosts - Cardinality(autoHosts)

(* Mutants of AllowHosts: the pass is not repeated; the hosts are reported *)
(* but not remembered.                                                     *)
AllowHostsOnce ==
  /\ pc' = "deciding"
  /\ IF FreshHosts = {} \/ Slots = 0
     THEN UNCHANGED autoHosts
     ELSE autoHosts' = autoHosts \cup {CHOOSE h \in FreshHosts : TRUE}
AllowHostsForgotten ==
  /\ pc' = IF FreshHosts = {} \/ Slots = 0 THEN "deciding" ELSE pc
  /\ UNCHANGED autoHosts

AllowHosts ==
  IF FreshHosts = {} \/ Slots = 0
  THEN pc' = "deciding" /\ UNCHANGED autoHosts
  ELSE /\ UNCHANGED pc
       /\ \E new \in SUBSET FreshHosts :
            /\ Cardinality(new) =
                 IF Cardinality(FreshHosts) < Slots THEN Cardinality(FreshHosts) ELSE Slots
            /\ autoHosts' = autoHosts \cup new

(* The manifest is written, with what did arrive, even when something was  *)
(* broken.                                                                 *)
CapturePass(reply) ==
  /\ pc = "capturing"
  /\ content' = content \cup Got(reply)
  /\ failures' = (failures \ Got(reply)) \cup Errors(reply)
  /\ captured' = captured \cup Got(reply) \cup Errors(reply)
  /\ skips' = skips \cup SkipsOf \cup {<<i, "recorded">> : i \in Superseded(reply)}
  /\ IF Broken(reply) # {}
     THEN Finish("capture_failed") /\ UNCHANGED autoHosts
     ELSE AllowHosts /\ UNCHANGED status
  /\ UNCHANGED <<results, iteration, run, flags, invocations>>

Reply == {"ok", "error", "lost"}
-----------------------------------------------------------------------------
(* What the loop does after a capture.                                     *)

(* _prepare_has_only_recorded_replay_candidates                            *)
OnlyRecorded ==
  /\ skips # {}
  /\ \A s \in skips : <<s[1], "recorded">> \in skips

(* Mutants of NextIteration: no limit; no look at what was captured.       *)
NextIterationUnlimited ==
  /\ pc = "deciding"
  /\ captured # {}
  /\ iteration' = iteration + 1
  /\ pc' = "validating"
  /\ ClearIteration
  /\ UNCHANGED <<fixtures, results, autoHosts, flags, status, invocations>>
NextIterationAnyway ==
  /\ pc = "deciding"
  /\ iteration < MaxIterations
  /\ iteration' = iteration + 1
  /\ pc' = "validating"
  /\ ClearIteration
  /\ UNCHANGED <<fixtures, results, autoHosts, flags, status, invocations>>

NextIteration ==
  /\ pc = "deciding"
  /\ captured # {}
  /\ iteration < MaxIterations
  /\ iteration' = iteration + 1
  /\ pc' = "validating"
  /\ ClearIteration
  /\ UNCHANGED <<fixtures, results, autoHosts, flags, status, invocations>>

LimitReached ==
  /\ pc = "deciding"
  /\ captured # {}
  /\ iteration = MaxIterations
  /\ Finish("max_iterations")
  /\ UNCHANGED <<fixtures, results, iteration, run, autoHosts, flags, capture, invocations>>

NothingCaptured ==
  /\ pc = "deciding"
  /\ captured = {}
  /\ Finish(IF OnlyRecorded /\ report # "failed" THEN Accepted ELSE "blocked")
  /\ UNCHANGED <<fixtures, results, iteration, run, autoHosts, flags, capture, invocations>>
-----------------------------------------------------------------------------
(* The command is killed, or an exception nobody expects ends it.          *)

(* Source fixtures, Jira fixtures and lookaside files are written one by   *)
(* one; what goes into the web manifest is lost with the pass.             *)
WrittenAtOnce == {i \in Fetched : KindOf[i] \in {"git", "jira", "lookaside"}}

AbortCapture ==
  /\ pc = "capturing"
  /\ \E written \in SUBSET WrittenAtOnce : content' = content \cup written
  /\ Finish("aborted")
  /\ UNCHANGED <<failures, results, iteration, run, autoHosts, flags, capture, invocations>>

Abort ==
  /\ pc \in {"validating", "running", "reported", "deciding"}
  /\ Finish("aborted")
  /\ UNCHANGED <<fixtures, results, iteration, run, autoHosts, flags, capture, invocations>>
-----------------------------------------------------------------------------
(* The harness's own steps, and those of the user and the workflow.        *)
Harness ==
  \/ ValidationBlocks \/ SkipRun \/ SetupFails \/ StartRun
  \/ \E i \in Item : StopOnMiss(i)
  \/ AcceptRun \/ BeginCapture
  \/ \E reply \in [Fetched -> Reply] : CapturePass(reply)
  \/ NextIteration \/ LimitReached \/ NothingCaptured

Environment ==
  \/ Invoke \/ Abort \/ AbortCapture
  \/ \E i \in Item : LogMiss(i) \/ LogRecordedError(i) \/ LogMentioned(i)
  \/ WorkflowRaises \/ WorkflowReturns

Next == Harness \/ Environment

Spec == Init /\ [][Next]_vars

(* The harness keeps running, the monitor's ticks included; nothing makes  *)
(* an agent finish: the case timeout is optional.                          *)
FairSpec == Spec /\ WF_vars(Harness)
-----------------------------------------------------------------------------
(* Safety.                                                                 *)

Ended == {"succeeded", "validation_warnings"}

(* A case prepare-case calls ready was accepted on a run that did not fail *)
(* (or on none, when it is excluded) and the fixtures answer everything    *)
(* that any file of the last results directory reports missing. Koji is    *)
(* the exception: _prepare_has_replay_candidates does not look for it.     *)
SucceededIsReplayable ==
  status \in Ended =>
    /\ report = "passed" \/ (excluded /\ report = "skipped")
    /\ \A i \in Candidates : KindOf[i] # "koji" => Served(i) # "miss"

(* "blocked" means that only the user can go on: each candidate of the     *)
(* last run is either recorded already or lives on a host that is not      *)
(* allowed and could not be allowed automatically.                         *)
BlockedIsStuck ==
  status = "blocked" =>
    \A i \in Candidates :
      \/ Recorded(i)
      \/ /\ HostOf[i] \notin AllowedHosts \cup autoHosts
         /\ HostOf[i] \in SafeHosts => Cardinality(autoHosts) = MaxAutoHosts

(* Without --overwrite each iteration but the first was paid for with an   *)
(* item that was not recorded before, so the loop ends by itself and the   *)
(* limit only cuts it short.                                               *)
IterationsMakeProgress ==
  ~overwrite => Cardinality(content \cup failures) >= iteration - 1

(* What is left of an invocation: iterations, steps of this iteration, and *)
(* room for misses to log or hosts to allow. It shrinks, lexicographically, *)
(* in every step of an invocation, so that none has endlessly many: the    *)
(* monitor's ticks, repeated passes and new iterations do not add up to a  *)
(* loop.                                                                   *)
StepsLeft ==
  [idle |-> 0, deciding |-> 1, capturing |-> 2, reported |-> 3, running |-> 4, validating |-> 5]
Room ==
  CASE pc = "running"   -> Cardinality(Item \ log[iteration])
    [] pc = "capturing" -> Slots
    [] OTHER            -> 0
Left == <<MaxIterations - iteration, StepsLeft[pc], Room>>
Below(x, y) ==
  \/ x[1] < y[1]
  \/ x[1] = y[1] /\ x[2] < y[2]
  \/ x[1] = y[1] /\ x[2] = y[2] /\ x[3] < y[3]
EveryStepAdvances == [][pc # "idle" => Below(Left', Left)]_vars

(* What the fixtures answer they answer for good: a later capture, failed  *)
(* or killed, loses no recording, and without --overwrite the answer is    *)
(* the same one.                                                           *)
RecordedIsStable ==
  [][\A i \in Item :
       Served(i) # "miss" =>
         /\ Served(i)' # "miss"
         /\ ~overwrite => Served(i)' = Served(i)]_vars

(* The monitor stops a run for a URL the run itself asked for, and that    *)
(* replay did not answer or answered with a recorded error; or, from the   *)
(* second invocation on, for one an earlier invocation left in a file no   *)
(* run empties: an artifact, a worker's result, the gateway's debug log,   *)
(* run.json or the actual results. The iterations of one invocation never  *)
(* stop each other, and what the emptied logs held stops no run.           *)
Unanswered(i) ==
  \/ Served(i) = "miss"
  \/ KindOf[i] = "web" /\ Served(i) = "error"
  \/ i \in Mentioned
StopIsExplained ==
  [][stoppedOn' \notin {stoppedOn, NoItem} =>
       \/ stoppedOn' \in log[iteration] /\ Unanswered(stoppedOn')
       \/ /\ invocations > 1
          /\ stoppedOn' \in leftover[iteration] \cup runJson[iteration] \cup actual[iteration]]_vars

(* Nothing is fetched from a host the user did not allow unless it is a    *)
(* safe one, and an invocation allows at most MaxAutoHosts by itself; Koji *)
(* is asked in any case.                                                   *)
HostsAreAllowed ==
  /\ autoHosts \subseteq SafeHosts \ AllowedHosts
  /\ Cardinality(autoHosts) <= MaxAutoHosts
FetchesAreAllowed ==
  /\ []HostsAreAllowed
  /\ [][\A i \in Item :
          Served(i) = "miss" /\ Served(i)' # "miss" =>
            KindOf[i] = "koji" \/ HostOf[i] \in AllowedHosts \cup autoHosts]_vars
-----------------------------------------------------------------------------
(* The contract, and how it is kept: what is missing is what the files of  *)
(* the iteration's results directory name.                                 *)
VerdictOf ==
  IF pc # "idle" THEN "open"
  ELSE IF status = "none" THEN "none"
  ELSE IF status \in Ended THEN "ready"
  ELSE IF status = "blocked" THEN "stuck"
  ELSE "unfinished"

Contract == INSTANCE PrepareContract WITH
  Unchecked <- {i \in Item : KindOf[i] = "koji"},
  recorded  <- content \cup failures,
  missing   <- Candidates,
  permitted <- AllowedHosts \cup autoHosts,
  slots     <- Slots,
  redo      <- overwrite,
  round     <- iteration,
  gained    <- captured,
  verdict   <- VerdictOf

(* prepare-case does what the contract says, in every step.                *)
ContractKept == Contract!ContractSpec
-----------------------------------------------------------------------------
(* Liveness.                                                               *)

(* Every invocation ends, unless the workflow hangs without having missed  *)
(* any URL: a Jira, Koji or lookaside miss does not wake the monitor.      *)
InvocationEnds ==
  []<>(pc = "idle") \/ <>[](pc = "running" /\ Candidates \cap UrlItems = {})
-----------------------------------------------------------------------------
(* What the messages, the documentation and the tests say of the command   *)
(* and the code does not keep.                                             *)

(* "replay miss: URL is not recorded in replay cache", says the error the  *)
(* monitor raises: the URL it stops a run for is not recorded.             *)
StoppedOnlyOnMissing == stoppedOn # NoItem /\ pc = "reported" => Served(stoppedOn) = "miss"

(* The run after a capture goes on to what is missing next: no run is      *)
(* stopped for a URL that is recorded by now and that it did not ask for.  *)
StoppedForAReason ==
  [][stoppedOn' \in {stoppedOn, NoItem} \cup log[iteration] \/ Served(stoppedOn') = "miss"]_vars

(* Captures are repeated until the case is replayable: a case that         *)
(* succeeded misses nothing its last run asked for.                        *)
SucceededMissesNothing == status = "succeeded" => \A i \in Candidates : Served(i) # "miss"

(* A capture that fails keeps the existing recording, with --overwrite     *)
(* too.                                                                    *)
ContentStaysServed ==
  [][\A i \in Item : Served(i) = "content" => Served(i)' = "content"]_vars
=============================================================================
