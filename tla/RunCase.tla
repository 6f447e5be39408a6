------------------------------ MODULE RunCase ------------------------------
(***************************************************************************)
(* The attempts at one case and repetition: runner._run_case_result, its   *)
(* worker (a podman client and the container it starts, or the workflow in *)
(* the harness's own process) and the files the two leave for each other.  *)
(*                                                                         *)
(* The files live in a directory named after the run id, which is the      *)
(* variant unless the user gives one, so every attempt at the case finds   *)
(* the files of the attempts before it; and a worker that outlives its     *)
(* attempt goes on writing them while the next attempt runs.               *)
(***************************************************************************)
EXTENDS Naturals

CONSTANTS
  MaxAttempts,  \* bound: how often the case is run with this run id
  Modes,        \* YMIR_HARNESS_FILESYSTEM_ISOLATION: "container", "inprocess"
  Deadlines     \* YMIR_HARNESS_AGENT_TIMEOUT_SECONDS is set (TRUE) or not

ASSUME AttemptAssumption ==
  /\ MaxAttempts \in Nat
  /\ Modes \subseteq {"container", "inprocess"}
  /\ Deadlines \subseteq BOOLEAN

Attempts == 1 .. MaxAttempts
Nobody   == 0

(* The files searched for violations: the workflow's own logs, the logs of *)
(* the gateway, the artifacts of the case, the worker's result file.       *)
File == {"trace", "gateway", "artifacts", "result"}

VARIABLES
  attempt,     \* the attempt under way, or the last one
  host,        \* what the harness is doing
  mode,        \* where the attempt's workflow runs
  deadline,    \* the attempt has a deadline
  worker,      \* [Attempts -> state of the attempt's workflow]
  attached,    \* attempts whose podman client is alive
  cid,         \* the container named by the cid file, or Nobody
  named,       \* [File -> attempts whose violations the file names]
  resultFile,  \* who wrote result.json, and the execution's status
  execution,   \* the execution the harness goes on with
  actualFile,  \* whose result is in the actual-results file
  entry,       \* [Attempts -> the entry of the report]
  violators,   \* history: attempts whose workflow logged a violation
  overlap,     \* history: [Attempts -> workflows alive when it started]
  lost         \* history: attempts whose container nobody removed

setup == <<attempt, mode, deadline, overlap>>
process == <<worker, attached>>
files == <<named, resultFile>>
vars == <<setup, host, process, cid, files, execution, actualFile, entry, violators, lost>>

Phase  == {"idle", "waiting", "removing", "terminating", "reading", "reporting"}
Worker == {"none", "starting", "created", "running", "written", "exited", "crashed", "killed"}
Verdict == {"passed", "failed", "timeout"}
Execution == [by : Attempts \cup {Nobody}, status : Verdict \cup {"none"}]
NoExecution == [by |-> Nobody, status |-> "none"]
Entry == [status : Verdict \cup {"none"}, by : Attempts \cup {Nobody},
          actual : Attempts \cup {Nobody}, blamed : SUBSET Attempts]
NoEntry == [status |-> "none", by |-> Nobody, actual |-> Nobody, blamed |-> {}]

TypeOK ==
  /\ attempt \in Attempts \cup {Nobody}
  /\ host \in Phase
  /\ mode \in {"container", "inprocess"}
  /\ deadline \in BOOLEAN
  /\ worker \in [Attempts -> Worker]
  /\ attached \subseteq Attempts
  /\ cid \in Attempts \cup {Nobody}
  /\ named \in [File -> SUBSET Attempts]
  /\ resultFile \in Execution
  /\ execution \in Execution
  /\ actualFile \in Attempts \cup {Nobody}
  /\ entry \in [Attempts -> Entry]
  /\ violators \subseteq Attempts
  /\ overlap \in [Attempts -> SUBSET Attempts]
  /\ lost \subseteq Attempts
  /\ host # "idle" => attempt \in Attempts

Active == {a \in Attempts : worker[a] \in {"created", "running", "written"}}
Alive == Active \cup {a \in Attempts : worker[a] = "starting"}
Named == UNION {named[f] : f \in File}
-----------------------------------------------------------------------------
Init ==
  /\ attempt = Nobody
  /\ host = "idle"
  /\ mode = "inprocess"
  /\ deadline = FALSE
  /\ worker = [a \in Attempts |-> "none"]
  /\ attached = {}
  /\ cid = Nobody
  /\ named = [f \in File |-> {}]
  /\ resultFile = NoExecution
  /\ execution = NoExecution
  /\ actualFile = Nobody
  /\ entry = [a \in Attempts |-> NoEntry]
  /\ violators = {}
  /\ overlap = [a \in Attempts |-> {}]
  /\ lost = {}

(* The attempt is over and its entry in the report is e.                   *)
Enter(e) ==
  /\ host' = "idle"
  /\ entry' = [entry EXCEPT ![attempt] = e]

(* Fixtures that cannot be materialized fail an attempt before it touches  *)
(* any of the files.                                                       *)
SetupFails ==
  /\ host = "idle"
  /\ attempt < MaxAttempts
  /\ attempt' = attempt + 1
  /\ entry' = [entry EXCEPT ![attempt'] = [NoEntry EXCEPT !.status = "failed",
                                                          !.actual = actualFile]]
  /\ UNCHANGED <<host, mode, deadline, overlap, process, cid, files, execution, actualFile,
                 violators, lost>>

(* Mutant of Start: the logs are opened for appending.                     *)
StartAppending(m, d) ==
  /\ host = "idle"
  /\ attempt < MaxAttempts
  /\ attempt' = attempt + 1
  /\ host' = "waiting"
  /\ mode' = m
  /\ deadline' = d
  /\ overlap' = [overlap EXCEPT ![attempt'] = Alive]
  /\ execution' = NoExecution
  /\ IF m = "container"
     THEN /\ cid' = Nobody
          /\ worker' = [worker EXCEPT ![attempt'] = "starting"]
          /\ attached' = attached \cup {attempt'}
     ELSE /\ worker' = [worker EXCEPT ![attempt'] = "created"]
          /\ UNCHANGED <<cid, attached>>
  /\ UNCHANGED <<files, actualFile, entry, violators, lost>>

(* The log files are truncated; in a container's case the cid file is      *)
(* removed and the podman client started. result.json and the other files  *)
(* stay as they are.                                                       *)
Start(m, d) ==
  /\ host = "idle"
  /\ attempt < MaxAttempts
  /\ attempt' = attempt + 1
  /\ host' = "waiting"
  /\ mode' = m
  /\ deadline' = d
  /\ overlap' = [overlap EXCEPT ![attempt'] = Alive]
  /\ execution' = NoExecution
  /\ named' = [named EXCEPT !["trace"] = {}]
  /\ IF m = "container"
     THEN /\ cid' = Nobody
          /\ worker' = [worker EXCEPT ![attempt'] = "starting"]
          /\ attached' = attached \cup {attempt'}
     ELSE /\ worker' = [worker EXCEPT ![attempt'] = "created"]
          /\ UNCHANGED <<cid, attached>>
  /\ UNCHANGED <<resultFile, actualFile, entry, violators, lost>>
-----------------------------------------------------------------------------
(* The workflow, in its container or in the harness's process.             *)

(* podman creates the container and writes its id; it refuses to when the  *)
(* cid file exists, and the client exits with an error. A container that   *)
(* comes once the harness has looked for the cid file is not removed.      *)
CreateContainer(a) ==
  /\ worker[a] = "starting"
  /\ IF cid = Nobody
     THEN /\ cid' = a
          /\ worker' = [worker EXCEPT ![a] = "created"]
          /\ lost' = IF host = "terminating" THEN lost \cup {a} ELSE lost
          /\ UNCHANGED attached
     ELSE /\ worker' = [worker EXCEPT ![a] = "crashed"]
          /\ attached' = attached \ {a}
          /\ UNCHANGED <<cid, lost>>
  /\ UNCHANGED <<setup, host, files, execution, actualFile, entry, violators>>

(* The workflow starts its gateway, whose logs are truncated.              *)
StartGateway(a) ==
  /\ worker[a] = "created"
  /\ worker' = [worker EXCEPT ![a] = "running"]
  /\ named' = [named EXCEPT !["gateway"] = {}]
  /\ UNCHANGED <<setup, host, attached, cid, resultFile, execution, actualFile, entry,
                 violators, lost>>

InProcess(a) == mode = "inprocess" /\ host = "waiting" /\ a = attempt

(* A guard blocks a call of the workflow: a log or an artifact names the   *)
(* URL. A container's output reaches the logs through its client.          *)
LogViolation(a, f) ==
  /\ worker[a] = "running"
  /\ f = "trace" => a \in attached \/ InProcess(a)
  /\ f # "result"
  /\ named' = [named EXCEPT ![f] = @ \cup {a}]
  /\ violators' = violators \cup {a}
  /\ UNCHANGED <<setup, host, process, cid, resultFile, execution, actualFile, entry, lost>>

(* workflow_worker.main writes the execution: the workflow's own, or a     *)
(* "timeout" without a result when an agent ran out of time.               *)
WriteResult(a, status) ==
  /\ worker[a] = "running"
  /\ ~InProcess(a)
  /\ worker' = [worker EXCEPT ![a] = "written"]
  /\ resultFile' = [by |-> a, status |-> status]
  /\ \E mentioned \in SUBSET ({a} \cap violators) :
       named' = [named EXCEPT !["result"] = mentioned]
  /\ UNCHANGED <<setup, host, attached, cid, execution, actualFile, entry, violators, lost>>

(* The container ends, with status 0 when main returned; podman may remove *)
(* the cid file with it, whatever is in the file by then.                  *)
Exit(a) ==
  /\ a \in Active
  /\ ~InProcess(a)
  /\ \E end \in {"exited", "crashed"} :
       /\ end = "exited" => worker[a] = "written"
       /\ worker' = [worker EXCEPT ![a] = end]
  /\ attached' = attached \ {a}
  /\ cid' \in {cid, Nobody}
  /\ UNCHANGED <<setup, host, files, execution, actualFile, entry, violators, lost>>

(* The client ends with an error before it has created a container.        *)
ClientFails(a) ==
  /\ worker[a] = "starting"
  /\ worker' = [worker EXCEPT ![a] = "crashed"]
  /\ attached' = attached \ {a}
  /\ UNCHANGED <<setup, host, cid, files, execution, actualFile, entry, violators, lost>>
-----------------------------------------------------------------------------
(* The harness waits for the container.                                    *)

(* An attempt without an execution: the reason names what the files name.  *)
Failure == [status |-> "failed", by |-> Nobody, actual |-> actualFile, blamed |-> Named]

(* A timeout: the entry points to an actual-results file if there is one.  *)
Timeout == [status |-> "timeout", by |-> Nobody, actual |-> actualFile, blamed |-> {}]

(* Mutants of WaitReturns: the end of the worker is taken for a status of  *)
(* the report; the client's return code is not looked at.                  *)
WaitReturnsEnd ==
  /\ host = "waiting"
  /\ mode = "container"
  /\ attempt \notin attached
  /\ cid' = Nobody
  /\ IF worker[attempt] = "exited"
     THEN host' = "reading" /\ UNCHANGED entry
     ELSE Enter([Failure EXCEPT !.status = worker[attempt]])
  /\ UNCHANGED <<setup, process, files, execution, actualFile, violators, lost>>
WaitReturnsAnyway ==
  /\ host = "waiting"
  /\ mode = "container"
  /\ attempt \notin attached
  /\ cid' = Nobody
  /\ host' = "reading"
  /\ UNCHANGED <<setup, process, files, execution, actualFile, entry, violators, lost>>

(* _run_worker_container returns; a status other than 0 raises.            *)
WaitReturns ==
  /\ host = "waiting"
  /\ mode = "container"
  /\ attempt \notin attached
  /\ cid' = Nobody
  /\ IF worker[attempt] = "exited"
     THEN host' = "reading" /\ UNCHANGED entry
     ELSE Enter(Failure)
  /\ UNCHANGED <<setup, process, files, execution, actualFile, violators, lost>>

(* process.wait raises TimeoutExpired.                                     *)
DeadlineExpires ==
  /\ host = "waiting"
  /\ mode = "container"
  /\ deadline
  /\ attempt \in attached
  /\ host' = "removing"
  /\ UNCHANGED <<setup, process, cid, files, execution, actualFile, entry, violators, lost>>

(* Mutant of RemoveContainer: the cid file is gone before it is read.      *)
RemoveNothing ==
  /\ host = "removing"
  /\ host' = "terminating"
  /\ cid' = Nobody
  /\ UNCHANGED <<setup, process, files, execution, actualFile, entry, violators, lost>>

(* `podman rm -f' of the container the cid file names, if it names one.    *)
RemoveContainer ==
  /\ host = "removing"
  /\ host' = "terminating"
  /\ IF cid \in Alive
     THEN /\ worker' = [worker EXCEPT ![cid] = "killed"]
          /\ attached' = attached \ {cid}
     ELSE UNCHANGED process
  /\ UNCHANGED <<setup, cid, files, execution, actualFile, entry, violators, lost>>

(* podman rm fails, and nobody looks at its return code.                   *)
RemoveFails ==
  /\ host = "removing"
  /\ cid # Nobody
  /\ host' = "terminating"
  /\ lost' = lost \cup {attempt}
  /\ UNCHANGED <<setup, process, cid, files, execution, actualFile, entry, violators>>

(* podman rm does not answer within 30 seconds: its TimeoutExpired leaves  *)
(* _run_worker_container, the client is not terminated, and the exception  *)
(* is no TimeoutError, so the entry is a failure.                          *)
RemoveHangs ==
  /\ host = "removing"
  /\ cid # Nobody
  /\ lost' = lost \cup {attempt}
  /\ cid' = Nobody
  /\ Enter(Failure)
  /\ UNCHANGED <<setup, process, files, execution, actualFile, violators>>

(* Mutant of TerminateClient: the client is waited for, never killed.      *)
TerminateWaits ==
  /\ host = "terminating"
  /\ attempt \notin attached
  /\ cid' = Nobody
  /\ Enter(Timeout)
  /\ UNCHANGED <<setup, process, files, execution, actualFile, violators, lost>>

(* Mutant of TerminateClient: the timeout is not raised again.             *)
TerminateAndRead ==
  /\ host = "terminating"
  /\ attached' = attached \ {attempt}
  /\ cid' = Nobody
  /\ host' = "reading"
  /\ IF worker[attempt] = "starting"
     THEN worker' = [worker EXCEPT ![attempt] = "killed"]
     ELSE UNCHANGED worker
  /\ UNCHANGED <<setup, files, execution, actualFile, entry, violators, lost>>

(* The client is terminated, by force if need be; it does not create a     *)
(* container any more. One that is there may get the signal or not.        *)
TerminateClient ==
  /\ host = "terminating"
  /\ attached' = attached \ {attempt}
  /\ cid' = Nobody
  /\ Enter(Timeout)
  /\ IF worker[attempt] = "starting"
     THEN worker' = [worker EXCEPT ![attempt] = "killed"]
     ELSE \/ UNCHANGED worker
          \/ attempt \in Active /\ worker' = [worker EXCEPT ![attempt] = "killed"]
  /\ UNCHANGED <<setup, files, execution, actualFile, violators, lost>>

(* The result file is read once the client is gone.                        *)
ReadResult ==
  /\ host = "reading"
  /\ host' = "reporting"
  /\ execution' = resultFile
  /\ UNCHANGED <<setup, process, cid, files, actualFile, entry, violators, lost>>

(* A worker of an earlier attempt is writing the file just then.           *)
ReadFails ==
  /\ host = "reading"
  /\ \E a \in Attempts \ {attempt} : worker[a] = "running"
  /\ Enter(Failure)
  /\ UNCHANGED <<setup, process, cid, files, execution, actualFile, violators, lost>>
-----------------------------------------------------------------------------
(* The workflow runs in the harness's process.                             *)

WorkflowReturns ==
  /\ InProcess(attempt)
  /\ worker[attempt] = "running"
  /\ worker' = [worker EXCEPT ![attempt] = "exited"]
  /\ \E status \in {"passed", "failed"} : execution' = [by |-> attempt, status |-> status]
  /\ host' = "reporting"
  /\ UNCHANGED <<setup, attached, cid, files, actualFile, entry, violators, lost>>

(* The workflow raises. The violation a guard raises is the reason of its  *)
(* own; a TimeoutError, of an agent or of anything else, is a timeout, and *)
(* so is, with a deadline set, the KeyboardInterrupt of asyncio.run, whose *)
(* context is the cancellation of the workflow.                            *)
WorkflowRaises ==
  /\ InProcess(attempt)
  /\ worker[attempt] \in {"created", "running"}
  /\ worker' = [worker EXCEPT ![attempt] = "crashed"]
  /\ \E e \in {Failure, [Failure EXCEPT !.blamed = {}], Timeout} : Enter(e)
  /\ UNCHANGED <<setup, attached, cid, files, execution, actualFile, violators, lost>>
-----------------------------------------------------------------------------
(* The execution becomes an entry.                                         *)

(* A "timeout" of the worker has no result to write or to score, and its   *)
(* entry names the actual-results file whatever is in it.                  *)
ReportTimeout ==
  /\ host = "reporting"
  /\ execution.status = "timeout"
  /\ Enter([Timeout EXCEPT !.by = execution.by])
  /\ UNCHANGED <<setup, process, cid, files, execution, actualFile, violators, lost>>

(* Mutant of Report: the files are not searched for violations.            *)
ReportUnsearched ==
  /\ host = "reporting"
  /\ execution.status # "timeout"
  /\ actualFile' = attempt
  /\ \E status \in {execution.status, "failed", "timeout"} :
       Enter([status |-> status, by |-> execution.by, actual |-> attempt, blamed |-> Named])
  /\ UNCHANGED <<setup, process, cid, files, execution, violators, lost>>

(* The result, with the violations the files name, is written and scored:  *)
(* a violation, a wrong answer or an answer that cannot be scored fails    *)
(* it, a result over budget becomes a timeout.                             *)
Report ==
  /\ host = "reporting"
  /\ execution.status # "timeout"
  /\ actualFile' = attempt
  /\ \E status \in {execution.status, "failed", "timeout"} :
       /\ Named # {} => status # "passed"
       /\ Enter([status |-> status, by |-> execution.by, actual |-> attempt, blamed |-> Named])
  /\ UNCHANGED <<setup, process, cid, files, execution, violators, lost>>

(* The actual-results file cannot be written.                              *)
ReportUnwritten ==
  /\ host = "reporting"
  /\ execution.status # "timeout"
  /\ Enter([status |-> "failed", by |-> execution.by, actual |-> actualFile, blamed |-> {}])
  /\ UNCHANGED <<setup, process, cid, files, execution, actualFile, violators, lost>>

(* The harness is killed, or an exception that _run_case_result does not   *)
(* handle ends it; a container goes on.                                    *)
HostDies ==
  /\ host # "idle"
  /\ host' = "idle"
  /\ IF mode = "inprocess" /\ attempt \in Alive
     THEN worker' = [worker EXCEPT ![attempt] = "killed"]
     ELSE UNCHANGED worker
  /\ lost' = IF mode = "container" THEN lost \cup {attempt} ELSE lost
  /\ UNCHANGED <<setup, attached, cid, files, execution, actualFile, entry, violators>>
-----------------------------------------------------------------------------
Harness ==
  \/ WaitReturns \/ DeadlineExpires
  \/ RemoveContainer \/ RemoveFails \/ RemoveHangs
  \/ TerminateClient \/ ReadResult \/ ReadFails
  \/ ReportTimeout \/ Report \/ ReportUnwritten

Workflow ==
  \/ \E a \in Attempts :
       \/ CreateContainer(a) \/ ClientFails(a) \/ StartGateway(a) \/ Exit(a)
       \/ \E f \in File : LogViolation(a, f)
       \/ \E status \in Verdict : WriteResult(a, status)
  \/ WorkflowReturns \/ WorkflowRaises

User == SetupFails \/ (\E m \in Modes, d \in Deadlines : Start(m, d)) \/ HostDies

Next == Harness \/ Workflow \/ User

Spec == Init /\ [][Next]_vars

(* The harness's own process keeps running; podman and the workflow need   *)
(* not.                                                                    *)
FairSpec == Spec /\ WF_vars(Harness)
-----------------------------------------------------------------------------
(* Safety. Most of it needs that no worker of an earlier attempt was alive *)
(* when the attempt started.                                               *)

Undisturbed(a) == overlap[a] = {}

(* A passed entry reports the attempt's own execution, not one that an     *)
(* earlier attempt left in result.json, and its workflow logged no         *)
(* violation at any time, whatever the files hold now.                     *)
PassedOnItsOwn ==
  \A a \in Attempts :
    entry[a].status = "passed" /\ Undisturbed(a) =>
      entry[a].by = a /\ entry[a].actual = a /\ a \notin violators

(* The violations an undisturbed attempt with an execution is failed for   *)
(* are its own or those the files that no attempt clears were left with:   *)
(* the case's artifacts and, for a workflow in the harness's process, the  *)
(* result file of a container.                                             *)
BlamesLeftoversOnly ==
  [][\A a \in Attempts :
       entry'[a] # entry[a] /\ entry'[a].by # Nobody /\ Undisturbed(a) =>
         entry'[a].blamed \subseteq
           {a} \cup named["artifacts"] \cup
           (IF mode = "inprocess" THEN named["result"] ELSE {})]_vars

(* When the harness is through with an attempt, its workflow is gone,      *)
(* unless podman did not remove the container, it was created while the    *)
(* harness was already terminating its client, the harness died, or a      *)
(* container of an earlier attempt had to do with the cid file.            *)
NothingLeftRunning ==
  \A a \in Alive : a \in lost \/ ~Undisturbed(a) \/ (host # "idle" /\ a = attempt)

(* Two workflows never write the files of the case at once, unless the     *)
(* earlier one is of an attempt that lost its container.                   *)
AloneUnlessLost ==
  \A a, b \in Alive : a < b => \E c \in lost : c <= a
-----------------------------------------------------------------------------
(* Liveness.                                                               *)

(* Every attempt comes to an end, unless its workflow hangs where nothing  *)
(* limits it: in a container without a deadline, or in the harness's own   *)
(* process, where only the agents have one.                                *)
AttemptEnds ==
  []<>(host = "idle") \/ <>[](host = "waiting" /\ (mode = "inprocess" \/ ~deadline))
-----------------------------------------------------------------------------
(* What the report says of the attempts.                                   *)
UnderWay == IF host = "idle" THEN Nobody ELSE attempt
Answers == [a \in Attempts |-> [status |-> entry[a].status, by |-> entry[a].by]]

Contract == INSTANCE RunContract WITH
  last   <- attempt,
  now    <- UnderWay,
  answer <- Answers,
  alive  <- Alive,
  guilty <- violators,
  astray <- lost,
  beside <- overlap

(* Every step is one the contract allows: one attempt at a time, answered  *)
(* at most once and by its own execution, and disturbed only by workflows  *)
(* that an earlier attempt lost.                                           *)
ReportKept == Contract!ContractSpec
-----------------------------------------------------------------------------
(* What a test says of the deadline and the code does not keep: the        *)
(* attempt whose deadline expired is reported as a timeout.                *)
DeadlineIsTimeout ==
  [][(host \in {"removing", "terminating"} /\ host' = "idle") =>
       entry'[attempt].status \in {"none", "timeout"}]_vars
=============================================================================
