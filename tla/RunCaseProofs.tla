--------------------------- MODULE RunCaseProofs ---------------------------
(* What holds of the attempts at a case however many there are, wherever   *)
(* they run and whether or not they have a deadline.                       *)
EXTENDS RunCase, TLAPS

USE DEF setup, process, files, vars

(* An attempt is under way that no other workflow disturbs.                *)
Quiet == host # "idle" /\ Undisturbed(attempt)

(* Nothing is known of an attempt that has not started.                    *)
FreshInv ==
  \A a \in Attempts : a > attempt =>
    worker[a] = "none" /\ entry[a] = NoEntry /\ a \notin violators /\ overlap[a] = {}

(* What the harness's phase says of the attempt's workflow.                *)
PhaseInv ==
  /\ mode = "inprocess" => host \in {"idle", "waiting", "reporting"}
  /\ host \in {"reading", "reporting"} => worker[attempt] = "exited"

(* A workflow that has not started its gateway has logged nothing.         *)
SilentInv == \A a \in Attempts : worker[a] \in {"none", "starting", "created"} => a \notin violators

QuietInv == Quiet => Alive \subseteq {attempt}

(* The execution that becomes the entry is the attempt's own.              *)
ResultInv ==
  Quiet =>
    /\ mode = "container" /\ worker[attempt] \in {"written", "exited"} =>
         resultFile.by = attempt
    /\ host = "reporting" => execution.by = attempt

(* The attempt's violations are still there to be found.                   *)
OwnLinesInv ==
  Quiet /\ attempt \in violators =>
    attempt \in named["trace"] \cup named["gateway"] \cup named["artifacts"]

(* The files that are cleared name nobody else.                            *)
ClearedInv ==
  Quiet =>
    /\ named["trace"] \subseteq {attempt}
    /\ worker[attempt] \in {"running", "written", "exited"} => named["gateway"] \subseteq {attempt}
    /\ mode = "container" /\ worker[attempt] \in {"written", "exited"} =>
         named["result"] \subseteq {attempt}

PassedInv ==
  \A a \in Attempts : entry[a].status = "passed" =>
    /\ worker[a] = "exited"
    /\ Undisturbed(a) => entry[a].by = a /\ entry[a].actual = a /\ a \notin violators

(* The client lives as long as its container, and the cid file names it.   *)
ContainerInv ==
  Quiet /\ mode = "container" =>
    /\ host \in {"waiting", "removing"} /\ attempt \in Alive => attempt \in attached
    /\ host \in {"waiting", "removing"} /\ attempt \in Active => cid = attempt
    /\ host = "terminating" /\ attempt \in Active => attempt \in lost

(* The first workflow that was left running is a lost one.                 *)
OverlapInv == \A a \in Attempts : overlap[a] # {} => \E c \in lost : c < a

IInv ==
  /\ TypeOK /\ FreshInv /\ PhaseInv /\ SilentInv /\ QuietInv /\ ResultInv
  /\ OwnLinesInv /\ ClearedInv /\ PassedInv /\ ContainerInv /\ NothingLeftRunning
  /\ OverlapInv
-----------------------------------------------------------------------------
(* Type correctness.                                                       *)

LEMMA InitType == Init => TypeOK
<1> SUFFICES ASSUME Init PROVE TypeOK
  OBVIOUS
<1>1. NoEntry \in Entry /\ NoExecution \in Execution
  BY DEF NoEntry, Entry, NoExecution, Execution, Verdict
<1>2. deadline \in BOOLEAN
  BY DEF Init
<1> QED
  BY <1>1, <1>2 DEF Init, TypeOK, Phase, Worker

(* The entries the harness may make are entries.                           *)
LEMMA EntryTypes ==
  ASSUME TypeOK
  PROVE  /\ Failure \in Entry /\ Timeout \in Entry
         /\ [NoEntry EXCEPT !.status = "failed", !.actual = actualFile] \in Entry
         /\ [Failure EXCEPT !.blamed = {}] \in Entry
         /\ [Timeout EXCEPT !.by = execution.by] \in Entry
         /\ Named \subseteq Attempts
<1>1. Named \subseteq Attempts
  BY DEF TypeOK, Named
<1> QED
  BY <1>1 DEF TypeOK, Entry, Failure, Timeout, NoEntry, Verdict, Execution

LEMMA NextType == TypeOK /\ [Next]_vars => TypeOK'
<1> SUFFICES ASSUME TypeOK, [Next]_vars PROVE TypeOK'
  OBVIOUS
<1> USE AttemptAssumption DEF TypeOK, Phase, Worker
<1>1. CASE SetupFails
  <2>1. attempt' \in Attempts
    BY <1>1 DEF SetupFails, Attempts, Nobody
  <2>2. entry' \in [Attempts -> Entry]
    BY <1>1, <2>1, EntryTypes DEF SetupFails
  <2> QED
    BY <1>1, <2>1, <2>2 DEF SetupFails
<1>2. ASSUME NEW m \in Modes, NEW d \in Deadlines, Start(m, d) PROVE TypeOK'
  <2>1. attempt' \in Attempts /\ Alive \subseteq Attempts
    BY <1>2 DEF Start, Attempts, Nobody, Alive, Active
  <2>2. deadline' \in BOOLEAN
    BY <1>2 DEF Start
  <2>3. NoExecution \in Execution
    BY DEF NoExecution, Execution, Verdict
  <2>4. named' \in [File -> SUBSET Attempts] /\ overlap' \in [Attempts -> SUBSET Attempts]
    BY <1>2, <2>1 DEF Start
  <2>5. /\ worker' \in [Attempts -> Worker] /\ attached' \subseteq Attempts
        /\ cid' \in Attempts \cup {Nobody} /\ mode' \in {"container", "inprocess"}
    BY <1>2, <2>1 DEF Start
  <2> QED
    BY <1>2, <2>1, <2>2, <2>3, <2>4, <2>5 DEF Start
<1>3. ASSUME NEW a \in Attempts,
             CreateContainer(a) \/ ClientFails(a) \/ StartGateway(a) \/ Exit(a)
      PROVE  TypeOK'
  BY <1>3 DEF CreateContainer, ClientFails, StartGateway, Exit, File
<1>4. ASSUME NEW a \in Attempts, NEW f \in File, LogViolation(a, f) PROVE TypeOK'
  BY <1>4 DEF LogViolation
<1>5. ASSUME NEW a \in Attempts, NEW status \in Verdict, WriteResult(a, status) PROVE TypeOK'
  BY <1>5 DEF WriteResult, Execution, File
<1>6. CASE WorkflowReturns
  BY <1>6 DEF WorkflowReturns, InProcess, Execution, Verdict
<1>7. CASE WaitReturns \/ RemoveHangs \/ ReadFails \/ ReportTimeout
  BY <1>7, EntryTypes DEF WaitReturns, RemoveHangs, ReadFails, ReportTimeout, Enter
<1>11. CASE TerminateClient
  BY <1>11, EntryTypes DEF TerminateClient, Enter
<1>12. CASE WorkflowRaises
  <2>1. PICK e \in Entry : Enter(e)
    BY <1>12, EntryTypes DEF WorkflowRaises
  <2> QED
    BY <1>12, <2>1 DEF WorkflowRaises, InProcess, Enter
<1>8. CASE DeadlineExpires \/ RemoveContainer \/ RemoveFails \/ ReadResult \/ HostDies
  BY <1>8 DEF DeadlineExpires, RemoveContainer, RemoveFails, ReadResult, HostDies, Alive, Active
<1>9. CASE Report \/ ReportUnwritten
  BY <1>9, EntryTypes DEF Report, ReportUnwritten, Enter, Entry, Execution, Verdict
<1>10. CASE UNCHANGED vars
  BY <1>10
<1> QED
  BY <1>1, <1>2, <1>3, <1>4, <1>5, <1>6, <1>7, <1>8, <1>9, <1>10, <1>11, <1>12
     DEF Next, Harness, Workflow, User

(* Every variable keeps its type, however often the case is run.           *)
THEOREM TypeCorrect == Spec => []TypeOK
  BY InitType, NextType, PTL DEF Spec
-----------------------------------------------------------------------------
(* The invariant, one part at a time.                                      *)

LEMMA InitInv == Init => IInv
<1> SUFFICES ASSUME Init PROVE IInv
  OBVIOUS
<1>1. TypeOK
  BY InitType
<1>2. ~Quiet /\ Alive = {}
  BY DEF Init, Quiet, Alive, Active
<1>3. FreshInv /\ PassedInv
  BY DEF Init, FreshInv, PassedInv, NoEntry
<1> QED
  BY <1>1, <1>2, <1>3
     DEF Init, IInv, PhaseInv, SilentInv, QuietInv, ResultInv, OwnLinesInv, ClearedInv,
         ContainerInv, NothingLeftRunning, OverlapInv

(* Only an attempt that starts, or fails to, has a new number.             *)
LEMMA FreshStep == ASSUME IInv, TypeOK', Next PROVE FreshInv'
<1> USE AttemptAssumption DEF IInv, FreshInv, Attempts, Nobody
<1>0. attempt \in Nat /\ \A a \in Attempts : a > attempt => a # attempt
  BY DEF TypeOK
<1>1. CASE SetupFails
  BY <1>0, <1>1 DEF SetupFails, TypeOK
<1>2. ASSUME NEW m \in Modes, NEW d \in Deadlines, Start(m, d) PROVE FreshInv'
  BY <1>0, <1>2 DEF Start, TypeOK
<1>3. ASSUME NEW a \in Attempts,
             CreateContainer(a) \/ ClientFails(a) \/ StartGateway(a) \/ Exit(a)
      PROVE  FreshInv'
  BY <1>3 DEF CreateContainer, ClientFails, StartGateway, Exit, Active, TypeOK
<1>4. ASSUME NEW a \in Attempts, NEW f \in File, LogViolation(a, f) PROVE FreshInv'
  BY <1>4 DEF LogViolation
<1>5. ASSUME NEW a \in Attempts, NEW status \in Verdict, WriteResult(a, status) PROVE FreshInv'
  BY <1>5 DEF WriteResult, TypeOK
<1>6. CASE WaitReturns \/ RemoveHangs \/ ReadFails \/ ReportTimeout \/ Report \/ ReportUnwritten
  <2>1. /\ entry' = entry \/ \E e : entry' = [entry EXCEPT ![attempt] = e]
        /\ UNCHANGED <<attempt, worker, violators, overlap>>
    BY <1>6 DEF WaitReturns, RemoveHangs, ReadFails, ReportTimeout, Report, ReportUnwritten, Enter
  <2> QED
    BY <1>0, <2>1 DEF TypeOK
<1>7. CASE TerminateClient \/ WorkflowRaises
  <2>1. /\ \E e : entry' = [entry EXCEPT ![attempt] = e]
        /\ worker' = worker \/ \E w : worker' = [worker EXCEPT ![attempt] = w]
        /\ UNCHANGED <<attempt, violators, overlap>>
    BY <1>7 DEF TerminateClient, WorkflowRaises, Enter
  <2> QED
    BY <1>0, <2>1 DEF TypeOK
<1>8. CASE DeadlineExpires \/ RemoveContainer \/ RemoveFails \/ ReadResult \/ HostDies
           \/ WorkflowReturns
  BY <1>0, <1>8 DEF DeadlineExpires, RemoveContainer, RemoveFails, ReadResult, HostDies,
     WorkflowReturns, Alive, Active, TypeOK
<1> QED
  BY <1>1, <1>2, <1>3, <1>4, <1>5, <1>6, <1>7, <1>8 DEF Next, Harness, Workflow, User

LEMMA PhaseStep == ASSUME IInv, TypeOK', Next PROVE PhaseInv'
<1> USE DEF IInv, PhaseInv
<1>1. CASE SetupFails \/ \E m \in Modes, d \in Deadlines : Start(m, d)
  BY <1>1 DEF SetupFails, Start, TypeOK
<1>2. ASSUME NEW a \in Attempts,
             CreateContainer(a) \/ ClientFails(a) \/ StartGateway(a) \/ Exit(a)
      PROVE  PhaseInv'
  BY <1>2 DEF CreateContainer, ClientFails, StartGateway, Exit, Active, TypeOK
<1>3. ASSUME NEW a \in Attempts, NEW f \in File, LogViolation(a, f) PROVE PhaseInv'
  BY <1>3 DEF LogViolation
<1>4. ASSUME NEW a \in Attempts, NEW status \in Verdict, WriteResult(a, status) PROVE PhaseInv'
  BY <1>4 DEF WriteResult, TypeOK
<1>5. CASE WaitReturns \/ DeadlineExpires \/ RemoveContainer \/ RemoveFails \/ RemoveHangs
  BY <1>5 DEF WaitReturns, DeadlineExpires, RemoveContainer, RemoveFails, RemoveHangs, Enter, TypeOK
<1>6. CASE TerminateClient \/ ReadResult \/ ReadFails \/ ReportTimeout \/ Report
           \/ ReportUnwritten \/ HostDies
  BY <1>6 DEF TerminateClient, ReadResult, ReadFails, ReportTimeout, Report, ReportUnwritten,
     HostDies, Enter
<1>7. CASE WorkflowReturns \/ WorkflowRaises
  BY <1>7 DEF WorkflowReturns, WorkflowRaises, InProcess, Enter, TypeOK
<1> QED
  BY <1>1, <1>2, <1>3, <1>4, <1>5, <1>6, <1>7 DEF Next, Harness, Workflow, User

LEMMA SilentStep == ASSUME IInv, TypeOK', Next PROVE SilentInv'
<1> USE DEF IInv, SilentInv, TypeOK
<1>1. CASE SetupFails \/ \E m \in Modes, d \in Deadlines : Start(m, d)
  <2>1. \A a \in Attempts : a = attempt' => a \notin violators
    BY <1>1, AttemptAssumption DEF SetupFails, Start, FreshInv, Attempts, Nobody
  <2> QED
    BY <1>1, <2>1 DEF SetupFails, Start
<1>2. ASSUME NEW a \in Attempts,
             CreateContainer(a) \/ ClientFails(a) \/ StartGateway(a) \/ Exit(a)
      PROVE  SilentInv'
  BY <1>2 DEF CreateContainer, ClientFails, StartGateway, Exit
<1>3. ASSUME NEW a \in Attempts, NEW f \in File, LogViolation(a, f) PROVE SilentInv'
  BY <1>3 DEF LogViolation
<1>4. ASSUME NEW a \in Attempts, NEW status \in Verdict, WriteResult(a, status) PROVE SilentInv'
  BY <1>4 DEF WriteResult
<1>5. CASE WaitReturns \/ DeadlineExpires \/ RemoveContainer \/ RemoveFails \/ RemoveHangs
           \/ TerminateClient
  BY <1>5 DEF WaitReturns, DeadlineExpires, RemoveContainer, RemoveFails, RemoveHangs,
     TerminateClient, Alive, Active
<1>6. CASE ReadResult \/ ReadFails \/ ReportTimeout \/ Report \/ ReportUnwritten
  BY <1>6 DEF ReadResult, ReadFails, ReportTimeout, Report, ReportUnwritten
<1>7. CASE WorkflowReturns \/ WorkflowRaises \/ HostDies
  BY <1>7 DEF WorkflowReturns, WorkflowRaises, HostDies
<1> QED
  BY <1>1, <1>2, <1>3, <1>4, <1>5, <1>6, <1>7 DEF Next, Harness, Workflow, User

(* A quiet attempt is the only one with a workflow, and stays so.          *)
LEMMA QuietStep == ASSUME IInv, TypeOK', Next PROVE QuietInv'
<1> USE DEF IInv, QuietInv, Quiet, Undisturbed, TypeOK, Alive, Active
<1>1. CASE SetupFails
  BY <1>1 DEF SetupFails
<1>2. ASSUME NEW m \in Modes, NEW d \in Deadlines, Start(m, d) PROVE QuietInv'
  <2>1. attempt' \in Attempts /\ overlap'[attempt'] = Alive
    BY <1>2 DEF Start
  <2>2. \A a \in Attempts \ {attempt'} : worker'[a] = worker[a]
    BY <1>2, <2>1 DEF Start
  <2> QED
    BY <2>1, <2>2
<1>3. ASSUME NEW a \in Attempts,
             CreateContainer(a) \/ ClientFails(a) \/ StartGateway(a) \/ Exit(a)
      PROVE  QuietInv'
  BY <1>3 DEF CreateContainer, ClientFails, StartGateway, Exit
<1>4. ASSUME NEW a \in Attempts, NEW f \in File, LogViolation(a, f) PROVE QuietInv'
  BY <1>4 DEF LogViolation
<1>5. ASSUME NEW a \in Attempts, NEW status \in Verdict, WriteResult(a, status) PROVE QuietInv'
  BY <1>5 DEF WriteResult
<1>6. CASE WaitReturns \/ DeadlineExpires \/ RemoveFails
  BY <1>6 DEF WaitReturns, DeadlineExpires, RemoveFails, Enter
<1>9. CASE RemoveContainer
  BY <1>9 DEF RemoveContainer
<1>7. CASE RemoveHangs \/ TerminateClient \/ ReadFails \/ ReportTimeout \/ Report
           \/ ReportUnwritten \/ WorkflowRaises \/ HostDies
  <2>1. host' = "idle"
    BY <1>7 DEF RemoveHangs, TerminateClient, ReadFails, ReportTimeout, Report, ReportUnwritten,
       WorkflowRaises, HostDies, Enter
  <2> QED
    BY <2>1
<1>8. CASE ReadResult \/ WorkflowReturns
  BY <1>8 DEF ReadResult, WorkflowReturns, InProcess
<1> QED
  BY <1>1, <1>2, <1>3, <1>4, <1>5, <1>6, <1>7, <1>8, <1>9 DEF Next, Harness, Workflow, User

(* The harness has left the attempt, or goes on with it.                   *)
LEMMA Leaves ==
  ASSUME RemoveHangs \/ TerminateClient \/ ReadFails \/ ReportTimeout \/ Report
           \/ ReportUnwritten \/ WorkflowRaises \/ HostDies
  PROVE  host' = "idle" /\ ~Quiet'
  BY DEF RemoveHangs, TerminateClient, ReadFails, ReportTimeout, Report, ReportUnwritten,
     WorkflowRaises, HostDies, Enter, Quiet

LEMMA ResultStep == ASSUME IInv, TypeOK', Next PROVE ResultInv'
<1> USE DEF IInv, ResultInv, QuietInv, Quiet, Undisturbed, TypeOK, Alive, Active
<1>1. CASE SetupFails \/ \E m \in Modes, d \in Deadlines : Start(m, d)
  BY <1>1 DEF SetupFails, Start
<1>2. ASSUME NEW a \in Attempts,
             CreateContainer(a) \/ ClientFails(a) \/ StartGateway(a) \/ Exit(a)
      PROVE  ResultInv'
  BY <1>2 DEF CreateContainer, ClientFails, StartGateway, Exit, InProcess
<1>3. ASSUME NEW a \in Attempts, NEW f \in File, LogViolation(a, f) PROVE ResultInv'
  BY <1>3 DEF LogViolation
<1>4. ASSUME NEW a \in Attempts, NEW status \in Verdict, WriteResult(a, status) PROVE ResultInv'
  BY <1>4 DEF WriteResult
<1>5. CASE WaitReturns \/ DeadlineExpires \/ RemoveContainer \/ RemoveFails
  BY <1>5 DEF WaitReturns, DeadlineExpires, RemoveContainer, RemoveFails, Enter
<1>6. CASE RemoveHangs \/ TerminateClient \/ ReadFails \/ ReportTimeout \/ Report
           \/ ReportUnwritten \/ WorkflowRaises \/ HostDies
  BY <1>6, Leaves
<1>7. CASE ReadResult
  BY <1>7 DEF ReadResult, PhaseInv
<1>8. CASE WorkflowReturns
  BY <1>8 DEF WorkflowReturns, InProcess
<1> QED
  BY <1>1, <1>2, <1>3, <1>4, <1>5, <1>6, <1>7, <1>8 DEF Next, Harness, Workflow, User

(* A violation goes to a file that is cleared, at the latest, when the     *)
(* attempt's gateway starts, and then it has logged nothing.               *)
LEMMA OwnLinesStep == ASSUME IInv, TypeOK', Next PROVE OwnLinesInv'
<1> USE DEF IInv, OwnLinesInv, QuietInv, Quiet, Undisturbed, TypeOK, Alive, Active, File
<1>1. CASE SetupFails \/ \E m \in Modes, d \in Deadlines : Start(m, d)
  <2>1. attempt' \in Attempts => attempt' \notin violators
    BY <1>1, AttemptAssumption DEF SetupFails, Start, FreshInv, Attempts, Nobody
  <2> QED
    BY <1>1, <2>1 DEF SetupFails, Start
<1>2. ASSUME NEW a \in Attempts, CreateContainer(a) \/ ClientFails(a) \/ Exit(a)
      PROVE  OwnLinesInv'
  BY <1>2 DEF CreateContainer, ClientFails, Exit
<1>3. ASSUME NEW a \in Attempts, StartGateway(a) PROVE OwnLinesInv'
  BY <1>3 DEF StartGateway, SilentInv
<1>4. ASSUME NEW a \in Attempts, NEW f \in File, LogViolation(a, f) PROVE OwnLinesInv'
  BY <1>4 DEF LogViolation
<1>5. ASSUME NEW a \in Attempts, NEW status \in Verdict, WriteResult(a, status)
      PROVE  OwnLinesInv'
  BY <1>5 DEF WriteResult
<1>6. CASE WaitReturns \/ DeadlineExpires \/ RemoveContainer \/ RemoveFails \/ ReadResult
           \/ WorkflowReturns
  BY <1>6 DEF WaitReturns, DeadlineExpires, RemoveContainer, RemoveFails, ReadResult,
     WorkflowReturns, InProcess, Enter
<1>7. CASE RemoveHangs \/ TerminateClient \/ ReadFails \/ ReportTimeout \/ Report
           \/ ReportUnwritten \/ WorkflowRaises \/ HostDies
  BY <1>7, Leaves
<1> QED
  BY <1>1, <1>2, <1>3, <1>4, <1>5, <1>6, <1>7 DEF Next, Harness, Workflow, User

LEMMA ClearedStep == ASSUME IInv, TypeOK', Next PROVE ClearedInv'
<1> USE DEF IInv, ClearedInv, QuietInv, Quiet, Undisturbed, TypeOK, Alive, Active, File
<1>1. CASE SetupFails \/ \E m \in Modes, d \in Deadlines : Start(m, d)
  BY <1>1 DEF SetupFails, Start
<1>2. ASSUME NEW a \in Attempts, CreateContainer(a) \/ ClientFails(a) \/ StartGateway(a)
      PROVE  ClearedInv'
  BY <1>2 DEF CreateContainer, ClientFails, StartGateway
<1>3. ASSUME NEW a \in Attempts, Exit(a) PROVE ClearedInv'
  BY <1>3 DEF Exit, InProcess
<1>4. ASSUME NEW a \in Attempts, NEW f \in File, LogViolation(a, f) PROVE ClearedInv'
  BY <1>4 DEF LogViolation
<1>5. ASSUME NEW a \in Attempts, NEW status \in Verdict, WriteResult(a, status)
      PROVE  ClearedInv'
  <2>1. /\ Quiet => a = attempt
        /\ named'["result"] \subseteq {a}
        /\ \A f \in {"trace", "gateway"} : named'[f] = named[f]
        /\ UNCHANGED <<host, attempt, mode, overlap>>
    BY <1>5 DEF WriteResult
  <2>2. worker[a] = "running"
    BY <1>5 DEF WriteResult
  <2> QED
    BY <2>1, <2>2
<1>6. CASE WaitReturns \/ DeadlineExpires \/ RemoveContainer \/ RemoveFails \/ ReadResult
           \/ WorkflowReturns
  BY <1>6 DEF WaitReturns, DeadlineExpires, RemoveContainer, RemoveFails, ReadResult,
     WorkflowReturns, InProcess, Enter
<1>7. CASE RemoveHangs \/ TerminateClient \/ ReadFails \/ ReportTimeout \/ Report
           \/ ReportUnwritten \/ WorkflowRaises \/ HostDies
  BY <1>7, Leaves
<1> QED
  BY <1>1, <1>2, <1>3, <1>4, <1>5, <1>6, <1>7 DEF Next, Harness, Workflow, User

(* A passed entry is made of the attempt's own execution, when no file     *)
(* names a violation; its workflow is over and logs no more.               *)
LEMMA PassedStep == ASSUME IInv, TypeOK', Next PROVE PassedInv'
<1> USE DEF IInv, PassedInv, Undisturbed, TypeOK
<1>1. CASE SetupFails
  <2>1. \A a \in Attempts : entry'[a].status = "passed" => entry'[a] = entry[a]
    BY <1>1 DEF SetupFails, NoEntry
  <2> QED
    BY <1>1, <2>1 DEF SetupFails
<1>2. ASSUME NEW m \in Modes, NEW d \in Deadlines, Start(m, d) PROVE PassedInv'
  <2>1. entry[attempt'].status # "passed"
    BY <1>2, AttemptAssumption DEF Start, FreshInv, NoEntry, Attempts, Nobody
  <2> QED
    BY <1>2, <2>1 DEF Start
<1>3. ASSUME NEW a \in Attempts,
             CreateContainer(a) \/ ClientFails(a) \/ StartGateway(a) \/ Exit(a)
      PROVE  PassedInv'
  BY <1>3 DEF CreateContainer, ClientFails, StartGateway, Exit, Active
<1>4. ASSUME NEW a \in Attempts, NEW f \in File, LogViolation(a, f) PROVE PassedInv'
  BY <1>4 DEF LogViolation
<1>5. ASSUME NEW a \in Attempts, NEW status \in Verdict, WriteResult(a, status) PROVE PassedInv'
  BY <1>5 DEF WriteResult
<1>6. CASE WaitReturns \/ RemoveHangs \/ ReadFails \/ ReportTimeout \/ ReportUnwritten
  <2>1. \A a \in Attempts : entry'[a].status = "passed" => entry'[a] = entry[a]
    BY <1>6 DEF WaitReturns, RemoveHangs, ReadFails, ReportTimeout, ReportUnwritten, Enter,
       Failure, Timeout
  <2>2. UNCHANGED <<worker, violators, overlap>>
    BY <1>6 DEF WaitReturns, RemoveHangs, ReadFails, ReportTimeout, ReportUnwritten
  <2> QED
    BY <2>1, <2>2
<1>7. CASE TerminateClient \/ WorkflowRaises
  <2>1. \A a \in Attempts : entry'[a].status = "passed" => entry'[a] = entry[a]
    BY <1>7 DEF TerminateClient, WorkflowRaises, Enter, Failure, Timeout
  <2>2. \A a \in Attempts : worker[a] = "exited" => worker'[a] = "exited"
    BY <1>7 DEF TerminateClient, WorkflowRaises, Active
  <2>3. UNCHANGED <<violators, overlap>>
    BY <1>7 DEF TerminateClient, WorkflowRaises
  <2> QED
    BY <2>1, <2>2, <2>3
<1>8. CASE Report
  <2>1. /\ attempt \in Attempts /\ worker[attempt] = "exited"
        /\ UNCHANGED <<worker, violators, overlap>>
    BY <1>8 DEF Report, PhaseInv
  <2>2. PICK status : /\ Named # {} => status # "passed"
                      /\ Enter([status |-> status, by |-> execution.by,
                                actual |-> attempt, blamed |-> Named])
    BY <1>8 DEF Report
  <2>3. \A a \in Attempts \ {attempt} : entry'[a] = entry[a]
    BY <2>2 DEF Enter
  <2>4. entry'[attempt] = [status |-> status, by |-> execution.by,
                           actual |-> attempt, blamed |-> Named]
    BY <2>1, <2>2 DEF Enter
  <2>5. Undisturbed(attempt) => execution.by = attempt /\ (Named = {} => attempt \notin violators)
    BY <1>8 DEF Report, ResultInv, OwnLinesInv, Quiet, Named, File
  <2> QED
    BY <2>1, <2>2, <2>3, <2>4, <2>5
<1>9. CASE DeadlineExpires \/ RemoveContainer \/ RemoveFails \/ ReadResult \/ WorkflowReturns
           \/ HostDies
  BY <1>9 DEF DeadlineExpires, RemoveContainer, RemoveFails, ReadResult, WorkflowReturns,
     HostDies, Alive, Active
<1> QED
  BY <1>1, <1>2, <1>3, <1>4, <1>5, <1>6, <1>7, <1>8, <1>9 DEF Next, Harness, Workflow, User

LEMMA ContainerStep == ASSUME IInv, TypeOK', Next PROVE ContainerInv'
<1> USE DEF IInv, ContainerInv, QuietInv, Quiet, Undisturbed, TypeOK, Alive, Active
<1>1. CASE SetupFails \/ \E m \in Modes, d \in Deadlines : Start(m, d)
  BY <1>1 DEF SetupFails, Start
<1>2. ASSUME NEW a \in Attempts, CreateContainer(a) PROVE ContainerInv'
  BY <1>2 DEF CreateContainer
<1>3. ASSUME NEW a \in Attempts, ClientFails(a) \/ StartGateway(a) PROVE ContainerInv'
  BY <1>3 DEF ClientFails, StartGateway
<1>4. ASSUME NEW a \in Attempts, Exit(a) PROVE ContainerInv'
  BY <1>4 DEF Exit
<1>5. ASSUME NEW a \in Attempts, NEW f \in File, LogViolation(a, f) PROVE ContainerInv'
  BY <1>5 DEF LogViolation
<1>6. ASSUME NEW a \in Attempts, NEW status \in Verdict, WriteResult(a, status)
      PROVE  ContainerInv'
  BY <1>6 DEF WriteResult
<1>7. CASE WaitReturns \/ DeadlineExpires \/ RemoveFails \/ ReadResult
  BY <1>7 DEF WaitReturns, DeadlineExpires, RemoveFails, ReadResult, Enter
<1>8. CASE RemoveContainer
  BY <1>8 DEF RemoveContainer
<1>9. CASE RemoveHangs \/ TerminateClient \/ ReadFails \/ ReportTimeout \/ Report
           \/ ReportUnwritten \/ WorkflowRaises \/ HostDies
  BY <1>9, Leaves
<1>10. CASE WorkflowReturns
  BY <1>10 DEF WorkflowReturns, InProcess
<1> QED
  BY <1>1, <1>2, <1>3, <1>4, <1>5, <1>6, <1>7, <1>8, <1>9, <1>10
     DEF Next, Harness, Workflow, User

(* An attempt is left with its workflow gone, or the workflow is lost.     *)
LEMMA NothingLeftStep == ASSUME IInv, TypeOK', Next PROVE NothingLeftRunning'
<1> USE DEF IInv, NothingLeftRunning, Undisturbed, TypeOK, Alive, Active
<1>1. CASE SetupFails
  BY <1>1 DEF SetupFails
<1>2. ASSUME NEW m \in Modes, NEW d \in Deadlines, Start(m, d) PROVE NothingLeftRunning'
  BY <1>2 DEF Start
<1>3. ASSUME NEW a \in Attempts, CreateContainer(a) PROVE NothingLeftRunning'
  BY <1>3 DEF CreateContainer
<1>4. ASSUME NEW a \in Attempts, ClientFails(a) \/ StartGateway(a) \/ Exit(a)
      PROVE  NothingLeftRunning'
  BY <1>4 DEF ClientFails, StartGateway, Exit
<1>5. ASSUME NEW a \in Attempts, NEW f \in File, LogViolation(a, f) PROVE NothingLeftRunning'
  BY <1>5 DEF LogViolation
<1>6. ASSUME NEW a \in Attempts, NEW status \in Verdict, WriteResult(a, status)
      PROVE  NothingLeftRunning'
  BY <1>6 DEF WriteResult
<1>7. CASE WaitReturns
  BY <1>7 DEF WaitReturns, ContainerInv, Quiet, Enter
<1>8. CASE DeadlineExpires \/ RemoveFails \/ RemoveHangs
  BY <1>8 DEF DeadlineExpires, RemoveFails, RemoveHangs, Enter
<1>9. CASE RemoveContainer
  BY <1>9 DEF RemoveContainer
<1>10. CASE TerminateClient
  BY <1>10 DEF TerminateClient, ContainerInv, PhaseInv, Quiet, Enter
<1>11. CASE ReadResult \/ ReadFails \/ ReportTimeout \/ Report \/ ReportUnwritten
  BY <1>11 DEF ReadResult, ReadFails, ReportTimeout, Report, ReportUnwritten, PhaseInv, Enter
<1>12. CASE WorkflowReturns \/ WorkflowRaises
  BY <1>12 DEF WorkflowReturns, WorkflowRaises, InProcess, Enter
<1>13. CASE HostDies
  BY <1>13 DEF HostDies
<1> QED
  BY <1>1, <1>2, <1>3, <1>4, <1>5, <1>6, <1>7, <1>8, <1>9, <1>10, <1>11, <1>12, <1>13
     DEF Next, Harness, Workflow, User

(* An attempt that finds a workflow alive comes after a lost one.          *)
LEMMA OverlapStep == ASSUME IInv, TypeOK', Next PROVE OverlapInv'
<1> USE DEF IInv, OverlapInv, TypeOK
<1>1. lost \subseteq lost'
  BY DEF Next, Harness, Workflow, User, SetupFails, Start, CreateContainer, ClientFails,
     StartGateway, Exit, LogViolation, WriteResult, WaitReturns, DeadlineExpires,
     RemoveContainer, RemoveFails, RemoveHangs, TerminateClient, ReadResult, ReadFails,
     ReportTimeout, Report, ReportUnwritten, WorkflowReturns, WorkflowRaises, HostDies
<1>2. CASE UNCHANGED overlap
  BY <1>1, <1>2
<1>3. ASSUME NEW m \in Modes, NEW d \in Deadlines, Start(m, d) PROVE OverlapInv'
  <2>1. /\ attempt' \in Attempts /\ lost' = lost /\ host = "idle"
        /\ overlap'[attempt'] = Alive
        /\ \A a \in Attempts \ {attempt'} : overlap'[a] = overlap[a]
    BY <1>3 DEF Start
  <2>2. ASSUME NEW a \in Alive PROVE \E c \in lost : c < attempt'
    <3>1. a \in Attempts /\ a < attempt'
      BY <1>3, <2>2, AttemptAssumption DEF Start, FreshInv, Alive, Active, Attempts, Nobody
    <3>2. a \in lost \/ overlap[a] # {}
      BY <2>1, <2>2 DEF NothingLeftRunning, Undisturbed
    <3>3. CASE a \in lost
      BY <3>1, <3>3
    <3>4. CASE overlap[a] # {}
      <4>1. PICK c \in lost : c < a
        BY <3>1, <3>4
      <4> QED
        BY <3>1, <4>1, <2>1 DEF Attempts
    <3> QED
      BY <3>2, <3>3, <3>4
  <2> QED
    BY <2>1, <2>2
<1> QED
  BY <1>2, <1>3
     DEF Next, Harness, Workflow, User, SetupFails, CreateContainer, ClientFails,
         StartGateway, Exit, LogViolation, WriteResult, WaitReturns, DeadlineExpires,
         RemoveContainer, RemoveFails, RemoveHangs, TerminateClient, ReadResult, ReadFails,
         ReportTimeout, Report, ReportUnwritten, WorkflowReturns, WorkflowRaises, HostDies

LEMMA NextInv == IInv /\ [Next]_vars => IInv'
<1> SUFFICES ASSUME IInv, [Next]_vars PROVE IInv'
  OBVIOUS
<1>1. TypeOK'
  BY NextType DEF IInv
<1>2. CASE Next
  BY <1>1, <1>2, FreshStep, PhaseStep, SilentStep, QuietStep, ResultStep, OwnLinesStep,
     ClearedStep, PassedStep, ContainerStep, NothingLeftStep, OverlapStep DEF IInv
<1>3. CASE UNCHANGED vars
  BY <1>1, <1>3
     DEF IInv, FreshInv, PhaseInv, SilentInv, QuietInv, ResultInv, OwnLinesInv, ClearedInv,
         PassedInv, ContainerInv, NothingLeftRunning, OverlapInv, Quiet, Undisturbed, Alive, Active
<1> QED
  BY <1>2, <1>3

LEMMA Invariance == Spec => []IInv
  BY InitInv, NextInv, PTL DEF Spec
-----------------------------------------------------------------------------
(* The theorems.                                                           *)

(* A passed entry of an undisturbed attempt reports the attempt's own      *)
(* execution, and its workflow never logged a violation.                   *)
THEOREM PassedCorrect == Spec => []PassedOnItsOwn
<1>1. IInv => PassedOnItsOwn
  BY DEF IInv, PassedInv, PassedOnItsOwn
<1> QED
  BY <1>1, Invariance, PTL

(* An attempt ends with its workflow gone, but for the named exceptions.   *)
THEOREM NothingLeftCorrect == Spec => []NothingLeftRunning
<1>1. IInv => NothingLeftRunning
  BY DEF IInv
<1> QED
  BY <1>1, Invariance, PTL

(* Two workflows write the files of a case at once only after an attempt   *)
(* lost its container.                                                     *)
THEOREM AloneCorrect == Spec => []AloneUnlessLost
<1>1. ASSUME IInv PROVE AloneUnlessLost
  <2> SUFFICES ASSUME NEW a \in Alive, NEW b \in Alive, a < b PROVE \E c \in lost : c <= a
    BY DEF AloneUnlessLost
  <2>1. a \in Attempts /\ b \in Attempts /\ b <= attempt /\ attempt \in Nat
    BY <1>1, AttemptAssumption DEF IInv, TypeOK, FreshInv, Alive, Active, Attempts, Nobody
  <2>2. a # attempt
    BY <2>1 DEF Attempts
  <2>3. a \in lost \/ overlap[a] # {}
    BY <1>1, <2>2 DEF IInv, NothingLeftRunning, Undisturbed
  <2>4. CASE a \in lost
    BY <2>1, <2>4 DEF Attempts
  <2>5. CASE overlap[a] # {}
    <3>1. PICK c \in lost : c < a
      BY <1>1, <2>1, <2>5 DEF IInv, OverlapInv
    <3> QED
      BY <1>1, <2>1, <3>1 DEF IInv, TypeOK, Attempts
  <2> QED
    BY <2>3, <2>4, <2>5
<1> QED
  BY <1>1, Invariance, PTL

(* What an undisturbed attempt is blamed for is its own, or was left in a  *)
(* file that nobody clears.                                                *)
THEOREM BlameCorrect == Spec => BlamesLeftoversOnly
<1> DEFINE Blame(a) ==
      entry'[a] # entry[a] /\ entry'[a].by # Nobody /\ Undisturbed(a) =>
        entry'[a].blamed \subseteq
          {a} \cup named["artifacts"] \cup
          (IF mode = "inprocess" THEN named["result"] ELSE {})
<1>1. ASSUME IInv, [Next]_vars, NEW a \in Attempts PROVE Blame(a)
  <2> USE DEF IInv, TypeOK
  <2>1. CASE Report
    <3>1. PICK status : entry' = [entry EXCEPT ![attempt] =
                          [status |-> status, by |-> execution.by,
                           actual |-> attempt, blamed |-> Named]]
      BY <2>1 DEF Report, Enter
    <3>2. entry'[attempt].blamed = Named /\ (a # attempt => entry'[a] = entry[a])
      BY <1>1, <2>1, <3>1 DEF Report
    <3>3. Undisturbed(attempt) =>
            Named \subseteq {attempt} \cup named["artifacts"] \cup
                            (IF mode = "inprocess" THEN named["result"] ELSE {})
      BY <1>1, <2>1 DEF Report, ClearedInv, PhaseInv, Quiet, Named, File
    <3> QED
      BY <3>2, <3>3
  <2>2. CASE ReportTimeout \/ ReportUnwritten
    <3>1. PICK e : e.blamed = {} /\ entry' = [entry EXCEPT ![attempt] = e]
      BY <2>2 DEF ReportTimeout, ReportUnwritten, Enter, Timeout
    <3> QED
      BY <3>1
  <2>3. CASE SetupFails \/ WaitReturns \/ RemoveHangs \/ TerminateClient \/ ReadFails
             \/ WorkflowRaises
    <3>1. \/ entry' = entry
          \/ \E b, e : e.by = Nobody /\ entry' = [entry EXCEPT ![b] = e]
      BY <2>3 DEF SetupFails, WaitReturns, RemoveHangs, TerminateClient, ReadFails,
         WorkflowRaises, Enter, Failure, Timeout, NoEntry
    <3> QED
      BY <1>1, <3>1
  <2>4. CASE UNCHANGED entry
    BY <2>4
  <2> QED
    BY <1>1, <2>1, <2>2, <2>3, <2>4
       DEF Next, Harness, Workflow, User, Start, CreateContainer, ClientFails, StartGateway,
           Exit, LogViolation, WriteResult, DeadlineExpires, RemoveContainer, RemoveFails,
           ReadResult, WorkflowReturns, HostDies
<1>2. IInv /\ [Next]_vars => [\A a \in Attempts : Blame(a)]_vars
  BY <1>1
<1> QED
  BY <1>2, Invariance, PTL DEF Spec, BlamesLeftoversOnly
-----------------------------------------------------------------------------
(* What ends with the deadline. An attempt under way has no entry yet.     *)
OpenInv == host # "idle" => entry[attempt] = NoEntry

LEMMA OpenStep == ASSUME IInv, OpenInv, [Next]_vars PROVE OpenInv'
<1> USE DEF OpenInv
<1>1. ASSUME NEW m \in Modes, NEW d \in Deadlines, Start(m, d) PROVE OpenInv'
  BY <1>1, AttemptAssumption DEF Start, IInv, FreshInv, TypeOK, Attempts, Nobody
<1>2. CASE UNCHANGED <<attempt, entry>> /\ (host = "idle" => host' = "idle")
  BY <1>2
<1>3. CASE host' = "idle"
  BY <1>3
<1>4. [Next]_vars => \/ \E m \in Modes, d \in Deadlines : Start(m, d)
                     \/ UNCHANGED <<attempt, entry>> /\ (host = "idle" => host' = "idle")
                     \/ host' = "idle"
  BY DEF Next, Harness, Workflow, User, SetupFails, CreateContainer, ClientFails,
     StartGateway, Exit, LogViolation, WriteResult, WaitReturns, DeadlineExpires,
     RemoveContainer, RemoveFails, RemoveHangs, TerminateClient, ReadResult, ReadFails,
     ReportTimeout, Report, ReportUnwritten, WorkflowReturns, WorkflowRaises, HostDies, Enter, InProcess
<1> QED
  BY <1>1, <1>2, <1>3, <1>4

(* An attempt whose deadline expired is reported as a timeout, or not at   *)
(* all when the harness dies, unless podman hangs when it is told to       *)
(* remove the container: that is the one case in which it is not.          *)
THEOREM DeadlineWithoutHangs == Spec /\ [][~RemoveHangs]_vars => DeadlineIsTimeout
<1>1. Init => OpenInv
  BY DEF Init, OpenInv
<1>2. ASSUME IInv, OpenInv, Next, ~RemoveHangs,
             host \in {"removing", "terminating"}, host' = "idle"
      PROVE  entry'[attempt].status \in {"none", "timeout"}
  <2>1. TerminateClient \/ HostDies
    BY <1>2 DEF Next, Harness, Workflow, User, SetupFails, Start, CreateContainer, ClientFails,
       StartGateway, Exit, LogViolation, WriteResult, WaitReturns, DeadlineExpires,
       RemoveContainer, RemoveFails, ReadResult, ReadFails, ReportTimeout, Report,
       ReportUnwritten, WorkflowReturns, WorkflowRaises, InProcess
  <2>2. CASE TerminateClient
    BY <1>2, <2>2 DEF TerminateClient, Enter, Timeout, IInv, TypeOK
  <2>3. CASE HostDies
    BY <1>2, <2>3 DEF HostDies, OpenInv, NoEntry
  <2> QED
    BY <2>1, <2>2, <2>3
<1>3. IInv /\ OpenInv /\ [Next]_vars /\ [~RemoveHangs]_vars =>
        [(host \in {"removing", "terminating"} /\ host' = "idle") =>
           entry'[attempt].status \in {"none", "timeout"}]_vars
  BY <1>2
<1>4. IInv /\ OpenInv /\ [Next]_vars => OpenInv'
  BY OpenStep
<1> QED
  BY <1>1, <1>3, <1>4, InitInv, NextInv, PTL DEF Spec, DeadlineIsTimeout
-----------------------------------------------------------------------------
(* RunCase implements RunContract.                                         *)

LEMMA ContractInitially == Init => Contract!ContractInit
<1> SUFFICES ASSUME Init PROVE Contract!ContractInit
  OBVIOUS
<1>1. attempt = 0 /\ UnderWay = Nobody
  BY DEF Init, UnderWay, Nobody
<1>2. Answers = [a \in Attempts |-> Contract!None]
  BY DEF Init, Answers, NoEntry, Contract!None
<1>3. Alive = {} /\ violators = {} /\ lost = {} /\ overlap = [a \in Attempts |-> {}]
  BY DEF Init, Alive, Active
<1> QED
  BY <1>1, <1>2, <1>3 DEF Contract!ContractInit

LEMMA UnderWayIs ==
  ASSUME TypeOK
  PROVE  /\ attempt \in Nat /\ Nobody \notin Attempts
         /\ (UnderWay = Nobody <=> host = "idle")
         /\ host # "idle" => UnderWay = attempt /\ attempt \in Attempts
BY AttemptAssumption DEF TypeOK, UnderWay, Attempts, Nobody

LEMMA BeginStep ==
  ASSUME IInv, IInv', NEW m \in Modes, NEW d \in Deadlines, Start(m, d)
  PROVE  Contract!Begin
<1>1. attempt' = attempt + 1 /\ attempt' \in Attempts /\ host = "idle" /\ host' # "idle"
  BY AttemptAssumption DEF Start, IInv, TypeOK, Attempts, Nobody
<1>2. UnderWay = Nobody /\ UnderWay' = attempt'
  BY <1>1 DEF UnderWay
<1>3. entry[attempt'] = NoEntry /\ attempt' \notin Alive
  BY <1>1, AttemptAssumption DEF IInv, FreshInv, TypeOK, Attempts, Nobody, Alive, Active
<1>4. Answers[attempt'] = Contract!None
  BY <1>1, <1>3 DEF Answers, NoEntry, Contract!None
<1>5. Alive' = Alive \cup {attempt'}
  <2>1. PICK w \in {"starting", "created"} : worker' = [worker EXCEPT ![attempt'] = w]
    BY DEF Start
  <2>2. worker'[attempt'] = w /\ \A a \in Attempts \ {attempt'} : worker'[a] = worker[a]
    BY <1>1, <2>1 DEF IInv, TypeOK
  <2> QED
    BY <1>1, <2>2 DEF Alive, Active
<1>6. overlap' = [overlap EXCEPT ![attempt'] = Alive] /\ overlap'[attempt'] = Alive
  BY <1>1 DEF Start, IInv, TypeOK
<1>7. \A b \in Alive : \E a \in lost : a <= b
  <2> SUFFICES ASSUME NEW b \in Alive PROVE \E a \in lost : a <= b
    OBVIOUS
  <2>1. b \in Attempts /\ lost \subseteq Attempts
    BY DEF IInv, TypeOK, Alive, Active
  <2>2. b \in lost \/ \E a \in lost : a < b
    BY <1>1, <2>1 DEF IInv, NothingLeftRunning, Undisturbed, OverlapInv
  <2> QED
    BY <2>1, <2>2 DEF Attempts
<1>8. UNCHANGED <<Answers, violators, lost>>
  BY DEF Start, Answers
<1> QED
  BY <1>1, <1>2, <1>3, <1>4, <1>5, <1>6, <1>7, <1>8 DEF Contract!Begin

LEMMA DeclineStep ==
  ASSUME IInv, SetupFails
  PROVE  Contract!Decline
<1>1. attempt' = attempt + 1 /\ attempt' \in Attempts /\ host = "idle"
  BY AttemptAssumption DEF SetupFails, IInv, TypeOK, Attempts, Nobody
<1>2. UNCHANGED <<Alive, violators, lost, overlap, host>>
  BY DEF SetupFails, Alive, Active
<1>3. UnderWay = Nobody /\ UnderWay' = Nobody
  BY <1>1, <1>2 DEF UnderWay
<1>4. entry[attempt'] = NoEntry
  BY <1>1, AttemptAssumption DEF IInv, FreshInv, TypeOK, Attempts, Nobody
<1>5. Answers[attempt'] = Contract!None
  BY <1>1, <1>4 DEF Answers, NoEntry, Contract!None
<1>6. Answers' = [Answers EXCEPT ![attempt'] = [status |-> "failed", by |-> Nobody]]
  BY <1>1 DEF SetupFails, Answers, NoEntry, IInv, TypeOK
<1> QED
  BY <1>1, <1>2, <1>3, <1>5, <1>6 DEF Contract!Decline

(* What a workflow does, alone or by the hand of podman or its harness.    *)
LEMMA WorkStep ==
  ASSUME IInv, NEW a \in Attempts,
         \/ CreateContainer(a) \/ ClientFails(a) \/ Exit(a)
         \/ \E f \in File : LogViolation(a, f)
         \/ a = attempt /\ WorkflowReturns
         \/ a = cid /\ RemoveContainer /\ cid \in Alive
  PROVE  Contract!Work(a)
<1>1. a \in Alive
  BY DEF CreateContainer, ClientFails, Exit, LogViolation, WorkflowReturns, Alive, Active
<1>2. Alive' \in {Alive, Alive \ {a}}
  <2>1. worker' = worker \/ \E w \in Worker : worker' = [worker EXCEPT ![a] = w]
    BY DEF CreateContainer, ClientFails, Exit, LogViolation, WorkflowReturns, RemoveContainer, Worker
  <2> QED
    BY <1>1, <2>1 DEF Alive, Active, IInv, TypeOK
<1>3. violators' \in {violators, violators \cup {a}}
  BY DEF CreateContainer, ClientFails, Exit, LogViolation, WorkflowReturns, RemoveContainer
<1>4. lost' \in {lost} \cup (IF UnderWay = Nobody THEN {} ELSE {lost \cup {a}})
  BY UnderWayIs DEF CreateContainer, ClientFails, Exit, LogViolation, WorkflowReturns,
     RemoveContainer, IInv
<1>5. UNCHANGED <<attempt, Answers, overlap>>
  BY DEF CreateContainer, ClientFails, Exit, LogViolation, WorkflowReturns, RemoveContainer, Answers
<1>6. UNCHANGED UnderWay
  BY DEF CreateContainer, ClientFails, Exit, LogViolation, WorkflowReturns, RemoveContainer,
     UnderWay, InProcess
<1> QED
  BY <1>1, <1>2, <1>3, <1>4, <1>5, <1>6 DEF Contract!Work

(* There is a result to be read once a container has written its own.      *)
WrittenInv ==
  /\ \A a \in Attempts : worker[a] = "written" => resultFile.status # "none"
  /\ host # "idle" /\ mode = "container" /\ worker[attempt] = "exited" =>
       resultFile.status # "none"
  /\ host = "reporting" => execution.status # "none"

LEMMA WrittenStep == ASSUME IInv, IInv', WrittenInv, [Next]_vars PROVE WrittenInv'
<1> USE DEF WrittenInv, IInv, TypeOK
<1>1. ASSUME NEW m \in Modes, NEW d \in Deadlines, Start(m, d) PROVE WrittenInv'
  <2>1. PICK w \in {"starting", "created"} : worker' = [worker EXCEPT ![attempt'] = w]
    BY <1>1 DEF Start
  <2> QED
    BY <1>1, <2>1 DEF Start
<1>2. ASSUME NEW a \in Attempts, NEW status \in Verdict, WriteResult(a, status) PROVE WrittenInv'
  BY <1>2 DEF WriteResult, Verdict
<1>3. ASSUME NEW a \in Attempts, Exit(a) PROVE WrittenInv'
  BY <1>3 DEF Exit, InProcess, PhaseInv, FreshInv, Active
<1>4. ASSUME NEW a \in Attempts, CreateContainer(a) \/ ClientFails(a) \/ StartGateway(a)
      PROVE  WrittenInv'
  BY <1>4 DEF CreateContainer, ClientFails, StartGateway
<1>5. CASE WorkflowReturns
  BY <1>5 DEF WorkflowReturns, InProcess
<1>6. CASE ReadResult
  BY <1>6 DEF ReadResult, PhaseInv
<1>7. CASE host' = "idle" /\ UNCHANGED resultFile
             /\ (\A a \in Attempts : worker'[a] = "written" => worker[a] = "written")
  BY <1>7
<1>8. CASE UNCHANGED <<worker, resultFile, execution, mode, attempt>> /\ host # "idle"
             /\ host' \in {host, "reading", "removing", "terminating"}
  BY <1>8
<1>9. CASE RemoveContainer
  BY <1>9 DEF RemoveContainer
<1>10. WorkflowRaises \/ TerminateClient \/ HostDies =>
         host' = "idle" /\ UNCHANGED resultFile
           /\ (\A a \in Attempts : worker'[a] = "written" => worker[a] = "written")
  BY DEF WorkflowRaises, TerminateClient, HostDies, Enter
<1>11. SetupFails \/ RemoveHangs \/ ReadFails \/ ReportTimeout \/ Report \/ ReportUnwritten =>
         host' = "idle" /\ UNCHANGED resultFile
           /\ (\A a \in Attempts : worker'[a] = "written" => worker[a] = "written")
  BY DEF SetupFails, RemoveHangs, ReadFails, ReportTimeout, Report, ReportUnwritten, Enter
<1>12. CASE WaitReturns
  BY <1>12 DEF WaitReturns, Enter
<1>13. DeadlineExpires \/ RemoveFails =>
         UNCHANGED <<worker, resultFile, execution, mode, attempt>> /\ host # "idle"
             /\ host' \in {host, "reading", "removing", "terminating"}
  BY DEF DeadlineExpires, RemoveFails
<1>14. CASE UNCHANGED <<worker, resultFile, execution, mode, attempt, host>>
  BY <1>14
<1>15. (\E a \in Attempts, f \in File : LogViolation(a, f)) \/ UNCHANGED vars
         => UNCHANGED <<worker, resultFile, execution, mode, attempt, host>>
  BY DEF LogViolation
<1> QED
  BY <1>1, <1>2, <1>3, <1>4, <1>5, <1>6, <1>7, <1>8, <1>9, <1>10, <1>11, <1>12, <1>13, <1>14, <1>15
     DEF Next, Harness, Workflow, User

(* An attempt is over, with an entry or without.                           *)
Over ==
  /\ host # "idle" /\ host' = "idle"
  /\ UNCHANGED <<attempt, overlap, violators>>
  /\ Alive' \in {Alive, Alive \ {attempt}}
  /\ lost' \in {lost, lost \cup {attempt}}

LEMMA LeaveStep ==
  ASSUME IInv, IInv', Over
  PROVE  Contract!Leave
<1>1. UnderWay = attempt /\ UnderWay # Nobody /\ UnderWay' = Nobody
  BY UnderWayIs DEF Over, IInv, UnderWay
<1>2. attempt \in Alive' /\ overlap[attempt] = {} => attempt \in lost'
  BY DEF Over, IInv, NothingLeftRunning, Undisturbed
<1> QED
  BY <1>1, <1>2 DEF Over, Contract!Leave, Contract!Disturbed

LEMMA EnterStep ==
  ASSUME IInv, IInv', OpenInv, Over, NEW e \in Entry, e.status # "none",
         entry' = [entry EXCEPT ![attempt] = e],
         Undisturbed(attempt) => e.by \in {attempt, Nobody},
         e.status = "passed" => attempt \notin Alive
  PROVE  Contract!ContractNext
<1>1. UnderWay = attempt /\ attempt \in Attempts
  BY UnderWayIs DEF Over, IInv
<1>2. e.status \in {"passed", "failed", "timeout"} /\ e.by \in Attempts \cup {Nobody}
  BY DEF Entry, Verdict
<1>3. Answers[UnderWay] = Contract!None
  BY <1>1 DEF OpenInv, Over, Answers, NoEntry, Contract!None
<1>4. Answers' = [Answers EXCEPT ![UnderWay] = [status |-> e.status, by |-> e.by]]
  BY <1>1 DEF Answers, IInv, TypeOK
<1>5. entry'[attempt] = e
  BY <1>1 DEF IInv, TypeOK
<1>6. e.status = "passed" /\ overlap[attempt] = {} => e.by = attempt /\ attempt \notin violators
  BY <1>1, <1>5 DEF Over, IInv, PassedInv, Undisturbed
<1>7. Contract!Enter(e.status, e.by)
  BY <1>1, <1>3, <1>4, <1>6, LeaveStep DEF Contract!Enter, Contract!Disturbed, Undisturbed
<1> QED
  BY <1>2, <1>7 DEF Contract!ContractNext

(* The steps that make an entry.                                           *)
LEMMA EntrySteps ==
  ASSUME IInv, IInv', OpenInv, WrittenInv,
         \/ WaitReturns /\ host' = "idle"
         \/ RemoveHangs \/ TerminateClient \/ ReadFails \/ WorkflowRaises
         \/ ReportTimeout \/ Report \/ ReportUnwritten
  PROVE  Contract!ContractNext
<1>1. PICK e \in Entry : Enter(e) /\ e.status # "none"
                         /\ (Undisturbed(attempt) => e.by \in {attempt, Nobody})
                         /\ (e.status = "passed" => attempt \notin Alive)
  <2>1. CASE (WaitReturns /\ host' = "idle") \/ RemoveHangs \/ ReadFails
    <3>1. Enter(Failure)
      BY <2>1 DEF WaitReturns, RemoveHangs, ReadFails
    <3> QED
      BY <3>1, EntryTypes DEF IInv, Failure
  <2>2. CASE TerminateClient
    BY <2>2, EntryTypes DEF TerminateClient, IInv, Timeout
  <2>3. CASE WorkflowRaises
    <3>1. PICK e \in {Failure, [Failure EXCEPT !.blamed = {}], Timeout} : Enter(e)
      BY <2>3 DEF WorkflowRaises
    <3>2. e \in Entry /\ e.status \in {"failed", "timeout"} /\ e.by = Nobody
      BY <3>1, EntryTypes DEF IInv, Failure, Timeout
    <3> QED
      BY <3>1, <3>2
  <2>4. CASE ReportTimeout \/ Report \/ ReportUnwritten
    <3>1. /\ attempt \in Attempts /\ attempt \notin Alive /\ host = "reporting"
          /\ Undisturbed(attempt) => execution.by = attempt
          /\ execution.status \in Verdict
      BY <2>4 DEF ReportTimeout, Report, ReportUnwritten, IInv, PhaseInv, ResultInv, Quiet, TypeOK,
         Execution, WrittenInv, Alive, Active
    <3>2. PICK e \in Entry : Enter(e) /\ e.status \in Verdict /\ e.by = execution.by
      <4>1. CASE ReportTimeout
        BY <4>1, EntryTypes DEF ReportTimeout, IInv, Timeout, Verdict
      <4>2. CASE Report
        <5>1. PICK status \in {execution.status, "failed", "timeout"} :
                Enter([status |-> status, by |-> execution.by, actual |-> attempt,
                       blamed |-> Named])
          BY <4>2 DEF Report
        <5>2. [status |-> status, by |-> execution.by, actual |-> attempt, blamed |-> Named]
                \in Entry
          BY <3>1, <5>1, EntryTypes DEF IInv, TypeOK, Entry, Execution, Verdict
        <5> QED
          BY <3>1, <5>1, <5>2 DEF Verdict
      <4>3. CASE ReportUnwritten
        <5>1. [status |-> "failed", by |-> execution.by, actual |-> actualFile, blamed |-> {}]
                \in Entry
          BY DEF IInv, TypeOK, Entry, Execution, Verdict
        <5> QED
          BY <4>3, <5>1 DEF ReportUnwritten, Verdict
      <4> QED
        BY <2>4, <4>1, <4>2, <4>3
    <3> QED
      BY <3>1, <3>2 DEF Verdict
  <2> QED
    BY <2>1, <2>2, <2>3, <2>4
<1>2. Over
  <2>1. host # "idle" /\ host' = "idle"
    BY <1>1 DEF Enter, WaitReturns, RemoveHangs, TerminateClient, ReadFails, WorkflowRaises,
       ReportTimeout, Report, ReportUnwritten, InProcess
  <2>2. UNCHANGED <<attempt, overlap, violators>> /\ lost' \in {lost, lost \cup {attempt}}
    BY DEF WaitReturns, RemoveHangs, TerminateClient, ReadFails, WorkflowRaises,
       ReportTimeout, Report, ReportUnwritten
  <2>3. \/ worker' = worker
        \/ \E w \in {"crashed", "killed"} : worker' = [worker EXCEPT ![attempt] = w]
    BY DEF WaitReturns, RemoveHangs, TerminateClient, ReadFails, WorkflowRaises,
       ReportTimeout, Report, ReportUnwritten
  <2>4. Alive' \in {Alive, Alive \ {attempt}}
    BY <2>1, <2>3 DEF Alive, Active, IInv, TypeOK
  <2> QED
    BY <2>1, <2>2, <2>4 DEF Over
<1> QED
  BY <1>1, <1>2, EnterStep DEF Enter

LEMMA AbandonStep ==
  ASSUME IInv, IInv', HostDies
  PROVE  Contract!Abandon
<1>1. \/ worker' = worker
      \/ worker' = [worker EXCEPT ![attempt] = "killed"]
  BY DEF HostDies
<1>2. Alive' \in {Alive, Alive \ {attempt}}
  BY <1>1 DEF HostDies, Alive, Active, IInv, TypeOK
<1>3. Over
  BY <1>2 DEF HostDies, Over
<1> QED
  BY <1>3, LeaveStep DEF HostDies, Contract!Abandon, Answers

LEMMA LoseStep ==
  ASSUME IInv, RemoveFails
  PROVE  Contract!Lose
<1>1. UnderWay = attempt /\ UnderWay # Nobody /\ UNCHANGED UnderWay
  BY UnderWayIs DEF RemoveFails, IInv, UnderWay
<1> QED
  BY <1>1 DEF RemoveFails, Contract!Lose, Answers, Alive, Active

(* What the report does not show.                                          *)
LEMMA HiddenSteps ==
  ASSUME IInv,
         \/ \E a \in Attempts : StartGateway(a) \/ \E status \in Verdict : WriteResult(a, status)
         \/ WaitReturns /\ host' # "idle"
         \/ DeadlineExpires \/ ReadResult
         \/ RemoveContainer /\ cid \notin Alive
         \/ UNCHANGED vars
  PROVE  UNCHANGED Contract!contractVars
<1>1. Alive' = Alive
  <2>1. ASSUME NEW a \in Attempts, StartGateway(a) PROVE Alive' = Alive
    BY <2>1 DEF StartGateway, Alive, Active, IInv, TypeOK
  <2>2. ASSUME NEW a \in Attempts, NEW status \in Verdict, WriteResult(a, status)
        PROVE  Alive' = Alive
    BY <2>2 DEF WriteResult, Alive, Active, IInv, TypeOK
  <2>3. CASE UNCHANGED worker
    BY <2>3 DEF Alive, Active
  <2> QED
    BY <2>1, <2>2, <2>3 DEF WaitReturns, DeadlineExpires, ReadResult, RemoveContainer
<1>2. UNCHANGED <<attempt, violators, lost, overlap, Answers>>
  BY DEF StartGateway, WriteResult, WaitReturns, DeadlineExpires, ReadResult, RemoveContainer,
     Answers, Enter
<1>3. UNCHANGED UnderWay
  BY DEF StartGateway, WriteResult, WaitReturns, DeadlineExpires, ReadResult, RemoveContainer,
     UnderWay, Enter
<1> QED
  BY <1>1, <1>2, <1>3 DEF Contract!contractVars

LEMMA ContractSteps ==
  ASSUME IInv, IInv', OpenInv, WrittenInv, [Next]_vars
  PROVE  [Contract!ContractNext]_(Contract!contractVars)
<1>1. ASSUME NEW m \in Modes, NEW d \in Deadlines, Start(m, d) PROVE Contract!ContractNext
  BY <1>1, BeginStep DEF Contract!ContractNext
<1>2. CASE SetupFails
  BY <1>2, DeclineStep DEF Contract!ContractNext
<1>3. ASSUME NEW a \in Attempts,
             \/ CreateContainer(a) \/ ClientFails(a) \/ Exit(a)
             \/ \E f \in File : LogViolation(a, f)
      PROVE  Contract!ContractNext
  BY <1>3, WorkStep DEF Contract!ContractNext
<1>4. CASE WorkflowReturns
  <2>1. attempt \in Attempts
    BY <1>4 DEF WorkflowReturns, InProcess, IInv, TypeOK
  <2> QED
    BY <1>4, <2>1, WorkStep DEF Contract!ContractNext
<1>5. CASE RemoveContainer /\ cid \in Alive
  <2>1. cid \in Attempts
    BY <1>5 DEF Alive, Active
  <2> QED
    BY <1>5, <2>1, WorkStep DEF Contract!ContractNext
<1>6. CASE \/ WaitReturns /\ host' = "idle"
           \/ RemoveHangs \/ TerminateClient \/ ReadFails \/ WorkflowRaises
           \/ ReportTimeout \/ Report \/ ReportUnwritten
  BY <1>6, EntrySteps
<1>7. CASE HostDies
  BY <1>7, AbandonStep DEF Contract!ContractNext
<1>8. CASE RemoveFails
  BY <1>8, LoseStep DEF Contract!ContractNext
<1>9. CASE \/ \E a \in Attempts : StartGateway(a) \/ \E status \in Verdict : WriteResult(a, status)
           \/ WaitReturns /\ host' # "idle"
           \/ DeadlineExpires \/ ReadResult
           \/ RemoveContainer /\ cid \notin Alive
           \/ UNCHANGED vars
  BY <1>9, HiddenSteps
<1> QED
  BY <1>1, <1>2, <1>3, <1>4, <1>5, <1>6, <1>7, <1>8, <1>9 DEF Next, Harness, Workflow, User

(* RunCase implements the contract, for any number of attempts.            *)
THEOREM ReportIsKept == Spec => ReportKept
<1>1. Init => OpenInv /\ WrittenInv
  BY DEF Init, OpenInv, WrittenInv
<1>2. IInv /\ IInv' /\ OpenInv /\ WrittenInv /\ [Next]_vars => OpenInv' /\ WrittenInv'
  BY OpenStep, WrittenStep
<1>3. IInv /\ IInv' /\ OpenInv /\ WrittenInv /\ [Next]_vars
        => [Contract!ContractNext]_(Contract!contractVars)
  BY ContractSteps
<1> QED
  BY <1>1, <1>2, <1>3, ContractInitially, Invariance, PTL
     DEF Spec, ReportKept, Contract!ContractSpec
=============================================================================
