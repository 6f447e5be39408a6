------------------------- MODULE PrepareCaseProofs -------------------------
(* What holds of prepare-case for every set of items, every iteration      *)
(* limit and every cap on hosts.                                           *)
EXTENDS PrepareCase, FiniteSetTheorems, WellFoundedInduction, TLAPS

-----------------------------------------------------------------------------
(* Type correctness.                                                       *)

USE DEF fixtures, results, run, flags, capture, vars

LEMMA InitType == Init => TypeOK
<1> SUFFICES ASSUME Init PROVE TypeOK
  OBVIOUS
<1>1. 1 \in Iterations /\ 0 \in 0 .. MaxInvocations
  BY BoundAssumption DEF Iterations
<1>2. overwrite \in BOOLEAN /\ excluded \in BOOLEAN /\ warned \in BOOLEAN
  BY DEF Init
<1> QED
  BY <1>1, <1>2 DEF Init, TypeOK, Phase, Report, Status

(* What one pass may ask of its items stays within the types.              *)
LEMMA CaptureTypes ==
  ASSUME TypeOK, NEW reply
  PROVE  /\ Candidates \subseteq Item
         /\ Got(reply) \subseteq Fetched /\ Errors(reply) \subseteq Fetched
         /\ Superseded(reply) \subseteq Fetched
         /\ Fetched \subseteq Item
         /\ SkipsOf \subseteq Item \X SkipReason
         /\ FreshHosts \subseteq Host
<1>1. Candidates \subseteq Item
  BY DEF TypeOK, Candidates, Iterations
<1>2. Denied \subseteq Item /\ Kept \subseteq Item /\ Fetched \subseteq Item
  BY <1>1 DEF Denied, Kept, Fetched
<1>3. SkipsOf \subseteq Item \X SkipReason
  BY <1>2 DEF SkipsOf, SkipReason
<1>4. FreshHosts \subseteq Host
  BY <1>2, ItemAssumption DEF FreshHosts
<1> QED
  BY <1>1, <1>2, <1>3, <1>4 DEF Got, Errors, Superseded

LEMMA NextType == TypeOK /\ [Next]_vars => TypeOK'
<1> SUFFICES ASSUME TypeOK, [Next]_vars PROVE TypeOK'
  OBVIOUS
<1> USE BoundAssumption
<1>1. CASE Invoke
  <2>1. 1 \in Iterations /\ invocations' \in 0 .. MaxInvocations
    BY <1>1 DEF Invoke, Iterations, TypeOK
  <2>2. overwrite' \in BOOLEAN /\ excluded' \in BOOLEAN /\ warned' \in BOOLEAN
    BY <1>1 DEF Invoke, ClearIteration
  <2> QED
    BY <1>1, <2>1, <2>2 DEF TypeOK, Invoke, ClearIteration, Phase, Report, Status
<1>2. CASE ValidationBlocks \/ SkipRun \/ SetupFails \/ StartRun
  BY <1>2 DEF TypeOK, ValidationBlocks, SkipRun, SetupFails, StartRun, Finish, Phase, Report, Status
<1>3. CASE \E i \in Item : LogMiss(i) \/ LogRecordedError(i) \/ LogMentioned(i)
  BY <1>3 DEF TypeOK, LogMiss, LogRecordedError, LogMentioned
<1>4. CASE \E i \in Item : StopOnMiss(i)
  BY <1>4 DEF TypeOK, StopOnMiss, WriteReport, Phase, Report
<1>5. CASE WorkflowRaises \/ WorkflowReturns
  BY <1>5 DEF TypeOK, WorkflowRaises, WorkflowReturns, WriteReport, Phase, Report, Iterations
<1>6. CASE AcceptRun \/ BeginCapture \/ LimitReached \/ NothingCaptured \/ Abort
  BY <1>6 DEF TypeOK, AcceptRun, BeginCapture, LimitReached, NothingCaptured, Abort, Finish,
              Accepted, Phase, Status
<1>7. CASE \E reply \in [Fetched -> Reply] : CapturePass(reply)
  <2> PICK reply \in [Fetched -> Reply] : CapturePass(reply)
    BY <1>7
  <2>1. /\ content' \subseteq Item /\ failures' \subseteq Item /\ captured' \subseteq Item
        /\ skips' \subseteq Item \X SkipReason
    BY CaptureTypes DEF CapturePass, TypeOK, SkipReason
  <2>2. autoHosts' \subseteq Host /\ pc' \in Phase /\ status' \in Status
    BY CaptureTypes DEF CapturePass, AllowHosts, Finish, TypeOK, Phase, Status
  <2> QED
    BY <2>1, <2>2 DEF CapturePass, TypeOK
<1>8. CASE NextIteration
  <2>1. iteration' \in Iterations
    BY <1>8 DEF TypeOK, NextIteration, Iterations
  <2>2. warned' \in BOOLEAN
    BY <1>8 DEF NextIteration, ClearIteration
  <2> QED
    BY <1>8, <2>1, <2>2 DEF TypeOK, NextIteration, ClearIteration, Phase, Report
<1>9. CASE AbortCapture
  <2>1. content' \subseteq Item
    BY <1>9, CaptureTypes DEF AbortCapture, WrittenAtOnce, TypeOK
  <2> QED
    BY <1>9, <2>1 DEF AbortCapture, Finish, TypeOK, Phase, Status
<1>10. CASE UNCHANGED vars
  BY <1>10 DEF TypeOK
<1> QED
  BY <1>1, <1>2, <1>3, <1>4, <1>5, <1>6, <1>7, <1>8, <1>9, <1>10 DEF Next, Harness, Environment

(* Every variable keeps its type, whatever the items and the bounds are.   *)
THEOREM TypeCorrect == Spec => []TypeOK
  BY InitType, NextType, PTL DEF Spec
-----------------------------------------------------------------------------
(* Recordings. Only a capture changes the fixtures.                        *)

LEMMA FixturesFrame ==
  ASSUME [Next]_vars
  PROVE  \/ UNCHANGED fixtures
         \/ \E reply \in [Fetched -> Reply] : CapturePass(reply)
         \/ AbortCapture
  BY DEF Next, Harness, Environment, Invoke, ValidationBlocks, SkipRun, SetupFails, StartRun,
         LogMiss, LogRecordedError, LogMentioned, StopOnMiss, WorkflowRaises, WorkflowReturns,
         AcceptRun,
         BeginCapture, NextIteration, LimitReached, NothingCaptured, Abort

(* A pass adds recordings, and without --overwrite only missing ones.      *)
LEMMA PassRecords ==
  ASSUME NEW reply, CapturePass(reply)
  PROVE  /\ \A i : Recorded(i) => Recorded(i)'
         /\ ~overwrite => \A i \in Fetched : ~Recorded(i)
         /\ \A i : i \notin Fetched => /\ i \in content' <=> i \in content
                                       /\ i \in failures' <=> i \in failures
<1>1. \A i : Recorded(i) => Recorded(i)'
  BY DEF CapturePass, Recorded
<1>2. ~overwrite => \A i \in Fetched : ~Recorded(i)
  BY DEF Fetched, Kept
<1>3. Got(reply) \subseteq Fetched /\ Errors(reply) \subseteq Fetched
  BY DEF Got, Errors
<1> QED
  BY <1>1, <1>2, <1>3 DEF CapturePass

LEMMA RecordedGrows ==
  ASSUME [Next]_vars, NEW i, Recorded(i)
  PROVE  Recorded(i)'
<1>1. CASE UNCHANGED fixtures
  BY <1>1 DEF Recorded
<1>2. CASE \E reply \in [Fetched -> Reply] : CapturePass(reply)
  BY <1>2, PassRecords
<1>3. CASE AbortCapture
  BY <1>3 DEF AbortCapture, Recorded
<1> QED
  BY <1>1, <1>2, <1>3, FixturesFrame

LEMMA RecordedStep ==
  ASSUME [Next]_vars, NEW i \in Item, Served(i) # "miss"
  PROVE  Served(i)' # "miss" /\ (~overwrite => Served(i)' = Served(i))
<1>1. Recorded(i) /\ Recorded(i)'
  BY RecordedGrows DEF Recorded, Served
<1>2. Served(i)' # "miss"
  BY <1>1 DEF Recorded, Served
<1>3. ASSUME ~overwrite PROVE Served(i)' = Served(i)
  <2>1. CASE UNCHANGED fixtures
    BY <2>1 DEF Served
  <2>2. CASE \E reply \in [Fetched -> Reply] : CapturePass(reply)
    <3> PICK reply : CapturePass(reply)
      BY <2>2
    <3>1. i \notin Fetched
      BY <1>1, <1>3, PassRecords
    <3> QED
      BY <3>1, PassRecords DEF Served
  <2>3. CASE AbortCapture
    <3>1. i \notin Fetched
      BY <1>1, <1>3 DEF Fetched, Kept, Recorded
    <3> QED
      BY <2>3, <3>1 DEF AbortCapture, WrittenAtOnce, Served
  <2> QED
    BY <2>1, <2>2, <2>3, FixturesFrame
<1> QED
  BY <1>2, <1>3

(* No capture, complete, failed or killed, loses a recording, and without  *)
(* --overwrite none changes the answer the fixtures give.                  *)
THEOREM RecordingsArePermanent == Spec => RecordedIsStable
<1>1. [Next]_vars => [\A i \in Item :
                        Served(i) # "miss" =>
                          /\ Served(i)' # "miss"
                          /\ ~overwrite => Served(i)' = Served(i)]_vars
  BY RecordedStep
<1> QED
  BY <1>1, PTL DEF Spec, RecordedIsStable

LEMMA ContentStep ==
  ASSUME [Next]_vars, NEW i \in Item, Served(i) = "content", Served(i)' # "content"
  PROVE  overwrite /\ KindOf[i] = "git"
<1>1. i \in content /\ i \notin failures
  BY DEF Served
<1>2. PICK reply \in [Fetched -> Reply] : CapturePass(reply)
  <2>1. ~UNCHANGED fixtures
    BY DEF fixtures, Served
  <2>2. ~AbortCapture
    BY <1>1 DEF AbortCapture, Served
  <2> QED
    BY <2>1, <2>2, FixturesFrame
<1>3. i \in Errors(reply)
  BY <1>1, <1>2 DEF CapturePass, Served
<1>4. i \in Fetched /\ KindOf[i] = "git"
  BY <1>1, <1>3 DEF Errors, Recorded
<1> QED
  BY <1>1, <1>4 DEF Fetched, Kept, Recorded

(* Content is hidden by a failed clone under --overwrite and by nothing    *)
(* else: where no repository is fetched, what is served stays served.      *)
THEOREM OnlyClonesHideContent ==
  /\ Spec => [][\A i \in Item :
                   Served(i) = "content" /\ Served(i)' # "content" =>
                     overwrite /\ KindOf[i] = "git"]_vars
  /\ (\A i \in Item : KindOf[i] # "git") => (Spec => ContentStaysServed)
<1>1. [Next]_vars => [\A i \in Item :
                        Served(i) = "content" /\ Served(i)' # "content" =>
                          overwrite /\ KindOf[i] = "git"]_vars
  BY ContentStep
<1>2. ASSUME \A i \in Item : KindOf[i] # "git"
      PROVE  [Next]_vars => [\A i \in Item : Served(i) = "content" => Served(i)' = "content"]_vars
  BY <1>2, ContentStep
<1>3. Spec => [][\A i \in Item :
                   Served(i) = "content" /\ Served(i)' # "content" =>
                     overwrite /\ KindOf[i] = "git"]_vars
  BY <1>1, PTL DEF Spec
<1>4. ASSUME \A i \in Item : KindOf[i] # "git" PROVE Spec => ContentStaysServed
  BY <1>2, <1>4, PTL DEF Spec, ContentStaysServed
<1> QED
  BY <1>3, <1>4
-----------------------------------------------------------------------------
(* Hosts.                                                                  *)

LEMMA FetchStep ==
  ASSUME [Next]_vars, NEW i \in Item, Served(i) = "miss", Served(i)' # "miss"
  PROVE  KindOf[i] = "koji" \/ HostOf[i] \in AllowedHosts \cup autoHosts
<1>1. i \in Fetched
  <2>1. CASE UNCHANGED fixtures
    BY <2>1 DEF Served
  <2>2. CASE \E reply \in [Fetched -> Reply] : CapturePass(reply)
    BY <2>2, PassRecords DEF Served
  <2>3. CASE AbortCapture
    BY <2>3 DEF AbortCapture, WrittenAtOnce, Served
  <2> QED
    BY <2>1, <2>2, <2>3, FixturesFrame
<1> QED
  BY <1>1 DEF Fetched, Denied

(* Hosts are only added, and only by a pass, until the next invocation.    *)
LEMMA HostsFrame ==
  ASSUME [Next]_vars
  PROVE  \/ autoHosts' = autoHosts
         \/ autoHosts' = {}
         \/ AllowHosts
  BY DEF Next, Harness, Environment, Invoke, ValidationBlocks, SkipRun, SetupFails, StartRun,
         LogMiss, LogRecordedError, LogMentioned, StopOnMiss, WorkflowRaises, WorkflowReturns,
         AcceptRun,
         BeginCapture, CapturePass, NextIteration, LimitReached, NothingCaptured, AbortCapture,
         Abort

LEMMA InitHosts == Init => HostsAreAllowed
  BY FS_EmptySet, BoundAssumption DEF Init, HostsAreAllowed

LEMMA NextHosts == TypeOK /\ HostsAreAllowed /\ [Next]_vars => HostsAreAllowed'
<1> SUFFICES ASSUME TypeOK, HostsAreAllowed, [Next]_vars PROVE HostsAreAllowed'
  OBVIOUS
<1>1. CASE autoHosts' = autoHosts
  BY <1>1 DEF HostsAreAllowed
<1>2. CASE autoHosts' = {}
  BY <1>2, FS_EmptySet, BoundAssumption DEF HostsAreAllowed
<1>3. CASE AllowHosts /\ autoHosts' # autoHosts
  <2> PICK new \in SUBSET FreshHosts :
        /\ Cardinality(new) = IF Cardinality(FreshHosts) < Slots
                              THEN Cardinality(FreshHosts) ELSE Slots
        /\ autoHosts' = autoHosts \cup new
    BY <1>3 DEF AllowHosts
  <2>1. FreshHosts \subseteq Host /\ FreshHosts \subseteq SafeHosts \ AllowedHosts
    BY CaptureTypes DEF FreshHosts
  <2>2. IsFiniteSet(autoHosts) /\ IsFiniteSet(new) /\ IsFiniteSet(FreshHosts)
    BY <2>1, FS_Subset, HostAssumption DEF TypeOK
  <2>3. /\ Cardinality(autoHosts) \in Nat /\ Cardinality(new) \in Nat
        /\ Cardinality(FreshHosts) \in Nat /\ Cardinality(autoHosts \cap new) \in Nat
    <3>1. IsFiniteSet(autoHosts \cap new)
      BY <2>2, FS_Intersection
    <3>2. \A S : IsFiniteSet(S) => Cardinality(S) \in Nat
      BY FS_CardinalityType
    <3> QED
      BY ONLY <3>1, <3>2, <2>2
  <2>4. Cardinality(new) <= MaxAutoHosts - Cardinality(autoHosts)
    BY <2>3, BoundAssumption DEF Slots, HostsAreAllowed
  <2>5. Cardinality(autoHosts') <= Cardinality(autoHosts) + Cardinality(new)
    <3>1. Cardinality(autoHosts \cup new)
            = Cardinality(autoHosts) + Cardinality(new) - Cardinality(autoHosts \cap new)
      BY <2>2, FS_Union
    <3>2. autoHosts' = autoHosts \cup new
      OBVIOUS
    <3> QED
      BY ONLY <3>1, <3>2, <2>3
  <2>6. Cardinality(autoHosts') <= MaxAutoHosts
    <3>1. Cardinality(autoHosts') \in Nat
      BY <2>2, FS_Union, FS_CardinalityType
    <3> QED
      BY <3>1, <2>3, <2>4, <2>5, BoundAssumption
  <2> QED
    BY <2>1, <2>6 DEF HostsAreAllowed
<1> QED
  BY <1>1, <1>2, <1>3, HostsFrame

(* Whatever becomes recorded lives on a host the user allowed or one of at *)
(* most MaxAutoHosts safe ones the invocation allowed by itself, Koji      *)
(* apart.                                                                  *)
THEOREM FetchesFromAllowedHosts == Spec => FetchesAreAllowed
<1>1. [Next]_vars => [\A i \in Item :
                        Served(i) = "miss" /\ Served(i)' # "miss" =>
                          KindOf[i] = "koji" \/ HostOf[i] \in AllowedHosts \cup autoHosts]_vars
  BY FetchStep
<1> QED
  BY <1>1, InitType, NextType, InitHosts, NextHosts, PTL DEF Spec, FetchesAreAllowed
-----------------------------------------------------------------------------
(* Progress. An iteration that captured something recorded an item that    *)
(* was not recorded before.                                                *)

(* IterationsMakeProgress, with the iteration's own capture counted.       *)
CapturesCount ==
  ~overwrite =>
    /\ Cardinality(content \cup failures) >= iteration - 1
    /\ captured # {} => Cardinality(content \cup failures) >= iteration

LEMMA RecordedCount ==
  ASSUME TypeOK, [Next]_vars
  PROVE  /\ Cardinality(content \cup failures) \in Nat
         /\ Cardinality((content \cup failures)') \in Nat
         /\ Cardinality(content \cup failures) <= Cardinality((content \cup failures)')
         /\ (content \cup failures)' # content \cup failures =>
              Cardinality(content \cup failures) + 1 <= Cardinality((content \cup failures)')
<1> DEFINE R == content \cup failures
           S == (content \cup failures)'
<1>1. R \subseteq S
  BY RecordedGrows DEF Recorded
<1>2. S \in SUBSET Item /\ R \in SUBSET Item
  BY NextType DEF TypeOK
<1>3. IsFiniteSet(S) /\ IsFiniteSet(R)
  BY <1>2, FS_Subset, ItemAssumption
<1>4. Cardinality(R) \in Nat /\ Cardinality(S) \in Nat
  BY <1>3, FS_CardinalityType
<1>5. Cardinality(R) <= Cardinality(S) /\ (Cardinality(S) = Cardinality(R) => S = R)
  BY <1>1, <1>3, FS_Subset
<1> HIDE DEF R, S
<1>6. Cardinality(R) <= Cardinality(S) /\ (S # R => Cardinality(R) + 1 <= Cardinality(S))
  BY <1>4, <1>5
<1> QED
  BY <1>4, <1>6 DEF R, S

LEMMA IterationFrame ==
  ASSUME [Next]_vars
  PROVE  \/ UNCHANGED <<iteration, captured, overwrite>>
         \/ Invoke
         \/ NextIteration
         \/ \E reply \in [Fetched -> Reply] : CapturePass(reply)
  BY DEF Next, Harness, Environment, ValidationBlocks, SkipRun, SetupFails, StartRun, LogMiss,
         LogRecordedError, LogMentioned, StopOnMiss, WorkflowRaises, WorkflowReturns, AcceptRun,
         BeginCapture,
         LimitReached, NothingCaptured, AbortCapture, Abort

LEMMA InitCount == Init => CapturesCount
<1> SUFFICES ASSUME Init PROVE CapturesCount
  OBVIOUS
<1>1. Cardinality(content \cup failures) \in Nat
  BY FS_Subset, FS_CardinalityType, ItemAssumption DEF Init
<1> QED
  BY <1>1 DEF Init, CapturesCount

LEMMA NextCount == TypeOK /\ CapturesCount /\ [Next]_vars => CapturesCount'
<1> SUFFICES ASSUME TypeOK, CapturesCount, [Next]_vars, ~overwrite'
             PROVE  /\ Cardinality((content \cup failures)') >= iteration' - 1
                    /\ captured' # {} => Cardinality((content \cup failures)') >= iteration'
  BY DEF CapturesCount
<1> DEFINE n == Cardinality(content \cup failures)
           m == Cardinality((content \cup failures)')
<1>1. n \in Nat /\ m \in Nat /\ n <= m /\ ((content \cup failures)' # content \cup failures => n + 1 <= m)
  BY RecordedCount
<1>2. iteration \in Nat
  BY BoundAssumption DEF TypeOK, Iterations
<1>3. CASE UNCHANGED <<iteration, captured, overwrite>>
  <2>1. n >= iteration - 1 /\ (captured # {} => n >= iteration)
    BY <1>3 DEF CapturesCount
  <2> HIDE DEF n, m
  <2>2. m >= iteration - 1 /\ (captured # {} => m >= iteration)
    BY <2>1, <1>1, <1>2
  <2> QED
    BY <2>2, <1>3 DEF m
<1>4. CASE Invoke
  <2>1. iteration' = 1 /\ captured' = {}
    BY <1>4 DEF Invoke, ClearIteration
  <2> HIDE DEF n, m
  <2>2. m >= 1 - 1
    BY <1>1
  <2> QED
    BY <2>1, <2>2 DEF m
<1>5. CASE NextIteration
  <2>1. n >= iteration /\ iteration' = iteration + 1 /\ captured' = {}
    BY <1>5 DEF NextIteration, ClearIteration, CapturesCount
  <2> HIDE DEF n, m
  <2>2. m >= (iteration + 1) - 1
    BY <2>1, <1>1, <1>2
  <2> QED
    BY <2>1, <2>2 DEF m
<1>6. CASE \E reply \in [Fetched -> Reply] : CapturePass(reply)
  <2> PICK reply \in [Fetched -> Reply] : CapturePass(reply)
    BY <1>6
  <2>1. /\ ~overwrite /\ iteration' = iteration
        /\ n >= iteration - 1 /\ (captured # {} => n >= iteration)
    BY DEF CapturePass, CapturesCount
  <2>2. captured = {} /\ captured' # {} => (content \cup failures)' # content \cup failures
    <3> SUFFICES ASSUME captured = {}, captured' # {}
                 PROVE  (content \cup failures)' # content \cup failures
      OBVIOUS
    <3> PICK i : i \in Got(reply) \cup Errors(reply)
      BY DEF CapturePass
    <3>1. i \in Fetched
      BY DEF Got, Errors
    <3>2. ~Recorded(i)
      BY <2>1, <3>1, PassRecords
    <3> QED
      BY <3>2 DEF Recorded, CapturePass
  <2> HIDE DEF n, m
  <2>3. m >= iteration - 1 /\ (captured' # {} => m >= iteration)
    BY <2>1, <2>2, <1>1, <1>2
  <2> QED
    BY <2>1, <2>3 DEF m
<1> QED
  BY <1>3, <1>4, <1>5, <1>6, IterationFrame

(* Without --overwrite the number of iterations is bounded by the number   *)
(* of inputs, whatever --max-iterations is.                                *)
THEOREM ProgressIsMade == Spec => []IterationsMakeProgress
<1>1. CapturesCount => IterationsMakeProgress
  BY DEF CapturesCount, IterationsMakeProgress
<1> QED
  BY <1>1, InitType, NextType, InitCount, NextCount, PTL DEF Spec
-----------------------------------------------------------------------------
(* How an invocation ends. SucceededIsReplayable and BlockedIsStuck speak  *)
(* of the last step; what makes them true is established by the run and by *)
(* each pass of the capture before it.                                     *)

(* While an invocation runs it has no status yet.                          *)
StatusIsLast == pc # "idle" => status = "none"

(* A run that is over has an entry, and only an excluded case is skipped.  *)
ReportIsDue ==
  pc \in {"reported", "capturing", "deciding"} =>
    report # "none" /\ (report = "skipped" => excluded)

(* What is skipped as recorded is recorded.                                *)
SkipsAreTrue == \A i \in Item : <<i, "recorded">> \in skips => Recorded(i)

(* The host of i is not allowed and could not be allowed.                  *)
HostStuck(i) ==
  /\ HostOf[i] \notin AllowedHosts \cup autoHosts
  /\ HostOf[i] \in SafeHosts => Cardinality(autoHosts) = MaxAutoHosts

(* A capture that captured nothing leaves only what is recorded or stuck.  *)
NothingLeft ==
  pc = "deciding" /\ captured = {} =>
    \A i \in Candidates : Recorded(i) \/ (HostStuck(i) /\ <<i, "denied">> \in skips)

EndInv ==
  /\ StatusIsLast /\ ReportIsDue
  /\ SkipsAreTrue /\ NothingLeft
  /\ SucceededIsReplayable /\ BlockedIsStuck

LEMMA InitEnd == Init => EndInv
  BY DEF Init, EndInv, StatusIsLast, ReportIsDue, SkipsAreTrue, NothingLeft,
         SucceededIsReplayable, BlockedIsStuck, Ended

(* The steps that neither end an invocation nor decide what follows.       *)
LEMMA QuietEnd ==
  ASSUME EndInv, [Next]_vars,
         pc' # "deciding", status' \notin Ended \cup {"blocked"},
         StatusIsLast', ReportIsDue', skips' \in {skips, {}}
  PROVE  EndInv'
<1>1. SkipsAreTrue'
  BY RecordedGrows DEF EndInv, SkipsAreTrue
<1> QED
  BY <1>1 DEF EndInv, NothingLeft, SucceededIsReplayable, BlockedIsStuck

LEMMA AcceptEnd ==
  ASSUME TypeOK, EndInv, AcceptRun
  PROVE  EndInv'
<1>1. /\ UNCHANGED <<content, failures, log, leftover, runJson, actual, iteration, report,
                     excluded, captured, skips, autoHosts>>
      /\ pc' = "idle" /\ status' \in Ended
  BY DEF AcceptRun, Finish, Accepted, Ended
<1>2. report = "passed" \/ (excluded /\ report = "skipped")
  BY DEF AcceptRun, EndInv, ReportIsDue, TypeOK, Report
<1>3. ASSUME NEW i \in Candidates, KindOf[i] # "koji" PROVE Served(i) # "miss"
  <2>1. KindOf[i] \in {"web", "git", "jira", "lookaside"}
    BY <1>3, CaptureTypes, ItemAssumption DEF Kind
  <2> QED
    BY <2>1, <1>3 DEF AcceptRun, ReplayCandidates, Served
<1>4. SucceededIsReplayable'
  BY <1>1, <1>2, <1>3 DEF SucceededIsReplayable, Candidates, Served
<1> QED
  BY <1>1, <1>4 DEF EndInv, StatusIsLast, ReportIsDue, SkipsAreTrue, Recorded, NothingLeft,
                    BlockedIsStuck, Ended

(* A pass that decides and captured nothing found nothing to fetch but web *)
(* pages that are recorded already.                                        *)
LEMMA PassEnd ==
  ASSUME TypeOK, EndInv, NEW reply \in [Fetched -> Reply], CapturePass(reply)
  PROVE  EndInv'
<1>1. StatusIsLast' /\ ReportIsDue'
  BY DEF CapturePass, AllowHosts, Finish, EndInv, StatusIsLast, ReportIsDue
<1>2. SkipsAreTrue'
  <2> SUFFICES ASSUME NEW i \in Item, <<i, "recorded">> \in skips' PROVE Recorded(i)'
    BY DEF SkipsAreTrue
  <2>1. CASE <<i, "recorded">> \in skips
    BY <2>1, PassRecords DEF EndInv, SkipsAreTrue
  <2>2. CASE <<i, "recorded">> \in SkipsOf
    BY <2>2, PassRecords DEF SkipsOf, Kept
  <2>3. CASE i \in Superseded(reply)
    BY <2>3, PassRecords DEF Superseded
  <2> QED
    BY <2>1, <2>2, <2>3 DEF CapturePass
<1>3. NothingLeft'
  <2> SUFFICES ASSUME pc' = "deciding", captured' = {}, NEW i \in Candidates'
               PROVE  Recorded(i)' \/ (HostStuck(i)' /\ <<i, "denied">> \in skips')
    BY DEF NothingLeft
  <2>1. i \in Candidates /\ i \in Item
    BY CaptureTypes DEF CapturePass, Candidates
  <2>2. Got(reply) = {} /\ Errors(reply) = {} /\ Broken(reply) = {}
    BY DEF CapturePass, Finish
  <2>3. autoHosts' = autoHosts /\ (FreshHosts = {} \/ Slots = 0)
    BY <2>2 DEF CapturePass, AllowHosts
  <2>4. CASE i \in Fetched
    BY <2>2, <2>4, PassRecords DEF Broken, Superseded
  <2>5. CASE i \in Kept
    BY <2>5, PassRecords DEF Kept
  <2>6. CASE i \in Denied
    <3>1. HostOf[i] \notin AllowedHosts \cup autoHosts /\ <<i, "denied">> \in skips'
      BY <2>6 DEF Denied, SkipsOf, CapturePass
    <3>2. HostOf[i] \in SafeHosts => Cardinality(autoHosts) = MaxAutoHosts
      <4>1. HostOf[i] \in SafeHosts => Slots = 0
        BY <2>3, <2>6, <3>1 DEF FreshHosts
      <4>2. Cardinality(autoHosts) \in Nat
        BY FS_Subset, FS_CardinalityType, HostAssumption DEF TypeOK
      <4> QED
        BY <4>1, <4>2, BoundAssumption DEF Slots
    <3> QED
      BY <3>1, <3>2, <2>3 DEF HostStuck
  <2> QED
    BY <2>1, <2>4, <2>5, <2>6 DEF Fetched
<1>4. status' \notin Ended \cup {"blocked"}
  BY DEF CapturePass, AllowHosts, Finish, EndInv, StatusIsLast, Ended
<1> QED
  BY <1>1, <1>2, <1>3, <1>4 DEF EndInv, SucceededIsReplayable, BlockedIsStuck

LEMMA NothingCapturedEnd ==
  ASSUME TypeOK, EndInv, NothingCaptured
  PROVE  EndInv'
<1>1. /\ UNCHANGED <<content, failures, log, leftover, runJson, actual, iteration, report,
                     excluded, captured, skips, autoHosts>>
      /\ pc' = "idle"
      /\ status' = IF OnlyRecorded /\ report # "failed" THEN Accepted ELSE "blocked"
  BY DEF NothingCaptured, Finish
<1>2. \A i \in Candidates : Recorded(i) \/ (HostStuck(i) /\ <<i, "denied">> \in skips)
  BY DEF NothingCaptured, EndInv, NothingLeft
<1>3. BlockedIsStuck'
  BY <1>1, <1>2 DEF BlockedIsStuck, Candidates, Recorded, HostStuck
<1>4. SucceededIsReplayable'
  <2> SUFFICES ASSUME status' \in Ended
               PROVE  /\ report = "passed" \/ (excluded /\ report = "skipped")
                      /\ \A i \in Candidates : Served(i) # "miss"
    BY <1>1 DEF SucceededIsReplayable, Candidates, Served
  <2>1. OnlyRecorded /\ report # "failed"
    BY <1>1 DEF Ended
  <2>2. report = "passed" \/ (excluded /\ report = "skipped")
    BY <2>1 DEF NothingCaptured, EndInv, ReportIsDue, TypeOK, Report
  <2>3. ASSUME NEW i \in Candidates PROVE Recorded(i)
    <3>1. i \in Item
      BY CaptureTypes
    <3>2. <<i, "denied">> \in skips => <<i, "recorded">> \in skips
      BY <2>1 DEF OnlyRecorded
    <3> QED
      BY <1>2, <3>1, <3>2 DEF EndInv, SkipsAreTrue
  <2> QED
    BY <2>2, <2>3 DEF Recorded, Served
<1> QED
  BY <1>1, <1>3, <1>4 DEF EndInv, StatusIsLast, ReportIsDue, SkipsAreTrue, Recorded, NothingLeft

LEMMA NextEnd == TypeOK /\ EndInv /\ [Next]_vars => EndInv'
<1> SUFFICES ASSUME TypeOK, EndInv, [Next]_vars PROVE EndInv'
  OBVIOUS
<1> USE DEF Finish, EndInv, StatusIsLast, ReportIsDue, Ended
<1>1. CASE Invoke
  BY <1>1, QuietEnd DEF Invoke, ClearIteration
<1>2. CASE ValidationBlocks \/ SkipRun \/ SetupFails \/ StartRun
  BY <1>2, QuietEnd DEF ValidationBlocks, SkipRun, SetupFails, StartRun
<1>3. CASE \E i \in Item : LogMiss(i) \/ LogRecordedError(i) \/ LogMentioned(i)
  BY <1>3, QuietEnd DEF LogMiss, LogRecordedError, LogMentioned
<1>4. CASE \E i \in Item : StopOnMiss(i)
  BY <1>4, QuietEnd DEF StopOnMiss, WriteReport
<1>5. CASE WorkflowRaises \/ WorkflowReturns
  BY <1>5, QuietEnd DEF WorkflowRaises, WorkflowReturns, WriteReport
<1>6. CASE BeginCapture \/ LimitReached \/ Abort \/ AbortCapture
  BY <1>6, QuietEnd DEF BeginCapture, LimitReached, Abort, AbortCapture
<1>7. CASE NextIteration
  BY <1>7, QuietEnd DEF NextIteration, ClearIteration
<1>8. CASE AcceptRun
  BY <1>8, AcceptEnd
<1>9. CASE \E reply \in [Fetched -> Reply] : CapturePass(reply)
  BY <1>9, PassEnd
<1>10. CASE NothingCaptured
  BY <1>10, NothingCapturedEnd
<1>11. CASE UNCHANGED vars
  BY <1>11 DEF SkipsAreTrue, Recorded, NothingLeft, HostStuck, Candidates,
               SucceededIsReplayable, BlockedIsStuck, Served
<1> QED
  BY <1>1, <1>2, <1>3, <1>4, <1>5, <1>6, <1>7, <1>8, <1>9, <1>10, <1>11
     DEF Next, Harness, Environment

LEMMA EndInvariant == Spec => []EndInv
  BY InitType, NextType, InitEnd, NextEnd, PTL DEF Spec

(* A case reported ready was accepted on a run that did not fail, and the  *)
(* fixtures answer every miss of that run but those of Koji.               *)
THEOREM SuccessIsReplayable == Spec => []SucceededIsReplayable
<1>1. EndInv => SucceededIsReplayable
  BY DEF EndInv
<1> QED
  BY <1>1, EndInvariant, PTL

(* A case reported blocked cannot be helped by running the command again:  *)
(* what its last run missed is recorded, or on a host only the user allows. *)
THEOREM BlockedNeedsTheUser == Spec => []BlockedIsStuck
<1>1. EndInv => BlockedIsStuck
  BY DEF EndInv
<1> QED
  BY <1>1, EndInvariant, PTL
-----------------------------------------------------------------------------
(* An invocation has finitely many steps: each of them lowers what is left *)
(* of it, in an order on triples of numbers that is well founded.          *)
NatLess == {ss \in Nat \X Nat : ss[1] < ss[2]}

LEMMA NatLessIsWellFounded == IsWellFoundedOn(NatLess, Nat)
  BY NatLessThanWellFounded DEF OpToRel, NatLess

LEMMA LexPair ==
  ASSUME NEW R1, NEW R2, NEW S1, NEW S2, NEW a1 \in S1, NEW a2 \in S2, NEW b1 \in S1,
         NEW b2 \in S2, <<a1, b1>> \in R1 \/ (a1 = b1 /\ <<a2, b2>> \in R2)
  PROVE  <<<<a1, a2>>, <<b1, b2>>>> \in LexPairOrdering(R1, R2, S1, S2)
  BY DEF LexPairOrdering

LEMMA BelowIsWellFounded ==
  ASSUME NEW f \in [Nat -> Nat \X Nat \X Nat]
  PROVE  \E n \in Nat : ~Below(f[n + 1], f[n])
<1> SUFFICES ASSUME \A n \in Nat : Below(f[n + 1], f[n]) PROVE FALSE
  OBVIOUS
<1> DEFINE Pairs == LexPairOrdering(NatLess, NatLess, Nat, Nat)
           Order == LexPairOrdering(NatLess, Pairs, Nat, Nat \X Nat)
           g == [n \in Nat |-> <<f[n][1], <<f[n][2], f[n][3]>>>>]
<1>1. IsWellFoundedOn(Pairs, Nat \X Nat)
  BY NatLessIsWellFounded, WFLexPairOrdering
<1>2. IsWellFoundedOn(Order, Nat \X (Nat \X Nat))
  <2> HIDE DEF Pairs
  <2> QED
    BY <1>1, NatLessIsWellFounded, WFLexPairOrdering
<1>3. g \in [Nat -> Nat \X (Nat \X Nat)]
  OBVIOUS
<1>4. ASSUME NEW n \in Nat PROVE <<g[n + 1], g[n]>> \in Order
  <2>1. f[n] \in Nat \X Nat \X Nat /\ f[n + 1] \in Nat \X Nat \X Nat /\ Below(f[n + 1], f[n])
    OBVIOUS
  <2> DEFINE a == f[n + 1]
             b == f[n]
             x == <<a[2], a[3]>>
             y == <<b[2], b[3]>>
  <2>2. a[1] \in Nat /\ x \in Nat \X Nat /\ b[1] \in Nat /\ y \in Nat \X Nat
    BY <2>1
  <2>3. <<a[1], b[1]>> \in NatLess \/ (a[1] = b[1] /\ <<x, y>> \in Pairs)
    BY <2>1, <2>2, LexPair DEF Below, NatLess
  <2>4. g[n + 1] = <<a[1], x>> /\ g[n] = <<b[1], y>>
    <3>1. n + 1 \in Nat
      OBVIOUS
    <3> QED
      BY <3>1
  <2> HIDE DEF Pairs, g, a, b, x, y
  <2>5. <<<<a[1], x>>, <<b[1], y>>>> \in LexPairOrdering(NatLess, Pairs, Nat, Nat \X Nat)
    BY <2>2, <2>3, LexPair
  <2> QED
    BY <2>4, <2>5
<1> HIDE DEF Order, g
<1> QED
  BY <1>2, <1>3, <1>4 DEF IsWellFoundedOn

LEMMA SlotsAre ==
  ASSUME HostsAreAllowed
  PROVE  Slots \in Nat
<1>1. IsFiniteSet(autoHosts)
  BY FS_Subset, HostAssumption DEF HostsAreAllowed
<1> QED
  BY <1>1, FS_CardinalityType, BoundAssumption DEF Slots, HostsAreAllowed

(* A host that is allowed takes a slot.                                    *)
LEMMA SlotsShrink ==
  ASSUME HostsAreAllowed, HostsAreAllowed', autoHosts \subseteq autoHosts'
  PROVE  Slots' \in 0..Slots /\ (autoHosts' # autoHosts => Slots' < Slots)
<1> DEFINE n == Cardinality(autoHosts)
           m == Cardinality(autoHosts')
<1>1. IsFiniteSet(autoHosts') /\ IsFiniteSet(autoHosts)
  BY FS_Subset, HostAssumption DEF HostsAreAllowed
<1>2. n \in Nat /\ m \in Nat /\ n <= m /\ (n = m => autoHosts' = autoHosts)
  BY <1>1, FS_Subset, FS_CardinalityType
<1>3. Slots = MaxAutoHosts - n /\ Slots' = MaxAutoHosts - m /\ m <= MaxAutoHosts
  BY DEF Slots, HostsAreAllowed
<1> HIDE DEF n, m
<1> QED
  BY <1>2, <1>3, BoundAssumption

(* A pass is repeated only when it has allowed another host.               *)
LEMMA RepeatedPass ==
  ASSUME TypeOK, HostsAreAllowed, HostsAreAllowed', AllowHosts, pc' = pc, pc = "capturing"
  PROVE  Slots' < Slots
<1>1. FreshHosts # {} /\ Slots # 0
  BY DEF AllowHosts
<1>2. PICK new \in SUBSET FreshHosts :
        /\ Cardinality(new) = IF Cardinality(FreshHosts) < Slots
                              THEN Cardinality(FreshHosts) ELSE Slots
        /\ autoHosts' = autoHosts \cup new
  BY <1>1 DEF AllowHosts
<1>3. IsFiniteSet(FreshHosts)
  BY CaptureTypes, FS_Subset, HostAssumption
<1>4. Cardinality(FreshHosts) # 0 /\ Cardinality({}) = 0
  BY <1>1, <1>3, FS_EmptySet
<1>5. new # {}
  BY <1>1, <1>2, <1>4
<1>6. new \cap autoHosts = {}
  BY DEF FreshHosts
<1> QED
  BY <1>2, <1>5, <1>6, SlotsShrink

LEMMA LeftIs ==
  ASSUME TypeOK, HostsAreAllowed
  PROVE  Left \in Nat \X Nat \X Nat
<1>1. MaxIterations - iteration \in Nat
  BY BoundAssumption DEF TypeOK, Iterations
<1>2. StepsLeft[pc] \in Nat
  BY DEF TypeOK, Phase, StepsLeft
<1>3. Room \in Nat
  <2>1. Cardinality(Item \ log[iteration]) \in Nat
    BY ItemAssumption, FS_Difference, FS_CardinalityType
  <2> QED
    BY <2>1, SlotsAre DEF Room
<1> QED
  BY <1>1, <1>2, <1>3 DEF Left

(* The step to a later phase of the same iteration.                        *)
LEMMA PhaseStep ==
  ASSUME iteration' = iteration, StepsLeft[pc'] < StepsLeft[pc]
  PROVE  Below(Left', Left)
  BY DEF Below, Left

LEMMA RoomStep ==
  ASSUME iteration' = iteration, pc' = pc, Room' < Room
  PROVE  Below(Left', Left)
  BY DEF Below, Left

(* A miss is logged once.                                                  *)
LEMMA LoggedStep ==
  ASSUME TypeOK, NEW i \in Item, pc = "running", pc' = pc, iteration' = iteration,
         i \notin log[iteration], log' = [log EXCEPT ![iteration] = @ \cup {i}]
  PROVE  Below(Left', Left)
<1> DEFINE Rest == Item \ log[iteration]
<1>1. IsFiniteSet(Rest) /\ i \in Rest
  BY ItemAssumption, FS_Difference
<1>2. Cardinality(Rest) \in Nat /\ Cardinality(Rest \ {i}) = Cardinality(Rest) - 1
  BY <1>1, FS_RemoveElement, FS_CardinalityType
<1>3. Item \ log'[iteration'] = Rest \ {i}
  BY DEF TypeOK
<1>4. Room = Cardinality(Rest) /\ Room' = Cardinality(Rest \ {i})
  BY <1>3 DEF Room
<1> HIDE DEF Rest
<1> QED
  BY <1>2, <1>4, RoomStep

LEMMA AdvanceStep ==
  ASSUME TypeOK, HostsAreAllowed, Next, pc # "idle"
  PROVE  Below(Left', Left)
<1>1. TypeOK' /\ HostsAreAllowed'
  BY NextType, NextHosts
<1> USE DEF StepsLeft, Finish, WriteReport
<1>2. CASE ValidationBlocks \/ SkipRun \/ SetupFails \/ StartRun \/ AcceptRun \/ BeginCapture
  BY <1>2, PhaseStep DEF ValidationBlocks, SkipRun, SetupFails, StartRun, AcceptRun, BeginCapture
<1>3. CASE \E i \in Item : StopOnMiss(i)
  BY <1>3, PhaseStep DEF StopOnMiss
<1>4. CASE WorkflowRaises \/ WorkflowReturns \/ LimitReached \/ NothingCaptured \/ AbortCapture
  BY <1>4, PhaseStep
     DEF WorkflowRaises, WorkflowReturns, LimitReached, NothingCaptured, AbortCapture
<1>5. CASE Abort
  BY <1>5, PhaseStep DEF Abort
<1>6. CASE \E i \in Item : LogMiss(i) \/ LogRecordedError(i) \/ LogMentioned(i)
  BY <1>6, LoggedStep DEF LogMiss, LogRecordedError, LogMentioned
<1>7. CASE \E reply \in [Fetched -> Reply] : CapturePass(reply)
  <2> PICK reply \in [Fetched -> Reply] : CapturePass(reply)
    BY <1>7
  <2>1. pc = "capturing" /\ iteration' = iteration
    BY DEF CapturePass
  <2>2. CASE pc' = pc
    <3>1. AllowHosts
      BY <2>1, <2>2 DEF CapturePass
    <3>2. Slots' < Slots
      BY <3>1, <2>1, <2>2, <1>1, RepeatedPass
    <3> QED
      BY <3>2, <2>1, <2>2, RoomStep DEF Room
  <2>3. CASE pc' # pc
    <3>1. pc' \in {"idle", "deciding"}
      BY <2>1, <2>3 DEF CapturePass, AllowHosts
    <3> QED
      BY <3>1, <2>1, PhaseStep
  <2> QED
    BY <2>2, <2>3
<1>8. CASE NextIteration
  <2>1. iteration' = iteration + 1 /\ iteration \in Nat
    BY <1>8 DEF NextIteration, TypeOK, Iterations
  <2> QED
    BY <2>1, BoundAssumption DEF Below, Left
<1>9. ~Invoke
  BY DEF Invoke
<1> QED
  BY <1>2, <1>3, <1>4, <1>5, <1>6, <1>7, <1>8, <1>9 DEF Next, Harness, Environment

(* Every step of an invocation, the workflow's and the user's included,    *)
(* uses up some of what is left of it, which is well founded: no           *)
(* invocation goes round for ever.                                         *)
THEOREM InvocationsAreFinite ==
  /\ Spec => [](Left \in Nat \X Nat \X Nat) /\ EveryStepAdvances
  /\ ~\E f \in [Nat -> Nat \X Nat \X Nat] : \A n \in Nat : Below(f[n + 1], f[n])
<1>1. TypeOK /\ HostsAreAllowed => Left \in Nat \X Nat \X Nat
  BY LeftIs
<1>2. TypeOK /\ HostsAreAllowed /\ [Next]_vars => [pc # "idle" => Below(Left', Left)]_vars
  BY AdvanceStep
<1>3. Spec => [](Left \in Nat \X Nat \X Nat) /\ EveryStepAdvances
  BY <1>1, <1>2, InitType, NextType, InitHosts, NextHosts, PTL DEF Spec, EveryStepAdvances
<1> QED
  BY <1>3, BelowIsWellFounded
-----------------------------------------------------------------------------
(* What the monitor stops a run for. While a run is under way, its log has *)
(* only what this run was not answered; and a first invocation finds no    *)
(* file of an earlier run in the directories it has not visited: no log    *)
(* before it starts a run there, nothing else before that run is over.     *)
LogIsUnanswered == pc = "running" => \A i \in log[iteration] : Unanswered(i)
Empty(n) == leftover[n] = {} /\ runJson[n] = {} /\ actual[n] = {}
Visited(n, before) ==
  \/ invocations > 1
  \/ invocations = 1 /\ (n < iteration \/ (n = iteration /\ pc \notin before))
DirectoriesAreFresh ==
  /\ pc # "idle" => invocations # 0
  /\ \A n \in Iterations :
       /\ log[n] = {} \/ Visited(n, {"validating"})
       /\ Empty(n) \/ Visited(n, {"validating", "running"})

LEMMA InitFiles == Init => LogIsUnanswered /\ DirectoriesAreFresh
  BY DEF Init, LogIsUnanswered, DirectoriesAreFresh, Empty, Visited

LEMMA UnansweredFrame ==
  ASSUME UNCHANGED fixtures
  PROVE  \A i : Unanswered(i)' <=> Unanswered(i)
  BY DEF Unanswered, Served

LEMMA NextUnanswered == TypeOK /\ LogIsUnanswered /\ [Next]_vars => LogIsUnanswered'
<1> SUFFICES ASSUME TypeOK, LogIsUnanswered, [Next]_vars PROVE LogIsUnanswered'
  OBVIOUS
<1>1. CASE pc' # "running"
  BY <1>1 DEF LogIsUnanswered
<1>2. CASE StartRun
  BY <1>2 DEF StartRun, LogIsUnanswered, TypeOK
<1>3. CASE \E i \in Item : LogMiss(i) \/ LogRecordedError(i) \/ LogMentioned(i)
  <2> PICK i \in Item : LogMiss(i) \/ LogRecordedError(i) \/ LogMentioned(i)
    BY <1>3
  <2>1. /\ UNCHANGED fixtures /\ iteration' = iteration /\ pc = "running"
        /\ log'[iteration] = log[iteration] \cup {i}
    BY DEF LogMiss, LogRecordedError, LogMentioned, TypeOK
  <2>2. Unanswered(i)
    BY DEF LogMiss, LogRecordedError, LogMentioned, Unanswered
  <2>3. \A j : Unanswered(j)' <=> Unanswered(j)
    BY <2>1, UnansweredFrame
  <2> QED
    BY <2>1, <2>2, <2>3 DEF LogIsUnanswered
<1>4. CASE UNCHANGED vars
  <2>1. \A j : Unanswered(j)' <=> Unanswered(j)
    BY <1>4, UnansweredFrame
  <2> QED
    BY <1>4, <2>1 DEF LogIsUnanswered
<1>5. pc' # "running" \/ StartRun \/ UNCHANGED vars
      \/ \E i \in Item : LogMiss(i) \/ LogRecordedError(i) \/ LogMentioned(i)
  BY DEF Next, Harness, Environment, Invoke, ValidationBlocks, SkipRun, SetupFails, StopOnMiss,
         WorkflowRaises, WorkflowReturns, WriteReport, AcceptRun, BeginCapture, CapturePass,
         AllowHosts, NextIteration, LimitReached, NothingCaptured, AbortCapture, Abort, Finish
<1> QED
  BY <1>1, <1>2, <1>3, <1>4, <1>5

LEMMA NextFresh == TypeOK /\ DirectoriesAreFresh /\ [Next]_vars => DirectoriesAreFresh'
<1> SUFFICES ASSUME TypeOK, DirectoriesAreFresh, [Next]_vars, NEW n \in Iterations
             PROVE  /\ pc' # "idle" => invocations' # 0
                    /\ log'[n] = {} \/ Visited(n, {"validating"})'
                    /\ Empty(n)' \/ Visited(n, {"validating", "running"})'
  <2>1. 1 \in Iterations
    BY BoundAssumption DEF Iterations
  <2> QED
    BY <2>1 DEF DirectoriesAreFresh
<1>1. /\ iteration \in Nat /\ n \in Nat /\ invocations \in Nat
      /\ pc # "idle" => invocations # 0
      /\ log[n] = {} \/ Visited(n, {"validating"})
      /\ Empty(n) \/ Visited(n, {"validating", "running"})
  BY DEF TypeOK, Iterations, DirectoriesAreFresh
<1> USE DEF Empty, Visited, Finish, WriteReport
<1>2. CASE Invoke
  BY <1>1, <1>2 DEF Invoke
<1>3. CASE SkipRun \/ SetupFails
  BY <1>1, <1>3 DEF SkipRun, SetupFails, TypeOK
<1>4. CASE WorkflowRaises \/ WorkflowReturns \/ \E i \in Item : StopOnMiss(i)
  <2>1. /\ pc = "running" /\ pc' = "reported"
        /\ iteration' = iteration /\ invocations' = invocations
    BY <1>4 DEF WorkflowRaises, WorkflowReturns, StopOnMiss
  <2>2. n # iteration => UNCHANGED <<log[n], leftover[n], runJson[n], actual[n]>>
    BY <1>4 DEF WorkflowRaises, WorkflowReturns, StopOnMiss, TypeOK
  <2> QED
    BY <1>1, <2>1, <2>2
<1>6. CASE ValidationBlocks \/ AcceptRun \/ BeginCapture \/ LimitReached
           \/ NothingCaptured \/ AbortCapture \/ Abort
  BY <1>1, <1>6 DEF ValidationBlocks, AcceptRun, BeginCapture, LimitReached,
                    NothingCaptured, AbortCapture, Abort
<1>5. CASE \E i \in Item : LogMiss(i) \/ LogRecordedError(i) \/ LogMentioned(i)
  <2>1. /\ pc = "running"
        /\ UNCHANGED <<leftover, runJson, actual, pc, iteration, invocations>>
    BY <1>5 DEF LogMiss, LogRecordedError, LogMentioned
  <2>2. n # iteration => log'[n] = log[n]
    BY <1>5 DEF LogMiss, LogRecordedError, LogMentioned, TypeOK
  <2> QED
    BY <1>1, <2>1, <2>2
<1>10. CASE StartRun
  <2>1. /\ pc = "validating" /\ pc' = "running"
        /\ UNCHANGED <<runJson, actual, iteration, invocations>>
    BY <1>10 DEF StartRun
  <2>2. PICK stale \in SUBSET (log[iteration] \cup leftover[iteration]) :
          leftover' = [leftover EXCEPT ![iteration] = stale]
    BY <1>10 DEF StartRun
  <2>3. n # iteration => UNCHANGED <<log[n], leftover[n]>>
    BY <1>10, <2>2 DEF StartRun, TypeOK
  <2>4. n = iteration => log'[n] = {} /\ leftover'[n] \subseteq log[n] \cup leftover[n]
    BY <1>10, <2>2 DEF StartRun, TypeOK
  <2> QED
    BY <1>1, <2>1, <2>3, <2>4
<1>7. CASE \E reply \in [Fetched -> Reply] : CapturePass(reply)
  BY <1>1, <1>7 DEF CapturePass, AllowHosts
<1>8. CASE NextIteration
  BY <1>1, <1>8 DEF NextIteration, ClearIteration
<1>9. CASE UNCHANGED vars
  BY <1>1, <1>9
<1> QED
  BY <1>2, <1>3, <1>4, <1>5, <1>6, <1>7, <1>8, <1>9, <1>10 DEF Next, Harness, Environment

LEMMA StopStep ==
  ASSUME TypeOK, LogIsUnanswered, DirectoriesAreFresh, [Next]_vars,
         stoppedOn' \notin {stoppedOn, NoItem}
  PROVE  \/ stoppedOn' \in log[iteration] /\ Unanswered(stoppedOn')
         \/ /\ invocations > 1
            /\ stoppedOn' \in leftover[iteration] \cup runJson[iteration] \cup actual[iteration]
<1>1. PICK i \in Item : StopOnMiss(i)
  BY DEF Next, Harness, Environment, Invoke, ClearIteration, ValidationBlocks, SkipRun,
         SetupFails, StartRun, LogMiss, LogRecordedError, LogMentioned, WorkflowRaises,
         WorkflowReturns, WriteReport, AcceptRun, BeginCapture, CapturePass, NextIteration,
         LimitReached, NothingCaptured, AbortCapture, Abort
<1>2. stoppedOn' = i /\ pc = "running" /\ i \in Candidates
  BY <1>1 DEF StopOnMiss
<1>3. CASE i \in log[iteration]
  BY <1>2, <1>3 DEF LogIsUnanswered
<1>4. CASE i \notin log[iteration]
  <2>1. i \in leftover[iteration] \cup runJson[iteration] \cup actual[iteration]
    BY <1>2, <1>4 DEF Candidates
  <2>2. invocations > 1
    BY <2>1, <1>2 DEF DirectoriesAreFresh, Empty, Visited, TypeOK, Iterations
  <2> QED
    BY <2>1, <2>2, <1>2
<1> QED
  BY <1>3, <1>4

(* The monitor never stops a run of a first invocation for a URL that run  *)
(* did not ask for in vain; what a later one may stop for besides is what  *)
(* an earlier one left in the files no run empties: the artifacts, a       *)
(* worker's result, the gateway's debug log, run.json, the actual results. *)
THEOREM StopsAreExplained == Spec => StopIsExplained
<1>1. TypeOK /\ LogIsUnanswered /\ DirectoriesAreFresh /\ [Next]_vars =>
        [stoppedOn' \notin {stoppedOn, NoItem} =>
           \/ stoppedOn' \in log[iteration] /\ Unanswered(stoppedOn')
           \/ /\ invocations > 1
              /\ stoppedOn' \in leftover[iteration] \cup runJson[iteration] \cup actual[iteration]]_vars
  BY StopStep
<1> QED
  BY <1>1, InitType, NextType, InitFiles, NextUnanswered, NextFresh, PTL
     DEF Spec, StopIsExplained
-----------------------------------------------------------------------------
(* PrepareCase implements PrepareContract: its first states are first      *)
(* states of the contract, and each of its steps is a step of the contract *)
(* or changes nothing the contract speaks of.                              *)
LEMMA VerdictWhile == ASSUME pc # "idle" PROVE VerdictOf = "open"
  BY DEF VerdictOf

LEMMA VerdictAfter ==
  ASSUME pc = "idle"
  PROVE  /\ status \in Ended => VerdictOf = "ready"
         /\ status = "blocked" => VerdictOf = "stuck"
         /\ status \notin Ended \cup {"none", "blocked"} => VerdictOf = "unfinished"
         /\ VerdictOf # "open"
  BY DEF VerdictOf, Ended

LEMMA ContractStarts == Init => Contract!ContractInit
<1> SUFFICES ASSUME Init PROVE Contract!ContractInit
  OBVIOUS
<1>1. Candidates = {}
  BY BoundAssumption DEF Init, Candidates, Iterations
<1>2. VerdictOf = "none"
  BY DEF Init, VerdictOf
<1>3. Slots = MaxAutoHosts
  BY FS_EmptySet, BoundAssumption DEF Init, Slots
<1> QED
  BY <1>1, <1>2, <1>3 DEF Init, Contract!ContractInit

(* What the contract sees of a step of which only the run's part is seen.  *)
LEMMA LearnStep ==
  ASSUME TypeOK, TypeOK', pc # "idle", pc' # "idle",
         UNCHANGED <<content, failures, autoHosts, overwrite, iteration, captured>>
  PROVE  Contract!Learn
<1>1. Candidates' \subseteq Item
  BY DEF TypeOK, Candidates
<1>2. VerdictOf = "open" /\ VerdictOf' = "open" /\ Slots' = Slots
  BY VerdictWhile DEF VerdictOf, Slots
<1> QED
  BY <1>1, <1>2 DEF Contract!Learn

(* A command that ends with nothing to say of what is missing.             *)
LEMMA UnfinishedStep ==
  ASSUME pc # "idle", pc' = "idle", status' \notin Ended \cup {"none", "blocked"},
         UNCHANGED <<content, failures, log, leftover, runJson, actual, autoHosts, overwrite,
                     iteration, captured>>
  PROVE  Contract!EndUnfinished
<1>1. Candidates' = Candidates /\ Slots' = Slots
  BY DEF Candidates, Slots
<1>2. VerdictOf = "open" /\ VerdictOf' = "unfinished"
  BY VerdictWhile DEF VerdictOf, Ended
<1> QED
  BY <1>1, <1>2 DEF Contract!EndUnfinished
-----------------------------------------------------------------------------
(* A pass of the capture.                                                  *)
LEMMA PassStep ==
  ASSUME TypeOK, HostsAreAllowed, HostsAreAllowed', EndInv,
         NEW reply \in [Fetched -> Reply], CapturePass(reply)
  PROVE  Contract!Capture
<1> DEFINE R == content \cup failures
<1>1. R \subseteq R' /\ R' \ R \subseteq Contract!Obtainable
  <2>1. ASSUME NEW i \in R' \ R PROVE i \in Contract!Obtainable
    <3>1. i \in Fetched
      BY <2>1, PassRecords
    <3>2. i \in Candidates /\ i \in Item
      BY <3>1, CaptureTypes DEF Fetched
    <3> QED
      BY <3>1, <3>2 DEF Fetched, Denied, Contract!Obtainable
  <2>2. R \subseteq R'
    BY DEF CapturePass
  <2> QED
    BY <2>1, <2>2
<1>2. autoHosts \subseteq autoHosts' /\ autoHosts' \subseteq SafeHosts
  BY DEF CapturePass, AllowHosts, HostsAreAllowed
<1>7. Slots' \in 0..Slots /\ (autoHosts' # autoHosts => Slots' < Slots)
  BY <1>2, SlotsShrink
<1>3. VerdictOf = "open" /\ VerdictOf' \in {"open", "unfinished"}
  <2>1. pc = "capturing" /\ (pc' # "idle" \/ status' = "capture_failed")
    BY DEF CapturePass, AllowHosts, Finish
  <2> QED
    BY <2>1, VerdictWhile DEF VerdictOf, Ended
<1>4. UNCHANGED <<Candidates, overwrite, iteration>>
  BY DEF CapturePass, Candidates
<1>5. captured' \subseteq captured \cup Candidates
  BY CaptureTypes DEF CapturePass, Fetched
<1>6. ASSUME ~overwrite PROVE captured' = captured \cup (R' \ R)
  <2>1. captured' = captured \cup Got(reply) \cup Errors(reply)
    BY DEF CapturePass
  <2>2. R' = R \cup Got(reply) \cup Errors(reply)
    BY DEF CapturePass
  <2>3. ASSUME NEW i \in Got(reply) \cup Errors(reply) PROVE i \notin R
    <3>1. i \in Fetched
      BY <2>3 DEF Got, Errors
    <3> QED
      BY <3>1, <1>6, PassRecords DEF Recorded
  <2> QED
    BY <2>1, <2>2, <2>3
<1> QED
  BY <1>1, <1>2, <1>3, <1>4, <1>5, <1>6, <1>7 DEF Contract!Capture

LEMMA AbortedPassStep ==
  ASSUME TypeOK, HostsAreAllowed, AbortCapture
  PROVE  Contract!Capture
<1> DEFINE R == content \cup failures
<1>1. R \subseteq R' /\ R' \ R \subseteq Contract!Obtainable
  <2>1. ASSUME NEW i \in R' \ R PROVE i \in Contract!Obtainable
    <3>1. i \in Fetched
      BY <2>1 DEF AbortCapture, WrittenAtOnce
    <3>2. i \in Candidates /\ i \in Item
      BY <3>1, CaptureTypes DEF Fetched
    <3> QED
      BY <3>1, <3>2 DEF Fetched, Denied, Contract!Obtainable
  <2>2. R \subseteq R'
    BY DEF AbortCapture
  <2> QED
    BY <2>1, <2>2
<1>2. autoHosts' = autoHosts /\ Slots' = Slots /\ Slots \in 0..Slots
  BY SlotsAre DEF AbortCapture, Slots
<1>3. VerdictOf = "open" /\ VerdictOf' = "unfinished"
  BY VerdictWhile DEF AbortCapture, Finish, VerdictOf, Ended
<1>4. UNCHANGED <<Candidates, overwrite, iteration, captured>>
  BY DEF AbortCapture, Candidates
<1> QED
  BY <1>1, <1>2, <1>3, <1>4 DEF Contract!Capture
-----------------------------------------------------------------------------
(* The ends that say something: they are true by EndInv.                   *)
LEMMA AcceptStep ==
  ASSUME TypeOK, EndInv, AcceptRun
  PROVE  Contract!EndReady
<1>1. SucceededIsReplayable'
  BY AcceptEnd DEF EndInv
<1>2. /\ UNCHANGED <<content, failures, Candidates, overwrite, iteration, captured, autoHosts, Slots>>
      /\ pc' = "idle" /\ status' \in Ended
  BY DEF AcceptRun, Finish, Accepted, Ended, Candidates, Slots
<1>3. Candidates \subseteq (content \cup failures) \cup {i \in Item : KindOf[i] = "koji"}
  <2> SUFFICES ASSUME NEW i \in Candidates, KindOf[i] # "koji"
               PROVE  i \in content \cup failures
    BY CaptureTypes
  <2>1. Served(i)' # "miss"
    BY <1>1, <1>2 DEF SucceededIsReplayable
  <2> QED
    BY <2>1, <1>2 DEF Served
<1>4. VerdictOf = "open" /\ VerdictOf' = "ready"
  BY <1>2, VerdictWhile DEF AcceptRun, VerdictOf, Ended
<1> QED
  BY <1>2, <1>3, <1>4 DEF Contract!EndReady

LEMMA NothingCapturedStep ==
  ASSUME TypeOK, HostsAreAllowed, EndInv, NothingCaptured
  PROVE  Contract!EndReady \/ Contract!EndStuck
<1>1. /\ UNCHANGED <<content, failures, Candidates, overwrite, iteration, captured, autoHosts, Slots>>
      /\ captured = {} /\ pc # "idle" /\ pc' = "idle" /\ status' \in Ended \cup {"blocked"}
  BY DEF NothingCaptured, Finish, Accepted, Ended, Candidates, Slots
<1>2. SucceededIsReplayable' /\ BlockedIsStuck'
  BY NothingCapturedEnd DEF EndInv
<1>3. VerdictOf = "open"
  BY <1>1, VerdictWhile
<1>4. CASE status' \in Ended
  <2>1. Candidates \subseteq (content \cup failures) \cup {i \in Item : KindOf[i] = "koji"}
    <3> SUFFICES ASSUME NEW i \in Candidates, KindOf[i] # "koji"
                 PROVE  i \in content \cup failures
      BY CaptureTypes
    <3>1. Served(i)' # "miss"
      BY <1>1, <1>2, <1>4 DEF SucceededIsReplayable
    <3> QED
      BY <3>1, <1>1 DEF Served
  <2>2. VerdictOf' = "ready"
    BY <1>1, <1>4 DEF VerdictOf, Ended
  <2> QED
    BY <2>1, <2>2, <1>1, <1>3 DEF Contract!EndReady
<1>5. CASE status' = "blocked"
  <2>1. Cardinality(autoHosts) = MaxAutoHosts => Slots = 0
    BY BoundAssumption DEF Slots
  <2>2. \A i \in Candidates \ (content \cup failures) :
           /\ HostOf[i] \notin AllowedHosts \cup autoHosts
           /\ HostOf[i] \in SafeHosts => Slots = 0
    BY <2>1, <1>1, <1>2, <1>5 DEF BlockedIsStuck, Recorded
  <2>3. VerdictOf' = "stuck"
    BY <1>1, <1>5 DEF VerdictOf, Ended
  <2> QED
    BY <2>2, <2>3, <1>1, <1>3 DEF Contract!EndStuck
<1> QED
  BY <1>1, <1>4, <1>5
-----------------------------------------------------------------------------
LEMMA NextRoundStep ==
  ASSUME TypeOK, TypeOK', NextIteration
  PROVE  Contract!NextRound
<1>1. Candidates' \subseteq Item
  BY DEF TypeOK, Candidates
<1>2. VerdictOf = "open" /\ VerdictOf' = "open"
  BY VerdictWhile DEF NextIteration, VerdictOf
<1>3. /\ captured # {} /\ captured' = {} /\ iteration' = iteration + 1
      /\ iteration < MaxIterations
      /\ UNCHANGED <<content, failures, autoHosts, overwrite, Slots>>
  BY DEF NextIteration, ClearIteration, Slots
<1> QED
  BY <1>1, <1>2, <1>3 DEF Contract!NextRound

LEMMA StartStep ==
  ASSUME TypeOK, TypeOK', Invoke
  PROVE  Contract!Start
<1>1. Candidates' \subseteq Item
  BY DEF TypeOK, Candidates
<1>2. VerdictOf # "open" /\ VerdictOf' = "open"
  BY VerdictAfter DEF Invoke, VerdictOf
<1>3. /\ captured' = {} /\ iteration' = 1 /\ autoHosts' = {} /\ overwrite' \in BOOLEAN
      /\ UNCHANGED <<content, failures>>
  BY DEF Invoke, ClearIteration, TypeOK
<1>4. Slots' = MaxAutoHosts
  BY <1>3, FS_EmptySet, BoundAssumption DEF Slots
<1> QED
  BY <1>1, <1>2, <1>3, <1>4 DEF Contract!Start

LEMMA ContractSteps ==
  ASSUME TypeOK, HostsAreAllowed, EndInv, [Next]_vars
  PROVE  [Contract!ContractNext]_(Contract!contractVars)
<1>1. TypeOK' /\ HostsAreAllowed'
  BY NextType, NextHosts
<1> USE DEF Contract!ContractNext
<1>2. CASE Invoke
  BY <1>1, <1>2, StartStep
<1>3. CASE SkipRun \/ SetupFails \/ StartRun \/ WorkflowRaises \/ WorkflowReturns \/ BeginCapture
  BY <1>1, <1>3, LearnStep
     DEF SkipRun, SetupFails, StartRun, WorkflowRaises, WorkflowReturns, WriteReport, BeginCapture
<1>4. CASE \E i \in Item : LogMiss(i) \/ LogRecordedError(i) \/ LogMentioned(i) \/ StopOnMiss(i)
  BY <1>1, <1>4, LearnStep DEF LogMiss, LogRecordedError, LogMentioned, StopOnMiss, WriteReport
<1>5. CASE ValidationBlocks \/ LimitReached \/ Abort
  BY <1>5, UnfinishedStep DEF ValidationBlocks, LimitReached, Abort, Finish, Ended
<1>6. CASE \E reply \in [Fetched -> Reply] : CapturePass(reply)
  BY <1>1, <1>6, PassStep
<1>7. CASE AbortCapture
  BY <1>7, AbortedPassStep
<1>8. CASE AcceptRun
  BY <1>8, AcceptStep
<1>9. CASE NothingCaptured
  BY <1>9, NothingCapturedStep
<1>10. CASE NextIteration
  BY <1>1, <1>10, NextRoundStep
<1>11. CASE UNCHANGED vars
  BY <1>11 DEF Contract!contractVars, Candidates, VerdictOf, Slots
<1> QED
  BY <1>2, <1>3, <1>4, <1>5, <1>6, <1>7, <1>8, <1>9, <1>10, <1>11 DEF Next, Harness, Environment

(* However many items, hosts, rounds and invocations there are, prepare-   *)
(* case does what the contract says: it fetches from permitted hosts only, *)
(* pays for each round, and "ready" and "stuck" are true when it says so.  *)
THEOREM ContractIsKept == Spec => ContractKept
<1>1. Init => Contract!ContractInit
  BY ContractStarts
<1>2. TypeOK /\ HostsAreAllowed /\ EndInv /\ [Next]_vars
        => [Contract!ContractNext]_(Contract!contractVars)
  BY ContractSteps
<1> QED
  BY <1>1, <1>2, InitType, NextType, InitHosts, NextHosts, EndInvariant, PTL
     DEF Spec, ContractKept, Contract!ContractSpec
=============================================================================
