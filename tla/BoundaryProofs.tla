--------------------------- MODULE BoundaryProofs ---------------------------
(* What holds of the boundary for all fixtures, commands and tasks.        *)
EXTENDS Boundary, FiniteSetTheorems, TLAPS

-----------------------------------------------------------------------------
(* Commands name URLs, and so do their refusals.                           *)
LEMMA SegmentsAre ==
  ASSUME NEW c \in Command
  PROVE  c[1] \in Segments(c) /\ Segments(c) \subseteq Segment
  BY BoundaryAssumption DEF Segments

LEMMA UrlsAre ==
  ASSUME NEW c \in Command
  PROVE  Urls(c) \subseteq Url /\ OptionUrls(c) \subseteq Url /\ HiddenUrls(c) \subseteq Url
  BY SegmentsAre DEF Urls, OptionUrls, HiddenUrls, Segment

LEMMA RefusalNames ==
  ASSUME NEW c \in Command, NEW held, NEW m
  PROVE  Refusal(c, held, m).names \subseteq Url
<1>1. Undeclared(c, held) \subseteq Url
  BY UrlsAre DEF Undeclared
<1> QED
  BY <1>1, UrlsAre DEF Refusal

LEMMA ReachedAre ==
  ASSUME NEW c \in Command, NEW held
  PROVE  Reached(c, held) \subseteq Url \X Way
  BY UrlsAre DEF Reached, Way, OptionWay

LEMMA ReachesType ==
  ASSUME NEW pairs, pairs \subseteq (Url \cup {Model}) \X Way, Reaches(pairs)
  PROVE  traffic' \subseteq (Url \cup {Model}) \X Way
<1>1. traffic' = pairs \/ traffic' = {}
  BY DEF Reaches
<1> QED
  BY <1>1

LEMMA NothingIs == Reaches({}) => traffic' = {}
  BY DEF Reaches

LEMMA DirectlyIs ==
  ASSUME NEW u \in Url \cup {Model}
  PROVE  {<<u, "direct">>} \subseteq (Url \cup {Model}) \X Way
<1>1. <<u, "direct">> \in (Url \cup {Model}) \X Way
  BY DEF Way
<1> QED
  BY <1>1
-----------------------------------------------------------------------------
LEMMA BoundaryInitType == BoundaryInit => BoundaryTypeOK
  BY BoundaryAssumption DEF BoundaryInit, BoundaryTypeOK

LEMMA BoundaryNextType == BoundaryTypeOK /\ [BoundaryNext]_boundaryVars => BoundaryTypeOK'
<1> SUFFICES ASSUME BoundaryTypeOK, [BoundaryNext]_boundaryVars PROVE BoundaryTypeOK'
  OBVIOUS
<1> USE DEF BoundaryTypeOK, fixtures, tasks
<1>1. ASSUME NEW t \in Task, Enter(t) PROVE BoundaryTypeOK'
  BY <1>1 DEF Enter
<1>2. ASSUME NEW t \in Task, TaskEnds(t) PROVE BoundaryTypeOK'
  BY <1>2, NothingIs DEF TaskEnds
<1>3. ASSUME NEW t \in Task, ModelCall(t) PROVE BoundaryTypeOK'
  <2>1. traffic' \subseteq (Url \cup {Model}) \X Way
    BY <1>3, DirectlyIs, ReachesType DEF ModelCall
  <2> QED
    BY <1>3, <2>1 DEF ModelCall
<1>4. ASSUME NEW t \in Task, ModelReturns(t) PROVE BoundaryTypeOK'
  BY <1>4, NothingIs DEF ModelReturns
<1>5. ASSUME NEW t \in Task, NEW s \in Task, Spawn(t, s) PROVE BoundaryTypeOK'
  BY <1>5, NothingIs DEF Spawn
<1>6. ASSUME NEW t \in Task, NEW u \in Url \cup {Model}, Connect(t, u) PROVE BoundaryTypeOK'
  <2>1. traffic' \subseteq (Url \cup {Model}) \X Way
    BY <1>6, DirectlyIs, ReachesType DEF Connect
  <2> QED
    BY <1>6, <2>1 DEF Connect
<1>7. ASSUME NEW t \in Task, NEW u \in Url, NEW unsafe \in BOOLEAN, Http(t, u, unsafe)
      PROVE  BoundaryTypeOK'
  <2>1. traffic' \subseteq (Url \cup {Model}) \X Way
    BY <1>7, DirectlyIs, ReachesType, NothingIs DEF Http
  <2> QED
    BY <1>7, <2>1 DEF Http
<1>8. ASSUME NEW t \in Task, NEW c \in Command, Run(t, c) PROVE BoundaryTypeOK'
  <2>1. Reached(c, has) \subseteq (Url \cup {Model}) \X Way
    BY ReachedAre
  <2>2. traffic' \subseteq (Url \cup {Model}) \X Way
    BY <1>8, <2>1, ReachesType, NothingIs DEF Run
  <2> QED
    BY <1>8, <2>2, RefusalNames, UrlsAre DEF Run
<1>9. CASE Leave
  BY <1>9 DEF Leave
<1>10. ASSUME NEW u \in Url, NEW records \in Records, CaptureUrl(u, records)
       PROVE  BoundaryTypeOK'
  BY <1>10 DEF CaptureUrl, Records, Fact
<1>11. CASE UNCHANGED boundaryVars
  BY <1>11 DEF boundaryVars
<1> QED
  BY <1>1, <1>2, <1>3, <1>4, <1>5, <1>6, <1>7, <1>8, <1>9, <1>10, <1>11 DEF BoundaryNext

(* The state of the boundary has its type.                                 *)
THEOREM BoundaryTypeCorrect == BoundarySpec => []BoundaryTypeOK
<1> QED
  BY BoundaryInitType, BoundaryNextType, PTL DEF BoundarySpec
-----------------------------------------------------------------------------
(* A command that is let through and has no recorded answer reaches what   *)
(* the exceptions allow.                                                   *)
LEMMA LetThrough ==
  ASSUME Guarded, NEW c \in Command,
         ~Refusal(c, has, mode).refused, Answer(c, has, mode) = "runs"
  PROVE  \A reach \in Reached(c, has) : Allowed(reach[1], reach[2])
<1>1. c \notin replays
  BY DEF Answer
<1>2. mode \in {"replay_only", "network_denied"}
  BY DEF Guarded
<1>3. CASE IsMockGit(c, has)
  <2>1. Urls(c) \subseteq Mocked(has)
    BY <1>3 DEF IsMockGit, Urls
  <2>2. Mocked(has) # {}
    BY <1>3, <2>1 DEF IsMockGit
  <2> QED
    BY <2>1, <2>2 DEF Reached, Allowed, OptionWay
<1>4. CASE ~IsMockGit(c, has) /\ Urls(c) # {}
  <2>1. CASE mode = "network_denied"
    BY <1>1, <1>4, <2>1 DEF Refusal
  <2>2. CASE mode = "replay_only"
    BY <1>4, <2>2 DEF Answer
  <2> QED
    BY <1>2, <2>1, <2>2
<1>5. CASE ~IsMockGit(c, has) /\ Urls(c) = {}
  <2>1. Undeclared(c, has) = {}
    BY <1>1, <1>2, <1>5 DEF Refusal
  <2>2. c[1].program = "download" => \A u \in OptionUrls(c) : "file" \in has[u]
    BY <2>1 DEF Undeclared
  <2> QED
    BY <1>5, <2>2 DEF Reached, Allowed, OptionWay
<1> QED
  BY <1>3, <1>4, <1>5

(* The strengthening: outside a call of the provider only the client's own *)
(* tasks have the context variable set, and no task outlives a run.        *)
ContextsAreHeld ==
  /\ ~patched => \A t \in Task : state[t] = "none"
  /\ (patched /\ Guarded) =>
       \A t \in Task : (passthrough[t] /\ state[t] # "none") =>
                         t \in Library \/ state[t] = "model"
BoundaryInv == BoundaryTypeOK /\ ContextsAreHeld /\ OnlyModelTraffic

LEMMA BoundaryInitInv == BoundaryInit => BoundaryInv
  BY BoundaryInitType DEF BoundaryInit, BoundaryInv, ContextsAreHeld, OnlyModelTraffic

LEMMA BoundaryNextInv == BoundaryInv /\ [BoundaryNext]_boundaryVars => BoundaryInv'
<1> SUFFICES ASSUME BoundaryInv, [BoundaryNext]_boundaryVars
             PROVE  ContextsAreHeld' /\ OnlyModelTraffic'
  BY BoundaryNextType DEF BoundaryInv
<1> USE DEF BoundaryInv, BoundaryTypeOK, ContextsAreHeld, OnlyModelTraffic, Reaches
<1>0. UNCHANGED fixtures =>
        Guarded' = Guarded /\ \A u, way : Allowed(u, way)' = Allowed(u, way)
  BY DEF fixtures, Guarded, Allowed, Mocked, Rewritten
<1>1. ASSUME NEW t \in Task, Enter(t) PROVE ContextsAreHeld' /\ OnlyModelTraffic'
  BY <1>1, <1>0 DEF Enter
<1>2. ASSUME NEW t \in Task, TaskEnds(t) PROVE ContextsAreHeld' /\ OnlyModelTraffic'
  BY <1>2, <1>0 DEF TaskEnds
<1>3. ASSUME NEW t \in Task, ModelCall(t) PROVE ContextsAreHeld' /\ OnlyModelTraffic'
  <2>1. UNCHANGED fixtures
    BY <1>3 DEF ModelCall, fixtures
  <2>2. ContextsAreHeld'
    BY <1>3, <1>0, <2>1 DEF ModelCall
  <2>3. OnlyModelTraffic'
    <3>1. \A reach \in traffic' : reach = <<Model, "direct">>
      BY <1>3 DEF ModelCall
    <3>2. Allowed(Model, "direct")
      BY DEF Allowed
    <3>3. UNCHANGED patched
      BY <1>3 DEF ModelCall
    <3>4. ASSUME NEW reach \in traffic', patched, Guarded PROVE Allowed(reach[1], reach[2])
      BY <3>1, <3>2
    <3>5. Guarded' = Guarded /\ patched' = patched
      BY <1>0, <2>1, <3>3
    <3> QED
      BY <1>0, <2>1, <3>4, <3>5
  <2> QED
    BY <2>2, <2>3
<1>4. ASSUME NEW t \in Task, ModelReturns(t) PROVE ContextsAreHeld' /\ OnlyModelTraffic'
  <2>1. patched
    BY <1>4 DEF ModelReturns
  <2> QED
    BY <1>4, <1>0, <2>1 DEF ModelReturns
<1>5. ASSUME NEW t \in Task, NEW s \in Task, Spawn(t, s)
      PROVE  ContextsAreHeld' /\ OnlyModelTraffic'
  BY <1>5, <1>0 DEF Spawn
<1>6. ASSUME NEW t \in Task, NEW u \in Url \cup {Model}, Connect(t, u)
      PROVE  ContextsAreHeld' /\ OnlyModelTraffic'
  <2>1. Guarded => u = Model
    BY <1>6 DEF Connect
  <2> QED
    <3>1. \A reach \in traffic' : reach = <<Model, "direct">>
      BY <1>6, <2>1 DEF Connect
    <3>2. Allowed(Model, "direct")
      BY DEF Allowed
    <3>3. UNCHANGED <<fixtures, patched, tasks>>
      BY <1>6 DEF Connect
    <3> QED
      BY <1>0, <3>1, <3>2, <3>3 DEF tasks
<1>7. ASSUME NEW t \in Task, NEW u \in Url, NEW unsafe \in BOOLEAN, Http(t, u, unsafe)
      PROVE  ContextsAreHeld' /\ OnlyModelTraffic'
  <2>1. Guarded => Fetched(u, has, mode) # "runs"
    BY DEF Guarded, Fetched
  <2> QED
    BY <1>7, <1>0, <2>1 DEF Http, tasks
<1>8. ASSUME NEW t \in Task, NEW c \in Command, Run(t, c)
      PROVE  ContextsAreHeld' /\ OnlyModelTraffic'
  <2>1. UNCHANGED <<fixtures, patched, tasks>>
    BY <1>8 DEF Run
  <2>2. Guarded => \A reach \in traffic' : Allowed(reach[1], reach[2])
    BY <1>8, LetThrough DEF Run
  <2> QED
    BY <1>0, <2>1, <2>2 DEF tasks
<1>9. CASE Leave
  BY <1>9, <1>0 DEF Leave
<1>10. ASSUME NEW u \in Url, NEW records \in Records, CaptureUrl(u, records)
       PROVE  ContextsAreHeld' /\ OnlyModelTraffic'
  BY <1>10 DEF CaptureUrl, tasks
<1>11. CASE UNCHANGED boundaryVars
  BY <1>11, <1>0 DEF boundaryVars, fixtures
<1> QED
  BY <1>1, <1>2, <1>3, <1>4, <1>5, <1>6, <1>7, <1>8, <1>9, <1>10, <1>11 DEF BoundaryNext

(* A run that is to be offline reaches the model's provider by its own     *)
(* sockets and HTTP clients and nothing else, whatever its commands are    *)
(* and however its tasks are started inside each other's calls. A program  *)
(* it starts is let through with a URL among its arguments only where mock *)
(* data without a repository says so. What a program reaches without such  *)
(* an argument is limited as Allowed has it: hidden URLs not at all.       *)
THEOREM OnlyTheModelIsReached == BoundarySpec => []OnlyModelTraffic
<1>1. BoundaryInv => OnlyModelTraffic
  BY DEF BoundaryInv
<1> QED
  BY <1>1, BoundaryInitInv, BoundaryNextInv, PTL DEF BoundarySpec
-----------------------------------------------------------------------------
(* A call with one URL that is captured as the client needs it.            *)
LEMMA SingleIs ==
  ASSUME NEW c \in Command, Single(c), NEW u, Urls(c) = {u}
  PROVE  /\ Segments(c) = {c[1]} /\ Len(c) = 1
         /\ c[1].urls = {u} /\ OptionUrls(c) = {} /\ HiddenUrls(c) = {}
<1>1. /\ Len(c) = 1 /\ c \in Seq(Segment)
      /\ OptionUrls(c) = {} /\ HiddenUrls(c) = {}
  BY BoundaryAssumption DEF Single
<1>2. DOMAIN c = {1}
  BY <1>1
<1>3. Segments(c) = {c[1]}
  BY <1>2 DEF Segments
<1> QED
  BY <1>1, <1>3 DEF Urls

LEMMA GitIsAnswered ==
  ASSUME NEW c \in Command, Single(c), NEW u \in Url, Urls(c) = {u}, c[1].program = "git",
         NEW held, {"mock", "rewrite"} \subseteq held[u] \/ "failure" \in held[u]
  PROVE  /\ ~Refusal(c, held, "replay_only").refused
         /\ \/ Answer(c, held, "replay_only") = "recorded"
            \/ Answer(c, held, "replay_only") = "runs" /\ Reached(c, held) = {}
<1>1. /\ Segments(c) = {c[1]} /\ Len(c) = 1
      /\ c[1].urls = {u} /\ OptionUrls(c) = {} /\ HiddenUrls(c) = {}
  BY SingleIs
<1>2. Cardinality(Downloads(c)) # 1
  <2>1. Downloads(c) = {}
    BY <1>1 DEF Downloads
  <2> QED
    BY <2>1, FS_EmptySet
<1>3. CASE "failure" \in held[u]
  <2>1. IsGit(c) /\ FailsFor(Urls(c), held)
    BY <1>3 DEF IsGit, FailsFor, Failing
  <2>2. ~Refusal(c, held, "replay_only").refused
    BY <1>1, <2>1 DEF Refusal
  <2>3. Answer(c, held, "replay_only") = "recorded"
    BY <1>2, <2>1 DEF Answer
  <2> QED
    BY <2>2, <2>3
<1>4. CASE {"mock", "rewrite"} \subseteq held[u]
  <2>1. IsMockGit(c, held)
    BY <1>1, <1>4 DEF IsMockGit, Mocked
  <2>2. ~Refusal(c, held, "replay_only").refused
    BY <1>1, <2>1 DEF Refusal
  <2>3. Answer(c, held, "replay_only") \in {"recorded", "runs"}
    BY <1>2, <2>1 DEF Answer
  <2>4. Reached(c, held) = {}
    BY <1>1, <1>4 DEF Reached, Rewritten
  <2> QED
    BY <2>2, <2>3, <2>4
<1> QED
  BY <1>3, <1>4

LEMMA DownloadIsAnswered ==
  ASSUME NEW c \in Command, Single(c), NEW u \in Url, Urls(c) = {u}, c[1].program = "download",
         NEW held, "file" \in held[u], "lost" \notin held[u]
  PROVE  /\ ~Refusal(c, held, "replay_only").refused
         /\ Answer(c, held, "replay_only") = "recorded"
<1>1. /\ Segments(c) = {c[1]} /\ Len(c) = 1
      /\ c[1].urls = {u} /\ OptionUrls(c) = {}
  BY SingleIs
<1>2. Downloads(c) = {u} /\ Cardinality(Downloads(c)) = 1
  <2>1. Downloads(c) = UNION {s.urls : s \in {t \in {c[1]} : t.program = "download"}}
    BY <1>1 DEF Downloads
  <2>2. {t \in {c[1]} : t.program = "download"} = {c[1]}
    OBVIOUS
  <2>3. Downloads(c) = {u}
    BY <1>1, <2>1, <2>2
  <2> QED
    BY <2>3, FS_Singleton
<1>3. HasUrl(held, u) /\ Readable(held, u)
  BY DEF HasUrl, Readable
<1>4. ~Refusal(c, held, "replay_only").refused
  BY <1>1 DEF Refusal, IsGit
<1>5. Answer(c, held, "replay_only") = "recorded"
  BY <1>2, <1>3 DEF Answer
<1> QED
  BY <1>4, <1>5

LEMMA TypeAnswers == BoundaryTypeOK => CapturedIsAnswered
<1> SUFFICES ASSUME BoundaryTypeOK, mode = "replay_only",
                    NEW u \in Url, "lost" \notin has[u]
             PROVE  /\ Fetched(u, [has EXCEPT ![u] = @ \cup {"file"}], mode) = "recorded"
                    /\ \A c \in Command :
                         (Single(c) /\ Urls(c) = {u} /\ c[1].program \in {"git", "download"}) =>
                           \A records \in Needs(c) :
                             LET held == [has EXCEPT ![u] = @ \cup records]
                             IN  /\ ~Refusal(c, held, mode).refused
                                 /\ \/ Answer(c, held, mode) = "recorded"
                                    \/ Answer(c, held, mode) = "runs" /\ Reached(c, held) = {}
  BY DEF CapturedIsAnswered
<1>1. Fetched(u, [has EXCEPT ![u] = @ \cup {"file"}], mode) = "recorded"
  BY DEF BoundaryTypeOK, Fetched, HasUrl, Readable
<1>2. ASSUME NEW c \in Command, Single(c), Urls(c) = {u}, c[1].program \in {"git", "download"},
             NEW records \in Needs(c)
      PROVE  LET held == [has EXCEPT ![u] = @ \cup records]
             IN  /\ ~Refusal(c, held, mode).refused
                 /\ \/ Answer(c, held, mode) = "recorded"
                    \/ Answer(c, held, mode) = "runs" /\ Reached(c, held) = {}
  <2> DEFINE held == [has EXCEPT ![u] = @ \cup records]
  <2>1. held[u] = has[u] \cup records
    BY DEF BoundaryTypeOK
  <2>2. CASE c[1].program = "git"
    <3>1. {"mock", "rewrite"} \subseteq held[u] \/ "failure" \in held[u]
      BY <1>2, <2>1, <2>2 DEF Needs, IsGit
    <3> HIDE DEF held
    <3>2. /\ ~Refusal(c, held, mode).refused
          /\ \/ Answer(c, held, mode) = "recorded"
             \/ Answer(c, held, mode) = "runs" /\ Reached(c, held) = {}
      BY <1>2, <2>2, <3>1, GitIsAnswered
    <3> QED
      BY <3>2 DEF held
  <2>3. CASE c[1].program = "download"
    <3>1. "file" \in held[u] /\ "lost" \notin held[u]
      BY <1>2, <2>1, <2>3 DEF Needs, IsGit
    <3> HIDE DEF held
    <3>2. ~Refusal(c, held, mode).refused /\ Answer(c, held, mode) = "recorded"
      BY <1>2, <2>3, <3>1, DownloadIsAnswered
    <3> QED
      BY <3>2 DEF held
  <2> QED
    BY <1>2, <2>2, <2>3
<1> QED
  BY <1>1, <1>2

(* Whatever else the fixtures hold, a call with one URL is answered once   *)
(* that URL is captured as its client needs it.                            *)
THEOREM CapturesAreAnswered == BoundarySpec => []CapturedIsAnswered
<1> QED
  BY BoundaryTypeCorrect, TypeAnswers, PTL
-----------------------------------------------------------------------------
(* What the exceptions come from: mock data without a repository prepared  *)
(* for it, which no capture leaves behind, and URLs that are no arguments. *)
MocksAreRewritten == \A u \in Url : "mock" \in has[u] => "rewrite" \in has[u]

LEMMA NextMocks ==
  BoundaryTypeOK /\ MocksAreRewritten /\ [BoundaryNext]_boundaryVars => MocksAreRewritten'
<1> SUFFICES ASSUME BoundaryTypeOK, MocksAreRewritten, [BoundaryNext]_boundaryVars
             PROVE  MocksAreRewritten'
  OBVIOUS
<1>1. CASE has' = has
  BY <1>1 DEF MocksAreRewritten
<1>2. CASE \E u \in Url, records \in Records : CaptureUrl(u, records)
  BY <1>2 DEF CaptureUrl, Records, MocksAreRewritten, BoundaryTypeOK
<1>3. has' = has \/ \E u \in Url, records \in Records : CaptureUrl(u, records)
  BY DEF BoundaryNext, boundaryVars, fixtures, Enter, TaskEnds, ModelCall, ModelReturns, Spawn,
         Connect, Http, Run, Leave
<1> QED
  BY <1>1, <1>2, <1>3

(* The ways that are left to a run of such commands.                       *)
PlainTraffic == \A reach \in traffic : reach[2] \in {"direct", "argument"}

LEMMA NextPlain ==
  ASSUME \A c \in Command : OptionUrls(c) = {} /\ HiddenUrls(c) = {}
  PROVE  PlainTraffic /\ [BoundaryNext]_boundaryVars => PlainTraffic'
<1> SUFFICES ASSUME PlainTraffic, [BoundaryNext]_boundaryVars PROVE PlainTraffic'
  OBVIOUS
<1> USE DEF PlainTraffic, Reaches
<1>1. CASE UNCHANGED traffic \/ \E t \in Task : Enter(t)
  BY <1>1 DEF Enter
<1>2. ASSUME NEW t \in Task, ModelCall(t) PROVE PlainTraffic'
  BY <1>2 DEF ModelCall
<1>3. ASSUME NEW t \in Task, NEW u \in Url \cup {Model}, Connect(t, u) PROVE PlainTraffic'
  BY <1>3 DEF Connect
<1>4. ASSUME NEW t \in Task, NEW u \in Url, NEW unsafe \in BOOLEAN, Http(t, u, unsafe)
      PROVE  PlainTraffic'
  BY <1>4 DEF Http
<1>5. ASSUME NEW t \in Task, NEW c \in Command, Run(t, c) PROVE PlainTraffic'
  <2>1. \A reach \in Reached(c, has) : reach[2] = "argument"
    BY DEF Reached
  <2> QED
    BY <1>5, <2>1 DEF Run
<1> QED
  BY <1>1, <1>2, <1>3, <1>4, <1>5
     DEF BoundaryNext, boundaryVars, TaskEnds, ModelReturns, Spawn, Leave, CaptureUrl

(* Where each mocked repository is prepared and each command says what it  *)
(* reaches by http URLs that are arguments of their own, so that the check *)
(* sees them all, the documentation is right: a guarded run reaches the    *)
(* model's provider only.                                                  *)
THEOREM OnlyTheModelWithoutExceptions ==
  ASSUME \A facts \in Holdings : "mock" \in facts => "rewrite" \in facts,
         \A c \in Command : OptionUrls(c) = {} /\ HiddenUrls(c) = {}
  PROVE  BoundarySpec => []OnlyModelTrafficAtAll
<1>1. BoundaryInit => MocksAreRewritten
  BY DEF BoundaryInit, MocksAreRewritten
<1>p. BoundaryInit => PlainTraffic
  BY DEF BoundaryInit, PlainTraffic
<1>n. PlainTraffic /\ [BoundaryNext]_boundaryVars => PlainTraffic'
  BY NextPlain
<1>2. MocksAreRewritten /\ PlainTraffic /\ BoundaryInv => OnlyModelTrafficAtAll
  <2> SUFFICES ASSUME MocksAreRewritten, PlainTraffic, OnlyModelTraffic, patched, Guarded,
                      NEW reach \in traffic, BoundaryTypeOK
               PROVE  reach \in {Model} \X {"direct"}
    BY DEF BoundaryInv, OnlyModelTrafficAtAll
  <2>1. Mocked(has) \subseteq Rewritten(has)
    BY DEF Mocked, Rewritten, MocksAreRewritten
  <2>2. Allowed(reach[1], reach[2]) /\ reach[2] \in {"direct", "argument"}
    BY DEF OnlyModelTraffic, PlainTraffic
  <2>3. reach[1] = Model /\ reach[2] = "direct"
    BY <2>1, <2>2 DEF Allowed
  <2>4. reach \in (Url \cup {Model}) \X Way
    BY DEF BoundaryTypeOK
  <2>5. reach = <<reach[1], reach[2]>>
    BY <2>4
  <2> QED
    BY <2>3, <2>5
<1>3. BoundaryInv => BoundaryTypeOK
  BY DEF BoundaryInv
<1> QED
  BY <1>1, <1>p, <1>n, <1>2, <1>3, BoundaryInitInv, BoundaryNextInv, NextMocks, PTL
     DEF BoundarySpec
=============================================================================
