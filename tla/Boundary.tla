------------------------------ MODULE Boundary ------------------------------
(***************************************************************************)
(* What a run may reach: enforcement.py, with the lookups of replay.py and *)
(* the detections of safety.py it asks.                                    *)
(*                                                                         *)
(* A run's tasks call the guarded clients. A call is answered from the     *)
(* fixtures, refused, answered as a miss (which names a URL for capture)   *)
(* or let through. Sockets are closed to every task, except while it is in *)
(* a call of the model's provider: a context variable says so, which a     *)
(* task takes over from the one that starts it.                            *)
(***************************************************************************)
EXTENDS FiniteSets, Naturals, Sequences

CONSTANTS
  Url,       \* URLs a run may ask for
  Model,     \* a URL of the model's provider
  Agent,     \* tasks of the agent
  Library,   \* tasks an HTTP client starts inside a call
  Command,   \* commands: sequences of segments, see Segment
  Recorded,  \* sets of commands whose result may be recorded
  Holdings   \* what the fixtures may hold for one URL: sets of facts

Task == Agent \cup Library

(* Facts: "file" the manifest records it, "lost" but the file is missing   *)
(* or empty; "repository" of the source cache answers it; "failure" of git *)
(* is recorded; "mock" it is in MOCK_BLOCKED_URLS; "rewrite" the run's git *)
(* configuration replaces it by a local repository.                        *)
Fact == {"file", "lost", "repository", "failure", "mock", "rewrite"}

(* The segments of a command: the program, the URLs that are arguments of  *)
(* their own, those inside an option (--url=URL) and the hidden ones: what *)
(* the program asks for though no token spells it as an http URL and no    *)
(* git configuration of the run replaces it (a remote by its name, ssh and *)
(* scp addresses, a host without a scheme, a file of URLs, a script).      *)
Program == {"git", "download", "manager", "submit", "other"}
Segment == [program : Program, urls : SUBSET Url, options : SUBSET Url, hidden : SUBSET Url]

(* How the run reaches a URL: through its own sockets and HTTP clients, or *)
(* through a program it starts, which no socket guard binds.               *)
Way == {"direct", "argument", "option", "download option", "hidden"}

ASSUME BoundaryAssumption ==
  /\ Model \notin Url
  /\ Agent \cap Library = {}
  /\ Holdings \subseteq SUBSET Fact
  /\ \A facts \in Holdings : "rewrite" \in facts => "mock" \in facts
  /\ \A c \in Command : c \in Seq(Segment) /\ c # <<>>
  /\ Recorded \subseteq SUBSET Command

Mode == {"replay_only", "network_denied", "live_non_reproducible"}

VARIABLES
  mode,         \* YMIR_BENCHMARK_NETWORK_MODE of the run
  has,          \* [Url -> facts]
  replays,      \* commands with a recorded result
  patched,      \* the run is inside enforce_benchmark_boundaries
  state,        \* [Task -> "none", "idle" or "model", in a call of the provider]
  passthrough,  \* [Task -> the context variable of the task]
  traffic,      \* what a step of a guarded run has just reached, and how
  named         \* URLs the run was told it misses or may not reach

boundaryVars == <<mode, has, replays, patched, state, passthrough, traffic, named>>
fixtures == <<mode, has, replays>>
tasks == <<state, passthrough>>

BoundaryTypeOK ==
  /\ mode \in Mode
  /\ has \in [Url -> SUBSET Fact]
  /\ replays \subseteq Command
  /\ patched \in BOOLEAN
  /\ state \in [Task -> {"none", "idle", "model"}]
  /\ passthrough \in [Task -> BOOLEAN]
  /\ traffic \subseteq (Url \cup {Model}) \X Way
  /\ named \subseteq Url
-----------------------------------------------------------------------------
Guarded == mode \in {"replay_only", "network_denied"}

(* A step reaches these; what a live run reaches is not kept.              *)
Reaches(pairs) == traffic' = IF Guarded THEN pairs ELSE {}

(* has_url of the replay cache, and read_bytes, which answers from a       *)
(* repository before it looks for the recorded file.                       *)
HasUrl(held, u) == held[u] \cap {"file", "repository"} # {}
Readable(held, u) == "repository" \in held[u] \/ {"file", "lost"} \cap held[u] = {"file"}

Segments(c) == {c[i] : i \in DOMAIN c}
Urls(c) == UNION {s.urls : s \in Segments(c)}
OptionUrls(c) == UNION {s.options : s \in Segments(c)}
HiddenUrls(c) == UNION {s.hidden : s \in Segments(c)}
Downloads(c) == UNION {s.urls : s \in {t \in Segments(c) : t.program = "download"}}
IsGit(c) == c[1].program = "git"

Mocked(held) == {u \in Url : "mock" \in held[u]}
Failing(held) == {u \in Url : "failure" \in held[u]}
Rewritten(held) == {u \in Url : "rewrite" \in held[u]}

(* Every segment that names a URL is git's, on repositories with mock data.*)
IsMockGit(c, held) ==
  /\ Urls(c) # {}
  /\ \A s \in Segments(c) : s.urls # {} => s.program = "git" /\ s.urls \subseteq Mocked(held)

(* git_failure_for_urls: only if a failure is recorded for each of them.   *)
FailsFor(urls, held) == urls # {} /\ urls \subseteq Failing(held)

(* detect_replay_violations reads the options too, those of a download     *)
(* that comes first.                                                       *)
Undeclared(c, held) ==
  IF c[1].program = "download"
  THEN {u \in Urls(c) \cup OptionUrls(c) : "file" \notin held[u]}
  ELSE {}
-----------------------------------------------------------------------------
(* Mutant of Refusal: mock data does not matter.                           *)
RefusalMockless(c, held, m) ==
  LET stops == /\ m # "live_non_reproducible" /\ Urls(c) # {}
               /\ m = "network_denied" \/ (IsGit(c) /\ ~FailsFor(Urls(c), held))
  IN  [refused |-> stops, names |-> IF stops THEN Urls(c) ELSE {}]

(* _check_command: the URLs a refusal may name (it names the first), none  *)
(* if there is no URL to name. Unsafe commands are seen in the first       *)
(* segment, package managers in every one.                                 *)
Refusal(c, held, m) ==
  LET offline == m \in {"replay_only", "network_denied"}
  IN  IF \/ c[1].program = "submit"
         \/ offline /\ \E s \in Segments(c) : s.program = "manager"
      THEN [refused |-> TRUE, names |-> {}]
      ELSE IF \/ ~offline
              \/ m = "replay_only" /\ c \in replays
              \/ IsMockGit(c, held)
      THEN [refused |-> FALSE, names |-> {}]
      ELSE IF Urls(c) # {}
      THEN [refused |-> m = "network_denied" \/ (IsGit(c) /\ ~FailsFor(Urls(c), held)),
            names |-> Urls(c)]
      ELSE [refused |-> Undeclared(c, held) # {}, names |-> Undeclared(c, held)]

(* _subprocess_replay of a command that was not refused: a recorded result,*)
(* the body of a download, a failure of git, a miss, or the real program.  *)
Answer(c, held, m) ==
  IF c \in replays THEN "recorded"
  ELSE IF Cardinality(Downloads(c)) = 1 /\ \A u \in Downloads(c) : HasUrl(held, u)
  THEN IF Len(c) > 1 \/ \A u \in Downloads(c) : Readable(held, u) THEN "recorded" ELSE "error"
  ELSE IF IsGit(c) /\ FailsFor(Urls(c), held) THEN "recorded"
  ELSE IF m = "replay_only" /\ Urls(c) # {} /\ ~IsMockGit(c, held) THEN "missed"
  ELSE "runs"

(* What the real program reaches: git's URLs go through its configuration. *)
OptionWay(c) == IF c[1].program = "download" THEN "download option" ELSE "option"
Reached(c, held) ==
  ((Urls(c) \ Rewritten(held)) \X {"argument"})
    \cup (OptionUrls(c) \X {OptionWay(c)})
    \cup (HiddenUrls(c) \X {"hidden"})

(* The answer of a guarded HTTP client. A repository's answer may be 404.  *)
Fetched(u, held, m) ==
  IF m = "replay_only" /\ HasUrl(held, u)
  THEN IF Readable(held, u) THEN "recorded" ELSE "error"
  ELSE IF m = "replay_only" THEN "missed"
  ELSE IF m = "network_denied" THEN "refused"
  ELSE "runs"
-----------------------------------------------------------------------------
BoundaryInit ==
  /\ mode \in Mode
  /\ has \in [Url -> Holdings]
  /\ replays \in Recorded
  /\ patched = FALSE
  /\ state = [t \in Task |-> "none"]
  /\ passthrough = [t \in Task |-> FALSE]
  /\ traffic = {}
  /\ named = {}

(* A worker, gateway or in-process run enters the context with its tasks.  *)
Enter(t) ==
  /\ ~patched
  /\ t \in Agent
  /\ patched' = TRUE
  /\ state' = [state EXCEPT ![t] = "idle"]
  /\ passthrough' = [passthrough EXCEPT ![t] = FALSE]
  /\ traffic' = {}
  /\ named' = {}
  /\ UNCHANGED fixtures

(* A task starts another one, which gets a copy of its context. Inside a   *)
(* call of the provider it is the client that does so.                     *)
Spawn(t, s) ==
  /\ patched
  /\ state[t] # "none" /\ state[s] = "none"
  /\ s \in Library <=> state[t] = "model" \/ t \in Library
  /\ state' = [state EXCEPT ![s] = "idle"]
  /\ passthrough' = [passthrough EXCEPT ![s] = passthrough[t]]
  /\ Reaches({})
  /\ UNCHANGED <<fixtures, patched, named>>

TaskEnds(t) ==
  /\ patched
  /\ state[t] = "idle"
  /\ state' = [state EXCEPT ![t] = "none"]
  /\ Reaches({})
  /\ UNCHANGED <<fixtures, patched, passthrough, named>>

(* Mutant of ModelReturns: the context variable is not reset.              *)
ModelReturnsOpen(t) ==
  /\ state[t] = "model"
  /\ state' = [state EXCEPT ![t] = "idle"]
  /\ Reaches({})
  /\ UNCHANGED <<fixtures, patched, passthrough, named>>

(* A call of the provider, until its response is there. A POST of it is    *)
(* none of the writes that are refused.                                    *)
ModelCall(t) ==
  /\ patched
  /\ t \in Agent /\ state[t] = "idle"
  /\ state' = [state EXCEPT ![t] = "model"]
  /\ passthrough' = [passthrough EXCEPT ![t] = TRUE]
  /\ Reaches({<<Model, "direct">>})
  /\ UNCHANGED <<fixtures, patched, named>>

ModelReturns(t) ==
  /\ state[t] = "model"
  /\ state' = [state EXCEPT ![t] = "idle"]
  /\ passthrough' = [passthrough EXCEPT ![t] = FALSE]
  /\ Reaches({})
  /\ UNCHANGED <<fixtures, patched, named>>

(* A socket of its own. The client's tasks connect to the provider only.   *)
Connect(t, u) ==
  /\ patched
  /\ state[t] = "idle"
  /\ t \in Library <=> u = Model
  /\ passthrough[t] \/ ~Guarded
  /\ Reaches({<<u, "direct">>})
  /\ UNCHANGED <<fixtures, patched, tasks, named>>

(* urllib, requests and aiohttp alike. A write the harness knows to be     *)
(* unsafe is refused before anything is looked up.                         *)
Http(t, u, unsafe) ==
  LET answer == Fetched(u, has, mode)
  IN  /\ patched
      /\ t \in Agent /\ state[t] = "idle"
      /\ ~(unsafe /\ Guarded)
      /\ Reaches(IF answer = "runs" THEN {<<u, "direct">>} ELSE {})
      /\ named' = IF answer \in {"missed", "refused"} THEN named \cup {u} ELSE named
      /\ UNCHANGED <<fixtures, patched, tasks>>

(* subprocess and asyncio's subprocess.                                    *)
Run(t, c) ==
  LET refusal == Refusal(c, has, mode)
      answer == Answer(c, has, mode)
  IN  /\ patched
      /\ t \in Agent /\ state[t] = "idle"
      /\ IF refusal.refused
         THEN /\ IF refusal.names = {} THEN UNCHANGED named
                 ELSE \E u \in refusal.names : named' = named \cup {u}
              /\ Reaches({})
         ELSE /\ Reaches(IF answer = "runs" THEN Reached(c, has) ELSE {})
              /\ named' = IF answer = "missed" THEN named \cup Urls(c) ELSE named
      /\ UNCHANGED <<fixtures, patched, tasks>>

(* The context is left when the run's tasks are done or cancelled.         *)
Leave ==
  /\ patched
  /\ patched' = FALSE
  /\ state' = [t \in Task |-> "none"]
  /\ traffic' = {}
  /\ UNCHANGED <<fixtures, passthrough, named>>

(* What capture-missing records of a URL: a response, a repository or a    *)
(* failure to clone it.                                                    *)
Records == {{"file"}, {"repository", "mock", "rewrite"}, {"failure"}}

(* Between two runs what the last one named is captured.                   *)
CaptureUrl(u, records) ==
  /\ ~patched
  /\ mode = "replay_only"
  /\ u \in named
  /\ has' = [has EXCEPT ![u] = @ \cup records]
  /\ named' = named \ {u}
  /\ UNCHANGED <<mode, replays, patched, tasks, traffic>>

BoundaryNext ==
  \/ \E t \in Task : Enter(t) \/ TaskEnds(t) \/ ModelCall(t) \/ ModelReturns(t)
  \/ \E t, s \in Task : Spawn(t, s)
  \/ \E t \in Task, u \in Url \cup {Model} : Connect(t, u)
  \/ \E t \in Task, u \in Url, unsafe \in BOOLEAN : Http(t, u, unsafe)
  \/ \E t \in Task, c \in Command : Run(t, c)
  \/ Leave
  \/ \E u \in Url, records \in Records : CaptureUrl(u, records)

BoundarySpec == BoundaryInit /\ [][BoundaryNext]_boundaryVars
-----------------------------------------------------------------------------
(* What a guarded run reaches itself, by a socket or an HTTP client, is    *)
(* the model's provider. The programs it starts are bound by what the      *)
(* check sees in their command, and the code leaves these gaps: git is let *)
(* through to a repository with mock data, also if none could be prepared; *)
(* a URL inside an option is only looked at in a download that comes       *)
(* first, and let through if it is recorded, or if git is let through      *)
(* later in the command; a hidden URL is not looked at.                    *)
Allowed(u, way) ==
  \/ way = "direct" /\ u = Model
  \/ way = "argument" /\ u \in Mocked(has) \ Rewritten(has)
  \/ way = "download option" /\ ("file" \in has[u] \/ Mocked(has) # {})
  \/ way \in {"option", "hidden"}
OnlyModelTraffic == (patched /\ Guarded) => \A reach \in traffic : Allowed(reach[1], reach[2])

(* The same without the exceptions, as the documentation has it.           *)
OnlyModelTrafficAtAll == (patched /\ Guarded) => traffic \subseteq {Model} \X {"direct"}

(* A call with one URL, if that URL is captured as the client needs it,    *)
(* is answered in replay: by the response, by the repository or by the     *)
(* failure. Otherwise the prepare loop would capture it forever. A record  *)
(* whose file is lost is not missed but an error.                          *)
Single(c) ==
  /\ Len(c) = 1
  /\ \E u \in Url : Urls(c) = {u}
  /\ OptionUrls(c) = {} /\ HiddenUrls(c) = {}
Needs(c) == IF IsGit(c) THEN {{"repository", "mock", "rewrite"}, {"failure"}} ELSE {{"file"}}
CapturedIsAnswered ==
  (mode = "replay_only" /\ ~patched) =>
    \A u \in {v \in Url : "lost" \notin has[v]} :
      /\ Fetched(u, [has EXCEPT ![u] = @ \cup {"file"}], mode) = "recorded"
      /\ \A c \in Command :
           (Single(c) /\ Urls(c) = {u} /\ c[1].program \in {"git", "download"}) =>
             \A records \in Needs(c) :
               LET held == [has EXCEPT ![u] = @ \cup records]
               IN  /\ ~Refusal(c, held, mode).refused
                   /\ \/ Answer(c, held, mode) = "recorded"
                      \/ Answer(c, held, mode) = "runs" /\ Reached(c, held) = {}
=============================================================================
