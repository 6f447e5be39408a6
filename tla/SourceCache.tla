---------------------------- MODULE SourceCache ----------------------------
(***************************************************************************)
(* A repository in a case's source_cache, from its capture to what a run   *)
(* reads of it: source_fixtures.py (capture and materialization),          *)
(* mock_repos.py and the answers replay.py makes up from a repository.     *)
(*                                                                         *)
(* A fixture has two halves. A manifest names the commit of each ref as it *)
(* was at the case's date; a submodule of the cases repository has the     *)
(* objects. The submodule is made from a mirror of the upstream, refreshed *)
(* when the fixture is captured again, absent after a fresh clone of the   *)
(* cases and then initialized, shallow if the server allows it. Each run   *)
(* builds a bare repository of its own from the two: its view.             *)
(***************************************************************************)
EXTENDS FiniteSets, Functions

CONSTANTS
  Commit,     \* commits the upstream has had at any time
  Ancestors,  \* [Commit -> the commits reachable from it, itself included]
  Past,       \* commits dated not after the case's date (as_of)
  Ref,        \* names of branches and tags
  Main,       \* the ref the upstream's HEAD names
  NoCommit        \* no commit

(* History is a tree, and dates do not go back along it: the past commits  *)
(* a commit leads to have a newest one.                                    *)
ASSUME HistoryAssumption ==
  /\ Ancestors \in [Commit -> SUBSET Commit]
  /\ \A c \in Commit : c \in Ancestors[c]
  /\ \A c \in Commit : \A b \in Ancestors[c] : Ancestors[b] \subseteq Ancestors[c]
  /\ Past \subseteq Commit
  /\ \A c \in Past : Ancestors[c] \subseteq Past
  /\ \A c \in Commit : Ancestors[c] \cap Past # {} =>
       \E b \in Ancestors[c] \cap Past : Ancestors[c] \cap Past \subseteq Ancestors[b]
  /\ Main \in Ref
  /\ NoCommit \notin Commit

VARIABLES
  upstream,  \* [Ref -> commit of the ref in the upstream repository]
  dated,     \* the case has a date, so captures are made as of it
  manifest,  \* the fixture's manifest, or NoFixture
  local,     \* the submodule, see Submodule
  preFix,    \* pre_fix_ref of the case's mock data
  view       \* what the run under way was given, or NoView

sourceVars == <<upstream, dated, manifest, local, preFix, view>>

Refs == [Ref -> Commit \cup {NoCommit}]
NoRefs == [r \in Ref |-> NoCommit]

(* There is a manifest only if some ref is in it.                          *)
NoFixture == [refs |-> NoRefs, dated |-> FALSE]
Fixture == [refs : Refs, dated : BOOLEAN]

(* Objects whose parents were left out are in cut; link is the commit the  *)
(* cases repository records for the submodule.                             *)
Submodule == [checkout : BOOLEAN, store : SUBSET Commit, cut : SUBSET Commit,
              head : Commit \cup {NoCommit}, link : Commit \cup {NoCommit}]
View == [of : Fixture, refs : Refs, store : SUBSET Commit, cut : SUBSET Commit,
         mock : Commit \cup {NoCommit}]
NoView == [of |-> NoFixture, refs |-> NoRefs, store |-> {}, cut |-> {}, mock |-> NoCommit]

SourceTypeOK ==
  /\ upstream \in Refs
  /\ dated \in BOOLEAN
  /\ manifest \in Fixture
  /\ local \in Submodule
  /\ preFix \in Commit \cup {NoCommit}
  /\ view \in View
-----------------------------------------------------------------------------
Tips(refs) == {refs[r] : r \in Ref} \ {NoCommit}
Closure(commits) == UNION {Ancestors[c] : c \in commits}

(* The commits behind a cut, and those a walk from o does not get to.      *)
Behind(cut) == UNION {Ancestors[k] \ {k} : k \in cut}
Below(cut, o) == Behind(cut \cap Ancestors[o])

(* What a fetch of o from a complete repository adds to a store.           *)
Sent(cut, o) == Ancestors[o] \ Below(cut, o)

NotIn(fixture, store) == Tips(fixture.refs) \ store

(* git rev-list -n 1 --before=<as_of>: the newest ancestor that is old     *)
(* enough.                                                                 *)
Newest(commits) == CHOOSE c \in commits : commits \subseteq Ancestors[c]
Before(c) == IF Ancestors[c] \cap Past = {} THEN NoCommit ELSE Newest(Ancestors[c] \cap Past)
RefsAsOf(refs) ==
  [r \in Ref |-> IF refs[r] = NoCommit \/ ~dated THEN refs[r] ELSE Before(refs[r])]

SourceInit ==
  /\ upstream \in {refs \in Refs : refs[Main] # NoCommit}
  /\ dated \in BOOLEAN
  /\ manifest = NoFixture
  /\ local = [checkout |-> FALSE, store |-> {}, cut |-> {}, head |-> NoCommit,
              link |-> NoCommit]
  /\ preFix = NoCommit
  /\ view = NoView
-----------------------------------------------------------------------------
(* The upstream's developers: a ref moves, forward or not, or goes away.   *)
Push(r, c) ==
  /\ upstream[r] # c
  /\ upstream' = [upstream EXCEPT ![r] = c]
  /\ view' = NoView
  /\ UNCHANGED <<dated, manifest, local, preFix>>

Delete(r) ==
  /\ r # Main
  /\ upstream[r] # NoCommit
  /\ upstream' = [upstream EXCEPT ![r] = NoCommit]
  /\ view' = NoView
  /\ UNCHANGED <<dated, manifest, local, preFix>>

(* Mutant of Fetchable: a ref that is gone counts as an object.            *)
FetchableAll ==
  IF local.checkout
  THEN local.store \cup Sent(local.cut, upstream[Main])
  ELSE Closure(Tips(upstream)) \cup {upstream[r] : r \in Ref}

(* _ensure_writable_submodule takes objects from a mirror of the upstream: *)
(* "submodule add" clones all its branches and tags, but "git fetch" of a  *)
(* submodule that is checked out asks for the mirror's HEAD alone.         *)
Fetchable ==
  IF local.checkout
  THEN local.store \cup Sent(local.cut, upstream[Main])
  ELSE Closure(Tips(upstream))

(* write_source_fixture_from_repository, after the clone of the mirror.    *)
(* The manifest is written last: the commit of the mirror's HEAD may be    *)
(* impossible to check out, and the command may be killed (finished is     *)
(* FALSE).                                                                 *)
CaptureSource(overwrite, finished) ==
  LET refs == RefsAsOf(upstream)
      head == refs[Main]
      fails == head \notin Fetchable \cup {NoCommit}
      cut == IF local.checkout THEN local.cut ELSE {}
  IN  /\ manifest = NoFixture \/ overwrite
      /\ refs # NoRefs
      /\ local' = [checkout |-> TRUE, store |-> Fetchable, cut |-> cut, link |-> local.link,
                   head |-> IF fails THEN local.head
                            ELSE IF head # NoCommit THEN head
                            ELSE IF local.checkout THEN local.head ELSE upstream[Main]]
      /\ IF finished /\ ~fails
         THEN manifest' = [refs |-> refs, dated |-> dated]
         ELSE UNCHANGED manifest
      /\ view' = NoView
      /\ UNCHANGED <<upstream, dated, preFix>>

(* The case gets its date, when its issue is collected again.              *)
DateCase ==
  /\ ~dated
  /\ dated' = TRUE
  /\ view' = NoView
  /\ UNCHANGED <<upstream, manifest, local, preFix>>

(* The cases are committed, with the submodule at the commit it has        *)
(* checked out, and perhaps cloned on another machine, where the           *)
(* submodule's directory is empty.                                         *)
CommitCases ==
  /\ manifest # NoFixture
  /\ local.checkout /\ local.head # NoCommit
  /\ local' = [local EXCEPT !.link = local.head]
  /\ view' = NoView
  /\ UNCHANGED <<upstream, dated, manifest, preFix>>

CloneCases ==
  /\ manifest # NoFixture
  /\ local.checkout /\ local.head # NoCommit
  /\ local' = [local EXCEPT !.checkout = FALSE, !.store = {}, !.cut = {}, !.link = local.head]
  /\ view' = NoView
  /\ UNCHANGED <<upstream, dated, manifest, preFix>>

(* Mutant of Contains: the store is asked whatever the date.               *)
ContainsStored(c) ==
  \/ c \in Tips(manifest.refs)
  \/ local.checkout /\ c \in local.store

(* source_cache_contains_object: with a date, the commits of the manifest, *)
(* else whatever the submodule has.                                        *)
Contains(c) ==
  \/ c \in Tips(manifest.refs)
  \/ ~manifest.dated /\ local.checkout /\ c \in local.store

(* prepare-case infers mock data: a parent of the fix, or the branch.      *)
InferMock(c) ==
  /\ manifest # NoFixture
  /\ Contains(c)
  /\ preFix' = c
  /\ view' = NoView
  /\ UNCHANGED <<upstream, dated, manifest, local>>
-----------------------------------------------------------------------------
(* "submodule update --init --depth 1" has the commit of the cases         *)
(* repository and the tip of the default branch, both without parents; a   *)
(* server that refuses is asked again for everything.                      *)
Initialized(shallow) ==
  LET tips == {local.link, upstream[Main]}
      sub == [local EXCEPT !.checkout = TRUE, !.head = local.link]
  IN  IF shallow
      THEN [sub EXCEPT !.store = tips, !.cut = {c \in tips : Ancestors[c] # {c}}]
      ELSE [sub EXCEPT !.store = Closure(Tips(upstream)), !.cut = {}]

(* Refs the manifest has and the submodule has not are fetched by name.    *)
Completed(sub) ==
  LET absent == {r \in Ref : manifest.refs[r] \notin sub.store \cup {NoCommit}}
  IN  [sub EXCEPT !.store = @ \cup UNION {Sent(sub.cut, upstream[r]) : r \in absent}]

(* What _ensure_source_fixture_submodule asks of the network is there.     *)
Reachable(sub) ==
  \A r \in Ref : manifest.refs[r] \notin sub.store \cup {NoCommit} => upstream[r] # NoCommit

(* Mutant of ViewRefs: the refs are those of today.                        *)
ViewRefsNow(sub) == upstream

(* A dated view is filled by "git fetch <submodule> <object>:<ref>", which *)
(* leaves out, without an error, a ref whose history is cut. Else it is a  *)
(* clone of the whole submodule with the manifest's refs set one by one.   *)
ViewRefs(sub) ==
  [r \in Ref |->
     IF manifest.dated /\ manifest.refs[r] # NoCommit /\ sub.cut \cap Ancestors[manifest.refs[r]] # {}
     THEN NoCommit
     ELSE manifest.refs[r]]

(* Mutant of ViewStore: a dated view is a clone, too.                      *)
ViewStoreWhole(sub) == sub.store
ViewStore(sub) == IF manifest.dated THEN Closure(Tips(ViewRefs(sub))) ELSE sub.store

(* The mock repository is a clone of the view with the branch set to       *)
(* pre_fix_ref; without that commit in the view there is none, as the      *)
(* upstream's own address cannot be cloned.                                *)
MockCommit(store) == IF preFix \in store THEN preFix ELSE NoCommit

Built(sub) ==
  [of |-> manifest, refs |-> ViewRefs(sub), store |-> ViewStore(sub),
   cut |-> IF manifest.dated THEN {} ELSE sub.cut, mock |-> MockCommit(ViewStore(sub))]

(* The submodule before a run asks for the refs it has not.                *)
OpenedSubmodule(shallow) == IF local.checkout THEN local ELSE Initialized(shallow)
CanOpen(online) ==
  local.checkout \/ (online /\ local.link \in Closure(Tips(upstream)))

(* The upstream is asked for what is missing, if it can be.                *)
Answered(online, sub) == NotIn(manifest, sub.store) = {} \/ (online /\ Reachable(sub))

(* The commit of the manifest's HEAD is checked out, if it is there.       *)
Headed(sub) ==
  [sub EXCEPT !.head = IF manifest.refs[Main] \in sub.store THEN manifest.refs[Main] ELSE @]

(* materialize_case_source_cache for a run, and its failures: the upstream *)
(* cannot be asked or does not have what is missing, and the run ends      *)
(* before it starts.                                                       *)
MaterializeSource(online, shallow) ==
  LET sub  == OpenedSubmodule(shallow)
      full == Completed(sub)
  IN  /\ manifest # NoFixture
      /\ CanOpen(online)
      /\ IF Answered(online, sub)
         THEN /\ local' = Headed(full)
              /\ view' = IF NotIn(manifest, full.store) = {} THEN Built(full) ELSE NoView
         ELSE /\ local' = sub
              /\ view' = NoView
      /\ UNCHANGED <<upstream, dated, manifest, preFix>>
-----------------------------------------------------------------------------
(* What validate-cases finds wrong: the submodule's commit is not the one  *)
(* of the manifest (an error), the manifest has not the case's date, the   *)
(* commit of the mock data is not found (warnings).                        *)
Gitlink ==
  IF local.link # NoCommit THEN local.link
  ELSE IF local.checkout THEN local.head ELSE NoCommit

(* Mutant of LinkAgrees: any commit will do.                               *)
LinkAgreesAny == manifest.refs[Main] = NoCommit \/ Gitlink # NoCommit
LinkAgrees == manifest.refs[Main] \in {NoCommit, Gitlink}
DateAgrees == dated => manifest.dated
PreFixChecked == preFix # NoCommit /\ Contains(preFix)
-----------------------------------------------------------------------------
SourceNext ==
  \/ \E r \in Ref, c \in Commit : Push(r, c)
  \/ \E r \in Ref : Delete(r)
  \/ \E overwrite, finished \in BOOLEAN : CaptureSource(overwrite, finished)
  \/ DateCase
  \/ CommitCases
  \/ CloneCases
  \/ \E c \in Commit : InferMock(c)
  \/ \E online, shallow \in BOOLEAN : MaterializeSource(online, shallow)

SourceSpec == SourceInit /\ [][SourceNext]_sourceVars
-----------------------------------------------------------------------------
(* What replay answers from a view.                                        *)
Walk(v, o) == (Ancestors[o] \cap v.store) \ Below(v.cut, o)
Advertised(v, c) ==
  IF Tips(v.refs) = {} THEN c \in v.store ELSE \E o \in Tips(v.refs) : c \in Walk(v, o)

(* Mutant of Patch: any commit of the store is answered.                   *)
PatchStored(v, c) == IF c \in v.store THEN {c} ELSE {}

(* The patch of a commit, and a file at a commit.                          *)
Patch(v, c) == IF c \in v.store /\ Advertised(v, c) THEN {c} ELSE {}
FileAt(v, c) == IF Advertised(v, c) /\ c \in v.store THEN {c} ELSE {}

(* The log from a commit or a ref.                                         *)
Log(v, c) == IF c \in v.store THEN Walk(v, c) ELSE {}

(* The commits a run can learn anything of, with git or by a URL.          *)
Disclosed(v) ==
  (UNION {Patch(v, c) \cup FileAt(v, c) \cup Log(v, c) : c \in Commit}) \cup v.store
-----------------------------------------------------------------------------
(* In a run of a case with a date whose fixture validates without a        *)
(* warning about it, no answer has a commit after that date, however the   *)
(* fixture came about.                                                     *)
NothingFromTheFuture == (dated /\ DateAgrees) => Disclosed(view) \subseteq Past

(* A run is answered for the commits of the recorded refs and for no       *)
(* others that happen to be in the store, by patch and by file alike; an   *)
(* answer is missing only where a shallow submodule cut the history.       *)
AnswersFollowRefs ==
  \A c \in Commit :
    /\ Patch(view, c) = FileAt(view, c)
    /\ (Patch(view, c) # {} /\ Tips(view.refs) # {}) => c \in Closure(Tips(view.of.refs))
    /\ (c \in Closure(Tips(view.of.refs)) /\ view.refs = view.of.refs /\ view.cut = {})
         => Patch(view, c) = {c}

(* Where validation finds the commit of the mock data, a clone of the      *)
(* package's repository starts at that commit, before the fix, unless the  *)
(* submodule is shallow.                                                   *)
CloneIsPreFix ==
  (view # NoView /\ PreFixChecked /\ local.cut = {}) => view.mock = preFix

(* A run reads the refs that were recorded, of commits that are there,     *)
(* except where the submodule is shallow.                                  *)
EvidenceDoesNotDrift ==
  /\ local.cut = {} => view.refs = view.of.refs
  /\ Tips(view.refs) \subseteq view.store

(* A fixture that validates can be opened, wherever the cases are cloned   *)
(* to, as long as the upstream's refs still lead to what was recorded of   *)
(* them: of a submodule that is whole nothing is missing, so that the run  *)
(* starts. Of one that is shallow, as it is after the first attempt at it  *)
(* ("--depth 1") unless the server refused that, a recorded commit is      *)
(* missing only if it is behind the cut: an older commit than the one that *)
(* the cases record for the submodule, or than the upstream's HEAD.        *)
ValidCaseStarts ==
  (/\ manifest # NoFixture /\ LinkAgrees /\ manifest.refs[Main] # NoCommit
   /\ \A r \in Ref : \/ manifest.refs[r] = NoCommit
                     \/ manifest.refs[r] \in Closure({upstream[r]} \ {NoCommit})) =>
     /\ CanOpen(TRUE)
     /\ \A shallow \in BOOLEAN :
          LET sub == OpenedSubmodule(shallow)
          IN  /\ Answered(TRUE, sub)
              /\ NotIn(manifest, Completed(sub).store) \subseteq Behind(sub.cut)
=============================================================================
