------------------------- MODULE SourceCacheProofs -------------------------
(* What holds of a source fixture and its views for every history, every   *)
(* set of refs and any number of captures, clones and runs.                *)
EXTENDS SourceCache, TLAPS

-----------------------------------------------------------------------------
(* Commits and refs.                                                       *)

LEMMA TipsAre ==
  ASSUME NEW refs \in Refs
  PROVE  Tips(refs) \subseteq Commit
  BY DEF Tips, Refs

LEMMA ClosureIs ==
  ASSUME NEW S, S \subseteq Commit
  PROVE  S \subseteq Closure(S) /\ Closure(S) \subseteq Commit
  BY HistoryAssumption DEF Closure

LEMMA SentIs ==
  ASSUME NEW cut, NEW o \in Commit
  PROVE  Sent(cut, o) \subseteq Commit /\ (cut = {} => Sent(cut, o) = Ancestors[o])
  BY HistoryAssumption DEF Sent, Below, Behind

LEMMA BeforeIs ==
  ASSUME NEW c \in Commit
  PROVE  Before(c) \in Past \cup {NoCommit}
<1> DEFINE S == Ancestors[c] \cap Past
<1>1. CASE S = {}
  BY <1>1 DEF Before
<1>2. CASE S # {}
  <2>1. \E b \in S : S \subseteq Ancestors[b]
    BY <1>2, HistoryAssumption
  <2>2. Newest(S) \in S
    BY <2>1 DEF Newest
  <2> QED
    BY <1>2, <2>2 DEF Before
<1> QED
  BY <1>1, <1>2

(* The refs of a capture are refs and, with a date, of its past.           *)
LEMMA RefsAsOfAre ==
  ASSUME NEW refs \in Refs, dated \in BOOLEAN
  PROVE  RefsAsOf(refs) \in Refs /\ (dated => Tips(RefsAsOf(refs)) \subseteq Past)
<1>1. ASSUME NEW r \in Ref
      PROVE  /\ RefsAsOf(refs)[r] \in Commit \cup {NoCommit}
             /\ dated => RefsAsOf(refs)[r] \in Past \cup {NoCommit}
  BY BeforeIs, HistoryAssumption DEF RefsAsOf, Refs
<1>2. RefsAsOf(refs) = [r \in Ref |-> RefsAsOf(refs)[r]]
  BY DEF RefsAsOf
<1> QED
  BY <1>1, <1>2 DEF Refs, Tips

LEMMA PastIsClosed ==
  ASSUME NEW S, S \subseteq Past
  PROVE  Closure(S) \subseteq Past
  BY HistoryAssumption DEF Closure
-----------------------------------------------------------------------------
(* Type correctness. A submodule that is not checked out has a commit to   *)
(* be initialized at, and the upstream's HEAD always leads somewhere.      *)
Openable ==
  /\ upstream[Main] # NoCommit
  /\ manifest # NoFixture => local.checkout \/ local.link # NoCommit

SourceInv == SourceTypeOK /\ Openable

LEMMA FetchableIs ==
  ASSUME SourceInv
  PROVE  Fetchable \subseteq Commit
<1>1. upstream[Main] \in Commit /\ local.store \subseteq Commit /\ upstream \in Refs
  BY HistoryAssumption DEF SourceInv, SourceTypeOK, Openable, Refs, Submodule
<1> QED
  BY <1>1, TipsAre, ClosureIs, SentIs DEF Fetchable

(* What a submodule is opened to and completed to.                         *)
LEMMA OpenedIs ==
  ASSUME SourceInv, manifest # NoFixture, NEW shallow
  PROVE  OpenedSubmodule(shallow) \in Submodule
<1>1. upstream[Main] \in Commit /\ upstream \in Refs /\ local \in Submodule
  BY HistoryAssumption DEF SourceInv, SourceTypeOK, Openable, Refs
<1>2. CASE local.checkout
  BY <1>1, <1>2 DEF OpenedSubmodule
<1>3. CASE ~local.checkout
  <2>1. local.link \in Commit
    BY <1>1, <1>3 DEF SourceInv, Openable, Submodule
  <2>2. Closure(Tips(upstream)) \subseteq Commit
    BY <1>1, TipsAre, ClosureIs
  <2>3. Initialized(shallow) \in Submodule
    BY <1>1, <2>1, <2>2 DEF Initialized, Submodule
  <2> QED
    BY <1>3, <2>3 DEF OpenedSubmodule
<1> QED
  BY <1>2, <1>3

LEMMA CompletedIs ==
  ASSUME SourceInv, NEW sub \in Submodule, Reachable(sub)
  PROVE  Completed(sub) \in Submodule /\ sub.store \subseteq Completed(sub).store
                                      /\ Completed(sub).cut = sub.cut
<1> DEFINE absent == {r \in Ref : manifest.refs[r] \notin sub.store \cup {NoCommit}}
           got == UNION {Sent(sub.cut, upstream[r]) : r \in absent}
<1>1. \A r \in absent : upstream[r] \in Commit
  BY DEF Reachable, SourceInv, SourceTypeOK, Refs
<1>2. got \subseteq Commit
  BY <1>1, SentIs
<1>3. Completed(sub) = [sub EXCEPT !.store = sub.store \cup got]
  BY DEF Completed, Submodule
<1> HIDE DEF got
<1> QED
  BY <1>2, <1>3 DEF Submodule

LEMMA CompletedWhole ==
  ASSUME SourceInv, NEW sub \in Submodule, NotIn(manifest, sub.store) = {}
  PROVE  Completed(sub) = sub
<1>1. {r \in Ref : manifest.refs[r] \notin sub.store \cup {NoCommit}} = {}
  BY DEF NotIn, Tips
<1>2. Completed(sub) = [sub EXCEPT !.store = sub.store \cup {}]
  BY <1>1 DEF Completed, Submodule
<1> QED
  BY <1>2 DEF Submodule

LEMMA BuiltIs ==
  ASSUME SourceInv, NEW sub \in Submodule
  PROVE  Built(sub) \in View
<1>1. manifest \in Fixture /\ preFix \in Commit \cup {NoCommit}
  BY DEF SourceInv, SourceTypeOK
<1>2. ViewRefs(sub) \in Refs
  BY <1>1 DEF ViewRefs, Refs, Fixture
<1>3. ViewStore(sub) \subseteq Commit
  BY <1>2, TipsAre, ClosureIs DEF ViewStore, Submodule
<1> QED
  BY <1>1, <1>2, <1>3 DEF Built, View, MockCommit, Submodule

LEMMA NoViewIs == NoView \in View
  BY HistoryAssumption DEF NoView, View, NoFixture, Fixture, NoRefs, Refs

LEMMA SourceInitInv == SourceInit => SourceInv
<1> SUFFICES ASSUME SourceInit PROVE SourceInv
  OBVIOUS
<1>1. upstream \in Refs /\ dated \in BOOLEAN
  BY DEF SourceInit
<1> QED
  BY <1>1, NoViewIs, HistoryAssumption
     DEF SourceInit, SourceInv, SourceTypeOK, Openable, NoFixture, Fixture, NoRefs, Refs, Submodule

(* The submodule after a run has opened it.                                *)
LEMMA MaterializedIs ==
  ASSUME SourceInv, NEW online \in BOOLEAN, NEW shallow \in BOOLEAN,
         MaterializeSource(online, shallow)
  PROVE  local' \in Submodule /\ view' \in View
<1> DEFINE sub == OpenedSubmodule(shallow)
           full == Completed(sub)
<1>1. sub \in Submodule
  BY OpenedIs DEF MaterializeSource
<1>2. CASE ~Answered(online, sub)
  BY <1>1, <1>2, NoViewIs DEF MaterializeSource
<1>3. CASE Answered(online, sub)
  <2>1. full \in Submodule
    BY <1>1, <1>3, CompletedIs, CompletedWhole DEF Answered
  <2>2. Built(full) \in View
    BY <2>1, BuiltIs
  <2>3. Headed(full) \in Submodule
    BY <2>1 DEF Headed, Submodule
  <2> QED
    BY <1>3, <2>1, <2>2, <2>3, NoViewIs DEF MaterializeSource
<1> QED
  BY <1>2, <1>3

LEMMA SourceNextInv == SourceInv /\ [SourceNext]_sourceVars => SourceInv'
<1> SUFFICES ASSUME SourceInv, [SourceNext]_sourceVars PROVE SourceInv'
  OBVIOUS
<1> USE DEF SourceInv, SourceTypeOK, Openable
<1>1. ASSUME NEW r \in Ref, NEW c \in Commit, Push(r, c) PROVE SourceInv'
  BY <1>1, NoViewIs, HistoryAssumption DEF Push, Refs
<1>2. ASSUME NEW r \in Ref, Delete(r) PROVE SourceInv'
  BY <1>2, NoViewIs, HistoryAssumption DEF Delete, Refs
<1>3. ASSUME NEW overwrite \in BOOLEAN, NEW finished \in BOOLEAN,
             CaptureSource(overwrite, finished)
      PROVE  SourceInv'
  <2>1. RefsAsOf(upstream) \in Refs
    BY RefsAsOfAre
  <2>2. RefsAsOf(upstream)[Main] \in Commit \cup {NoCommit} /\ upstream[Main] \in Commit
    BY <2>1, HistoryAssumption DEF Refs
  <2>3. local' \in Submodule /\ local'.checkout
    BY <1>3, <2>2, FetchableIs DEF CaptureSource, Submodule
  <2>4. manifest' \in Fixture
    BY <1>3, <2>1 DEF CaptureSource, Fixture
  <2> QED
    BY <1>3, <2>3, <2>4, NoViewIs DEF CaptureSource
<1>4. CASE DateCase
  BY <1>4, NoViewIs DEF DateCase
<1>5. CASE CommitCases
  BY <1>5, NoViewIs DEF CommitCases, Submodule
<1>6. CASE CloneCases
  BY <1>6, NoViewIs DEF CloneCases, Submodule
<1>7. ASSUME NEW c \in Commit, InferMock(c) PROVE SourceInv'
  BY <1>7, NoViewIs DEF InferMock
<1>8. ASSUME NEW online \in BOOLEAN, NEW shallow \in BOOLEAN,
             MaterializeSource(online, shallow)
      PROVE  SourceInv'
  <2>1. local' \in Submodule /\ view' \in View
    BY <1>8, MaterializedIs
  <2>2. UNCHANGED <<upstream, dated, manifest, preFix>>
    BY <1>8 DEF MaterializeSource
  <2>3. local'.checkout
    <3>1. OpenedSubmodule(shallow).checkout /\ OpenedSubmodule(shallow) \in Submodule
      BY <1>8, OpenedIs DEF MaterializeSource, OpenedSubmodule, Initialized, Submodule
    <3>2. Completed(OpenedSubmodule(shallow)).checkout
      BY <3>1 DEF Completed, Submodule
    <3>3. \/ local' = OpenedSubmodule(shallow)
          \/ local' = Completed(OpenedSubmodule(shallow))
          \/ local' = Headed(Completed(OpenedSubmodule(shallow)))
      BY <1>8 DEF MaterializeSource
    <3>4. Completed(OpenedSubmodule(shallow)) =
            [OpenedSubmodule(shallow) EXCEPT !.store = Completed(OpenedSubmodule(shallow)).store]
      BY <3>1 DEF Completed, Submodule
    <3> QED
      BY <3>1, <3>2, <3>3, <3>4 DEF Submodule, Headed
  <2> QED
    BY <2>1, <2>2, <2>3
<1>9. CASE UNCHANGED sourceVars
  BY <1>9 DEF sourceVars
<1> QED
  BY <1>1, <1>2, <1>3, <1>4, <1>5, <1>6, <1>7, <1>8, <1>9 DEF SourceNext

LEMMA SourceInvariant == SourceSpec => []SourceInv
  BY SourceInitInv, SourceNextInv, PTL DEF SourceSpec

(* Every variable keeps its type, and a fixture can always be opened.      *)
THEOREM SourceTypeCorrect == SourceSpec => []SourceTypeOK
<1>1. SourceInv => SourceTypeOK
  BY DEF SourceInv
<1> QED
  BY <1>1, SourceInvariant, PTL
-----------------------------------------------------------------------------
(* What a view is. It is built of the submodule as it still is, and of the *)
(* manifest as it still is; a dated manifest has commits of the past only; *)
(* a store without a cut has what its commits lead to.                     *)
ViewIsBuilt ==
  view # NoView => view = Built(local) /\ Tips(manifest.refs) \subseteq local.store
ManifestIsOfTheDate == manifest.dated => Tips(manifest.refs) \subseteq Past
StoreIsWhole ==
  local.cut = {} => \A c \in local.store : Ancestors[c] \subseteq local.store

ViewInv == ViewIsBuilt /\ ManifestIsOfTheDate /\ StoreIsWhole

LEMMA BuiltStays ==
  ASSUME UNCHANGED <<manifest, preFix>>, NEW sub,
         local'.store = sub.store, local'.cut = sub.cut
  PROVE  Built(local)' = Built(sub)
<1>1. ViewRefs(local)' = ViewRefs(sub)
  BY DEF ViewRefs
<1>2. ViewStore(local)' = ViewStore(sub)
  BY <1>1 DEF ViewStore, Closure, Tips
<1> QED
  BY <1>1, <1>2 DEF Built, MockCommit

LEMMA ClosureIsWhole ==
  ASSUME NEW S, S \subseteq Commit
  PROVE  \A c \in Closure(S) : Ancestors[c] \subseteq Closure(S)
  BY HistoryAssumption DEF Closure

(* Opening and completing a submodule keeps its store whole.               *)
LEMMA OpenedIsWhole ==
  ASSUME SourceInv, StoreIsWhole, manifest # NoFixture, NEW shallow,
         NEW sub, sub = OpenedSubmodule(shallow), sub.cut = {}
  PROVE  \A c \in sub.store : Ancestors[c] \subseteq sub.store
<1>1. upstream[Main] \in Commit /\ upstream \in Refs /\ local \in Submodule
  BY HistoryAssumption DEF SourceInv, SourceTypeOK, Openable, Refs
<1>2. CASE local.checkout
  BY <1>2 DEF OpenedSubmodule, StoreIsWhole
<1>3. CASE ~local.checkout /\ shallow
  <2>1. /\ sub.store = {local.link, upstream[Main]}
        /\ sub.cut = {c \in {local.link, upstream[Main]} : Ancestors[c] # {c}}
    BY <1>1, <1>3 DEF OpenedSubmodule, Initialized, Submodule
  <2> QED
    BY <2>1
<1>4. CASE ~local.checkout /\ ~shallow
  <2>1. sub.store = Closure(Tips(upstream))
    BY <1>1, <1>4 DEF OpenedSubmodule, Initialized, Submodule
  <2> QED
    BY <2>1, <1>1, TipsAre, ClosureIsWhole
<1> QED
  BY <1>2, <1>3, <1>4

LEMMA CompletedIsWhole ==
  ASSUME SourceInv, NEW sub \in Submodule, Reachable(sub), sub.cut = {},
         \A c \in sub.store : Ancestors[c] \subseteq sub.store
  PROVE  \A c \in Completed(sub).store : Ancestors[c] \subseteq Completed(sub).store
<1> DEFINE absent == {r \in Ref : manifest.refs[r] \notin sub.store \cup {NoCommit}}
           got == UNION {Sent(sub.cut, upstream[r]) : r \in absent}
<1>1. \A r \in absent : upstream[r] \in Commit
  BY DEF Reachable, SourceInv, SourceTypeOK, Refs
<1>2. got = UNION {Ancestors[upstream[r]] : r \in absent}
  BY <1>1, SentIs
<1>3. \A c \in got : Ancestors[c] \subseteq got
  BY <1>1, <1>2, HistoryAssumption
<1>4. Completed(sub).store = sub.store \cup got
  BY DEF Completed, Submodule
<1> QED
  BY <1>3, <1>4

LEMMA CaptureViews ==
  ASSUME SourceInv, ViewInv, NEW overwrite \in BOOLEAN, NEW finished \in BOOLEAN,
         CaptureSource(overwrite, finished)
  PROVE  ViewInv'
<1>1. ViewIsBuilt'
  BY DEF CaptureSource, ViewIsBuilt
<1>2. ManifestIsOfTheDate'
  <2>1. RefsAsOf(upstream) \in Refs /\ (dated => Tips(RefsAsOf(upstream)) \subseteq Past)
    BY RefsAsOfAre DEF SourceInv, SourceTypeOK
  <2>2. \/ manifest' = manifest
        \/ manifest' = [refs |-> RefsAsOf(upstream), dated |-> dated]
    BY DEF CaptureSource
  <2> QED
    BY <2>1, <2>2 DEF ViewInv, ManifestIsOfTheDate, Tips
<1>3. StoreIsWhole'
  <2>1. /\ local'.store = Fetchable
        /\ local'.cut = IF local.checkout THEN local.cut ELSE {}
    BY DEF CaptureSource
  <2>2. upstream[Main] \in Commit /\ upstream \in Refs
    BY HistoryAssumption DEF SourceInv, SourceTypeOK, Openable, Refs
  <2>3. CASE local.checkout
    <3> SUFFICES ASSUME local.cut = {}
                 PROVE  \A c \in Fetchable : Ancestors[c] \subseteq Fetchable
      BY <2>1, <2>3 DEF StoreIsWhole
    <3>1. Fetchable = local.store \cup Ancestors[upstream[Main]]
      BY <2>2, <2>3, SentIs DEF Fetchable
    <3> QED
      BY <3>1, <2>2, HistoryAssumption DEF ViewInv, StoreIsWhole
  <2>4. CASE ~local.checkout
    BY <2>1, <2>2, <2>4, TipsAre, ClosureIsWhole DEF StoreIsWhole, Fetchable
  <2> QED
    BY <2>3, <2>4
<1> QED
  BY <1>1, <1>2, <1>3 DEF ViewInv

LEMMA MaterializeViews ==
  ASSUME SourceInv, ViewInv, NEW online \in BOOLEAN, NEW shallow \in BOOLEAN,
         MaterializeSource(online, shallow)
  PROVE  ViewInv'
<1> DEFINE sub == OpenedSubmodule(shallow)
           full == Completed(sub)
<1> USE DEF ViewInv
<1>1. manifest # NoFixture /\ UNCHANGED <<upstream, dated, manifest, preFix>>
  BY DEF MaterializeSource
<1>2. sub \in Submodule
  BY <1>1, OpenedIs
<1>3. ManifestIsOfTheDate'
  BY <1>1 DEF ManifestIsOfTheDate, Tips
<1>4. CASE ~Answered(online, sub)
  <2>1. local' = sub /\ view' = NoView
    BY <1>4 DEF MaterializeSource
  <2> QED
    BY <2>1, <1>1, <1>3, OpenedIsWhole DEF ViewIsBuilt, StoreIsWhole
<1>5. CASE Answered(online, sub)
  <2>1. full \in Submodule /\ full.cut = sub.cut
    BY <1>2, <1>5, CompletedIs, CompletedWhole DEF Answered
  <2>2. full.cut = {} => \A c \in full.store : Ancestors[c] \subseteq full.store
    BY <1>1, <1>2, <1>5, <2>1, OpenedIsWhole, CompletedIsWhole, CompletedWhole DEF Answered
  <2>3. local'.store = full.store /\ local'.cut = full.cut
    BY <1>5, <2>1 DEF MaterializeSource, Headed, Submodule
  <2>4. ViewIsBuilt'
    <3> SUFFICES ASSUME view' # NoView
                 PROVE  view' = Built(local)' /\ Tips(manifest'.refs) \subseteq local'.store
      BY DEF ViewIsBuilt, Tips
    <3>1. NotIn(manifest, full.store) = {} /\ view' = Built(full)
      BY <1>5 DEF MaterializeSource
    <3>2. Built(local)' = Built(full)
      BY <1>1, <2>3, BuiltStays
    <3> QED
      BY <1>1, <2>3, <3>1, <3>2 DEF NotIn
  <2> QED
    BY <1>3, <2>2, <2>3, <2>4 DEF StoreIsWhole
<1> QED
  BY <1>4, <1>5

LEMMA ViewsInit == SourceInit => ViewInv
  BY DEF SourceInit, ViewInv, ViewIsBuilt, ManifestIsOfTheDate, StoreIsWhole, NoFixture

LEMMA ViewsNext == SourceInv /\ ViewInv /\ [SourceNext]_sourceVars => ViewInv'
<1> SUFFICES ASSUME SourceInv, ViewInv, [SourceNext]_sourceVars PROVE ViewInv'
  OBVIOUS
<1> USE DEF ViewInv, ViewIsBuilt, ManifestIsOfTheDate, StoreIsWhole, Tips
<1>1. ASSUME NEW r \in Ref, NEW c \in Commit, Push(r, c) PROVE ViewInv'
  BY <1>1 DEF Push
<1>2. ASSUME NEW r \in Ref, Delete(r) PROVE ViewInv'
  BY <1>2 DEF Delete
<1>3. ASSUME NEW overwrite \in BOOLEAN, NEW finished \in BOOLEAN,
             CaptureSource(overwrite, finished)
      PROVE  ViewInv'
  BY <1>3, CaptureViews
<1>4. CASE DateCase
  BY <1>4 DEF DateCase
<1>5. CASE CommitCases \/ CloneCases
  <2>1. local \in Submodule
    BY DEF SourceInv, SourceTypeOK
  <2>2. local'.store = {} \/ (local'.store = local.store /\ local'.cut = local.cut)
    BY <1>5, <2>1 DEF CommitCases, CloneCases, Submodule
  <2>3. view' = NoView /\ UNCHANGED manifest
    BY <1>5 DEF CommitCases, CloneCases
  <2> QED
    BY <2>2, <2>3
<1>6. ASSUME NEW c \in Commit, InferMock(c) PROVE ViewInv'
  BY <1>6 DEF InferMock
<1>7. ASSUME NEW online \in BOOLEAN, NEW shallow \in BOOLEAN,
             MaterializeSource(online, shallow)
      PROVE  ViewInv'
  BY <1>7, MaterializeViews
<1>8. CASE UNCHANGED sourceVars
  <2>1. Built(local)' = Built(local)
    BY <1>8, BuiltStays DEF sourceVars
  <2> QED
    BY <1>8, <2>1 DEF sourceVars
<1> QED
  BY <1>1, <1>2, <1>3, <1>4, <1>5, <1>6, <1>7, <1>8 DEF SourceNext

LEMMA ViewInvariant == SourceSpec => [](SourceInv /\ ViewInv)
  BY SourceInitInv, SourceNextInv, ViewsInit, ViewsNext, PTL DEF SourceSpec
-----------------------------------------------------------------------------
(* The properties.                                                         *)

LEMMA ViewShape ==
  ASSUME SourceInv, ViewInv
  PROVE  /\ Tips(view.refs) \subseteq Tips(view.of.refs)
         /\ Tips(view.refs) \subseteq view.store
         /\ view.cut = {} => Closure(Tips(view.refs)) \subseteq view.store
         /\ manifest.dated => view.store \subseteq Past
         /\ local.cut = {} => view.refs = view.of.refs
<1>1. CASE view = NoView
  BY <1>1 DEF NoView, NoFixture, NoRefs, Tips, Closure
<1>2. CASE view # NoView
  <2>1. /\ view = Built(local) /\ Tips(manifest.refs) \subseteq local.store
        /\ manifest.dated => Tips(manifest.refs) \subseteq Past
        /\ local.cut = {} => \A c \in local.store : Ancestors[c] \subseteq local.store
    BY <1>2 DEF ViewInv, ViewIsBuilt, ManifestIsOfTheDate, StoreIsWhole
  <2>2. manifest.refs \in Refs /\ local \in Submodule /\ manifest.dated \in BOOLEAN
    BY DEF SourceInv, SourceTypeOK, Fixture
  <2>3. /\ view.refs = ViewRefs(local) /\ view.of = manifest /\ view.store = ViewStore(local)
        /\ view.cut = IF manifest.dated THEN {} ELSE local.cut
    BY <2>1 DEF Built
  <2>4. Tips(ViewRefs(local)) \subseteq Tips(manifest.refs)
    BY DEF ViewRefs, Tips
  <2>5. local.cut = {} => ViewRefs(local) = manifest.refs
    BY <2>2 DEF ViewRefs, Refs
  <2>6. CASE manifest.dated
    <3>1. ViewStore(local) = Closure(Tips(ViewRefs(local)))
      BY <2>6 DEF ViewStore
    <3>2. Tips(ViewRefs(local)) \subseteq Commit
      BY <2>2, <2>4, TipsAre
    <3>3. Tips(ViewRefs(local)) \subseteq Closure(Tips(ViewRefs(local)))
      BY <3>2, ClosureIs
    <3>4. Closure(Tips(ViewRefs(local))) \subseteq Past
      BY <2>1, <2>4, <2>6, PastIsClosed
    <3> QED
      BY <2>3, <2>4, <2>5, <3>1, <3>3, <3>4
  <2>7. CASE ~manifest.dated
    <3>1. ViewStore(local) = local.store /\ ViewRefs(local) = manifest.refs
      BY <2>2, <2>7 DEF ViewStore, ViewRefs, Refs
    <3>2. local.cut = {} => Closure(Tips(manifest.refs)) \subseteq local.store
      BY <2>1 DEF Closure
    <3> QED
      BY <2>1, <2>3, <2>7, <3>1, <3>2
  <2> QED
    BY <2>6, <2>7
<1> QED
  BY <1>1, <1>2

(* Every answer comes from the view's store.                               *)
LEMMA DisclosedIs == Disclosed(view) \subseteq view.store
<1>1. ASSUME NEW c \in Commit
      PROVE  Patch(view, c) \cup FileAt(view, c) \cup Log(view, c) \subseteq view.store
  <2>1. Patch(view, c) \subseteq view.store
    BY DEF Patch
  <2>2. FileAt(view, c) \subseteq view.store
    BY DEF FileAt
  <2>3. Log(view, c) \subseteq view.store
    BY DEF Log, Walk
  <2> QED
    BY <2>1, <2>2, <2>3
<1> QED
  BY <1>1 DEF Disclosed

(* Whatever was captured and when, the answers of a dated case whose       *)
(* fixture has the date are of the past.                                   *)
THEOREM NoFutureIsDisclosed == SourceSpec => []NothingFromTheFuture
<1>1. SourceInv /\ ViewInv => NothingFromTheFuture
  BY ViewShape, DisclosedIs DEF NothingFromTheFuture, DateAgrees
<1> QED
  BY <1>1, ViewInvariant, PTL

(* Patches and files are answered for the commits of the recorded refs.    *)
THEOREM AnswersAreOfTheRefs == SourceSpec => []AnswersFollowRefs
<1>1. ASSUME SourceInv, ViewInv PROVE AnswersFollowRefs
  <2> SUFFICES ASSUME NEW c \in Commit
               PROVE  /\ Patch(view, c) = FileAt(view, c)
                      /\ (Patch(view, c) # {} /\ Tips(view.refs) # {}) =>
                           c \in Closure(Tips(view.of.refs))
                      /\ (/\ c \in Closure(Tips(view.of.refs))
                          /\ view.refs = view.of.refs /\ view.cut = {})
                           => Patch(view, c) = {c}
    BY DEF AnswersFollowRefs
  <2>1. Patch(view, c) = FileAt(view, c)
    BY DEF Patch, FileAt
  <2>2. ASSUME Patch(view, c) # {}, Tips(view.refs) # {}
        PROVE  c \in Closure(Tips(view.of.refs))
    <3>1. \E o \in Tips(view.refs) : c \in Ancestors[o]
      BY <2>2 DEF Patch, Advertised, Walk
    <3> QED
      BY <3>1, <1>1, ViewShape DEF Closure
  <2>3. ASSUME c \in Closure(Tips(view.refs)), view.cut = {}
        PROVE  Patch(view, c) = {c}
    <3>1. PICK o \in Tips(view.refs) : c \in Ancestors[o]
      BY <2>3 DEF Closure
    <3>2. c \in view.store
      BY <2>3, <1>1, ViewShape
    <3>3. Below(view.cut, o) = {}
      BY <2>3 DEF Below, Behind
    <3>4. c \in Walk(view, o)
      BY <3>1, <3>2, <3>3 DEF Walk
    <3> QED
      BY <3>1, <3>2, <3>4 DEF Patch, Advertised
  <2> QED
    BY <2>1, <2>2, <2>3
<1> QED
  BY <1>1, ViewInvariant, PTL

(* A checked pre_fix_ref is what the package's clone starts from.          *)
THEOREM CloneStartsPreFix == SourceSpec => []CloneIsPreFix
<1>1. ASSUME SourceInv, ViewInv PROVE CloneIsPreFix
  <2> SUFFICES ASSUME view # NoView, PreFixChecked, local.cut = {}
               PROVE  view.mock = preFix
    BY DEF CloneIsPreFix
  <2>1. view = Built(local)
    BY <1>1 DEF ViewInv, ViewIsBuilt
  <2>2. /\ view.store = ViewStore(local) /\ view.of = manifest /\ view.refs = view.of.refs
        /\ Tips(view.refs) \subseteq view.store
    BY <1>1, <2>1, ViewShape DEF Built
  <2>3. preFix \in view.store
    <3>1. CASE preFix \in Tips(manifest.refs)
      BY <3>1, <2>2
    <3>2. CASE ~manifest.dated /\ preFix \in local.store
      BY <3>2, <2>2 DEF ViewStore
    <3> QED
      BY <3>1, <3>2 DEF PreFixChecked, Contains
  <2> QED
    BY <2>1, <2>2, <2>3 DEF Built, MockCommit
<1> QED
  BY <1>1, ViewInvariant, PTL

(* A run reads the recorded refs, of commits that are there.               *)
THEOREM EvidenceStays == SourceSpec => []EvidenceDoesNotDrift
<1>1. SourceInv /\ ViewInv => EvidenceDoesNotDrift
  BY ViewShape DEF EvidenceDoesNotDrift
<1> QED
  BY <1>1, ViewInvariant, PTL

(* A fixture that validates is opened wherever the cases are cloned, and   *)
(* whether or not the clone is shallow has all that was recorded but for   *)
(* commits behind its cut, of which a whole one has none.                  *)
THEOREM ValidCasesStart == SourceSpec => []ValidCaseStarts
<1>1. ASSUME SourceInv PROVE ValidCaseStarts
  <2> DEFINE held(r) == manifest.refs[r] \in Closure({upstream[r]} \ {NoCommit})
  <2> SUFFICES ASSUME manifest # NoFixture, LinkAgrees, manifest.refs[Main] # NoCommit,
                      \A r \in Ref : manifest.refs[r] = NoCommit \/ held(r),
                      NEW shallow \in BOOLEAN, NEW sub, sub = OpenedSubmodule(shallow)
               PROVE  /\ CanOpen(TRUE)
                      /\ Answered(TRUE, sub)
                      /\ NotIn(manifest, Completed(sub).store) \subseteq Behind(sub.cut)
    BY DEF ValidCaseStarts
  <2>1. upstream \in Refs /\ local \in Submodule /\ manifest.refs \in Refs
    BY <1>1 DEF SourceInv, SourceTypeOK, Fixture
  <2>2. sub \in Submodule
    BY <1>1, OpenedIs
  <2>3. ASSUME NEW r \in Ref, manifest.refs[r] # NoCommit
        PROVE  upstream[r] # NoCommit /\ manifest.refs[r] \in Ancestors[upstream[r]]
    <3>1. held(r)
      BY <2>3
    <3> QED
      BY <3>1 DEF Closure
  <2>4. \A r \in Ref : manifest.refs[r] # NoCommit => manifest.refs[r] \in Closure(Tips(upstream))
    BY <2>3 DEF Closure, Tips
  <2>5. CanOpen(TRUE)
    <3>1. CASE ~local.checkout
      <4>1. local.link = manifest.refs[Main]
        BY <3>1 DEF LinkAgrees, Gitlink
      <4> QED
        BY <4>1, <2>4, HistoryAssumption DEF CanOpen
    <3> QED
      BY <3>1 DEF CanOpen
  <2>6. Reachable(sub) /\ Answered(TRUE, sub)
    BY <2>3 DEF Reachable, Answered
  <2>7. ASSUME NEW r \in Ref, manifest.refs[r] # NoCommit,
               manifest.refs[r] \notin Completed(sub).store
        PROVE  manifest.refs[r] \in Behind(sub.cut)
    <3>1. manifest.refs[r] \notin sub.store
      BY <2>7, <1>1, <2>2, <2>6, CompletedIs
    <3>2. Completed(sub).store = sub.store \cup
            UNION {Sent(sub.cut, upstream[q]) :
                     q \in {q \in Ref : manifest.refs[q] \notin sub.store \cup {NoCommit}}}
      BY <2>2 DEF Completed, Submodule
    <3>3. manifest.refs[r] \notin Sent(sub.cut, upstream[r])
      BY <2>7, <3>1, <3>2
    <3>4. manifest.refs[r] \in Below(sub.cut, upstream[r])
      BY <2>3, <2>7, <3>3 DEF Sent
    <3> QED
      BY <3>4 DEF Below, Behind
  <2> QED
    BY <2>5, <2>6, <2>7 DEF NotIn, Tips
<1> QED
  BY <1>1, SourceInvariant, PTL
=============================================================================
