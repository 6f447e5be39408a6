---------------------------- MODULE ReplayProofs ----------------------------
(* What holds of the fixtures made of the two services that live on, the   *)
(* tracker and the build system, for every history of them.                *)
EXTENDS JiraReplay, KojiReplay, TLAPS

-----------------------------------------------------------------------------
(* Builds. The tags of a branch, and which of their builds is named.       *)
Then(br, d) == {tagged[<<br, s>>][d] : s \in {"candidate", "z-candidate"}} \ {NoBuild}

LEMMA ListedIs ==
  ASSUME KojiTypeOK, NEW br \in Branch, NEW d \in KojiTimes
  PROVE  Listed(br, d) = Then(br, d) /\ Listed(br, NoDate) = Then(br, clock)
<1>1. \A t \in Tags : t[1] = br <=> t \in {<<br, "candidate">>, <<br, "z-candidate">>}
  BY DEF Tags
<1>2. {t \in Tags : t[1] = br} = {<<br, "candidate">>, <<br, "z-candidate">>}
  BY <1>1 DEF Tags
<1>3. d # NoDate
  BY KojiAssumption DEF KojiTimes
<1> QED
  BY <1>2, <1>3 DEF Listed, Then

LEMMA CandidateIs ==
  ASSUME KojiTypeOK, NEW br \in Branch, NEW d \in KojiTimes \cup {NoDate}, Listed(br, d) # {}
  PROVE  /\ Candidate(br, d) \in Listed(br, d) /\ Candidate(br, d) \in Build
         /\ \A c \in Listed(br, d) : EVR[c] <= EVR[Candidate(br, d)]
<1> DEFINE x == IF d = NoDate THEN clock ELSE d
           a == tagged[<<br, "candidate">>][x]
           b == tagged[<<br, "z-candidate">>][x]
<1>1. x \in KojiTimes
  BY DEF KojiTypeOK
<1>2. Listed(br, d) = Then(br, x)
  BY <1>1, ListedIs
<1>3. Then(br, x) = {a, b} \ {NoBuild}
  BY DEF Then
<1>4. a \in Build \cup {NoBuild} /\ b \in Build \cup {NoBuild}
  BY <1>1 DEF KojiTypeOK, Tags
<1> HIDE DEF a, b, x
<1>5. Listed(br, d) \subseteq {a, b} /\ Listed(br, d) \subseteq Build
  BY <1>2, <1>3, <1>4
<1>6. \A c \in Build : EVR[c] \in Nat
  BY KojiAssumption
<1>7. \E c \in Listed(br, d) : \A e \in Listed(br, d) : EVR[e] <= EVR[c]
  BY <1>5, <1>6
<1> QED
  BY <1>5, <1>7 DEF Candidate

(* The strengthening: a tag lists completed builds, the past of a tag does *)
(* not change, and a record has what was true when it was made.            *)
BuildsAreBorn ==
  /\ \A b \in Build : born[b] <= stamp[b] /\ stamp[b] <= clock
  /\ \A t \in Tags, d \in KojiTimes : tagged[t][d] # NoBuild => born[tagged[t][d]] # 0
Faithful(br, r) ==
  /\ born[r.build] # 0
  /\ born[r.build] <= r.newest
  /\ r.asOf # NoDate =>
       /\ r.asOf < clock
       /\ r.build \in Then(br, r.asOf)
       /\ \A c \in Then(br, r.asOf) : EVR[c] <= EVR[r.build]
RecordsAreTrue ==
  /\ caseDate # NoDate => caseDate < clock
  /\ \A br \in Branch : records[br] # NoRecord => Faithful(br, records[br])
KojiInv == KojiTypeOK /\ BuildsAreBorn /\ RecordsAreTrue

LEMMA KojiInitInv == KojiInit => KojiInv
<1> SUFFICES ASSUME KojiInit PROVE KojiInv
  OBVIOUS
<1>1. 1 \in KojiTimes
  BY KojiAssumption DEF KojiTimes
<1>2. KojiTypeOK
  BY <1>1, KojiAssumption DEF KojiInit, KojiTypeOK, KojiTimes
<1>3. BuildsAreBorn
  BY DEF KojiInit, BuildsAreBorn
<1>4. RecordsAreTrue
  BY DEF KojiInit, RecordsAreTrue
<1> QED
  BY <1>2, <1>3, <1>4 DEF KojiInv

(* What a fetch for a date before now writes down.                         *)
LEMMA FetchIs ==
  ASSUME KojiInv, NEW d \in KojiTimes \cup {NoDate}, d # NoDate => d < clock,
         NEW fetched, fetched \subseteq Branch, \A br \in fetched : Listed(br, d) # {},
         NEW br \in Branch
  PROVE  LET r == Fetch(fetched, d)[br]
         IN  /\ r \in Record \cup {NoRecord}
             /\ r # NoRecord => Faithful(br, r)
<1> USE DEF KojiInv
<1>1. CASE br \notin fetched
  BY <1>1 DEF Fetch, KojiTypeOK, RecordsAreTrue
<1>2. CASE br \in fetched
  <2> DEFINE b == Candidate(br, d)
             x == IF d = NoDate THEN clock ELSE d
  <2>1. b \in Listed(br, d) /\ b \in Build /\ \A c \in Listed(br, d) : EVR[c] <= EVR[b]
    BY <1>2, CandidateIs
  <2>2. x \in KojiTimes /\ Listed(br, d) = Then(br, x)
    BY ListedIs DEF KojiTypeOK
  <2>3. born[b] # 0
    BY <2>1, <2>2 DEF Then, BuildsAreBorn, Tags
  <2>4. stamp[b] \in 0..KojiTime /\ born[b] \in 0..KojiTime
    BY <2>1 DEF KojiTypeOK
  <2>5. born[b] <= stamp[b]
    BY <2>1 DEF BuildsAreBorn
  <2>6. stamp[b] \in KojiTimes
    BY <2>3, <2>4, <2>5, KojiAssumption DEF KojiTimes
  <2>7. Fetch(fetched, d)[br] = [build |-> b, asOf |-> d, newest |-> stamp[b]]
    BY <1>2 DEF Fetch
  <2> HIDE DEF b
  <2> QED
    BY <2>1, <2>2, <2>3, <2>5, <2>6, <2>7 DEF Record, Faithful
<1> QED
  BY <1>1, <1>2

LEMMA KojiNextInv == KojiInv /\ [KojiNext]_kojiVars => KojiInv'
<1> SUFFICES ASSUME KojiInv, [KojiNext]_kojiVars PROVE KojiInv'
  OBVIOUS
<1> USE DEF KojiInv
<1>0. /\ clock \in KojiTimes /\ KojiTimes \subseteq Nat
      /\ \A b \in Build : stamp[b] \in Nat /\ born[b] \in Nat
  BY KojiAssumption DEF KojiTypeOK, KojiTimes
<1>1. ASSUME NEW b \in Build, Stamp(b) PROVE KojiInv'
  <2>1. KojiTypeOK'
    BY <1>0, <1>1, KojiAssumption DEF Stamp, KojiTypeOK, KojiTimes
  <2>2. \A c \in Build : /\ born[c] # 0 => born'[c] = born[c]
                         /\ born'[c] = born[c] \/ (born'[c] = clock /\ stamp'[c] = clock)
                         /\ stamp'[c] = stamp[c] \/ stamp'[c] = clock
    <3> SUFFICES ASSUME NEW c \in Build
                 PROVE  /\ born[c] # 0 => born'[c] = born[c]
                        /\ born'[c] = born[c] \/ (born'[c] = clock /\ stamp'[c] = clock)
                        /\ stamp'[c] = stamp[c] \/ stamp'[c] = clock
      OBVIOUS
    <3>1. CASE c = b
      BY <1>1, <3>1 DEF Stamp, KojiTypeOK
    <3>2. CASE c # b
      <4>1. stamp \in [Build -> 0..KojiTime] /\ born \in [Build -> 0..KojiTime]
        BY DEF KojiTypeOK
      <4>2. stamp'[c] = stamp[c] /\ born'[c] = born[c]
        BY <1>1, <3>2, <4>1 DEF Stamp
      <4> QED
        BY <4>2
    <3> QED
      BY <3>1, <3>2
  <2>3. BuildsAreBorn'
    <3>1. \A c \in Build : born'[c] <= stamp'[c] /\ stamp'[c] <= clock
      BY <1>0, <2>2 DEF BuildsAreBorn
    <3>2. \A t \in Tags, d \in KojiTimes : tagged[t][d] # NoBuild => tagged[t][d] \in Build
      BY DEF KojiTypeOK
    <3>3. \A t \in Tags, d \in KojiTimes : tagged[t][d] # NoBuild => born'[tagged[t][d]] # 0
      BY <2>2, <3>2 DEF BuildsAreBorn
    <3> QED
      BY <1>1, <3>1, <3>3 DEF BuildsAreBorn, Stamp
  <2>4. RecordsAreTrue'
    <3>1. \A br \in Branch : records[br] # NoRecord => records[br].build \in Build
      BY DEF KojiTypeOK, Record
    <3>2. \A br \in Branch : records[br] # NoRecord =>
            born'[records[br].build] = born[records[br].build]
      BY <2>2, <3>1 DEF RecordsAreTrue, Faithful
    <3> QED
      BY <1>1, <3>2 DEF RecordsAreTrue, Faithful, Stamp, Then
  <2> QED
    BY <2>1, <2>3, <2>4
<1>2. ASSUME NEW t \in Tags, NEW b \in Build \cup {NoBuild}, Retag(t, b) PROVE KojiInv'
  <2>1. KojiTypeOK'
    BY <1>2 DEF Retag, KojiTypeOK
  <2>2. \A s \in Tags, d \in KojiTimes :
          /\ tagged'[s][d] = tagged[s][d] \/ (tagged'[s][d] = b /\ d >= clock)
    BY <1>0, <1>2 DEF Retag, KojiTypeOK
  <2>3. BuildsAreBorn'
    BY <1>2, <2>2 DEF BuildsAreBorn, Retag
  <2>4. \A br \in Branch, d \in KojiTimes : d < clock => Then(br, d)' = Then(br, d)
    <3> SUFFICES ASSUME NEW br \in Branch, NEW d \in KojiTimes, d < clock
                 PROVE  Then(br, d)' = Then(br, d)
      OBVIOUS
    <3>1. \A s \in {"candidate", "z-candidate"} : tagged'[<<br, s>>][d] = tagged[<<br, s>>][d]
      BY <1>0, <2>2 DEF Tags
    <3> QED
      BY <3>1 DEF Then
  <2>5. \A br \in Branch : records[br] # NoRecord => records[br].asOf \in KojiTimes \cup {NoDate}
    BY DEF KojiTypeOK, Record
  <2>6. RecordsAreTrue'
    BY <1>2, <2>4, <2>5 DEF RecordsAreTrue, Faithful, Retag
  <2> QED
    BY <2>1, <2>3, <2>6
<1>3. CASE TimePasses
  <2>1. KojiTypeOK' /\ clock' = clock + 1 /\ UNCHANGED <<stamp, born, tagged, caseDate, records>>
    BY <1>0, <1>3, KojiAssumption DEF TimePasses, KojiTypeOK, KojiTimes
  <2>2. BuildsAreBorn'
    BY <1>0, <2>1 DEF BuildsAreBorn
  <2>3. \A br \in Branch : records[br] # NoRecord => records[br].asOf \in KojiTimes \cup {NoDate}
    BY DEF KojiTypeOK, Record
  <2>4. RecordsAreTrue'
    <3>1. caseDate # NoDate => caseDate \in Nat
      BY <1>0 DEF KojiTypeOK
    <3>2. \A d \in Nat : d < clock => d < clock'
      BY <1>0, <2>1
    <3>3. \A br \in Branch : records[br] # NoRecord /\ records[br].asOf # NoDate =>
            records[br].asOf \in Nat
      BY <1>0, <2>3
    <3>4. \A br, d : Then(br, d)' = Then(br, d)
      BY <2>1 DEF Then
    <3> QED
      BY <2>1, <3>1, <3>2, <3>3, <3>4 DEF RecordsAreTrue, Faithful
  <2> QED
    BY <2>1, <2>2, <2>4
<1>4. ASSUME NEW d \in {NoDate} \cup 1..(clock - 1), NEW fetched \in SUBSET Branch,
             NEW finished \in BOOLEAN, CollectBuilds(d, fetched, finished)
      PROVE  KojiInv'
  <2>1. d \in KojiTimes \cup {NoDate} /\ (d # NoDate => d < clock)
    BY <1>0, KojiAssumption DEF KojiTimes
  <2>2. \A br \in fetched : Listed(br, d) # {}
    BY <1>4 DEF CollectBuilds, Listable
  <2>3. UNCHANGED <<clock, stamp, born, tagged, asked>> /\ caseDate' = d
    BY <1>4 DEF CollectBuilds
  <2>4. BuildsAreBorn'
    BY <2>3 DEF BuildsAreBorn
  <2>5. records' = [br \in Branch |-> records'[br]]
    BY <1>4 DEF CollectBuilds, KojiTypeOK
  <2>6. ASSUME NEW br \in Branch
        PROVE  \/ records'[br] = NoRecord \/ records'[br] = records[br]
               \/ records'[br] = Fetch(fetched, d)[br]
    BY <1>4 DEF CollectBuilds
  <2>7. KojiTypeOK'
    BY <2>1, <2>2, <2>3, <2>5, <2>6, FetchIs DEF KojiTypeOK
  <2>8. RecordsAreTrue'
    <3>1. \A br, e : Then(br, e)' = Then(br, e)
      BY <2>3 DEF Then
    <3>2. ASSUME NEW br \in Branch, records'[br] # NoRecord PROVE Faithful(br, records'[br])
      <4>1. CASE records'[br] = records[br]
        BY <3>2, <4>1 DEF RecordsAreTrue
      <4>2. CASE records'[br] = Fetch(fetched, d)[br]
        BY <2>1, <2>2, <3>2, <4>2, FetchIs
      <4> QED
        BY <2>6, <3>2, <4>1, <4>2
    <3> QED
      BY <2>1, <2>3, <3>1, <3>2 DEF RecordsAreTrue, Faithful
  <2> QED
    BY <2>4, <2>7, <2>8
<1>5. ASSUME NEW d \in GivenDates, NEW overwrite \in BOOLEAN, NEW fetched \in SUBSET Branch,
             InferBuilds(d, overwrite, fetched) \/ CaptureBuilds(d, overwrite, fetched)
      PROVE  KojiInv'
  <2>1. d \in KojiTimes \cup {NoDate} /\ (d # NoDate => d < clock)
    BY <1>0, KojiAssumption DEF KojiTimes, GivenDates, RecordsAreTrue, KojiTypeOK
  <2>2. \A br \in fetched : Listed(br, d) # {}
    BY <1>5 DEF InferBuilds, CaptureBuilds, Listable
  <2>3. UNCHANGED <<clock, stamp, born, tagged, caseDate>> /\ records' = Fetch(fetched, d)
        /\ asked' \subseteq Branch
    BY <1>5 DEF InferBuilds, CaptureBuilds, KojiTypeOK
  <2>4. BuildsAreBorn'
    BY <2>3 DEF BuildsAreBorn
  <2>5. records' = [br \in Branch |-> records'[br]]
    BY <2>3 DEF Fetch
  <2>6. KojiTypeOK'
    BY <2>1, <2>2, <2>3, <2>5, FetchIs DEF KojiTypeOK
  <2>7. RecordsAreTrue'
    <3>1. \A br, e : Then(br, e)' = Then(br, e)
      BY <2>3 DEF Then
    <3>2. ASSUME NEW br \in Branch, records'[br] # NoRecord PROVE Faithful(br, records'[br])
      BY <2>1, <2>2, <2>3, <3>2, FetchIs
    <3> QED
      BY <2>3, <3>1, <3>2 DEF RecordsAreTrue, Faithful
  <2> QED
    BY <2>4, <2>6, <2>7
<1>6. ASSUME NEW br \in Branch, LookUp(br) PROVE KojiInv'
  BY <1>6 DEF LookUp, KojiTypeOK, BuildsAreBorn, RecordsAreTrue, Faithful, Then
<1>7. CASE UNCHANGED kojiVars
  BY <1>7 DEF kojiVars, KojiTypeOK, BuildsAreBorn, RecordsAreTrue, Faithful, Then
<1> QED
  BY <1>1, <1>2, <1>3, <1>4, <1>5, <1>6, <1>7 DEF KojiNext

(* A case with a date is given the builds Koji would have named then.      *)
THEOREM BuildsAreOfTheDate == KojiSpec => [](KojiTypeOK /\ BuildIsOfTheDate)
<1>1. ASSUME KojiInv PROVE BuildIsOfTheDate
  <2> SUFFICES ASSUME NEW br \in Branch, caseDate # NoDate, records[br] # NoRecord
               PROVE  LET named == records[br].build
                      IN  /\ records[br].asOf = caseDate =>
                               /\ named \in Then(br, caseDate)
                               /\ \A c \in Then(br, caseDate) : EVR[c] <= EVR[named]
                          /\ BuildsValid => born[named] <= caseDate
    BY DEF BuildIsOfTheDate, Then
  <2>1. records[br].asOf = caseDate =>
          /\ records[br].build \in Then(br, caseDate)
          /\ \A c \in Then(br, caseDate) : EVR[c] <= EVR[records[br].build]
    BY <1>1 DEF KojiInv, RecordsAreTrue, Faithful
  <2>2. /\ born[records[br].build] <= records[br].newest
        /\ records[br] \in Record /\ caseDate \in KojiTimes
    BY <1>1 DEF KojiInv, RecordsAreTrue, Faithful, KojiTypeOK
  <2>3. records[br].newest \in Nat /\ caseDate \in Nat /\ born[records[br].build] \in Nat
    BY <1>1, <2>2, KojiAssumption DEF KojiInv, KojiTypeOK, Record, KojiTimes
  <2>4. BuildsValid => records[br].newest <= caseDate
    BY DEF BuildsValid
  <2> QED
    BY <2>1, <2>2, <2>3, <2>4
<1>2. KojiInv => KojiTypeOK /\ BuildIsOfTheDate
  BY <1>1 DEF KojiInv
<1> QED
  BY <1>2, KojiInitInv, KojiNextInv, PTL DEF KojiSpec
-----------------------------------------------------------------------------
(* The tracker. What a log of changes tells of a field at a time.          *)
PastOf(log, f, d) == {k \in DOMAIN log : log[k].field = f /\ log[k].at <= d}
ValueIn(log, f, d) ==
  IF PastOf(log, f, d) = {} THEN NoIssue.fields[f]
  ELSE log[CHOOSE k \in PastOf(log, f, d) : \A j \in PastOf(log, f, d) : j <= k].to

(* A log up to a time. That it has an oldest and a newest change wherever  *)
(* it has one is part of the invariant: it grows by one change at a time.  *)
Chronicle(log, t) ==
  /\ log \in Seq(Entry)
  /\ \A k \in DOMAIN log : log[k].at <= t
  /\ \A f \in Field, d \in Nat :
       /\ Later(log, f, d) # {} =>
            \E k \in Later(log, f, d) : \A j \in Later(log, f, d) : k <= j
       /\ PastOf(log, f, d) # {} =>
            \E k \in PastOf(log, f, d) : \A j \in PastOf(log, f, d) : j <= k

LEMMA TimeIs == Time \subseteq Nat /\ \A t \in Time : 0..t \subseteq Time
  BY JiraAssumption DEF Time

LEMMA DatesAreNot == \A d \in Nat : d # Nothing
  BY JiraAssumption

LEMMA ValueAtIs == \A f, d : ValueAt(f, d) = ValueIn(issue.log, f, d)
  BY DEF ValueAt, ValueIn, PastOf

LEMMA RewoundIs ==
  ASSUME NEW s, NEW f \in Rewound, NEW d \in Nat
  PROVE  Reconstruct(s, d)[f] = IF Later(s.log, f, d) = {} THEN s.fields[f]
                                ELSE s.log[Oldest(Later(s.log, f, d))].from
  BY JiraAssumption, DatesAreNot DEF Reconstruct

LEMMA OldestIs ==
  ASSUME NEW t, NEW log, Chronicle(log, t), NEW f \in Field, NEW d \in Nat,
         Later(log, f, d) # {}
  PROVE  /\ Oldest(Later(log, f, d)) \in Later(log, f, d)
         /\ \A j \in Later(log, f, d) : Oldest(Later(log, f, d)) <= j
  BY DEF Chronicle, Oldest

LEMMA NewestIs ==
  ASSUME NEW t, NEW log, Chronicle(log, t), NEW f \in Field, NEW d \in Nat,
         PastOf(log, f, d) # {},
         NEW k, k = CHOOSE i \in PastOf(log, f, d) : \A j \in PastOf(log, f, d) : j <= i
  PROVE  k \in PastOf(log, f, d) /\ \A j \in PastOf(log, f, d) : j <= k
  BY DEF Chronicle

LEMMA EmptyChronicle == \A t \in Nat : Chronicle(<<>>, t)
  BY DEF Chronicle, Later, PastOf

LEMMA ChangesAre ==
  ASSUME NEW t, NEW log, Chronicle(log, t)
  PROVE  \A k \in DOMAIN log : /\ log[k] \in Entry /\ log[k].at \in Nat /\ log[k].at <= t
                               /\ k \in Nat
<1>1. log \in Seq(Entry) /\ \A k \in DOMAIN log : log[k].at <= t
  BY DEF Chronicle
<1>2. \A k \in DOMAIN log : log[k] \in Entry /\ k \in Nat
  BY <1>1
<1> QED
  BY <1>1, <1>2, TimeIs DEF Entry

(* After its last change a log tells nothing new.                          *)
LEMMA QuietAfter ==
  ASSUME NEW t \in Nat, NEW log, Chronicle(log, t), NEW f \in Field, NEW d \in Nat, t <= d
  PROVE  /\ Later(log, f, d) = {} /\ PastOf(log, f, d) = PastOf(log, f, t)
         /\ ValueIn(log, f, d) = ValueIn(log, f, t)
<1>1. \A k \in DOMAIN log : log[k].at \in Nat /\ log[k].at <= t
  BY ChangesAre
<1>2. \A k \in DOMAIN log : log[k].at <= d /\ ~(log[k].at > d)
  BY <1>1
<1>3. Later(log, f, d) = {} /\ PastOf(log, f, d) = PastOf(log, f, t)
  BY <1>1, <1>2 DEF Later, PastOf
<1> QED
  BY <1>3 DEF ValueIn
-----------------------------------------------------------------------------
(* A log that grows by a change after its time.                            *)
LEMMA GrowsBy ==
  ASSUME NEW log \in Seq(Entry), NEW e \in Entry, NEW f, NEW d \in Nat
  PROVE  LET n == Len(log) + 1
             longer == Append(log, e)
         IN  /\ longer \in Seq(Entry) /\ longer[n] = e
             /\ \A k \in DOMAIN log : longer[k] = log[k] /\ k < n /\ k \in Nat
             /\ Later(longer, f, d) =
                  Later(log, f, d) \cup (IF e.field = f /\ e.at > d THEN {n} ELSE {})
             /\ PastOf(longer, f, d) =
                  PastOf(log, f, d) \cup (IF e.field = f /\ e.at <= d THEN {n} ELSE {})
<1> DEFINE n == Len(log) + 1
           longer == Append(log, e)
<1>1. longer \in Seq(Entry) /\ longer[n] = e
  OBVIOUS
<1>2. \A k \in DOMAIN log : longer[k] = log[k] /\ k < n /\ k \in Nat
  OBVIOUS
<1>3. DOMAIN longer = DOMAIN log \cup {n}
  OBVIOUS
<1> HIDE DEF longer, n
<1>4. Later(longer, f, d) = Later(log, f, d) \cup (IF e.field = f /\ e.at > d THEN {n} ELSE {})
  BY <1>1, <1>2, <1>3 DEF Later
<1>5. PastOf(longer, f, d) = PastOf(log, f, d) \cup (IF e.field = f /\ e.at <= d THEN {n} ELSE {})
  BY <1>1, <1>2, <1>3 DEF PastOf
<1> QED
  BY <1>1, <1>2, <1>4, <1>5 DEF longer, n

LEMMA ChronicleGrows ==
  ASSUME NEW t \in Nat, NEW log, Chronicle(log, t), NEW e \in Entry, e.at = t + 1
  PROVE  Chronicle(Append(log, e), t + 1)
<1> DEFINE n == Len(log) + 1
           longer == Append(log, e)
<1>1. log \in Seq(Entry) /\ n \in Nat
  BY DEF Chronicle
<1>2. longer \in Seq(Entry) /\ DOMAIN longer = DOMAIN log \cup {n}
  BY <1>1
<1>3. \A k \in DOMAIN log : longer[k] = log[k] /\ k < n /\ k \in Nat
  BY <1>1
<1>4. longer[n] = e
  BY <1>1
<1>5. \A k \in DOMAIN log : log[k].at \in Nat /\ log[k].at <= t
  BY ChangesAre
<1>6. \A k \in DOMAIN longer : longer[k].at <= t + 1
  <2> HIDE DEF longer, n
  <2> QED
    BY <1>2, <1>3, <1>4, <1>5
<1>7. ASSUME NEW f \in Field, NEW d \in Nat
      PROVE  /\ Later(longer, f, d) # {} =>
                  \E k \in Later(longer, f, d) : \A j \in Later(longer, f, d) : k <= j
             /\ PastOf(longer, f, d) # {} =>
                  \E k \in PastOf(longer, f, d) : \A j \in PastOf(longer, f, d) : j <= k
  <2>1. /\ Later(longer, f, d) \subseteq Later(log, f, d) \cup {n}
        /\ Later(log, f, d) \subseteq Later(longer, f, d)
        /\ PastOf(longer, f, d) \subseteq PastOf(log, f, d) \cup {n}
        /\ PastOf(log, f, d) \subseteq PastOf(longer, f, d)
    BY <1>1, GrowsBy
  <2>2. Later(log, f, d) \subseteq DOMAIN log /\ PastOf(log, f, d) \subseteq DOMAIN log
    BY DEF Later, PastOf
  <2>3. /\ Later(log, f, d) # {} =>
             \E k \in Later(log, f, d) : \A j \in Later(log, f, d) : k <= j
        /\ PastOf(log, f, d) # {} =>
             \E k \in PastOf(log, f, d) : \A j \in PastOf(log, f, d) : j <= k
    BY DEF Chronicle
  <2> HIDE DEF longer, n
  <2> DEFINE new == Later(longer, f, d)
             old == Later(log, f, d)
             newer == PastOf(longer, f, d)
             older == PastOf(log, f, d)
  <2>4. n <= n
    BY <1>1
  <2> HIDE DEF new, old, newer, older
  <2>5. new # {} => \E k \in new : \A j \in new : k <= j
    <3>1. CASE old = {}
      BY <2>1, <2>4, <3>1 DEF new, old
    <3>2. CASE old # {}
      <4>1. PICK k \in old : \A j \in old : k <= j
        BY <2>3, <3>2 DEF old
      <4>2. k <= n
        BY <1>1, <1>3, <2>2 DEF old
      <4> QED
        BY <2>1, <4>1, <4>2 DEF new, old
    <3> QED
      BY <3>1, <3>2
  <2>6. newer # {} => \E k \in newer : \A j \in newer : j <= k
    <3>1. CASE n \in newer
      <4>1. \A j \in newer : j <= n
        BY <1>1, <1>3, <2>1, <2>2, <2>4 DEF newer
      <4> QED
        BY <3>1, <4>1
    <3>2. CASE n \notin newer
      <4>1. newer = older
        BY <2>1, <3>2 DEF newer, older
      <4> QED
        BY <2>3, <4>1 DEF older
    <3> QED
      BY <3>1, <3>2
  <2> QED
    BY <2>5, <2>6 DEF new, newer
<1> HIDE DEF longer
<1>8. Chronicle(longer, t + 1)
  BY <1>2, <1>6, <1>7 DEF Chronicle
<1> QED
  BY <1>8 DEF longer

(* What a log told of a time it tells of that time for ever.               *)
LEMMA PastStays ==
  ASSUME NEW t \in Nat, NEW log, Chronicle(log, t), NEW e \in Entry, e.at = t + 1,
         NEW f \in Field, NEW d \in 0..t
  PROVE  ValueIn(Append(log, e), f, d) = ValueIn(log, f, d)
<1> DEFINE longer == Append(log, e)
<1>1. log \in Seq(Entry) /\ d \in Nat /\ ~(e.at <= d)
  BY DEF Chronicle
<1>2. PastOf(longer, f, d) = PastOf(log, f, d)
  <2>1. PastOf(longer, f, d) =
          PastOf(log, f, d) \cup (IF e.field = f /\ e.at <= d THEN {Len(log) + 1} ELSE {})
    BY <1>1, GrowsBy
  <2> QED
    BY <1>1, <2>1
<1>3. \A k \in DOMAIN log : longer[k] = log[k]
  BY <1>1
<1>4. CASE PastOf(log, f, d) = {}
  BY <1>2, <1>4 DEF ValueIn
<1>5. CASE PastOf(log, f, d) # {}
  <2> DEFINE k == CHOOSE i \in PastOf(log, f, d) : \A j \in PastOf(log, f, d) : j <= i
  <2>1. k \in PastOf(log, f, d)
    BY <1>1, <1>5, NewestIs
  <2>2. k \in DOMAIN log
    BY <2>1 DEF PastOf
  <2>3. ValueIn(log, f, d) = log[k].to
    BY <1>5 DEF ValueIn
  <2>4. ValueIn(longer, f, d) = longer[k].to
    BY <1>2, <1>5 DEF ValueIn
  <2> HIDE DEF k, longer
  <2> QED
    BY <1>3, <2>2, <2>3, <2>4 DEF longer
<1> QED
  BY <1>4, <1>5
-----------------------------------------------------------------------------
(* A fetched issue tells the truth of the past: rewound to a time, it has  *)
(* the values its log tells of that time.                                  *)
Told(s, log, t) == \A f \in Rewound, d \in 0..t : Reconstruct(s, d)[f] = ValueIn(log, f, d)

LEMMA ReconstructIs ==
  ASSUME NEW s, s.fields \in Fields, NEW t, Chronicle(s.log, t), NEW d \in Date
  PROVE  Reconstruct(s, d) \in Fields
<1>1. ASSUME NEW f \in Rewound, d # Nothing PROVE Reconstruct(s, d)[f] \in Value
  <2>1. f \in Field /\ d \in Nat /\ s.fields[f] \in Value
    BY <1>1, JiraAssumption, TimeIs DEF Date, Fields
  <2>2. CASE Later(s.log, f, d) = {}
    BY <2>1, <2>2, RewoundIs
  <2>3. CASE Later(s.log, f, d) # {}
    <3>1. Oldest(Later(s.log, f, d)) \in Later(s.log, f, d)
      BY <2>1, <2>3, OldestIs
    <3>2. s.log[Oldest(Later(s.log, f, d))] \in Entry
      BY <3>1, ChangesAre DEF Later
    <3> QED
      BY <2>1, <2>3, <3>2, RewoundIs DEF Entry
  <2> QED
    BY <2>2, <2>3
<1>2. \A f \in Field : d = Nothing \/ f \notin Rewound => Reconstruct(s, d)[f] \in Value
  BY DEF Reconstruct, Fields
<1>3. Reconstruct(s, d) = [f \in Field |-> Reconstruct(s, d)[f]]
  BY DEF Reconstruct
<1> QED
  BY <1>1, <1>2, <1>3 DEF Fields

(* Time passes over an issue whose fields do not change.                   *)
LEMMA ToldQuietly ==
  ASSUME NEW t \in Nat, NEW s, Chronicle(s.log, t), Told(s, s.log, t),
         NEW next, next.log = s.log, next.fields = s.fields
  PROVE  Chronicle(next.log, t + 1) /\ Told(next, next.log, t + 1)
<1>1. Chronicle(next.log, t + 1)
  <2>1. \A k \in DOMAIN s.log : s.log[k].at <= t + 1
    BY ChangesAre
  <2> QED
    BY <2>1 DEF Chronicle
<1>2. ASSUME NEW f \in Rewound, NEW d \in 0..(t + 1)
      PROVE  Reconstruct(next, d)[f] = ValueIn(next.log, f, d)
  <2>1. f \in Field /\ d \in Nat /\ t + 1 \in Nat
    BY JiraAssumption
  <2>2. ASSUME NEW e \in Nat PROVE Reconstruct(next, e)[f] = Reconstruct(s, e)[f]
    <3>1. Reconstruct(next, e)[f] = IF Later(next.log, f, e) = {} THEN next.fields[f]
                                    ELSE next.log[Oldest(Later(next.log, f, e))].from
      BY RewoundIs
    <3>2. Reconstruct(s, e)[f] = IF Later(s.log, f, e) = {} THEN s.fields[f]
                                 ELSE s.log[Oldest(Later(s.log, f, e))].from
      BY RewoundIs
    <3> QED
      BY <3>1, <3>2
  <2>3. CASE d <= t
    BY <2>1, <2>2, <2>3 DEF Told
  <2>4. CASE d = t + 1
    <3>1. /\ Later(s.log, f, d) = {} /\ Later(s.log, f, t) = {}
          /\ ValueIn(s.log, f, d) = ValueIn(s.log, f, t)
      BY <2>1, <2>4, QuietAfter
    <3>2. Reconstruct(s, d)[f] = s.fields[f] /\ Reconstruct(s, t)[f] = s.fields[f]
      BY <2>1, <3>1, RewoundIs
    <3> QED
      BY <2>1, <2>2, <3>1, <3>2 DEF Told
  <2> QED
    BY <2>1, <2>3, <2>4
<1> QED
  BY <1>1, <1>2 DEF Told

(* A field is changed.                                                     *)
EntryOf(s, g, v, t) == [at |-> t + 1, field |-> g, from |-> s.fields[g], to |-> v]
Edited(next, s, g, v, e) ==
  next.log = Append(s.log, e) /\ next.fields = [s.fields EXCEPT ![g] = v]

LEMMA ToldOfEdit ==
  ASSUME NEW t \in Nat, NEW s, s.fields \in Fields, Chronicle(s.log, t), Told(s, s.log, t),
         NEW g \in Field, NEW v \in Value,
         NEW e \in Entry, e = EntryOf(s, g, v, t),
         NEW next, Edited(next, s, g, v, e)
  PROVE  Chronicle(next.log, t + 1) /\ Told(next, next.log, t + 1)
<1> DEFINE n == Len(s.log) + 1
<1>1. e.at = t + 1 /\ e.field = g /\ e.from = s.fields[g] /\ e.to = v
  BY DEF EntryOf
<1>2. Chronicle(next.log, t + 1)
  BY <1>1, ChronicleGrows DEF Edited
<1>3. s.log \in Seq(Entry) /\ n \in Nat
  BY DEF Chronicle
<1>4. next.log[n] = e /\ \A k \in DOMAIN s.log : next.log[k] = s.log[k] /\ k < n /\ k \in Nat
  BY <1>3 DEF Edited
<1>5. ASSUME NEW f \in Rewound, NEW d \in 0..t
      PROVE  Reconstruct(next, d)[f] = Reconstruct(s, d)[f]
  <2>1. f \in Field /\ d \in Nat /\ e.at > d
    BY <1>1, JiraAssumption
  <2>7. /\ Reconstruct(next, d)[f] = IF Later(next.log, f, d) = {} THEN next.fields[f]
                                     ELSE next.log[Oldest(Later(next.log, f, d))].from
        /\ Reconstruct(s, d)[f] = IF Later(s.log, f, d) = {} THEN s.fields[f]
                                  ELSE s.log[Oldest(Later(s.log, f, d))].from
    BY <2>1, RewoundIs
  <2>2. Later(next.log, f, d) = Later(s.log, f, d) \cup (IF g = f THEN {n} ELSE {})
    <3>1. Later(next.log, f, d) =
            Later(s.log, f, d) \cup (IF e.field = f /\ e.at > d THEN {n} ELSE {})
      BY <1>3, <2>1, GrowsBy DEF Edited
    <3> QED
      BY <1>1, <2>1, <3>1
  <2>3. Later(s.log, f, d) \subseteq DOMAIN s.log
    BY DEF Later
  <2> HIDE DEF n
  <2>4. CASE Later(s.log, f, d) = {} /\ g = f
    <3>1. Later(next.log, f, d) = {n}
      BY <2>2, <2>4
    <3>2. Oldest(Later(next.log, f, d)) = n
      BY <2>1, <1>2, <3>1, OldestIs
    <3> QED
      BY <1>1, <1>4, <2>4, <2>7, <3>1, <3>2
  <2>5. CASE Later(s.log, f, d) = {} /\ g # f
    <3>1. Later(next.log, f, d) = {}
      BY <2>2, <2>5
    <3>2. next.fields[f] = s.fields[f]
      BY <2>1, <2>5 DEF Edited, Fields
    <3> QED
      BY <2>5, <2>7, <3>1, <3>2
  <2>6. CASE Later(s.log, f, d) # {}
    <3> DEFINE k == Oldest(Later(s.log, f, d))
               l == Oldest(Later(next.log, f, d))
    <3>1. k \in Later(s.log, f, d) /\ \A j \in Later(s.log, f, d) : k <= j
      BY <2>1, <2>6, OldestIs
    <3>2. Later(next.log, f, d) # {}
      BY <2>2, <2>6
    <3>3. l \in Later(next.log, f, d) /\ \A j \in Later(next.log, f, d) : l <= j
      BY <1>2, <2>1, <3>2, OldestIs
    <3>4. Reconstruct(s, d)[f] = s.log[k].from /\ Reconstruct(next, d)[f] = next.log[l].from
      BY <2>6, <2>7, <3>2
    <3> HIDE DEF k, l
    <3>5. k \in Nat /\ k < n /\ k \in DOMAIN s.log
      BY <1>4, <2>3, <3>1
    <3>6. l \in Nat /\ l <= k
      BY <1>3, <1>4, <2>2, <2>3, <3>1, <3>3 DEF n
    <3>7. l = k
      BY <1>3, <2>2, <3>1, <3>3, <3>5, <3>6 DEF n
    <3> QED
      BY <1>4, <3>4, <3>5, <3>7
  <2> QED
    BY <2>4, <2>5, <2>6
<1>6. ASSUME NEW f \in Rewound
      PROVE  Reconstruct(next, t + 1)[f] = ValueIn(next.log, f, t + 1)
  <2>1. f \in Field /\ t + 1 \in Nat
    BY JiraAssumption
  <2>2. Later(next.log, f, t + 1) = {} /\ Reconstruct(next, t + 1)[f] = next.fields[f]
    <3>1. Later(next.log, f, t + 1) = {}
      BY <1>2, <2>1, QuietAfter
    <3>2. Reconstruct(next, t + 1)[f] =
            IF Later(next.log, f, t + 1) = {} THEN next.fields[f]
            ELSE next.log[Oldest(Later(next.log, f, t + 1))].from
      BY <2>1, RewoundIs
    <3> QED
      BY <3>1, <3>2
  <2>3. PastOf(next.log, f, t + 1) = PastOf(s.log, f, t + 1) \cup (IF g = f THEN {n} ELSE {})
    <3>1. PastOf(next.log, f, t + 1) =
            PastOf(s.log, f, t + 1) \cup (IF e.field = f /\ e.at <= t + 1 THEN {n} ELSE {})
      BY <1>3, <2>1, GrowsBy DEF Edited
    <3> QED
      BY <1>1, <2>1, <3>1
  <2>4. PastOf(s.log, f, t + 1) \subseteq DOMAIN s.log
    BY DEF PastOf
  <2> HIDE DEF n
  <2>5. CASE g = f
    <3> DEFINE k == CHOOSE i \in PastOf(next.log, f, t + 1) :
                      \A j \in PastOf(next.log, f, t + 1) : j <= i
    <3>1. n \in PastOf(next.log, f, t + 1)
      BY <2>3, <2>5
    <3>2. k \in PastOf(next.log, f, t + 1) /\ \A j \in PastOf(next.log, f, t + 1) : j <= k
      BY <1>2, <2>1, <3>1, NewestIs
    <3>3. ValueIn(next.log, f, t + 1) = next.log[k].to
      BY <3>1 DEF ValueIn
    <3> HIDE DEF k
    <3>4. k = n
      BY <1>3, <1>4, <2>3, <2>4, <3>1, <3>2 DEF n
    <3>5. next.fields[f] = v
      BY <2>1, <2>5 DEF Edited, Fields
    <3> QED
      BY <1>1, <1>4, <2>2, <3>3, <3>4, <3>5
  <2>6. CASE g # f
    <3>1. PastOf(next.log, f, t + 1) = PastOf(s.log, f, t)
      <4>1. PastOf(s.log, f, t + 1) = PastOf(s.log, f, t) /\ t <= t + 1
        BY <2>1, QuietAfter
      <4> QED
        BY <2>3, <2>6, <4>1
    <3>2. \A k \in PastOf(s.log, f, t) : next.log[k] = s.log[k]
      BY <1>4 DEF PastOf
    <3>3. ValueIn(next.log, f, t + 1) = ValueIn(s.log, f, t)
      <4>1. CASE PastOf(s.log, f, t) = {}
        BY <3>1, <4>1 DEF ValueIn
      <4>2. CASE PastOf(s.log, f, t) # {}
        <5> DEFINE k == CHOOSE i \in PastOf(s.log, f, t) : \A j \in PastOf(s.log, f, t) : j <= i
        <5>1. k \in PastOf(s.log, f, t)
          BY <2>1, <4>2, NewestIs
        <5>2. ValueIn(s.log, f, t) = s.log[k].to /\ ValueIn(next.log, f, t + 1) = next.log[k].to
          BY <3>1, <4>2 DEF ValueIn
        <5> HIDE DEF k
        <5> QED
          BY <3>2, <5>1, <5>2
      <4> QED
        BY <4>1, <4>2
    <3>4. Later(s.log, f, t) = {} /\ Reconstruct(s, t)[f] = s.fields[f]
      BY <2>1, QuietAfter, RewoundIs
    <3>5. next.fields[f] = s.fields[f]
      BY <2>1, <2>6 DEF Edited, Fields
    <3> QED
      BY <2>2, <3>3, <3>4, <3>5 DEF Told
  <2> QED
    BY <2>5, <2>6
<1>7. \A f \in Rewound, d \in 0..t : ValueIn(next.log, f, d) = ValueIn(s.log, f, d)
  BY <1>1, PastStays, JiraAssumption DEF Edited
<1> QED
  <2> HIDE DEF n
  <2>1. \A d \in 0..(t + 1) : d \in 0..t \/ d = t + 1
    OBVIOUS
  <2> QED
    BY <1>2, <1>5, <1>6, <1>7, <2>1 DEF Told
-----------------------------------------------------------------------------
(* The strengthening: what the issue in the tracker, each of its files, a  *)
(* run's issue and a recorded search say, at a time t.                     *)
CommentsOK(cs, t) ==
  /\ cs \subseteq Comment
  /\ \A c \in cs : 1 <= c.at /\ c.at <= t
  /\ Results(cs) # {} => \E c \in Results(cs) : \A b \in Results(cs) : c.at <= b.at
DateOK(d, t) == d \in Date /\ (d # Nothing => d <= t)
IssueOK(iss, t) ==
  /\ iss \in [born : 0..t, fields : Fields, log : Seq(Entry), comments : SUBSET Comment,
              dev : SUBSET Time]
  /\ Chronicle(iss.log, t) /\ Told(iss, iss.log, t)
  /\ CommentsOK(iss.comments, t)
OfDate(fields, log, d) ==
  \A f \in Rewound :
    LET v == ValueIn(log, f, d)
    IN  fields[f] = v \/ (f = Status /\ v \in Closed /\ fields[f] = New)
RawOK(s, iss, t) ==
  /\ s.taken \in 0..t /\ s.fields \in Fields /\ s.comments \subseteq Comment
  /\ s.born = iss.born /\ iss.born # 0
  /\ Chronicle(s.log, s.taken) /\ Told(s, iss.log, s.taken)
StartOK(s, iss, t) ==
  /\ s.fields \in Fields /\ s.made \in Date /\ s.taken \in 0..t
  /\ s.made # Nothing => \A c \in s.comments : c.at <= s.made /\ c.kind # "result"
  /\ (s.made # Nothing /\ s.made <= s.taken) => OfDate(s.fields, iss.log, s.made)
ContentOK(fs, iss, t) ==
  /\ fs["raw"] # Nothing => RawOK(fs["raw"], iss, t)
  /\ fs["comments"] # Nothing => CommentsOK(fs["comments"], t)
  /\ fs["starting"] # Nothing => StartOK(fs["starting"], iss, t)
  /\ DateOK(fs["date"], t)
  /\ fs["dev"] # Nothing => DateOK(fs["dev"].date, t)
MockOK(m, iss, t) ==
  /\ m.fields \in Fields /\ m.date \in Date
  /\ (m.date # Nothing /\ m.made = m.date /\ m.taken >= m.date) =>
       m.date <= t /\ OfDate(m.fields, iss.log, m.date)
MockQuiet(m) ==
  (m.date # Nothing /\ m.made = m.date) =>
    /\ \A c \in m.comments : c.at <= m.date /\ c.kind # "result"
    /\ \A e \in m.dev : e <= m.date
FoundOK(r, iss, t) ==
  /\ r \in [answer : {Out} \cup {Hit(f) : f \in Fields}, detailed : BOOLEAN, made : Date]
  /\ DateOK(r.made, t)
  /\ (r.answer.hit /\ r.detailed /\ r.made # Nothing) =>
       \A f \in Rewound : r.answer.fields[f] = ValueIn(iss.log, f, r.made)
Complete(fs) == fs["raw"] # Nothing => fs["starting"] # Nothing

JiraInv ==
  /\ linked \in BOOLEAN /\ whole \in BOOLEAN /\ missed \subseteq Query
  /\ now \in Time /\ 1 <= now
  /\ IssueOK(issue, now) /\ (~linked => issue.born # 0)
  /\ DateOK(root, now)
  /\ ContentOK(files, issue, now) /\ (whole => Complete(files))
  /\ mock # Nothing => MockOK(mock, issue, now) /\ (whole => MockQuiet(mock))
  /\ found = [q \in Query |-> found[q]]
  /\ \A q \in Query : found[q] # Nothing => FoundOK(found[q], issue, now)

(* One issue follows another: what was true of the past stays so.          *)
Follows(next, u, iss, t) ==
  /\ t <= u /\ (iss.born # 0 => next.born = iss.born)
  /\ \A f \in Rewound, d \in 0..t : ValueIn(next.log, f, d) = ValueIn(iss.log, f, d)

LEMMA FollowsItself == ASSUME NEW iss, NEW t \in Nat PROVE Follows(iss, t, iss, t)
  BY DEF Follows

LEMMA DateIs == ASSUME NEW t, NEW d, DateOK(d, t), d # Nothing PROVE d \in 0..t \/ t \notin Nat
  BY TimeIs DEF DateOK, Date

LEMMA RawStays ==
  ASSUME NEW t \in Nat, NEW u \in Nat, NEW iss, NEW next, Follows(next, u, iss, t),
         NEW s, RawOK(s, iss, t)
  PROVE  RawOK(s, next, u)
<1>1. s.taken \in 0..t /\ s.taken \in 0..u /\ 0..s.taken \subseteq 0..t
  BY DEF RawOK, Follows
<1>2. Told(s, next.log, s.taken)
  BY <1>1 DEF RawOK, Told, Follows
<1> QED
  BY <1>1, <1>2 DEF RawOK, Follows

LEMMA StartStays ==
  ASSUME NEW t \in Nat, NEW u \in Nat, NEW iss, NEW next, Follows(next, u, iss, t),
         NEW s, StartOK(s, iss, t)
  PROVE  StartOK(s, next, u)
<1>1. s.taken \in 0..t /\ s.taken \in 0..u
  BY DEF StartOK, Follows
<1>2. ASSUME s.made # Nothing, s.made <= s.taken PROVE OfDate(s.fields, next.log, s.made)
  <2>1. s.made \in 0..t
    <3>1. s.made \in Nat
      BY <1>2, TimeIs DEF StartOK, Date
    <3> QED
      BY <1>1, <1>2, <3>1
  <2>2. OfDate(s.fields, iss.log, s.made)
    BY <1>2 DEF StartOK
  <2> QED
    BY <2>1, <2>2 DEF OfDate, Follows
<1> QED
  BY <1>1, <1>2 DEF StartOK

LEMMA DateStays ==
  ASSUME NEW t \in Nat, NEW u \in Nat, t <= u, NEW d, DateOK(d, t)
  PROVE  DateOK(d, u)
  BY TimeIs DEF DateOK, Date

LEMMA CommentsStay ==
  ASSUME NEW t \in Nat, NEW u \in Nat, t <= u, NEW cs, CommentsOK(cs, t)
  PROVE  CommentsOK(cs, u)
<1>1. \A c \in cs : c.at \in Nat
  BY TimeIs DEF CommentsOK, Comment
<1>2. \A c \in cs : 1 <= c.at /\ c.at <= u
  BY <1>1 DEF CommentsOK
<1> QED
  BY <1>2 DEF CommentsOK

LEMMA ContentStays ==
  ASSUME NEW t \in Nat, NEW u \in Nat, NEW iss, NEW next, Follows(next, u, iss, t),
         NEW fs, ContentOK(fs, iss, t)
  PROVE  ContentOK(fs, next, u)
<1>1. t <= u
  BY DEF Follows
<1> QED
  BY <1>1, RawStays, StartStays, DateStays, CommentsStay DEF ContentOK

LEMMA MockStays ==
  ASSUME NEW t \in Nat, NEW u \in Nat, NEW iss, NEW next, Follows(next, u, iss, t),
         NEW m, MockOK(m, iss, t)
  PROVE  MockOK(m, next, u)
<1>1. t <= u
  BY DEF Follows
<1>2. ASSUME m.date # Nothing, m.made = m.date, m.taken >= m.date
      PROVE  m.date <= u /\ OfDate(m.fields, next.log, m.date)
  <2>1. m.date \in 0..t /\ OfDate(m.fields, iss.log, m.date)
    <3>1. m.date \in Nat
      BY <1>2, TimeIs DEF MockOK, Date
    <3> QED
      BY <1>2, <3>1 DEF MockOK
  <2> QED
    BY <1>1, <2>1 DEF OfDate, Follows
<1> QED
  BY <1>2 DEF MockOK

LEMMA FoundStays ==
  ASSUME NEW t \in Nat, NEW u \in Nat, NEW iss, NEW next, Follows(next, u, iss, t),
         NEW r, FoundOK(r, iss, t)
  PROVE  FoundOK(r, next, u)
<1>1. t <= u
  BY DEF Follows
<1>2. DateOK(r.made, u)
  BY <1>1, DateStays DEF FoundOK
<1>3. r.made # Nothing => r.made \in 0..t
  BY DateIs DEF FoundOK
<1> QED
  BY <1>2, <1>3 DEF FoundOK, Follows
-----------------------------------------------------------------------------
(* What is made of an issue.                                               *)
LEMMA CommentsAsOfAre ==
  ASSUME NEW t \in Time, NEW cs, CommentsOK(cs, t), NEW d \in Date
  PROVE  CommentsOK(CommentsAsOf(cs, d), t)
<1>1. CASE d = Nothing
  BY <1>1 DEF CommentsAsOf
<1>2. CASE d # Nothing
  <2> DEFINE kept == CommentsAsOf(cs, d)
  <2>1. kept = {c \in cs : c.at <= d} /\ d \in Nat
    BY <1>2, TimeIs DEF CommentsAsOf, Date
  <2>2. \A c \in cs : c.at \in Nat
    BY TimeIs DEF CommentsOK, Comment
  <2>3. kept \subseteq Comment /\ \A c \in kept : 1 <= c.at /\ c.at <= t
    BY <2>1 DEF CommentsOK
  <2>4. ASSUME Results(kept) # {}
        PROVE  \E c \in Results(kept) : \A b \in Results(kept) : c.at <= b.at
    <3>1. PICK e \in Results(kept) : TRUE
      BY <2>4
    <3>2. e \in Results(cs) /\ e.at <= d /\ Results(kept) \subseteq Results(cs)
      BY <2>1, <3>1 DEF Results
    <3>3. PICK c \in Results(cs) : \A b \in Results(cs) : c.at <= b.at
      BY <3>2 DEF CommentsOK
    <3>4. c \in cs /\ e \in cs /\ c.at <= e.at
      BY <3>2, <3>3 DEF Results
    <3>5. c.at <= d
      BY <2>1, <2>2, <3>2, <3>4
    <3>6. c \in Results(kept)
      BY <2>1, <3>3, <3>5 DEF Results
    <3> QED
      BY <3>2, <3>3, <3>6
  <2> QED
    BY <2>3, <2>4 DEF CommentsOK
<1> QED
  BY <1>1, <1>2

LEMMA DateOfIs ==
  ASSUME NEW t \in Time, NEW cs, CommentsOK(cs, t)
  PROVE  DateOK(DateOf(cs), t)
<1>1. CASE Results(cs) = {}
  BY <1>1 DEF DateOf, DateOK, Date
<1>2. CASE Results(cs) # {}
  <2> DEFINE first == CHOOSE c \in Results(cs) : \A b \in Results(cs) : c.at <= b.at
  <2>1. first \in Results(cs)
    BY <1>2 DEF CommentsOK
  <2>2. first \in cs
    BY <2>1 DEF Results
  <2>3. first.at \in Nat /\ 1 <= first.at /\ first.at <= t
    BY <2>2, TimeIs DEF CommentsOK, Comment
  <2>4. DateOf(cs) = first.at - 1
    BY <1>2 DEF DateOf
  <2> HIDE DEF first
  <2>5. t \in Nat
    BY TimeIs
  <2>6. first.at - 1 \in 0..t
    BY <2>3, <2>5
  <2> QED
    BY <2>4, <2>6, TimeIs DEF DateOK, Date
<1> QED
  BY <1>1, <1>2

LEMMA SnapshotIs ==
  ASSUME now \in Time, IssueOK(issue, now), issue.born # 0
  PROVE  RawOK(Snapshot, issue, now) /\ \A d : Reconstruct(Snapshot, d) = Reconstruct(issue, d)
<1>1. /\ Snapshot.fields = issue.fields /\ Snapshot.log = issue.log /\ Snapshot.taken = now
      /\ Snapshot.born = issue.born /\ Snapshot.comments = issue.comments
  BY DEF Snapshot
<1>2. \A d : Reconstruct(Snapshot, d) = Reconstruct(issue, d)
  BY <1>1 DEF Reconstruct
<1>3. issue.fields \in Fields /\ issue.comments \subseteq Comment /\ now \in 0..now
  BY TimeIs DEF IssueOK
<1>4. Told(Snapshot, issue.log, now)
  BY <1>2 DEF IssueOK, Told
<1>5. Chronicle(issue.log, now)
  BY DEF IssueOK
<1> QED
  BY <1>1, <1>2, <1>3, <1>4, <1>5 DEF RawOK

LEMMA SearchedIs ==
  ASSUME NEW fields \in Fields
  PROVE  /\ Opened(fields) \in Fields
         /\ \A f \in Rewound : \/ Opened(fields)[f] = fields[f]
                               \/ f = Status /\ fields[f] \in Closed /\ Opened(fields)[f] = New
  BY JiraAssumption DEF Opened, Fields

LEMMA StartingIs ==
  ASSUME now \in Time, IssueOK(issue, now), NEW d, DateOK(d, now), NEW cs, cs \subseteq Comment
  PROVE  /\ StartOK(Starting(issue, cs, d), issue, now)
         /\ Starting(issue, cs, d) # Nothing
<1> DEFINE s == Starting(issue, cs, d)
           kept == CommentsAsOf(cs, d) \ Results(cs)
           then == Reconstruct(issue, d)
<1>1. d \in Date
  BY DEF DateOK
<1>2. issue.fields \in Fields /\ issue.born \in 0..now /\ Chronicle(issue.log, now)
  BY DEF IssueOK
<1>3. then \in Fields
  BY <1>1, <1>2, ReconstructIs
<1>4. kept \subseteq Comment /\ (d # Nothing => \A c \in kept : c.at <= d /\ c.kind # "result")
  BY DEF CommentsAsOf, Results
<1>5. now \in Nat /\ now \in 0..now /\ 0..now \subseteq Time
  BY TimeIs
<1>6. ASSUME d # Nothing PROVE OfDate(Opened(then), issue.log, d)
  <2>1. d \in 0..now
    BY <1>5, <1>6, DateIs
  <2>2. \A f \in Rewound : then[f] = ValueIn(issue.log, f, d)
    BY <2>1 DEF IssueOK, Told
  <2> HIDE DEF then
  <2> QED
    BY <1>3, <2>2, SearchedIs DEF OfDate
<1>7. Opened(then) \in Fields
  BY <1>3, SearchedIs
<1>8. s = [born |-> issue.born, fields |-> Opened(then), log |-> <<>>,
           comments |-> kept, made |-> d, taken |-> now]
  BY DEF Starting
<1> HIDE DEF s, kept, then
<1>9. s \in StartingIssue
  BY <1>1, <1>2, <1>4, <1>5, <1>7, <1>8 DEF StartingIssue
<1>10. s # Nothing
  BY <1>9, JiraAssumption
<1>11. StartOK(s, issue, now)
  BY <1>1, <1>4, <1>5, <1>6, <1>7, <1>8 DEF StartOK
<1> QED
  BY <1>10, <1>11 DEF s

LEMMA CollectedIs ==
  ASSUME JiraInv, issue.born # 0, NEW d, DateOK(d, now)
  PROVE  ContentOK(Collected(d), issue, now) /\ Collected(d)["starting"] # Nothing
<1>1. now \in Time /\ IssueOK(issue, now) /\ CommentsOK(issue.comments, now)
  BY DEF JiraInv, IssueOK
<1>2. issue.comments \subseteq Comment /\ DateOK(DateOf(issue.comments), now)
  BY <1>1, DateOfIs DEF CommentsOK
<1>3. /\ StartOK(Starting(issue, issue.comments, DateOf(issue.comments)), issue, now)
      /\ Starting(issue, issue.comments, DateOf(issue.comments)) # Nothing
  BY <1>1, <1>2, StartingIs
<1>4. RawOK(Snapshot, issue, now)
  BY <1>1, SnapshotIs
<1> QED
  BY <1>1, <1>3, <1>4 DEF Collected, ContentOK

LEMMA CapturedIs ==
  ASSUME JiraInv, issue.born # 0, NEW d, DateOK(d, now)
  PROVE  ContentOK(Captured(d), issue, now) /\ Captured(d)["starting"] # Nothing
<1> DEFINE cs == CommentsAsOf(issue.comments, d)
<1>1. now \in Time /\ IssueOK(issue, now) /\ d \in Date
  BY DEF JiraInv, DateOK
<1>2. CommentsOK(cs, now)
  BY <1>1, CommentsAsOfAre DEF IssueOK
<1>3. cs \subseteq Comment
  BY <1>2 DEF CommentsOK
<1> HIDE DEF cs
<1>4. StartOK(Starting(issue, cs, d), issue, now) /\ Starting(issue, cs, d) # Nothing
  BY <1>1, <1>3, StartingIs
<1>5. RawOK(Snapshot, issue, now)
  BY <1>1, SnapshotIs
<1> DEFINE new == Captured(d)
<1>6. /\ new["raw"] = Snapshot /\ new["comments"] = cs
      /\ new["starting"] = Starting(issue, cs, d) /\ new["date"] = d
      /\ new["dev"] # Nothing => new["dev"].date = d
  BY DEF Captured, cs
<1> HIDE DEF new
<1>7. ContentOK(new, issue, now) /\ new["starting"] # Nothing
  BY <1>2, <1>4, <1>5, <1>6 DEF ContentOK
<1> QED
  BY <1>7 DEF new

(* Files that are written, all of them or the first.                       *)
LEMMA WrittenAre ==
  ASSUME NEW old, NEW new, NEW iss, NEW t, ContentOK(old, iss, t), ContentOK(new, iss, t),
         NEW list, NEW n, NEW overwrite
  PROVE  /\ ContentOK(Written(old, list, n, new, overwrite), iss, t)
         /\ (new["starting"] # Nothing /\ \E k \in 1..n : list[k] = "starting")
              => Complete(Written(old, list, n, new, overwrite))
<1> DEFINE fs == Written(old, list, n, new, overwrite)
<1>1. \A f \in JiraFile : fs[f] = old[f] \/ (fs[f] = new[f] /\ new[f] # Nothing)
  BY DEF Written
<1>2. {"raw", "comments", "starting", "date", "dev"} \subseteq JiraFile
  BY DEF JiraFile
<1>3. (new["starting"] # Nothing /\ \E k \in 1..n : list[k] = "starting")
        => fs["starting"] # Nothing
  BY <1>2 DEF Written
<1> HIDE DEF fs
<1>4. ContentOK(fs, iss, t)
  BY <1>1, <1>2 DEF ContentOK
<1> QED
  BY <1>3, <1>4 DEF fs, Complete

LEMMA NoFilesAre == \A iss, t : ContentOK(NoFiles, iss, t)
  BY DEF NoFiles, ContentOK, DateOK, Date, JiraFile
-----------------------------------------------------------------------------
LEMMA JiraInitInv == JiraInit => JiraInv
<1> SUFFICES ASSUME JiraInit PROVE JiraInv
  OBVIOUS
<1>1. 1 \in Time /\ now = 1
  BY JiraAssumption DEF JiraInit, Time
<1>2. /\ issue.log = <<>> /\ issue.comments = {} /\ issue.dev = {}
      /\ issue.born \in 0..1 /\ (~linked => issue.born # 0)
      /\ issue.fields = NoIssue.fields
  BY DEF JiraInit, NoIssue
<1>3. issue.fields \in Fields
  BY <1>2, JiraAssumption DEF NoIssue, Fields
<1>4. issue \in [born : 0..1, fields : Fields, log : Seq(Entry), comments : SUBSET Comment,
                 dev : SUBSET Time]
  <2>1. issue = [born |-> IF linked THEN 0 ELSE 1, fields |-> NoIssue.fields, log |-> <<>>,
                 comments |-> {}, dev |-> {}]
    BY DEF JiraInit, NoIssue
  <2>2. (IF linked THEN 0 ELSE 1) \in 0..1 /\ <<>> \in Seq(Entry)
    OBVIOUS
  <2> QED
    BY <1>2, <1>3, <2>1, <2>2
<1>5. Chronicle(<<>>, 1)
  BY EmptyChronicle
<1>6. ASSUME NEW f \in Rewound, NEW d \in 0..1
      PROVE  Reconstruct(issue, d)[f] = ValueIn(<<>>, f, d)
  <2>1. d \in Nat
    OBVIOUS
  <2>2. Reconstruct(issue, d)[f] = IF Later(issue.log, f, d) = {} THEN issue.fields[f]
                                   ELSE issue.log[Oldest(Later(issue.log, f, d))].from
    BY <2>1, RewoundIs
  <2>3. Later(<<>>, f, d) = {} /\ PastOf(<<>>, f, d) = {}
    BY DEF Later, PastOf
  <2> QED
    BY <1>2, <2>2, <2>3 DEF ValueIn
<1>7. CommentsOK({}, 1)
  BY DEF CommentsOK, Results
<1>8. IssueOK(issue, 1)
  BY <1>2, <1>4, <1>5, <1>6, <1>7 DEF IssueOK, Told
<1>9. DateOK(root, 1)
  BY DEF JiraInit, DateOK, Date
<1>10. ContentOK(files, issue, 1) /\ Complete(files)
  BY NoFilesAre DEF JiraInit, NoFiles, Complete, JiraFile
<1> QED
  BY <1>1, <1>2, <1>8, <1>9, <1>10 DEF JiraInit, JiraInv

LEMMA CommentsLater ==
  ASSUME now \in Nat, IssueOK(issue, now)
  PROVE  CommentsOK(issue.comments, now) /\ CommentsOK(issue.comments, now + 1)
<1>1. now + 1 \in Nat /\ now <= now + 1 /\ CommentsOK(issue.comments, now)
  BY DEF IssueOK
<1> QED
  BY <1>1, CommentsStay

(* The tracker moves on.                                                   *)
LEMMA ChangeInv ==
  ASSUME JiraInv, NEW next, Change(next), IssueOK(next, now + 1),
         Follows(next, now + 1, issue, now)
  PROVE  JiraInv'
<1>1. /\ now' = now + 1 /\ issue' = next /\ mock' = Nothing
      /\ UNCHANGED <<linked, root, files, found, missed, whole>>
  BY DEF Change
<1>2. now \in Nat /\ now + 1 \in Nat /\ now + 1 \in Time /\ now <= now + 1 /\ 1 <= now + 1
  BY JiraAssumption DEF JiraInv, Change, Time
<1>3. ContentOK(files, next, now + 1)
  BY <1>2, ContentStays DEF JiraInv
<1>4. DateOK(root, now + 1)
  BY <1>2, DateStays DEF JiraInv
<1>5. \A q \in Query : found[q] # Nothing => FoundOK(found[q], next, now + 1)
  BY <1>2, FoundStays DEF JiraInv
<1>6. ~linked => next.born # 0
  BY DEF JiraInv, Follows
<1> QED
  BY <1>1, <1>2, <1>3, <1>4, <1>5, <1>6 DEF JiraInv

(* Changes that leave the fields alone.                                    *)
LEMMA QuietChange ==
  ASSUME JiraInv, NEW next, Change(next),
         next \in [born : 0..(now + 1), fields : Fields, log : Seq(Entry),
                   comments : SUBSET Comment, dev : SUBSET Time],
         next.log = issue.log, next.fields = issue.fields,
         issue.born # 0 => next.born = issue.born, CommentsOK(next.comments, now + 1)
  PROVE  JiraInv'
<1>1. now \in Nat /\ IssueOK(issue, now)
  BY TimeIs DEF JiraInv
<1>2. Chronicle(next.log, now + 1) /\ Told(next, next.log, now + 1)
  BY <1>1, ToldQuietly DEF IssueOK
<1>3. IssueOK(next, now + 1)
  BY <1>2 DEF IssueOK
<1>4. Follows(next, now + 1, issue, now)
  BY <1>1 DEF Follows
<1> QED
  BY <1>3, <1>4, ChangeInv

LEMMA ReportInv == ASSUME JiraInv, Report PROVE JiraInv'
<1> DEFINE next == [issue EXCEPT !.born = now + 1]
<1>1. now \in Nat /\ IssueOK(issue, now) /\ issue.born = 0 /\ Change(next)
  BY TimeIs DEF JiraInv, Report
<1>2. next \in [born : 0..(now + 1), fields : Fields, log : Seq(Entry),
                comments : SUBSET Comment, dev : SUBSET Time]
      /\ next.log = issue.log /\ next.fields = issue.fields /\ next.comments = issue.comments
  BY <1>1 DEF IssueOK
<1>3. CommentsOK(issue.comments, now + 1)
  BY <1>1, CommentsLater
<1> HIDE DEF next
<1> QED
  BY <1>1, <1>2, <1>3, QuietChange

LEMMA DevelopInv == ASSUME JiraInv, Develop PROVE JiraInv'
<1> DEFINE next == [issue EXCEPT !.dev = @ \cup {now + 1}]
<1>1. now \in Nat /\ IssueOK(issue, now) /\ Change(next) /\ now + 1 \in Time
  BY TimeIs, JiraAssumption DEF JiraInv, Develop, Change, Time
<1>2. next \in [born : 0..(now + 1), fields : Fields, log : Seq(Entry),
                comments : SUBSET Comment, dev : SUBSET Time]
      /\ next.log = issue.log /\ next.fields = issue.fields /\ next.comments = issue.comments
      /\ next.born = issue.born
  BY <1>1 DEF IssueOK
<1>3. CommentsOK(issue.comments, now + 1)
  BY <1>1, CommentsLater
<1> HIDE DEF next
<1> QED
  BY <1>1, <1>2, <1>3, QuietChange

LEMMA CommentInv ==
  ASSUME JiraInv, NEW kind \in {"talk", "result"}, AddComment(kind)
  PROVE  JiraInv'
<1> DEFINE new == [at |-> now + 1, kind |-> kind]
           cs == issue.comments \cup {new}
           next == [issue EXCEPT !.comments = @ \cup {new}]
<1>1. now \in Nat /\ IssueOK(issue, now) /\ Change(next) /\ now + 1 \in Time
  BY TimeIs, JiraAssumption DEF JiraInv, AddComment, Change, Time
<1>2. new \in Comment /\ new.at = now + 1
  BY <1>1 DEF Comment
<1>3. next \in [born : 0..(now + 1), fields : Fields, log : Seq(Entry),
                comments : SUBSET Comment, dev : SUBSET Time]
      /\ next.log = issue.log /\ next.fields = issue.fields /\ next.comments = cs
      /\ next.born = issue.born
  BY <1>1, <1>2 DEF IssueOK
<1>4. CommentsOK(issue.comments, now + 1) /\ CommentsOK(issue.comments, now)
  BY <1>1, CommentsLater
<1> HIDE DEF new, next
<1>5. CommentsOK(cs, now + 1)
  <2>1. cs \subseteq Comment /\ \A c \in cs : 1 <= c.at /\ c.at <= now + 1
    BY <1>1, <1>2, <1>4 DEF CommentsOK
  <2>2. Results(issue.comments) \subseteq Results(cs)
        /\ Results(cs) \subseteq Results(issue.comments) \cup {new}
    BY DEF Results
  <2>3. new.at <= new.at /\ \A b \in Results(issue.comments) : b.at <= new.at
    BY <1>1, <1>2, <1>4 DEF CommentsOK, Results
  <2>4. ASSUME Results(cs) # {}
        PROVE  \E c \in Results(cs) : \A b \in Results(cs) : c.at <= b.at
    <3>1. CASE Results(issue.comments) = {}
      BY <2>2, <2>3, <2>4, <3>1
    <3>2. CASE Results(issue.comments) # {}
      <4>1. PICK c \in Results(issue.comments) : \A b \in Results(issue.comments) : c.at <= b.at
        BY <1>4, <3>2 DEF CommentsOK
      <4> QED
        BY <2>2, <2>3, <4>1
    <3> QED
      BY <3>1, <3>2
  <2> QED
    BY <2>1, <2>4 DEF CommentsOK
<1> HIDE DEF cs
<1> QED
  BY <1>1, <1>3, <1>5, QuietChange

LEMMA EditInv ==
  ASSUME JiraInv, NEW f \in Field, NEW v \in Value, Edit(f, v)
  PROVE  JiraInv'
<1> DEFINE e == EntryOf(issue, f, v, now)
           next == [issue EXCEPT !.fields[f] = v, !.log = Append(@, e)]
<1>1. now \in Nat /\ IssueOK(issue, now) /\ Change(next) /\ now + 1 \in Time
  BY TimeIs, JiraAssumption DEF JiraInv, Edit, Change, Time, EntryOf
<1>2. issue.fields \in Fields /\ issue.log \in Seq(Entry)
  BY <1>1 DEF IssueOK
<1>3. e \in Entry /\ e.at = now + 1
  BY <1>1, <1>2 DEF EntryOf, Entry, Fields
<1> HIDE DEF e
<1>4. Edited(next, issue, f, v, e)
  BY <1>1 DEF IssueOK, Edited
<1>5. [issue.fields EXCEPT ![f] = v] \in Fields /\ Append(issue.log, e) \in Seq(Entry)
  BY <1>2, <1>3 DEF Fields
<1>6. next \in [born : 0..(now + 1), fields : Fields, log : Seq(Entry),
                comments : SUBSET Comment, dev : SUBSET Time]
      /\ next.comments = issue.comments /\ next.born = issue.born
  <2>1. issue \in [born : 0..now, fields : Fields, log : Seq(Entry), comments : SUBSET Comment,
                   dev : SUBSET Time]
    BY <1>1 DEF IssueOK
  <2> DEFINE fields == [issue.fields EXCEPT ![f] = v]
             log == Append(issue.log, e)
  <2>2. next = [born |-> issue.born, fields |-> fields, log |-> log,
                comments |-> issue.comments, dev |-> issue.dev]
    <3>1. DOMAIN issue = {"born", "fields", "log", "comments", "dev"}
      BY <2>1
    <3>2. next = [k \in DOMAIN issue |-> IF k = "log" THEN log ELSE
                                         IF k = "fields" THEN fields ELSE issue[k]]
      BY <3>1 DEF fields, log
    <3> HIDE DEF fields, log, next
    <3> QED
      BY <3>1, <3>2
  <2>3. issue.born \in 0..(now + 1)
    BY <1>1, <2>1
  <2> HIDE DEF fields, log
  <2>4. fields \in Fields /\ log \in Seq(Entry)
    BY <1>5 DEF fields, log
  <2> HIDE DEF next
  <2> QED
    BY <2>1, <2>2, <2>3, <2>4
<1>7. CommentsOK(issue.comments, now + 1)
  BY <1>1, CommentsLater
<1> HIDE DEF next
<1>8. Chronicle(next.log, now + 1) /\ Told(next, next.log, now + 1)
  BY <1>1, <1>2, <1>3, <1>4, ToldOfEdit DEF IssueOK, e
<1>9. IssueOK(next, now + 1)
  BY <1>6, <1>7, <1>8 DEF IssueOK
<1>10. \A g \in Rewound, d \in 0..now : ValueIn(next.log, g, d) = ValueIn(issue.log, g, d)
  BY <1>1, <1>3, <1>4, PastStays, JiraAssumption DEF IssueOK, Edited
<1>11. Follows(next, now + 1, issue, now)
  BY <1>1, <1>6, <1>10 DEF Follows
<1> QED
  BY <1>1, <1>9, <1>11, ChangeInv
-----------------------------------------------------------------------------
(* The fixtures.                                                           *)
LEMMA CaseDateIs == ASSUME JiraInv PROVE DateOK(CaseDate, now)
<1>1. DateOK(root, now) /\ DateOK(files["date"], now) /\ DateOK(Nothing, now) /\ now \in Time
  BY DEF JiraInv, ContentOK, DateOK, Date
<1>2. files["comments"] # Nothing => DateOK(DateOf(files["comments"]), now)
  BY <1>1, DateOfIs DEF JiraInv, ContentOK
<1> QED
  BY <1>1, <1>2 DEF CaseDate

LEMMA GivenIs == ASSUME JiraInv, NEW d \in CaptureDates PROVE DateOK(d, now)
<1>1. DateOK(1, now)
  BY JiraAssumption DEF JiraInv, DateOK, Date, Time
<1> QED
  BY <1>1, CaseDateIs DEF CaptureDates

(* Files are written between two runs.                                     *)
LEMMA FilesInv ==
  ASSUME JiraInv, UNCHANGED <<linked, now, issue>>, mock' = Nothing,
         DateOK(root', now), ContentOK(files', issue, now),
         whole' \in BOOLEAN, whole' => Complete(files'),
         missed' \subseteq Query, found' = [q \in Query |-> found'[q]],
         \A q \in Query : found'[q] # Nothing => FoundOK(found'[q], issue, now)
  PROVE  JiraInv'
  BY DEF JiraInv

(* The recorded searches are kept, or all of them removed.                 *)
LEMMA FoundKeptIs ==
  ASSUME JiraInv, NEW overwrite \in BOOLEAN, found' = FoundKept(overwrite)
  PROVE  /\ found' = [q \in Query |-> found'[q]]
         /\ \A q \in Query : found'[q] # Nothing => FoundOK(found'[q], issue, now)
<1>1. CASE overwrite
  BY <1>1 DEF FoundKept
<1>2. CASE ~overwrite
  BY <1>2 DEF FoundKept, JiraInv
<1> QED
  BY <1>1, <1>2

LEMMA CollectOwnInv ==
  ASSUME JiraInv, NEW overwrite \in BOOLEAN, NEW n \in 1..Len(CollectList),
         CollectOwn(overwrite, n)
  PROVE  JiraInv'
<1> DEFINE d == DateOf(issue.comments)
           new == Collected(d)
<1>1. issue.born # 0 /\ DateOK(d, now) /\ ContentOK(files, issue, now)
  BY DateOfIs DEF JiraInv, CollectOwn, IssueOK
<1> HIDE DEF d
<1>2. ContentOK(new, issue, now) /\ new["starting"] # Nothing
  BY <1>1, CollectedIs
<1> HIDE DEF new
<1>3. /\ files' = Written(files, CollectList, n, new, overwrite)
      /\ whole' = (whole /\ n = Len(CollectList))
      /\ found' = FoundKept(overwrite)
      /\ mock' = Nothing /\ UNCHANGED <<linked, now, issue, root, missed>>
  BY DEF CollectOwn, new, d, tracker
<1>4. ContentOK(files', issue, now)
  BY <1>1, <1>2, <1>3, WrittenAre
<1>5. whole' => Complete(files')
  <2>1. n = Len(CollectList) => \E k \in 1..n : CollectList[k] = "starting"
    BY DEF CollectList
  <2> QED
    BY <1>1, <1>2, <1>3, <2>1, WrittenAre
<1> QED
  BY <1>3, <1>4, <1>5, FoundKeptIs, FilesInv DEF JiraInv

LEMMA CollectLinkedInv ==
  ASSUME JiraInv, NEW overwrite \in BOOLEAN, NEW n \in 1..Len(CollectList),
         NEW d \in {Nothing} \cup 1..(now - 1), CollectLinked(overwrite, n, d)
  PROVE  JiraInv'
<1> DEFINE new == Collected(Nothing)
           old == IF overwrite THEN NoFiles ELSE files
<1>1. /\ issue.born # 0 /\ DateOK(Nothing, now) /\ ContentOK(old, issue, now)
  BY NoFilesAre DEF JiraInv, CollectLinked, DateOK, Date
<1>2. DateOK(d, now)
  BY JiraAssumption DEF JiraInv, DateOK, Date, Time
<1>3. ContentOK(new, issue, now) /\ new["starting"] # Nothing
  BY <1>1, CollectedIs
<1> HIDE DEF new
<1>4. /\ files' = Written(old, CollectList, n, new, overwrite)
      /\ whole' = (whole /\ n = Len(CollectList)) /\ root' = d
      /\ found' = FoundKept(overwrite)
      /\ mock' = Nothing /\ UNCHANGED <<linked, now, issue, missed>>
  BY DEF CollectLinked, new, tracker
<1> HIDE DEF old
<1>5. ContentOK(files', issue, now)
  BY <1>1, <1>3, <1>4, WrittenAre
<1>6. whole' => Complete(files')
  <2>1. n = Len(CollectList) => \E k \in 1..n : CollectList[k] = "starting"
    BY DEF CollectList
  <2> QED
    BY <1>1, <1>3, <1>4, <2>1, WrittenAre
<1> QED
  BY <1>2, <1>4, <1>5, <1>6, FoundKeptIs, FilesInv DEF JiraInv

LEMMA AfterCaptureIs ==
  ASSUME JiraInv, issue.born # 0, NEW d, DateOK(d, now), NEW overwrite, NEW n
  PROVE  /\ ContentOK(AfterCapture(d, overwrite, n), issue, now)
         /\ whole /\ n = Len(CaptureList) => Complete(AfterCapture(d, overwrite, n))
<1>1. ContentOK(files, issue, now) /\ (whole => Complete(files))
  BY DEF JiraInv
<1>2. ContentOK(Captured(d), issue, now) /\ Captured(d)["starting"] # Nothing
  BY CapturedIs
<1>3. n = Len(CaptureList) => \E k \in 1..n : CaptureList[k] = "starting"
  BY DEF CaptureList
<1> DEFINE fs == Written(files, CaptureList, n, Captured(d), overwrite)
<1>4. ContentOK(fs, issue, now)
  BY <1>1, <1>2, WrittenAre
<1>5. n = Len(CaptureList) => Complete(fs)
  BY <1>1, <1>2, <1>3, WrittenAre
<1> HIDE DEF fs
<1> QED
  BY <1>1, <1>4, <1>5 DEF AfterCapture, fs

LEMMA CaptureIssueInv ==
  ASSUME JiraInv, NEW overwrite \in BOOLEAN, NEW n \in 1..Len(CaptureList),
         NEW d \in CaptureDates, CaptureIssue(d, overwrite, n)
  PROVE  JiraInv'
<1>1. issue.born # 0 /\ DateOK(d, now)
  BY GivenIs DEF CaptureIssue
<1>2. /\ ContentOK(AfterCapture(d, overwrite, n), issue, now)
      /\ whole /\ n = Len(CaptureList) => Complete(AfterCapture(d, overwrite, n))
  BY <1>1, AfterCaptureIs
<1>3. /\ files' = AfterCapture(d, overwrite, n) /\ whole' = (whole /\ n = Len(CaptureList))
      /\ mock' = Nothing /\ UNCHANGED <<linked, now, issue, root, found, missed>>
  BY DEF CaptureIssue, tracker
<1> QED
  BY <1>2, <1>3, FilesInv DEF JiraInv

(* What a run is given.                                                    *)
LEMMA MockDateIs == ASSUME JiraInv PROVE DateOK(MockDate, now)
<1>1. DateOK(root, now) /\ DateOK(files["date"], now) /\ DateOK(Nothing, now)
      /\ (files["dev"] # Nothing => DateOK(files["dev"].date, now))
  BY DEF JiraInv, ContentOK, DateOK, Date
<1> QED
  BY <1>1 DEF MockDate

LEMMA MockOfIs ==
  ASSUME JiraInv, HasIssue
  PROVE  MockOK(MockOf, issue, now) /\ (whole => MockQuiet(MockOf))
<1> DEFINE d == MockDate
           m == MockOf
<1>1. DateOK(d, now) /\ d \in Date /\ (d # Nothing => d \in Nat) /\ now \in Nat
  BY MockDateIs, TimeIs DEF DateOK, Date, JiraInv
<1>2. m.date = d /\ \A e \in m.dev : d # Nothing => e <= d
  BY DEF MockOf, DevAsOf
<1>3. CASE files["starting"] # Nothing
  <2> DEFINE s == files["starting"]
  <2>1. m.fields = s.fields /\ m.comments = s.comments /\ m.made = s.made /\ m.taken = s.taken
    BY <1>3 DEF MockOf
  <2>2. StartOK(s, issue, now)
    BY <1>3 DEF JiraInv, ContentOK
  <2> HIDE DEF m, s, d
  <2>3. MockOK(m, issue, now)
    BY <1>1, <1>2, <2>1, <2>2 DEF MockOK, StartOK, DateOK
  <2>4. MockQuiet(m)
    BY <1>1, <1>2, <2>1, <2>2 DEF MockQuiet, StartOK
  <2> QED
    BY <2>3, <2>4 DEF m
<1>4. CASE files["starting"] = Nothing
  <2> DEFINE s == files["raw"]
  <2>1. s # Nothing
    BY <1>4 DEF HasIssue
  <2>2. m.fields = Reconstruct(s, d) /\ m.taken = s.taken
    BY <1>4 DEF MockOf
  <2>3. RawOK(s, issue, now)
    BY <2>1 DEF JiraInv, ContentOK
  <2>4. ~whole
    BY <1>4, <2>1 DEF JiraInv, Complete
  <2> HIDE DEF m, s, d
  <2>5. m.fields \in Fields
    BY <1>1, <2>2, <2>3, ReconstructIs DEF RawOK
  <2>6. ASSUME d # Nothing, m.taken >= d PROVE OfDate(m.fields, issue.log, d)
    <3>1. s.taken \in Nat /\ d \in 0..s.taken
      BY <1>1, <2>2, <2>3, <2>6 DEF RawOK
    <3>2. \A f \in Rewound : Reconstruct(s, d)[f] = ValueIn(issue.log, f, d)
      BY <2>3, <3>1 DEF RawOK, Told
    <3> QED
      BY <2>2, <3>2 DEF OfDate
  <2>7. MockOK(m, issue, now)
    BY <1>1, <1>2, <2>5, <2>6 DEF MockOK, DateOK
  <2> QED
    BY <2>4, <2>7 DEF m
<1> QED
  BY <1>3, <1>4

LEMMA MaterializeInv == ASSUME JiraInv, Materialize PROVE JiraInv'
<1>1. /\ mock' = MockOf /\ missed' = {}
      /\ UNCHANGED <<linked, now, issue, root, files, found, whole>>
  BY DEF Materialize, tracker
<1>2. MockOK(MockOf, issue, now) /\ (whole => MockQuiet(MockOf))
  BY MockOfIs DEF Materialize
<1>3. MockOK(mock', issue, now) /\ (whole => MockQuiet(mock'))
  BY <1>1, <1>2
<1> QED
  BY <1>1, <1>3 DEF JiraInv

LEMMA SearchInv == ASSUME JiraInv, NEW q \in Query, Search(q) PROVE JiraInv'
<1>1. /\ missed' \subseteq Query
      /\ UNCHANGED <<linked, now, issue, root, files, mock, found, whole>>
  BY DEF Search, tracker, JiraInv
<1> QED
  BY <1>1 DEF JiraInv

(* The answer that is recorded for a search.                               *)
LEMMA FilteredIs ==
  ASSUME JiraInv, NEW q \in Query, NEW hit \in BOOLEAN, NEW detailed \in BOOLEAN,
         NEW d, DateOK(d, now)
  PROVE  /\ FoundOK([answer |-> Filtered(q, hit, detailed, d), detailed |-> detailed, made |-> d],
                    issue, now)
         /\ Filtered(q, hit, detailed, d).hit => hit
<1> DEFINE known == IF detailed THEN issue ELSE [issue EXCEPT !.log = <<>>]
           fields == Reconstruct(known, d)
           a == Filtered(q, hit, detailed, d)
<1>1. now \in Nat /\ d \in Date /\ IssueOK(issue, now)
  BY TimeIs DEF JiraInv, DateOK
<1>2. Chronicle(issue.log, now) /\ issue.fields \in Fields
  BY <1>1 DEF IssueOK
<1>3. Chronicle(known.log, now) /\ known.fields \in Fields
  <2>1. CASE detailed
    BY <1>2, <2>1
  <2>2. CASE ~detailed
    <3>1. issue \in [born : 0..now, fields : Fields, log : Seq(Entry), comments : SUBSET Comment,
                     dev : SUBSET Time]
      BY <1>1 DEF IssueOK
    <3>2. known.log = <<>> /\ known.fields = issue.fields
      BY <2>2, <3>1
    <3> HIDE DEF known
    <3> QED
      BY <1>1, <1>2, <3>2, EmptyChronicle
  <2> QED
    BY <2>1, <2>2
<1>4. detailed => known = issue
  OBVIOUS
<1> HIDE DEF known
<1>5. fields \in Fields
  BY <1>1, <1>3, ReconstructIs
<1>6. ASSUME detailed, d # Nothing
      PROVE  \A f \in Rewound : fields[f] = ValueIn(issue.log, f, d)
  <2>1. d \in 0..now
    BY <1>1, <1>6, DateIs
  <2> QED
    BY <1>1, <1>4, <1>6, <2>1 DEF IssueOK, Told
<1>7. a = Out \/ (a = Hit(fields) /\ hit)
  BY DEF Filtered, known
<1> HIDE DEF fields, a
<1>8. a \in {Out} \cup {Hit(f) : f \in Fields}
  BY <1>5, <1>7
<1>9. a.hit => hit /\ a.fields = fields
  BY <1>7 DEF Out, Hit
<1>10. FoundOK([answer |-> a, detailed |-> detailed, made |-> d], issue, now)
  BY <1>1, <1>6, <1>8, <1>9 DEF FoundOK
<1> QED
  BY <1>9, <1>10 DEF a

LEMMA CaptureSearchInv ==
  ASSUME JiraInv, NEW q \in Query, NEW hit \in BOOLEAN, NEW detailed \in BOOLEAN,
         NEW overwrite \in BOOLEAN, NEW n \in SearchStops, NEW d \in CaptureDates,
         CaptureSearch(q, hit, detailed, d, overwrite, n)
  PROVE  JiraInv'
<1> DEFINE answer == Filtered(q, hit, detailed, d)
           r == [answer |-> answer, detailed |-> detailed, made |-> d]
           all == n = Len(CaptureList)
<1>1. DateOK(d, now) /\ (hit => issue.born # 0)
  BY GivenIs DEF CaptureSearch
<1>2. FoundOK(r, issue, now) /\ (answer.hit => hit)
  BY <1>1, FilteredIs
<1> HIDE DEF answer
<1>3. /\ files' = IF answer.hit THEN AfterCapture(d, overwrite, n) ELSE files
      /\ found' = IF all THEN [found EXCEPT ![q] = r] ELSE found
      /\ whole' = (whole /\ all) /\ missed' = missed \ {q}
      /\ mock' = Nothing /\ UNCHANGED <<linked, now, issue, root>>
  BY DEF CaptureSearch, answer, tracker
<1>4. answer.hit =>
        /\ ContentOK(AfterCapture(d, overwrite, n), issue, now)
        /\ whole /\ all => Complete(AfterCapture(d, overwrite, n))
  BY <1>1, <1>2, AfterCaptureIs
<1> HIDE DEF r, all
<1>5. ContentOK(files', issue, now) /\ (whole' => Complete(files')) /\ whole' \in BOOLEAN
  BY <1>3, <1>4 DEF JiraInv
<1>6. found = [p \in Query |-> found[p]] /\ \A p \in Query : found[p] # Nothing => FoundOK(found[p], issue, now)
  BY DEF JiraInv
<1>7. found' = [p \in Query |-> found'[p]]
  BY <1>3, <1>6
<1>8. \A p \in Query : found'[p] # Nothing => FoundOK(found'[p], issue, now)
  BY <1>2, <1>3, <1>6
<1>9. DateOK(root', now) /\ missed' \subseteq Query
  BY <1>3 DEF JiraInv
<1> QED
  BY <1>3, <1>5, <1>7, <1>8, <1>9, FilesInv

LEMMA JiraNextInv == JiraInv /\ [JiraNext]_jiraVars => JiraInv'
<1> SUFFICES ASSUME JiraInv, [JiraNext]_jiraVars PROVE JiraInv'
  OBVIOUS
<1>1. CASE UNCHANGED jiraVars
  BY <1>1 DEF jiraVars, JiraInv
<1> QED
  BY <1>1, ReportInv, EditInv, CommentInv, DevelopInv, CollectOwnInv, CollectLinkedInv,
     CaptureIssueInv, MaterializeInv, SearchInv, CaptureSearchInv DEF JiraNext

LEMMA JiraHolds == JiraSpec => []JiraInv
  BY JiraInitInv, JiraNextInv, PTL DEF JiraSpec

(* The issue, its fixtures and the answers that were recorded are of the   *)
(* kinds the model says.                                                   *)
THEOREM JiraTypeCorrect == JiraSpec => []JiraTypeOK
<1>1. ASSUME JiraInv PROVE JiraTypeOK
  <2>1. IssueOK(issue, now) /\ now \in Time /\ 0..now \subseteq Time
    BY <1>1, TimeIs DEF JiraInv
  <2>2. /\ issue.born \in Time /\ issue.fields \in Fields /\ issue.log \in Seq(Entry)
        /\ issue.comments \subseteq Comment /\ issue.dev \subseteq Time
    BY <2>1 DEF IssueOK
  <2>3. /\ root \in Date /\ files["date"] \in Date
        /\ files["comments"] # Nothing => files["comments"] \subseteq Comment
    BY <1>1 DEF JiraInv, DateOK, ContentOK, CommentsOK
  <2>4. mock # Nothing => mock.fields \in Fields /\ mock.date \in Date
    BY <1>1 DEF JiraInv, MockOK
  <2>5. found \in [Query -> {Nothing} \cup
           [answer : {Out} \cup {Hit(f) : f \in Fields}, detailed : BOOLEAN, made : Date]]
    BY <1>1 DEF JiraInv, FoundOK
  <2> QED
    BY <1>1, <2>1, <2>2, <2>3, <2>4, <2>5 DEF JiraInv, JiraTypeOK
<1> QED
  BY <1>1, JiraHolds, PTL

(* No run of an issue that was made whole for the date it is given sees a  *)
(* comment or a commit from after it, or a result.                         *)
THEOREM NoCommentIsLate == JiraSpec => []NoLateComment
<1>1. JiraInv => NoLateComment
  BY DEF JiraInv, MockQuiet, NoLateComment
<1> QED
  BY <1>1, JiraHolds, PTL

(* The fields of a rewound issue are those the tracker had at the date.    *)
THEOREM ValuesAreTrue == JiraSpec => []ValuesAreOfTheDate
<1>1. JiraInv => ValuesAreOfTheDate
  BY ValueAtIs DEF JiraInv, MockOK, OfDate, FoundOK, ValuesAreOfTheDate
<1> QED
  BY <1>1, JiraHolds, PTL

(* A search answered from the fixtures has the answer the tracker would    *)
(* have given at the date.                                                 *)
THEOREM SearchesAreTrue == JiraSpec => []SearchIsOfTheDate
<1>1. ASSUME JiraInv PROVE SearchIsOfTheDate
  <2> DEFINE d == CaseDate
             s == files["raw"]
             truth == [f \in Field |-> ValueAt(f, d)]
             then == Reconstruct(s, d)
  <2> SUFFICES ASSUME NEW q \in Query, s # Nothing, d # Nothing, Synthesized(q) # Nothing,
                      s.taken >= d,
                      \A k \in DOMAIN q.terms : q.terms[k].field \in Rewound
               PROVE  Synthesized(q).hit <=> issue.born <= d /\ Matches(q, truth)
    BY DEF SearchIsOfTheDate
  <2>1. RawOK(s, issue, now) /\ d \in Nat
    BY <1>1, CaseDateIs, TimeIs DEF JiraInv, ContentOK, DateOK, Date
  <2>2. d \in 0..s.taken /\ s.born = issue.born
    BY <1>1, <2>1, TimeIs DEF RawOK, JiraInv
  <2>3. \A f \in Rewound : f \in Field /\ then[f] = truth[f]
    BY <2>1, <2>2, ValueAtIs, JiraAssumption DEF RawOK, Told
  <2>4. \A k \in DOMAIN q.terms : Holds(q.terms[k], then) <=> Holds(q.terms[k], truth)
    BY <2>3 DEF Holds
  <2>5. Matches(q, then) <=> Matches(q, truth)
    BY <2>4 DEF Matches
  <2>6. Synthesized(q) = IF issue.born > d THEN Out
                         ELSE IF Matches(q, then) THEN Hit(then) ELSE Out
    BY <2>2 DEF Synthesized, HasIssue
  <2>7. issue.born \in Nat
    BY <1>1, TimeIs DEF JiraInv, IssueOK
  <2> HIDE DEF d, s, truth, then
  <2>8. CASE issue.born > d
    BY <2>1, <2>6, <2>7, <2>8 DEF Out
  <2>9. CASE ~(issue.born > d)
    BY <2>1, <2>5, <2>6, <2>7, <2>9 DEF Out, Hit
  <2> QED
    BY <2>8, <2>9
<1> QED
  BY <1>1, JiraHolds, PTL
-----------------------------------------------------------------------------
(* What was recorded whole stays as it is. Its files were written together,*)
(* and none of them is written again.                                      *)
Essential == {"raw", "comments", "starting"}
Together(fs) == \A f, g \in Essential : fs[f] # Nothing => fs[g] # Nothing
WholeInv ==
  /\ JiraInv
  /\ whole => Together(files)
  /\ ~linked => files["dev"] = Nothing

LEMMA WrittenTogether ==
  ASSUME NEW old, NEW new, NEW list, NEW overwrite, Together(old),
         \A f \in Essential : new[f] # Nothing /\ \E k \in 1..Len(list) : list[k] = f
  PROVE  Together(Written(old, list, Len(list), new, overwrite))
<1>1. ASSUME NEW f \in Essential PROVE Written(old, list, Len(list), new, overwrite)[f] # Nothing
  <2>1. f \in JiraFile /\ new[f] # Nothing /\ \E k \in 1..Len(list) : list[k] = f
    BY DEF Essential, JiraFile
  <2> QED
    BY <2>1 DEF Written
<1> QED
  BY <1>1 DEF Together

LEMMA SomethingIsWritten ==
  ASSUME JiraInv, issue.born # 0, NEW d, DateOK(d, now)
  PROVE  \A f \in Essential : Collected(d)[f] # Nothing /\ Captured(d)[f] # Nothing
<1>1. Snapshot # Nothing
  <2>1. RawOK(Snapshot, issue, now) /\ now \in Time /\ IssueOK(issue, now)
    BY SnapshotIs DEF JiraInv
  <2>2. /\ issue.born \in Time /\ issue.fields \in Fields /\ issue.log \in Seq(Entry)
        /\ issue.comments \subseteq Comment
    <3>1. 0..now \subseteq Time
      BY <2>1, TimeIs
    <3> QED
      BY <2>1, <3>1 DEF IssueOK
  <2>3. Snapshot \in FetchedIssue
    BY <2>1, <2>2 DEF Snapshot, FetchedIssue
  <2> QED
    BY <2>3, JiraAssumption
<1>2. issue.comments \subseteq Comment /\ CommentsOK(issue.comments, now)
  BY DEF JiraInv, IssueOK, CommentsOK
<1>3. CommentsAsOf(issue.comments, d) \subseteq Comment
  BY <1>2 DEF CommentsAsOf
<1>4. issue.comments # Nothing /\ CommentsAsOf(issue.comments, d) # Nothing
  BY <1>2, <1>3, JiraAssumption
<1>5. Collected(d)["starting"] # Nothing /\ Captured(d)["starting"] # Nothing
  BY CollectedIs, CapturedIs
<1> QED
  BY <1>1, <1>4, <1>5 DEF Collected, Captured, Essential

LEMMA ListsAreWhole ==
  \A f \in Essential : /\ \E k \in 1..Len(CollectList) : CollectList[k] = f
                       /\ \E k \in 1..Len(CaptureList) : CaptureList[k] = f
  BY DEF Essential, CollectList, CaptureList

LEMMA AfterCaptureTogether ==
  ASSUME WholeInv, issue.born # 0, NEW d, DateOK(d, now), NEW overwrite, NEW n
  PROVE  /\ whole /\ n = Len(CaptureList) => Together(AfterCapture(d, overwrite, n))
         /\ ~linked => AfterCapture(d, overwrite, n)["dev"] = Nothing
<1>1. \A f \in Essential : Captured(d)[f] # Nothing
  BY SomethingIsWritten DEF WholeInv
<1>2. ASSUME whole PROVE Together(Written(files, CaptureList, Len(CaptureList), Captured(d), overwrite))
  BY <1>1, <1>2, ListsAreWhole, WrittenTogether DEF WholeInv
<1>3. ~linked => Captured(d)["dev"] = Nothing /\ files["dev"] = Nothing
  BY DEF Captured, WholeInv
<1> QED
  BY <1>2, <1>3 DEF AfterCapture, WholeInv, Written, JiraFile

LEMMA WholeNext == WholeInv /\ [JiraNext]_jiraVars => WholeInv'
<1> SUFFICES ASSUME WholeInv, [JiraNext]_jiraVars PROVE WholeInv'
  OBVIOUS
<1>1. JiraInv /\ JiraInv'
  BY JiraNextInv DEF WholeInv
<1>2. CASE UNCHANGED <<linked, files, whole>>
  BY <1>1, <1>2 DEF WholeInv
<1>3. ASSUME NEW overwrite \in BOOLEAN, NEW n \in 1..Len(CollectList), CollectOwn(overwrite, n)
      PROVE  WholeInv'
  <2> DEFINE new == Collected(DateOf(issue.comments))
  <2>1. issue.born # 0 /\ DateOK(DateOf(issue.comments), now)
    BY <1>1, <1>3, DateOfIs DEF JiraInv, CollectOwn, IssueOK
  <2>2. (\A f \in Essential : new[f] # Nothing) /\ new["dev"] = Nothing
    BY <1>1, <2>1, SomethingIsWritten DEF Collected
  <2> HIDE DEF new
  <2>3. /\ files' = Written(files, CollectList, n, new, overwrite)
        /\ whole' = (whole /\ n = Len(CollectList)) /\ linked' = linked
    BY <1>3 DEF CollectOwn, new
  <2>4. whole' => Together(files')
    BY <2>2, <2>3, ListsAreWhole, WrittenTogether DEF WholeInv
  <2>5. ~linked => files'["dev"] = Nothing
    BY <2>2, <2>3 DEF Written, JiraFile, WholeInv
  <2> QED
    BY <1>1, <2>3, <2>4, <2>5 DEF WholeInv
<1>4. ASSUME NEW overwrite \in BOOLEAN, NEW n \in 1..Len(CollectList),
             NEW d \in {Nothing} \cup 1..(now - 1), CollectLinked(overwrite, n, d)
      PROVE  WholeInv'
  <2> DEFINE new == Collected(Nothing)
             old == IF overwrite THEN NoFiles ELSE files
  <2>1. issue.born # 0 /\ DateOK(Nothing, now)
    BY <1>4 DEF CollectLinked, DateOK, Date
  <2>2. \A f \in Essential : new[f] # Nothing
    BY <1>1, <2>1, SomethingIsWritten
  <2>3. whole => Together(old)
    BY DEF WholeInv, NoFiles, Together, Essential, JiraFile
  <2> HIDE DEF new, old
  <2>4. /\ files' = Written(old, CollectList, n, new, overwrite)
        /\ whole' = (whole /\ n = Len(CollectList)) /\ linked' = linked /\ linked
    BY <1>4 DEF CollectLinked, new, old
  <2>5. whole' => Together(files')
    BY <2>2, <2>3, <2>4, ListsAreWhole, WrittenTogether
  <2> QED
    BY <1>1, <2>4, <2>5 DEF WholeInv
<1>5. ASSUME NEW overwrite \in BOOLEAN, NEW n \in 1..Len(CaptureList), NEW d \in CaptureDates,
             CaptureIssue(d, overwrite, n)
      PROVE  WholeInv'
  <2>1. issue.born # 0 /\ DateOK(d, now)
    BY <1>1, <1>5, GivenIs DEF CaptureIssue
  <2>2. /\ files' = AfterCapture(d, overwrite, n)
        /\ whole' = (whole /\ n = Len(CaptureList)) /\ linked' = linked
    BY <1>5 DEF CaptureIssue
  <2>3. /\ whole /\ n = Len(CaptureList) => Together(AfterCapture(d, overwrite, n))
        /\ ~linked => AfterCapture(d, overwrite, n)["dev"] = Nothing
    BY <2>1, AfterCaptureTogether
  <2> QED
    BY <1>1, <2>2, <2>3 DEF WholeInv
<1>6. ASSUME NEW q \in Query, NEW hit \in BOOLEAN, NEW detailed \in BOOLEAN,
             NEW overwrite \in BOOLEAN, NEW n \in SearchStops, NEW d \in CaptureDates,
             CaptureSearch(q, hit, detailed, d, overwrite, n)
      PROVE  WholeInv'
  <2> DEFINE answer == Filtered(q, hit, detailed, d)
  <2>1. DateOK(d, now) /\ (answer.hit => issue.born # 0)
    BY <1>1, <1>6, GivenIs, FilteredIs DEF CaptureSearch
  <2> HIDE DEF answer
  <2>2. /\ files' = IF answer.hit THEN AfterCapture(d, overwrite, n) ELSE files
        /\ whole' = (whole /\ n = Len(CaptureList)) /\ linked' = linked
    BY <1>6 DEF CaptureSearch, answer
  <2>3. answer.hit =>
          /\ whole /\ n = Len(CaptureList) => Together(AfterCapture(d, overwrite, n))
          /\ ~linked => AfterCapture(d, overwrite, n)["dev"] = Nothing
    BY <2>1, AfterCaptureTogether
  <2> QED
    BY <1>1, <2>2, <2>3 DEF WholeInv
<1> QED
  BY <1>2, <1>3, <1>4, <1>5, <1>6
     DEF JiraNext, jiraVars, Report, Edit, AddComment, Develop, Change, Materialize, Search

(* Collecting or capturing once more, without overwrite, an issue that was *)
(* recorded whole and has a date leaves what a run is given as it was.     *)
THEOREM RecordedIssueStays == JiraSpec => RecordedStays
<1>1. JiraInit => WholeInv
  <2> SUFFICES ASSUME JiraInit PROVE WholeInv
    OBVIOUS
  <2> QED
    BY JiraInitInv DEF JiraInit, WholeInv, NoFiles, Together, Essential, JiraFile
<1>2. ASSUME WholeInv, whole, HasIssue, MockDate # Nothing,
             \/ \E n \in 1..Len(CollectList) : CollectOwn(FALSE, n)
             \/ \E n \in 1..Len(CollectList), d \in Date : CollectLinked(FALSE, n, d)
             \/ \E n \in 1..Len(CaptureList), d \in CaptureDates : CaptureIssue(d, FALSE, n)
      PROVE  MockOf' = MockOf
  <2>1. files["raw"] # Nothing /\ files["starting"] # Nothing
    BY <1>2 DEF WholeInv, Together, Essential, HasIssue
  <2>2. ASSUME files'["starting"] = files["starting"], files'["dev"] = files["dev"],
               MockDate' = MockDate
        PROVE  MockOf' = MockOf
    BY <2>1, <2>2 DEF MockOf
  <2>3. ASSUME NEW n \in 1..Len(CollectList), CollectOwn(FALSE, n)
        PROVE  MockOf' = MockOf
    <3>1. ~linked /\ ~linked' /\ files["dev"] = Nothing /\ files["date"] # Nothing
      BY <1>2, <2>3 DEF CollectOwn, WholeInv, MockDate
    <3>2. /\ files'["starting"] = files["starting"] /\ files'["date"] = files["date"]
          /\ files'["dev"] = files["dev"]
      BY <2>1, <2>3, <3>1 DEF CollectOwn, Written, JiraFile, Collected
    <3> QED
      BY <2>2, <3>1, <3>2 DEF MockDate
  <2>4. ASSUME NEW n \in 1..Len(CollectList), NEW d \in Date, CollectLinked(FALSE, n, d)
        PROVE  MockOf' = MockOf
    <3>1. linked /\ linked' /\ (root # Nothing => root' = root)
      BY <2>4 DEF CollectLinked
    <3>2. /\ files'["starting"] = files["starting"] /\ files'["date"] = files["date"]
          /\ files'["dev"] = files["dev"]
      BY <2>1, <2>4 DEF CollectLinked, Written, JiraFile, Collected
    <3>3. MockDate' = MockDate
      BY <1>2, <3>1, <3>2 DEF MockDate
    <3> QED
      BY <2>2, <3>2, <3>3
  <2>5. ASSUME NEW n \in 1..Len(CaptureList), NEW d \in CaptureDates, CaptureIssue(d, FALSE, n)
        PROVE  FALSE
    BY <2>1, <2>5 DEF CaptureIssue
  <2> QED
    BY <1>2, <2>3, <2>4, <2>5
<1>3. WholeInv /\ [JiraNext]_jiraVars =>
        [(whole /\ HasIssue /\ MockDate # Nothing
          /\ \/ \E n \in 1..Len(CollectList) : CollectOwn(FALSE, n)
             \/ \E n \in 1..Len(CollectList), d \in Date : CollectLinked(FALSE, n, d)
             \/ \E n \in 1..Len(CaptureList), d \in CaptureDates : CaptureIssue(d, FALSE, n))
         => MockOf' = MockOf]_jiraVars
  BY <1>2
<1> QED
  BY <1>1, <1>3, WholeNext, PTL DEF JiraSpec, RecordedStays
=============================================================================
