----------------------------- MODULE KojiReplay -----------------------------
(***************************************************************************)
(* The candidate builds a backport asks Koji for, from their capture to a  *)
(* run: koji_replay.py, with its callers in collect_case.py, cli.py and    *)
(* capture_missing.py and the check of validation.py.                      *)
(*                                                                         *)
(* A branch has two tags with candidates. What they held at a past event   *)
(* can be asked for at any later time, what is known of a build cannot.    *)
(***************************************************************************)
EXTENDS Integers, FiniteSets

CONSTANTS
  Build,      \* builds of the package
  EVR,        \* [Build -> epoch, version and release, as one number]
  Branch,     \* the branch of the case and the one above it
  KojiTime,   \* bound of the model: the last time that matters
  NoBuild,    \* no build
  NoDate      \* no date

ASSUME KojiAssumption ==
  /\ EVR \in [Build -> Nat]
  /\ \A a, b \in Build : EVR[a] = EVR[b] => a = b
  /\ KojiTime \in Nat \ {0} /\ NoDate \notin Nat /\ NoBuild \notin Build

VARIABLES
  clock,     \* now
  stamp,     \* [Build -> when it was last completed or promoted; 0: not yet]
  born,      \* [Build -> when it was completed]
  tagged,    \* [Tags -> [time -> the build tagged last]]
  caseDate,  \* as_of in the case's reconstruction, or NoDate
  records,   \* koji_candidate_builds of the web manifest
  asked      \* branches the last run asked for and missed

kojiVars == <<clock, stamp, born, tagged, caseDate, records, asked>>

KojiTimes == 1..KojiTime
Tags == Branch \X {"candidate", "z-candidate"}
Record == [build : Build, asOf : KojiTimes \cup {NoDate}, newest : KojiTimes]
NoRecord == [build |-> NoBuild]

KojiTypeOK ==
  /\ clock \in KojiTimes
  /\ stamp \in [Build -> 0..KojiTime] /\ born \in [Build -> 0..KojiTime]
  /\ tagged \in [Tags -> [KojiTimes -> Build \cup {NoBuild}]]
  /\ caseDate \in KojiTimes \cup {NoDate}
  /\ records \in [Branch -> Record \cup {NoRecord}]
  /\ asked \subseteq Branch
-----------------------------------------------------------------------------
KojiInit ==
  /\ clock = 1
  /\ stamp = [b \in Build |-> 0] /\ born = stamp
  /\ tagged = [t \in Tags |-> [d \in KojiTimes |-> NoBuild]]
  /\ caseDate = NoDate
  /\ records = [br \in Branch |-> NoRecord]
  /\ asked = {}

(* Koji: a build is completed, or promoted later; the newest build of a    *)
(* tag changes, also back to an older one.                                 *)
Stamp(b) ==
  /\ stamp' = [stamp EXCEPT ![b] = clock]
  /\ born' = [born EXCEPT ![b] = IF @ = 0 THEN clock ELSE @]
  /\ UNCHANGED <<clock, tagged, caseDate, records, asked>>

Retag(t, b) ==
  /\ b # NoBuild => born[b] # 0
  /\ tagged' = [tagged EXCEPT ![t] = [d \in KojiTimes |-> IF d < clock THEN @[d] ELSE b]]
  /\ UNCHANGED <<clock, stamp, born, caseDate, records, asked>>

TimePasses ==
  /\ clock < KojiTime
  /\ clock' = clock + 1
  /\ UNCHANGED <<stamp, born, tagged, caseDate, records, asked>>
-----------------------------------------------------------------------------
(* Mutant of Listed: the tag is listed as it is now.                       *)
ListedNow(br, d) == {tagged[t][clock] : t \in {t \in Tags : t[1] = br}} \ {NoBuild}

(* The newest build of each tag of a branch, at the last event before a    *)
(* date or, without one, now.                                              *)
Listed(br, d) ==
  {tagged[t][IF d = NoDate THEN clock ELSE d] : t \in {t \in Tags : t[1] = br}} \ {NoBuild}
Candidate(br, d) ==
  CHOOSE b \in Listed(br, d) : \A c \in Listed(br, d) : EVR[c] <= EVR[b]

(* fetch_candidate_build for some branches; of the others nothing is       *)
(* listed, or Koji is not reached, and they are left with a warning.       *)
Fetch(fetched, d) ==
  [br \in Branch |->
     IF br \in fetched
     THEN [build |-> Candidate(br, d), asOf |-> d, newest |-> stamp[Candidate(br, d)]]
     ELSE records[br]]
Listable(wanted, d) == {br \in wanted : Listed(br, d) # {}}

(* collect-case, when its files may be written: the date of the case, if   *)
(* there is one by now, and then a manifest with the builds fetched for    *)
(* that date and no others. The command may stop between the two. The      *)
(* issue's first result has been written, or not, at any past time.        *)
CollectBuilds(d, fetched, finished) ==
  /\ caseDate # NoDate => d = caseDate
  /\ fetched \subseteq Listable(Branch, d)
  /\ caseDate' = d
  /\ records' = IF finished
                THEN [br \in Branch |-> IF br \in fetched THEN Fetch(fetched, d)[br] ELSE NoRecord]
                ELSE records
  /\ UNCHANGED <<clock, stamp, born, tagged, asked>>

(* prepare-case asks for the case's branches, capture-missing for those a  *)
(* run has missed; both as of the case's date or one they are given, and   *)
(* both keep what is recorded unless told to overwrite.                    *)
Wanted(branches, overwrite) == {br \in branches : records[br] = NoRecord \/ overwrite}
GivenDates == {caseDate} \cup 1..(clock - 1)

InferBuilds(d, overwrite, fetched) ==
  /\ fetched \subseteq Listable(Wanted(Branch, overwrite), d)
  /\ records' = Fetch(fetched, d)
  /\ UNCHANGED <<clock, stamp, born, tagged, caseDate, asked>>

CaptureBuilds(d, overwrite, fetched) ==
  /\ fetched \subseteq Listable(Wanted(asked, overwrite), d)
  /\ records' = Fetch(fetched, d)
  /\ asked' = {}
  /\ UNCHANGED <<clock, stamp, born, tagged, caseDate>>

(* A run asks for a branch: it is answered from the records or misses.     *)
LookUp(br) ==
  /\ asked' = IF records[br] = NoRecord THEN asked \cup {br} ELSE asked
  /\ UNCHANGED <<clock, stamp, born, tagged, caseDate, records>>

(* validate-cases: nothing of a record is from after the case's date.      *)
BuildsValid ==
  caseDate # NoDate =>
    \A br \in Branch : records[br] # NoRecord => records[br].newest <= caseDate
-----------------------------------------------------------------------------
KojiNext ==
  \/ \E b \in Build : Stamp(b)
  \/ \E t \in Tags, b \in Build \cup {NoBuild} : Retag(t, b)
  \/ TimePasses
  \/ \E d \in {NoDate} \cup 1..(clock - 1), fetched \in SUBSET Branch, finished \in BOOLEAN :
       CollectBuilds(d, fetched, finished)
  \/ \E d \in GivenDates, overwrite \in BOOLEAN, fetched \in SUBSET Branch :
       InferBuilds(d, overwrite, fetched) \/ CaptureBuilds(d, overwrite, fetched)
  \/ \E br \in Branch : LookUp(br)

KojiSpec == KojiInit /\ [][KojiNext]_kojiVars
-----------------------------------------------------------------------------
(* The builds of a dated case: a record made for that date has the build   *)
(* Koji would have named then, however long after it was made and however  *)
(* Koji has changed; and when the case validates, no record, made for any  *)
(* date or for none, names a build that was not there yet.                 *)
BuildIsOfTheDate ==
  \A br \in Branch : (caseDate # NoDate /\ records[br] # NoRecord) =>
    LET then  == {tagged[<<br, s>>][caseDate] : s \in {"candidate", "z-candidate"}} \ {NoBuild}
        named == records[br].build
    IN  /\ records[br].asOf = caseDate => named \in then /\ \A c \in then : EVR[c] <= EVR[named]
        /\ BuildsValid => born[named] <= caseDate
=============================================================================
