----------------------------- MODULE JiraReplay -----------------------------
(***************************************************************************)
(* An issue of the tracker as the runs of a case see it: jira_replay.py,   *)
(* jira_mock.py, and the writers of jiras/<case>/ in collect_case.py and   *)
(* capture_missing.py.                                                     *)
(*                                                                         *)
(* The tracker lives on; the fixtures are made of it at any later time and *)
(* rewound to the case's date, the moment before the first comment with a  *)
(* result. The issue is the case's own or one linked to it; issues are     *)
(* handled one by one, a linked one knows of the case only its date.       *)
(***************************************************************************)
EXTENDS FiniteSets, Naturals, Sequences

CONSTANTS
  Field,    \* fields of an issue
  Rewound,  \* those the changelog is applied to: status, labels, ...
  Status,   \* the field of the status
  Value,    \* values of fields
  Empty,    \* the value of a field that is not set
  New,      \* the status an issue starts with
  Closed,   \* statuses of issues that are done with
  Query,    \* searches of the runs, see SearchQuery
  LastTime, \* bound of the model: the tracker's last change
  Nothing   \* no date, no file

Time == 0..LastTime
Date == Time \cup {Nothing}
Fields == [Field -> Value]
Entry == [at : Time, field : Field, from : Value, to : Value]
Comment == [at : Time, kind : {"talk", "result"}]

(* An issue as it was fetched, and the one a case starts with; made is the *)
(* date it is made for, taken the time it is made of (history).            *)
FetchedIssue ==
  [born : Time, fields : Fields, log : Seq(Entry), comments : SUBSET Comment, taken : Time]
StartingIssue ==
  [born : Time, fields : Fields, log : {<<>>}, comments : SUBSET Comment,
   made : Date, taken : Time]

(* A search is a conjunction, evaluated from left to right. A field that   *)
(* is not in Field is one the harness has no values for.                   *)
SearchQuery(q) ==
  /\ q.parses \in BOOLEAN
  /\ \A k \in DOMAIN q.terms : q.terms[k].op \in {"=", "!=", "empty", "nonempty"}

ASSUME JiraAssumption ==
  /\ Rewound \subseteq Field /\ Status \in Rewound
  /\ {Empty, New} \subseteq Value /\ Closed \subseteq Value \ {Empty, New}
  /\ \A q \in Query : SearchQuery(q)
  /\ LastTime \in Nat \ {0}
  /\ Nothing \notin Nat /\ Nothing \notin StartingIssue /\ Nothing \notin FetchedIssue
  /\ \A cs \in SUBSET Comment : cs # Nothing

VARIABLES
  linked,  \* the issue is linked to the case's own
  now,     \* time of the tracker's last change
  issue,   \* the issue in the tracker; born 0 when it is not there yet
  root,    \* for a linked issue, the date in the case's own fixtures
  files,   \* the issue's fixtures: [JiraFile -> content or Nothing]
  mock,    \* what the run under way was given, or Nothing
  found,   \* [Query -> the recorded answer or Nothing]
  missed,  \* searches the last run had no answer to
  whole    \* history: no command was killed while it wrote the fixtures

jiraVars == <<linked, now, issue, root, files, mock, found, missed, whole>>
tracker == <<now, issue>>

JiraFile == {"raw", "comments", "starting", "date", "dev"}
NoFiles == [f \in JiraFile |-> Nothing]
NoIssue == [born |-> 0, fields |-> [f \in Field |-> IF f = Status THEN New ELSE Empty],
            log |-> <<>>, comments |-> {}, dev |-> {}]
-----------------------------------------------------------------------------
(* Mutant of Later: a change of that very time is later.                   *)
LaterOrAt(log, f, d) == {k \in DOMAIN log : log[k].field = f /\ log[k].at >= d}

(* The oldest change of a field after a date.                              *)
Later(log, f, d) == {k \in DOMAIN log : log[k].field = f /\ log[k].at > d}

(* Mutant of Oldest: the newest one.                                       *)
OldestLast(ks) == CHOOSE k \in ks : \A j \in ks : k >= j
Oldest(ks) == CHOOSE k \in ks : \A j \in ks : k <= j

(* reconstruct_issue_as_of: changes after the date are undone, the last    *)
(* one first. No two changes have the same time. Values that tell of a     *)
(* later time are dropped, which is not modelled.                          *)
Reconstruct(snapshot, d) ==
  [f \in Field |->
     IF d = Nothing \/ f \notin Rewound THEN snapshot.fields[f]
     ELSE LET later == Later(snapshot.log, f, d)
          IN  IF later = {} THEN snapshot.fields[f] ELSE snapshot.log[Oldest(later)].from]

(* Mutant of CommentsAsOf: all of them.                                    *)
CommentsUnfiltered(comments, d) == comments

(* filter_comments_as_of, and filter_dev_status_as_of of commits.          *)
CommentsAsOf(comments, d) ==
  IF d = Nothing THEN comments ELSE {c \in comments : c.at <= d}
DevAsOf(dev, d) == IF d = Nothing THEN dev ELSE {t \in dev : t <= d}

(* derive_as_of_from_comments: just before the first result.               *)
Results(comments) == {c \in comments : c.kind = "result"}
DateOf(comments) ==
  IF Results(comments) = {} THEN Nothing
  ELSE (CHOOSE c \in Results(comments) : \A b \in Results(comments) : c.at <= b.at).at - 1

(* An issue as it is fetched; taken is the time it was (history).          *)
Snapshot == [born |-> issue.born, fields |-> issue.fields, log |-> issue.log,
             comments |-> issue.comments, taken |-> now]

(* _build_starting_jira_issue, which also leaves out the changelog, the    *)
(* labels and the comments that give the result away.                      *)
Opened(fields) == [fields EXCEPT ![Status] = IF @ \in Closed THEN New ELSE @]
Starting(snapshot, comments, d) ==
  [born |-> snapshot.born, fields |-> Opened(Reconstruct(snapshot, d)), log |-> <<>>,
   comments |-> CommentsAsOf(comments, d) \ Results(comments), made |-> d, taken |-> now]

(* derive_as_of of the case.                                               *)
CaseDate ==
  IF linked THEN root
  ELSE IF files["date"] # Nothing THEN files["date"]
  ELSE IF files["comments"] # Nothing THEN DateOf(files["comments"])
  ELSE Nothing

(* Mutant of Written: what is there is written over.                       *)
WrittenAlways(old, list, n, new, overwrite) ==
  [f \in JiraFile |->
     IF (\E k \in 1..n : list[k] = f) /\ new[f] # Nothing THEN new[f] ELSE old[f]]

(* The first n files of a command's list are written, where there is       *)
(* something to write and no file to be kept.                              *)
Written(old, list, n, new, overwrite) ==
  [f \in JiraFile |->
     IF /\ \E k \in 1..n : list[k] = f
        /\ new[f] # Nothing
        /\ old[f] = Nothing \/ overwrite
     THEN new[f] ELSE old[f]]
-----------------------------------------------------------------------------
JiraInit ==
  /\ linked \in BOOLEAN
  /\ now = 1
  /\ issue = [NoIssue EXCEPT !.born = IF linked THEN 0 ELSE 1]
  /\ root = Nothing
  /\ files = NoFiles
  /\ mock = Nothing
  /\ found = [q \in Query |-> Nothing]
  /\ missed = {}
  /\ whole = TRUE

(* The tracker: an issue is made, changed, commented on, developed for     *)
(* (which is left out for the own issue: no run is shown that).            *)
Change(next) ==
  /\ now < LastTime
  /\ now' = now + 1
  /\ issue' = next
  /\ mock' = Nothing
  /\ UNCHANGED <<linked, root, files, found, missed, whole>>

Report == issue.born = 0 /\ Change([issue EXCEPT !.born = now + 1])
Edit(f, v) ==
  /\ issue.born # 0 /\ v # issue.fields[f] /\ (f = Status => v # Empty)
  /\ Change([issue EXCEPT !.fields[f] = v, !.log = Append(@,
               [at |-> now + 1, field |-> f, from |-> issue.fields[f], to |-> v])])
AddComment(kind) ==
  /\ issue.born # 0
  /\ Change([issue EXCEPT !.comments = @ \cup {[at |-> now + 1, kind |-> kind]}])
Develop ==
  /\ linked /\ issue.born # 0
  /\ Change([issue EXCEPT !.dev = @ \cup {now + 1}])

(* collect-case of the case's own issue: the comments are kept as they     *)
(* are. With overwrite the linked issues and the recorded searches are     *)
(* removed first, the files of the own issue are not.                      *)
CollectList == <<"raw", "comments", "date", "starting">>
Collected(d) ==
  [raw |-> Snapshot, comments |-> issue.comments, date |-> d,
   starting |-> Starting(issue, issue.comments, DateOf(issue.comments)), dev |-> Nothing]

FoundKept(overwrite) == IF overwrite THEN [q \in Query |-> Nothing] ELSE found

CollectOwn(overwrite, n) ==
  /\ ~linked
  /\ files' = Written(files, CollectList, n, Collected(DateOf(issue.comments)), overwrite)
  /\ found' = FoundKept(overwrite)
  /\ whole' = (whole /\ n = Len(CollectList))
  /\ mock' = Nothing
  /\ UNCHANGED <<linked, tracker, root, missed>>

(* collect-case of the case the issue is linked to: there is no date of    *)
(* its own with a linked issue, and its starting state is as of the result *)
(* in its own comments, if any. The case may have its date only now.       *)
CollectLinked(overwrite, n, d) ==
  /\ linked /\ issue.born # 0
  /\ root # Nothing => d = root
  /\ root' = d
  /\ files' = Written(IF overwrite THEN NoFiles ELSE files, CollectList, n,
                      Collected(Nothing), overwrite)
  /\ found' = FoundKept(overwrite)
  /\ whole' = (whole /\ n = Len(CollectList))
  /\ mock' = Nothing
  /\ UNCHANGED <<linked, tracker, missed>>

(* _capture_jira_issue_fixture. The development status of the case's own   *)
(* issue goes to a directory no run reads.                                 *)
CaptureList == <<"raw", "comments", "starting", "date", "dev">>
Captured(d) ==
  [raw |-> Snapshot, comments |-> CommentsAsOf(issue.comments, d),
   starting |-> Starting(issue, CommentsAsOf(issue.comments, d), d), date |-> d,
   dev |-> IF linked THEN [events |-> DevAsOf(issue.dev, d), date |-> d] ELSE Nothing]
AfterCapture(d, overwrite, n) ==
  IF files["raw"] # Nothing /\ ~overwrite THEN files
  ELSE Written(files, CaptureList, n, Captured(d), overwrite)

CaptureIssue(d, overwrite, n) ==
  /\ issue.born # 0
  /\ files["raw"] = Nothing \/ overwrite
  /\ files' = AfterCapture(d, overwrite, n)
  /\ whole' = (whole /\ n = Len(CaptureList))
  /\ mock' = Nothing
  /\ UNCHANGED <<linked, tracker, root, found, missed>>
-----------------------------------------------------------------------------
(* materialize_ymir_jira_mock. A date is the issue's own, that of its      *)
(* development status, or the case's.                                      *)
MockDate ==
  IF files["date"] # Nothing THEN files["date"]
  ELSE IF files["dev"] # Nothing /\ files["dev"].date # Nothing THEN files["dev"].date
  ELSE IF linked THEN root ELSE Nothing

MockOf ==
  LET d == MockDate
      starts == files["starting"] # Nothing
  IN  [fields |-> IF starts THEN files["starting"].fields ELSE Reconstruct(files["raw"], d),
       comments |-> IF starts THEN files["starting"].comments
                    ELSE IF files["comments"] # Nothing THEN files["comments"]
                    ELSE files["raw"].comments,
       dev |-> IF files["dev"] # Nothing THEN DevAsOf(files["dev"].events, d) ELSE {},
       date |-> d,
       made |-> IF starts THEN files["starting"].made ELSE d,
       taken |-> IF starts THEN files["starting"].taken ELSE files["raw"].taken]

HasIssue == files["raw"] # Nothing \/ (~linked /\ files["starting"] # Nothing)

Materialize ==
  /\ HasIssue
  /\ mock' = MockOf
  /\ missed' = {}
  /\ UNCHANGED <<linked, tracker, root, files, found, whole>>
-----------------------------------------------------------------------------
(* _predicate_matches: a field that is not set is unequal to nothing.      *)
Holds(p, fields) ==
  LET v == fields[p.field]
  IN  CASE p.op = "=" -> v # Empty /\ v = p.value
        [] p.op = "!=" -> v # Empty /\ v # p.value
        [] p.op = "empty" -> v = Empty
        [] p.op = "nonempty" -> v # Empty

(* A term on an unknown field stops the search, if evaluation gets there.  *)
Stops(q, fields) ==
  \E k \in DOMAIN q.terms :
    /\ q.terms[k].field \notin Field
    /\ \A j \in 1..(k - 1) : q.terms[j].field \in Field /\ Holds(q.terms[j], fields)
Matches(q, fields) ==
  \A k \in DOMAIN q.terms : q.terms[k].field \in Field /\ Holds(q.terms[k], fields)

(* _synthesize_jira_search_response: Nothing when the harness cannot say.  *)
Out == [hit |-> FALSE]
Hit(fields) == [hit |-> TRUE, fields |-> fields]
Synthesized(q) ==
  LET source == IF files["raw"] # Nothing THEN files["raw"] ELSE files["starting"]
      fields == Reconstruct(source, CaseDate)
  IN  IF ~q.parses THEN Nothing
      ELSE IF ~HasIssue \/ (CaseDate # Nothing /\ source.born > CaseDate) THEN Out
      ELSE IF Stops(q, fields) THEN Nothing
      ELSE IF Matches(q, fields) THEN Hit(fields) ELSE Out

(* load_jira_search_response: a recorded answer comes first.               *)
SearchAnswer(q) == IF found[q] # Nothing THEN found[q].answer ELSE Synthesized(q)

Search(q) ==
  /\ mock # Nothing
  /\ SearchAnswer(q) = Nothing
  /\ missed' = missed \cup {q}
  /\ UNCHANGED <<linked, tracker, root, files, mock, found, whole>>

(* filter_search_response_as_of for the issue, if the tracker found it.    *)
(* Without its details the changelog is not there and neither is the time  *)
(* it was made.                                                            *)
Filtered(q, hit, detailed, d) ==
  LET known == IF detailed THEN issue ELSE [issue EXCEPT !.log = <<>>]
      fields == Reconstruct(known, d)
      kept == \A k \in DOMAIN q.terms :
                (q.terms[k].field \in Field /\ q.terms[k].op \in {"empty", "nonempty"})
                  => Holds(q.terms[k], fields)
  IN  IF ~hit \/ (d # Nothing /\ detailed /\ issue.born > d) \/ (d # Nothing /\ ~kept)
      THEN Out
      ELSE Hit(fields)

(* A missed search is captured, with the issues of its answer. The tracker *)
(* finds an issue by its values of today.                                  *)
CaptureSearch(q, hit, detailed, d, overwrite, n) ==
  LET answer == Filtered(q, hit, detailed, d)
      wrote == n = Len(CaptureList)
  IN  /\ q \in missed
      /\ hit => issue.born # 0
      /\ found[q] = Nothing \/ overwrite
      /\ files' = IF answer.hit THEN AfterCapture(d, overwrite, n) ELSE files
      /\ found' = IF wrote
                  THEN [found EXCEPT ![q] = [answer |-> answer, detailed |-> detailed, made |-> d]]
                  ELSE found
      /\ whole' = (whole /\ wrote)
      /\ missed' = missed \ {q}
      /\ mock' = Nothing
      /\ UNCHANGED <<linked, tracker, root>>

(* capture-missing takes the case's date or one it is given. SearchStops:  *)
(* a capture of a search is killed after the first file, or not at all.    *)
SearchStops == {1, Len(CaptureList)}
CaptureDates == {CaseDate, 1}
JiraNext ==
  \/ Report
  \/ \E f \in Field, v \in Value : Edit(f, v)
  \/ \E kind \in {"talk", "result"} : AddComment(kind)
  \/ Develop
  \/ \E overwrite \in BOOLEAN, n \in 1..Len(CollectList) : CollectOwn(overwrite, n)
  \/ \E overwrite \in BOOLEAN, n \in 1..Len(CollectList), d \in {Nothing} \cup 1..(now - 1) :
       CollectLinked(overwrite, n, d)
  \/ \E overwrite \in BOOLEAN, n \in 1..Len(CaptureList), d \in CaptureDates :
       CaptureIssue(d, overwrite, n)
  \/ Materialize
  \/ \E q \in Query : Search(q)
  \/ \E q \in Query, hit, detailed, overwrite \in BOOLEAN, n \in SearchStops,
          d \in CaptureDates : CaptureSearch(q, hit, detailed, d, overwrite, n)

JiraSpec == JiraInit /\ [][JiraNext]_jiraVars
-----------------------------------------------------------------------------
JiraTypeOK ==
  /\ linked \in BOOLEAN
  /\ now \in Time
  /\ issue.born \in Time /\ issue.fields \in Fields /\ issue.log \in Seq(Entry)
  /\ issue.comments \subseteq Comment /\ issue.dev \subseteq Time
  /\ root \in Date
  /\ files["date"] \in Date
  /\ files["comments"] # Nothing => files["comments"] \subseteq Comment
  /\ mock # Nothing => mock.fields \in Fields /\ mock.date \in Date
  /\ found \in [Query -> {Nothing} \cup
                  [answer : {Out} \cup {Hit(f) : f \in Fields}, detailed : BOOLEAN, made : Date]]
  /\ missed \subseteq Query
  /\ whole \in BOOLEAN

(* What the tracker said of a field at a time, from its changes up to it.  *)
ValueAt(f, d) ==
  LET past == {k \in DOMAIN issue.log : issue.log[k].field = f /\ issue.log[k].at <= d}
  IN  IF past = {} THEN NoIssue.fields[f]
      ELSE issue.log[CHOOSE k \in past : \A j \in past : j <= k].to

(* A run whose issue was prepared for the date the run is given sees no    *)
(* comment and no commit after that date, and no result.                   *)
NoLateComment ==
  (mock # Nothing /\ whole) =>
    ((mock.date # Nothing /\ mock.made = mock.date) =>
      /\ \A c \in mock.comments : c.at <= mock.date /\ c.kind # "result"
      /\ \A t \in mock.dev : t <= mock.date)

(* However long after the date the fixture was made, and from however many *)
(* captures, a field the changelog is applied to has the value it had at   *)
(* the date, but that a closed issue is open again.                        *)
ValuesAreOfTheDate ==
  /\ (/\ mock # Nothing
      /\ mock.date # Nothing /\ mock.made = mock.date /\ mock.taken >= mock.date) =>
       \A f \in Rewound :
         LET v == ValueAt(f, mock.date)
         IN  mock.fields[f] = v \/ (f = Status /\ v \in Closed /\ mock.fields[f] = New)
  /\ \A q \in Query :
       (found[q] # Nothing /\ found[q].answer.hit /\ found[q].detailed /\ found[q].made # Nothing) =>
         \A f \in Rewound : found[q].answer.fields[f] = ValueAt(f, found[q].made)

(* A search answered from the fixtures finds the issue exactly when it was *)
(* there at the case's date and had the values searched for, provided the  *)
(* case had that date when the issue was recorded.                         *)
SearchIsOfTheDate ==
  \A q \in Query :
    LET d == CaseDate
        truth == [f \in Field |-> ValueAt(f, d)]
        answer == Synthesized(q)
    IN  ( /\ files["raw"] # Nothing /\ d # Nothing /\ answer # Nothing
          /\ files["raw"].taken >= d
          /\ \A k \in DOMAIN q.terms : q.terms[k].field \in Rewound )
        => (answer.hit <=> issue.born <= d /\ Matches(q, truth))

(* Collecting or capturing again without overwrite does not change what a  *)
(* run is given of an issue that was captured whole.                       *)
RecordedStays ==
  [][(whole /\ HasIssue /\ MockDate # Nothing
      /\ \/ \E n \in 1..Len(CollectList) : CollectOwn(FALSE, n)
         \/ \E n \in 1..Len(CollectList), d \in Date : CollectLinked(FALSE, n, d)
         \/ \E n \in 1..Len(CaptureList), d \in CaptureDates : CaptureIssue(d, FALSE, n))
     => MockOf' = MockOf]_jiraVars
=============================================================================
