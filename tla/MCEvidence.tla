----------------------------- MODULE MCEvidence -----------------------------
(* Evidence on small sets of commits, fields, builds, commands and answers. *)
EXTENDS Evidence, TLC

CONSTANTS
  old, fix, side,       main, topic,                     \* SourceCache
  status, summary, new, done, empty, other,              \* JiraReplay
  b1, b2, r9,                                            \* KojiReplay
  siteA, siteB,                                          \* Boundary
  spec, patch, readme, resolution, package, urls, build,  \* Scoring
  right, wrong, alias

(* A tree of commits: side is a branch that was left before the case's     *)
(* date, fix comes after it.                                               *)
MCAncestors ==
  (old :> {old}) @@ (fix :> {old, fix}) @@ (side :> {old, side})

(* A search that finds nothing, or stops, and one that finds open issues.  *)
MCQuery ==
  {[parses |-> TRUE, terms |-> <<[field |-> status, op |-> "!=", value |-> done],
                                 [field |-> other, op |-> "=", value |-> done]>>],
   [parses |-> TRUE, terms |-> <<[field |-> status, op |-> "=", value |-> new]>>]}

MCEVR == (b1 :> 1) @@ (b2 :> 2)

(* Commands of one segment, after another one, and of two calls. Hidden:   *)
(* git with a remote by its name, a script, a download of a second URL     *)
(* without a scheme.                                                       *)
Seg(p, us, os) == [program |-> p, urls |-> us, options |-> os, hidden |-> {}]
Hiding(segment, us) == [segment EXCEPT !.hidden = us]
Other == Seg("other", {}, {})
MCSegments ==
  {Seg("git", {siteA}, {}), Seg("git", {siteA, siteB}, {}), Seg("download", {siteA}, {}),
   Seg("download", {}, {siteB}), Seg("other", {siteB}, {}), Seg("manager", {}, {}),
   Seg("submit", {}, {}), Other}
MCLater ==
  {s \in MCSegments : siteB \notin s.urls /\ s.program \notin {"other", "submit"}}
MCHidden ==
  {Hiding(Seg("git", {}, {}), {siteB}), Hiding(Other, {siteA}),
   Hiding(Seg("download", {siteA}, {}), {siteB})}
MCCommand ==
  {<<s>> : s \in MCSegments \cup MCHidden} \cup {<<Other, s>> : s \in MCLater} \cup
  {<<Seg(p, {siteA}, {}), Seg(q, {siteB}, {})>> :
     <<p, q>> \in {<<"git", "git">>, <<"git", "download">>, <<"download", "download">>}} \cup
  {<<Seg("download", {}, {siteB}), Seg("git", {siteA}, {})>>}
MCRecorded == {{<<Other, Seg("git", {siteA}, {})>>}}
MCHoldings ==
  {{}, {"file"}, {"file", "lost"}, {"mock"}, {"repository", "mock", "rewrite"}}

(* A good answer, one that leaves things to be filled in, a wrong one (of a *)
(* backport with a file it did not change), and one with an error. A triage *)
(* says nothing of a build, a backport gets its resolution anyway.          *)
MCResolves == [w \in {"backport", "rebase"} |-> right]
MCFilled ==
  [w \in Workflow |-> IF w = "backport" THEN {package, urls} ELSE {package}]
Says(r, p, u, b) ==
  [m \in Metric |-> CASE m = resolution -> r [] m = package -> p [] m = urls -> u [] m = build -> b]
Comes(fields, srpm, log, claims, tripped) ==
  [fields |-> fields, srpm |-> srpm, log |-> log, claims |-> claims, tripped |-> tripped]
MCTriage ==
  {Comes(Says(right, right, right, Absent), "none", FALSE, {}, FALSE),
   Comes(Says(right, Absent, alias, Absent), "none", FALSE, {}, FALSE),
   Comes(Says(wrong, wrong, right, Absent), "none", FALSE, {}, FALSE),
   Comes(Says(right, right, right, Absent), "none", FALSE, {}, TRUE)}
MCBackport ==
  {Comes(Says(Absent, right, right, right), "there", TRUE, {}, FALSE),
   Comes(Says(wrong, Absent, Absent, wrong), "named", FALSE, {}, FALSE),
   Comes(Says(Absent, wrong, right, right), "none", FALSE, {readme}, FALSE),
   Comes(Says(Absent, right, right, right), "none", FALSE, {}, TRUE)}
MCAnswers == [w \in Workflow |-> IF w = "triage" THEN MCTriage ELSE MCBackport]
Accepts(fields, required, scope) == [fields |-> fields, required |-> required, scope |-> scope]
Wants(st, primary, alternates) ==
  [status |-> st, counts |-> TRUE, primary |-> primary, alternates |-> alternates]
MCExpected ==
  {Wants("active", Accepts(Says(right, right, right, Absent), {"srpm", "commit_diff"}, {}), {}),
   Wants("active", Accepts(Says(right, right, Absent, right), {}, {spec, patch}),
         {Accepts(Says(wrong, wrong, Absent, right), {}, {}),
          Accepts(Says(right, wrong, Absent, right), {"spec_file"}, {spec})}),
   Wants("quarantined",
         Accepts(Says(right, right, right, right), {"patch_files", "log_result"}, {}), {}),
   Wants("excluded", Accepts(Says(right, right, right, Absent), {}, {}), {})}
MCTriaged == {Says(right, right, alias, Absent), Says(wrong, right, right, Absent)}
MCCovers == {<<right, alias>>}
=============================================================================
