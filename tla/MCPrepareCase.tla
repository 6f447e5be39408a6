--------------------------- MODULE MCPrepareCase ---------------------------
(* Instances of PrepareCase for TLC.                                       *)
EXTENDS PrepareCase

CONSTANTS page, mirror, repo, issue, build, archive, allowed, safe, other, private

(* What lives where: there are two safe hosts, for a cap of one.           *)
MCKindOf ==
  [i \in Item |-> CASE i = repo -> "git" [] i = issue -> "jira" [] i = build -> "koji"
                    [] i = archive -> "lookaside" [] OTHER -> "web"]
MCHostOf ==
  [i \in Item |-> CASE i \in {page, archive} -> safe [] i = mirror -> other
                    [] i = build -> private [] OTHER -> allowed]
=============================================================================
