----------------------------- MODULE MCBoundary -----------------------------
(* One command, a clone of a repository that has mock data.                *)
EXTENDS Boundary

CONSTANT site
MCCommand == {<<[program |-> "git", urls |-> {site}, options |-> {}, hidden |-> {}]>>}
MCRecorded == {{}}
MCHoldings == {{}, {"mock"}, {"repository", "mock", "rewrite"}}
=============================================================================
