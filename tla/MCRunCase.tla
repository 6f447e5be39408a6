----------------------------- MODULE MCRunCase -----------------------------
(***************************************************************************)
(* Instances of RunCase: a second attempt is the first one that finds the  *)
(* files, and perhaps the container, of another.                           *)
(***************************************************************************)
EXTENDS RunCase

MCModes == {"container", "inprocess"}
MCDeadlines == BOOLEAN
MCContainers == {"container"}
MCDeadline == {TRUE}
=============================================================================
