-------------------------- MODULE ActivateContract --------------------------
(***************************************************************************)
(* What `activate-case' and `prepare-case --activate-on-pass' promise the  *)
(* keeper of a set of cases, with nothing of loops, reports and fixtures:  *)
(* ActivateCase implements this.                                           *)
(*                                                                         *)
(* A command has a case, and perhaps another that comes before it. It      *)
(* tries a case on a passing run of what the case now is, or on the word   *)
(* of the user; what was tried is confirmed or taken back. Only a command  *)
(* that may overwrite, or one that is killed, ends an activation.          *)
(***************************************************************************)

CONSTANTS
  Case,
  Before          \* [Case -> the cases to be activated before it]

VARIABLES
  order,    \* the command: what it does, to which case, may it overwrite
  result,   \* "open" while the command runs; else how it ended
  active,   \* cases whose activation was confirmed
  trial,    \* the case being activated, if there is one
  fresh,    \* cases with a passing run of their fixtures as they are
  relied,   \* cases whose result is taken as it is, whatever its age
  since     \* history: the active cases when the command began

contractVars == <<order, result, active, trial, fresh, relied, since>>

ContractInit ==
  /\ order.kind = "none"
  /\ result = "none"
  /\ active = {} /\ trial = {} /\ fresh = {} /\ relied = {} /\ since = {}

(* The cases a command is about, and those whose fixtures it may write.    *)
About == {order.case} \cup Before[order.case]
Writable == About \ relied
-----------------------------------------------------------------------------
Start ==
  /\ result # "open"
  /\ result' = "open"
  /\ order'.kind \in {"activate", "prepare"} /\ order'.case \in Case
  /\ order'.kind = "activate" => ~order'.overwrite
  /\ relied' = {}
  /\ since' = active
  /\ UNCHANGED <<active, trial, fresh>>

(* Fixtures are edited between the commands; their runs are not of them.   *)
Edit(d) ==
  /\ result # "open"
  /\ result' = "none"
  /\ fresh' = fresh \ {d}
  /\ UNCHANGED <<order, active, trial, relied, since>>

Rely ==
  /\ result = "open" /\ order.kind = "prepare"
  /\ relied' = Before[order.case]
  /\ UNCHANGED <<order, result, active, trial, fresh, since>>

(* Fixtures are written, perhaps by a step that fails.                     *)
Write(d) ==
  /\ result = "open" /\ order.kind = "prepare" /\ trial = {}
  /\ d \in Writable
  /\ fresh' = fresh \ {d}
  /\ active' \in {active} \cup (IF order.overwrite THEN {active \ {d}} ELSE {})
  /\ result' \in {"open", "failed"}
  /\ result' = "failed" => active' \ since \subseteq Before[order.case]
  /\ UNCHANGED <<order, trial, relied, since>>

(* A run proves the case, or takes the place of one that did.              *)
Run(d) ==
  /\ result = "open" /\ order.kind = "prepare" /\ trial = {}
  /\ d \in Writable
  /\ fresh \ {d} \subseteq fresh' /\ fresh' \subseteq fresh \cup {d}
  /\ UNCHANGED <<order, result, active, trial, relied, since>>

(* prepare-case tries its case when those before it are active, and none   *)
(* it has not seen pass unless it was told to rely on it.                  *)
Try(d) ==
  /\ result = "open" /\ trial = {}
  /\ d \notin active
  /\ \/ order.kind = "activate" /\ d = order.case
     \/ order.kind = "prepare" /\ d \in Before[order.case] /\ d \in fresh \cup relied
     \/ order.kind = "prepare" /\ d = order.case /\ d \in fresh /\ Before[d] \subseteq active
  /\ trial' = {d}
  /\ UNCHANGED <<order, result, active, fresh, relied, since>>

(* The command goes on unless the case is its own.                         *)
Confirm ==
  /\ trial # {}
  /\ active' = active \cup trial
  /\ trial' = {}
  /\ result' = IF order.case \in trial THEN "done" ELSE "open"
  /\ UNCHANGED <<order, fresh, relied, since>>

(* What was tried is taken back, or nothing was. Only the cases before it  *)
(* may have been activated for nothing.                                    *)
Fail ==
  /\ result = "open"
  /\ result' = "failed"
  /\ trial' = {}
  /\ active \ since \subseteq Before[order.case]
  /\ UNCHANGED <<order, active, fresh, relied, since>>

(* Nobody asked for the activation.                                        *)
EndPrepared ==
  /\ result = "open" /\ order.kind = "prepare" /\ trial = {}
  /\ result' = "done"
  /\ UNCHANGED <<order, active, trial, fresh, relied, since>>

(* A file half written is of no active case, and what was tried stays.     *)
Die ==
  /\ result = "open"
  /\ result' = "killed"
  /\ trial' = {}
  /\ active \ Writable \subseteq active' /\ active' \subseteq active \cup trial
  /\ fresh \ About \subseteq fresh' /\ fresh' \subseteq fresh
  /\ UNCHANGED <<order, relied, since>>

ContractNext ==
  \/ Start \/ Rely \/ Confirm \/ Fail \/ EndPrepared \/ Die
  \/ \E d \in Case : Edit(d) \/ Write(d) \/ Run(d) \/ Try(d)

ContractSpec == ContractInit /\ [][ContractNext]_contractVars
=============================================================================
