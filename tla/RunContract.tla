---------------------------- MODULE RunContract ----------------------------
(***************************************************************************)
(* What the reader of a report may believe about the attempts at a case,   *)
(* with nothing of podman, log files and phases: RunCase implements this.  *)
(*                                                                         *)
(* Attempts are made one at a time and each is answered once, or never. A  *)
(* workflow works until it is dead and stays dead. One that outlives its   *)
(* attempt is astray; an attempt is disturbed only by those, and one that  *)
(* is not disturbed passes on its own execution, and a blameless one.      *)
(***************************************************************************)
EXTENDS Integers

CONSTANTS Attempts, Nobody

VARIABLES
  last,      \* how many attempts have begun
  now,       \* the attempt under way, or Nobody
  answer,    \* [Attempts -> the status entered, and whose execution it is]
  alive,     \* attempts whose workflow is alive
  guilty,    \* attempts whose workflow was stopped by a guard
  astray,    \* attempts that lost their workflow
  beside     \* [Attempts -> workflows alive when the attempt began]

contractVars == <<last, now, answer, alive, guilty, astray, beside>>

None == [status |-> "none", by |-> Nobody]

ContractInit ==
  /\ last = 0 /\ now = Nobody
  /\ answer = [a \in Attempts |-> None]
  /\ alive = {} /\ guilty = {} /\ astray = {}
  /\ beside = [a \in Attempts |-> {}]

Disturbed(a) == beside[a] # {}
-----------------------------------------------------------------------------
(* Whatever is still alive is of an astray attempt, or one came before it. *)
Begin ==
  /\ now = Nobody
  /\ last' = last + 1 /\ last' \in Attempts
  /\ answer[last'] = None
  /\ now' = last'
  /\ last' \notin alive /\ alive' = alive \cup {last'}
  /\ beside' = [beside EXCEPT ![last'] = alive]
  /\ \A b \in alive : \E a \in astray : a <= b
  /\ UNCHANGED <<answer, guilty, astray>>

(* An attempt whose fixtures are not there is not made.                    *)
Decline ==
  /\ now = Nobody
  /\ last' = last + 1 /\ last' \in Attempts
  /\ answer[last'] = None
  /\ answer' = [answer EXCEPT ![last'] = [status |-> "failed", by |-> Nobody]]
  /\ UNCHANGED <<now, alive, guilty, astray, beside>>

(* A workflow works, sins or dies, whether its attempt is over or not. It  *)
(* may be lost only while an attempt is being ended.                       *)
Work(a) ==
  /\ a \in alive
  /\ alive' \in {alive, alive \ {a}}
  /\ guilty' \in {guilty, guilty \cup {a}}
  /\ astray' \in {astray} \cup (IF now = Nobody THEN {} ELSE {astray \cup {a}})
  /\ UNCHANGED <<last, now, answer, beside>>

(* Its workflow cannot be removed.                                         *)
Lose ==
  /\ now # Nobody
  /\ astray' = astray \cup {now}
  /\ UNCHANGED <<last, now, answer, alive, guilty, beside>>

(* The attempt is over. What is left of it is known to be astray.          *)
Leave ==
  /\ now # Nobody
  /\ now' = Nobody
  /\ alive' \in {alive, alive \ {now}}
  /\ astray' \in {astray, astray \cup {now}}
  /\ now \in alive' /\ ~Disturbed(now) => now \in astray'
  /\ UNCHANGED <<last, guilty, beside>>

Enter(status, by) ==
  /\ Leave
  /\ answer[now] = None
  /\ answer' = [answer EXCEPT ![now] = [status |-> status, by |-> by]]
  /\ ~Disturbed(now) => by \in {now, Nobody}
  /\ status = "passed" =>
       /\ now \notin alive
       /\ ~Disturbed(now) => by = now /\ now \notin guilty

(* The harness is killed.                                                  *)
Abandon == Leave /\ UNCHANGED answer

ContractNext ==
  \/ Begin \/ Decline \/ Lose \/ Abandon
  \/ \E a \in Attempts : Work(a)
  \/ \E status \in {"passed", "failed", "timeout"}, by \in Attempts \cup {Nobody} : Enter(status, by)

ContractSpec == ContractInit /\ [][ContractNext]_contractVars
=============================================================================
