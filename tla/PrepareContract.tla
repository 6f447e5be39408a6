-------------------------- MODULE PrepareContract --------------------------
(***************************************************************************)
(* What `prepare-case' promises whoever runs it, with nothing of how runs, *)
(* log files and captures come to it: PrepareCase implements this.         *)
(*                                                                         *)
(* A case has inputs that are recorded, a run names inputs it misses, and  *)
(* a round may record what is missing, from hosts that are permitted. Each *)
(* further round is paid for by the one before it, and what the command    *)
(* says at its end is true of what is missing then.                        *)
(***************************************************************************)
EXTENDS Integers

CONSTANTS
  Item,           \* external inputs
  HostOf,         \* [Item -> host]
  Unchecked,      \* inputs recorded from any host, and of which "ready" says nothing
  AllowedHosts,   \* hosts the user permits
  SafeHosts,      \* hosts the command may permit
  MaxAutoHosts,   \* how many of them
  MaxIterations   \* limit on the rounds

VARIABLES
  recorded,    \* inputs the fixtures answer
  missing,     \* inputs the last run named as missing
  permitted,   \* hosts inputs may be fetched from
  slots,       \* how many hosts may be permitted yet
  redo,        \* recordings may be made again
  round,
  gained,      \* inputs this round has recorded
  verdict      \* "open" while the command runs; else what it said last

contractVars == <<recorded, missing, permitted, slots, redo, round, gained, verdict>>

Verdict == {"none", "open", "ready", "stuck", "unfinished"}

ContractInit ==
  /\ recorded \subseteq Item
  /\ missing = {}
  /\ permitted = AllowedHosts
  /\ slots = MaxAutoHosts
  /\ redo = FALSE
  /\ round = 1
  /\ gained = {}
  /\ verdict = "none"
-----------------------------------------------------------------------------
(* What was missing in an earlier invocation may be known.                 *)
Start ==
  /\ verdict # "open"
  /\ verdict' = "open"
  /\ missing' \subseteq Item
  /\ permitted' = AllowedHosts
  /\ slots' = MaxAutoHosts
  /\ redo' \in BOOLEAN
  /\ round' = 1
  /\ gained' = {}
  /\ UNCHANGED recorded

Learn ==
  /\ verdict = "open"
  /\ missing' \subseteq Item
  /\ UNCHANGED <<recorded, permitted, slots, redo, round, gained, verdict>>

(* A capture, complete or not; it may be the end of the command.           *)
Obtainable == {i \in missing : i \in Unchecked \/ HostOf[i] \in permitted}
Capture ==
  /\ verdict = "open"
  /\ recorded \subseteq recorded' /\ recorded' \ recorded \subseteq Obtainable
  /\ permitted \subseteq permitted' /\ permitted' \ permitted \subseteq SafeHosts
  /\ slots' \in 0..slots /\ (permitted' # permitted => slots' < slots)
  /\ verdict' \in {"open", "unfinished"}
  /\ gained' \subseteq gained \cup missing
  /\ ~redo /\ verdict' = "open" => gained' = gained \cup (recorded' \ recorded)
  /\ UNCHANGED <<missing, redo, round>>

NextRound ==
  /\ verdict = "open"
  /\ gained # {}
  /\ round < MaxIterations
  /\ round' = round + 1
  /\ gained' = {}
  /\ missing' \subseteq Item
  /\ UNCHANGED <<recorded, permitted, slots, redo, verdict>>

EndReady ==
  /\ verdict = "open"
  /\ missing \subseteq recorded \cup Unchecked
  /\ verdict' = "ready"
  /\ UNCHANGED <<recorded, missing, permitted, slots, redo, round, gained>>

(* Nothing more can be had, unless the user permits another host.          *)
EndStuck ==
  /\ verdict = "open"
  /\ gained = {}
  /\ \A i \in missing \ recorded :
       /\ HostOf[i] \notin permitted
       /\ HostOf[i] \in SafeHosts => slots = 0
  /\ verdict' = "stuck"
  /\ UNCHANGED <<recorded, missing, permitted, slots, redo, round, gained>>

EndUnfinished ==
  /\ verdict = "open"
  /\ verdict' = "unfinished"
  /\ UNCHANGED <<recorded, missing, permitted, slots, redo, round, gained>>

ContractNext ==
  \/ Start \/ Learn \/ Capture \/ NextRound
  \/ EndReady \/ EndStuck \/ EndUnfinished

ContractSpec == ContractInit /\ [][ContractNext]_contractVars
=============================================================================
