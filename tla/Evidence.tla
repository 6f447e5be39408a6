------------------------------ MODULE Evidence ------------------------------
(***************************************************************************)
(* SourceCache, JiraReplay, KojiReplay, Boundary and Scoring side by side. *)
(* They share no variable, and each property is about one of them: part    *)
(* says which one moves in a behaviour, and the others rest in one of      *)
(* their initial states, so that the numbers of their states add up.       *)
(***************************************************************************)
EXTENDS SourceCache, JiraReplay, KojiReplay, Boundary, Scoring

VARIABLE part
evidenceVars == <<part, sourceVars, jiraVars, kojiVars, boundaryVars, scoringVars>>

SourceRests ==
  /\ SourceInit
  /\ upstream = [r \in Ref |-> CHOOSE c \in Commit : TRUE] /\ ~dated
JiraRests == JiraInit /\ linked
KojiRests == KojiInit
BoundaryRests ==
  /\ BoundaryInit
  /\ mode = "replay_only" /\ has = [u \in Url |-> CHOOSE h \in Holdings : TRUE]
  /\ replays = CHOOSE r \in Recorded : TRUE
ScoringRests ==
  /\ ScoringInit
  /\ workflow = "triage" /\ triaged = NotThere
  /\ expected = CHOOSE e \in Expected : TRUE

EvidenceInit ==
  \/ part = "source"
     /\ SourceInit /\ JiraRests /\ KojiRests /\ BoundaryRests /\ ScoringRests
  \/ part = "jira"
     /\ SourceRests /\ JiraInit /\ KojiRests /\ BoundaryRests /\ ScoringRests
  \/ part = "koji"
     /\ SourceRests /\ JiraRests /\ KojiInit /\ BoundaryRests /\ ScoringRests
  \/ part = "boundary"
     /\ SourceRests /\ JiraRests /\ KojiRests /\ BoundaryInit /\ ScoringRests
  \/ part = "scoring"
     /\ SourceRests /\ JiraRests /\ KojiRests /\ BoundaryRests /\ ScoringInit

EvidenceNext ==
  /\ UNCHANGED part
  /\ \/ part = "source" /\ SourceNext
        /\ UNCHANGED <<jiraVars, kojiVars, boundaryVars, scoringVars>>
     \/ part = "jira" /\ JiraNext
        /\ UNCHANGED <<sourceVars, kojiVars, boundaryVars, scoringVars>>
     \/ part = "koji" /\ KojiNext
        /\ UNCHANGED <<sourceVars, jiraVars, boundaryVars, scoringVars>>
     \/ part = "boundary" /\ BoundaryNext
        /\ UNCHANGED <<sourceVars, jiraVars, kojiVars, scoringVars>>
     \/ part = "scoring" /\ ScoringNext
        /\ UNCHANGED <<sourceVars, jiraVars, kojiVars, boundaryVars>>

(* Each part's state has its type, in every part's behaviours.             *)
EvidenceTypeOK ==
  SourceTypeOK /\ JiraTypeOK /\ KojiTypeOK /\ BoundaryTypeOK /\ ScoringTypeOK

EvidenceSpec == EvidenceInit /\ [][EvidenceNext]_evidenceVars
=============================================================================
