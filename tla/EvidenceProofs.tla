--------------------------- MODULE EvidenceProofs ---------------------------
(* Each behaviour of the run over the five modules of the evidence is a    *)
(* behaviour of each of them, so that what they promise holds of it.       *)
EXTENDS Evidence, SourceCacheProofs, ReplayProofs, BoundaryProofs, ScoringProofs

LEMMA PartsStart ==
  EvidenceInit => SourceInit /\ JiraInit /\ KojiInit /\ BoundaryInit /\ ScoringInit
  BY DEF EvidenceInit, SourceRests, JiraRests, KojiRests, BoundaryRests, ScoringRests

LEMMA PartsStep ==
  [EvidenceNext]_evidenceVars =>
    /\ [SourceNext]_sourceVars /\ [JiraNext]_jiraVars /\ [KojiNext]_kojiVars
    /\ [BoundaryNext]_boundaryVars /\ [ScoringNext]_scoringVars
  BY DEF EvidenceNext, evidenceVars

(* Which part moves does not matter: the state of every part is one of its *)
(* own behaviours.                                                         *)
THEOREM PartsAreKept ==
  EvidenceSpec => SourceSpec /\ JiraSpec /\ KojiSpec /\ BoundarySpec /\ ScoringSpec
  BY PartsStart, PartsStep, PTL
     DEF EvidenceSpec, SourceSpec, JiraSpec, KojiSpec, BoundarySpec, ScoringSpec

(* The state of every part has its type, whichever part moves.             *)
THEOREM EvidenceTypeCorrect == EvidenceSpec => []EvidenceTypeOK
  BY PartsAreKept, SourceTypeCorrect, JiraTypeCorrect, BuildsAreOfTheDate,
     BoundaryTypeCorrect, ScoringTypeCorrect, PTL
     DEF EvidenceTypeOK
=============================================================================
