\* Two Missions of one provider, two devis each, one request, a lot of one.  No
\* symmetry: liveness.
CONSTANTS
  Missions = {m1, m2}
  Prestataires = {p1}
  Titulaire <- UnSeulTitulaire
  Requetes = {r1}
  Totaux = {2}
  FORFAIT_DEPLACEMENT = 3
  DEVIS_MAX_PAR_MISSION = 2
  DESISTEMENTS_AVANT_SUSPENSION = 2
  PAR_PASSAGE_MAX = 1
SPECIFICATION SpecValidation
INVARIANTS
  SuspensionJustifiee
PROPERTIES
  AccordHonore
CHECK_DEADLOCK FALSE
