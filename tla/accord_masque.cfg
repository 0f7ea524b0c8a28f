\* One Mission, one request: no race is needed.
CONSTANTS
  Missions = {m1}
  Prestataires = {p1}
  Titulaire <- UnSeulTitulaire
  Requetes = {r1}
  Totaux = {2, 5}
  FORFAIT_DEPLACEMENT = 3
  DEVIS_MAX_PAR_MISSION = 3
  DESISTEMENTS_AVANT_SUSPENSION = 3
  PAR_PASSAGE_MAX = 1
SPECIFICATION Spec
INVARIANTS
  LotSansRefus
CHECK_DEADLOCK FALSE
