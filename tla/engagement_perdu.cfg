\* One Mission, two requests: an answer between a read and a write.
CONSTANTS
  Missions = {m1}
  Prestataires = {p1}
  Titulaire <- UnSeulTitulaire
  Requetes = {r1, r2}
  Totaux = {5}
  FORFAIT_DEPLACEMENT = 3
  DEVIS_MAX_PAR_MISSION = 2
  DESISTEMENTS_AVANT_SUSPENSION = 3
  PAR_PASSAGE_MAX = 1
SPECIFICATION Spec
PROPERTIES
  EngagementRendu
CHECK_DEADLOCK FALSE
