\* One Mission, two devis, two requests: every race on one Mission.  No symmetry:
\* liveness.
CONSTANTS
  Missions = {m1}
  Prestataires = {p1}
  Titulaire <- UnSeulTitulaire
  Requetes = {r1, r2}
  Totaux = {2, 5}
  FORFAIT_DEPLACEMENT = 3
  DEVIS_MAX_PAR_MISSION = 2
  DESISTEMENTS_AVANT_SUSPENSION = 2
  PAR_PASSAGE_MAX = 1
SPECIFICATION SpecExpiration
INVARIANTS
  TypeOK
  ArgentUneFois
  RemboursementDu
PROPERTIES
  DevisPrendFin
  AnnulationFidele
  ReponsesFinales
  OffreVivanteProtegee
  SuitLeCours
CHECK_DEADLOCK FALSE
