\* One account, one request that logs in while klaar-effacer runs.
CONSTANTS
  Comptes = {c1}
  MAILLONS_MAX = 1
  Requetes = {r1}
  Effaceurs = {e1}
  VALIDITE_JETON = 1
  RETENTION = 2
  MAX_ECHECS = 2
  FENETRE_ECHECS = 0
  DUREE_VERROU = 2
  PAR_PASSAGE_MAX = 1
SPECIFICATION Spec
INVARIANTS
  EffaceSansSession
CHECK_DEADLOCK FALSE
