\* One account, two requests, two refresh tokens, two instances of
\* klaar-effacer; one failure locks.
\* No symmetry: two of the properties are liveness ones.
CONSTANTS
  Comptes = {c1}
  MAILLONS_MAX = 2
  Requetes = {r1, r2}
  Effaceurs = {e1, e2}
  VALIDITE_JETON = 1
  RETENTION = 2
  MAX_ECHECS = 1
  FENETRE_ECHECS = 0
  DUREE_VERROU = 2
  PAR_PASSAGE_MAX = 1
SPECIFICATION FairSpec
INVARIANTS
  TypeOK
  UnMaillonParFamille
  CoupureTenue
  EffaceUneFois
PROPERTIES
  EffacementFinal
  VerifieNonPurge
  CompteSeRouvre
  EffacementPrendFin
CHECK_DEADLOCK FALSE
