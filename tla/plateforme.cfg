\* Two accounts, two requests; one record, one sector, one Mission.
SPECIFICATION Spec
CONSTANTS
  o1 = o1
  o2 = o2
  r1 = r1
  r2 = r2
  l1 = l1
  l2 = l2
  Requetes = {r1, r2}
  Ops = {o1, o2}
  RoleDe <- MCRoleDe
  PAS_MAX = 2
  SESSION_PAS = 1
  SESSIONS_MAX = 2
  QUOTA = 2
  Lieux = {l1, l2}
  Evenements = {1, 2, 3, 4}
  DateDe <- MCDateDe
  ObjetDe <- MCObjetDe
  Traites = {1, 2, 3}
  VERSIONS_MAX = 2
  AVIS_MAX = 2
  PROFONDEUR = 2
  VIVANTS_MAX = 2
  Montants = {0, 1, 2, 3}
  AUTORISATION_JOURS = 2
  CARTES_MAX = 2
  MontantsProposes <- MCMontantsProposes
  TauxProposes = {2100, 600, 300}
  DelaisProposes = {0, 1, 1441}
  Cles = {"s1", "s2", "a1"}
  FenetreDe <- MCFenetreDe
  MaxDe <- MCMaxDe
  SEUIL_NETTOYAGE = 2
  INSTANT_MAX = 5
SYMMETRY Symetrie
INVARIANTS
  TypeOK
  CodeUneFois
  RefusADeux
  DemandesTenues
  EvenementUneFois
  FluxSansTrou
  ComptesJustes
PROPERTY SecteurTenu
CHECK_DEADLOCK FALSE
