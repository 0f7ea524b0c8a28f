\* One Demande, two providers, three requests: every race on one row, and the
\* promise of Affectation, when the work is given up and taken up again.
CONSTANTS
  Demandes = {d1}
  Prestataires = {p1, p2}
  Requetes = {r1, r2, r3}
  Competents <- TousCompetents
  DUREE_DIFFUSION = 1
  ELARGISSEMENTS_MAX = 3
  CANDIDATS_MAX = 1
  PAR_PASSAGE_MAX = 1
  REPRISES_MAX = 1
SPECIFICATION Spec
SYMMETRY Symetrie
INVARIANTS
  TypeOK
  AttribueeParUneMission
  ReponsesTenues
  RelancesComptees
PROPERTIES
  SansReponseJustifie
  ImplementeAffectation
