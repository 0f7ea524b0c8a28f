\* One Demande, two providers, two requests.
CONSTANTS
  Demandes = {d1}
  Prestataires = {p1, p2}
  Requetes = {r1, r2}
  Competents <- TousCompetents
  DUREE_DIFFUSION = 1
  ELARGISSEMENTS_MAX = 3
  CANDIDATS_MAX = 1
  PAR_PASSAGE_MAX = 1
  REPRISES_MAX = 1
SPECIFICATION Spec
SYMMETRY Symetrie
INVARIANTS
  NotifieVoitLaDemande
