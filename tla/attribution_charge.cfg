\* Two Demandes, one provider, two requests: the provider's single Mission, the
\* end of every broadcast and the bounded sweep that must come to both.  No
\* symmetry: liveness.
CONSTANTS
  Demandes = {d1, d2}
  Prestataires = {p1}
  Requetes = {r1, r2}
  Competents <- TousCompetents
  DUREE_DIFFUSION = 1
  ELARGISSEMENTS_MAX = 1
  CANDIDATS_MAX = 1
  PAR_PASSAGE_MAX = 1
  REPRISES_MAX = 0
SPECIFICATION FairSpec
INVARIANTS
  UneMissionALaFois
PROPERTIES
  DiffusionPrendFin
