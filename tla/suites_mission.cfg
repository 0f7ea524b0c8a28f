SPECIFICATION FairSpec
CONSTANTS
  Requetes = {r1, r2}
  JOURS_MAX = 2
  FENETRE_REPROGRAMMATION = 1
  PURGE_JOURS = 1
  POSITIONS_MAX = 2
  CONVERSATION_FERMEE = 1
  MESSAGES_MAX = 2
  TENTATIVES_SIGNALEES = 2
  FENETRE_NOTATION = 1
  o1 = o1
  o2 = o2
  Ops = {o1, o2}
  RoleDe <- MCRoleDe
  FENETRE_LITIGE = 1
  TOTAUX = {101}
  PARTS = {99, 3333}
INVARIANTS
  TypeOK
  RepriseFondee
  ConversationBornee
  NotesAveugles
  DecisionAnnoncee
PROPERTY TracesPurgees
CHECK_DEADLOCK FALSE
