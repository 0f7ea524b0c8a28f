------------------------------ MODULE OpsProofs ------------------------------
(***************************************************************************)
(* What the acts of the operations console keep, for any number of         *)
(* accounts, requests and sessions: no read is answered before it is       *)
(* written in journal_ops, a TOTP code opens one session, and a refusal of *)
(* a provider takes two accounts.  PlateformeProofs concludes from it.     *)
(***************************************************************************)
EXTENDS ConsoleOps, RevueKyc, Catalogue, SequenceTheorems, FiniteSetTheorems,
        TLAPS

-----------------------------------------------------------------------------
\* The two steps every act of the console shares.
GestesDemandes(suites) ==
  [op : {"habilitation", "consignation"}, ops : Ops, geste : Permissions,
   suite : suites]

\* The journal only grows.
JournalGrandit == journal \subseteq journal' /\ journal' \subseteq Gestes

LEMMA HabilitationLue ==
  ASSUME JournalOpsOK, NEW suites, NEW r, requete[r] \in GestesDemandes(suites),
         LireHabilitation(r)
  PROVE  /\ JournalGrandit
         /\ actifs' = actifs
         /\ \E e \in GestesDemandes(suites) \cup {Repondu("FORBIDDEN")} :
              /\ Devient(r, e)
              /\ e.op # "repondu" => /\ e.op = "consignation"
                                     /\ e.ops = requete[r].ops
                                     /\ e.geste = requete[r].geste
                                     /\ e.suite = requete[r].suite
<1> DEFINE q == requete[r]
           refus == [ops |-> q.ops, geste |-> q.geste, refuse |-> TRUE]
           e == [op |-> "consignation", ops |-> q.ops, geste |-> q.geste,
                 suite |-> q.suite]
<1>1. /\ q.ops \in Ops /\ q.geste \in Permissions /\ q.suite \in suites
      /\ q = [op |-> q.op, ops |-> q.ops, geste |-> q.geste, suite |-> q.suite]
  BY DEF GestesDemandes
<1>2. refus \in Gestes /\ e \in GestesDemandes(suites)
  BY <1>1 DEF Gestes, GestesDemandes
<1>3. [q EXCEPT !.op = "consignation"] = e
  BY <1>1
<1>4. Repondu("FORBIDDEN").op = "repondu"
  BY DEF Repondu
<1>5. JournalGrandit /\ actifs' = actifs
  BY <1>2 DEF LireHabilitation, JournalGrandit, JournalOpsOK
<1>6. CASE Autorise(q.ops, q.geste)
  <2>1. Devient(r, e)
    BY <1>3, <1>6 DEF LireHabilitation
  <2> QED BY <1>2, <1>5, <2>1
<1>7. CASE ~Autorise(q.ops, q.geste)
  <2>1. Devient(r, Repondu("FORBIDDEN"))
    BY <1>7 DEF LireHabilitation
  <2> QED BY <1>4, <1>5, <2>1
<1> QED BY <1>6, <1>7

LEMMA GesteConsigne ==
  ASSUME JournalOpsOK, NEW suites, NEW r, requete[r] \in GestesDemandes(suites),
         ConsignerGeste(r)
  PROVE  /\ JournalGrandit
         /\ actifs' = actifs
         /\ requete[r].suite \in suites
         /\ Devient(r, requete[r].suite)
         /\ [ops |-> requete[r].ops, geste |-> requete[r].geste,
             refuse |-> FALSE] \in journal'
<1> DEFINE o == requete[r].ops
           g == requete[r].geste
           acte == [ops |-> o, geste |-> g, refuse |-> FALSE]
<1>1. /\ acte \in Gestes
      /\ requete[r].suite \in suites
  BY DEF GestesDemandes, Gestes
<1>2. /\ journal' = journal \cup {acte}
      /\ actifs' = actifs
      /\ Devient(r, requete[r].suite)
  BY DEF ConsignerGeste
<1>3. acte \in journal'
  BY <1>2
<1> QED BY <1>1, <1>2, <1>3 DEF JournalGrandit, JournalOpsOK

-----------------------------------------------------------------------------
\* The console: logins, accounts and reads, all three at once.
ConsolePas == ConnexionNext \/ ComptesNext \/ LecturesNext

EtatsDeConsole == EtatsConsole \cup {Repos}

\* What a request has had written in the journal, or will have.
Tracee(e) ==
  /\ e.op \in {"habilitation", "consignation"} /\ e.suite.op = "lecture" =>
       e.suite.ops = e.ops /\ e.geste = PermissionDe(e.suite.quoi)
  /\ e.op = "lecture" => Consigne(e.ops, PermissionDe(e.quoi))
  /\ e.op = "repondu" /\ e.code \in Lectures =>
       Consigne(e.ops, PermissionDe(e.code))

\* A step that was accepted is behind the last one of its account, and it is
\* held once: by one request about to open its session, or by one session.
PasConsommes ==
  /\ \A i \in 1..Len(sessions) : sessions[i].pas <= dernierPas[sessions[i].ops]
  /\ \A r \in Requetes : requete[r].op = "ouverture" =>
       /\ requete[r].pas <= dernierPas[requete[r].ops]
       /\ \A i \in 1..Len(sessions) :
            sessions[i].ops = requete[r].ops => sessions[i].pas # requete[r].pas
       /\ \A q \in Requetes :
            q # r /\ requete[q].op = "ouverture" /\ requete[q].ops = requete[r].ops
              => requete[q].pas # requete[r].pas

LignesSessionOps == [ops : Ops, pas : Pas, fin : Nat, revoquee : BOOLEAN]

ConsoleInv ==
  /\ JournalOpsOK
  /\ requete \in [Requetes -> EtatsDeConsole]
  /\ actifs \subseteq comptes /\ comptes \subseteq Ops
  /\ horloge \in 1..PAS_MAX
  /\ dernierPas \in [Ops -> Pas \cup {0}]
  /\ sessions \in Seq(LignesSessionOps)
  /\ \A r \in Requetes : Tracee(requete[r])
  /\ PasConsommes
  /\ CodeUneFois

LEMMA ConsoleInvSuffit == ConsoleInv => ConsoleOpsOK
<1> SUFFICES ASSUME ConsoleInv PROVE ConsoleOpsOK
  OBVIOUS
<1>1. \A code \in Lectures : StatutOps(code) = 200
  BY DEF Lectures, StatutOps
<1>2. \A r \in Requetes : requete[r] \in EtatsConsole \cup {Repos}
  BY DEF ConsoleInv, EtatsDeConsole
<1>3. \A r \in Requetes :
        (requete[r].op = "repondu" /\ requete[r].code \in Lectures)
          => Consigne(requete[r].ops, PermissionDe(requete[r].code))
  BY DEF ConsoleInv, Tracee
<1> QED BY <1>1, <1>2, <1>3 DEF ConsoleInv, ConsoleOpsOK, LignesSessionOps

\* What a request of the console carries, according to the step it has reached.
LEMMA ChampsConsole ==
  ASSUME NEW e \in EtatsDeConsole
  PROVE  /\ e.op \in {"habilitation", "consignation"} =>
              e \in GestesDemandes(SuitesConsole)
         /\ e.op = "creation" => e.cible \in Ops /\ e.corps \in Corps
         /\ e.op = "lecture" =>
              e = [op |-> "lecture", ops |-> e.ops, quoi |-> e.quoi]
              /\ e.ops \in Ops /\ e.quoi \in Lectures
         /\ e.op = "identifiants" => e.ops \in Ops /\ e.pas \in Pas \cup {0}
         /\ e.op \in {"pas", "ouverture"} =>
              e = [op |-> e.op, ops |-> e.ops, pas |-> e.pas]
              /\ e.ops \in Ops /\ e.pas \in Pas
BY DEF EtatsDeConsole, EtatsConsole, EtatsGeste, SuitesConsole, GestesDemandes, Repos

\* The other direction, for the states a step leads to.
LEMMA EtatsAdmis ==
  /\ Repos \in EtatsDeConsole
  /\ \A code \in CodesOps : Repondu(code) \in EtatsDeConsole
  /\ \A e \in GestesDemandes(SuitesConsole) \cup SuitesConsole : e \in EtatsDeConsole
  /\ \A o \in Ops, p \in Pas :
       /\ [op |-> "pas", ops |-> o, pas |-> p] \in EtatsDeConsole
       /\ [op |-> "ouverture", ops |-> o, pas |-> p] \in EtatsDeConsole
  /\ \A o \in Ops, j \in BOOLEAN, p \in Pas \cup {0} :
       [op |-> "identifiants", ops |-> o, juste |-> j, pas |-> p] \in EtatsDeConsole
  /\ \A o \in Ops, l \in Lectures :
       [op |-> "repondu", code |-> l, ops |-> o] \in EtatsDeConsole
BY DEF EtatsDeConsole, EtatsConsole, EtatsGeste, GestesDemandes, Repondu

\* A request that goes on, or answers, without a step of the code in its hands.
Avance(e) == e \in EtatsDeConsole /\ e.op # "ouverture" /\ Tracee(e)'

LEMMA AvanceReponse ==
  ASSUME NEW code \in CodesOps
  PROVE  Avance(Repondu(code)) /\ Avance(Repos)
<1>1. code \notin Lectures
  BY DEF CodesOps, Lectures
<1>2. Tracee(Repondu(code))' /\ Tracee(Repos)'
  BY <1>1 DEF Tracee, Repondu, Repos
<1>3. Repondu(code).op # "ouverture" /\ Repos.op # "ouverture"
  BY DEF Repondu, Repos
<1> QED BY <1>2, <1>3, EtatsAdmis DEF Avance

\* Every step but the two of a login that hold an accepted code.
LEMMA ConsoleCalme ==
  ASSUME ConsoleInv, ConsolePas,
         \A r \in Requetes : ~ConsommerPas(r) /\ ~OuvrirSession(r)
  PROVE  /\ JournalGrandit
         /\ actifs' \subseteq comptes' /\ comptes' \subseteq Ops
         /\ horloge' \in 1..PAS_MAX
         /\ dernierPas' = dernierPas
         /\ sessions' = sessions \/ \E r \in Requetes : DeconnexionOps(r)
         /\ \/ requete' = requete
            \/ \E r \in Requetes, e \in EtatsDeConsole : Devient(r, e) /\ Avance(e)
<1> DEFINE But ==
         /\ JournalGrandit
         /\ actifs' \subseteq comptes' /\ comptes' \subseteq Ops
         /\ horloge' \in 1..PAS_MAX
         /\ dernierPas' = dernierPas
         /\ sessions' = sessions \/ \E r \in Requetes : DeconnexionOps(r)
         /\ \/ requete' = requete
            \/ \E r \in Requetes, e \in EtatsDeConsole : Devient(r, e) /\ Avance(e)
<1>t. /\ JournalOpsOK
      /\ actifs \subseteq comptes /\ comptes \subseteq Ops
      /\ horloge \in 1..PAS_MAX
      /\ journal \subseteq Gestes /\ actifs \subseteq Ops
      /\ \A r \in Requetes : requete[r] \in EtatsDeConsole /\ Tracee(requete[r])
  BY DEF ConsoleInv, JournalOpsOK
\* A request that moves alone.
<1>a. ASSUME NEW r \in Requetes, NEW e, Avance(e), Devient(r, e),
             UNCHANGED <<consoleOps, journalOps>>
      PROVE  But
  BY <1>a, <1>t DEF Avance, JournalGrandit, consoleOps, journalOps
<1>1. CASE AvancerPas
  BY <1>1, <1>t, ConsoleAssumption DEF AvancerPas, JournalGrandit, journalOps
<1>2. CASE RevoquerUnCompte
  BY <1>2, <1>t DEF RevoquerUnCompte, RevoquerInactif, JournalGrandit, consoleOps
<1>3. ASSUME NEW r \in Requetes, ConsoleInterrompre(r)
      PROVE  But
  BY <1>3, <1>a, AvanceReponse DEF ConsoleInterrompre, Interrompre, CodesOps
<1>4. ASSUME NEW r \in Requetes, DemanderConnexion(r)
      PROVE  But
  <2>1. PICK o \in Ops, juste \in BOOLEAN, pas \in Pas \cup {0} :
          Devient(r, [op |-> "identifiants", ops |-> o, juste |-> juste, pas |-> pas])
    BY <1>4 DEF DemanderConnexion
  <2> DEFINE e == [op |-> "identifiants", ops |-> o, juste |-> juste, pas |-> pas]
  <2>2. Avance(e)
    BY EtatsAdmis DEF Avance, Tracee
  <2> HIDE DEF e
  <2> QED BY <1>4, <1>a, <2>1, <2>2 DEF DemanderConnexion, e
<1>5. ASSUME NEW r \in Requetes, Authentifier(r)
      PROVE  But
  <2>o. PICK o, p : o = requete[r].ops /\ p = requete[r].pas
    OBVIOUS
  <2> DEFINE e == [op |-> "pas", ops |-> o, pas |-> p]
  <2>1. /\ Avance(Repondu("OPS_CREDENTIALS_INVALID"))
        /\ Avance(Repondu("OPS_UNAVAILABLE"))
    BY AvanceReponse DEF CodesOps
  <2>2. CASE p # 0
    <3>1. o \in Ops /\ p \in Pas
      BY <1>5, <1>t, <2>o, <2>2, ChampsConsole DEF Authentifier
    <3>2. Avance(e)
      BY <3>1, EtatsAdmis DEF Avance, Tracee
    <3>3. \/ Devient(r, Repondu("OPS_CREDENTIALS_INVALID"))
          \/ Devient(r, Repondu("OPS_UNAVAILABLE"))
          \/ Devient(r, e)
      BY <1>5, <2>o DEF Authentifier
    <3> QED BY <1>5, <1>a, <2>1, <3>2, <3>3 DEF Authentifier
  <2>3. CASE p = 0
    BY <1>5, <1>a, <2>o, <2>1, <2>3 DEF Authentifier
  <2> QED BY <2>2, <2>3
<1>6. ASSUME NEW r \in Requetes, ConsoleHabilitation(r)
      PROVE  But
  <2> DEFINE q == requete[r]
  <2>1. /\ q \in GestesDemandes(SuitesConsole)
        /\ q.suite.op = "lecture" =>
             q.suite.ops = q.ops /\ q.geste = PermissionDe(q.suite.quoi)
    BY <1>6, <1>t, ChampsConsole
    DEF ConsoleHabilitation, LireHabilitation, ConsignerGeste, Tracee
  <2>2. CASE LireHabilitation(r)
    <3>1. /\ JournalGrandit
          /\ actifs' = actifs
          /\ \E e \in GestesDemandes(SuitesConsole) \cup {Repondu("FORBIDDEN")} :
               /\ Devient(r, e)
               /\ e.op # "repondu" => /\ e.op = "consignation"
                                      /\ e.ops = q.ops
                                      /\ e.geste = q.geste
                                      /\ e.suite = q.suite
      BY <1>t, <2>1, <2>2, HabilitationLue
    <3>2. PICK e \in GestesDemandes(SuitesConsole) \cup {Repondu("FORBIDDEN")} :
            /\ Devient(r, e)
            /\ e.op # "repondu" => /\ e.op = "consignation"
                                   /\ e.ops = q.ops
                                   /\ e.geste = q.geste
                                   /\ e.suite = q.suite
      BY <3>1
    <3>3. CASE e.op # "repondu"
      <4>1. e \in GestesDemandes(SuitesConsole)
        BY <3>2, <3>3 DEF Repondu
      <4>2. Avance(e)
        BY <2>1, <3>2, <3>3, <4>1, EtatsAdmis DEF Avance, Tracee
      <4> QED BY <1>6, <1>t, <3>1, <3>2, <4>1, <4>2, EtatsAdmis
              DEF ConsoleHabilitation, consoleOps
    <3>4. CASE e.op = "repondu"
      <4>1. e = Repondu("FORBIDDEN")
        BY <3>2, <3>4 DEF GestesDemandes
      <4>2. Avance(e)
        BY <4>1, AvanceReponse DEF CodesOps
      <4> QED BY <1>6, <1>t, <3>1, <3>2, <4>2
              DEF ConsoleHabilitation, consoleOps, Avance
    <3> QED BY <3>3, <3>4
  <2>3. CASE ConsignerGeste(r)
    <3>1. PICK e : e = q.suite
      OBVIOUS
    <3>2. /\ JournalGrandit
          /\ actifs' = actifs
          /\ e \in SuitesConsole
          /\ Devient(r, e)
          /\ [ops |-> q.ops, geste |-> q.geste, refuse |-> FALSE] \in journal'
      BY <1>t, <2>1, <2>3, <3>1, GesteConsigne
    <3>3. e.op = "lecture" => Consigne(e.ops, PermissionDe(e.quoi))'
      BY <2>1, <3>1, <3>2 DEF Consigne
    <3>4. e.op \in {"lecture", "creation"}
      BY <3>2 DEF SuitesConsole
    <3>5. Avance(e)
      BY <3>2, <3>3, <3>4, EtatsAdmis DEF Avance, Tracee
    <3> QED BY <1>6, <1>t, <3>2, <3>5 DEF ConsoleHabilitation, consoleOps, Avance
  <2> QED BY <1>6, <2>2, <2>3 DEF ConsoleHabilitation
\* A session, or none, and the act it asks for.
<1>b. ASSUME NEW r \in Requetes, NEW o \in Ops, NEW p \in Permissions,
             NEW suite \in SuitesConsole, PresenterJeton(r, o, p, suite),
             suite.op = "lecture" => suite.ops = o /\ p = PermissionDe(suite.quoi)
      PROVE  But
  <2> DEFINE e == [op |-> "habilitation", ops |-> o, geste |-> p, suite |-> suite]
  <2>1. e \in GestesDemandes(SuitesConsole)
    BY DEF GestesDemandes
  <2>2. Avance(e)
    BY <1>b, <2>1, EtatsAdmis DEF Avance, Tracee
  <2>3. Avance(Repondu("OPS_CREDENTIALS_INVALID"))
    BY AvanceReponse DEF CodesOps
  <2>4. /\ Devient(r, e) \/ Devient(r, Repondu("OPS_CREDENTIALS_INVALID"))
        /\ UNCHANGED <<consoleOps, journalOps>>
    BY <1>b DEF PresenterJeton, DemanderGeste
  <2> HIDE DEF e
  <2> QED BY <1>a, <2>2, <2>3, <2>4
<1>7. ASSUME NEW r \in Requetes, CreerCompteOps(r)
      PROVE  But
  <2>1. ASSUME NEW o \in Ops, NEW cible \in Ops, NEW corps \in Corps,
               PresenterJeton(r, o, "OPS_MANAGE",
                              [op |-> "creation", cible |-> cible, corps |-> corps])
        PROVE  But
    <3>1. [op |-> "creation", cible |-> cible, corps |-> corps] \in SuitesConsole
      BY DEF SuitesConsole
    <3>2. "OPS_MANAGE" \in Permissions
      BY DEF Permissions
    <3> QED BY <1>b, <2>1, <3>1, <3>2
  <2>2. CASE EcrireCompte(r)
    <3>1. requete[r].cible \in Ops
      BY <1>t, <2>2, ChampsConsole DEF EcrireCompte
    <3>2. \E code \in {"CREDENTIALS_INVALID", "ROLE_UNKNOWN", "EMAIL_TAKEN",
                       "OPS_ACCOUNT_CREATED"} : Devient(r, Repondu(code))
      BY <2>2 DEF EcrireCompte
    <3>3. PICK code \in CodesOps : Devient(r, Repondu(code))
      BY <3>2 DEF CodesOps
    <3>4. Avance(Repondu(code))
      BY AvanceReponse
    <3>5. actifs' \subseteq comptes' /\ comptes' \subseteq Ops
      BY <1>t, <2>2, <3>1 DEF EcrireCompte
    <3>6. UNCHANGED <<horloge, dernierPas, sessions, journal>>
      BY <2>2 DEF EcrireCompte
    <3> QED BY <1>t, <3>3, <3>4, <3>5, <3>6 DEF JournalGrandit, Avance
  <2> QED BY <1>7, <2>1, <2>2 DEF CreerCompteOps
<1>8. ASSUME NEW r \in Requetes, NEW quoi \in Lectures, DemanderLecture(r, quoi)
      PROVE  But
  <2>1. PICK o \in Ops :
          PresenterJeton(r, o, PermissionDe(quoi),
                         [op |-> "lecture", ops |-> o, quoi |-> quoi])
    BY <1>8 DEF DemanderLecture
  <2>2. PermissionDe(quoi) \in Permissions
    BY DEF PermissionDe, Permissions, Lectures
  <2>3. [op |-> "lecture", ops |-> o, quoi |-> quoi] \in SuitesConsole
    BY DEF SuitesConsole
  <2> QED BY <1>b, <2>1, <2>2, <2>3
<1>9. ASSUME NEW r \in Requetes, NEW quoi \in Lectures, Lire(r, quoi)
      PROVE  But
  \* Rigid: the request has moved on after the step.
  <2>o. PICK o : o = requete[r].ops
    OBVIOUS
  <2> DEFINE e == [op |-> "repondu", code |-> quoi, ops |-> o]
  <2>1. o \in Ops /\ Consigne(o, PermissionDe(quoi))
    BY <1>9, <1>t, <2>o, ChampsConsole DEF Lire, Tracee
  <2>2. UNCHANGED <<consoleOps, journalOps>> /\ Devient(r, e)
    BY <1>9, <2>o DEF Lire
  <2>3. Consigne(o, PermissionDe(quoi))'
    BY <2>1, <2>2 DEF Consigne, journalOps
  <2>4. Avance(e)
    BY <2>1, <2>3, EtatsAdmis DEF Avance, Tracee
  <2> HIDE DEF e
  <2> QED BY <1>a, <2>2, <2>4
<1>10. ASSUME NEW r \in Requetes, ExportRgpd(r) \/ ExportTva(r) \/ LireAudit(r)
                                  \/ LireTableauBord(r)
       PROVE  But
  <2>1. \A quoi \in {"AUDIT_READ", "DASHBOARD_READ", "GDPR_EXPORT", "VAT_EXPORT"} :
          quoi \in Lectures
    BY DEF Lectures
  <2>2. ASSUME NEW code \in CodesOps, Devient(r, Repondu(code)),
               UNCHANGED <<consoleOps, journalOps>>
        PROVE  But
    BY <1>a, <2>2, AvanceReponse
  <2>3. "USER_NOT_FOUND" \in CodesOps /\ "PERIOD_INVALID" \in CodesOps
    BY DEF CodesOps
  <2> QED BY <1>10, <1>8, <1>9, <2>1, <2>2, <2>3
          DEF ExportRgpd, ExportTva, LireAudit, LireTableauBord
<1>11. ASSUME NEW r \in Requetes, DeconnexionOps(r)
       PROVE  But
  <2>1. /\ Avance(Repondu("LOGGED_OUT"))
        /\ Devient(r, Repondu("LOGGED_OUT"))
        /\ UNCHANGED <<comptes, horloge, dernierPas, journalOps>>
    BY <1>11, AvanceReponse DEF DeconnexionOps, CodesOps
  <2> QED BY <1>11, <1>t, <2>1 DEF JournalGrandit, journalOps, Avance
<1>12. ASSUME NEW r \in Requetes, ConnexionOps(r)
       PROVE  But
  BY <1>12, <1>4, <1>5 DEF ConnexionOps
<1> QED BY <1>1, <1>2, <1>3, <1>6, <1>7, <1>10, <1>11, <1>12
        DEF ConsolePas, ConnexionNext, ComptesNext, LecturesNext

\* The columns of session_ops that say whose code opened which row.
MemesPas(s, t) ==
  /\ Len(s) = Len(t)
  /\ \A i \in 1..Len(s) : s[i].ops = t[i].ops /\ s[i].pas = t[i].pas

LEMMA DeconnexionGardeLesPas ==
  ASSUME sessions \in Seq(LignesSessionOps), NEW r, DeconnexionOps(r)
  PROVE  sessions' \in Seq(LignesSessionOps) /\ MemesPas(sessions', sessions)
<1>1. ASSUME NEW i, RevoquerSession(i)
      PROVE  sessions' \in Seq(LignesSessionOps) /\ MemesPas(sessions', sessions)
  <2> DEFINE ligne == [sessions[i] EXCEPT !.revoquee = TRUE]
  <2>1. i \in 1..Len(sessions) /\ sessions[i] \in LignesSessionOps
    BY <1>1, ElementOfSeq DEF RevoquerSession
  <2>2. /\ ligne \in LignesSessionOps
        /\ ligne.ops = sessions[i].ops /\ ligne.pas = sessions[i].pas
    BY <2>1 DEF LignesSessionOps
  <2>3. sessions' = [sessions EXCEPT ![i] = ligne]
    BY <1>1 DEF RevoquerSession
  <2> HIDE DEF ligne
  <2>4. /\ sessions' \in Seq(LignesSessionOps)
        /\ Len(sessions') = Len(sessions)
        /\ \A j \in 1..Len(sessions) :
             sessions'[j] = IF j = i THEN ligne ELSE sessions[j]
    BY <2>1, <2>2, <2>3, ExceptSeq
  <2> QED BY <2>2, <2>4 DEF MemesPas
<1>2. CASE UNCHANGED sessions
  BY <1>2 DEF MemesPas
<1> QED BY <1>1, <1>2 DEF DeconnexionOps, FermerSession

\* The code is accepted, and the session opened, in two statements: between
\* them the step belongs to the request alone.
LEMMA PasNext ==
  ASSUME ConsoleInv, ConsolePas
  PROVE  /\ JournalGrandit
         /\ actifs' \subseteq comptes' /\ comptes' \subseteq Ops
         /\ horloge' \in 1..PAS_MAX
         /\ dernierPas' \in [Ops -> Pas \cup {0}]
         /\ sessions' \in Seq(LignesSessionOps)
         /\ \/ requete' = requete
            \/ \E r \in Requetes, e \in EtatsDeConsole : Devient(r, e) /\ Tracee(e)'
         /\ PasConsommes' /\ CodeUneFois'
<1> DEFINE But ==
         /\ JournalGrandit
         /\ actifs' \subseteq comptes' /\ comptes' \subseteq Ops
         /\ horloge' \in 1..PAS_MAX
         /\ dernierPas' \in [Ops -> Pas \cup {0}]
         /\ sessions' \in Seq(LignesSessionOps)
         /\ \/ requete' = requete
            \/ \E r \in Requetes, e \in EtatsDeConsole : Devient(r, e) /\ Tracee(e)'
         /\ PasConsommes' /\ CodeUneFois'
<1>t. /\ JournalOpsOK
      /\ requete \in [Requetes -> EtatsDeConsole]
      /\ actifs \subseteq comptes /\ comptes \subseteq Ops
      /\ horloge \in 1..PAS_MAX
      /\ dernierPas \in [Ops -> Pas \cup {0}]
      /\ sessions \in Seq(LignesSessionOps)
      /\ PasConsommes /\ CodeUneFois
  BY DEF ConsoleInv
<1>n. /\ Pas \subseteq Nat /\ PAS_MAX \in Nat /\ SESSION_PAS \in Nat
      /\ \A o \in Ops : dernierPas[o] \in Nat
      /\ Len(sessions) \in Nat
      /\ \A i \in 1..Len(sessions) : sessions[i] \in LignesSessionOps
  <2>1. Pas \subseteq Nat /\ PAS_MAX \in Nat /\ SESSION_PAS \in Nat
    BY ConsoleAssumption DEF Pas, TOLERANCE_PAS
  <2>2. ASSUME NEW o \in Ops
        PROVE  dernierPas[o] \in Nat
    <3>1. dernierPas[o] \in Pas \cup {0}
      BY <1>t
    <3>2. 0 \in Nat
      OBVIOUS
    <3> QED BY <2>1, <3>1, <3>2
  <2>3. Len(sessions) \in Nat
    BY <1>t, LenProperties
  <2>4. \A i \in 1..Len(sessions) : sessions[i] \in LignesSessionOps
    BY <1>t, ElementOfSeq
  <2> QED BY <2>1, <2>2, <2>3, <2>4
<1>j. JournalGrandit \/ journal' # journal
  BY <1>t DEF JournalGrandit, JournalOpsOK
<1>1. ASSUME NEW r \in Requetes, ConsommerPas(r)
      PROVE  But
  <2>o. PICK o, p : o = requete[r].ops /\ p = requete[r].pas
    OBVIOUS
  <2> DEFINE e == [op |-> "ouverture", ops |-> o, pas |-> p]
  <2>1. /\ o \in Ops /\ p \in Pas
        /\ requete[r] = [op |-> "pas", ops |-> o, pas |-> p]
    BY <1>1, <1>t, <2>o, ChampsConsole DEF ConsommerPas
  <2>2. UNCHANGED <<comptes, horloge, sessions, actifs, journal>>
    BY <1>1 DEF ConsommerPas, journalOps
  <2>3. CASE PasNeuf(o, p)
    <3>1. /\ dernierPas[o] < p
          /\ dernierPas' = [dernierPas EXCEPT ![o] = p]
          /\ Devient(r, [requete[r] EXCEPT !.op = "ouverture"])
      BY <1>1, <2>o, <2>3 DEF ConsommerPas, PasNeuf
    <3>2. Devient(r, e)
      BY <2>1, <3>1
    <3>3. e \in EtatsDeConsole /\ Tracee(e)'
      BY <2>1, EtatsAdmis DEF Tracee
    <3>4. /\ e.op = "ouverture" /\ e.ops = o /\ e.pas = p
      OBVIOUS
    <3> HIDE DEF e
    <3>5. /\ dernierPas'[o] = p
          /\ \A x \in Ops : dernierPas[x] <= dernierPas'[x]
          /\ dernierPas' \in [Ops -> Pas \cup {0}]
      BY <1>t, <1>n, <2>1, <3>1
    <3>n. \A x \in Ops : dernierPas'[x] \in Nat
      <4>1. Pas \cup {0} \subseteq Nat
        BY <1>n
      <4> QED BY <3>5, <4>1
    <3>6. /\ requete'[r] = e
          /\ \A q \in Requetes \ {r} : requete'[q] = requete[q]
      BY <1>t, <3>2 DEF Devient
    <3>7. \A i \in 1..Len(sessions) : sessions[i].ops = o => sessions[i].pas # p
      BY <1>n, <1>t, <2>1, <3>1, SMTT(30) DEF PasConsommes, LignesSessionOps
    <3>8. \A q \in Requetes : requete[q].op = "ouverture" /\ requete[q].ops = o
                                => requete[q].pas # p
      <4>1. \A q \in Requetes : requete[q].op = "ouverture" => requete[q].pas \in Nat
        BY <1>t, <1>n, ChampsConsole
      <4> QED BY <1>n, <1>t, <2>1, <3>1, <4>1 DEF PasConsommes
    <3>9. \A i \in 1..Len(sessions) : sessions[i].pas <= dernierPas'[sessions[i].ops]
      <4>1. ASSUME NEW i \in 1..Len(sessions)
            PROVE  sessions[i].pas <= dernierPas'[sessions[i].ops]
        <5>1. sessions[i].ops \in Ops /\ sessions[i].pas \in Nat
          BY <1>n DEF LignesSessionOps
        <5>2. sessions[i].pas <= dernierPas[sessions[i].ops]
          BY <1>t DEF PasConsommes
        <5>3. dernierPas'[sessions[i].ops] \in Nat
          BY <3>n, <5>1
        <5> QED BY <1>n, <3>5, <5>1, <5>2, <5>3
      <4> QED BY <4>1
    <3>10. \A q \in Requetes : requete'[q].op = "ouverture" =>
             requete'[q].pas <= dernierPas'[requete'[q].ops]
      <4>1. ASSUME NEW q \in Requetes \ {r}, requete[q].op = "ouverture"
            PROVE  requete[q].pas <= dernierPas'[requete[q].ops]
        <5>1. requete[q].ops \in Ops /\ requete[q].pas \in Nat
          BY <4>1, <1>t, <1>n, ChampsConsole
        <5>2. requete[q].pas <= dernierPas[requete[q].ops]
          BY <1>t, <4>1 DEF PasConsommes
        <5>3. dernierPas'[requete[q].ops] \in Nat
          BY <3>n, <5>1
        <5> QED BY <1>n, <3>5, <5>1, <5>2, <5>3
      <4>2. requete'[r].pas <= dernierPas'[requete'[r].ops]
        <5>p. p \in Nat
          BY <1>n, <2>1
        <5>1. p <= p
          BY <5>p
        <5>2. requete'[r].pas = p /\ requete'[r].ops = o
          BY <3>4, <3>6
        <5> QED BY <3>5, <5>1, <5>2
      <4> QED BY <3>6, <4>1, <4>2
    <3>11. PasConsommes'
      BY <1>t, <2>2, <3>4, <3>6, <3>7, <3>8, <3>9, <3>10 DEF PasConsommes
    <3>12. CodeUneFois'
      BY <1>t, <2>2 DEF CodeUneFois
    <3> QED BY <1>t, <1>j, <2>2, <3>2, <3>3, <3>5, <3>11, <3>12
  <2>4. CASE ~PasNeuf(o, p)
    <3>1. /\ Devient(r, Repondu("OPS_CREDENTIALS_INVALID"))
          /\ dernierPas' = dernierPas
      BY <1>1, <2>o, <2>4 DEF ConsommerPas
    <3>2. Avance(Repondu("OPS_CREDENTIALS_INVALID"))
      BY AvanceReponse DEF CodesOps
    <3>3. \A q \in Requetes : requete'[q].op = "ouverture" => requete'[q] = requete[q]
      BY <1>t, <3>1, <3>2 DEF Devient, Avance
    <3>4. PasConsommes' /\ CodeUneFois'
      BY <1>t, <2>2, <3>1, <3>3 DEF PasConsommes, CodeUneFois
    <3> QED BY <1>t, <1>j, <2>2, <3>1, <3>2, <3>4 DEF Avance
  <2> QED BY <2>3, <2>4
<1>2. ASSUME NEW r \in Requetes, OuvrirSession(r)
      PROVE  But
  <2>o. PICK o, p : o = requete[r].ops /\ p = requete[r].pas
    OBVIOUS
  <2> DEFINE l == [ops |-> o, pas |-> p, fin |-> horloge + SESSION_PAS,
                   revoquee |-> FALSE]
             n == Len(sessions) + 1
  <2>1. /\ o \in Ops /\ p \in Pas
        /\ requete[r] = [op |-> "ouverture", ops |-> o, pas |-> p]
    BY <1>2, <1>t, <2>o, ChampsConsole DEF OuvrirSession
  <2>2. /\ UNCHANGED <<comptes, horloge, dernierPas, actifs, journal>>
        /\ sessions' = Append(sessions, l)
        /\ Devient(r, Repondu("OPS_AUTHENTICATED"))
    BY <1>2, <2>o DEF OuvrirSession, InsererSession, journalOps
  <2>3. l \in LignesSessionOps /\ l.ops = o /\ l.pas = p
    BY <1>n, <1>t, <2>1 DEF LignesSessionOps
  <2> HIDE DEF l
  <2>4. /\ sessions' \in Seq(LignesSessionOps)
        /\ Len(sessions') = n
        /\ sessions'[n] = l
        /\ \A i \in 1..Len(sessions) : sessions'[i] = sessions[i]
    BY <1>t, <2>2, <2>3
  <2>5. Avance(Repondu("OPS_AUTHENTICATED"))
    BY AvanceReponse DEF CodesOps
  <2>6. /\ requete'[r].op # "ouverture"
        /\ \A q \in Requetes : requete'[q].op = "ouverture"
             => q # r /\ requete'[q] = requete[q]
    BY <1>t, <2>2, <2>5 DEF Devient, Avance
  <2>7. /\ p <= dernierPas[o]
        /\ \A i \in 1..Len(sessions) : sessions[i].ops = o => sessions[i].pas # p
        /\ \A q \in Requetes :
             q # r /\ requete[q].op = "ouverture" /\ requete[q].ops = o
               => requete[q].pas # p
    BY <1>t, <2>1 DEF PasConsommes
  <2>8. 1..n = (1..Len(sessions)) \cup {n}
    BY <1>n
  <2>9. \A i \in 1..n :
          \/ i \in 1..Len(sessions) /\ sessions'[i] = sessions[i]
          \/ i = n /\ sessions'[i].ops = o /\ sessions'[i].pas = p
    BY <2>3, <2>4, <2>8
  <2>10. PasConsommes'
    BY <1>t, <2>2, <2>4, <2>6, <2>7, <2>9, SMTT(30) DEF PasConsommes
  <2>11. CodeUneFois'
    BY <1>t, <2>4, <2>7, <2>9, SMTT(30) DEF CodeUneFois
  <2> QED BY <1>t, <1>j, <2>2, <2>4, <2>5, <2>10, <2>11 DEF Avance
<1>3. CASE \A r \in Requetes : ~ConsommerPas(r) /\ ~OuvrirSession(r)
  <2>1. /\ JournalGrandit
        /\ actifs' \subseteq comptes' /\ comptes' \subseteq Ops
        /\ horloge' \in 1..PAS_MAX
        /\ dernierPas' = dernierPas
        /\ sessions' = sessions \/ \E r \in Requetes : DeconnexionOps(r)
        /\ \/ requete' = requete
           \/ \E r \in Requetes, e \in EtatsDeConsole : Devient(r, e) /\ Avance(e)
    BY <1>3, ConsoleCalme
  <2>2. sessions' \in Seq(LignesSessionOps) /\ MemesPas(sessions', sessions)
    BY <1>t, <2>1, DeconnexionGardeLesPas DEF MemesPas
  <2>3. \A q \in Requetes : requete'[q].op = "ouverture" => requete'[q] = requete[q]
    BY <1>t, <2>1 DEF Devient, Avance
  <2>4. PasConsommes' /\ CodeUneFois'
    BY <1>t, <2>1, <2>2, <2>3 DEF PasConsommes, CodeUneFois, MemesPas
  <2> QED BY <1>t, <2>1, <2>2, <2>4 DEF Avance
<1> QED BY <1>1, <1>2, <1>3

LEMMA ConsoleInvNext ==
  ASSUME ConsoleInv, ConsolePas
  PROVE  ConsoleInv'
<1>1. /\ JournalGrandit
      /\ actifs' \subseteq comptes' /\ comptes' \subseteq Ops
      /\ horloge' \in 1..PAS_MAX
      /\ dernierPas' \in [Ops -> Pas \cup {0}]
      /\ sessions' \in Seq(LignesSessionOps)
      /\ \/ requete' = requete
         \/ \E r \in Requetes, e \in EtatsDeConsole : Devient(r, e) /\ Tracee(e)'
      /\ PasConsommes' /\ CodeUneFois'
  BY PasNext
<1>2. JournalOpsOK'
  BY <1>1 DEF JournalGrandit, JournalOpsOK
<1>3. ASSUME NEW e, Tracee(e)
      PROVE  Tracee(e)'
  BY <1>1, <1>3 DEF Tracee, Consigne, JournalGrandit
<1>4. requete' \in [Requetes -> EtatsDeConsole]
  BY <1>1 DEF ConsoleInv, Devient
<1>5. ASSUME NEW q \in Requetes
      PROVE  Tracee(requete[q])'
  <2>1. PICK f : f = requete'[q]
    OBVIOUS
  <2>2. Tracee(f) \/ Tracee(f)'
    BY <1>1, <2>1 DEF ConsoleInv, Devient
  <2> QED BY <1>3, <2>1, <2>2
<1> QED BY <1>1, <1>2, <1>4, <1>5 DEF ConsoleInv

LEMMA ConsoleInvInit ==
  ASSUME AppelsInit, ConsoleInit \/ SessionOuverteInit
  PROVE  ConsoleInv
<1>1. /\ requete \in [Requetes -> EtatsDeConsole]
      /\ \A r \in Requetes : requete[r].op = "repos" /\ Tracee(requete[r])
  BY EtatsAdmis DEF AppelsInit, Repos, Tracee
<1>2. /\ 1 \in 1..PAS_MAX /\ 1 \in Pas /\ Pas \subseteq Nat
      /\ 1 + SESSION_PAS \in Nat
  BY ConsoleAssumption DEF Pas, TOLERANCE_PAS
<1>3. CASE ConsoleInit
  <2>1. sessions = <<>> /\ sessions \in Seq(LignesSessionOps) /\ Len(sessions) = 0
    BY <1>3, EmptySeq DEF ConsoleInit
  <2> QED BY <1>1, <1>2, <1>3, <2>1
          DEF ConsoleInit, ConsoleInv, JournalOpsOK, PasConsommes, CodeUneFois
<1>4. CASE SessionOuverteInit
  <2>1. PICK o \in Ops :
          /\ comptes \in {{o}, Ops}
          /\ actifs = comptes
          /\ journal = {}
          /\ horloge = 1
          /\ dernierPas = [p \in Ops |-> IF p = o THEN 1 ELSE 0]
          /\ sessions = <<[ops |-> o, pas |-> 1, fin |-> 1 + SESSION_PAS,
                           revoquee |-> FALSE]>>
    BY <1>4 DEF SessionOuverteInit
  <2> DEFINE l == [ops |-> o, pas |-> 1, fin |-> 1 + SESSION_PAS, revoquee |-> FALSE]
  <2>2. l \in LignesSessionOps /\ l.ops = o /\ l.pas = 1
    BY <1>2 DEF LignesSessionOps
  <2>3. sessions = <<l>>
    BY <2>1
  <2> HIDE DEF l
  <2>4. /\ sessions \in Seq(LignesSessionOps) /\ Len(sessions) = 1
        /\ sessions[1] = l
    BY <2>2, <2>3
  <2>5. PasConsommes /\ CodeUneFois
    BY <1>1, <2>1, <2>2, <2>4 DEF PasConsommes, CodeUneFois
  <2> QED BY <1>1, <1>2, <2>1, <2>4, <2>5 DEF ConsoleInv, JournalOpsOK
<1> QED BY <1>3, <1>4

-----------------------------------------------------------------------------
\* The record of a provider: its decisions and its other columns.
KycPas == RevueNext \/ FicheNext

EtatsDeKyc == EtatsKyc \cup {Repos}

\* The acts behind a review are in the journal, and a refusal that is closed is
\* closed by another account than the one that proposed it.
RevueFondee(v) ==
  /\ Consigne(v.premier, "KYC_REVIEW")
  /\ v.second # "personne" => Consigne(v.second, "KYC_REVIEW")
  /\ v.decision = "REJECT" => v.premier # v.second

\* What a decision that was recorded has made of the record.
Decidee(decision) ==
  IF decision = "REJECT" THEN fiche.statut = "REJECTED"
                         ELSE fiche.statut \in {"ACTIVE", "SUSPENDED"}

\* What a request carries, from the act it asked for to its answer.
Instruite(e) ==
  /\ e.op \in {"habilitation", "consignation"} /\ e.suite.op = "dossier" =>
       e.suite.ops = e.ops /\ e.geste = "KYC_REVIEW"
  /\ e.op \in {"dossier", "examen"} => Consigne(e.ops, "KYC_REVIEW")
  /\ e.op = "clore" => e.revue.second # "personne" /\ RevueFondee(e.revue)
  /\ e.op = "inserer" => /\ e.revue.decision = "REJECT"
                         /\ e.revue.second = "personne"
                         /\ RevueFondee(e.revue)
  /\ e.op = "repondu" /\ e.code = "REVIEW_RECORDED" => Decidee(e.decision)

\* The record, and what its reviews say of it.
DossierTenu ==
  /\ fiche \in Fiches /\ OrigineCoherente(fiche)
  /\ revues \subseteq Revues
  /\ \A v \in revues : RevueFondee(v) /\ (v \in EnAttente => v.decision = "REJECT")
  /\ \A v, w \in EnAttente : v = w
  /\ \A v, w \in Closes : v = w
  /\ fiche.statut = "PENDING_KYC" => Closes = {}
  /\ fiche.statut = "REJECTED" => \E v \in Closes : v.decision = "REJECT"
  /\ fiche.origine = "OPS_REVIEW" => \E v \in Closes : v.decision = "APPROVE"

KycInv ==
  /\ JournalOpsOK
  /\ requete \in [Requetes -> EtatsDeKyc]
  /\ \A r \in Requetes : Instruite(requete[r])
  /\ DossierTenu

\* A refusal is final, and a provider who is accepted stays so or is suspended.
FicheAvance ==
  /\ fiche.statut = "REJECTED" => fiche'.statut = "REJECTED"
  /\ fiche.statut \in {"ACTIVE", "SUSPENDED"} =>
       fiche'.statut \in {"ACTIVE", "SUSPENDED"}

LEMMA KycInvSuffit == KycInv => KycOK /\ RefusADeux
<1> SUFFICES ASSUME KycInv PROVE KycOK /\ RefusADeux
  OBVIOUS
<1>1. Cardinality(EnAttente) <= 1
  <2>1. CASE EnAttente = {}
    BY <2>1, FS_EmptySet
  <2>2. CASE EnAttente # {}
    <3>1. PICK v : v \in EnAttente
      BY <2>2
    <3>2. EnAttente = {v}
      BY <3>1 DEF KycInv, DossierTenu
    <3>3. Cardinality({v}) = 1
      BY FS_Singleton
    <3> QED BY <3>2, <3>3
  <2> QED BY <2>1, <2>2
<1>2. KycOK
  BY <1>1 DEF KycInv, DossierTenu, KycOK, EtatsDeKyc
<1>3. \A v \in Closes : RevueFondee(v) /\ v.second # "personne"
  BY DEF KycInv, DossierTenu, Closes, EnAttente
<1>4. RefusADeux
  BY <1>3 DEF KycInv, DossierTenu, RefusADeux, RevueFondee, Instruite, Decidee
<1> QED BY <1>2, <1>4

\* What a request carries, according to the step it has reached.
LEMMA ChampsKyc ==
  ASSUME NEW e \in EtatsDeKyc
  PROVE  /\ e.op \in {"habilitation", "consignation"} =>
              e \in GestesDemandes(SuitesKyc)
         /\ e.op = "dossier" => /\ e.ops \in Ops /\ e.decision \in Decisions
                                /\ e.motif \in MotifsRevue
         /\ e.op = "examen" => /\ e.ops \in Ops /\ e.decision \in Decisions
                               /\ e.motif \in MotifsRevue
                               /\ e.lu \in StatutsProvider
         /\ e.op \in {"clore", "inserer"} => e.revue \in Revues
         /\ e.op = "regler" => e.reglage \in Reglages
BY DEF EtatsDeKyc, EtatsKyc, EtatsGeste, SuitesKyc, GestesDemandes, Repos

LEMMA EtatsAdmisKyc ==
  /\ Repos \in EtatsDeKyc
  /\ \A code \in CodesRevue \cup CodesFiche \cup {"FORBIDDEN"} :
       Repondu(code) \in EtatsDeKyc
  /\ \A e \in GestesDemandes(SuitesKyc) \cup SuitesKyc : e \in EtatsDeKyc
  /\ \A o \in Ops, d \in Decisions, m \in MotifsRevue, l \in StatutsProvider :
       [op |-> "examen", ops |-> o, decision |-> d, motif |-> m, lu |-> l]
         \in EtatsDeKyc
  /\ \A v \in Revues : /\ [op |-> "clore", revue |-> v] \in EtatsDeKyc
                       /\ [op |-> "inserer", revue |-> v] \in EtatsDeKyc
  /\ [op |-> "retirer"] \in EtatsDeKyc /\ [op |-> "consulter"] \in EtatsDeKyc
  /\ \A g \in Reglages : [op |-> "regler", reglage |-> g] \in EtatsDeKyc
  /\ \A d \in Decisions :
       [op |-> "repondu", code |-> "REVIEW_RECORDED", decision |-> d] \in EtatsDeKyc
BY DEF EtatsDeKyc, EtatsKyc, EtatsGeste, GestesDemandes, Repondu

\* The states that need no proof of anything.
Anodin(e) ==
  /\ e \in EtatsDeKyc
  /\ \/ e.op \in {"repos", "retirer", "consulter", "regler", "file"}
     \/ e.op = "repondu" /\ e.code # "REVIEW_RECORDED"

LEMMA Anodins ==
  /\ \A code \in CodesRevue \cup CodesFiche \cup {"FORBIDDEN"} : Anodin(Repondu(code))
  /\ Anodin(Repos) /\ Anodin([op |-> "retirer"]) /\ Anodin([op |-> "consulter"])
  /\ \A g \in Reglages : Anodin([op |-> "regler", reglage |-> g])
BY EtatsAdmisKyc DEF Anodin, Repondu, Repos, CodesRevue, CodesFiche

LEMMA AnodinSuffit ==
  ASSUME NEW e, Anodin(e)
  PROVE  e \in EtatsDeKyc /\ Instruite(e)'
BY DEF Anodin, Instruite

\* The acts that touch neither the record nor its reviews.
KycEpargne ==
  /\ JournalGrandit
  /\ actifs' \subseteq Ops
  /\ UNCHANGED kyc
  /\ \/ requete' = requete
     \/ \E r \in Requetes, e \in EtatsDeKyc : Devient(r, e) /\ Instruite(e)'

LEMMA KycAnodin ==
  ASSUME KycInv, NEW r \in Requetes, NEW e, Anodin(e), Devient(r, e),
         UNCHANGED <<kyc, journalOps>>
  PROVE  KycEpargne
<1>1. e \in EtatsDeKyc /\ Instruite(e)'
  BY AnodinSuffit
<1> QED BY <1>1 DEF KycEpargne, KycInv, JournalOpsOK, JournalGrandit, journalOps

\* A reviewer or a reader of the queue: his right, then the journal.
LEMMA KycGeste ==
  ASSUME KycInv, NEW r \in Requetes, LireHabilitation(r) \/ ConsignerGeste(r),
         UNCHANGED kyc
  PROVE  KycEpargne
<1> DEFINE q == requete[r]
<1>t. JournalOpsOK /\ q \in EtatsDeKyc /\ Instruite(q) /\ actifs \subseteq Ops
  BY DEF KycInv, JournalOpsOK
<1>1. /\ q \in GestesDemandes(SuitesKyc)
      /\ q.suite.op = "dossier" => q.suite.ops = q.ops /\ q.geste = "KYC_REVIEW"
  BY <1>t, ChampsKyc DEF LireHabilitation, ConsignerGeste, Instruite
<1>2. CASE LireHabilitation(r)
  <2>1. /\ JournalGrandit
        /\ actifs' = actifs
        /\ \E e \in GestesDemandes(SuitesKyc) \cup {Repondu("FORBIDDEN")} :
             /\ Devient(r, e)
             /\ e.op # "repondu" => /\ e.op = "consignation"
                                    /\ e.ops = q.ops
                                    /\ e.geste = q.geste
                                    /\ e.suite = q.suite
    BY <1>t, <1>1, <1>2, HabilitationLue
  <2>2. PICK e \in GestesDemandes(SuitesKyc) \cup {Repondu("FORBIDDEN")} :
          /\ Devient(r, e)
          /\ e.op # "repondu" => /\ e.op = "consignation"
                                 /\ e.ops = q.ops
                                 /\ e.geste = q.geste
                                 /\ e.suite = q.suite
    BY <2>1
  <2>3. e \in EtatsDeKyc /\ Instruite(e)'
    <3>1. CASE e.op # "repondu"
      <4>1. e \in GestesDemandes(SuitesKyc)
        BY <2>2, <3>1 DEF Repondu
      <4> QED BY <1>1, <2>2, <3>1, <4>1, EtatsAdmisKyc DEF Instruite
    <3>2. CASE e.op = "repondu"
      <4>1. e = Repondu("FORBIDDEN")
        BY <2>2, <3>2 DEF GestesDemandes
      <4>2. Anodin(e)
        BY <4>1, Anodins
      <4> QED BY <4>2, AnodinSuffit
    <3> QED BY <3>1, <3>2
  <2> QED BY <1>t, <2>1, <2>2, <2>3 DEF KycEpargne
<1>3. CASE ConsignerGeste(r)
  <2>1. PICK e : e = q.suite
    OBVIOUS
  <2>2. /\ JournalGrandit
        /\ actifs' = actifs
        /\ e \in SuitesKyc
        /\ Devient(r, e)
        /\ [ops |-> q.ops, geste |-> q.geste, refuse |-> FALSE] \in journal'
    BY <1>t, <1>1, <1>3, <2>1, GesteConsigne
  <2>3. e.op = "dossier" => Consigne(e.ops, "KYC_REVIEW")'
    BY <1>1, <2>1, <2>2 DEF Consigne
  <2>4. e.op \in {"file", "dossier"}
    BY <2>2 DEF SuitesKyc
  <2>5. e \in EtatsDeKyc /\ Instruite(e)'
    BY <2>2, <2>3, <2>4, EtatsAdmisKyc DEF Instruite
  <2> QED BY <1>t, <2>2, <2>5 DEF KycEpargne
<1> QED BY <1>2, <1>3

\* What a reviewer decides when a refusal waits, and when none does.
LEMMA DecisionFondee ==
  ASSUME KycInv, NEW o \in Ops, NEW d \in Decisions, NEW m \in MotifsRevue,
         NEW l \in StatutsProvider, Consigne(o, "KYC_REVIEW"), UNCHANGED journal
  PROVE  /\ \A v \in EnAttente : /\ Confirmation(o, d, v) \in EtatsDeKyc
                                 /\ Instruite(Confirmation(o, d, v))'
         /\ Proposition(o, d, m, l) \in EtatsDeKyc
         /\ Instruite(Proposition(o, d, m, l))'
<1>o. o # "personne"
  BY OpsAssumption
<1>c. Consigne(o, "KYC_REVIEW")'
  BY DEF Consigne
<1>1. ASSUME NEW v \in EnAttente
      PROVE  /\ Confirmation(o, d, v) \in EtatsDeKyc
             /\ Instruite(Confirmation(o, d, v))'
  <2> DEFINE w == [decision |-> "REJECT", premier |-> v.premier, second |-> o]
             e == [op |-> "clore", revue |-> w]
  <2>1. /\ v \in Revues /\ v.decision = "REJECT" /\ Consigne(v.premier, "KYC_REVIEW")
    BY DEF KycInv, DossierTenu, EnAttente, RevueFondee
  <2>2. [v EXCEPT !.second = o] = w /\ w \in Revues
    BY <2>1 DEF Revues, Decisions
  <2>3. CASE d = "APPROVE" \/ v.premier = o
    <3>1. \E code \in CodesRevue : Confirmation(o, d, v) = Repondu(code)
      BY <2>3 DEF Confirmation, CodesRevue
    <3>2. Anodin(Confirmation(o, d, v))
      BY <3>1, Anodins
    <3> QED BY <3>2, AnodinSuffit
  <2>4. CASE d # "APPROVE" /\ v.premier # o
    <3>1. Confirmation(o, d, v) = e
      BY <2>2, <2>4 DEF Confirmation
    <3>2. e \in EtatsDeKyc
      BY <2>2, EtatsAdmisKyc
    <3>3. Consigne(v.premier, "KYC_REVIEW")'
      BY <2>1 DEF Consigne
    <3>4. RevueFondee(w)'
      BY <1>c, <2>4, <3>3 DEF RevueFondee
    <3>5. Instruite(e)'
      BY <1>o, <3>4 DEF Instruite
    <3> QED BY <3>1, <3>2, <3>5
  <2> QED BY <2>3, <2>4
<1>2. /\ Proposition(o, d, m, l) \in EtatsDeKyc
      /\ Instruite(Proposition(o, d, m, l))'
  <2> DEFINE a == [decision |-> d, premier |-> o, second |-> o]
             p == [decision |-> d, premier |-> o, second |-> "personne"]
  <2>1. CASE l # "PENDING_KYC" \/ RefusDeMotif(d, m) # "aucun"
    <3>1. \E code \in CodesRevue : Proposition(o, d, m, l) = Repondu(code)
      BY <2>1 DEF Proposition, PlusEnAttente, RefusDeMotif, CodesRevue
    <3>2. Anodin(Proposition(o, d, m, l))
      BY <3>1, Anodins
    <3> QED BY <3>2, AnodinSuffit
  <2>2. CASE l = "PENDING_KYC" /\ RefusDeMotif(d, m) = "aucun" /\ d = "APPROVE"
    <3>1. Proposition(o, d, m, l) = [op |-> "clore", revue |-> a]
      BY <2>2 DEF Proposition
    <3>2. a \in Revues
      BY DEF Revues
    <3>3. [op |-> "clore", revue |-> a] \in EtatsDeKyc
      BY <3>2, EtatsAdmisKyc
    <3>4. RevueFondee(a)'
      BY <1>c, <2>2 DEF RevueFondee
    <3>5. Instruite([op |-> "clore", revue |-> a])'
      BY <1>o, <3>4 DEF Instruite
    <3> QED BY <3>1, <3>3, <3>5
  <2>3. CASE l = "PENDING_KYC" /\ RefusDeMotif(d, m) = "aucun" /\ d # "APPROVE"
    <3>1. Proposition(o, d, m, l) = [op |-> "inserer", revue |-> p]
      BY <2>3 DEF Proposition
    <3>2. p \in Revues /\ d = "REJECT"
      BY <2>3 DEF Revues, Decisions
    <3>3. [op |-> "inserer", revue |-> p] \in EtatsDeKyc
      BY <3>2, EtatsAdmisKyc
    <3>4. RevueFondee(p)'
      BY <1>c, <1>o DEF RevueFondee
    <3>5. Instruite([op |-> "inserer", revue |-> p])'
      BY <3>2, <3>4 DEF Instruite
    <3> QED BY <3>1, <3>3, <3>5
  <2> QED BY <2>1, <2>2, <2>3
<1> QED BY <1>1, <1>2

\* The file is closed: nothing was, and nothing else can be any more.
LEMMA DossierClos ==
  ASSUME KycInv, NEW r \in Requetes, Clore(r)
  PROVE  /\ DossierTenu' /\ FicheAvance
         /\ UNCHANGED <<actifs, journal>>
         /\ \E e \in EtatsDeKyc : Devient(r, e) /\ Instruite(e)'
<1> DEFINE f == fiche
<1>v. PICK v : v = requete[r].revue
  OBVIOUS
<1> DEFINE e == [op |-> "repondu", code |-> "REVIEW_RECORDED", decision |-> v.decision]
           attente == [v EXCEPT !.second = "personne"]
<1>1. /\ v \in Revues /\ v.second # "personne" /\ RevueFondee(v)
      /\ v.decision \in Decisions
  <2>1. requete[r] \in EtatsDeKyc /\ Instruite(requete[r]) /\ requete[r].op = "clore"
    BY DEF KycInv, Clore
  <2>2. v \in Revues
    BY <1>v, <2>1, ChampsKyc
  <2> QED BY <1>v, <2>1, <2>2 DEF Instruite, Revues
<1>2. /\ fiche.statut = "PENDING_KYC"
      /\ fiche' = [fiche EXCEPT
                     !.statut = StatutResultant(v.decision),
                     !.origine = IF v.decision = "APPROVE"
                                   THEN "OPS_REVIEW" ELSE fiche.origine]
      /\ revues' = (revues \ {attente}) \cup {v}
      /\ Devient(r, e)
      /\ UNCHANGED <<actifs, journal>>
  BY <1>v DEF Clore, EncoreEnAttente, journalOps
<1>3. DossierTenu /\ fiche \in Fiches /\ OrigineCoherente(fiche) /\ Closes = {}
  BY <1>2 DEF KycInv, DossierTenu
<1>4. /\ fiche' \in Fiches
      /\ fiche'.statut = StatutResultant(v.decision)
      /\ fiche'.origine = IF v.decision = "APPROVE" THEN "OPS_REVIEW" ELSE "aucune"
  <2>1. fiche.origine = "aucune"
    BY <1>2, <1>3 DEF OrigineCoherente
  <2>2. StatutResultant(v.decision) \in StatutsProvider
    BY DEF StatutResultant, StatutsProvider
  <2>3. fiche'.statut = StatutResultant(v.decision)
    BY <1>2, <1>3 DEF Fiches
  <2>4. fiche'.origine = IF v.decision = "APPROVE" THEN "OPS_REVIEW" ELSE "aucune"
    BY <1>2, <1>3, <2>1 DEF Fiches
  <2> DEFINE s == StatutResultant(v.decision)
             n == IF v.decision = "APPROVE" THEN "OPS_REVIEW" ELSE "aucune"
  <2>5. fiche' \in Fiches
    <3>1. s \in StatutsProvider \cup {"ABSENT"} /\ n \in Origines \cup {"aucune"}
      BY <2>2 DEF Origines
    <3>2. fiche' = [fiche EXCEPT !.statut = s, !.origine = n]
      BY <1>2, <2>1
    <3> HIDE DEF s, n
    <3> QED BY <1>3, <3>1, <3>2 DEF Fiches
  <2> QED BY <2>3, <2>4, <2>5
<1>5. /\ \A w \in revues : w.second = "personne"
      /\ \A w \in revues' : w = v \/ w \in revues
  BY <1>2, <1>3 DEF Closes, EnAttente
<1>6. Closes' = {v}
  BY <1>1, <1>2, <1>5 DEF Closes, EnAttente
<1>7. EnAttente' \subseteq EnAttente
  BY <1>1, <1>5 DEF EnAttente
<1>8. \A w \in revues' : RevueFondee(w)'
  <2>1. ASSUME NEW w, RevueFondee(w)
        PROVE  RevueFondee(w)'
    BY <1>2, <2>1 DEF RevueFondee, Consigne
  <2> QED BY <1>1, <1>3, <1>5, <2>1 DEF DossierTenu
<1>9. \A w \in revues' : w \in EnAttente' => w.decision = "REJECT"
  BY <1>3, <1>7 DEF DossierTenu, EnAttente
<1>10. DossierTenu'
  <2>1. OrigineCoherente(fiche')
    BY <1>1, <1>4 DEF OrigineCoherente, StatutResultant, Decisions
  <2>2. /\ fiche'.statut # "PENDING_KYC"
        /\ fiche'.statut = "REJECTED" => v.decision = "REJECT"
        /\ fiche'.origine = "OPS_REVIEW" => v.decision = "APPROVE"
    <3>1. CASE v.decision = "APPROVE"
      BY <1>4, <3>1 DEF StatutResultant
    <3>2. CASE v.decision # "APPROVE"
      <4>1. fiche'.statut = "REJECTED" /\ fiche'.origine = "aucune"
        BY <1>4, <3>2 DEF StatutResultant
      <4> QED BY <1>1, <3>2, <4>1 DEF Decisions
    <3> QED BY <3>1, <3>2
  <2>3. revues' \subseteq Revues
    BY <1>1, <1>3, <1>5 DEF DossierTenu
  <2>4. \A w, x \in EnAttente' : w = x
    BY <1>3, <1>7 DEF DossierTenu
  <2> QED BY <1>4, <1>6, <1>8, <1>9, <2>1, <2>2, <2>3, <2>4 DEF DossierTenu
<1>11. e \in EtatsDeKyc
  BY <1>1, EtatsAdmisKyc
<1>12. Instruite(e)'
  BY <1>1, <1>4 DEF Instruite, Decidee, StatutResultant, Decisions
<1> QED BY <1>2, <1>10, <1>11, <1>12 DEF FicheAvance

\* A refusal is proposed: the record itself is not read again.
LEMMA RevueInseree ==
  ASSUME KycInv, NEW r \in Requetes, InsererRevue(r)
  PROVE  /\ DossierTenu' /\ FicheAvance
         /\ UNCHANGED <<actifs, journal>>
         /\ \E e \in EtatsDeKyc : Devient(r, e) /\ Instruite(e)'
<1>v. PICK v : v = requete[r].revue
  OBVIOUS
<1>1. /\ v \in Revues /\ v.second = "personne" /\ RevueFondee(v)
      /\ v.decision = "REJECT"
  <2>1. requete[r] \in EtatsDeKyc /\ Instruite(requete[r]) /\ requete[r].op = "inserer"
    BY DEF KycInv, InsererRevue
  <2>2. v \in Revues
    BY <1>v, <2>1, ChampsKyc
  <2> QED BY <1>v, <2>1, <2>2 DEF Instruite
<1>2. /\ UNCHANGED <<fiche, actifs, journal>>
      /\ \/ EnAttente = {} /\ revues' = revues \cup {v}
         \/ UNCHANGED revues
      /\ \E code \in CodesRevue : Devient(r, Repondu(code))
  BY <1>v DEF InsererRevue, journalOps, CodesRevue
<1>3. \E e \in EtatsDeKyc : Devient(r, e) /\ Instruite(e)'
  BY <1>2, Anodins, AnodinSuffit
<1>4. DossierTenu
  BY DEF KycInv
<1>5. \A w : RevueFondee(w) => RevueFondee(w)'
  BY <1>2 DEF RevueFondee, Consigne
<1>6. CASE UNCHANGED revues
  <2>1. EnAttente' = EnAttente /\ Closes' = Closes
    BY <1>6 DEF Closes, EnAttente
  <2>2. DossierTenu'
    BY <1>2, <1>4, <1>5, <1>6, <2>1 DEF DossierTenu
  <2> QED BY <1>2, <1>3, <2>2 DEF FicheAvance
<1>7. CASE EnAttente = {} /\ revues' = revues \cup {v}
  <2>1. EnAttente' = {v}
    BY <1>1, <1>7 DEF EnAttente
  <2>2. Closes' = Closes
    BY <1>1, <1>7 DEF Closes, EnAttente
  <2>3. /\ revues' \subseteq Revues
        /\ \A w \in revues' : RevueFondee(w)' /\ (w \in EnAttente' => w.decision = "REJECT")
    BY <1>1, <1>4, <1>5, <1>7, <2>1 DEF DossierTenu
  <2>4. DossierTenu'
    BY <1>2, <1>4, <2>1, <2>2, <2>3 DEF DossierTenu
  <2> QED BY <1>2, <1>3, <2>4 DEF FicheAvance
<1> QED BY <1>2, <1>6, <1>7

\* A step that leaves the reviews alone: the other columns move, the status only
\* along the ways out of a state that no review has closed.
LEMMA DossierInchange ==
  ASSUME DossierTenu, UNCHANGED revues, JournalGrandit,
         fiche' \in Fiches, OrigineCoherente(fiche)',
         FicheAvance,
         fiche'.statut \in {"PENDING_KYC", "REJECTED"} => fiche'.statut = fiche.statut,
         fiche'.origine = "OPS_REVIEW" => fiche.origine = "OPS_REVIEW"
  PROVE  DossierTenu'
<1>1. EnAttente' = EnAttente /\ Closes' = Closes
  BY DEF Closes, EnAttente
<1>2. \A w : RevueFondee(w) => RevueFondee(w)'
  BY DEF RevueFondee, Consigne, JournalGrandit
<1> QED BY <1>1, <1>2 DEF DossierTenu

\* The suspension, the demonstration, the withdrawal and the settings.
LEMMA FicheBouge ==
  ASSUME KycInv,
         \/ Suspendre \/ CreerDemonstration \/ OuvrirDemonstration
         \/ \E r \in Requetes : Retirer(r) \/ Regler(r)
  PROVE  /\ DossierTenu' /\ FicheAvance
         /\ UNCHANGED <<actifs, journal>>
         /\ \/ requete' = requete
            \/ \E r \in Requetes, e \in EtatsDeKyc : Devient(r, e) /\ Instruite(e)'
<1>t. /\ DossierTenu /\ fiche \in Fiches /\ OrigineCoherente(fiche)
      /\ journal \subseteq Gestes
      /\ \A r \in Requetes : requete[r] \in EtatsDeKyc
  BY DEF KycInv, DossierTenu, JournalOpsOK
<1>1. /\ UNCHANGED <<revues, actifs, journal>>
      /\ JournalGrandit
  BY <1>t DEF Suspendre, CreerDemonstration, OuvrirDemonstration, Retirer, Regler,
              journalOps, JournalGrandit
<1>2. \/ requete' = requete
      \/ \E r \in Requetes, e \in EtatsDeKyc : Devient(r, e) /\ Instruite(e)'
  <2>1. ASSUME NEW r \in Requetes, NEW e, Anodin(e), Devient(r, e)
        PROVE  \E q \in Requetes, f \in EtatsDeKyc : Devient(q, f) /\ Instruite(f)'
    BY <2>1, AnodinSuffit
  <2>2. ASSUME NEW r \in Requetes, Retirer(r)
        PROVE  \E e : Anodin(e) /\ Devient(r, e)
    BY <2>2, Anodins DEF Retirer, CodesFiche
  <2>3. ASSUME NEW r \in Requetes, Regler(r)
        PROVE  \E e : Anodin(e) /\ Devient(r, e)
    <3>1. requete[r].reglage \in Reglages
      BY <1>t, <2>3, ChampsKyc DEF Regler
    <3>2. PICK g \in Reglages :
            g = [rayon |-> "aucun", service |-> requete[r].reglage.service]
      BY <3>1 DEF Reglages
    <3> QED BY <2>3, <3>2, Anodins DEF Regler
  <2> QED BY <2>1, <2>2, <2>3
          DEF Suspendre, CreerDemonstration, OuvrirDemonstration
<1>3. /\ fiche' \in Fiches
      /\ FicheAvance
      /\ fiche'.statut \in {"PENDING_KYC", "REJECTED"} => fiche'.statut = fiche.statut
      /\ fiche'.origine = "OPS_REVIEW" => fiche.origine = "OPS_REVIEW"
      /\ OrigineCoherente(fiche')
  <2> DEFINE But ==
        /\ fiche' \in Fiches
        /\ FicheAvance
        /\ fiche'.statut \in {"PENDING_KYC", "REJECTED"} => fiche'.statut = fiche.statut
        /\ fiche'.origine = "OPS_REVIEW" => fiche.origine = "OPS_REVIEW"
        /\ OrigineCoherente(fiche')
  <2>1. CASE Suspendre
    <3>1. /\ fiche.statut = "ACTIVE"
          /\ fiche' = [fiche EXCEPT !.statut = "SUSPENDED"]
      BY <2>1 DEF Suspendre
    <3>2. /\ fiche' \in Fiches /\ fiche'.statut = "SUSPENDED"
          /\ fiche'.origine = fiche.origine
      BY <1>t, <3>1 DEF Fiches, StatutsProvider
    <3> QED BY <1>t, <3>1, <3>2 DEF FicheAvance, OrigineCoherente
  <2>2. CASE CreerDemonstration
    <3>1. /\ fiche.statut = "ABSENT"
          /\ fiche' = [fiche EXCEPT !.statut = "ACTIVE", !.origine = "DEMONSTRATION"]
      BY <2>2 DEF CreerDemonstration
    <3>2. /\ fiche' \in Fiches /\ fiche'.statut = "ACTIVE"
          /\ fiche'.origine = "DEMONSTRATION"
      BY <1>t, <3>1 DEF Fiches, StatutsProvider, Origines
    <3> QED BY <1>t, <3>1, <3>2 DEF FicheAvance, OrigineCoherente
  <2>3. ASSUME fiche' \in Fiches, fiche'.statut = fiche.statut,
               fiche'.origine = fiche.origine
        PROVE  /\ FicheAvance
               /\ OrigineCoherente(fiche')
    BY <1>t, <2>3 DEF FicheAvance, OrigineCoherente
  <2>4. CASE OuvrirDemonstration
    <3>1. fiche' = [fiche EXCEPT !.disponible = TRUE]
      BY <2>4 DEF OuvrirDemonstration
    <3>2. /\ fiche' \in Fiches /\ fiche'.statut = fiche.statut
          /\ fiche'.origine = fiche.origine
      BY <1>t, <3>1 DEF Fiches
    <3> QED BY <2>3, <3>2
  <2>5. ASSUME NEW r \in Requetes, Retirer(r)
        PROVE  But
    <3>1. CASE UNCHANGED fiche
      BY <1>t, <2>3, <3>1
    <3>2. CASE ~UNCHANGED fiche
      <4>1. /\ fiche.statut = "PENDING_KYC"
            /\ fiche' = [fiche EXCEPT !.statut = "WITHDRAWN"]
        BY <2>5, <3>2 DEF Retirer
      <4>2. /\ fiche' \in Fiches /\ fiche'.statut = "WITHDRAWN"
            /\ fiche'.origine = fiche.origine
        BY <1>t, <4>1 DEF Fiches, StatutsProvider
      <4> QED BY <1>t, <4>1, <4>2 DEF FicheAvance, OrigineCoherente
    <3> QED BY <3>1, <3>2
  <2>6. ASSUME NEW r \in Requetes, Regler(r)
        PROVE  But
    <3>1. CASE requete[r].reglage.rayon # "aucun"
      <4>1. fiche' = [fiche EXCEPT !.rayon = "choisi"]
        BY <2>6, <3>1 DEF Regler
      <4>2. /\ fiche' \in Fiches /\ fiche'.statut = fiche.statut
            /\ fiche'.origine = fiche.origine
        BY <1>t, <4>1 DEF Fiches
      <4> QED BY <2>3, <4>2
    <3>2. CASE requete[r].reglage.rayon = "aucun" /\ fiche' = fiche
      BY <1>t, <2>3, <3>2
    <3>3. CASE requete[r].reglage.rayon = "aucun" /\ fiche' # fiche
      <4> DEFINE d == requete[r].reglage.service = "disponible"
      <4>1. fiche' = [fiche EXCEPT !.disponible = d]
        BY <2>6, <3>3 DEF Regler
      <4>2. d \in BOOLEAN
        OBVIOUS
      <4> HIDE DEF d
      <4>3. /\ fiche' \in Fiches /\ fiche'.statut = fiche.statut
            /\ fiche'.origine = fiche.origine
        BY <1>t, <4>1, <4>2 DEF Fiches
      <4> QED BY <2>3, <4>3
    <3> QED BY <3>1, <3>2, <3>3
  <2> QED BY <2>1, <2>2, <2>4, <2>5, <2>6
<1>4. DossierTenu'
  BY <1>t, <1>1, <1>3, DossierInchange DEF OrigineCoherente
<1> QED BY <1>1, <1>2, <1>3, <1>4

LEMMA KycNext ==
  ASSUME KycInv, KycPas
  PROVE  /\ JournalGrandit
         /\ actifs' \subseteq Ops
         /\ FicheAvance
         /\ \/ requete' = requete
            \/ \E r \in Requetes, e \in EtatsDeKyc : Devient(r, e) /\ Instruite(e)'
         /\ DossierTenu'
<1> DEFINE But ==
         /\ JournalGrandit
         /\ actifs' \subseteq Ops
         /\ FicheAvance
         /\ \/ requete' = requete
            \/ \E r \in Requetes, e \in EtatsDeKyc : Devient(r, e) /\ Instruite(e)'
         /\ DossierTenu'
<1>t. /\ JournalOpsOK /\ journal \subseteq Gestes /\ actifs \subseteq Ops
      /\ DossierTenu
      /\ fiche \in Fiches /\ OrigineCoherente(fiche)
      /\ \A r \in Requetes : requete[r] \in EtatsDeKyc /\ Instruite(requete[r])
  BY DEF KycInv, JournalOpsOK, DossierTenu
\* The acts that spare the record.
<1>a. ASSUME KycEpargne
      PROVE  But
  <2>1. UNCHANGED <<fiche, revues>> /\ JournalGrandit
    BY <1>a DEF KycEpargne, kyc
  <2>2. FicheAvance /\ fiche' \in Fiches /\ OrigineCoherente(fiche)'
    BY <1>t, <2>1 DEF FicheAvance, OrigineCoherente
  <2>3. DossierTenu'
    BY <1>t, <2>1, <2>2, DossierInchange
  <2> QED BY <1>a, <2>1, <2>2, <2>3 DEF KycEpargne
\* The others write nothing in the journal.
<1>b. ASSUME DossierTenu', FicheAvance, UNCHANGED <<actifs, journal>>,
             \/ requete' = requete
             \/ \E r \in Requetes, e \in EtatsDeKyc : Devient(r, e) /\ Instruite(e)'
      PROVE  But
  BY <1>b, <1>t DEF JournalGrandit
<1>c. ASSUME NEW r \in Requetes, NEW e, Anodin(e), Devient(r, e),
             UNCHANGED <<kyc, journalOps>>
      PROVE  But
  <2>1. KycEpargne
    BY <1>c, KycAnodin
  <2> QED BY <1>a, <2>1
<1>d. ASSUME NEW r \in Requetes, NEW e \in EtatsDeKyc, Instruite(e)', Devient(r, e),
             UNCHANGED <<kyc, journalOps>>
      PROVE  But
  <2>1. KycEpargne
    BY <1>d, <1>t DEF KycEpargne, JournalGrandit, journalOps
  <2> QED BY <1>a, <2>1
<1>1. CASE Suspendre \/ CreerDemonstration \/ OuvrirDemonstration
  BY <1>1, <1>b, FicheBouge
<1>2. ASSUME NEW o \in Ops, RevoquerInactif(o), UNCHANGED kyc
      PROVE  But
  <2>1. KycEpargne
    BY <1>2, <1>t DEF RevoquerInactif, KycEpargne, JournalGrandit
  <2> QED BY <1>a, <2>1
<1>3. ASSUME NEW r \in Requetes, Interrompre(r), UNCHANGED <<kyc, journalOps>>
      PROVE  But
  BY <1>3, <1>c, Anodins DEF Interrompre
<1>4. ASSUME NEW r \in Requetes, LireHabilitation(r) \/ ConsignerGeste(r),
             UNCHANGED kyc
      PROVE  But
  BY <1>4, <1>a, KycGeste
<1>5. ASSUME NEW r \in Requetes, NEW o \in Ops, NEW suite \in SuitesKyc,
             DemanderGeste(r, o, "KYC_REVIEW", suite), UNCHANGED kyc,
             suite.op = "dossier" => suite.ops = o
      PROVE  But
  <2> DEFINE e == [op |-> "habilitation", ops |-> o, geste |-> "KYC_REVIEW",
                   suite |-> suite]
  <2>1. e \in GestesDemandes(SuitesKyc)
    BY DEF GestesDemandes, Permissions
  <2>2. e \in EtatsDeKyc /\ Instruite(e)'
    BY <1>5, <2>1, EtatsAdmisKyc DEF Instruite
  <2>3. Devient(r, e) /\ UNCHANGED <<kyc, journalOps>>
    BY <1>5 DEF DemanderGeste
  <2> HIDE DEF e
  <2> QED BY <1>d, <2>2, <2>3
<1>6. ASSUME NEW r \in Requetes, LireDossier(r)
      PROVE  But
  <2>q. PICK o, d, m : o = requete[r].ops /\ d = requete[r].decision /\ m = requete[r].motif
    OBVIOUS
  <2>1. /\ o \in Ops /\ d \in Decisions /\ m \in MotifsRevue
        /\ Consigne(o, "KYC_REVIEW")
        /\ UNCHANGED <<kyc, journalOps>>
    BY <1>6, <1>t, <2>q, ChampsKyc DEF LireDossier, Instruite
  <2>2. CASE fiche.statut = "ABSENT"
    <3>1. Devient(r, Repondu("PROVIDER_NOT_FOUND")) /\ Anodin(Repondu("PROVIDER_NOT_FOUND"))
      BY <1>6, <2>2, Anodins DEF LireDossier, CodesRevue
    <3> QED BY <1>c, <2>1, <3>1
  <2>3. CASE fiche.statut # "ABSENT"
    <3>l. PICK l : l = fiche.statut
      OBVIOUS
    <3> DEFINE e == [op |-> "examen", ops |-> o, decision |-> d, motif |-> m, lu |-> l]
    <3>1. Devient(r, e)
      BY <1>6, <2>3, <2>q, <3>l DEF LireDossier
    <3>2. l \in StatutsProvider
      BY <1>t, <2>3, <3>l DEF Fiches
    <3>3. Consigne(o, "KYC_REVIEW")'
      BY <2>1 DEF Consigne, journalOps
    <3>4. e \in EtatsDeKyc /\ Instruite(e)'
      BY <2>1, <3>2, <3>3, EtatsAdmisKyc DEF Instruite
    <3> HIDE DEF e
    <3> QED BY <1>d, <2>1, <3>1, <3>4
  <2> QED BY <2>2, <2>3
<1>7. ASSUME NEW r \in Requetes, LireEnAttente(r)
      PROVE  But
  <2>q. PICK o, d, m, l : /\ o = requete[r].ops /\ d = requete[r].decision
                          /\ m = requete[r].motif /\ l = requete[r].lu
    OBVIOUS
  <2>1. /\ o \in Ops /\ d \in Decisions /\ m \in MotifsRevue
        /\ l \in StatutsProvider
        /\ Consigne(o, "KYC_REVIEW")
        /\ UNCHANGED <<kyc, journalOps>> /\ UNCHANGED journal
    BY <1>7, <1>t, <2>q, ChampsKyc DEF LireEnAttente, Instruite, journalOps
  <2>2. /\ \A v \in EnAttente : /\ Confirmation(o, d, v) \in EtatsDeKyc
                                /\ Instruite(Confirmation(o, d, v))'
        /\ Proposition(o, d, m, l) \in EtatsDeKyc
        /\ Instruite(Proposition(o, d, m, l))'
    BY <2>1, DecisionFondee
  <2>3. \/ \E v \in EnAttente : Devient(r, Confirmation(o, d, v))
        \/ Devient(r, Proposition(o, d, m, l))
    BY <1>7, <2>q DEF LireEnAttente
  <2>4. \E e \in EtatsDeKyc : Instruite(e)' /\ Devient(r, e)
    BY <2>2, <2>3
  <2> QED BY <1>d, <2>1, <2>4
<1>8. ASSUME NEW r \in Requetes, Clore(r) \/ InsererRevue(r)
      PROVE  But
  BY <1>8, <1>b, DossierClos, RevueInseree
<1>9. ASSUME NEW r \in Requetes, CloreTropTard(r)
      PROVE  But
  <2>1. \E code \in CodesRevue : Devient(r, Repondu(code))
    BY <1>9 DEF CloreTropTard, PlusEnAttente, CodesRevue
  <2>2. \E e : Anodin(e) /\ Devient(r, e)
    BY <2>1, Anodins
  <2> QED BY <1>9, <1>c, <2>2 DEF CloreTropTard
<1>10. ASSUME NEW r \in Requetes, ReviserKyc(r)
       PROVE  But
  <2>1. ASSUME NEW o \in Ops, NEW d \in Decisions, NEW m \in MotifsRevue,
               DemanderGeste(r, o, "KYC_REVIEW",
                 [op |-> "dossier", ops |-> o, decision |-> d, motif |-> m]),
               UNCHANGED kyc
        PROVE  But
    <3>1. [op |-> "dossier", ops |-> o, decision |-> d, motif |-> m] \in SuitesKyc
      BY DEF SuitesKyc
    <3> QED BY <1>5, <2>1, <3>1
  <2> QED BY <1>10, <1>4, <1>6, <1>7, <1>8, <1>9, <2>1 DEF ReviserKyc, Decider
<1>11. ASSUME NEW r \in Requetes, FileKyc(r)
       PROVE  But
  <2>1. ASSUME NEW o \in Ops, DemanderGeste(r, o, "KYC_REVIEW", [op |-> "file"]),
               UNCHANGED kyc
        PROVE  But
    <3>1. [op |-> "file"] \in SuitesKyc
      BY DEF SuitesKyc
    <3> QED BY <1>5, <2>1, <3>1
  <2>2. ASSUME Devient(r, Repondu("KYC_QUEUE")), UNCHANGED <<kyc, journalOps>>
        PROVE  But
    BY <1>c, <2>2, Anodins DEF CodesRevue
  <2> QED BY <1>11, <1>4, <2>1, <2>2 DEF FileKyc, File
<1>12. ASSUME NEW r \in Requetes, RetirerInscription(r)
       PROVE  But
  <2>1. CASE DemanderRetrait(r)
    <3>1. \E e : Anodin(e) /\ Devient(r, e)
      BY <2>1, Anodins DEF DemanderRetrait, CodesRevue
    <3> QED BY <2>1, <1>c, <3>1 DEF DemanderRetrait
  <2>2. CASE Retirer(r)
    BY <2>2, <1>b, FicheBouge
  <2> QED BY <1>12, <2>1, <2>2 DEF RetirerInscription
<1>13. ASSUME NEW r \in Requetes, ReglerDisponibilite(r)
       PROVE  But
  <2>1. ASSUME NEW reglage \in Reglages, DemanderReglage(r, reglage)
        PROVE  But
    <3>1. \E e : Anodin(e) /\ Devient(r, e)
      BY <2>1, Anodins DEF DemanderReglage, CodesFiche
    <3> QED BY <2>1, <1>c, <3>1 DEF DemanderReglage
  <2>2. CASE Regler(r)
    BY <2>2, <1>b, FicheBouge
  <2> QED BY <1>13, <2>1, <2>2 DEF ReglerDisponibilite
<1>14. ASSUME NEW r \in Requetes, LireDisponibilite(r)
       PROVE  But
  <2>1. \E e : Anodin(e) /\ Devient(r, e)
    BY <1>14, Anodins DEF LireDisponibilite, CodesFiche
  <2> QED BY <1>14, <1>c, <2>1 DEF LireDisponibilite
<1> QED BY <1>1, <1>2, <1>3, <1>10, <1>11, <1>12, <1>13, <1>14
        DEF KycPas, RevueNext, FicheNext

LEMMA KycInvNext ==
  ASSUME KycInv, KycPas
  PROVE  KycInv'
<1>1. /\ JournalGrandit
      /\ actifs' \subseteq Ops
      /\ FicheAvance
      /\ \/ requete' = requete
         \/ \E r \in Requetes, e \in EtatsDeKyc : Devient(r, e) /\ Instruite(e)'
      /\ DossierTenu'
  BY KycNext
<1>2. JournalOpsOK'
  BY <1>1 DEF JournalGrandit, JournalOpsOK
<1>3. ASSUME NEW e, Instruite(e)
      PROVE  Instruite(e)'
  BY <1>1, <1>3
  DEF Instruite, Consigne, RevueFondee, Decidee, JournalGrandit, FicheAvance
<1>4. requete' \in [Requetes -> EtatsDeKyc]
  BY <1>1 DEF KycInv, Devient
<1>5. ASSUME NEW q \in Requetes
      PROVE  Instruite(requete[q])'
  <2>1. PICK f : f = requete'[q]
    OBVIOUS
  <2>2. Instruite(f) \/ Instruite(f)'
    BY <1>1, <2>1 DEF KycInv, Devient
  <2> QED BY <1>3, <2>1, <2>2
<1> QED BY <1>1, <1>2, <1>4, <1>5 DEF KycInv

LEMMA KycInvInit ==
  ASSUME AppelsInit, KycInit
  PROVE  KycInv
<1>1. /\ requete \in [Requetes -> EtatsDeKyc]
      /\ \A r \in Requetes : Instruite(requete[r])
  BY EtatsAdmisKyc DEF AppelsInit, Repos, Instruite
<1>2. EnAttente = {} /\ Closes = {}
  BY DEF KycInit, EnAttente, Closes
<1>3. /\ fiche \in Fiches /\ fiche.origine = "aucune"
      /\ fiche.statut \in {"PENDING_KYC", "ABSENT"}
  <2>1. FicheAbsente = [statut |-> "ABSENT", origine |-> "aucune",
                        disponible |-> FALSE, rayon |-> "defaut"]
    <3> DEFINE inscrite == [statut |-> "PENDING_KYC", origine |-> "aucune",
                            disponible |-> FALSE, rayon |-> "defaut"]
    <3>1. FicheAbsente = [inscrite EXCEPT !.statut = "ABSENT"]
      BY DEF FicheAbsente, FicheInscrite
    <3> QED BY <3>1
  <2>2. CASE fiche = FicheAbsente
    BY <2>1, <2>2 DEF Fiches
  <2>3. CASE fiche = FicheInscrite
    BY <2>3 DEF FicheInscrite, Fiches, StatutsProvider
  <2> QED BY <2>2, <2>3 DEF KycInit
<1>4. DossierTenu
  BY <1>2, <1>3 DEF KycInit, DossierTenu, OrigineCoherente
<1> QED BY <1>1, <1>4 DEF KycInit, KycInv, JournalOpsOK

-----------------------------------------------------------------------------
\* A sector of the catalogue.
EtatsDuCatalogue == EtatsCatalogue \cup {Repos}

\* What a request carries, from the act it asked for to its answer.
Proposee(e) ==
  /\ e.op \in {"habilitation", "consignation"} /\ e.suite.op \in Actes =>
       e.suite.ops = e.ops /\ e.geste = "CATALOG_MANAGE"
  /\ e.op \in Actes \cup {"inserer_secteur", "basculer"} =>
       Consigne(e.ops, "CATALOG_MANAGE")
  /\ e.op = "repondu" /\ e.code = "SECTOR_CREATED" => secteur.creePar = e.ops
  /\ e.op = "repondu" /\ e.code = "SECTOR_PUBLISHED" => secteur.publiePar = e.ops

\* The sector, and the accounts that its columns name.
SecteurFonde ==
  /\ secteur \in [statut : StatutsSecteur \cup {"ABSENT"}, creePar : Auteurs,
                  publiePar : Auteurs]
  /\ secteur.creePar # "personne" =>
       /\ Consigne(secteur.creePar, "CATALOG_MANAGE")
       /\ secteur.statut # "DRAFT" =>
            /\ secteur.publiePar \in Ops \ {secteur.creePar}
            /\ Consigne(secteur.publiePar, "CATALOG_MANAGE")
  /\ secteur.statut = "ABSENT" => secteur.creePar = "personne"
  /\ secteur.statut \in {"ABSENT", "DRAFT"} => secteur.publiePar = "personne"

CatalogueInv ==
  /\ JournalOpsOK
  /\ requete \in [Requetes -> EtatsDuCatalogue]
  /\ chantier \in Chantiers
  /\ \A r \in Requetes : Proposee(requete[r])
  /\ SecteurFonde

\* Who created it and who published it are written once.
AuteursGardes ==
  /\ secteur.creePar # "personne" => secteur'.creePar = secteur.creePar
  /\ secteur.publiePar # "personne" => secteur'.publiePar = secteur.publiePar

LEMMA CatalogueInvSuffit == CatalogueInv => CatalogueOK /\ PublieParUnAutre
<1> SUFFICES ASSUME CatalogueInv PROVE CatalogueOK /\ PublieParUnAutre
  OBVIOUS
<1>1. CatalogueOK
  BY DEF CatalogueInv, SecteurFonde, CatalogueOK, EtatsDuCatalogue
<1>2. ASSUME NEW code, StatutCatalogue(code) = 201
      PROVE  code = "SECTOR_CREATED"
  BY <1>2 DEF StatutCatalogue
<1>3. PublieParUnAutre
  BY <1>2 DEF CatalogueInv, SecteurFonde, Proposee, PublieParUnAutre
<1> QED BY <1>1, <1>3

LEMMA ChampsCatalogue ==
  ASSUME NEW e \in EtatsDuCatalogue
  PROVE  /\ e.op \in {"habilitation", "consignation"} =>
              e \in GestesDemandes(SuitesCatalogue)
         /\ e.op \in Actes \cup {"inserer_secteur", "basculer"} => e.ops \in Ops
         /\ e.op = "repondu" /\ e.code \in Faits => e.ops \in Ops
BY DEF EtatsDuCatalogue, EtatsCatalogue, EtatsGeste, SuitesCatalogue, Actes,
       GestesDemandes, Repos, CodesCatalogue, Faits

LEMMA EtatsAdmisCatalogue ==
  /\ Repos \in EtatsDuCatalogue
  /\ \A code \in CodesCatalogue \cup {"FORBIDDEN"} : Repondu(code) \in EtatsDuCatalogue
  /\ \A e \in GestesDemandes(SuitesCatalogue) \cup SuitesCatalogue :
       e \in EtatsDuCatalogue
  /\ \A op \in {"inserer_secteur", "basculer"}, o \in Ops,
        vers \in {"PUBLISHED", "DISABLED", "DRAFT"} :
       [op |-> op, ops |-> o, vers |-> vers] \in EtatsDuCatalogue
  /\ \A b \in BOOLEAN : [op |-> "lire_public", presentee |-> b] \in EtatsDuCatalogue
  /\ \A code \in Faits, o \in Ops :
       [op |-> "repondu", code |-> code, ops |-> o] \in EtatsDuCatalogue
BY DEF EtatsDuCatalogue, EtatsCatalogue, EtatsGeste, GestesDemandes, Repondu

\* The states that need no proof of anything.
Neutre(e) ==
  /\ e \in EtatsDuCatalogue
  /\ \/ e.op \in {"repos", "lire_public", "lister"}
     \/ e.op = "repondu" /\ e.code \notin Faits

LEMMA Neutres ==
  /\ \A code \in CodesCatalogue \cup {"FORBIDDEN"} : Neutre(Repondu(code))
  /\ Neutre(Repos)
  /\ \A b \in BOOLEAN : Neutre([op |-> "lire_public", presentee |-> b])
BY EtatsAdmisCatalogue DEF Neutre, Repondu, Repos, CodesCatalogue, Faits

LEMMA NeutreSuffit ==
  ASSUME NEW e, Neutre(e)
  PROVE  e \in EtatsDuCatalogue /\ Proposee(e)'
BY DEF Neutre, Proposee, Actes, Faits

\* The sector is inserted, published or withdrawn by the one statement that
\* looks again at what was read.
LEMMA SecteurEcrit ==
  ASSUME CatalogueInv, NEW r \in Requetes,
         InsererSecteur(r) \/ PublierEnBase(r) \/ DesactiverEnBase(r)
  PROVE  /\ SecteurFonde' /\ AuteursGardes
         /\ UNCHANGED <<actifs, journal, chantier>>
         /\ \E e \in EtatsDuCatalogue : Devient(r, e) /\ Proposee(e)'
<1>o. PICK o : o = requete[r].ops
  OBVIOUS
<1>t. /\ o \in Ops /\ o # "personne" /\ Consigne(o, "CATALOG_MANAGE")
      /\ UNCHANGED <<actifs, journal, chantier>>
      /\ SecteurFonde
  <2>1. requete[r].op \in {"inserer_secteur", "basculer"}
    BY DEF InsererSecteur, PublierEnBase, DesactiverEnBase
  <2>2. requete[r] \in EtatsDuCatalogue /\ Proposee(requete[r]) /\ SecteurFonde
    BY DEF CatalogueInv
  <2>3. o \in Ops /\ Consigne(o, "CATALOG_MANAGE")
    BY <1>o, <2>1, <2>2, ChampsCatalogue DEF Proposee
  <2>4. UNCHANGED <<actifs, journal, chantier>>
    BY DEF InsererSecteur, PublierEnBase, DesactiverEnBase, journalOps
  <2> QED BY <2>2, <2>3, <2>4, OpsAssumption
<1>c. \A x : Consigne(x, "CATALOG_MANAGE")' <=> Consigne(x, "CATALOG_MANAGE")
  BY <1>t DEF Consigne
<1>f. \A code \in Faits : [op |-> "repondu", code |-> code, ops |-> o] \in EtatsDuCatalogue
  BY <1>t, EtatsAdmisCatalogue
<1>s. secteur \in [statut : StatutsSecteur \cup {"ABSENT"}, creePar : Auteurs,
                   publiePar : Auteurs]
  BY <1>t DEF SecteurFonde
\* Refused: nothing moves.
<1>r. ASSUME NEW code \in CodesCatalogue, Devient(r, Repondu(code)), UNCHANGED secteur
      PROVE  /\ SecteurFonde' /\ AuteursGardes
             /\ \E e \in EtatsDuCatalogue : Devient(r, e) /\ Proposee(e)'
  <2>1. \E e \in EtatsDuCatalogue : Devient(r, e) /\ Proposee(e)'
    BY <1>r, Neutres, NeutreSuffit
  <2> QED BY <1>t, <1>c, <1>r, <2>1 DEF SecteurFonde, AuteursGardes
<1>1. CASE InsererSecteur(r)
  <2>1. CASE secteur.statut = "ABSENT"
    <3> DEFINE e == [op |-> "repondu", code |-> "SECTOR_CREATED", ops |-> o]
    <3>1. /\ secteur' = [secteur EXCEPT !.statut = "DRAFT", !.creePar = o]
          /\ Devient(r, e)
      BY <1>1, <1>o, <2>1 DEF InsererSecteur, Fait
    <3>2. secteur.creePar = "personne" /\ secteur.publiePar = "personne"
      BY <1>t, <2>1 DEF SecteurFonde
    <3>3. /\ secteur' \in [statut : StatutsSecteur \cup {"ABSENT"}, creePar : Auteurs,
                           publiePar : Auteurs]
          /\ secteur'.statut = "DRAFT" /\ secteur'.creePar = o
          /\ secteur'.publiePar = "personne"
      BY <1>s, <1>t, <3>1, <3>2 DEF StatutsSecteur, Auteurs
    <3>4. SecteurFonde' /\ AuteursGardes
      BY <1>t, <1>c, <3>2, <3>3 DEF SecteurFonde, AuteursGardes
    <3>5. e \in EtatsDuCatalogue /\ Proposee(e)'
      BY <1>f, <3>3 DEF Faits, Proposee, Actes
    <3> QED BY <1>t, <3>1, <3>4, <3>5
  <2>2. CASE secteur.statut # "ABSENT"
    BY <1>1, <1>r, <1>t, <2>2 DEF InsererSecteur, CodesCatalogue
  <2> QED BY <2>1, <2>2
<1>2. CASE PublierEnBase(r)
  <2>1. CASE Publiable(o)
    <3> DEFINE e == [op |-> "repondu", code |-> "SECTOR_PUBLISHED", ops |-> o]
    <3>1. /\ secteur' = [secteur EXCEPT !.statut = "PUBLISHED", !.publiePar = o]
          /\ Devient(r, e)
          /\ secteur.statut = "DRAFT" /\ secteur.creePar # o
      BY <1>2, <1>o, <2>1 DEF PublierEnBase, Fait, Publiable
    <3>2. secteur.publiePar = "personne"
      BY <1>t, <3>1 DEF SecteurFonde
    <3>3. /\ secteur' \in [statut : StatutsSecteur \cup {"ABSENT"}, creePar : Auteurs,
                           publiePar : Auteurs]
          /\ secteur'.statut = "PUBLISHED" /\ secteur'.creePar = secteur.creePar
          /\ secteur'.publiePar = o
      BY <1>s, <1>t, <3>1 DEF StatutsSecteur, Auteurs
    <3>4. SecteurFonde' /\ AuteursGardes
      BY <1>t, <1>c, <3>1, <3>2, <3>3 DEF SecteurFonde, AuteursGardes
    <3>5. e \in EtatsDuCatalogue /\ Proposee(e)'
      BY <1>f, <3>3 DEF Faits, Proposee, Actes
    <3> QED BY <1>t, <3>1, <3>4, <3>5
  <2>2. CASE ~Publiable(o)
    BY <1>2, <1>o, <1>r, <1>t, <2>2 DEF PublierEnBase, CodesCatalogue
  <2> QED BY <2>1, <2>2
<1>3. CASE DesactiverEnBase(r)
  <2>1. CASE Desactivable
    <3> DEFINE e == [op |-> "repondu", code |-> "SECTOR_DISABLED", ops |-> o]
    <3>1. /\ secteur' = [secteur EXCEPT !.statut = "DISABLED"]
          /\ Devient(r, e)
          /\ secteur.statut = "PUBLISHED"
      BY <1>3, <1>o, <2>1 DEF DesactiverEnBase, Fait, Desactivable
    <3>2. /\ secteur' \in [statut : StatutsSecteur \cup {"ABSENT"}, creePar : Auteurs,
                           publiePar : Auteurs]
          /\ secteur'.statut = "DISABLED" /\ secteur'.creePar = secteur.creePar
          /\ secteur'.publiePar = secteur.publiePar
      BY <1>s, <3>1 DEF StatutsSecteur
    <3>3. SecteurFonde' /\ AuteursGardes
      BY <1>t, <1>c, <3>1, <3>2 DEF SecteurFonde, AuteursGardes
    <3>4. e \in EtatsDuCatalogue /\ Proposee(e)'
      BY <1>f DEF Faits, Proposee, Actes
    <3> QED BY <1>t, <3>1, <3>3, <3>4
  <2>2. CASE ~Desactivable
    BY <1>3, <1>r, <1>t, <2>2 DEF DesactiverEnBase, CodesCatalogue
  <2> QED BY <2>1, <2>2
<1> QED BY <1>1, <1>2, <1>3

LEMMA CataloguePas ==
  ASSUME CatalogueInv, CatalogueNext
  PROVE  /\ JournalGrandit
         /\ actifs' \subseteq Ops
         /\ chantier' \in Chantiers
         /\ AuteursGardes
         /\ SecteurFonde'
         /\ \/ requete' = requete
            \/ \E r \in Requetes, e \in EtatsDuCatalogue : Devient(r, e) /\ Proposee(e)'
<1> DEFINE But ==
         /\ JournalGrandit
         /\ actifs' \subseteq Ops
         /\ chantier' \in Chantiers
         /\ AuteursGardes
         /\ SecteurFonde'
         /\ \/ requete' = requete
            \/ \E r \in Requetes, e \in EtatsDuCatalogue : Devient(r, e) /\ Proposee(e)'
<1>t. /\ JournalOpsOK /\ journal \subseteq Gestes /\ actifs \subseteq Ops
      /\ chantier \in Chantiers
      /\ SecteurFonde
      /\ \A r \in Requetes : requete[r] \in EtatsDuCatalogue /\ Proposee(requete[r])
  BY DEF CatalogueInv, JournalOpsOK
\* Every act but the three that write the row.
<1>a. ASSUME JournalGrandit, actifs' \subseteq Ops, UNCHANGED secteur,
             chantier' \in Chantiers,
             \/ requete' = requete
             \/ \E r \in Requetes, e \in EtatsDuCatalogue : Devient(r, e) /\ Proposee(e)'
      PROVE  But
  <2>1. \A x : Consigne(x, "CATALOG_MANAGE") => Consigne(x, "CATALOG_MANAGE")'
    BY <1>a DEF Consigne, JournalGrandit
  <2> QED BY <1>a, <1>t, <2>1 DEF SecteurFonde, AuteursGardes
<1>c. ASSUME NEW r \in Requetes, NEW e, Neutre(e), Devient(r, e),
             UNCHANGED <<catalogue, journalOps>>
      PROVE  But
  <2>1. e \in EtatsDuCatalogue /\ Proposee(e)'
    BY <1>c, NeutreSuffit
  <2> QED BY <1>a, <1>c, <1>t, <2>1 DEF JournalGrandit, journalOps, catalogue
<1>1. CASE OuvrirChantier \/ AvancerChantier
  <2>1. UNCHANGED <<secteur, actifs, journal, requete>>
    BY <1>1 DEF OuvrirChantier, AvancerChantier, journalOps
  <2>2. chantier' \in Chantiers
    <3>1. CASE OuvrirChantier
      BY <3>1 DEF OuvrirChantier, Chantiers
    <3>2. CASE AvancerChantier
      BY <1>t, <3>2 DEF AvancerChantier, Chantiers
    <3> QED BY <1>1, <3>1, <3>2
  <2> QED BY <1>a, <1>t, <2>1, <2>2 DEF JournalGrandit
<1>2. ASSUME NEW o \in Ops, RevoquerInactif(o), UNCHANGED catalogue
      PROVE  But
  BY <1>2, <1>a, <1>t DEF RevoquerInactif, JournalGrandit, catalogue
<1>3. ASSUME NEW r \in Requetes, Interrompre(r), UNCHANGED <<catalogue, journalOps>>
      PROVE  But
  BY <1>3, <1>c, Neutres DEF Interrompre
<1>4. ASSUME NEW r \in Requetes, LireHabilitation(r) \/ ConsignerGeste(r),
             UNCHANGED catalogue
      PROVE  But
  <2> DEFINE q == requete[r]
  <2>1. /\ q \in GestesDemandes(SuitesCatalogue)
        /\ q.suite.op \in Actes => q.suite.ops = q.ops /\ q.geste = "CATALOG_MANAGE"
    BY <1>4, <1>t, ChampsCatalogue DEF LireHabilitation, ConsignerGeste, Proposee
  <2>2. CASE LireHabilitation(r)
    <3>1. /\ JournalGrandit
          /\ actifs' = actifs
          /\ \E e \in GestesDemandes(SuitesCatalogue) \cup {Repondu("FORBIDDEN")} :
               /\ Devient(r, e)
               /\ e.op # "repondu" => /\ e.op = "consignation"
                                      /\ e.ops = q.ops
                                      /\ e.geste = q.geste
                                      /\ e.suite = q.suite
      BY <1>t, <2>1, <2>2, HabilitationLue
    <3>2. PICK e \in GestesDemandes(SuitesCatalogue) \cup {Repondu("FORBIDDEN")} :
            /\ Devient(r, e)
            /\ e.op # "repondu" => /\ e.op = "consignation"
                                   /\ e.ops = q.ops
                                   /\ e.geste = q.geste
                                   /\ e.suite = q.suite
      BY <3>1
    <3>3. e \in EtatsDuCatalogue /\ Proposee(e)'
      <4>1. CASE e.op # "repondu"
        <5>1. e \in GestesDemandes(SuitesCatalogue)
          BY <3>2, <4>1 DEF Repondu
        <5> QED BY <2>1, <3>2, <4>1, <5>1, EtatsAdmisCatalogue DEF Proposee, Actes
      <4>2. CASE e.op = "repondu"
        <5>1. e = Repondu("FORBIDDEN")
          BY <3>2, <4>2 DEF GestesDemandes
        <5>2. Neutre(e)
          BY <5>1, Neutres
        <5> QED BY <5>2, NeutreSuffit
      <4> QED BY <4>1, <4>2
    <3> QED BY <1>4, <1>a, <1>t, <3>1, <3>2, <3>3 DEF catalogue
  <2>3. CASE ConsignerGeste(r)
    <3>1. PICK e : e = q.suite
      OBVIOUS
    <3>2. /\ JournalGrandit
          /\ actifs' = actifs
          /\ e \in SuitesCatalogue
          /\ Devient(r, e)
          /\ [ops |-> q.ops, geste |-> q.geste, refuse |-> FALSE] \in journal'
      BY <1>t, <2>1, <2>3, <3>1, GesteConsigne
    <3>3. e.op \in Actes => Consigne(e.ops, "CATALOG_MANAGE")'
      BY <2>1, <3>1, <3>2 DEF Consigne
    <3>4. e.op \in Actes \cup {"lister"}
      BY <3>2 DEF SuitesCatalogue
    <3>5. e \in EtatsDuCatalogue /\ Proposee(e)'
      BY <3>2, <3>3, <3>4, EtatsAdmisCatalogue DEF Proposee, Actes
    <3> QED BY <1>4, <1>a, <1>t, <3>2, <3>5 DEF catalogue
  <2> QED BY <1>4, <2>2, <2>3
<1>5. ASSUME NEW r \in Requetes, NEW o \in Ops, NEW suite \in SuitesCatalogue,
             DemanderGeste(r, o, "CATALOG_MANAGE", suite), UNCHANGED catalogue,
             suite.op \in Actes => suite.ops = o
      PROVE  But
  <2> DEFINE e == [op |-> "habilitation", ops |-> o, geste |-> "CATALOG_MANAGE",
                   suite |-> suite]
  <2>1. e \in GestesDemandes(SuitesCatalogue)
    BY DEF GestesDemandes, Permissions
  <2>2. e \in EtatsDuCatalogue /\ Proposee(e)'
    BY <1>5, <2>1, EtatsAdmisCatalogue DEF Proposee, Actes
  <2>3. Devient(r, e) /\ UNCHANGED <<catalogue, journalOps>>
    BY <1>5 DEF DemanderGeste
  <2> HIDE DEF e
  <2> QED BY <1>a, <1>t, <2>2, <2>3 DEF JournalGrandit, journalOps, catalogue
<1>6. ASSUME NEW r \in Requetes, NEW acte \in Actes, NEW libelles \in BOOLEAN,
             DemanderActe(r, acte, libelles)
      PROVE  But
  <2>1. PICK o \in Ops :
          /\ DemanderGeste(r, o, "CATALOG_MANAGE",
                           [op |-> acte, ops |-> o, libelles |-> libelles])
          /\ UNCHANGED catalogue
    BY <1>6 DEF DemanderActe
  <2>2. [op |-> acte, ops |-> o, libelles |-> libelles] \in SuitesCatalogue
    BY DEF SuitesCatalogue
  <2> QED BY <1>5, <2>1, <2>2
<1>7. ASSUME NEW r \in Requetes, LireSecteur(r)
      PROVE  But
  <2>q. PICK q : q = requete[r]
    OBVIOUS
  <2>1. /\ q.op \in Actes /\ q.ops \in Ops /\ Consigne(q.ops, "CATALOG_MANAGE")
        /\ UNCHANGED <<catalogue, journalOps>>
    BY <1>7, <1>t, <2>q, ChampsCatalogue DEF LireSecteur, Proposee
  <2>r. PICK code : code = RefusDuCatalogue(q)
    OBVIOUS
  <2>2. CASE code # "aucun"
    <3>1. Devient(r, Repondu(code))
      BY <1>7, <2>q, <2>r, <2>2 DEF LireSecteur
    <3>2. code \in CodesCatalogue
      BY <2>r, <2>2 DEF RefusDuCatalogue, CodesCatalogue
    <3> QED BY <1>c, <2>1, <3>1, <3>2, Neutres
  <2>3. CASE code = "aucun"
    <3> DEFINE op == IF q.op = "creer" THEN "inserer_secteur" ELSE "basculer"
               vers == CASE q.op = "creer" -> "DRAFT"
                         [] q.op = "publier" -> "PUBLISHED"
                         [] q.op = "desactiver" -> "DISABLED"
               e == [op |-> op, ops |-> q.ops, vers |-> vers]
    <3>1. Devient(r, e)
      BY <1>7, <2>q, <2>r, <2>3 DEF LireSecteur
    <3>2. /\ op \in {"inserer_secteur", "basculer"}
          /\ vers \in {"PUBLISHED", "DISABLED", "DRAFT"}
      BY <2>1 DEF Actes
    <3>3. Consigne(q.ops, "CATALOG_MANAGE")'
      BY <2>1 DEF Consigne, journalOps
    <3> HIDE DEF op, vers
    <3>4. e \in EtatsDuCatalogue /\ Proposee(e)'
      BY <2>1, <3>2, <3>3, EtatsAdmisCatalogue DEF Proposee
    <3> HIDE DEF e
    <3> QED BY <1>a, <1>t, <2>1, <3>1, <3>4 DEF JournalGrandit, journalOps, catalogue
  <2> QED BY <2>2, <2>3
<1>8. ASSUME NEW r \in Requetes,
             InsererSecteur(r) \/ PublierEnBase(r) \/ DesactiverEnBase(r)
      PROVE  But
  <2>1. /\ SecteurFonde' /\ AuteursGardes
        /\ UNCHANGED <<actifs, journal, chantier>>
        /\ \E e \in EtatsDuCatalogue : Devient(r, e) /\ Proposee(e)'
    BY <1>8, SecteurEcrit
  <2> QED BY <1>t, <2>1 DEF JournalGrandit
<1>9. ASSUME NEW r \in Requetes, CreerSecteur(r)
      PROVE  But
  <2>1. Neutre(Repondu("SECTOR_CODE_INVALID")) /\ "creer" \in Actes
    BY Neutres DEF CodesCatalogue, Actes
  <2> QED BY <1>9, <1>6, <1>7, <1>8, <1>c, <2>1 DEF CreerSecteur
<1>10. ASSUME NEW r \in Requetes, PublierSecteur(r) \/ DesactiverSecteur(r)
       PROVE  But
  <2>1. "publier" \in Actes /\ "desactiver" \in Actes /\ TRUE \in BOOLEAN
    BY DEF Actes
  <2> QED BY <1>10, <1>6, <1>8, <2>1 DEF PublierSecteur, DesactiverSecteur
<1>11. ASSUME NEW r \in Requetes, ListerSecteurs(r)
       PROVE  But
  <2>1. [op |-> "lister"] \in SuitesCatalogue /\ "lister" \notin Actes
    BY DEF SuitesCatalogue, Actes
  <2>2. Neutre(Repondu("SECTORS"))
    BY Neutres DEF CodesCatalogue
  <2> QED BY <1>11, <1>5, <1>c, <2>1, <2>2 DEF ListerSecteurs
<1>12. ASSUME NEW r \in Requetes, LireCatalogue(r)
       PROVE  But
  <2>1. \E e : Neutre(e) /\ Devient(r, e)
    BY <1>12, Neutres DEF LireCatalogue, CodesCatalogue
  <2> QED BY <1>12, <1>c, <2>1 DEF LireCatalogue
<1> QED BY <1>1, <1>2, <1>3, <1>4, <1>9, <1>10, <1>11, <1>12 DEF CatalogueNext

LEMMA CatalogueInvNext ==
  ASSUME CatalogueInv, CatalogueNext
  PROVE  CatalogueInv'
<1>1. /\ JournalGrandit
      /\ actifs' \subseteq Ops
      /\ chantier' \in Chantiers
      /\ AuteursGardes
      /\ SecteurFonde'
      /\ \/ requete' = requete
         \/ \E r \in Requetes, e \in EtatsDuCatalogue : Devient(r, e) /\ Proposee(e)'
  BY CataloguePas
<1>2. JournalOpsOK'
  BY <1>1 DEF JournalGrandit, JournalOpsOK
<1>3. ASSUME NEW e \in EtatsDuCatalogue, Proposee(e)
      PROVE  Proposee(e)'
  <2>1. e.op = "repondu" /\ e.code \in Faits => e.ops # "personne"
    BY ChampsCatalogue, OpsAssumption
  <2> QED BY <1>1, <1>3, <2>1
          DEF Proposee, Consigne, JournalGrandit, AuteursGardes, Faits
<1>4. requete' \in [Requetes -> EtatsDuCatalogue]
  BY <1>1 DEF CatalogueInv, Devient
<1>5. ASSUME NEW q \in Requetes
      PROVE  Proposee(requete[q])'
  <2>1. PICK f : f = requete'[q]
    OBVIOUS
  <2>2. (f \in EtatsDuCatalogue /\ Proposee(f)) \/ Proposee(f)'
    BY <1>1, <2>1 DEF CatalogueInv, Devient
  <2> QED BY <1>3, <2>1, <2>2
<1> QED BY <1>1, <1>2, <1>4, <1>5 DEF CatalogueInv

LEMMA CatalogueInvInit ==
  ASSUME AppelsInit, CatalogueInit
  PROVE  CatalogueInv
<1>1. /\ requete \in [Requetes -> EtatsDuCatalogue]
      /\ \A r \in Requetes : Proposee(requete[r])
  BY EtatsAdmisCatalogue DEF AppelsInit, Repos, Proposee, Actes
<1>2. SecteurAmorce = [statut |-> "PUBLISHED", creePar |-> "personne",
                       publiePar |-> "personne"]
  <2> DEFINE absent == [statut |-> "ABSENT", creePar |-> "personne",
                        publiePar |-> "personne"]
  <2>1. SecteurAmorce = [absent EXCEPT !.statut = "PUBLISHED"]
    BY DEF SecteurAmorce, SecteurAbsent
  <2> QED BY <2>1
<1>3. SecteurFonde
  BY <1>2 DEF CatalogueInit, SecteurAbsent, SecteurFonde, StatutsSecteur, Auteurs
<1> QED BY <1>1, <1>3 DEF CatalogueInit, CatalogueInv, JournalOpsOK, Chantiers
=============================================================================
