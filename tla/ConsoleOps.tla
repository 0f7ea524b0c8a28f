----------------------------- MODULE ConsoleOps -----------------------------
(***************************************************************************)
(* The accounts of the operations console: a login by password and TOTP    *)
(* code, a session of thirty minutes that nothing extends, the creation of *)
(* accounts, and the reads (usecases/ops.rs, routes/ops.rs,                *)
(* klaar-identity/totp.rs, PgOpsRepository).  Time is counted in TOTP      *)
(* steps of thirty seconds.                                                *)
(***************************************************************************)
EXTENDS JournalOps, Sequences

CONSTANTS
  PAS_MAX,         \* bound on the clock
  SESSION_PAS,     \* SESSION_MINUTES, in TOTP steps
  SESSIONS_MAX     \* bound on the rows of session_ops

VARIABLES
  comptes,       \* rows of compte_ops
  horloge,       \* the current TOTP step
  dernierPas,    \* column dernier_pas_totp, 0 while it is NULL
  sessions       \* rows of session_ops, in the order of their insertion

consoleOps == <<comptes, horloge, dernierPas, sessions>>

-----------------------------------------------------------------------------
TOLERANCE_PAS == 1

ASSUME ConsoleAssumption ==
  /\ PAS_MAX \in Nat \ {0}
  /\ SESSION_PAS \in Nat \ {0}
  /\ SESSIONS_MAX \in Nat

Pas == 1..(PAS_MAX + TOLERANCE_PAS)

Corps == {"lisible", "role inconnu", "illisible"}

Lectures == {"AUDIT_READ", "DASHBOARD_READ", "GDPR_EXPORT", "VAT_EXPORT"}

PermissionDe(quoi) ==
  IF quoi \in {"GDPR_EXPORT", "VAT_EXPORT"} THEN "AUDIT_EXPORT" ELSE quoi

\* Every answer of the console that is not a read.
CodesOps ==
  {"OPS_CREDENTIALS_INVALID", "OPS_UNAVAILABLE", "FORBIDDEN",
   "OPS_AUTHENTICATED", "OPS_ACCOUNT_CREATED", "EMAIL_TAKEN", "ROLE_UNKNOWN",
   "CREDENTIALS_INVALID", "PERIOD_INVALID", "LOGGED_OUT", "USER_NOT_FOUND"}

StatutOps(code) ==
  CASE code = "OPS_CREDENTIALS_INVALID"           -> 401
    [] code \in {"OPS_UNAVAILABLE", "FORBIDDEN"}  -> 403
    [] OTHER                                      -> 200

SuitesConsole ==
       [op : {"lecture"}, ops : Ops, quoi : Lectures]
  \cup [op : {"creation"}, cible : Ops, corps : Corps]

\* pas is the step whose code was typed, 0 for a code that is nobody's.
EtatsConsole ==
       EtatsGeste(SuitesConsole) \cup SuitesConsole
  \cup [op : {"identifiants"}, ops : Ops, juste : BOOLEAN, pas : Pas \cup {0}]
  \cup [op : {"pas"}, ops : Ops, pas : Pas]
  \cup [op : {"ouverture"}, ops : Ops, pas : Pas]
  \cup [op : {"repondu"}, code : CodesOps]
  \cup [op : {"repondu"}, code : Lectures, ops : Ops]

\* Session 0 is a token that names none.
SessionVive(i) ==
  /\ i \in 1..Len(sessions)
  /\ sessions[i].ops \in actifs
  /\ ~sessions[i].revoquee
  /\ horloge < sessions[i].fin

\* The token names a living session of o.
CompteDeSession(o) ==
  \E i \in 1..Len(sessions) : sessions[i].ops = o /\ SessionVive(i)

ConsoleInit ==
  /\ comptes \in (SUBSET Ops) \ {{}}
  /\ actifs = comptes
  /\ journal = {}
  /\ horloge = 1
  /\ dernierPas = [o \in Ops |-> 0]
  /\ sessions = <<>>

\* One account is logged in, and the others may be created.
SessionOuverteInit ==
  \E o \in Ops :
    /\ comptes \in {{o}, Ops}
    /\ actifs = comptes
    /\ journal = {}
    /\ horloge = 1
    /\ dernierPas = [p \in Ops |-> IF p = o THEN 1 ELSE 0]
    /\ sessions = <<[ops |-> o, pas |-> 1, fin |-> 1 + SESSION_PAS,
                     revoquee |-> FALSE]>>

AvancerPas ==
  /\ horloge < PAS_MAX
  /\ horloge' = horloge + 1
  /\ UNCHANGED <<comptes, dernierPas, sessions, journalOps, requete>>

-----------------------------------------------------------------------------
\* Login.  verifier_totp is called without the last step that was accepted:
\* any code of the window passes there.
VerifierTotp(pas, maintenant) ==
  pas \in {p \in Pas : /\ maintenant <= p + TOLERANCE_PAS
                       /\ p <= maintenant + TOLERANCE_PAS}

DemanderConnexion(r) ==
  /\ Libre(r)
  /\ \E o \in Ops, juste \in BOOLEAN, pas \in Pas :
       Devient(r, [op |-> "identifiants", ops |-> o, juste |-> juste,
                   pas |-> IF juste /\ VerifierTotp(pas, horloge) THEN pas
                                                                  ELSE 0])
  /\ UNCHANGED <<consoleOps, journalOps>>

\* The address, the password, the state of the account, then the code: the
\* first and the last two refusals that do not say which are one and the same.
Authentifier(r) ==
  LET q == requete[r]
  IN  /\ q.op = "identifiants"
      /\ \/ /\ q.ops \notin comptes \/ ~q.juste
            /\ Devient(r, Repondu("OPS_CREDENTIALS_INVALID"))
         \/ /\ q.ops \in comptes \ actifs /\ q.juste
            /\ Devient(r, Repondu("OPS_UNAVAILABLE"))
         \/ /\ q.ops \in comptes \cap actifs /\ q.juste /\ q.pas = 0
            /\ Devient(r, Repondu("OPS_CREDENTIALS_INVALID"))
         \/ /\ q.ops \in comptes \cap actifs /\ q.juste /\ q.pas # 0
            /\ Devient(r, [op |-> "pas", ops |-> q.ops, pas |-> q.pas])
      /\ UNCHANGED <<consoleOps, journalOps>>

\* MUTANT: the step is compared with <=.
PasNeufOuEgal(o, pas) == dernierPas[o] <= pas

\* The condition of the UPDATE that consumes the step.
PasNeuf(o, pas) == dernierPas[o] < pas

ConsommerPas(r) ==
  LET q == requete[r]
  IN  /\ q.op = "pas"
      /\ \/ /\ PasNeuf(q.ops, q.pas)
            /\ dernierPas' = [dernierPas EXCEPT ![q.ops] = q.pas]
            /\ Devient(r, [q EXCEPT !.op = "ouverture"])
         \/ /\ ~PasNeuf(q.ops, q.pas)
            /\ Devient(r, Repondu("OPS_CREDENTIALS_INVALID"))
            /\ UNCHANGED dernierPas
      /\ UNCHANGED <<comptes, horloge, sessions, journalOps>>

InsererSession(o, pas) ==
  /\ Len(sessions) < SESSIONS_MAX
  /\ sessions' = Append(sessions, [ops |-> o, pas |-> pas,
                                   fin |-> horloge + SESSION_PAS,
                                   revoquee |-> FALSE])

\* The account is not read again.
OuvrirSession(r) ==
  LET q == requete[r]
  IN  /\ q.op = "ouverture"
      /\ InsererSession(q.ops, q.pas)
      /\ Devient(r, Repondu("OPS_AUTHENTICATED"))
      /\ UNCHANGED <<comptes, horloge, dernierPas, journalOps>>

\* POST /ops/login
ConnexionOps(r) ==
  DemanderConnexion(r) \/ Authentifier(r) \/ ConsommerPas(r) \/ OuvrirSession(r)

-----------------------------------------------------------------------------
\* The bearer of a token, o or nobody: porteur, then the act he asks for.
PresenterJeton(r, o, permission, suite) ==
  /\ Libre(r)
  /\ \/ /\ CompteDeSession(o)
        /\ DemanderGeste(r, o, permission, suite)
     \/ /\ \E i \in 0..Len(sessions) : ~SessionVive(i)
        /\ Devient(r, Repondu("OPS_CREDENTIALS_INVALID"))
        /\ UNCHANGED journalOps
  /\ UNCHANGED consoleOps

\* The body is read after the act is authorised and written.
EcrireCompte(r) ==
  LET q == requete[r]
  IN  /\ q.op = "creation"
      /\ \/ /\ q.corps = "illisible"
            /\ Devient(r, Repondu("CREDENTIALS_INVALID"))
            /\ UNCHANGED <<comptes, actifs>>
         \/ /\ q.corps = "role inconnu"
            /\ Devient(r, Repondu("ROLE_UNKNOWN"))
            /\ UNCHANGED <<comptes, actifs>>
         \/ /\ q.corps = "lisible" /\ q.cible \in comptes
            /\ Devient(r, Repondu("EMAIL_TAKEN"))
            /\ UNCHANGED <<comptes, actifs>>
         \/ /\ q.corps = "lisible" /\ q.cible \notin comptes
            /\ comptes' = comptes \cup {q.cible}
            /\ actifs' = actifs \cup {q.cible}
            /\ Devient(r, Repondu("OPS_ACCOUNT_CREATED"))
      /\ UNCHANGED <<horloge, dernierPas, sessions, journal>>

\* POST /ops/accounts
CreerCompteOps(r) ==
  \/ \E o, cible \in Ops, corps \in Corps :
       PresenterJeton(r, o, "OPS_MANAGE",
                      [op |-> "creation", cible |-> cible, corps |-> corps])
  \/ EcrireCompte(r)

\* What is read changes nothing and is not kept.
DemanderLecture(r, quoi) ==
  \E o \in Ops :
    PresenterJeton(r, o, PermissionDe(quoi),
                   [op |-> "lecture", ops |-> o, quoi |-> quoi])

Lire(r, quoi) ==
  LET q == requete[r]
  IN  /\ q.op = "lecture" /\ q.quoi = quoi
      /\ Devient(r, [op |-> "repondu", code |-> quoi, ops |-> q.ops])
      /\ UNCHANGED <<consoleOps, journalOps>>

\* GET /ops/audit
LireAudit(r) == DemanderLecture(r, "AUDIT_READ") \/ Lire(r, "AUDIT_READ")

\* GET /ops/dashboard
LireTableauBord(r) ==
  DemanderLecture(r, "DASHBOARD_READ") \/ Lire(r, "DASHBOARD_READ")

\* GET /ops/exports/gdpr
ExportRgpd(r) ==
  \/ DemanderLecture(r, "GDPR_EXPORT")
  \/ Lire(r, "GDPR_EXPORT")
  \/ /\ requete[r].op = "lecture" /\ requete[r].quoi = "GDPR_EXPORT"
     /\ Devient(r, Repondu("USER_NOT_FOUND"))
     /\ UNCHANGED <<consoleOps, journalOps>>

\* GET /ops/exports/vat: the period is checked before the right is, and what is
\* refused there is not written.
ExportTva(r) ==
  \/ DemanderLecture(r, "VAT_EXPORT")
  \/ /\ Libre(r)
     /\ \E o \in Ops : CompteDeSession(o)
     /\ Devient(r, Repondu("PERIOD_INVALID"))
     /\ UNCHANGED <<consoleOps, journalOps>>
  \/ Lire(r, "VAT_EXPORT")

RevoquerSession(i) ==
  /\ i \in 1..Len(sessions)
  /\ ~sessions[i].revoquee
  /\ sessions' = [sessions EXCEPT ![i].revoquee = TRUE]

\* A token that names nothing, or a session already closed, is no error.
FermerSession(i) ==
  \/ RevoquerSession(i)
  \/ /\ i # 0 => sessions[i].revoquee
     /\ UNCHANGED sessions

\* POST /ops/logout: without asking whether the session lives.
DeconnexionOps(r) ==
  /\ Libre(r)
  /\ \E i \in 0..Len(sessions) : FermerSession(i)
  /\ Devient(r, Repondu("LOGGED_OUT"))
  /\ UNCHANGED <<comptes, horloge, dernierPas, journalOps>>

ConsoleInterrompre(r) == Interrompre(r) /\ UNCHANGED <<consoleOps, journalOps>>

ConsoleHabilitation(r) ==
  /\ LireHabilitation(r) \/ ConsignerGeste(r)
  /\ UNCHANGED consoleOps

RevoquerUnCompte == \E o \in Ops : RevoquerInactif(o) /\ UNCHANGED consoleOps

ConnexionNext ==
  \/ AvancerPas
  \/ RevoquerUnCompte
  \/ \E r \in Requetes :
       \/ ConsoleInterrompre(r)
       \/ ConnexionOps(r)

ComptesNext ==
  \/ AvancerPas
  \/ RevoquerUnCompte
  \/ \E r \in Requetes :
       \/ ConsoleInterrompre(r)
       \/ ConsoleHabilitation(r)
       \/ CreerCompteOps(r)
       \/ DeconnexionOps(r)

LecturesNext ==
  \/ AvancerPas
  \/ RevoquerUnCompte
  \/ \E r \in Requetes :
       \/ ConsoleInterrompre(r)
       \/ ConsoleHabilitation(r)
       \/ LireAudit(r)
       \/ LireTableauBord(r)
       \/ ExportRgpd(r)
       \/ ExportTva(r)

-----------------------------------------------------------------------------
ConsoleOpsOK ==
  /\ \A r \in Requetes : requete[r] \in EtatsConsole \cup {Repos}
  /\ JournalOpsOK
  /\ actifs \subseteq comptes /\ comptes \subseteq Ops
  /\ horloge \in 1..PAS_MAX
  /\ dernierPas \in [Ops -> Pas \cup {0}]
  /\ sessions \in Seq([ops : Ops, pas : Pas, fin : Nat, revoquee : BOOLEAN])
  /\ \A r \in Requetes :
       (requete[r].op = "repondu" /\ requete[r].code \in Lectures)
         => /\ StatutOps(requete[r].code) = 200
            /\ Consigne(requete[r].ops, PermissionDe(requete[r].code))

\* A TOTP code opens one session at most, however many requests carry it at
\* once and although it stays in the window for three steps (consommer_pas_totp:
\* "une seule doit passer").
CodeUneFois ==
  \A i, j \in 1..Len(sessions) :
    i # j /\ sessions[i].ops = sessions[j].ops
      => sessions[i].pas # sessions[j].pas
=============================================================================
