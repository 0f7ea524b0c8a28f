----------------------------- MODULE JournalOps -----------------------------
(***************************************************************************)
(* Every act of the operations console: the account is read again, its     *)
(* right checked, the act written in journal_ops, and only then done       *)
(* (autoriser_et_consigner, klaar-identity/ops.rs, PgOpsRepository).       *)
(***************************************************************************)
EXTENDS Naturals, Appels

CONSTANTS
  Ops,         \* rows of compte_ops
  RoleDe       \* column compte_ops.role, which no statement changes

VARIABLES
  actifs,      \* accounts whose column actif is true
  journal      \* rows of journal_ops

journalOps == <<actifs, journal>>

-----------------------------------------------------------------------------
Roles == {"SUPER_ADMIN", "KYC_REVIEWER", "MEDIATOR", "READER"}

Permissions ==
  {"AUDIT_READ", "AUDIT_EXPORT", "KYC_REVIEW", "DISPUTE_RESOLVE",
   "RELEASE_APPROVE", "OPS_MANAGE", "DASHBOARD_READ", "CATALOG_MANAGE"}

Permises ==
  [role \in Roles |->
     CASE role = "SUPER_ADMIN"  -> Permissions
       [] role = "KYC_REVIEWER" -> {"KYC_REVIEW", "AUDIT_READ",
                                    "DASHBOARD_READ"}
       [] role = "MEDIATOR"     -> {"DISPUTE_RESOLVE", "RELEASE_APPROVE",
                                    "AUDIT_READ", "DASHBOARD_READ"}
       [] role = "READER"       -> {"AUDIT_READ", "AUDIT_EXPORT",
                                    "DASHBOARD_READ"}]

ASSUME RolesAssumption == RoleDe \in [Ops -> Roles]

\* A column that names an account is "personne" while it is NULL.
ASSUME OpsAssumption == "personne" \notin Ops

Gestes == [ops : Ops, geste : Permissions, refuse : BOOLEAN]

\* What a request that asks for an act carries: suite is what it does once the
\* act is written.
EtatsGeste(suites) ==
       [op : {"habilitation", "consignation"}, ops : Ops, geste : Permissions,
        suite : suites]
  \cup [op : {"repondu"}, code : {"FORBIDDEN"}]

Autorise(o, permission) == o \in actifs /\ permission \in Permises[RoleDe[o]]

Consigne(o, permission) ==
  [ops |-> o, geste |-> permission, refuse |-> FALSE] \in journal

-----------------------------------------------------------------------------
\* The session is alive: the handler knows who asks.
DemanderGeste(r, o, permission, suite) ==
  /\ Libre(r)
  /\ o \in actifs
  /\ Devient(r, [op |-> "habilitation", ops |-> o, geste |-> permission,
                 suite |-> suite])
  /\ UNCHANGED journalOps

LireHabilitation(r) ==
  LET q == requete[r]
  IN  /\ q.op = "habilitation"
      /\ \/ /\ Autorise(q.ops, q.geste)
            /\ Devient(r, [q EXCEPT !.op = "consignation"])
            /\ UNCHANGED journal
         \/ \* The refusal is written too, if it can be.
            /\ ~Autorise(q.ops, q.geste)
            /\ journal' \in {journal,
                             journal \cup {[ops |-> q.ops, geste |-> q.geste,
                                            refuse |-> TRUE]}}
            /\ Devient(r, Repondu("FORBIDDEN"))
      /\ UNCHANGED actifs

\* MUTANT: the act is not written.
ConsignerGesteSansTrace(r) ==
  LET q == requete[r]
  IN  /\ q.op = "consignation"
      /\ Devient(r, q.suite)
      /\ UNCHANGED journalOps

\* The journal comes before the act: where it cannot be written nothing is done.
ConsignerGeste(r) ==
  LET q == requete[r]
  IN  /\ q.op = "consignation"
      /\ journal' = journal \cup {[ops |-> q.ops, geste |-> q.geste,
                                   refuse |-> FALSE]}
      /\ Devient(r, q.suite)
      /\ UNCHANGED actifs

\* Ninety days without a login.  No program of the repository calls
\* revoquer_les_inactifs: it is run by hand.
RevoquerInactif(o) ==
  /\ o \in actifs
  /\ actifs' = actifs \ {o}
  /\ UNCHANGED <<journal, requete>>

-----------------------------------------------------------------------------
JournalOpsOK ==
  /\ actifs \in SUBSET Ops
  /\ journal \in SUBSET Gestes
=============================================================================
