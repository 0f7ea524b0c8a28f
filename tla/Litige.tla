------------------------------- MODULE Litige -------------------------------
(***************************************************************************)
(* A dispute about a Mission: opened by one of its parties within the      *)
(* window, decided once by a mediator of the operations console            *)
(* (klaar-trust/litige.rs and mediation.rs, the usecases ouvrir_litige     *)
(* and mediation, PgLitigeRepository).                                     *)
(***************************************************************************)
EXTENDS CoursMission, JournalOps

CONSTANTS
  FENETRE_LITIGE,   \* FENETRE_LITIGE_JOURS
  TOTAUX,           \* total_ttc_cents a devis of this Mission may have
  PARTS             \* part_bp a mediator may send, out of range included

ASSUME LitigeAssumption ==
  /\ FENETRE_LITIGE \in 1..JOURS_MAX
  /\ TOTAUX \in SUBSET Nat
  /\ PARTS \in SUBSET Nat

VARIABLES
  litige,      \* the row of litige of this Mission, LitigeAbsent without row
  accords      \* the totals of its accepted devis

litigeEtAccords == <<litige, accords>>

-----------------------------------------------------------------------------
Parties == {"USER", "PROVIDER"}

Motifs == {"QUALITY", "NOT_DONE", "AMOUNT_DISPUTED", "USER_NO_SHOW",
           "IMPOSSIBLE_CONDITIONS", "OTHER"}

OuvertA(motif, partie) ==
  \/ partie = "USER" /\ motif \in {"QUALITY", "NOT_DONE", "AMOUNT_DISPUTED"}
  \/ partie = "PROVIDER" /\ motif \in {"USER_NO_SHOW", "IMPOSSIBLE_CONDITIONS"}
  \/ motif = "OTHER"

Tranches == {"RESOLVED_USER_FAVOR", "RESOLVED_PROVIDER_FAVOR",
             "CLOSED_NO_FAULT"}

LitigeAbsent == [partie |-> "aucune", statut |-> "ABSENT"]

Litiges ==
       {LitigeAbsent}
  \cup [partie : Parties, statut : {"OPENED"}]
  \cup [partie : Parties, statut : Tranches, rembourse : Nat, par : Ops]

Decisions ==
       [sens : {"USER_FAVOR", "PROVIDER_FAVOR", "NO_FAULT"}]
  \cup [sens : {"PARTIAL_REFUND"}, part : PARTS]

Issues == [statut : Tranches, rembourse : Nat]

CodesLitige ==
  {"MISSION_NOT_FOUND", "MISSION_NOT_FINISHED", "ALREADY_DISPUTED",
   "MOTIVE_UNKNOWN", "MOTIVE_REQUIRED", "DESCRIPTION_TOO_LONG",
   "MOTIVE_NOT_APPLICABLE", "DISPUTE_WINDOW_CLOSED", "DISPUTE_READ",
   "DISPUTE_NOT_FOUND", "DISPUTES", "REFUND_SHARE_OUT_OF_RANGE",
   "DISPUTE_ALREADY_RESOLVED"}

StatutLitige(code) ==
  CASE code = "DISPUTE_OPENED" -> 201
    [] code \in {"DISPUTE_READ", "DISPUTES", "DISPUTE_RESOLVED"} -> 200
    [] code = "MOTIVE_UNKNOWN" -> 400
    [] code \in {"MISSION_NOT_FOUND", "DISPUTE_NOT_FOUND"} -> 404
    [] code \in {"MISSION_NOT_FINISHED", "ALREADY_DISPUTED",
                 "DISPUTE_ALREADY_RESOLVED"} -> 409
    [] code = "DISPUTE_WINDOW_CLOSED" -> 410
    [] OTHER -> 422

SuitesMediation ==
       [op : {"lire_file", "lire_dossier"}]
  \cup [op : {"trancher"}, ops : Ops, decision : Decisions]

EtatsLitige ==
       {Repos}
  \cup EtatsGeste(SuitesMediation)
  \cup SuitesMediation
  \cup [op : {"contexte"}, partie : Parties, jour : Jours,
        grief : CodesLitige \cup {"aucun"}]
  \cup [op : {"ouvrir"}, partie : Parties]
  \cup [op : {"compter"}]
  \cup [op : {"ecrire_issue"}, ops : Ops, issue : Issues]
  \cup [op : {"repondu"}, code : CodesLitige]
  \cup [op : {"repondu"}, code : {"DISPUTE_OPENED"}, aExaminer : BOOLEAN]
  \cup [op : {"repondu"}, code : {"DISPUTE_RESOLVED"}, ops : Ops,
        issue : Issues]

LitigeInit ==
  /\ litige = LitigeAbsent
  /\ accords = {}
  /\ actifs = Ops
  /\ journal = {}

\* Once the dispute is there, whoever opened it: what a mediator does of it.
MediationInit ==
  /\ litige = [partie |-> "USER", statut |-> "OPENED"]
  /\ accords = {}
  /\ actifs = Ops
  /\ journal = {}

-----------------------------------------------------------------------------
\* What Litige::ouvrir says of the complaint once the window is known open.
Grief(partie, motif, description) ==
  CASE ~OuvertA(motif, partie) -> "MOTIVE_NOT_APPLICABLE"
    [] OuvertA(motif, partie) /\ description = "courte" -> "MOTIVE_REQUIRED"
    [] OuvertA(motif, partie) /\ description = "longue" -> "DESCRIPTION_TOO_LONG"
    [] OTHER -> "aucun"

\* POST /missions/{id}/dispute: the hour, then the motive, then the context.
DemanderLitige(r, partie, motif, description) ==
  /\ Libre(r)
  /\ Devient(r, IF motif \notin Motifs
                  THEN Repondu("MOTIVE_UNKNOWN")
                  ELSE [op |-> "contexte", partie |-> partie, jour |-> finie,
                        grief |-> Grief(partie, motif, description)])
  /\ UNCHANGED <<mission, journalOps, litigeEtAccords>>

RefusLitige(jour, grief) ==
  CASE statut \notin Finis -> "MISSION_NOT_FINISHED"
    [] statut \in Finis /\ jour >= FENETRE_LITIGE -> "DISPUTE_WINDOW_CLOSED"
    [] OTHER -> grief

LireContexte(r) ==
  LET q == requete[r]
      refus == RefusLitige(q.jour, q.grief)
  IN  /\ q.op = "contexte"
      /\ Devient(r, IF refus = "aucun"
                      THEN [op |-> "ouvrir", partie |-> q.partie]
                      ELSE Repondu(refus))
      /\ UNCHANGED <<mission, journalOps, litigeEtAccords>>

\* INSERT under litige_mission_id_key.
InsererLitige(r) ==
  LET q == requete[r]
  IN  /\ q.op = "ouvrir"
      /\ \/ /\ litige = LitigeAbsent
            /\ litige' = [partie |-> q.partie, statut |-> "OPENED"]
            /\ Devient(r, [op |-> "compter"])
         \/ /\ litige # LitigeAbsent
            /\ Devient(r, Repondu("ALREADY_DISPUTED"))
            /\ UNCHANGED litige
      /\ UNCHANGED <<mission, journalOps, accords>>

\* How many the author opened in seven days, of any Mission; none if the count
\* fails.
CompterLitiges(r, aExaminer) ==
  /\ requete[r].op = "compter"
  /\ Devient(r, [op |-> "repondu", code |-> "DISPUTE_OPENED",
                 aExaminer |-> aExaminer])
  /\ UNCHANGED <<mission, journalOps, litigeEtAccords>>

\* POST /missions/{id}/dispute, from the request to the answer.
OuvrirLitige(r) ==
  \/ \E partie \in Parties, motif \in Motifs \cup {"inconnu"},
        description \in {"courte", "longue", "correcte"} :
       DemanderLitige(r, partie, motif, description)
  \/ LireContexte(r)
  \/ InsererLitige(r)
  \/ \E aExaminer \in BOOLEAN : CompterLitiges(r, aExaminer)

\* GET /missions/{id}/dispute, by a party or by someone else.
LireLitige(r, concerne) ==
  /\ Libre(r)
  /\ Devient(r, Repondu(CASE ~concerne -> "MISSION_NOT_FOUND"
                          [] concerne /\ litige = LitigeAbsent
                               -> "DISPUTE_NOT_FOUND"
                          [] OTHER -> "DISPUTE_READ"))
  /\ UNCHANGED <<mission, journalOps, litigeEtAccords>>

-----------------------------------------------------------------------------
PartAdmise(part) == part \in 100..9900

\* POST /quotes/{id}/accept asks nothing of the statut of the Mission: an offer
\* sent before its end may be accepted while its dispute is examined, and beside
\* another accepted one.
AccepterDevis(t) ==
  /\ t \notin accords
  /\ accords' = accords \cup {t}
  /\ UNCHANGED <<mission, requete, journalOps, litige>>

\* COALESCE(q.total_ttc_cents, 0): one row of the LEFT JOIN, whichever comes.
TotauxLus == IF accords = {} THEN {0} ELSE accords

\* The cent that does not divide goes to the requester.
Rembourse(part, total) ==
  LET produit == total * part
  IN  IF produit % 10000 = 0 THEN produit \div 10000
        ELSE produit \div 10000 + 1

Issue(decision, total) ==
  CASE decision.sens = "USER_FAVOR" ->
         [statut |-> "RESOLVED_USER_FAVOR", rembourse |-> total]
    [] decision.sens = "PROVIDER_FAVOR" ->
         [statut |-> "RESOLVED_PROVIDER_FAVOR", rembourse |-> 0]
    [] decision.sens = "NO_FAULT" ->
         [statut |-> "CLOSED_NO_FAULT", rembourse |-> 0]
    [] decision.sens = "PARTIAL_REFUND" ->
         [statut |-> "RESOLVED_USER_FAVOR",
          rembourse |-> Rembourse(decision.part, total)]

\* GET /admin/disputes and /admin/disputes/{id}: the disputes still open, and
\* any dispute by its identifier.
LireDossiers(r) ==
  LET q == requete[r]
  IN  /\ q.op \in {"lire_file", "lire_dossier"}
      /\ Devient(r, Repondu(
           CASE q.op = "lire_file" -> "DISPUTES"
             [] q.op = "lire_dossier" /\ litige # LitigeAbsent -> "DISPUTE_READ"
             [] q.op = "lire_dossier" /\ litige = LitigeAbsent
                  -> "DISPUTE_NOT_FOUND"))
      /\ UNCHANGED <<mission, journalOps, litigeEtAccords>>

\* The issue is worked out from the total read, as if the dispute were open: the
\* UPDATE decides.
Trancher(r, total) ==
  LET q == requete[r]
  IN  /\ q.op = "trancher"
      /\ total \in TotauxLus
      /\ Devient(r,
           CASE litige = LitigeAbsent -> Repondu("DISPUTE_NOT_FOUND")
             [] /\ litige # LitigeAbsent
                /\ q.decision.sens = "PARTIAL_REFUND"
                /\ ~PartAdmise(q.decision.part)
                  -> Repondu("REFUND_SHARE_OUT_OF_RANGE")
             [] OTHER -> [op |-> "ecrire_issue", ops |-> q.ops,
                          issue |-> Issue(q.decision, total)])
      /\ UNCHANGED <<mission, journalOps, litigeEtAccords>>

\* Mutant: UPDATE litige ... WHERE id = $1.
EncoreOuvertToujours == litige # LitigeAbsent

EncoreOuvert == litige.statut = "OPENED"

EcrireIssue(r) ==
  LET q == requete[r]
  IN  /\ q.op = "ecrire_issue"
      /\ \/ /\ EncoreOuvert
            /\ litige' = [partie |-> litige.partie,
                          statut |-> q.issue.statut,
                          rembourse |-> q.issue.rembourse, par |-> q.ops]
            /\ Devient(r, [op |-> "repondu", code |-> "DISPUTE_RESOLVED",
                           ops |-> q.ops, issue |-> q.issue])
         \/ /\ ~EncoreOuvert
            /\ Devient(r, Repondu("DISPUTE_ALREADY_RESOLVED"))
            /\ UNCHANGED litige
      /\ UNCHANGED <<mission, journalOps, accords>>

\* The routes of the console, from the request to the answer.
ConsulterLitiges(r) ==
  \/ \E o \in Ops, op \in {"lire_file", "lire_dossier"} :
       /\ DemanderGeste(r, o, "DISPUTE_RESOLVE", [op |-> op])
       /\ UNCHANGED <<mission, litigeEtAccords>>
  \/ LireDossiers(r)

TrancherLitige(r) ==
  \/ \E o \in Ops, decision \in Decisions :
       /\ DemanderGeste(r, o, "DISPUTE_RESOLVE",
            [op |-> "trancher", ops |-> o, decision |-> decision])
       /\ UNCHANGED <<mission, litigeEtAccords>>
  \/ /\ LireHabilitation(r) \/ ConsignerGeste(r)
     /\ UNCHANGED <<mission, litigeEtAccords>>
  \/ \E total \in TOTAUX \cup {0} : Trancher(r, total)
  \/ EcrireIssue(r)

-----------------------------------------------------------------------------
LitigeOK ==
  /\ JournalOpsOK
  /\ litige \in Litiges
  /\ accords \in SUBSET TOTAUX
  /\ requete \in [Requetes -> EtatsLitige]

\* Whoever was told 201 has opened the dispute.  However many mediators decide
\* at once, the one who was told 200 is the one whose decision stands; he had
\* the right to it, his act is in the journal, and it shares out no more than
\* an agreed total, whichever devis are accepted meanwhile.
DecisionAnnoncee ==
  /\ \A r \in Requetes :
       /\ requete[r].op = "repondu"
       /\ requete[r].code # "FORBIDDEN"
       /\ StatutLitige(requete[r].code) = 201
       => litige # LitigeAbsent
  /\ \A r \in Requetes :
       LET q == requete[r]
       IN  (q.op = "repondu" /\ q.code = "DISPUTE_RESOLVED") =>
             /\ litige.statut = q.issue.statut
             /\ litige.rembourse = q.issue.rembourse
             /\ litige.par = q.ops
  /\ litige.statut \in Tranches =>
       /\ Consigne(litige.par, "DISPUTE_RESOLVE")
       /\ "DISPUTE_RESOLVE" \in Permises[RoleDe[litige.par]]
       /\ \E t \in TotauxLus : litige.rembourse \in 0..t
       /\ litige.statut # "RESOLVED_USER_FAVOR" => litige.rembourse = 0
=============================================================================
