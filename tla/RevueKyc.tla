------------------------------ MODULE RevueKyc ------------------------------
(***************************************************************************)
(* The record of a provider: its control by the operations console, where  *)
(* a refusal takes two accounts, its withdrawal, its activation for a      *)
(* demonstration, and its availability (usecases/revue_kyc.rs and          *)
(* disponibilite.rs, klaar-identity/revue_kyc.rs, PgRevueKycRepository,    *)
(* bin/prestataires_demo.rs).                                              *)
(***************************************************************************)
EXTENDS JournalOps, FiniteSets

VARIABLES
  fiche,       \* the row of provider
  revues       \* its rows of revue_kyc; second is "personne" while it is NULL

kyc == <<fiche, revues>>

-----------------------------------------------------------------------------
StatutsProvider == {"PENDING_KYC", "ACTIVE", "SUSPENDED", "REJECTED", "WITHDRAWN"}

Origines == {"BCE", "OPS_REVIEW", "DEMONSTRATION"}

Decisions == {"APPROVE", "REJECT"}

MotifsRevue == {"aucun", "juste", "long"}

\* What one call may set: neither, either or both of the two settings.
Reglages == [rayon : {"aucun", "juste", "hors bornes"},
             service : {"aucun", "disponible", "indisponible"}]

Fiches ==
  [statut : StatutsProvider \cup {"ABSENT"}, origine : Origines \cup {"aucune"},
   disponible : BOOLEAN, rayon : {"defaut", "choisi"}]

Revues == [decision : Decisions, premier : Ops, second : Ops \cup {"personne"}]

\* The CHECK constraints of provider and of revue_kyc.
OrigineCoherente(f) ==
  f.statut \in {"ACTIVE", "SUSPENDED"} <=> f.origine # "aucune"

QuatreYeuxEnBase(v) ==
  v.decision = "APPROVE" \/ v.second = "personne" \/ v.second # v.premier

CodesRevue ==
  {"PROVIDER_NOT_FOUND", "REVIEW_ALREADY_PROPOSED", "FOUR_EYES_REQUIRED",
   "PROVIDER_CANCELLED", "REVIEW_ALREADY_DONE", "MOTIVE_NOT_APPLICABLE",
   "MOTIVE_REQUIRED", "MOTIVE_TOO_LONG", "REVIEW_PENDING_CONFIRMATION",
   "KYC_QUEUE"}

StatutRevue(code) ==
  CASE code \in {"REVIEW_RECORDED", "REVIEW_PENDING_CONFIRMATION",
                 "KYC_QUEUE"} -> 200
    [] code = "MOTIVE_REQUIRED" -> 400
    [] code \in {"FORBIDDEN", "FOUR_EYES_REQUIRED"} -> 403
    [] code = "PROVIDER_NOT_FOUND" -> 404
    [] code \in {"REVIEW_ALREADY_PROPOSED", "PROVIDER_CANCELLED",
                 "REVIEW_ALREADY_DONE"} -> 409
    [] OTHER -> 422

CodesFiche ==
  {"REGISTRATION_WITHDRAWN", "REGISTRATION_NOT_PENDING", "NOT_A_PROVIDER",
   "RADIUS_OUT_OF_RANGE", "AVAILABILITY"}

SuitesKyc ==
       [op : {"file"}]
  \cup [op : {"dossier"}, ops : Ops, decision : Decisions, motif : MotifsRevue]

EtatsKyc ==
       EtatsGeste(SuitesKyc) \cup SuitesKyc
  \cup [op : {"examen"}, ops : Ops, decision : Decisions, motif : MotifsRevue,
        lu : StatutsProvider]
  \cup [op : {"clore"}, revue : Revues]
  \cup [op : {"inserer"}, revue : Revues]
  \cup [op : {"retirer", "consulter"}]
  \cup [op : {"regler"}, reglage : Reglages]
  \cup [op : {"repondu"}, code : CodesRevue \cup CodesFiche]
  \cup [op : {"repondu"}, code : {"REVIEW_RECORDED"}, decision : Decisions]

FicheInscrite ==
  [statut |-> "PENDING_KYC", origine |-> "aucune", disponible |-> FALSE,
   rayon |-> "defaut"]

FicheAbsente == [FicheInscrite EXCEPT !.statut = "ABSENT"]

KycInit ==
  /\ fiche \in {FicheInscrite, FicheAbsente}
  /\ revues = {}
  /\ actifs = Ops
  /\ journal = {}

-----------------------------------------------------------------------------
EnAttente == {v \in revues : v.second = "personne"}

Closes == revues \ EnAttente

StatutResultant(decision) ==
  IF decision = "APPROVE" THEN "ACTIVE" ELSE "REJECTED"

PlusEnAttente(statut) ==
  Repondu(IF statut = "WITHDRAWN" THEN "PROVIDER_CANCELLED"
                                  ELSE "REVIEW_ALREADY_DONE")

LireDossier(r) ==
  LET q == requete[r]
  IN  /\ q.op = "dossier"
      /\ \/ /\ fiche.statut = "ABSENT"
            /\ Devient(r, Repondu("PROVIDER_NOT_FOUND"))
         \/ /\ fiche.statut # "ABSENT"
            /\ Devient(r, [op |-> "examen", ops |-> q.ops,
                           decision |-> q.decision, motif |-> q.motif,
                           lu |-> fiche.statut])
      /\ UNCHANGED <<kyc, journalOps>>

\* confirmer: to confirm is to agree to the refusal that waits.
Confirmation(o, decision, attente) ==
  IF decision = "APPROVE" THEN Repondu("REVIEW_ALREADY_PROPOSED")
  ELSE IF attente.premier = o THEN Repondu("FOUR_EYES_REQUIRED")
  ELSE [op |-> "clore", revue |-> [attente EXCEPT !.second = o]]

RefusDeMotif(decision, motif) ==
  CASE decision = "APPROVE" /\ motif # "aucun" -> "MOTIVE_NOT_APPLICABLE"
    [] decision = "REJECT" /\ motif = "aucun" -> "MOTIVE_REQUIRED"
    [] decision = "REJECT" /\ motif = "long" -> "MOTIVE_TOO_LONG"
    [] OTHER -> "aucun"

\* proposer: an approval is born confirmed, a refusal waits for another account.
Proposition(o, decision, motif, lu) ==
  CASE lu # "PENDING_KYC" -> PlusEnAttente(lu)
    [] lu = "PENDING_KYC" /\ RefusDeMotif(decision, motif) # "aucun"
         -> Repondu(RefusDeMotif(decision, motif))
    [] OTHER ->
         IF decision = "APPROVE"
           THEN [op |-> "clore",
                 revue |-> [decision |-> decision, premier |-> o, second |-> o]]
           ELSE [op |-> "inserer",
                 revue |-> [decision |-> decision, premier |-> o,
                            second |-> "personne"]]

LireEnAttente(r) ==
  LET q == requete[r]
  IN  /\ q.op = "examen"
      /\ \/ \E attente \in EnAttente :
              Devient(r, Confirmation(q.ops, q.decision, attente))
         \/ /\ EnAttente = {}
            /\ Devient(r, Proposition(q.ops, q.decision, q.motif, q.lu))
      /\ UNCHANGED <<kyc, journalOps>>

\* MUTANT: the update has no condition.
EncoreEnAttenteOuNon == fiche.statut # "ABSENT"

\* WHERE statut = 'PENDING_KYC'
EncoreEnAttente == fiche.statut = "PENDING_KYC"

\* One transaction: the status moves, then the row is inserted or completed.
Clore(r) ==
  LET q == requete[r]
  IN  /\ q.op = "clore"
      /\ EncoreEnAttente
      /\ QuatreYeuxEnBase(q.revue)
      /\ fiche' = [fiche EXCEPT
                     !.statut = StatutResultant(q.revue.decision),
                     !.origine = IF q.revue.decision = "APPROVE"
                                   THEN "OPS_REVIEW" ELSE fiche.origine]
      /\ revues' = (revues \ {[q.revue EXCEPT !.second = "personne"]})
                     \cup {q.revue}
      /\ Devient(r, [op |-> "repondu", code |-> "REVIEW_RECORDED",
                     decision |-> q.revue.decision])
      /\ UNCHANGED journalOps

\* Too late: a confirmation says what it finds on reading again, an approval
\* says that the provider withdrew, whatever happened.
CloreTropTard(r) ==
  LET q == requete[r]
  IN  /\ q.op = "clore"
      /\ ~EncoreEnAttente
      /\ Devient(r, IF q.revue.decision = "REJECT"
                      THEN PlusEnAttente(fiche.statut)
                      ELSE Repondu("PROVIDER_CANCELLED"))
      /\ UNCHANGED <<kyc, journalOps>>

\* ON CONFLICT DO NOTHING on the index of the reviews that wait.  The status of
\* the record is not read again.
InsererRevue(r) ==
  LET q == requete[r]
  IN  /\ q.op = "inserer"
      /\ \/ /\ EnAttente = {}
            /\ revues' = revues \cup {q.revue}
            /\ Devient(r, Repondu("REVIEW_PENDING_CONFIRMATION"))
         \/ /\ EnAttente # {}
            /\ Devient(r, Repondu("REVIEW_ALREADY_PROPOSED"))
            /\ UNCHANGED revues
      /\ UNCHANGED <<fiche, journalOps>>

Decider(r) ==
  \/ LireDossier(r) \/ LireEnAttente(r)
  \/ Clore(r) \/ CloreTropTard(r) \/ InsererRevue(r)

\* POST /ops/kyc/{id}/decision
ReviserKyc(r) ==
  \/ \E o \in Ops, decision \in Decisions, motif \in MotifsRevue :
       /\ DemanderGeste(r, o, "KYC_REVIEW",
            [op |-> "dossier", ops |-> o, decision |-> decision,
             motif |-> motif])
       /\ UNCHANGED kyc
  \/ /\ LireHabilitation(r) \/ ConsignerGeste(r)
     /\ UNCHANGED kyc
  \/ Decider(r)

\* The queue itself is read and not kept; reading it is written down too.
File(r) ==
  \/ /\ LireHabilitation(r) \/ ConsignerGeste(r)
     /\ UNCHANGED kyc
  \/ /\ requete[r].op = "file"
     /\ Devient(r, Repondu("KYC_QUEUE"))
     /\ UNCHANGED <<kyc, journalOps>>

\* GET /ops/kyc/pending
FileKyc(r) ==
  \/ \E o \in Ops : /\ DemanderGeste(r, o, "KYC_REVIEW", [op |-> "file"])
                    /\ UNCHANGED kyc
  \/ File(r)

-----------------------------------------------------------------------------
DemanderRetrait(r) ==
  /\ Libre(r)
  /\ Devient(r, IF fiche.statut = "ABSENT" THEN Repondu("PROVIDER_NOT_FOUND")
                                           ELSE [op |-> "retirer"])
  /\ UNCHANGED <<kyc, journalOps>>

Retirer(r) ==
  /\ requete[r].op = "retirer"
  /\ \/ /\ fiche.statut = "PENDING_KYC"
        /\ fiche' = [fiche EXCEPT !.statut = "WITHDRAWN"]
        /\ Devient(r, Repondu("REGISTRATION_WITHDRAWN"))
     \/ /\ fiche.statut # "PENDING_KYC"
        /\ Devient(r, Repondu("REGISTRATION_NOT_PENDING"))
        /\ UNCHANGED fiche
  /\ UNCHANGED <<revues, journalOps>>

\* DELETE /providers/me/registration
RetirerInscription(r) == DemanderRetrait(r) \/ Retirer(r)

\* PUT /providers/me/availability: a radius out of range writes nothing.
DemanderReglage(r, reglage) ==
  /\ Libre(r)
  /\ Devient(r,
       CASE fiche.statut = "ABSENT" -> Repondu("NOT_A_PROVIDER")
         [] fiche.statut # "ABSENT" /\ reglage.rayon = "hors bornes"
              -> Repondu("RADIUS_OUT_OF_RANGE")
         [] OTHER -> [op |-> "regler", reglage |-> reglage])
  /\ UNCHANGED <<kyc, journalOps>>

\* The radius first, then the pause: two writes, between which it may be dropped.
Regler(r) ==
  LET reglage == requete[r].reglage
  IN  /\ requete[r].op = "regler"
      /\ \/ /\ reglage.rayon # "aucun"
            /\ fiche' = [fiche EXCEPT !.rayon = "choisi"]
            /\ Devient(r, [op |-> "regler",
                           reglage |-> [rayon |-> "aucun",
                                        service |-> reglage.service]])
         \/ /\ reglage.rayon = "aucun"
            /\ fiche' = IF reglage.service = "aucun" THEN fiche
                          ELSE [fiche EXCEPT !.disponible =
                                  reglage.service = "disponible"]
            /\ Devient(r, [op |-> "consulter"])
      /\ UNCHANGED <<revues, journalOps>>

\* GET /providers/me/availability, and what a setting answers.
LireDisponibilite(r) ==
  \/ /\ Libre(r)
     /\ Devient(r, IF fiche.statut = "ABSENT" THEN Repondu("NOT_A_PROVIDER")
                                              ELSE [op |-> "consulter"])
     /\ UNCHANGED <<kyc, journalOps>>
  \/ /\ requete[r].op = "consulter"
     /\ Devient(r, Repondu("AVAILABILITY"))
     /\ UNCHANGED <<kyc, journalOps>>

ReglerDisponibilite(r) ==
  (\E reglage \in Reglages : DemanderReglage(r, reglage)) \/ Regler(r)

\* klaar-prestataires-demo creates an active record; it is made available by a
\* second statement.
CreerDemonstration ==
  /\ fiche.statut = "ABSENT"
  /\ fiche' = [fiche EXCEPT !.statut = "ACTIVE", !.origine = "DEMONSTRATION"]
  /\ UNCHANGED <<revues, journalOps, requete>>

OuvrirDemonstration ==
  /\ fiche.origine = "DEMONSTRATION"
  /\ ~fiche.disponible
  /\ fiche' = [fiche EXCEPT !.disponible = TRUE]
  /\ UNCHANGED <<revues, journalOps, requete>>

\* A third late withdrawal from a Mission.
Suspendre ==
  /\ fiche.statut = "ACTIVE"
  /\ fiche' = [fiche EXCEPT !.statut = "SUSPENDED"]
  /\ UNCHANGED <<revues, journalOps, requete>>

-----------------------------------------------------------------------------
\* The decisions about a record, its withdrawal, and what its activity does to it.
RevueNext ==
  \/ Suspendre
  \/ \E o \in Ops : RevoquerInactif(o) /\ UNCHANGED kyc
  \/ \E r \in Requetes :
       \/ Interrompre(r) /\ UNCHANGED <<kyc, journalOps>>
       \/ ReviserKyc(r)
       \/ RetirerInscription(r)

\* What reads the record, and what is written in its other columns.
FicheNext ==
  \/ CreerDemonstration
  \/ OuvrirDemonstration
  \/ \E o \in Ops : RevoquerInactif(o) /\ UNCHANGED kyc
  \/ \E r \in Requetes :
       \/ Interrompre(r) /\ UNCHANGED <<kyc, journalOps>>
       \/ FileKyc(r)
       \/ RetirerInscription(r)
       \/ ReglerDisponibilite(r)
       \/ LireDisponibilite(r)

KycOK ==
  /\ JournalOpsOK
  /\ fiche \in Fiches
  /\ OrigineCoherente(fiche)
  /\ revues \in SUBSET Revues
  /\ Cardinality(EnAttente) <= 1
  /\ \A r \in Requetes : requete[r] \in EtatsKyc \cup {Repos}

\* However the decisions of two reviewers, the confirmation of a third and the
\* withdrawal of the provider cross, one review at most closes the file: a
\* refusal closed by two different accounts, both of whose acts are in the
\* journal, or the approval of one.  The reviewer who was told that his
\* decision is recorded finds it in force (decider, clore).
RefusADeux ==
  /\ \A v, w \in Closes : v = w
  /\ fiche.statut = "REJECTED" => \E v \in Closes : v.decision = "REJECT"
  /\ fiche.origine = "OPS_REVIEW" => \E v \in Closes : v.decision = "APPROVE"
  /\ \A v \in Closes :
       /\ v.decision = "REJECT" => v.premier # v.second
       /\ Consigne(v.premier, "KYC_REVIEW")
       /\ Consigne(v.second, "KYC_REVIEW")
  /\ \A r \in Requetes :
       (requete[r].op = "repondu" /\ requete[r].code = "REVIEW_RECORDED") =>
         IF requete[r].decision = "REJECT"
           THEN fiche.statut = "REJECTED"
           ELSE fiche.statut \in {"ACTIVE", "SUSPENDED"}
=============================================================================
