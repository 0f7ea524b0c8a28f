----------------------------- MODULE Soumission -----------------------------
(***************************************************************************)
(* A requester submits Demandes from the forms he has open and from the    *)
(* queue of what he wrote offline: the duplicate is looked for, then the   *)
(* quota counted, then the row inserted (usecases/soumettre_demande.rs,    *)
(* PgDemandeRepository, web/src/lib/offlineQueue.ts).  A request is a tab  *)
(* of his browser: each has its own flag flushing, all share the queue.    *)
(***************************************************************************)
EXTENDS Naturals, Sequences, FiniteSets, Appels

CONSTANTS
  QUOTA,       \* max_demandes_par_heure
  Lieux        \* places more than a hundred metres apart

ASSUME SoumissionAssumption ==
  /\ QUOTA \in Nat
  /\ IsFiniteSet(Requetes) /\ Requetes # {}

VARIABLES
  demandes,    \* his rows of demande of the last hour, the oldest first
  file         \* the one write of the queue, and where it stands

soumission == <<demandes, file>>

-----------------------------------------------------------------------------
\* recente: of the last FENETRE_DOUBLON_MINUTES.
LignesDemande == [lieu : Lieux, diffusee : BOOLEAN, recente : BOOLEAN]

\* traitee is history: the service wrote or found a Demande for this write.
Files ==
  [lieu : Lieux \cup {"aucun"}, attend : BOOLEAN, morte : BOOLEAN,
   traitee : BOOLEAN]

FileVide == [lieu |-> "aucun", attend |-> FALSE, morte |-> FALSE,
             traitee |-> FALSE]

RefusDeFond == {"DESCRIPTION_EMPTY", "DESCRIPTION_TOO_LONG", "GEO_OUTSIDE_RBC"}

RefusDeForme ==
  {"SECTOR_NOT_FOUND", "URGENCY_INVALID", "GEO_INVALID",
   "PAYMENT_METHOD_REQUIRED"}

CodesSoumission ==
  RefusDeForme \cup RefusDeFond \cup
  {"RATE_LIMIT_EXCEEDED", "AUTH_MISSING",
   "SERVICE_UNAVAILABLE", "REQUEST_CREATED", "REQUEST_DUPLICATE"}

StatutSoumission(code) ==
  CASE code = "REQUEST_CREATED" -> 201
    [] code = "REQUEST_DUPLICATE" -> 200
    [] code = "AUTH_MISSING" -> 401
    [] code = "PAYMENT_METHOD_REQUIRED" -> 422
    [] code = "RATE_LIMIT_EXCEEDED" -> 429
    [] code = "SERVICE_UNAVAILABLE" -> 503
    [] OTHER -> 400

EtatsSoumission ==
       {Repos}
  \cup [op : {"doublon", "quota", "inserer", "consigner"},
        lieu : Lieux, deFile : BOOLEAN]
  \cup [op : {"reponse"}, code : CodesSoumission]

SoumissionInit ==
  /\ demandes = <<>>
  /\ file = FileVide

-----------------------------------------------------------------------------
\* Time: the oldest Demande leaves the window of the duplicates, then the hour.
PasserFenetre ==
  /\ \E i \in 1..Len(demandes) :
       /\ demandes[i].recente
       /\ \A j \in 1..(i - 1) : ~demandes[j].recente
       /\ demandes' = [demandes EXCEPT ![i].recente = FALSE]
  /\ UNCHANGED <<file, requete>>

PasserHeure ==
  /\ demandes # <<>>
  /\ ~Head(demandes).recente
  /\ demandes' = Tail(demandes)
  /\ UNCHANGED <<file, requete>>

\* A Demande is accepted, cancelled or finds nobody.
CesserDiffusion ==
  /\ \E i \in 1..Len(demandes) :
       /\ demandes[i].diffusee
       /\ demandes' = [demandes EXCEPT ![i].diffusee = FALSE]
  /\ UNCHANGED <<file, requete>>

-----------------------------------------------------------------------------
\* What was sent from the queue is answered to flushQueue, the rest to the form,
\* which shows it: it is not kept.
Rendre(r, code, deFile) ==
  Devient(r, IF deFile THEN [op |-> "reponse", code |-> code] ELSE Repos)

Terminer(r, code) == Rendre(r, code, requete[r].deFile)

Passer(r, op) == Devient(r, [requete[r] EXCEPT !.op = op])

\* The service has dealt with the write of the queue.
Traiter(r) == file' = [file EXCEPT !.traitee = @ \/ requete[r].deFile]

\* The form is read, then the sector, which may be out of the catalogue by now;
\* the check of the payment method is a setting of the deployment.
Soumettre(r, lieu, deFile) ==
  \/ Devient(r, [op |-> "doublon", lieu |-> lieu, deFile |-> deFile])
  \/ \E code \in RefusDeForme : Rendre(r, code, deFile)

\* The form of a tab that is online.
DemanderSoumission(r) ==
  /\ Libre(r)
  /\ \E lieu \in Lieux : Soumettre(r, lieu, FALSE)
  /\ UNCHANGED soumission

Doublons(lieu) ==
  {i \in 1..Len(demandes) : demandes[i] = [lieu |-> lieu, diffusee |-> TRUE,
                                           recente |-> TRUE]}

ChercherDoublon(r) ==
  /\ requete[r].op = "doublon"
  /\ \/ /\ Doublons(requete[r].lieu) # {}
        /\ Terminer(r, "REQUEST_DUPLICATE")
        /\ Traiter(r)
     \/ /\ Doublons(requete[r].lieu) = {}
        /\ Passer(r, "quota")
        /\ UNCHANGED file
  /\ UNCHANGED demandes

\* MUTANT: one more is let through.
QuotaDepasse == Len(demandes) > QUOTA

QuotaAtteint == Len(demandes) >= QUOTA

\* Then the text and the place are looked at.
CompterQuota(r) ==
  /\ requete[r].op = "quota"
  /\ \/ QuotaAtteint /\ Terminer(r, "RATE_LIMIT_EXCEEDED")
     \/ ~QuotaAtteint /\ Passer(r, "inserer")
     \/ ~QuotaAtteint /\ \E code \in RefusDeFond : Terminer(r, code)
  /\ UNCHANGED soumission

InsererDemande(r) ==
  /\ requete[r].op = "inserer"
  /\ demandes' = Append(demandes, [lieu |-> requete[r].lieu, diffusee |-> TRUE,
                                   recente |-> TRUE])
  /\ Traiter(r)
  /\ Passer(r, "consigner")

ConsignerSoumission(r) ==
  /\ requete[r].op = "consigner"
  /\ Terminer(r, "REQUEST_CREATED")
  /\ UNCHANGED soumission

\* The database fails; the row stays where only the audit could not be written.
EchouerEnBase(r) ==
  /\ requete[r].op \in {"doublon", "quota", "inserer", "consigner"}
  /\ Terminer(r, "SERVICE_UNAVAILABLE")
  /\ UNCHANGED soumission

\* POST /requests, up to the search for candidates.
SoumettreDemande(r) ==
  \/ DemanderSoumission(r)
  \/ ChercherDoublon(r)
  \/ CompterQuota(r)
  \/ InsererDemande(r)
  \/ ConsignerSoumission(r)
  \/ EchouerEnBase(r)

-----------------------------------------------------------------------------
\* The network failed under the form: it is queued, once here.
Enfiler ==
  /\ file.lieu = "aucun"
  /\ \E lieu \in Lieux : file' = [file EXCEPT !.lieu = lieu, !.attend = TRUE]
  /\ UNCHANGED <<demandes, requete>>

\* flushQueue sends it, without a token where the session cannot be restored.
Rejouer(r) ==
  /\ Libre(r)
  /\ file.attend
  /\ Soumettre(r, file.lieu, TRUE)
       \/ Devient(r, [op |-> "reponse", code |-> "AUTH_MISSING"])
  /\ UNCHANGED soumission

Retentable(code) ==
  StatutSoumission(code) \in {408, 429} \/ StatutSoumission(code) >= 500

\* A transport error leaves the queue as it is: Interrompre.  A write to retry
\* is put back as it was read, whether it is still there or not.
RecevoirReponse(r) ==
  LET code == requete[r].code
  IN  /\ requete[r].op = "reponse"
      /\ file' = IF Retentable(code) THEN [file EXCEPT !.attend = TRUE]
                 ELSE [file EXCEPT !.attend = FALSE,
                                   !.morte = @ \/ StatutSoumission(code) >= 400]
      /\ Devient(r, Repos)
      /\ UNCHANGED demandes

FlushQueue(r) == Rejouer(r) \/ RecevoirReponse(r)

SoumissionNext ==
  \/ PasserFenetre
  \/ PasserHeure
  \/ CesserDiffusion
  \/ Enfiler
  \/ \E r \in Requetes :
       \/ Interrompre(r) /\ UNCHANGED soumission
       \/ SoumettreDemande(r)
       \/ FlushQueue(r)

-----------------------------------------------------------------------------
SoumissionOK ==
  /\ demandes \in Seq(LignesDemande)
  /\ file \in Files
  /\ requete \in [Requetes -> EtatsSoumission]

\* The duplicate and the quota are looked for before the row is inserted, so
\* submissions that cross exceed both; by how much is bounded by the number of
\* requests at once.  And what was written offline never vanishes: it waits, it
\* is among the refused, or the service has written or found its Demande
\* (soumettre, flushQueue).
DemandesTenues ==
  /\ Len(demandes) <= QUOTA + Cardinality(Requetes) - 1
  /\ \A lieu \in Lieux : Cardinality(Doublons(lieu)) <= Cardinality(Requetes)
  /\ file.lieu # "aucun" => file.attend \/ file.morte \/ file.traitee
=============================================================================
