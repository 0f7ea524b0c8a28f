---------------------------- MODULE Intervention ----------------------------
(***************************************************************************)
(* A Mission from its attribution to its end: the provider's progress, the *)
(* devis and the answers to them, the cancellation by either party, the    *)
(* suspension after repeated withdrawals, the validation by the requester  *)
(* or by the sweep (klaar-intervention, klaar-payment, and the usecases    *)
(* transiter_mission, emettre_devis, repondre_devis, expirer_devis,        *)
(* annuler_mission, valider_mission, over klaar-sqlx-repos).               *)
(*                                                                         *)
(* As in Attribution, requete[r] is what a handler carries from its reads  *)
(* to its write, and one SQL transaction is one step.  Consecutive reads   *)
(* are one step, taken at the last of them: the writes compare the statut  *)
(* again, and no statut of a Mission ever comes back.                      *)
(***************************************************************************)
EXTENDS Naturals, Sequences, FiniteSets

CONSTANTS
  Missions,                       \* the Missions that attribution may create
  Prestataires,                   \* the providers' records
  Titulaire,                      \* Mission -> its provider
  Requetes,                       \* HTTP requests in progress at once
  Totaux,                         \* amounts a devis may ask for
  FORFAIT_DEPLACEMENT,            \* what a wasted journey costs
  DEVIS_MAX_PAR_MISSION,          \* devis one Mission may receive
  DESISTEMENTS_AVANT_SUSPENSION,  \* withdrawals that suspend a provider
  PAR_PASSAGE_MAX                 \* rows one sweep handles

ASSUME ParametresAssumption ==
  /\ Titulaire \in [Missions -> Prestataires]
  /\ Totaux \subseteq Nat \ {0}
  /\ FORFAIT_DEPLACEMENT \in Nat
  /\ DEVIS_MAX_PAR_MISSION \in Nat \ {0}
  /\ DESISTEMENTS_AVANT_SUSPENSION \in Nat \ {0}
  /\ PAR_PASSAGE_MAX \in Nat \ {0}

VARIABLES
  mission,      \* table mission: Mission -> its statut
  delai,        \* the Missions whose end is 72 hours old, the oldest first
  devis,        \* table devis: Mission -> its rows, in the order of insertion
  dernier,      \* Mission -> the row with the latest cree_le, 0 if none
  annulations,  \* table annulation_mission
  liberations,  \* table liberation
  suspendu,     \* the providers whose statut is SUSPENDED
  requete,      \* what each request in progress will write
  balayage      \* the validation sweep: the rest of its lot, its next write

vars == <<mission, delai, devis, dernier, annulations, liberations, suspendu,
          requete, balayage>>

-----------------------------------------------------------------------------
StatutsMission == {"ACCEPTED", "PROVIDER_EN_ROUTE", "ON_SITE",
                   "COMPLETED", "VALIDATED", "CANCELLED"}

TransitionsPossibles ==
  [s \in StatutsMission |->
     CASE s = "ACCEPTED"          -> {"PROVIDER_EN_ROUTE", "CANCELLED"}
       [] s = "PROVIDER_EN_ROUTE" -> {"ON_SITE", "CANCELLED"}
       [] s = "ON_SITE"           -> {"COMPLETED", "CANCELLED"}
       [] s = "COMPLETED"         -> {"VALIDATED"}
       [] OTHER                   -> {}]

\* occupe_le_prestataire and accepte_un_devis give the same answer.
EnCours == {"ACCEPTED", "PROVIDER_EN_ROUTE", "ON_SITE"}

StatutsDevis == {"SENT", "ACCEPTED", "REFUSED", "EXPIRED"}

\* echu: the hour of validity of the row has passed.
LignesDevis == [statut : StatutsDevis, echu : BOOLEAN, total : Totaux]

Rangs == 1..DEVIS_MAX_PAR_MISSION

Auteurs == {"CANCELLED_USER", "CANCELLED_PROVIDER"}

Montants == {0} \cup Totaux \cup {FORFAIT_DEPLACEMENT}
              \cup {t - FORFAIT_DEPLACEMENT :
                      t \in {u \in Totaux : u > FORFAIT_DEPLACEMENT}}

LignesAnnulation ==
  [mission : Missions, auteur : Auteurs, depuis : EnCours,
   forfait : Montants, remboursement : Montants, recente : BOOLEAN]

LignesLiberation ==
  [mission : Missions, devis : Rangs,
   origine : {"USER_VALIDATION", "AUTO_RELEASE_72H"}]

EtatsRequete ==
       [op : {"repos"}]
  \cup [op : {"transiter"}, mission : Missions, depuis : StatutsMission,
        vers : StatutsMission]
  \cup [op : {"emettre"}, mission : Missions, depuis : EnCours,
        total : Totaux, vus : 0..DEVIS_MAX_PAR_MISSION]
  \cup [op : {"plafonner"}, mission : Missions, depuis : EnCours]
  \cup [op : {"repondre"}, mission : Missions, rang : Rangs,
        reponse : {"ACCEPTED", "REFUSED"}]
  \cup [op : {"annuler"}, mission : Missions, auteur : Auteurs,
        depuis : EnCours, engage : {0} \cup Totaux]
  \cup [op : {"compter", "suspendre"}, prestataire : Prestataires]
  \cup [op : {"liberer"}, mission : Missions, devis : Rangs]

Repos == [op |-> "repos"]

Libre(r) == requete[r].op = "repos"

Devient(r, etat) == requete' = [requete EXCEPT ![r] = etat]

AuRepos == [lot |-> {}, ecriture |-> {}]

DernierAccepte(m) ==
  dernier[m] # 0 /\ devis[m][dernier[m]].statut = "ACCEPTED"

-----------------------------------------------------------------------------
Init ==
  /\ mission = [m \in Missions |-> "ABSENTE"]
  /\ delai = <<>>
  /\ devis = [m \in Missions |-> <<>>]
  /\ dernier = [m \in Missions |-> 0]
  /\ annulations = {}
  /\ liberations = {}
  /\ suspendu = {}
  /\ requete = [r \in Requetes |-> Repos]
  /\ balayage = AuRepos

(***************************************************************************)
(* Attribution creates the Mission of a provider who has none in progress. *)
(* He may have been suspended since his record was read.                   *)
(***************************************************************************)
Attribuer(m) ==
  /\ mission[m] = "ABSENTE"
  /\ \A n \in Missions : Titulaire[n] = Titulaire[m] => mission[n] \notin EnCours
  /\ mission' = [mission EXCEPT ![m] = "ACCEPTED"]
  /\ UNCHANGED <<delai, devis, dernier, annulations, liberations, suspendu,
                 requete, balayage>>

(***************************************************************************)
(* PATCH /missions/{id}/status, by the provider.  VALIDATED is reserved to *)
(* the requester; CANCELLED is not.                                        *)
(***************************************************************************)
\* Mission::transiter: the announced hour may be refused, which writes nothing,
\* and a position out of the Region is noted and refuses nothing.
Transiter(depuis, vers) == vers \in TransitionsPossibles[depuis]

CiblesDuPrestataire(s) ==
  {vers \in StatutsMission \ {"VALIDATED"} : Transiter(s, vers)}

DemanderTransition(r, m, vers) ==
  /\ Libre(r)
  /\ mission[m] # "ABSENTE"
  /\ vers \in CiblesDuPrestataire(mission[m])
  /\ Devient(r, [op |-> "transiter", mission |-> m, depuis |-> mission[m],
                 vers |-> vers])
  /\ UNCHANGED <<mission, delai, devis, dernier, annulations, liberations,
                 suspendu, balayage>>

\* Mutant: the statut read is written over whatever is there.
BasculeSansComparaison(m, depuis, vers) == mission' = [mission EXCEPT ![m] = vers]

\* The compare-and-swap of transiter, with its line of history.
Bascule(m, depuis, vers) ==
  mission' = IF mission[m] = depuis THEN [mission EXCEPT ![m] = vers]
                                    ELSE mission

TransiterMission(r) ==
  /\ requete[r].op = "transiter"
  /\ Bascule(requete[r].mission, requete[r].depuis, requete[r].vers)
  /\ Devient(r, Repos)
  /\ UNCHANGED <<delai, devis, dernier, annulations, liberations, suspendu,
                 balayage>>

(***************************************************************************)
(* POST /missions/{id}/quotes.  cree_le is read at the start of the        *)
(* request: "vus" is the number of rows that are older than it for sure.   *)
(***************************************************************************)
DemanderEmission(r, m, total) ==
  /\ Libre(r)
  /\ mission[m] \in EnCours
  /\ Titulaire[m] \notin suspendu
  /\ Devient(r, [op |-> "emettre", mission |-> m, depuis |-> mission[m],
                 total |-> total, vus |-> Len(devis[m])])
  /\ UNCHANGED <<mission, delai, devis, dernier, annulations, liberations,
                 suspendu, balayage>>

EnAttente(m) == {i \in 1..Len(devis[m]) : devis[m][i].statut = "SENT"}

\* Mutant: the INSERT without the index devis_un_seul_en_cours.
InsertionSansIndex(m) == Len(devis[m]) < DEVIS_MAX_PAR_MISSION

\* The INSERT counts the rows, the partial unique index the rows still SENT.
Insertion(m) == Len(devis[m]) < DEVIS_MAX_PAR_MISSION /\ EnAttente(m) = {}

\* Mutant: the order of the two refusals, before it was put right.
PlafondAtteintSansVivant(m) == Len(devis[m]) >= DEVIS_MAX_PAR_MISSION

\* "Full" is only said when no row waits for an answer.
PlafondAtteint(m) ==
  Len(devis[m]) >= DEVIS_MAX_PAR_MISSION /\ EnAttente(m) = {}

Emettre(r) ==
  LET m == requete[r].mission
      n == Len(devis[m]) + 1
  IN  /\ requete[r].op = "emettre"
      /\ \/ /\ Insertion(m)
            /\ devis' = [devis EXCEPT ![m] = Append(@,
                 [statut |-> "SENT", echu |-> FALSE, total |-> requete[r].total])]
            /\ \/ dernier' = [dernier EXCEPT ![m] = n]
               \/ /\ Len(devis[m]) > requete[r].vus
                  /\ UNCHANGED dernier
            /\ Devient(r, Repos)
         \/ /\ ~Insertion(m)
            /\ Devient(r, IF PlafondAtteint(m)
                            THEN [op |-> "plafonner", mission |-> m,
                                  depuis |-> requete[r].depuis]
                            ELSE Repos)
            /\ UNCHANGED <<devis, dernier>>
      /\ UNCHANGED <<mission, delai, annulations, liberations, suspendu,
                     balayage>>

\* The fourth devis cancels the Mission, from the statut read at the start.
AnnulerPlafond(r) ==
  /\ requete[r].op = "plafonner"
  /\ Transiter(requete[r].depuis, "CANCELLED")
  /\ Bascule(requete[r].mission, requete[r].depuis, "CANCELLED")
  /\ Devient(r, Repos)
  /\ UNCHANGED <<delai, devis, dernier, annulations, liberations, suspendu,
                 balayage>>

(***************************************************************************)
(* POST /quotes/{id}/accept and /refuse, by the requester.  The statut of  *)
(* the Mission is not looked at.                                           *)
(***************************************************************************)
\* Mutant: the UPDATE that compares the hour and not the statut.
RepondableSansStatut(m, i) == ~devis[m][i].echu

Repondable(m, i) == devis[m][i].statut = "SENT" /\ ~devis[m][i].echu

DemanderReponse(r, m, i, reponse) ==
  /\ Libre(r)
  /\ Repondable(m, i)
  /\ Devient(r, [op |-> "repondre", mission |-> m, rang |-> i,
                 reponse |-> reponse])
  /\ UNCHANGED <<mission, delai, devis, dernier, annulations, liberations,
                 suspendu, balayage>>

Repondre(r) ==
  LET m == requete[r].mission
      i == requete[r].rang
  IN  /\ requete[r].op = "repondre"
      /\ devis' = IF Repondable(m, i)
                    THEN [devis EXCEPT ![m][i].statut = requete[r].reponse]
                    ELSE devis
      /\ Devient(r, Repos)
      /\ UNCHANGED <<mission, delai, dernier, annulations, liberations,
                     suspendu, balayage>>

(***************************************************************************)
(* klaar-expirer: the devis nobody answered in the hour.                   *)
(***************************************************************************)
Echoir(m, i) ==
  /\ devis[m][i].statut = "SENT"
  /\ ~devis[m][i].echu
  /\ devis' = [devis EXCEPT ![m][i].echu = TRUE]
  /\ UNCHANGED <<mission, delai, dernier, annulations, liberations, suspendu,
                 requete, balayage>>

\* Mutant: a sweep that forgets the devis of Missions under way.
DevisEchusAcceptees ==
  {m \in Missions : /\ mission[m] = "ACCEPTED"
                    /\ \E i \in EnAttente(m) : devis[m][i].echu}

DevisEchus == {m \in Missions : \E i \in EnAttente(m) : devis[m][i].echu}

\* Rows under an UPDATE in progress are skipped.
Verrouillables ==
  {requete[r].mission : r \in {q \in Requetes : requete[q].op = "repondre"}}

\* expirer_les_echus: select and extinguish in one statement.
ExpirerLesEchus(lot) ==
  /\ lot # {}
  /\ Cardinality(lot) <= PAR_PASSAGE_MAX
  /\ \/ DevisEchus \ Verrouillables \subseteq lot
     \/ Cardinality(lot) = PAR_PASSAGE_MAX
  /\ devis' = [m \in Missions |->
       [i \in 1..Len(devis[m]) |->
          IF m \in lot /\ i \in EnAttente(m)
            THEN [devis[m][i] EXCEPT !.statut = "EXPIRED"]
            ELSE devis[m][i]]]

\* The notice to the provider finds no device, and changes nothing.
ExpirerDevis ==
  /\ \E lot \in SUBSET DevisEchus : ExpirerLesEchus(lot)
  /\ UNCHANGED <<mission, delai, dernier, annulations, liberations, suspendu,
                 requete, balayage>>

(***************************************************************************)
(* POST /missions/{id}/cancel, by either party.                            *)
(***************************************************************************)
\* Mutant: whatever the last devis asks for is owed, accepted or not.
EngageSansAccord(m) == IF dernier[m] # 0 THEN devis[m][dernier[m]].total ELSE 0

Engage(m) == IF DernierAccepte(m) THEN devis[m][dernier[m]].total ELSE 0

DemanderAnnulation(r, m, auteur) ==
  /\ Libre(r)
  /\ mission[m] \in EnCours
  /\ Devient(r, [op |-> "annuler", mission |-> m, auteur |-> auteur,
                 depuis |-> mission[m], engage |-> Engage(m)])
  /\ UNCHANGED <<mission, delai, devis, dernier, annulations, liberations,
                 suspendu, balayage>>

\* The journey is only owed to a provider who was on the spot, and never
\* beyond what was agreed.
Forfait(depuis, engage) ==
  IF depuis # "ON_SITE" THEN 0
    ELSE IF engage < FORFAIT_DEPLACEMENT THEN engage ELSE FORFAIT_DEPLACEMENT

\* Mutant: the statut read is not compared with the stored one.
AnnulationAdmiseEnCours(m, depuis) == mission[m] \in EnCours

AnnulationAdmise(m, depuis) == mission[m] = depuis

Annuler(r) ==
  LET m == requete[r].mission
      depuis == requete[r].depuis
      forfait == Forfait(depuis, requete[r].engage)
  IN  /\ requete[r].op = "annuler"
      /\ IF AnnulationAdmise(m, depuis)
           THEN /\ mission' = [mission EXCEPT ![m] = "CANCELLED"]
                /\ annulations' = annulations \cup
                     {[mission |-> m, auteur |-> requete[r].auteur,
                       depuis |-> depuis, forfait |-> forfait,
                       remboursement |-> requete[r].engage - forfait,
                       recente |-> TRUE]}
                /\ Devient(r, IF requete[r].auteur = "CANCELLED_PROVIDER"
                                THEN [op |-> "compter",
                                      prestataire |-> Titulaire[m]]
                                ELSE Repos)
           ELSE /\ UNCHANGED <<mission, annulations>>
                /\ Devient(r, Repos)
      /\ UNCHANGED <<delai, devis, dernier, liberations, suspendu, balayage>>

Desistements(p) ==
  {a \in annulations : /\ a.auteur = "CANCELLED_PROVIDER"
                       /\ Titulaire[a.mission] = p}

\* Mutant: off by one.
RecidiveTropTot(p) ==
  Cardinality({a \in Desistements(p) : a.recente}) + 1
    >= DESISTEMENTS_AVANT_SUSPENSION

\* Three withdrawals in the last thirty days.
Recidive(p) ==
  Cardinality({a \in Desistements(p) : a.recente})
    >= DESISTEMENTS_AVANT_SUSPENSION

\* suspendre_si_recidive: the count, then the record, then a blind write.
CompterDesistements(r) ==
  /\ requete[r].op = "compter"
  /\ Devient(r, IF Recidive(requete[r].prestataire)
                  THEN [requete[r] EXCEPT !.op = "suspendre"] ELSE Repos)
  /\ UNCHANGED <<mission, delai, devis, dernier, annulations, liberations,
                 suspendu, balayage>>

Suspendre(r) ==
  /\ requete[r].op = "suspendre"
  /\ suspendu' = suspendu \cup {requete[r].prestataire}
  /\ Devient(r, Repos)
  /\ UNCHANGED <<mission, delai, devis, dernier, annulations, liberations,
                 balayage>>

\* A withdrawal leaves the window of thirty days.
Oublier(a) ==
  /\ a.recente
  /\ annulations' = (annulations \ {a}) \cup {[a EXCEPT !.recente = FALSE]}
  /\ UNCHANGED <<mission, delai, devis, dernier, liberations, suspendu,
                 requete, balayage>>

(***************************************************************************)
(* POST /missions/{id}/validate, and the sweep that validates in the place *)
(* of a requester who is silent for 72 hours.                              *)
(***************************************************************************)
DemanderValidation(r, m) ==
  /\ Libre(r)
  /\ mission[m] = "COMPLETED"
  /\ DernierAccepte(m)
  /\ Devient(r, [op |-> "liberer", mission |-> m, devis |-> dernier[m]])
  /\ UNCHANGED <<mission, delai, devis, dernier, annulations, liberations,
                 suspendu, balayage>>

\* Mutant: the insertion is not tied to the statut of the Mission.
LiberationAdmiseSansStatut(m) == mission[m] # "ABSENTE"

LiberationAdmise(m) == mission[m] = "COMPLETED"

Liberer(m, rang, origine) ==
  IF LiberationAdmise(m)
    THEN /\ mission' = [mission EXCEPT ![m] = "VALIDATED"]
         /\ liberations' = liberations \cup
              {[mission |-> m, devis |-> rang, origine |-> origine]}
    ELSE UNCHANGED <<mission, liberations>>

Valider(r) ==
  /\ requete[r].op = "liberer"
  /\ Liberer(requete[r].mission, requete[r].devis, "USER_VALIDATION")
  /\ Devient(r, Repos)
  /\ UNCHANGED <<delai, devis, dernier, annulations, suspendu, balayage>>

Anciennes == {delai[i] : i \in 1..Len(delai)}

\* The end of a Mission becomes 72 hours old.
PasserDelai(m) ==
  /\ mission[m] = "COMPLETED"
  /\ m \notin Anciennes
  /\ delai' = Append(delai, m)
  /\ UNCHANGED <<mission, devis, dernier, annulations, liberations, suspendu,
                 requete, balayage>>

\* EXISTS an accepted devis, be it the last one or not.
AValider ==
  {m \in Anciennes :
     /\ mission[m] = "COMPLETED"
     /\ \E i \in 1..Len(devis[m]) : devis[m][i].statut = "ACCEPTED"}

Precede(m, n) ==
  \E i, j \in 1..Len(delai) : i < j /\ delai[i] = m /\ delai[j] = n

\* Mutant: the lot in any order, as before the sort by date.
LePlusAncienSansOrdre(lot) == lot \subseteq AValider

\* The oldest first.
LePlusAncien(lot) == \A m \in lot, n \in AValider \ lot : Precede(m, n)

SelectionnerEchues ==
  /\ balayage = AuRepos
  /\ \E lot \in (SUBSET AValider) \ {{}} :
       /\ lot = AValider \/ Cardinality(lot) = PAR_PASSAGE_MAX
       /\ Cardinality(lot) <= PAR_PASSAGE_MAX
       /\ LePlusAncien(lot)
       /\ balayage' = [balayage EXCEPT !.lot = lot]
  /\ UNCHANGED <<mission, delai, devis, dernier, annulations, liberations,
                 suspendu, requete>>

\* The last devis is read; one that is not accepted is a refusal of the domain.
LireAccord(m) ==
  /\ m \in balayage.lot
  /\ balayage.ecriture = {}
  /\ balayage' = [lot |-> balayage.lot \ {m},
                  ecriture |-> IF DernierAccepte(m)
                                 THEN {[mission |-> m, devis |-> dernier[m]]}
                                 ELSE {}]
  /\ UNCHANGED <<mission, delai, devis, dernier, annulations, liberations,
                 suspendu, requete>>

EcrireLiberation ==
  /\ \E e \in balayage.ecriture : Liberer(e.mission, e.devis, "AUTO_RELEASE_72H")
  /\ balayage' = [balayage EXCEPT !.ecriture = {}]
  /\ UNCHANGED <<delai, devis, dernier, annulations, suspendu, requete>>

(***************************************************************************)
(* A request, or the sweep, is cut off between two of its steps.           *)
(***************************************************************************)
Interrompre(r) ==
  /\ ~Libre(r)
  /\ Devient(r, Repos)
  /\ UNCHANGED <<mission, delai, devis, dernier, annulations, liberations,
                 suspendu, balayage>>

InterrompreBalayage ==
  /\ balayage # AuRepos
  /\ balayage' = AuRepos
  /\ UNCHANGED <<mission, delai, devis, dernier, annulations, liberations,
                 suspendu, requete>>

-----------------------------------------------------------------------------
\* The handlers of the routes, each with the steps it takes.
AvancerMission(r) ==
  \/ \E m \in Missions, vers \in StatutsMission : DemanderTransition(r, m, vers)
  \/ TransiterMission(r)

EnvoyerDevis(r) ==
  \/ \E m \in Missions, total \in Totaux : DemanderEmission(r, m, total)
  \/ Emettre(r)
  \/ AnnulerPlafond(r)

\* The route names the Mission: its pending devis is the one answered.
RepondreAuDevis(r) ==
  \/ \E m \in Missions : \E i \in EnAttente(m), rep \in {"ACCEPTED", "REFUSED"} :
       DemanderReponse(r, m, i, rep)
  \/ Repondre(r)

AnnulerIntervention(r) ==
  \/ \E m \in Missions, auteur \in Auteurs : DemanderAnnulation(r, m, auteur)
  \/ Annuler(r)
  \/ CompterDesistements(r)
  \/ Suspendre(r)

ValiderMission(r) == (\E m \in Missions : DemanderValidation(r, m)) \/ Valider(r)

\* What klaar-expirer does here: the devis, then the silent requesters.  The
\* failure of one pass does not stop the other.
Expirer ==
  \/ ExpirerDevis
  \/ SelectionnerEchues
  \/ \E m \in Missions : LireAccord(m)
  \/ EcrireLiberation

Next ==
  \/ \E r \in Requetes : \/ AvancerMission(r)
                         \/ EnvoyerDevis(r)
                         \/ RepondreAuDevis(r)
                         \/ AnnulerIntervention(r)
                         \/ ValiderMission(r)
                         \/ Interrompre(r)
  \/ \E m \in Missions : Attribuer(m) \/ PasserDelai(m)
  \/ \E m \in Missions : \E i \in 1..Len(devis[m]) : Echoir(m, i)
  \/ \E a \in annulations : Oublier(a)
  \/ Expirer
  \/ InterrompreBalayage

Spec == Init /\ [][Next]_vars

\* Time passes and both sweeps are scheduled for ever; a sweep that is cut off
\* is not cut off for ever at the same place.  No request has to end, and
\* neither sweep leans on the other: each has a specification of its own.
EquiteExpiration ==
  /\ \A m \in Missions : \A i \in Rangs :
       WF_vars(i <= Len(devis[m]) /\ Echoir(m, i))
  /\ WF_vars(ExpirerDevis)

EquiteValidation ==
  /\ \A m \in Missions : WF_vars(PasserDelai(m)) /\ SF_vars(LireAccord(m))
  /\ WF_vars(SelectionnerEchues)
  /\ SF_vars(EcrireLiberation)

SpecExpiration == Spec /\ EquiteExpiration

SpecValidation == Spec /\ EquiteValidation
-----------------------------------------------------------------------------
(***************************************************************************)
(* Properties.                                                             *)
(***************************************************************************)

\* Every row keeps a value its column allows; a Mission never receives more
\* devis than the ceiling, and one at most waits for an answer.
TypeOK ==
  /\ mission \in [Missions -> StatutsMission \cup {"ABSENTE"}]
  /\ delai \in Seq(Missions)
  /\ devis \in [Missions -> Seq(LignesDevis)]
  /\ dernier \in [Missions -> {0} \cup Rangs]
  /\ \A m \in Missions : /\ Len(devis[m]) <= DEVIS_MAX_PAR_MISSION
                         /\ Cardinality(EnAttente(m)) <= 1
                         /\ dernier[m] <= Len(devis[m])
  /\ annulations \subseteq LignesAnnulation
  /\ liberations \subseteq LignesLiberation
  /\ suspendu \subseteq Prestataires
  /\ requete \in [Requetes -> EtatsRequete]
  /\ balayage \in [lot : SUBSET Missions,
                   ecriture : SUBSET [mission : Missions, devis : Rangs]]

\* The money of a Mission moves once: released exactly when it is VALIDATED,
\* on an accepted devis, and never also given back by a cancellation, whoever
\* validates, cancels, sweeps and retries at the same moment.
ArgentUneFois ==
  /\ \A m \in Missions :
       mission[m] = "VALIDATED" <=> \E l \in liberations : l.mission = m
  /\ \A l \in liberations :
       /\ devis[l.mission][l.devis].statut = "ACCEPTED"
       /\ \A k \in liberations : k.mission = l.mission => k = l
       /\ \A a \in annulations : a.mission # l.mission

\* A cancellation gives back or keeps nothing the requester had not agreed to:
\* a sum that moves is a devis he had accepted, never a mere proposal.  That an
\* agreement is always found is another matter, which the code does not ensure:
\* a devis accepted after the read is missed (EngagementRendu), and so is one
\* that a later devis hides (Masques).
RemboursementDu ==
  \A a \in annulations :
    a.forfait + a.remboursement # 0 =>
      \E i \in 1..Len(devis[a.mission]) :
        /\ devis[a.mission][i].statut = "ACCEPTED"
        /\ devis[a.mission][i].total = a.forfait + a.remboursement

\* A provider is only suspended by withdrawals he did make.
SuspensionJustifiee ==
  \A p \in suspendu :
    Cardinality(Desistements(p)) >= DESISTEMENTS_AVANT_SUSPENSION

\* The journey is charged from the statut the Mission really had when it was
\* cancelled, not from the one that was read before.
AnnulationFidele ==
  [][\A a \in annulations' :
       (\A b \in annulations : b.mission # a.mission)
         => mission[a.mission] = a.depuis]_vars

\* An answer to a devis is final: no late answer, no sweep and no cancellation
\* changes a price that was accepted or revives one that was refused.
ReponsesFinales ==
  [][\A m \in Missions : \A i \in 1..Len(devis[m]) :
       devis[m][i].statut # "SENT" => devis'[m][i] = devis[m][i]]_vars

\* The provider who has used up his devis never cancels a Mission whose
\* requester still has an offer to answer.
OffreVivanteProtegee ==
  [][\A r \in Requetes, m \in Missions :
       /\ requete[r].op = "plafonner"
       /\ requete[r].mission = m
       /\ requete'[r] = Repos
       /\ mission[m] # mission'[m]
       => EnAttente(m) = {}]_vars

\* Nobody stays in front of an offer: it is answered, or it expires.
DevisPrendFin ==
  \A m \in Missions : \A i \in Rangs :
    i \in EnAttente(m) ~> i \notin EnAttente(m)

\* The agreed price cannot be found any more: a later devis hides it.
Masques == {m \in AValider : ~DernierAccepte(m)}

Devant(m) == {n \in Masques : Precede(n, m)}

\* Work whose last devis is the accepted one is paid, even if the requester
\* never opens the application again, as long as the Missions that cannot be
\* paid do not fill the lot in front of it.  Those are never paid (LotSansRefus),
\* and enough of them, the oldest, stop the others: hence the premise.
AccordHonore ==
  \A m \in Missions :
    <>[](Cardinality(Devant(m)) < PAR_PASSAGE_MAX)
      => []<>~(mission[m] = "COMPLETED" /\ DernierAccepte(m))

-----------------------------------------------------------------------------
(***************************************************************************)
(* What the follow-ups of a Mission assume of it, in CoursMission.  Its    *)
(* clocks do not tick here, and a Mission is followed from its attribution.*)
(***************************************************************************)
LignesDe(m) == {a \in annulations : a.mission = m}

statutSuivi == [m \in Missions |->
  IF mission[m] = "ABSENTE" THEN "ACCEPTED" ELSE mission[m]]

AuteurDe(lignes) ==
  IF lignes = {} THEN "aucun" ELSE (CHOOSE a \in lignes : TRUE).auteur

annulePar == [m \in Missions |-> AuteurDe(LignesDe(m))]

Cours(m) == INSTANCE CoursMission
  WITH statut <- statutSuivi[m], annuleePar <- annulePar[m],
       finie <- 0, validee <- 0, JOURS_MAX <- 1

\* However the requests and the two sweeps cross, each Mission goes one step at
\* a time along the course its follow-ups were written for: no late write takes
\* it back or ends it twice, and its row of cancellation says who ended it.
SuitLeCours ==
  /\ \A m \in Missions : Cours(m)!MissionInit
  /\ [][\A m \in Missions : [Cours(m)!MissionNext]_(Cours(m)!mission)]_vars

-----------------------------------------------------------------------------
(***************************************************************************)
(* What comments of the code say and the code does not do.                 *)
(***************************************************************************)

\* Every Mission of the sweep's selection can be validated.
LotSansRefus == \A m \in AValider : DernierAccepte(m)

\* What is given back and kept is what was committed when the Mission ended.
EngagementRendu ==
  [][\A a \in annulations' :
       (\A b \in annulations : b.mission # a.mission)
         => a.forfait + a.remboursement = Engage(a.mission)]_vars
=============================================================================
