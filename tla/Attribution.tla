----------------------------- MODULE Attribution -----------------------------
(***************************************************************************)
(* The life of a Demande, from its submission to the Mission that closes   *)
(* it: matching, broadcast window, acceptance race, sweep, widening,       *)
(* cancellation (klaar-matching and the usecases soumettre_demande,        *)
(* matcher, accepter, expirer, elargir, annuler, over klaar-sqlx-repos).   *)
(*                                                                         *)
(* Every HTTP handler is two or more steps: it reads rows, awaits, and     *)
(* writes with a guarded UPDATE.  What it carries from its read to its     *)
(* write is the value of requete[r], and any other step may come between.  *)
(* One SQL transaction is one step.  A read that makes the handler refuse  *)
(* at once changes nothing and is not an action.                           *)
(*                                                                         *)
(* Time is the age of a broadcast window, saturated at DUREE_DIFFUSION:    *)
(* the code only ever compares now - diffuse_depuis with that duration.    *)
(***************************************************************************)
EXTENDS Naturals, FiniteSets

CONSTANTS
  Demandes,             \* the Demandes that may be submitted
  Prestataires,         \* the providers' records
  Requetes,             \* HTTP requests that can be in progress at once
  Competents,           \* Demande -> the providers whose trades cover it
  DUREE_DIFFUSION,      \* length of a broadcast window, in ticks
  ELARGISSEMENTS_MAX,   \* widenings a Demande may consume
  CANDIDATS_MAX,        \* providers notified in one round
  PAR_PASSAGE_MAX,      \* Demandes one sweep may extinguish
  REPRISES_MAX          \* bound of the model: resumptions in a row of one work

ASSUME ParametresAssumption ==
  /\ Competents \in [Demandes -> SUBSET Prestataires]
  /\ DUREE_DIFFUSION \in Nat \ {0}
  /\ ELARGISSEMENTS_MAX \in Nat
  /\ CANDIDATS_MAX \in Nat \ {0}
  /\ PAR_PASSAGE_MAX \in Nat \ {0}
  /\ REPRISES_MAX \in Nat

VARIABLES
  demande,    \* table demande: statut, elargissements, age of the window
  mission,    \* table mission: a set of rows
  actif,      \* the providers whose statut is ACTIVE
  trace,      \* table trace_matching: what was recorded for each pair
  requete,    \* what each request in progress will write, or has answered
  relances    \* history: RADIUS_EXPANDED answers given for each Demande

vars == <<demande, mission, actif, trace, requete, relances>>

-----------------------------------------------------------------------------
StatutsDemande == {"BROADCASTING", "MATCHED", "NO_MATCH", "CANCELLED"}

\* "ABSENTE" is a Demande nobody has submitted: it has no row.
LignesDemande == [statut : StatutsDemande \cup {"ABSENTE"},
                  elargissements : 0..ELARGISSEMENTS_MAX,
                  age : 0..DUREE_DIFFUSION]

StatutsMission == {"ACCEPTED", "PROVIDER_EN_ROUTE", "ON_SITE",
                   "COMPLETED", "VALIDATED", "CANCELLED"}

TransitionsPossibles ==
  [s \in StatutsMission |->
     CASE s = "ACCEPTED"          -> {"PROVIDER_EN_ROUTE", "CANCELLED"}
       [] s = "PROVIDER_EN_ROUTE" -> {"ON_SITE", "CANCELLED"}
       [] s = "ON_SITE"           -> {"COMPLETED", "CANCELLED"}
       [] s = "COMPLETED"         -> {"VALIDATED"}
       [] OTHER                   -> {}]

\* The predicate of the partial index mission_provider_en_cours_idx.
OccupeLePrestataire(s) == s \in {"ACCEPTED", "PROVIDER_EN_ROUTE", "ON_SITE"}

\* rang tells the Missions of one Demande apart: how many came before.
Rangs == 0..REPRISES_MAX

LignesMission == [demande : Demandes, prestataire : Prestataires,
                  statut : StatutsMission, rang : Rangs]

\* Mutant: an index still limited to the first statut, as before V18.
EstOccupeAccepteSeul(p) ==
  \E m \in mission : m.prestataire = p /\ m.statut = "ACCEPTED"

EstOccupe(p) ==
  \E m \in mission : m.prestataire = p /\ OccupeLePrestataire(m.statut)

EstExpiree(d) == demande[d].age >= DUREE_DIFFUSION

Tours == 0..ELARGISSEMENTS_MAX

\* The answers given after a write, which announce a state of the Demande: the
\* two successes, the refusals of an acceptance and of a cancellation that find
\* the row changed, and the end of the widenings.
Reponses == {"MATCH_ACCEPTED", "REQUEST_CANCELLED", "REQUEST_ALREADY_MATCHED",
             "ALREADY_MATCHED", "MAX_RADIUS_REACHED"}

\* What a request holds between two of its steps.  "repondue" keeps the
\* answers whose truth the properties are about; other answers end in repos.
EtatsRequete ==
       [op : {"repos"}]
  \cup [op : {"accepter"}, demande : Demandes, prestataire : Prestataires]
  \cup [op : {"elargir"}, demande : Demandes, vers : Tours,
        age : 0..DUREE_DIFFUSION]
  \cup [op : {"annuler", "epuiser"}, demande : Demandes]
  \cup [op : {"matcher", "eteindre"}, demande : Demandes, tour : Tours]
  \cup [op : {"consigner"}, demande : Demandes,
        examines : SUBSET Prestataires, retenus : SUBSET Prestataires]
  \cup [op : {"notifier"}, demande : Demandes,
        retenus : SUBSET Prestataires]
  \cup [op : {"repondue"}, code : Reponses, demande : Demandes]

Repos == [op |-> "repos"]
Reponse(code, d) == [op |-> "repondue", code |-> code, demande |-> d]

\* A request slot may take a new call when it has answered the last one.
Libre(r) == requete[r].op \in {"repos", "repondue"}

Devient(r, etat) == requete' = [requete EXCEPT ![r] = etat]

-----------------------------------------------------------------------------
Init ==
  /\ demande = [d \in Demandes |->
                  [statut |-> "ABSENTE", elargissements |-> 0, age |-> 0]]
  /\ mission = {}
  /\ actif = Prestataires
  /\ trace = [d \in Demandes |-> [p \in Prestataires |-> "aucune"]]
  /\ requete = [r \in Requetes |-> Repos]
  /\ relances = [d \in Demandes |-> 0]

(***************************************************************************)
(* POST /requests.  The row is inserted, then the same request matches it. *)
(***************************************************************************)
Soumettre(r, d) ==
  /\ Libre(r)
  /\ demande[d].statut = "ABSENTE"
  /\ demande' = [demande EXCEPT ![d] =
                   [statut |-> "BROADCASTING", elargissements |-> 0, age |-> 0]]
  /\ Devient(r, [op |-> "matcher", demande |-> d, tour |-> 0])
  /\ UNCHANGED <<mission, actif, trace, relances>>

(***************************************************************************)
(* chercher_candidats.  The Demande is passed by value: its row is not     *)
(* read again.  Distance and availability are an arbitrary choice among    *)
(* the active, free, competent providers, and so is the ranking.           *)
(***************************************************************************)
Eligibles(d) == {p \in Competents[d] : p \in actif /\ ~EstOccupe(p)}

SontRetenus(retenus, examines) ==
  /\ retenus \subseteq examines
  /\ IF Cardinality(examines) <= CANDIDATS_MAX
       THEN retenus = examines
       ELSE Cardinality(retenus) = CANDIDATS_MAX

ChercherCandidats(r) ==
  /\ requete[r].op = "matcher"
  /\ \/ Devient(r, [requete[r] EXCEPT !.op = "eteindre"])
     \/ \E examines \in (SUBSET Eligibles(requete[r].demande)) \ {{}} :
          \E retenus \in SUBSET examines :
            /\ SontRetenus(retenus, examines)
            /\ Devient(r, [op |-> "consigner", demande |-> requete[r].demande,
                           examines |-> examines, retenus |-> retenus])
  /\ UNCHANGED <<demande, mission, actif, trace, relances>>

\* Nobody around: changer_statut(NO_MATCH), which only leaves BROADCASTING.

\* Mutant: the UPDATE without its guard on the statut.
ChangerStatutSansGarde(d, statut) ==
  demande' = [demande EXCEPT ![d].statut = statut]

ChangerStatut(d, statut) ==
  demande' = IF demande[d].statut = "BROADCASTING"
               THEN [demande EXCEPT ![d].statut = statut]
               ELSE demande

EteindreFauteDeCandidat(r) ==
  /\ requete[r].op = "eteindre"
  /\ ChangerStatut(requete[r].demande, "NO_MATCH")
  /\ Devient(r, Repos)
  /\ UNCHANGED <<mission, actif, trace, relances>>

\* The trace, all lines or none; ON CONFLICT DO NOTHING keeps an older line.

LigneTrace(ancienne, p, examines, retenus) ==
  IF ancienne = "aucune" /\ p \in examines
    THEN IF p \in retenus THEN "retenu" ELSE "ecarte"
    ELSE ancienne

LignesApres(lignes, examines, retenus) ==
  [p \in Prestataires |-> LigneTrace(lignes[p], p, examines, retenus)]

ConsignerTrace(r) ==
  /\ requete[r].op = "consigner"
  /\ trace' = [trace EXCEPT ![requete[r].demande] =
       LignesApres(@, requete[r].examines, requete[r].retenus)]
  /\ Devient(r, [op |-> "notifier", demande |-> requete[r].demande,
                 retenus |-> requete[r].retenus])
  /\ UNCHANGED <<demande, mission, actif, relances>>

\* notifier: no device is ever linked to an account (the route that registers
\* one leaves its subject empty), so every retained provider counts as "without
\* subscription" and nothing is sent nor purged.  Then the answer.
NotifierCandidats(r) ==
  /\ requete[r].op = "notifier"
  /\ Devient(r, Repos)
  /\ UNCHANGED <<demande, mission, actif, trace, relances>>

\* proposees_a follows the trace; depuis is an age.
ProposeesA(p, depuis) ==
  {d \in Demandes : /\ trace[d][p] = "retenu"
                    /\ demande[d].statut = "BROADCASTING"
                    /\ demande[d].age < depuis}

\* GET /providers/me/requests: the list a provider reads.
DemandesProposees(p) == ProposeesA(p, DUREE_DIFFUSION)

(***************************************************************************)
(* POST /requests/{id}/accept.  The checks on what was read, then the      *)
(* transaction of attribuer, which only looks at the stored statut.        *)
(***************************************************************************)
DemanderAcceptation(r, d, p) ==
  /\ Libre(r)
  /\ p \in actif
  /\ p \in Competents[d]
  /\ demande[d].statut = "BROADCASTING"
  /\ ~EstExpiree(d)
  /\ Devient(r, [op |-> "accepter", demande |-> d, prestataire |-> p])
  /\ UNCHANGED <<demande, mission, actif, trace, relances>>

\* A cancelled Mission sends nobody: the partial unique index on demande_id
\* counts the others, and the one on provider_id those in progress.
EstVivante(m) == m.statut # "CANCELLED"

InsertionAdmise(d, p) ==
  /\ \A m \in mission : m.demande = d => ~EstVivante(m)
  /\ ~EstOccupe(p)

\* Mission::attribuer: a Mission is born accepted.
MissionNee(d, p) ==
  [demande |-> d, prestataire |-> p, statut |-> "ACCEPTED", rang |-> 0]

Attribuer(r) ==
  LET d == requete[r].demande
      p == requete[r].prestataire
  IN  /\ requete[r].op = "accepter"
      /\ \/ /\ demande[d].statut = "BROADCASTING"
            /\ InsertionAdmise(d, p)
            /\ demande' = [demande EXCEPT ![d].statut = "MATCHED"]
            /\ mission' = mission \cup {MissionNee(d, p)}
            /\ Devient(r, Reponse("MATCH_ACCEPTED", d))
         \/ /\ demande[d].statut = "BROADCASTING"   \* the rollback
            /\ ~InsertionAdmise(d, p)
            /\ Devient(r, Repos)
            /\ UNCHANGED <<demande, mission>>
         \/ /\ demande[d].statut # "BROADCASTING"   \* whatever it has become
            /\ Devient(r, Reponse("REQUEST_ALREADY_MATCHED", d))
            /\ UNCHANGED <<demande, mission>>
      /\ UNCHANGED <<actif, trace, relances>>

(***************************************************************************)
(* klaar-expirer: select and extinguish in one statement.  Rows locked by  *)
(* a transaction in progress are skipped (SKIP LOCKED).                    *)
(***************************************************************************)
\* Mutant: the sign error that extinguishes every broadcast.
EchuesToutes == {d \in Demandes : demande[d].statut = "BROADCASTING"}

\* Mutant: a sweep that only knows the first round.
EchuesPremierTour ==
  {d \in Demandes : /\ demande[d].statut = "BROADCASTING"
                    /\ EstExpiree(d)
                    /\ demande[d].elargissements = 0}

Echues == {d \in Demandes : demande[d].statut = "BROADCASTING" /\ EstExpiree(d)}

Verrouillables ==
  {requete[r].demande : r \in {q \in Requetes :
     requete[q].op \in {"accepter", "elargir", "annuler", "epuiser", "eteindre"}}}

ExpirerEchues ==
  /\ \E lot \in (SUBSET Echues) \ {{}} :
       /\ Cardinality(lot) <= PAR_PASSAGE_MAX
       /\ \/ Echues \ Verrouillables \subseteq lot
          \/ Cardinality(lot) = PAR_PASSAGE_MAX
       /\ demande' = [d \in Demandes |->
            IF d \in lot THEN [demande[d] EXCEPT !.statut = "NO_MATCH"]
                         ELSE demande[d]]
  /\ UNCHANGED <<mission, actif, trace, requete, relances>>

(***************************************************************************)
(* POST /requests/{id}/expand-radius.  A window that has elapsed but was   *)
(* not swept yet counts as NO_MATCH.                                       *)
(***************************************************************************)
SansReponse(d) ==
  \/ demande[d].statut = "NO_MATCH"
  \/ demande[d].statut = "BROADCASTING" /\ EstExpiree(d)

\* Mutant: off by one, a widening beyond RAYONS_METRES.
EstEpuiseeTropTard(d) == demande[d].elargissements > ELARGISSEMENTS_MAX

EstEpuisee(d) == demande[d].elargissements >= ELARGISSEMENTS_MAX

DemanderElargissement(r, d) ==
  /\ Libre(r)
  /\ SansReponse(d)
  /\ IF EstEpuisee(d)
       THEN Devient(r, [op |-> "epuiser", demande |-> d])
       ELSE Devient(r, [op |-> "elargir", demande |-> d, age |-> 0,
                        vers |-> demande[d].elargissements + 1])
  /\ UNCHANGED <<demande, mission, actif, trace, relances>>

\* The compare-and-swap of relancer, on the statut and on the counter.

\* Mutant: only the counter is compared, a closed Demande starts again.
RelanceAdmiseSansStatut(d, vers) == demande[d].elargissements = vers - 1

\* Mutant: only the statut is compared, two clicks consume two widenings.
RelanceAdmiseSansCompteur(d, vers) ==
  demande[d].statut \in {"BROADCASTING", "NO_MATCH"}

RelanceAdmise(d, vers) ==
  /\ demande[d].statut \in {"BROADCASTING", "NO_MATCH"}
  /\ demande[d].elargissements = vers - 1

Relancer(r) ==
  LET d == requete[r].demande
  IN  /\ requete[r].op = "elargir"
      /\ IF RelanceAdmise(d, requete[r].vers)
           THEN /\ demande' = [demande EXCEPT ![d] =
                     [statut |-> "BROADCASTING", age |-> requete[r].age,
                      elargissements |-> requete[r].vers]]
                /\ relances' = [relances EXCEPT ![d] = @ + 1]
                /\ Devient(r, [op |-> "matcher", demande |-> d,
                               tour |-> requete[r].vers])
           ELSE /\ UNCHANGED <<demande, relances>>
                /\ Devient(r, Repos)
      /\ UNCHANGED <<mission, actif, trace>>

(***************************************************************************)
(* The guarded UPDATE of annuler, used by the cancellation and by the      *)
(* widening that is refused for good.                                      *)
(***************************************************************************)
AnnulationAdmiseMeme(d) == demande[d].statut # "CANCELLED"  \* mutant: MATCHED too

AnnulationAdmise(d) == demande[d].statut \in {"BROADCASTING", "NO_MATCH"}

EcrireAnnulation(d) ==
  demande' = IF AnnulationAdmise(d)
               THEN [demande EXCEPT ![d].statut = "CANCELLED"]
               ELSE demande

\* The fourth widening: what annuler returns is not looked at.
AnnulerEpuisee(r) ==
  /\ requete[r].op = "epuiser"
  /\ EcrireAnnulation(requete[r].demande)
  /\ Devient(r, Reponse("MAX_RADIUS_REACHED", requete[r].demande))
  /\ UNCHANGED <<mission, actif, trace, relances>>

\* DELETE /requests/{id}: MATCHED and CANCELLED are refused on the read.
DemanderAnnulation(r, d) ==
  /\ Libre(r)
  /\ demande[d].statut \in {"BROADCASTING", "NO_MATCH"}
  /\ Devient(r, [op |-> "annuler", demande |-> d])
  /\ UNCHANGED <<demande, mission, actif, trace, relances>>

Annuler(r) ==
  /\ requete[r].op = "annuler"
  /\ EcrireAnnulation(requete[r].demande)
  /\ Devient(r, IF AnnulationAdmise(requete[r].demande)
                  THEN Reponse("REQUEST_CANCELLED", requete[r].demande)
                  ELSE Reponse("ALREADY_MATCHED", requete[r].demande))
  /\ UNCHANGED <<mission, actif, trace, relances>>

(***************************************************************************)
(* What goes on around the Demandes.                                       *)
(***************************************************************************)
\* The client leaves, the database refuses or the server restarts: what the
\* request has committed stays, what it was about to write is lost.
Interrompre(r) ==
  /\ ~Libre(r)
  /\ Devient(r, Repos)
  /\ UNCHANGED <<demande, mission, actif, trace, relances>>

\* The Mission advances, one guarded UPDATE at a time.
TransiterMission(m, cible) ==
  /\ cible \in TransitionsPossibles[m.statut]
  /\ mission' = (mission \ {m}) \cup {[m EXCEPT !.statut = cible]}
  /\ UNCHANGED <<demande, actif, trace, requete, relances>>

\* The provider accepts to take up a cancelled work again: a second row for the
\* same Demande, which stays MATCHED.  A Mission is taken up once; how the
\* resumption was proposed is the matter of Reprogrammation.
Reprendre(m) ==
  /\ m.statut = "CANCELLED"
  /\ m.rang < REPRISES_MAX
  /\ \A n \in mission : n.demande = m.demande => n.rang # m.rang + 1
  /\ InsertionAdmise(m.demande, m.prestataire)
  /\ mission' = mission \cup
       {[MissionNee(m.demande, m.prestataire) EXCEPT !.rang = m.rang + 1]}
  /\ UNCHANGED <<demande, actif, trace, requete, relances>>

\* A provider is suspended (KYC, withdrawals) or reinstated by the staff.
MettreAJourEtat(p) ==
  /\ actif' = IF p \in actif THEN actif \ {p} ELSE actif \cup {p}
  /\ UNCHANGED <<demande, mission, trace, requete, relances>>

Vieillir(age) == IF age < DUREE_DIFFUSION THEN age + 1 ELSE age

\* One tick.  A widening in progress read the clock before its write, so the
\* window it is about to open grows old with it.
Tic ==
  /\ demande' = [d \in Demandes |->
       IF demande[d].statut = "BROADCASTING"
         THEN [demande[d] EXCEPT !.age = Vieillir(@)] ELSE demande[d]]
  /\ requete' = [r \in Requetes |->
       IF requete[r].op = "elargir"
         THEN [requete[r] EXCEPT !.age = Vieillir(@)] ELSE requete[r]]
  /\ UNCHANGED <<mission, actif, trace, relances>>

-----------------------------------------------------------------------------
\* The handlers of the routes, each with the steps it takes.

\* A submission and a successful widening both end in the matching, inside the
\* request, and in the push to whom it retained.
Diffuser(r) ==
  \/ ChercherCandidats(r)
  \/ EteindreFauteDeCandidat(r)
  \/ ConsignerTrace(r)
  \/ NotifierCandidats(r)

SoumettreDemande(r) == (\E d \in Demandes : Soumettre(r, d)) \/ Diffuser(r)

AccepterDemande(r) ==
  \/ \E d \in Demandes, p \in Prestataires : DemanderAcceptation(r, d, p)
  \/ Attribuer(r)

ElargirRayon(r) ==
  \/ \E d \in Demandes : DemanderElargissement(r, d)
  \/ Relancer(r)
  \/ AnnulerEpuisee(r)
  \/ Diffuser(r)

AnnulerDemande(r) ==
  \/ \E d \in Demandes : DemanderAnnulation(r, d)
  \/ Annuler(r)

Next ==
  \/ \E r \in Requetes : \/ SoumettreDemande(r)
                         \/ AccepterDemande(r)
                         \/ ElargirRayon(r)
                         \/ AnnulerDemande(r)
                         \/ Interrompre(r)
  \/ ExpirerEchues
  \/ \E m \in mission, cible \in StatutsMission : TransiterMission(m, cible)
  \/ \E m \in mission : Reprendre(m)
  \/ \E p \in Prestataires : MettreAJourEtat(p)
  \/ Tic

Spec == Init /\ [][Next]_vars

\* Time passes and the sweep is scheduled for ever; no request has to end.
FairSpec == Spec /\ WF_vars(Tic) /\ WF_vars(ExpirerEchues)
-----------------------------------------------------------------------------
(***************************************************************************)
(* Properties.                                                             *)
(***************************************************************************)

\* Every row keeps a value its column and the handlers' code allow; the
\* counter of widenings stays within RAYONS_METRES.
TypeOK ==
  /\ demande \in [Demandes -> LignesDemande]
  /\ mission \subseteq LignesMission
  /\ actif \subseteq Prestataires
  /\ trace \in [Demandes ->
                [Prestataires -> {"aucune", "retenu", "ecarte"}]]
  /\ requete \in [Requetes -> EtatsRequete]
  /\ relances \in [Demandes -> Nat]

\* A Demande is MATCHED exactly when a Mission was born of it; all its Missions
\* are the same provider's, and one at most is not cancelled: no race between
\* acceptances, cancellation, sweep, widening and resumptions leaves a Demande
\* taken by nobody, or sends two vans to it.
AttribueeParUneMission ==
  \A d \in Demandes :
    /\ demande[d].statut = "MATCHED" <=> \E m \in mission : m.demande = d
    /\ \A m, n \in mission :
         m.demande = d /\ n.demande = d =>
           /\ m.prestataire = n.prestataire
           /\ EstVivante(m) /\ EstVivante(n) => m = n

\* A provider has one Mission in progress at most, from its acceptance to its
\* end, however many Demandes he accepts at the same moment.
UneMissionALaFois ==
  \A m, n \in mission :
    /\ m.prestataire = n.prestataire
    /\ OccupeLePrestataire(m.statut)
    /\ OccupeLePrestataire(n.statut)
    => m = n

\* What holds of an answer, and goes on holding: an acceptance or a cancellation
\* that succeeded leaves the Demande as it said; a cancellation refused on its
\* write, and a widening refused for good, leave it closed.  That it is closed the
\* way they say, MATCHED and CANCELLED, is not claimed: the write may have met
\* another handler's.  The refusal of an acceptance announces nothing that lasts,
\* the Demande may be broadcast again.
ReponsesTenues ==
  \A r \in Requetes :
    requete[r].op = "repondue" =>
      LET statut == demande[requete[r].demande].statut
      IN  /\ requete[r].code = "MATCH_ACCEPTED" => statut = "MATCHED"
          /\ requete[r].code = "REQUEST_CANCELLED" => statut = "CANCELLED"
          /\ requete[r].code \in {"ALREADY_MATCHED", "MAX_RADIUS_REACHED"}
               => statut \in {"MATCHED", "CANCELLED"}

\* Two clicks on "widen" never consume two widenings, and none is consumed
\* that nobody asked for: the counter is the number of successful answers.
RelancesComptees ==
  \A d \in Demandes : demande[d].elargissements = relances[d]

\* MATCHED and CANCELLED are final: no sweep, late matching or late widening
\* takes a Demande out of them.
EtatsFinaux ==
  [][\A d \in Demandes :
       demande[d].statut \in {"MATCHED", "CANCELLED"} =>
         demande'[d].statut = demande[d].statut]_vars

\* A Demande is only declared without answer when its window has elapsed, or
\* when a matching of it has found nobody.
SansReponseJustifie ==
  [][\A d \in Demandes :
       demande[d].statut = "BROADCASTING" /\ demande'[d].statut = "NO_MATCH"
         => \/ EstExpiree(d)
            \/ \E r \in Requetes : /\ requete[r].op = "eteindre"
                                   /\ requete[r].demande = d]_vars

\* Nobody waits for ever: a broadcast comes to an end, by an acceptance, by a
\* cancellation or by the sweep, even if every request is dropped half-way.
DiffusionPrendFin ==
  \A d \in Demandes :
    demande[d].statut = "BROADCASTING" ~> demande[d].statut # "BROADCASTING"

-----------------------------------------------------------------------------
(***************************************************************************)
(* Attribution implements Affectation.                                     *)
(***************************************************************************)
EtatAbstrait(statut) ==
  CASE statut = "ABSENTE"                     -> "absente"
    [] statut \in {"BROADCASTING", "NO_MATCH"} -> "ouverte"
    [] statut = "MATCHED"                     -> "attribuee"
    [] statut = "CANCELLED"                   -> "close"

etatAbs == [d \in Demandes |-> EtatAbstrait(demande[d].statut)]

titulairesAbs ==
  [d \in Demandes |->
     {p \in Prestataires : \E m \in mission : m.demande = d /\ m.prestataire = p}]

porteursAbs ==
  [d \in Demandes |->
     {p \in Prestataires : \E m \in mission : /\ m.demande = d
                                             /\ m.prestataire = p
                                             /\ EstVivante(m)}]

chargeAbs ==
  [p \in Prestataires |->
     {d \in Demandes : \E m \in mission : /\ m.demande = d
                                          /\ m.prestataire = p
                                          /\ OccupeLePrestataire(m.statut)}]

Promesse == INSTANCE Affectation
  WITH etat <- etatAbs, titulaires <- titulairesAbs, porteurs <- porteursAbs,
       charge <- chargeAbs

\* One provider per Demande, who alone may take it up again once he has given it
\* up; one Demande at a time per provider; nothing closed comes back: every step
\* of the handlers is a step of Affectation.
ImplementeAffectation == Promesse!Spec

-----------------------------------------------------------------------------
(***************************************************************************)
(* What comments of the code say and the code does not do.                 *)
(***************************************************************************)

\* No provider takes a Demande whose window has elapsed, even if the sweep has
\* not run yet.
AucuneAcceptationEchue ==
  [][\A d \in Demandes :
       demande[d].statut = "BROADCASTING" /\ demande'[d].statut = "MATCHED"
         => ~EstExpiree(d)]_vars

\* A provider the matching retains finds the Demande in his list when he opens
\* the application, as long as it is broadcast and its window is open.
NotifieVoitLaDemande ==
  \A r \in Requetes : requete[r].op = "notifier" =>
    LET d == requete[r].demande
    IN  demande[d].statut = "BROADCASTING" /\ ~EstExpiree(d) =>
          \A p \in requete[r].retenus : d \in DemandesProposees(p)
=============================================================================
