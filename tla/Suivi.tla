-------------------------------- MODULE Suivi --------------------------------
(***************************************************************************)
(* The position of a provider on his way: his consent, the positions he    *)
(* records, what the requester sees of them, and the purge that replaces   *)
(* them by the length of the journey a day after the end                   *)
(* (klaar-intervention/suivi.rs, the usecase suivre_position and           *)
(* PgSuiviRepository).  Coordinates are left out, but for whether they are *)
(* in the region served.                                                   *)
(***************************************************************************)
EXTENDS CoursMission

CONSTANTS
  PURGE_JOURS,      \* PURGE_HEURES, in days
  POSITIONS_MAX     \* rows of position_suivi that may be written

ASSUME SuiviAssumption ==
  /\ PURGE_JOURS \in 1..JOURS_MAX
  /\ POSITIONS_MAX \in Nat \ {0}

VARIABLES
  consenti,     \* a row of consentement_suivi whose retire_le is null
  positions,    \* rows of position_suivi
  ecrites,      \* rows written so far
  derniere,     \* the latest of them: out of the region, older than 30 seconds
  trajet        \* releves of the row of trajet_agrege, 0 without row

suivi == <<consenti, positions, ecrites, derniere, trajet>>

-----------------------------------------------------------------------------
Releves == [horsZone : BOOLEAN, ancien : BOOLEAN]

Vues == {"EN_ROUTE", "POSITION_LOST", "OUT_OF_ZONE", "STOPPED"}

CodesSuivi == {"MISSION_NOT_FOUND", "TRACKING_CONSENTED", "TRACKING_WITHDRAWN", "TRACKING_RECORDED",
               "TRACKING_NOT_ACTIVE", "TRACKING_NOT_CONSENTED"}

EtatsSuivi ==
       {Repos}
  \cup [op : {"consentir", "retirer"}]
  \cup [op : {"consentement", "derniere"}, lu : EnCours \cup Finis]
  \cup [op : {"relever"}, horsZone : BOOLEAN]
  \cup [op : {"repondu"}, code : CodesSuivi \cup Vues]

SuiviInit ==
  /\ consenti = FALSE
  /\ positions = 0
  /\ ecrites = 0
  /\ derniere = [horsZone |-> FALSE, ancien |-> FALSE]
  /\ trajet = 0

-----------------------------------------------------------------------------
\* Whoever is not the party a route is for.
RefuserSuivi(r) ==
  /\ Libre(r)
  /\ Devient(r, Repondu("MISSION_NOT_FOUND"))
  /\ UNCHANGED <<mission, suivi>>

\* PUT /missions/{id}/tracking/consent: the Mission is read for its provider
\* only, whatever its statut.
DemanderConsentement(r, accepte) ==
  /\ Libre(r)
  /\ Devient(r, [op |-> IF accepte THEN "consentir" ELSE "retirer"])
  /\ UNCHANGED <<mission, suivi>>

Consentir(r) ==
  /\ requete[r].op = "consentir"
  /\ consenti' = TRUE
  /\ Devient(r, Repondu("TRACKING_CONSENTED"))
  /\ UNCHANGED <<mission, positions, ecrites, derniere, trajet>>

RetirerConsentement(r) ==
  /\ requete[r].op = "retirer"
  /\ consenti' = FALSE
  /\ Devient(r, Repondu("TRACKING_WITHDRAWN"))
  /\ UNCHANGED <<mission, positions, ecrites, derniere, trajet>>

\* POST /missions/{id}/tracking reads the Mission, then the consent, then
\* writes: three statements, and the last one looks at nothing.
DemanderReleve(r) ==
  /\ Libre(r)
  /\ Devient(r, [op |-> "consentement", lu |-> statut])
  /\ UNCHANGED <<mission, suivi>>

RefusReleve(lu) ==
  CASE lu # "PROVIDER_EN_ROUTE" -> "TRACKING_NOT_ACTIVE"
    [] lu = "PROVIDER_EN_ROUTE" /\ ~consenti -> "TRACKING_NOT_CONSENTED"
    [] OTHER -> "aucun"

LireConsentement(r, horsZone) ==
  LET refus == RefusReleve(requete[r].lu)
  IN  /\ requete[r].op = "consentement"
      /\ Devient(r, IF refus = "aucun"
                      THEN [op |-> "relever", horsZone |-> horsZone]
                      ELSE Repondu(refus))
      /\ UNCHANGED <<mission, suivi>>

Relever(r) ==
  /\ requete[r].op = "relever"
  /\ ecrites < POSITIONS_MAX
  /\ positions' = positions + 1
  /\ ecrites' = ecrites + 1
  /\ derniere' = [horsZone |-> requete[r].horsZone, ancien |-> FALSE]
  /\ Devient(r, Repondu("TRACKING_RECORDED"))
  /\ UNCHANGED <<mission, consenti, trajet>>

\* PERTE_POSITION_SECONDES elapse without another position.
PerdrePosition ==
  /\ positions > 0
  /\ ~derniere.ancien
  /\ derniere' = [derniere EXCEPT !.ancien = TRUE]
  /\ UNCHANGED <<mission, requete, consenti, positions, ecrites, trajet>>

\* GET /missions/{id}/tracking, by the requester: the Mission, then its latest
\* position if it was on the way.
DemanderVue(r) ==
  /\ Libre(r)
  /\ Devient(r, [op |-> "derniere", lu |-> statut])
  /\ UNCHANGED <<mission, suivi>>

EtatDuSuivi(lu) ==
  CASE lu # "PROVIDER_EN_ROUTE" -> "STOPPED"
    [] lu = "PROVIDER_EN_ROUTE" /\ positions = 0 -> "POSITION_LOST"
    [] lu = "PROVIDER_EN_ROUTE" /\ positions > 0 /\ derniere.horsZone
         -> "OUT_OF_ZONE"
    [] lu = "PROVIDER_EN_ROUTE" /\ positions > 0 /\ ~derniere.horsZone
         -> IF derniere.ancien THEN "POSITION_LOST" ELSE "EN_ROUTE"

Consulter(r) ==
  /\ requete[r].op = "derniere"
  /\ Devient(r, Repondu(EtatDuSuivi(requete[r].lu)))
  /\ UNCHANGED <<mission, suivi>>

\* Mutant: the sweep only looks for Missions that were completed.
FinieDepuisUnJourTerminee ==
  statut \in {"COMPLETED", "VALIDATED"} /\ finie >= PURGE_JOURS

FinieDepuisUnJour == statut \in Finis /\ finie >= PURGE_JOURS

\* klaar-expirer: the positions are deleted, the journey written once.
PurgerTraces ==
  /\ FinieDepuisUnJour
  /\ positions > 0
  /\ positions' = 0
  /\ trajet' = IF trajet = 0 THEN positions ELSE trajet
  /\ UNCHANGED <<mission, requete, consenti, ecrites, derniere>>

\* The three routes, from the request to the answer.
ConsentirSuivi(r) ==
  \/ RefuserSuivi(r)
  \/ \E accepte \in BOOLEAN : DemanderConsentement(r, accepte)
  \/ Consentir(r)
  \/ RetirerConsentement(r)

ReleverSuivi(r) ==
  \/ RefuserSuivi(r)
  \/ DemanderReleve(r)
  \/ \E horsZone \in BOOLEAN : LireConsentement(r, horsZone)
  \/ Relever(r)

ConsulterSuivi(r) == RefuserSuivi(r) \/ DemanderVue(r) \/ Consulter(r)

-----------------------------------------------------------------------------
SuiviOK ==
  /\ consenti \in BOOLEAN
  /\ positions \in 0..POSITIONS_MAX
  /\ ecrites \in 0..POSITIONS_MAX
  /\ derniere \in Releves
  /\ trajet \in 0..POSITIONS_MAX
  /\ requete \in [Requetes -> EtatsSuivi]

\* No position outlives the Mission for ever, not even one whose write came
\* after the arrival, after the cancellation or after a first purge.
TracesPurgees == (statut \in Finis /\ positions > 0) ~> (positions = 0)
=============================================================================
