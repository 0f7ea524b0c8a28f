---------------------------- MODULE CoursMission ----------------------------
(***************************************************************************)
(* What the follow-ups of a Mission see of it: its statut, who cancelled   *)
(* it, how long ago it ended and how long ago it was validated.  The       *)
(* follow-ups (Suivi, Conversation, Notation, Reprogrammation, Litige)     *)
(* extend this module: they read the Mission and never write it.           *)
(*                                                                         *)
(* Intervention models these handlers read by read.  Here each of them is  *)
(* the one transaction it ends with, as that is all a follow-up can see:   *)
(* Intervention implements this module for each of its Missions.           *)
(*                                                                         *)
(* One clock counts the days since the end.  In the code a conversation    *)
(* and a dispute count from the hour the provider declared (horodate_le),  *)
(* tracking from the hour it was recorded (enregistre_le): they are five   *)
(* minutes apart at most (DERIVE_HORODATAGE_MAX_MINUTES).                  *)
(***************************************************************************)
EXTENDS Naturals, Appels

CONSTANT JOURS_MAX   \* days after which every window below is closed

ASSUME JoursAssumption == JOURS_MAX \in Nat \ {0}

VARIABLES
  statut,      \* column mission.statut
  annuleePar,  \* auteur of the row of annulation_mission, "aucun" without row
  finie,       \* days since COMPLETED or CANCELLED
  validee      \* days since VALIDATED

mission == <<statut, annuleePar, finie, validee>>

-----------------------------------------------------------------------------
EnCours == {"ACCEPTED", "PROVIDER_EN_ROUTE", "ON_SITE"}

Finis == {"COMPLETED", "VALIDATED", "CANCELLED"}

Suivante ==
  [s \in {"ACCEPTED", "PROVIDER_EN_ROUTE", "ON_SITE"} |->
     CASE s = "ACCEPTED"          -> "PROVIDER_EN_ROUTE"
       [] s = "PROVIDER_EN_ROUTE" -> "ON_SITE"
       [] s = "ON_SITE"           -> "COMPLETED"]

Jours == 0..JOURS_MAX

MissionOK ==
  /\ statut \in EnCours \cup Finis
  /\ annuleePar \in {"aucun", "CANCELLED_USER", "CANCELLED_PROVIDER"}
  /\ finie \in Jours
  /\ validee \in Jours

-----------------------------------------------------------------------------
MissionInit ==
  /\ statut = "ACCEPTED"
  /\ annuleePar = "aucun"
  /\ finie = 0
  /\ validee = 0

\* PATCH /missions/{id}/status.
AvancerMission ==
  /\ statut \in EnCours
  /\ statut' = Suivante[statut]
  /\ UNCHANGED <<annuleePar, finie, validee>>

\* PATCH /missions/{id}/status with CANCELLED: the statut moves and no row is
\* written in annulation_mission.
AbandonnerMission ==
  /\ statut \in EnCours
  /\ statut' = "CANCELLED"
  /\ UNCHANGED <<annuleePar, finie, validee>>

\* POST /missions/{id}/cancel, by either party.
AnnulerMission(auteur) ==
  /\ statut \in EnCours
  /\ statut' = "CANCELLED"
  /\ annuleePar' = auteur
  /\ UNCHANGED <<finie, validee>>

\* POST /missions/{id}/validate, or the sweep after 72 hours.
ValiderMission ==
  /\ statut = "COMPLETED"
  /\ statut' = "VALIDATED"
  /\ UNCHANGED <<annuleePar, finie, validee>>

\* The two clocks, stopped once every window they open is closed.
PasserJour ==
  /\ statut \in Finis
  /\ finie < JOURS_MAX \/ (statut = "VALIDATED" /\ validee < JOURS_MAX)
  /\ finie' = IF finie < JOURS_MAX THEN finie + 1 ELSE finie
  /\ validee' = IF statut = "VALIDATED" /\ validee < JOURS_MAX
                  THEN validee + 1 ELSE validee
  /\ UNCHANGED <<statut, annuleePar>>

MissionNext ==
  \/ AvancerMission
  \/ AbandonnerMission
  \/ \E auteur \in {"CANCELLED_USER", "CANCELLED_PROVIDER"} : AnnulerMission(auteur)
  \/ ValiderMission
  \/ PasserJour

MissionSpec == MissionInit /\ [][MissionNext]_mission
=============================================================================
