--------------------------- MODULE Reprogrammation ---------------------------
(***************************************************************************)
(* Taking up a cancelled Mission again: the requester proposes within      *)
(* seven days, the provider answers, an acceptance creates a new Mission   *)
(* with the devis already agreed (klaar-intervention/reprogrammation.rs,   *)
(* the usecase reprogrammer and PgReprogrammationRepository).              *)
(***************************************************************************)
EXTENDS CoursMission

CONSTANT FENETRE_REPROGRAMMATION   \* days a proposal may wait for

ASSUME ReprogrammationAssumption ==
  FENETRE_REPROGRAMMATION \in 1..JOURS_MAX

VARIABLES
  proposition,  \* statut of the row of reprogrammation, "ABSENTE" without row
  accord,       \* the cancelled Mission has a devis ACCEPTED
  occupe,       \* the provider holds another Mission in progress
  reprises      \* Missions created by an acceptance, with their devis

reprogrammation == <<proposition, accord, occupe, reprises>>

-----------------------------------------------------------------------------
Statuts == {"PROPOSED", "ACCEPTED", "DECLINED"}

\* Two would already be one too many.
REPRISES_MAX == 2

CodesReprogrammation ==
  {"RESCHEDULE_PROPOSED", "RESCHEDULE_ACCEPTED", "RESCHEDULE_DECLINED",
   "MISSION_NOT_CANCELLED", "QUOTE_NOT_ACCEPTED", "CANCELLED_BY_USER",
   "RESCHEDULE_EXPIRED", "PROVIDER_DECLINED", "RESCHEDULE_ALREADY_PROPOSED",
   "RESCHEDULE_ALREADY_ANSWERED", "PROVIDER_BUSY"}

EtatsReprogrammation ==
       {Repos}
  \cup [op : {"proposer", "relire", "accepter", "refuser"}]
  \cup [op : {"repondu"}, code : CodesReprogrammation]

ReprogrammationInit ==
  /\ proposition = "ABSENTE"
  /\ accord \in BOOLEAN
  /\ occupe = FALSE
  /\ reprises = 0

-----------------------------------------------------------------------------
FenetreOuverte == finie < FENETRE_REPROGRAMMATION

\* The requester who cancelled does not propose: he asks again.
RefusDuDomaine ==
  CASE annuleePar = "CANCELLED_USER" -> "CANCELLED_BY_USER"
    [] annuleePar # "CANCELLED_USER" /\ ~FenetreOuverte -> "RESCHEDULE_EXPIRED"
    [] OTHER -> "aucun"

\* In the order of the usecase: the row of annulation_mission, the devis, the
\* rules of the domain.
Refus ==
  CASE annuleePar = "aucun" -> "MISSION_NOT_CANCELLED"
    [] annuleePar # "aucun" /\ ~accord -> "QUOTE_NOT_ACCEPTED"
    [] OTHER -> RefusDuDomaine

DemanderProposition(r) ==
  /\ Libre(r)
  /\ Devient(r, IF Refus = "aucun" THEN [op |-> "proposer"] ELSE Repondu(Refus))
  /\ UNCHANGED <<mission, reprogrammation>>

\* INSERT ... ON CONFLICT (mission_id) DO NOTHING.
InsererProposition(r) ==
  /\ requete[r].op = "proposer"
  /\ \/ /\ proposition = "ABSENTE"
        /\ proposition' = "PROPOSED"
        /\ Devient(r, Repondu("RESCHEDULE_PROPOSED"))
     \/ /\ proposition # "ABSENTE"
        /\ Devient(r, [op |-> "relire"])
        /\ UNCHANGED proposition
  /\ UNCHANGED <<mission, accord, occupe, reprises>>

\* The conflict is explained by a second read.
RelireProposition(r) ==
  /\ requete[r].op = "relire"
  /\ Devient(r, Repondu(IF proposition = "DECLINED"
                          THEN "PROVIDER_DECLINED"
                          ELSE "RESCHEDULE_ALREADY_PROPOSED"))
  /\ UNCHANGED <<mission, reprogrammation>>

\* The answer looks at who asks, and at nothing else, before its write.
DemanderReprise(r, accepte) ==
  /\ Libre(r)
  /\ Devient(r, [op |-> IF accepte THEN "accepter" ELSE "refuser"])
  /\ UNCHANGED <<mission, reprogrammation>>

\* Mutant: the SELECT ... FOR UPDATE without its condition on the statut.
AttendReponseClose == proposition # "ABSENTE"

AttendReponse == proposition = "PROPOSED"

\* One transaction: the row is locked, the new Mission inserted under the index
\* of the single Mission, its devis copied, the row closed.
AccepterReprise(r) ==
  /\ requete[r].op = "accepter"
  /\ \/ /\ AttendReponse
        /\ ~occupe
        /\ reprises < REPRISES_MAX
        /\ proposition' = "ACCEPTED"
        /\ reprises' = reprises + 1
        /\ occupe' = TRUE
        /\ Devient(r, Repondu("RESCHEDULE_ACCEPTED"))
     \/ /\ AttendReponse
        /\ occupe
        /\ Devient(r, Repondu("PROVIDER_BUSY"))
        /\ UNCHANGED <<proposition, reprises, occupe>>
     \/ /\ ~AttendReponse
        /\ Devient(r, Repondu("RESCHEDULE_ALREADY_ANSWERED"))
        /\ UNCHANGED <<proposition, reprises, occupe>>
  /\ UNCHANGED <<mission, accord>>

RefuserReprise(r) ==
  /\ requete[r].op = "refuser"
  /\ \/ /\ proposition = "PROPOSED"
        /\ proposition' = "DECLINED"
        /\ Devient(r, Repondu("RESCHEDULE_DECLINED"))
     \/ /\ proposition # "PROPOSED"
        /\ Devient(r, Repondu("RESCHEDULE_ALREADY_ANSWERED"))
        /\ UNCHANGED proposition
  /\ UNCHANGED <<mission, accord, occupe, reprises>>

\* Once this Mission is over the provider takes another, and ends it.
ChangerDeMission ==
  /\ statut \in Finis
  /\ occupe' = ~occupe
  /\ UNCHANGED <<mission, requete, proposition, accord, reprises>>

\* POST /missions/{id}/reschedule, from the request to the answer.
ProposerReprogrammation(r) ==
  DemanderProposition(r) \/ InsererProposition(r) \/ RelireProposition(r)

\* POST /missions/{id}/reschedule/answer.
RepondreReprogrammation(r) ==
  \/ \E accepte \in BOOLEAN : DemanderReprise(r, accepte)
  \/ AccepterReprise(r)
  \/ RefuserReprise(r)

\* The HTTP status of each answer: 2xx says that the row was written.
StatutReprogrammation(code) ==
  CASE code = "RESCHEDULE_PROPOSED" -> 201
    [] code \in {"RESCHEDULE_ACCEPTED", "RESCHEDULE_DECLINED"} -> 200
    [] code = "RESCHEDULE_EXPIRED" -> 410
    [] code \in {"PROVIDER_DECLINED", "RESCHEDULE_ALREADY_PROPOSED",
                 "RESCHEDULE_ALREADY_ANSWERED", "PROVIDER_BUSY"} -> 409
    [] OTHER -> 422

-----------------------------------------------------------------------------
ReprogrammationOK ==
  /\ proposition \in {"ABSENTE"} \cup Statuts
  /\ accord \in BOOLEAN
  /\ occupe \in BOOLEAN
  /\ reprises \in 0..REPRISES_MAX
  /\ requete \in [Requetes -> EtatsReprogrammation]

\* However many proposals and answers cross, one Mission is created, by one
\* acceptance, of a Mission that was cancelled by its provider and had a devis;
\* and whoever was answered 2xx has a row.
RepriseFondee ==
  /\ reprises = IF proposition = "ACCEPTED" THEN 1 ELSE 0
  /\ proposition # "ABSENTE" =>
       accord /\ statut = "CANCELLED" /\ annuleePar = "CANCELLED_PROVIDER"
  /\ \A r \in Requetes :
       /\ requete[r].op = "repondu"
       /\ StatutReprogrammation(requete[r].code) \in {200, 201}
       => proposition # "ABSENTE"
=============================================================================
