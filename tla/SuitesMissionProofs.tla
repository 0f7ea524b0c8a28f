------------------------- MODULE SuitesMissionProofs -------------------------
(***************************************************************************)
(* What holds of a Mission and of its follow-ups for any number of         *)
(* requests and of accounts of the console, and any length of the windows: *)
(* one cancelled Mission is taken up once, a conversation passes its limit *)
(* by no more than the requests that cross, nobody notes after having      *)
(* read, a dispute is decided once, as announced, by someone who may.      *)
(*                                                                         *)
(* Each follow-up has its inductive invariant, which says what a request   *)
(* carries from its reads to its write and may still rely on: the follow-  *)
(* up reads the Mission, and the Mission goes on meanwhile.                *)
(***************************************************************************)
EXTENDS SuitesMission, FiniteSetTheorems, TLAPS

-----------------------------------------------------------------------------
\* The Mission.
MissionInv ==
  /\ MissionOK
  /\ annuleePar # "aucun" => statut = "CANCELLED"
  /\ validee > 0 => statut = "VALIDATED"

\* What a follow-up that read the Mission may still say of it: an end is
\* final, its author too, and the clocks only go on.
MissionSuit ==
  /\ statut \in Finis => statut' \in Finis
  /\ statut \in {"VALIDATED", "CANCELLED"} =>
       statut' = statut /\ annuleePar' = annuleePar
  /\ finie <= finie'
  /\ validee <= validee'

LEMMA MissionInvNext ==
  ASSUME MissionInv, MissionNext
  PROVE  MissionInv' /\ MissionSuit
<1> USE JoursAssumption
    DEF MissionInv, MissionOK, MissionSuit, EnCours, Finis, Jours
<1>1. CASE AvancerMission
  BY <1>1 DEF AvancerMission, Suivante
<1>2. CASE AbandonnerMission
  BY <1>2 DEF AbandonnerMission
<1>3. CASE ValiderMission
  BY <1>3 DEF ValiderMission
<1>4. CASE PasserJour
  BY <1>4 DEF PasserJour
<1>5. ASSUME NEW auteur \in {"CANCELLED_USER", "CANCELLED_PROVIDER"},
             AnnulerMission(auteur)
      PROVE  MissionInv' /\ MissionSuit
  BY <1>5 DEF AnnulerMission
<1> QED BY <1>1, <1>2, <1>3, <1>4, <1>5 DEF MissionNext

LEMMA MissionIntacte ==
  ASSUME MissionInv, UNCHANGED mission
  PROVE  MissionInv' /\ MissionSuit
BY JoursAssumption DEF MissionInv, MissionOK, MissionSuit, mission, Jours

LEMMA MissionInvInit == MissionInit => MissionInv
BY JoursAssumption DEF MissionInit, MissionInv, MissionOK, EnCours, Finis, Jours

\* The requests other than r are where they were.
LEMMA AutresRequetes ==
  ASSUME NEW etats, requete \in [Requetes -> etats],
         NEW r \in Requetes, NEW e \in etats, Devient(r, e)
  PROVE  /\ requete' \in [Requetes -> etats]
         /\ \A q \in Requetes : requete'[q] = IF q = r THEN e ELSE requete[q]
BY DEF Devient

-----------------------------------------------------------------------------
\* Rescheduling.  A Mission that may be proposed again stays so.
Proposable ==
  accord /\ statut = "CANCELLED" /\ annuleePar = "CANCELLED_PROVIDER"

Ecrites == {"RESCHEDULE_PROPOSED", "RESCHEDULE_ACCEPTED", "RESCHEDULE_DECLINED"}

\* What a request in state e relies on.
RepriseSuivie(e) ==
  /\ e.op = "proposer" => Proposable
  /\ e.op = "repondu" /\ e.code \in Ecrites => proposition # "ABSENTE"

ReprogrammationInv ==
  /\ proposition \in {"ABSENTE"} \cup Statuts
  /\ accord \in BOOLEAN /\ occupe \in BOOLEAN
  /\ reprises = IF proposition = "ACCEPTED" THEN 1 ELSE 0
  /\ proposition # "ABSENTE" => Proposable
  /\ requete \in [Requetes -> EtatsReprogrammation]
  /\ \A r \in Requetes : RepriseSuivie(requete[r])

LEMMA ReprogrammationInvSuffit ==
  ReprogrammationInv => ReprogrammationOK /\ RepriseFondee
<1> SUFFICES ASSUME ReprogrammationInv PROVE ReprogrammationOK /\ RepriseFondee
  OBVIOUS
<1>1. \A code : StatutReprogrammation(code) \in {200, 201} => code \in Ecrites
  BY DEF StatutReprogrammation, Ecrites
<1>2. reprises \in 0..REPRISES_MAX
  BY DEF ReprogrammationInv, REPRISES_MAX
<1> QED BY <1>1, <1>2
        DEF ReprogrammationInv, ReprogrammationOK, RepriseFondee, RepriseSuivie,
            Proposable

LEMMA EtatsAdmisReprogrammation ==
  /\ Repos \in EtatsReprogrammation
  /\ \A op \in {"proposer", "relire", "accepter", "refuser"} :
       [op |-> op] \in EtatsReprogrammation
  /\ \A code \in CodesReprogrammation : Repondu(code) \in EtatsReprogrammation
BY DEF EtatsReprogrammation, Repondu

ReprogrammationPas ==
  \/ ChangerDeMission
  \/ \E r \in Requetes : \/ Interrompre(r) /\ UNCHANGED <<mission, reprogrammation>>
                         \/ ProposerReprogrammation(r)
                         \/ RepondreReprogrammation(r)

\* The Mission goes on, and nothing else moves.
LEMMA ReprogrammationSuit ==
  ASSUME ReprogrammationInv, MissionSuit, UNCHANGED <<requete, reprogrammation>>
  PROVE  ReprogrammationInv'
BY DEF ReprogrammationInv, RepriseSuivie, Proposable, MissionSuit, reprogrammation

\* A request moves, and what the others rely on is kept.
LEMMA RepriseReunie ==
  ASSUME ReprogrammationInv, UNCHANGED mission, UNCHANGED accord,
         NEW r \in Requetes, NEW e \in EtatsReprogrammation, Devient(r, e),
         RepriseSuivie(e)',
         proposition' \in {"ABSENTE"} \cup Statuts, occupe' \in BOOLEAN,
         reprises' = IF proposition' = "ACCEPTED" THEN 1 ELSE 0,
         proposition' # "ABSENTE" => Proposable,
         proposition # "ABSENTE" => proposition' # "ABSENTE"
  PROVE  ReprogrammationInv'
<1>1. Proposable' <=> Proposable
  BY DEF Proposable, mission
<1>2. /\ requete' \in [Requetes -> EtatsReprogrammation]
      /\ \A q \in Requetes : requete'[q] = IF q = r THEN e ELSE requete[q]
  BY AutresRequetes DEF ReprogrammationInv
<1>3. ASSUME NEW q \in Requetes PROVE RepriseSuivie(requete[q])'
  <2>1. CASE q = r
    BY <1>2, <2>1 DEF RepriseSuivie
  <2>2. CASE q # r
    BY <1>1, <1>2, <2>2 DEF ReprogrammationInv, RepriseSuivie
  <2> QED BY <2>1, <2>2
<1> QED BY <1>1, <1>2, <1>3 DEF ReprogrammationInv

\* The same when the tables are left alone.
LEMMA RepriseCalme ==
  ASSUME ReprogrammationInv, UNCHANGED <<mission, reprogrammation>>,
         NEW r \in Requetes, NEW e \in EtatsReprogrammation, Devient(r, e),
         RepriseSuivie(e)
  PROVE  ReprogrammationInv'
<1>1. UNCHANGED <<mission, accord, proposition, occupe, reprises>>
  BY DEF reprogrammation
<1>2. RepriseSuivie(e)'
  BY <1>1 DEF RepriseSuivie, Proposable, mission
<1> QED BY <1>1, <1>2, RepriseReunie DEF ReprogrammationInv

LEMMA ReprogrammationInvNext ==
  ASSUME MissionInv, ReprogrammationInv, ReprogrammationPas
  PROVE  ReprogrammationInv'
<1>t. /\ proposition \in {"ABSENTE"} \cup Statuts
      /\ reprises = IF proposition = "ACCEPTED" THEN 1 ELSE 0
      /\ proposition # "ABSENTE" => Proposable
      /\ occupe \in BOOLEAN
  BY DEF ReprogrammationInv
<1>r. \A code : RepriseSuivie(Repondu(code)) <=>
                  (code \in Ecrites => proposition # "ABSENTE")
  BY DEF RepriseSuivie, Repondu
<1>s. \A code : RepriseSuivie(Repondu(code))' <=>
                  (code \in Ecrites => proposition' # "ABSENTE")
  BY DEF RepriseSuivie, Repondu
<1>o. \A op \in {"relire", "accepter", "refuser", "repos"} :
        RepriseSuivie([op |-> op]) /\ RepriseSuivie([op |-> op])'
  BY DEF RepriseSuivie
<1>1. CASE ChangerDeMission
  <2>1. UNCHANGED <<mission, requete, proposition, accord, reprises>>
        /\ occupe' = ~occupe
    BY <1>1 DEF ChangerDeMission
  <2> QED BY <2>1 DEF ReprogrammationInv, RepriseSuivie, Proposable, mission
<1>2. ASSUME NEW r \in Requetes, Interrompre(r), UNCHANGED <<mission, reprogrammation>>
      PROVE  ReprogrammationInv'
  <2>1. Repos \in EtatsReprogrammation /\ RepriseSuivie(Repos)
    BY <1>o, EtatsAdmisReprogrammation DEF Repos
  <2> QED BY <1>2, <2>1, RepriseCalme DEF Interrompre
<1>3. ASSUME NEW r \in Requetes, DemanderProposition(r)
      PROVE  ReprogrammationInv'
  <2>0. PICK refus : refus = Refus
    OBVIOUS
  <2>1. CASE refus = "aucun"
    <3>1. Devient(r, [op |-> "proposer"]) /\ UNCHANGED <<mission, reprogrammation>>
      BY <1>3, <2>0, <2>1 DEF DemanderProposition
    <3>2. Proposable
      BY <2>0, <2>1
         DEF Refus, RefusDuDomaine, Proposable, MissionInv, MissionOK
    <3>3. RepriseSuivie([op |-> "proposer"])
      BY <3>2 DEF RepriseSuivie
    <3> QED BY <3>1, <3>3, EtatsAdmisReprogrammation, RepriseCalme
  <2>2. CASE refus # "aucun"
    <3>1. Devient(r, Repondu(refus)) /\ UNCHANGED <<mission, reprogrammation>>
      BY <1>3, <2>0, <2>2 DEF DemanderProposition
    <3>2. refus \in CodesReprogrammation \ Ecrites
      BY <2>0, <2>2 DEF Refus, RefusDuDomaine, CodesReprogrammation, Ecrites
    <3> QED BY <1>r, <3>1, <3>2, EtatsAdmisReprogrammation, RepriseCalme
  <2> QED BY <2>1, <2>2
<1>4. ASSUME NEW r \in Requetes, InsererProposition(r)
      PROVE  ReprogrammationInv'
  <2>1. UNCHANGED <<mission, accord, occupe, reprises>> /\ requete[r].op = "proposer"
    BY <1>4 DEF InsererProposition
  <2>2. Proposable
    BY <2>1 DEF ReprogrammationInv, RepriseSuivie
  <2>3. CASE /\ proposition = "ABSENTE" /\ proposition' = "PROPOSED"
             /\ Devient(r, Repondu("RESCHEDULE_PROPOSED"))
    BY <1>t, <1>s, <2>1, <2>2, <2>3, EtatsAdmisReprogrammation, RepriseReunie
       DEF Statuts, CodesReprogrammation
  <2>4. CASE Devient(r, [op |-> "relire"]) /\ UNCHANGED proposition
    BY <1>o, <2>1, <2>4, EtatsAdmisReprogrammation, RepriseCalme DEF reprogrammation
  <2> QED BY <1>4, <2>3, <2>4 DEF InsererProposition
<1>5. ASSUME NEW r \in Requetes, RelireProposition(r)
      PROVE  ReprogrammationInv'
  <2>1. PICK code \in {"PROVIDER_DECLINED", "RESCHEDULE_ALREADY_PROPOSED"} :
          Devient(r, Repondu(code)) /\ UNCHANGED <<mission, reprogrammation>>
    BY <1>5 DEF RelireProposition
  <2>2. code \in CodesReprogrammation \ Ecrites
    BY DEF CodesReprogrammation, Ecrites
  <2> QED BY <1>r, <2>1, <2>2, EtatsAdmisReprogrammation, RepriseCalme
<1>6. ASSUME NEW r \in Requetes, NEW accepte \in BOOLEAN, DemanderReprise(r, accepte)
      PROVE  ReprogrammationInv'
  <2>1. PICK op \in {"accepter", "refuser"} :
          Devient(r, [op |-> op]) /\ UNCHANGED <<mission, reprogrammation>>
    BY <1>6 DEF DemanderReprise
  <2> QED BY <1>o, <2>1, EtatsAdmisReprogrammation, RepriseCalme
<1>7. ASSUME NEW r \in Requetes, AccepterReprise(r)
      PROVE  ReprogrammationInv'
  <2>1. UNCHANGED <<mission, accord>>
    BY <1>7 DEF AccepterReprise
  <2>2. CASE /\ AttendReponse /\ proposition' = "ACCEPTED" /\ occupe' = TRUE
             /\ reprises' = reprises + 1
             /\ Devient(r, Repondu("RESCHEDULE_ACCEPTED"))
    BY <1>t, <1>s, <2>1, <2>2, EtatsAdmisReprogrammation, RepriseReunie
       DEF Statuts, CodesReprogrammation, AttendReponse
  <2>3. ASSUME NEW code \in {"PROVIDER_BUSY", "RESCHEDULE_ALREADY_ANSWERED"},
               Devient(r, Repondu(code)), UNCHANGED <<proposition, reprises, occupe>>
        PROVE  ReprogrammationInv'
    <3>1. code \in CodesReprogrammation \ Ecrites
      BY DEF CodesReprogrammation, Ecrites
    <3> QED BY <1>r, <2>1, <2>3, <3>1, EtatsAdmisReprogrammation, RepriseCalme
            DEF reprogrammation
  <2> QED BY <1>7, <2>2, <2>3 DEF AccepterReprise
<1>8. ASSUME NEW r \in Requetes, RefuserReprise(r)
      PROVE  ReprogrammationInv'
  <2>1. UNCHANGED <<mission, accord, occupe, reprises>>
    BY <1>8 DEF RefuserReprise
  <2>2. CASE /\ proposition = "PROPOSED" /\ proposition' = "DECLINED"
             /\ Devient(r, Repondu("RESCHEDULE_DECLINED"))
    BY <1>t, <1>s, <2>1, <2>2, EtatsAdmisReprogrammation, RepriseReunie
       DEF Statuts, CodesReprogrammation
  <2>3. CASE /\ Devient(r, Repondu("RESCHEDULE_ALREADY_ANSWERED"))
             /\ UNCHANGED proposition
    BY <1>r, <2>1, <2>3, EtatsAdmisReprogrammation, RepriseCalme
       DEF reprogrammation, CodesReprogrammation, Ecrites
  <2> QED BY <1>8, <2>2, <2>3 DEF RefuserReprise
<1> QED BY <1>1, <1>2, <1>3, <1>4, <1>5, <1>6, <1>7, <1>8
        DEF ReprogrammationPas, ProposerReprogrammation, RepondreReprogrammation

LEMMA ReprogrammationInvInit ==
  ASSUME AppelsInit, ReprogrammationInit
  PROVE  ReprogrammationInv
BY EtatsAdmisReprogrammation
   DEF AppelsInit, ReprogrammationInit, ReprogrammationInv, RepriseSuivie, Repos

-----------------------------------------------------------------------------
\* Position tracking.  The positions kept are among those written.
SuiviInv ==
  /\ SuiviOK
  /\ positions <= ecrites

LEMMA SuiviInvSuffit == SuiviInv => SuiviOK
BY DEF SuiviInv

LEMMA EtatsAdmisSuivi ==
  /\ Repos \in EtatsSuivi
  /\ \A op \in {"consentir", "retirer"} : [op |-> op] \in EtatsSuivi
  /\ \A op \in {"consentement", "derniere"}, lu \in EnCours \cup Finis :
       [op |-> op, lu |-> lu] \in EtatsSuivi
  /\ \A horsZone \in BOOLEAN :
       [op |-> "relever", horsZone |-> horsZone] \in EtatsSuivi
  /\ \A code \in CodesSuivi \cup Vues : Repondu(code) \in EtatsSuivi
BY DEF EtatsSuivi, Repondu

LEMMA ChampsSuivi ==
  ASSUME NEW e \in EtatsSuivi
  PROVE  e.op = "relever" => e.horsZone \in BOOLEAN
BY DEF EtatsSuivi, Repos

SuiviPas ==
  \/ PerdrePosition \/ PurgerTraces
  \/ \E r \in Requetes : \/ Interrompre(r) /\ UNCHANGED <<mission, suivi>>
                         \/ ConsentirSuivi(r)
                         \/ ReleverSuivi(r)
                         \/ ConsulterSuivi(r)

LEMMA SuiviSuit ==
  ASSUME SuiviInv, UNCHANGED <<requete, suivi>>
  PROVE  SuiviInv'
BY DEF SuiviInv, SuiviOK, suivi

LEMMA SuiviCalme ==
  ASSUME SuiviInv, UNCHANGED suivi, NEW r \in Requetes, NEW e \in EtatsSuivi,
         Devient(r, e)
  PROVE  SuiviInv'
<1>1. requete' \in [Requetes -> EtatsSuivi]
  BY AutresRequetes DEF SuiviInv, SuiviOK
<1> QED BY <1>1 DEF SuiviInv, SuiviOK, suivi

LEMMA SuiviInvNext ==
  ASSUME MissionInv, SuiviInv, SuiviPas
  PROVE  SuiviInv'
<1>t. /\ consenti \in BOOLEAN /\ derniere \in Releves
      /\ positions \in Nat /\ ecrites \in Nat /\ trajet \in Nat
      /\ positions <= ecrites /\ ecrites <= POSITIONS_MAX /\ trajet <= POSITIONS_MAX
      /\ requete \in [Requetes -> EtatsSuivi] /\ POSITIONS_MAX \in Nat
  BY SuiviAssumption DEF SuiviInv, SuiviOK
<1>m. statut \in EnCours \cup Finis
  BY DEF MissionInv, MissionOK
<1>1. CASE PerdrePosition
  <2>1. derniere' \in Releves
    BY <1>1, <1>t DEF PerdrePosition, Releves
  <2> QED BY <1>1, <2>1 DEF PerdrePosition, SuiviInv, SuiviOK
<1>2. CASE PurgerTraces
  BY <1>2, <1>t DEF PurgerTraces, SuiviInv, SuiviOK
<1>3. ASSUME NEW r \in Requetes, Interrompre(r), UNCHANGED <<mission, suivi>>
      PROVE  SuiviInv'
  BY <1>3, EtatsAdmisSuivi, SuiviCalme DEF Interrompre
<1>4. ASSUME NEW r \in Requetes, NEW code \in CodesSuivi \cup Vues,
             Devient(r, Repondu(code)), UNCHANGED suivi
      PROVE  SuiviInv'
  BY <1>4, EtatsAdmisSuivi, SuiviCalme
<1>5. ASSUME NEW r \in Requetes, ConsentirSuivi(r)
      PROVE  SuiviInv'
  <2>1. CASE RefuserSuivi(r)
    BY <1>4, <2>1 DEF RefuserSuivi, CodesSuivi
  <2>2. ASSUME NEW accepte \in BOOLEAN, DemanderConsentement(r, accepte)
        PROVE  SuiviInv'
    <3>1. PICK op \in {"consentir", "retirer"} :
            Devient(r, [op |-> op]) /\ UNCHANGED suivi
      BY <2>2 DEF DemanderConsentement
    <3> QED BY <3>1, EtatsAdmisSuivi, SuiviCalme
  <2>3. CASE Consentir(r) \/ RetirerConsentement(r)
    <3>1. PICK code \in CodesSuivi : Devient(r, Repondu(code))
      BY <2>3 DEF Consentir, RetirerConsentement, CodesSuivi
    <3>2. requete' \in [Requetes -> EtatsSuivi]
      BY <1>t, <3>1, EtatsAdmisSuivi, AutresRequetes
    <3>3. consenti' \in BOOLEAN
      BY <2>3 DEF Consentir, RetirerConsentement
    <3> QED BY <2>3, <3>2, <3>3
            DEF Consentir, RetirerConsentement, SuiviInv, SuiviOK
  <2> QED BY <1>5, <2>1, <2>2, <2>3 DEF ConsentirSuivi
<1>6. ASSUME NEW r \in Requetes, ReleverSuivi(r)
      PROVE  SuiviInv'
  <2>1. CASE RefuserSuivi(r)
    BY <1>4, <2>1 DEF RefuserSuivi, CodesSuivi
  <2>2. CASE DemanderReleve(r)
    BY <1>m, <2>2, EtatsAdmisSuivi, SuiviCalme DEF DemanderReleve
  <2>3. ASSUME NEW horsZone \in BOOLEAN, LireConsentement(r, horsZone)
        PROVE  SuiviInv'
    <3>1. PICK refus : refus = RefusReleve(requete[r].lu)
      OBVIOUS
    <3>2. CASE refus = "aucun"
      BY <2>3, <3>1, <3>2, EtatsAdmisSuivi, SuiviCalme DEF LireConsentement
    <3>3. CASE refus # "aucun"
      <4>1. refus \in CodesSuivi
        BY <3>1, <3>3 DEF RefusReleve, CodesSuivi
      <4> QED BY <1>4, <2>3, <3>1, <3>3, <4>1 DEF LireConsentement
    <3> QED BY <3>2, <3>3
  <2>4. CASE Relever(r)
    <3>1. Devient(r, Repondu("TRACKING_RECORDED")) /\ requete[r].horsZone \in BOOLEAN
      BY <1>t, <2>4, ChampsSuivi DEF Relever
    <3>2. requete' \in [Requetes -> EtatsSuivi]
      BY <1>t, <3>1, EtatsAdmisSuivi, AutresRequetes DEF CodesSuivi
    <3>3. derniere' \in Releves
      BY <2>4, <3>1 DEF Relever, Releves
    <3>4. /\ positions' = positions + 1 /\ ecrites' = ecrites + 1
          /\ ecrites < POSITIONS_MAX /\ UNCHANGED <<consenti, trajet>>
      BY <2>4 DEF Relever
    <3> QED BY <1>t, <3>2, <3>3, <3>4 DEF SuiviInv, SuiviOK
  <2> QED BY <1>6, <2>1, <2>2, <2>3, <2>4 DEF ReleverSuivi
<1>7. ASSUME NEW r \in Requetes, ConsulterSuivi(r)
      PROVE  SuiviInv'
  <2>1. CASE RefuserSuivi(r)
    BY <1>4, <2>1 DEF RefuserSuivi, CodesSuivi
  <2>2. CASE DemanderVue(r)
    BY <1>m, <2>2, EtatsAdmisSuivi, SuiviCalme DEF DemanderVue
  <2>3. CASE Consulter(r)
    <3>1. EtatDuSuivi(requete[r].lu) \in Vues
      BY <1>t DEF EtatDuSuivi, Vues, Releves
    <3> QED BY <1>4, <2>3, <3>1 DEF Consulter
  <2> QED BY <1>7, <2>1, <2>2, <2>3 DEF ConsulterSuivi
<1> QED BY <1>1, <1>2, <1>3, <1>5, <1>6, <1>7 DEF SuiviPas

LEMMA SuiviInvInit ==
  ASSUME AppelsInit, SuiviInit
  PROVE  SuiviInv
<1>1. requete \in [Requetes -> EtatsSuivi]
  BY EtatsAdmisSuivi DEF AppelsInit
<1>2. derniere \in Releves
  BY DEF SuiviInit, Releves
<1>3. 0 \in 0..POSITIONS_MAX /\ 0 <= 0
  BY SuiviAssumption
<1>4. /\ consenti \in BOOLEAN /\ positions \in 0..POSITIONS_MAX
      /\ ecrites \in 0..POSITIONS_MAX /\ trajet \in 0..POSITIONS_MAX
      /\ positions <= ecrites
  BY <1>3 DEF SuiviInit
<1> QED BY <1>1, <1>2, <1>4 DEF SuiviInv, SuiviOK

-----------------------------------------------------------------------------
\* Conversation.  A request that has found room counts with the rows: rows and
\* requests about to write never exceed the limit by more than the others.
Ecrivent == {r \in Requetes : requete[r].op = "ecrire"}

PlaceBornee ==
  messages + Cardinality(Ecrivent) <= MESSAGES_MAX + Cardinality(Requetes) - 1

MessageSuivi(e) == e.op = "repondu" /\ e.code = "MESSAGE_SENT" => messages > 0

ConversationInv ==
  /\ ConversationOK
  /\ PlaceBornee
  /\ \A r \in Requetes : MessageSuivi(requete[r])

LEMMA Comptees ==
  /\ Cardinality(Requetes) \in Nat /\ Cardinality(Requetes) >= 1
  /\ IsFiniteSet(Ecrivent) /\ Cardinality(Ecrivent) \in Nat
  /\ IsFiniteSet(Ecrivent') /\ Cardinality(Ecrivent') \in Nat
  /\ Cardinality(Ecrivent') <= Cardinality(Requetes)
  /\ Ecrivent' \subseteq Ecrivent => Cardinality(Ecrivent') <= Cardinality(Ecrivent)
<1>1. IsFiniteSet(Requetes) /\ Requetes # {}
  BY RequetesAssumption
<1>2. Cardinality(Requetes) \in Nat /\ Cardinality(Requetes) # 0
  BY <1>1, FS_CardinalityType, FS_EmptySet
<1>3. Ecrivent \subseteq Requetes /\ Ecrivent' \subseteq Requetes
  BY DEF Ecrivent
<1>4. IsFiniteSet(Ecrivent) /\ IsFiniteSet(Ecrivent')
  BY <1>1, <1>3, FS_Subset
<1>5. Cardinality(Ecrivent) \in Nat /\ Cardinality(Ecrivent') \in Nat
  BY <1>4, FS_CardinalityType
<1>6. Cardinality(Ecrivent') <= Cardinality(Requetes)
  BY <1>1, <1>3, FS_Subset
<1>7. Ecrivent' \subseteq Ecrivent => Cardinality(Ecrivent') <= Cardinality(Ecrivent)
  BY <1>4, FS_Subset
<1> QED BY <1>2, <1>4, <1>5, <1>6, <1>7

LEMMA ConversationInvSuffit ==
  ConversationInv => ConversationOK /\ ConversationBornee
<1> SUFFICES ASSUME ConversationInv PROVE ConversationOK /\ ConversationBornee
  OBVIOUS
<1>1. messages \in Nat /\ MESSAGES_MAX \in Nat
  BY ConversationAssumption DEF ConversationInv, ConversationOK
<1>2. messages < MESSAGES_MAX + Cardinality(Requetes)
  BY <1>1, Comptees DEF ConversationInv, PlaceBornee
<1>3. \A code : StatutConversation(code) = 201 => code = "MESSAGE_SENT"
  BY DEF StatutConversation
<1> QED BY <1>2, <1>3 DEF ConversationInv, MessageSuivi, ConversationBornee

LEMMA EtatsAdmisConversation ==
  /\ Repos \in EtatsConversation
  /\ \A texte \in Textes, jour \in Jours :
       [op |-> "etat", texte |-> texte, jour |-> jour] \in EtatsConversation
  /\ \A op \in {"ecrire", "consigner", "bilan"} : [op |-> op] \in EtatsConversation
  /\ \A code \in CodesConversation : Repondu(code) \in EtatsConversation
BY DEF EtatsConversation, Repondu

ConversationPas ==
  \E r \in Requetes : \/ Interrompre(r) /\ UNCHANGED <<mission, conversation>>
                      \/ EnvoyerMessage(r)
                      \/ LireConversation(r)

LEMMA ConversationSuit ==
  ASSUME ConversationInv, UNCHANGED <<requete, conversation>>
  PROVE  ConversationInv'
BY DEF ConversationInv, ConversationOK, PlaceBornee, Ecrivent, MessageSuivi, conversation

\* A request moves, with its place if it has one.
LEMMA MessageReuni ==
  ASSUME ConversationInv, NEW r \in Requetes, NEW e \in EtatsConversation, Devient(r, e),
         MessageSuivi(e)', messages' \in Nat, messages <= messages',
         tentatives' \in 0..TENTATIVES_SIGNALEES, PlaceBornee'
  PROVE  ConversationInv'
<1>1. /\ requete' \in [Requetes -> EtatsConversation]
      /\ \A q \in Requetes : requete'[q] = IF q = r THEN e ELSE requete[q]
  BY AutresRequetes DEF ConversationInv, ConversationOK
<1>2. messages \in Nat
  BY DEF ConversationInv, ConversationOK
<1>3. ASSUME NEW q \in Requetes PROVE MessageSuivi(requete[q])'
  <2>1. CASE q = r
    BY <1>1, <2>1 DEF MessageSuivi
  <2>2. CASE q # r
    BY <1>1, <1>2, <2>2 DEF ConversationInv, MessageSuivi
  <2> QED BY <2>1, <2>2
<1> QED BY <1>1, <1>3 DEF ConversationInv, ConversationOK

\* A request that does not reserve a place, and does not write.
LEMMA MessageCalme ==
  ASSUME ConversationInv, NEW r \in Requetes, NEW e \in EtatsConversation, Devient(r, e),
         e.op # "ecrire", MessageSuivi(e), UNCHANGED messages,
         tentatives' \in 0..TENTATIVES_SIGNALEES
  PROVE  ConversationInv'
<1>1. messages \in Nat /\ MESSAGES_MAX \in Nat
  BY ConversationAssumption DEF ConversationInv, ConversationOK
<1>2. Ecrivent' \subseteq Ecrivent
  <2>1. \A q \in Requetes : requete'[q] = IF q = r THEN e ELSE requete[q]
    BY AutresRequetes DEF ConversationInv, ConversationOK
  <2> QED BY <2>1 DEF Ecrivent
<1>3. PlaceBornee'
  BY <1>1, <1>2, Comptees DEF ConversationInv, PlaceBornee
<1>4. MessageSuivi(e)'
  BY DEF MessageSuivi
<1> QED BY <1>1, <1>3, <1>4, MessageReuni

LEMMA ConversationInvNext ==
  ASSUME MissionInv, ConversationInv, ConversationPas
  PROVE  ConversationInv'
<1>t. /\ messages \in Nat /\ tentatives \in 0..TENTATIVES_SIGNALEES
      /\ requete \in [Requetes -> EtatsConversation]
      /\ MESSAGES_MAX \in Nat /\ TENTATIVES_SIGNALEES \in Nat
  BY ConversationAssumption DEF ConversationInv, ConversationOK
<1>1. ASSUME NEW r \in Requetes, Interrompre(r), UNCHANGED conversation
      PROVE  ConversationInv'
  BY <1>1, <1>t, EtatsAdmisConversation, MessageCalme
     DEF Interrompre, Repos, MessageSuivi, conversation
<1>2. ASSUME NEW r \in Requetes, NEW code \in CodesConversation \ {"MESSAGE_SENT"},
             Devient(r, Repondu(code)), UNCHANGED conversation
      PROVE  ConversationInv'
  <2>1. Repondu(code).op # "ecrire" /\ MessageSuivi(Repondu(code))
    BY DEF Repondu, MessageSuivi
  <2> QED BY <1>2, <1>t, <2>1, EtatsAdmisConversation, MessageCalme DEF conversation
<1>3. ASSUME NEW r \in Requetes, RefuserEtranger(r) \/ LireFil(r)
      PROVE  ConversationInv'
  BY <1>2, <1>3 DEF RefuserEtranger, LireFil, CodesConversation
<1>4. ASSUME NEW r \in Requetes, NEW texte \in Textes, DemanderMessage(r, texte)
      PROVE  ConversationInv'
  <2> DEFINE e == [op |-> "etat", texte |-> texte, jour |-> finie]
  <2>1. e \in EtatsConversation /\ e.op # "ecrire" /\ MessageSuivi(e)
    BY EtatsAdmisConversation DEF MissionInv, MissionOK, MessageSuivi
  <2>2. Devient(r, e) /\ UNCHANGED conversation
    BY <1>4 DEF DemanderMessage
  <2> HIDE DEF e
  <2> QED BY <1>t, <2>1, <2>2, MessageCalme DEF conversation
<1>5. ASSUME NEW r \in Requetes, LireEtat(r)
      PROVE  ConversationInv'
  <2>0. PICK refus, texte, jour :
          /\ texte = requete[r].texte /\ jour = requete[r].jour
          /\ refus = RefusMessage(texte, jour)
    OBVIOUS
  <2>1. UNCHANGED conversation /\ requete[r].op = "etat"
    BY <1>5 DEF LireEtat
  <2>2. CASE refus # "aucun"
    <3>1. refus \in CodesConversation \ {"MESSAGE_SENT"}
      BY <2>0, <2>2 DEF RefusMessage, CodesConversation
    <3> QED BY <1>2, <1>5, <2>0, <2>1, <2>2, <3>1 DEF LireEtat
  <2>3. CASE refus = "aucun" /\ Recoit(texte) = "consigner"
    <3>1. Devient(r, [op |-> "consigner"])
      BY <1>5, <2>0, <2>3 DEF LireEtat
    <3>2. [op |-> "consigner"].op # "ecrire" /\ MessageSuivi([op |-> "consigner"])
      BY DEF MessageSuivi
    <3> QED BY <1>t, <2>1, <3>1, <3>2, EtatsAdmisConversation, MessageCalme
            DEF conversation
  <2>4. CASE refus = "aucun" /\ Recoit(texte) = "ecrire"
    <3>1. Devient(r, [op |-> "ecrire"])
      BY <1>5, <2>0, <2>4 DEF LireEtat
    <3>2. messages < MESSAGES_MAX
      BY <1>t, <2>0, <2>4 DEF RefusMessage, Pleine
    <3>3. UNCHANGED <<messages, tentatives>>
      BY <2>1 DEF conversation
    <3>4. PlaceBornee'
      BY <1>t, <3>2, <3>3, Comptees DEF PlaceBornee
    <3>5. MessageSuivi([op |-> "ecrire"])'
      BY DEF MessageSuivi
    <3> QED BY <1>t, <3>1, <3>3, <3>4, <3>5, EtatsAdmisConversation, MessageReuni
  <2> QED BY <2>2, <2>3, <2>4 DEF Recoit
<1>6. ASSUME NEW r \in Requetes, EcrireMessage(r)
      PROVE  ConversationInv'
  <2>1. /\ requete[r].op = "ecrire" /\ messages' = messages + 1
        /\ Devient(r, Repondu("MESSAGE_SENT")) /\ UNCHANGED tentatives
    BY <1>6 DEF EcrireMessage
  <2>2. Repondu("MESSAGE_SENT") \in EtatsConversation
        /\ Repondu("MESSAGE_SENT").op = "repondu"
    BY EtatsAdmisConversation DEF CodesConversation, Repondu
  <2>3. r \in Ecrivent /\ Ecrivent' = Ecrivent \ {r}
    <3>1. \A q \in Requetes :
            requete'[q] = IF q = r THEN Repondu("MESSAGE_SENT") ELSE requete[q]
      BY <1>t, <2>1, <2>2, AutresRequetes
    <3> QED BY <2>1, <2>2, <3>1 DEF Ecrivent
  <2>4. Cardinality(Ecrivent') = Cardinality(Ecrivent) - 1
    BY <2>3, Comptees, FS_RemoveElement
  <2>5. PlaceBornee'
    BY <1>t, <2>1, <2>4, Comptees DEF ConversationInv, PlaceBornee
  <2>6. MessageSuivi(Repondu("MESSAGE_SENT"))'
    BY <1>t, <2>1 DEF MessageSuivi
  <2> QED BY <1>t, <2>1, <2>2, <2>5, <2>6, MessageReuni
<1>7. ASSUME NEW r \in Requetes, ConsignerTentative(r)
      PROVE  ConversationInv'
  <2>1. /\ Devient(r, [op |-> "bilan"]) /\ UNCHANGED messages
        /\ tentatives' \in 0..TENTATIVES_SIGNALEES
    BY <1>7, <1>t DEF ConsignerTentative
  <2>2. [op |-> "bilan"].op # "ecrire" /\ MessageSuivi([op |-> "bilan"])
    BY DEF MessageSuivi
  <2> QED BY <2>1, <2>2, EtatsAdmisConversation, MessageCalme
<1>8. ASSUME NEW r \in Requetes, BilanTentatives(r)
      PROVE  ConversationInv'
  BY <1>2, <1>8 DEF BilanTentatives, CodesConversation
<1> QED BY <1>1, <1>3, <1>4, <1>5, <1>6, <1>7, <1>8
        DEF ConversationPas, EnvoyerMessage, LireConversation

LEMMA ConversationInvInit ==
  ASSUME AppelsInit, ConversationInit
  PROVE  ConversationInv
<1>1. Ecrivent = {}
  BY DEF AppelsInit, Ecrivent, Repos
<1>2. Cardinality(Ecrivent) = 0
  BY <1>1, FS_EmptySet
<1>3. PlaceBornee
  BY <1>2, Comptees, ConversationAssumption DEF ConversationInit, PlaceBornee
<1> QED BY <1>3, EtatsAdmisConversation, ConversationAssumption
        DEF AppelsInit, ConversationInit, ConversationInv, ConversationOK, MessageSuivi,
            Repos

-----------------------------------------------------------------------------
\* Ratings.  Whoever has seen a note can no longer give his: both are given, or
\* the window is closed; the hour a request took is never ahead of the clock.
VueTardive(jour) == Notees = Cibles \/ jour >= FENETRE_NOTATION

NoteSuivie(e) ==
  /\ e.op = "validation" => (e.su => VueTardive(e.jour))
  /\ e.op = "noter" => (e.su => Notees = Cibles)
  /\ e.op \in {"validation_lue", "notes_lues"} => e.jour <= validee
  /\ e.op = "relire" => Notees # {}
  /\ e.op = "repondu" /\ e.code = "RATING_RECORDED" => Notees # {}

NotationInv ==
  /\ NotationOK
  /\ \A c \in Cibles : notes[c] # "informee"
  /\ nombreNotes = IF "PROVIDER" \in Notees THEN 1 ELSE 0
  /\ vues # {} => VueTardive(validee)
  /\ \A r \in Requetes : NoteSuivie(requete[r])

LEMMA NotationInvSuffit == NotationInv => NotationOK /\ NotesAveugles
<1> SUFFICES ASSUME NotationInv PROVE NotationOK /\ NotesAveugles
  OBVIOUS
<1>1. \A code : StatutNotation(code) = 201 => code = "RATING_RECORDED"
  BY DEF StatutNotation
<1> QED BY <1>1 DEF NotationInv, NoteSuivie, NotesAveugles

LEMMA EtatsAdmisNotation ==
  /\ Repos \in EtatsNotation
  /\ \A cible \in Cibles, avis \in Avis, jour \in Jours, su \in BOOLEAN :
       [op |-> "validation", cible |-> cible, avis |-> avis, jour |-> jour,
        su |-> su] \in EtatsNotation
  /\ \A cible \in Cibles, jour \in Jours, su \in BOOLEAN :
       [op |-> "noter", cible |-> cible, jour |-> jour, su |-> su] \in EtatsNotation
  /\ \A jour \in Jours : [op |-> "relire", jour |-> jour] \in EtatsNotation
  /\ \A op \in {"validation_lue", "notes_lues"}, auteur \in Cibles, jour \in Jours :
       [op |-> op, auteur |-> auteur, jour |-> jour] \in EtatsNotation
  /\ \A code \in CodesNotation : Repondu(code) \in EtatsNotation
  /\ \A publiee \in BOOLEAN :
       [op |-> "repondu", code |-> "RATING_RECORDED", publiee |-> publiee]
         \in EtatsNotation
  /\ \A visibles \in SUBSET Cibles :
       [op |-> "repondu", code |-> "RATINGS", visibles |-> visibles]
         \in EtatsNotation
BY DEF EtatsNotation, Repondu

\* What a request carries, according to the step it has reached.
LEMMA ChampsNotation ==
  ASSUME NEW e \in EtatsNotation
  PROVE  /\ e.op = "validation" =>
              /\ e.cible \in Cibles /\ e.avis \in Avis
              /\ e.jour \in Jours /\ e.su \in BOOLEAN
         /\ e.op = "noter" =>
              e.cible \in Cibles /\ e.jour \in Jours /\ e.su \in BOOLEAN
         /\ e.op = "relire" => e.jour \in Jours
         /\ e.op \in {"validation_lue", "notes_lues"} =>
              /\ e.auteur \in Cibles /\ e.jour \in Jours
              /\ e = [op |-> e.op, auteur |-> e.auteur, jour |-> e.jour]
BY DEF EtatsNotation, Repos

NotationPas ==
  \E r \in Requetes : \/ Interrompre(r) /\ UNCHANGED <<mission, notation>>
                      \/ NoterIntervention(r)
                      \/ LireNotesDeMission(r)

\* The Mission goes on: its clock with it.
LEMMA NotationSuit ==
  ASSUME MissionInv, MissionInv', NotationInv, MissionSuit,
         UNCHANGED <<requete, notation>>
  PROVE  NotationInv'
<1>1. UNCHANGED <<requete, notes, vues, nombreNotes, Notees>>
  BY DEF notation, Notees
<1>2. /\ validee \in Nat /\ validee' \in Nat /\ validee <= validee'
      /\ FENETRE_NOTATION \in Nat
  BY JoursAssumption, NotationAssumption
     DEF MissionInv, MissionOK, MissionSuit, Jours
<1>3. VueTardive(validee) => VueTardive(validee)'
  BY <1>1, <1>2 DEF VueTardive
<1>4. ASSUME NEW r \in Requetes PROVE NoteSuivie(requete[r])'
  <2>1. PICK e \in EtatsNotation : e = requete[r]
    BY DEF NotationInv, NotationOK
  <2>2. e.op \in {"validation_lue", "notes_lues"} => e.jour \in Nat
    BY ChampsNotation, JoursAssumption DEF Jours
  <2>3. NoteSuivie(e)
    BY <2>1 DEF NotationInv
  <2>4. NoteSuivie(e)'
    BY <1>1, <1>2, <2>2, <2>3 DEF NoteSuivie, VueTardive
  <2> QED BY <1>1, <2>1, <2>4
<1>5. NotationOK'
  BY <1>1 DEF NotationInv, NotationOK
<1> QED BY <1>1, <1>3, <1>4, <1>5 DEF NotationInv

\* A request moves; a note given stays.
LEMMA NoteReunie ==
  ASSUME NotationInv, UNCHANGED mission, NEW r \in Requetes, NEW e \in EtatsNotation,
         Devient(r, e), NoteSuivie(e)',
         notes' \in [Cibles -> {"absente", "aveugle"}], Notees \subseteq Notees',
         vues' \in SUBSET Cibles, vues' # {} => VueTardive(validee),
         nombreNotes' = IF "PROVIDER" \in Notees' THEN 1 ELSE 0
  PROVE  NotationInv'
<1>0. requete \in [Requetes -> EtatsNotation]
  BY DEF NotationInv, NotationOK
<1>1. /\ requete' \in [Requetes -> EtatsNotation]
      /\ \A q \in Requetes : requete'[q] = IF q = r THEN e ELSE requete[q]
  BY <1>0, AutresRequetes
<1>2. /\ Notees = Cibles => Notees' = Cibles
      /\ Notees # {} => Notees' # {}
      /\ validee' = validee
  BY DEF Notees, mission
<1>3. ASSUME NEW q \in Requetes PROVE NoteSuivie(requete[q])'
  <2>1. CASE q = r
    BY <1>1, <2>1 DEF NoteSuivie, VueTardive
  <2>2. CASE q # r
    <3>1. NoteSuivie(requete[q]) /\ requete'[q] = requete[q]
      BY <1>1, <2>2 DEF NotationInv
    <3> QED BY <1>2, <3>1 DEF NoteSuivie, VueTardive
  <2> QED BY <2>1, <2>2
<1>4. NotationOK'
  BY <1>1 DEF NotationOK
<1>5. (vues # {} => VueTardive(validee))'
  BY <1>2 DEF VueTardive
<1> QED BY <1>3, <1>4, <1>5 DEF NotationInv

\* The same when the rows are left alone.
LEMMA NoteCalme ==
  ASSUME NotationInv, UNCHANGED <<mission, notation>>,
         NEW r \in Requetes, NEW e \in EtatsNotation, Devient(r, e), NoteSuivie(e)
  PROVE  NotationInv'
<1>1. UNCHANGED <<mission, notes, vues, nombreNotes, Notees, validee>>
  BY DEF notation, Notees, mission
<1>2. NoteSuivie(e)'
  BY <1>1 DEF NoteSuivie, VueTardive
<1>3. notes \in [Cibles -> {"absente", "aveugle"}]
  BY DEF NotationInv, NotationOK
<1>4. vues \in SUBSET Cibles /\ (vues # {} => VueTardive(validee))
      /\ nombreNotes = IF "PROVIDER" \in Notees THEN 1 ELSE 0
  BY DEF NotationInv, NotationOK
<1> QED BY <1>1, <1>2, <1>3, <1>4, NoteReunie

LEMMA NotationInvNext ==
  ASSUME MissionInv, NotationInv, NotationPas
  PROVE  NotationInv'
<1>t. /\ notes \in [Cibles -> {"absente", "aveugle"}]
      /\ vues \in SUBSET Cibles
      /\ vues # {} => VueTardive(validee)
      /\ nombreNotes = IF "PROVIDER" \in Notees THEN 1 ELSE 0
      /\ requete \in [Requetes -> EtatsNotation]
      /\ \A r \in Requetes : NoteSuivie(requete[r])
  BY DEF NotationInv, NotationOK
<1>m. validee \in Jours /\ Jours \subseteq Nat /\ FENETRE_NOTATION \in Nat
  BY JoursAssumption, NotationAssumption DEF MissionInv, MissionOK, Jours
<1>1. ASSUME NEW r \in Requetes, Interrompre(r), UNCHANGED <<mission, notation>>
      PROVE  NotationInv'
  <2>1. NoteSuivie(Repos)
    BY DEF NoteSuivie, Repos
  <2> QED BY <1>1, <2>1, EtatsAdmisNotation, NoteCalme DEF Interrompre
<1>2. ASSUME NEW r \in Requetes, NEW code \in CodesNotation,
             Devient(r, Repondu(code)), UNCHANGED <<mission, notation>>
      PROVE  NotationInv'
  <2>1. NoteSuivie(Repondu(code))
    BY DEF NoteSuivie, Repondu, CodesNotation
  <2> QED BY <1>2, <2>1, EtatsAdmisNotation, NoteCalme
<1>3. ASSUME NEW r \in Requetes, SansCible(r)
      PROVE  NotationInv'
  BY <1>2, <1>3 DEF SansCible, CodesNotation
<1>4. ASSUME NEW r \in Requetes, NEW cible \in Cibles, NEW avis \in Avis,
             DemanderNote(r, cible, avis)
      PROVE  NotationInv'
  <2>0. PICK su \in BOOLEAN : su = (cible \in vues)
    <3>1. (cible \in vues) \in BOOLEAN
      OBVIOUS
    <3> QED BY <3>1, Zenon
  <2> DEFINE e == [op |-> "validation", cible |-> cible, avis |-> avis,
                   jour |-> validee, su |-> su]
  <2>1. e \in EtatsNotation
    BY <1>m, EtatsAdmisNotation
  <2>2. e.su => VueTardive(e.jour)
    BY <1>t, <2>0
  <2>3. e.op = "validation"
    OBVIOUS
  <2>4. Devient(r, e) /\ UNCHANGED <<mission, notation>>
    BY <1>4, <2>0 DEF DemanderNote
  <2> HIDE DEF e
  <2>5. NoteSuivie(e)
    BY <2>2, <2>3 DEF NoteSuivie
  <2> QED BY <2>1, <2>4, <2>5, NoteCalme
<1>5. ASSUME NEW r \in Requetes, LireValidation(r)
      PROVE  NotationInv'
  <2>0. PICK q \in EtatsNotation : q = requete[r]
    BY <1>t
  <2>1. /\ q.op = "validation" /\ q.cible \in Cibles /\ q.avis \in Avis
        /\ q.jour \in Jours /\ q.su \in BOOLEAN /\ (q.su => VueTardive(q.jour))
    BY <1>5, <1>t, <2>0, ChampsNotation DEF LireValidation, NoteSuivie
  <2>2. UNCHANGED <<mission, notation>>
    BY <1>5 DEF LireValidation
  <2>3. PICK refus : refus = RefusNote(q.avis, q.jour)
    OBVIOUS
  <2>4. CASE refus # "aucun"
    <3>1. refus \in CodesNotation
      BY <2>1, <2>3, <2>4 DEF RefusNote, CodesNotation, Avis
    <3> QED BY <1>2, <1>5, <2>0, <2>2, <2>3, <2>4, <3>1 DEF LireValidation
  <2>5. CASE refus = "aucun"
    <3> DEFINE e == [op |-> "noter", cible |-> q.cible, jour |-> q.jour,
                     su |-> q.su]
    <3>1. e \in EtatsNotation /\ e.op = "noter" /\ e.su = q.su
      BY <2>1, EtatsAdmisNotation
    <3>2. Devient(r, e)
      BY <1>5, <2>0, <2>3, <2>5 DEF LireValidation
    <3>3. ~(q.jour >= FENETRE_NOTATION)
      BY <2>3, <2>5 DEF RefusNote
    <3>4. q.su => Notees = Cibles
      BY <2>1, <3>3 DEF VueTardive
    <3> HIDE DEF e
    <3>5. NoteSuivie(e)
      BY <3>1, <3>4 DEF NoteSuivie
    <3> QED BY <2>2, <3>1, <3>2, <3>5, NoteCalme
  <2> QED BY <2>4, <2>5
<1>6. ASSUME NEW r \in Requetes, EcrireNote(r)
      PROVE  NotationInv'
  <2>0. PICK q \in EtatsNotation : q = requete[r]
    BY <1>t
  <2>1. /\ q.op = "noter" /\ q.cible \in Cibles
        /\ q.jour \in Jours /\ q.su \in BOOLEAN /\ (q.su => Notees = Cibles)
    BY <1>6, <1>t, <2>0, ChampsNotation DEF EcrireNote, NoteSuivie
  <2>2. UNCHANGED <<mission, vues>>
    BY <1>6 DEF EcrireNote
  <2>3. CASE notes[q.cible] # "absente"
    <3>1. Devient(r, Repondu("ALREADY_RATED")) /\ UNCHANGED <<mission, notation>>
      BY <1>6, <2>0, <2>2, <2>3 DEF EcrireNote, notation
    <3> QED BY <1>2, <3>1 DEF CodesNotation
  <2>4. CASE notes[q.cible] = "absente"
    <3> DEFINE e == [op |-> "relire", jour |-> q.jour]
    <3>1. q.su = FALSE
      BY <2>1, <2>4 DEF Notees
    <3>2. /\ notes' = [notes EXCEPT ![q.cible] = "aveugle"]
          /\ nombreNotes' = NombreApres(q.cible)
          /\ Devient(r, e)
      BY <1>6, <2>0, <2>4, <3>1 DEF EcrireNote
    <3>3. notes' \in [Cibles -> {"absente", "aveugle"}]
      BY <1>t, <3>2
    <3>4. \A c \in Cibles : notes'[c] = IF c = q.cible THEN "aveugle" ELSE notes[c]
      BY <1>t, <3>2
    <3>5. Notees' = Notees \cup {q.cible}
      BY <2>1, <3>4 DEF Notees
    <3>6. q.cible \notin Notees
      BY <2>4 DEF Notees
    <3>7. nombreNotes' = IF "PROVIDER" \in Notees' THEN 1 ELSE 0
      BY <1>t, <3>2, <3>5, <3>6 DEF NombreApres
    <3>8. e \in EtatsNotation /\ e.op = "relire"
      BY <2>1, EtatsAdmisNotation
    <3>9. NoteSuivie(e)'
      BY <3>5, <3>8 DEF NoteSuivie
    <3> HIDE DEF e
    <3> QED BY <1>t, <2>2, <3>2, <3>3, <3>5, <3>7, <3>8, <3>9, NoteReunie
  <2> QED BY <2>3, <2>4
<1>7. ASSUME NEW r \in Requetes, RelireNotes(r)
      PROVE  NotationInv'
  <2>1. PICK publiee \in BOOLEAN :
          Devient(r, [op |-> "repondu", code |-> "RATING_RECORDED",
                      publiee |-> publiee])
    BY <1>7 DEF RelireNotes, Publiables
  <2> DEFINE e == [op |-> "repondu", code |-> "RATING_RECORDED",
                   publiee |-> publiee]
  <2>2. Notees # {} /\ UNCHANGED <<mission, notation>>
    BY <1>7, <1>t DEF RelireNotes, NoteSuivie
  <2>3. e \in EtatsNotation /\ e.op = "repondu"
    BY EtatsAdmisNotation
  <2> HIDE DEF e
  <2>4. NoteSuivie(e)
    BY <2>2, <2>3 DEF NoteSuivie
  <2>5. Devient(r, e)
    BY <2>1 DEF e
  <2> QED BY <2>2, <2>3, <2>4, <2>5, NoteCalme
<1>8. ASSUME NEW r \in Requetes, NEW c \in Cibles, DemanderNotes(r, c)
      PROVE  NotationInv'
  <2> DEFINE e == [op |-> "validation_lue", auteur |-> c, jour |-> validee]
  <2>1. e \in EtatsNotation /\ e.op = "validation_lue" /\ e.jour <= validee
    BY <1>m, EtatsAdmisNotation
  <2>2. Devient(r, e) /\ UNCHANGED <<mission, notation>>
    BY <1>8 DEF DemanderNotes
  <2> HIDE DEF e
  <2>3. NoteSuivie(e)
    BY <2>1 DEF NoteSuivie
  <2> QED BY <2>1, <2>2, <2>3, NoteCalme
<1>9. ASSUME NEW r \in Requetes, LireValidationPourNotes(r)
      PROVE  NotationInv'
  <2>0. PICK q \in EtatsNotation : q = requete[r]
    BY <1>t
  <2>1. /\ q.op = "validation_lue" /\ q.auteur \in Cibles /\ q.jour \in Jours
        /\ q = [op |-> "validation_lue", auteur |-> q.auteur, jour |-> q.jour]
        /\ q.jour <= validee
    BY <1>9, <1>t, <2>0, ChampsNotation DEF LireValidationPourNotes, NoteSuivie
  <2>2. UNCHANGED <<mission, notation>>
    BY <1>9 DEF LireValidationPourNotes
  <2>3. CASE statut = "VALIDATED"
    <3> DEFINE e == [op |-> "notes_lues", auteur |-> q.auteur, jour |-> q.jour]
    <3>1. [q EXCEPT !.op = "notes_lues"] = e
      BY <2>1
    <3>2. Devient(r, e)
      BY <1>9, <2>0, <2>3, <3>1 DEF LireValidationPourNotes
    <3>3. e \in EtatsNotation /\ e.op = "notes_lues" /\ e.jour <= validee
      BY <2>1, EtatsAdmisNotation
    <3> HIDE DEF e
    <3>4. NoteSuivie(e)
      BY <3>3 DEF NoteSuivie
    <3> QED BY <2>2, <3>2, <3>3, <3>4, NoteCalme
  <2>4. CASE statut # "VALIDATED"
    <3> DEFINE e == [op |-> "repondu", code |-> "RATINGS", visibles |-> {}]
    <3>1. e \in EtatsNotation /\ e.op = "repondu" /\ e.code = "RATINGS"
      BY EtatsAdmisNotation
    <3>2. Devient(r, e)
      BY <1>9, <2>0, <2>4 DEF LireValidationPourNotes
    <3> HIDE DEF e
    <3>3. NoteSuivie(e)
      BY <3>1 DEF NoteSuivie
    <3> QED BY <2>2, <3>1, <3>2, <3>3, NoteCalme
  <2> QED BY <2>3, <2>4
<1>10. ASSUME NEW r \in Requetes, LireNotes(r)
       PROVE  NotationInv'
  <2>0. PICK q \in EtatsNotation : q = requete[r]
    BY <1>t
  <2>1. /\ q.op = "notes_lues" /\ q.auteur \in Cibles /\ q.jour \in Nat
        /\ q.jour <= validee
    BY <1>10, <1>m, <1>t, <2>0, ChampsNotation DEF LireNotes, NoteSuivie
  <2>2. PICK visibles \in SUBSET Cibles :
          visibles = IF Publiables(q.jour) THEN Notees ELSE {}
    BY DEF Notees
  <2> DEFINE e == [op |-> "repondu", code |-> "RATINGS", visibles |-> visibles]
  <2>3. /\ vues' = vues \cup
                   (IF Reciproque(q.auteur) \in visibles THEN {q.auteur} ELSE {})
        /\ Devient(r, e)
        /\ UNCHANGED <<mission, notes, nombreNotes>>
    BY <1>10, <2>0, <2>2 DEF LireNotes
  <2>4. visibles # {} => VueTardive(validee)
    BY <1>m, <2>1, <2>2 DEF Publiables, VueTardive
  <2>5. vues' \in SUBSET Cibles /\ (vues' # {} => VueTardive(validee))
    BY <1>t, <2>1, <2>3, <2>4
  <2>6. UNCHANGED Notees
    BY <2>3 DEF Notees
  <2>7. e \in EtatsNotation /\ e.op = "repondu" /\ e.code = "RATINGS"
    BY EtatsAdmisNotation
  <2> HIDE DEF e
  <2>8. NoteSuivie(e)'
    BY <2>7 DEF NoteSuivie
  <2> QED BY <1>t, <2>3, <2>5, <2>6, <2>7, <2>8, NoteReunie
<1> QED BY <1>1, <1>3, <1>4, <1>5, <1>6, <1>7, <1>8, <1>9, <1>10
        DEF NotationPas, NoterIntervention, LireNotesDeMission

LEMMA NotationInvInit ==
  ASSUME AppelsInit, NotationInit
  PROVE  NotationInv
<1>1. Notees = {}
  BY DEF NotationInit, Notees
<1>2. \A r \in Requetes : NoteSuivie(requete[r])
  BY DEF AppelsInit, NoteSuivie, Repos
<1>3. requete \in [Requetes -> EtatsNotation]
  BY EtatsAdmisNotation DEF AppelsInit
<1> QED BY <1>1, <1>2, <1>3 DEF NotationInit, NotationInv, NotationOK

-----------------------------------------------------------------------------
\* Disputes.  A part of the total, rounded to the cent above, never exceeds it.
LEMMA RemboursementBorne ==
  ASSUME NEW total \in Nat, NEW part, PartAdmise(part)
  PROVE  Rembourse(part, total) \in 0..total
<1> DEFINE produit == total * part
<1>1. part \in Nat /\ part <= 9900
  BY DEF PartAdmise
<1>2. produit \in Nat /\ produit <= total * 9900
  BY <1>1, SMT
<1>3. \A p \in Nat : /\ p \div 10000 \in Nat /\ (p \div 10000) * 10000 <= p
                     /\ p % 10000 # 0 => (p \div 10000) * 10000 < p
  BY SMT
<1>4. Rembourse(part, total) = IF produit % 10000 = 0 THEN produit \div 10000
                          ELSE produit \div 10000 + 1
  BY DEF Rembourse
<1> HIDE DEF produit
<1> DEFINE q == produit \div 10000
<1>5. /\ q \in Nat /\ q * 10000 <= total * 9900
      /\ produit % 10000 # 0 => q * 10000 < total * 9900
  BY <1>2, <1>3
<1> HIDE DEF q
<1>6. q <= total /\ (produit % 10000 # 0 => q + 1 <= total)
  BY <1>5
<1> QED BY <1>4, <1>5, <1>6 DEF q

\* Who may decide and has said so; what a decision may share out.
Habilite(o) ==
  /\ Consigne(o, "DISPUTE_RESOLVE")
  /\ "DISPUTE_RESOLVE" \in Permises[RoleDe[o]]

Partage(issue) ==
  /\ \E t \in TotauxLus : issue.rembourse \in 0..t
  /\ issue.statut # "RESOLVED_USER_FAVOR" => issue.rembourse = 0

LEMMA IssuePartage ==
  ASSUME NEW total \in Nat, total \in TotauxLus, NEW d \in Decisions,
         d.sens = "PARTIAL_REFUND" => PartAdmise(d.part)
  PROVE  Issue(d, total) \in Issues /\ Partage(Issue(d, total))
<1>1. PICK c \in 0..total : d.sens = "PARTIAL_REFUND" => c = Rembourse(d.part, total)
  BY RemboursementBorne
<1>2. d.sens \in {"USER_FAVOR", "PROVIDER_FAVOR", "NO_FAULT", "PARTIAL_REFUND"}
  BY DEF Decisions
<1>3. PICK statutRendu \in Tranches, montant \in 0..total :
        /\ Issue(d, total) = [statut |-> statutRendu, rembourse |-> montant]
        /\ statutRendu # "RESOLVED_USER_FAVOR" => montant = 0
  <2>1. CASE d.sens = "USER_FAVOR"
    BY <2>1 DEF Issue, Tranches
  <2>2. CASE d.sens = "PROVIDER_FAVOR"
    BY <2>2 DEF Issue, Tranches
  <2>3. CASE d.sens = "NO_FAULT"
    BY <2>3 DEF Issue, Tranches
  <2>4. CASE d.sens = "PARTIAL_REFUND"
    BY <1>1, <2>4 DEF Issue, Tranches
  <2> QED BY <1>2, <2>1, <2>2, <2>3, <2>4
<1> QED BY <1>3 DEF Issues, Partage

\* What a request relies on, of the row, of the journal and of what was agreed.
DossierSuivi(e) ==
  /\ e.op \in {"habilitation", "consignation"} /\ e.suite.op = "trancher" =>
       e.suite.ops = e.ops /\ e.geste = "DISPUTE_RESOLVE"
  /\ e.op = "consignation" => e.geste \in Permises[RoleDe[e.ops]]
  /\ e.op \in {"trancher", "ecrire_issue"} => Habilite(e.ops)
  /\ e.op = "ecrire_issue" => Partage(e.issue)
  /\ e.op = "compter" => litige # LitigeAbsent
  /\ e.op = "repondu" /\ e.code = "DISPUTE_OPENED" => litige # LitigeAbsent
  /\ e.op = "repondu" /\ e.code = "DISPUTE_RESOLVED" =>
       /\ litige.statut = e.issue.statut
       /\ litige.rembourse = e.issue.rembourse
       /\ litige.par = e.ops

DecisionFondee ==
  litige.statut \in Tranches => Habilite(litige.par) /\ Partage(litige)

LitigeInv ==
  /\ LitigeOK
  /\ DecisionFondee
  /\ \A r \in Requetes : DossierSuivi(requete[r])

LEMMA LitigeInvSuffit == LitigeInv => LitigeOK /\ DecisionAnnoncee
<1> SUFFICES ASSUME LitigeInv PROVE LitigeOK /\ DecisionAnnoncee
  OBVIOUS
<1>1. \A code : StatutLitige(code) = 201 => code = "DISPUTE_OPENED"
  BY DEF StatutLitige
<1>2. LitigeOK /\ DecisionFondee /\ \A r \in Requetes : DossierSuivi(requete[r])
  BY DEF LitigeInv
<1>3. \A r \in Requetes : /\ requete[r].op = "repondu"
                          /\ StatutLitige(requete[r].code) = 201
                          => litige # LitigeAbsent
  BY <1>1, <1>2 DEF DossierSuivi
<1>4. \A r \in Requetes :
        (requete[r].op = "repondu" /\ requete[r].code = "DISPUTE_RESOLVED") =>
          /\ litige.statut = requete[r].issue.statut
          /\ litige.rembourse = requete[r].issue.rembourse
          /\ litige.par = requete[r].ops
  BY <1>2 DEF DossierSuivi
<1> QED BY <1>2, <1>3, <1>4 DEF DecisionAnnoncee, DecisionFondee, Habilite, Partage

LEMMA EtatsAdmisLitige ==
  /\ Repos \in EtatsLitige
  /\ \A suite \in SuitesMediation : suite \in EtatsLitige
  /\ \A op \in {"habilitation", "consignation"}, o \in Ops, g \in Permissions,
        suite \in SuitesMediation :
       [op |-> op, ops |-> o, geste |-> g, suite |-> suite] \in EtatsLitige
  /\ \A partie \in Parties, jour \in Jours, grief \in CodesLitige \cup {"aucun"} :
       [op |-> "contexte", partie |-> partie, jour |-> jour, grief |-> grief]
         \in EtatsLitige
  /\ \A partie \in Parties : [op |-> "ouvrir", partie |-> partie] \in EtatsLitige
  /\ [op |-> "compter"] \in EtatsLitige
  /\ \A o \in Ops, issue \in Issues :
       [op |-> "ecrire_issue", ops |-> o, issue |-> issue] \in EtatsLitige
  /\ \A code \in CodesLitige \cup {"FORBIDDEN"} : Repondu(code) \in EtatsLitige
  /\ \A aExaminer \in BOOLEAN :
       [op |-> "repondu", code |-> "DISPUTE_OPENED", aExaminer |-> aExaminer]
         \in EtatsLitige
  /\ \A o \in Ops, issue \in Issues :
       [op |-> "repondu", code |-> "DISPUTE_RESOLVED", ops |-> o, issue |-> issue]
         \in EtatsLitige
BY DEF EtatsLitige, EtatsGeste, Repondu

LEMMA ChampsLitige ==
  ASSUME NEW e \in EtatsLitige
  PROVE  /\ e.op \in {"habilitation", "consignation"} =>
              /\ e.ops \in Ops /\ e.geste \in Permissions /\ e.suite \in SuitesMediation
              /\ e = [op |-> e.op, ops |-> e.ops, geste |-> e.geste,
                      suite |-> e.suite]
         /\ e.op = "contexte" =>
              /\ e.partie \in Parties /\ e.jour \in Jours
              /\ e.grief \in CodesLitige \cup {"aucun"}
         /\ e.op = "ouvrir" => e.partie \in Parties
         /\ e.op = "trancher" => e.ops \in Ops /\ e.decision \in Decisions
         /\ e.op = "ecrire_issue" => e.ops \in Ops /\ e.issue \in Issues
         /\ e.op = "repondu" /\ e.code = "DISPUTE_RESOLVED" => e.issue \in Issues
BY DEF EtatsLitige, EtatsGeste, SuitesMediation, Repos, CodesLitige

LitigePas ==
  \/ \E t \in TOTAUX : AccepterDevis(t)
  \/ \E o \in Ops : UNCHANGED <<mission, litigeEtAccords>> /\ RevoquerInactif(o)
  \/ \E r \in Requetes : \/ Interrompre(r) /\ UNCHANGED <<mission, journalOps, litigeEtAccords>>
                         \/ OuvrirLitige(r)
                         \/ \E concerne \in BOOLEAN : LireLitige(r, concerne)
                         \/ ConsulterLitiges(r)
                         \/ TrancherLitige(r)

\* The Mission goes on: no dispute depends on it any more.
LEMMA LitigeSuit ==
  ASSUME LitigeInv, UNCHANGED <<requete, journalOps, litigeEtAccords>>
  PROVE  LitigeInv'
<1>1. UNCHANGED <<requete, actifs, journal, litige, accords>>
  BY DEF journalOps, litigeEtAccords
<1>2. LitigeOK'
  BY <1>1 DEF LitigeInv, LitigeOK, JournalOpsOK
<1>3. DecisionFondee'
  BY <1>1 DEF LitigeInv, DecisionFondee, Habilite, Consigne, Partage, TotauxLus
<1>4. ASSUME NEW r \in Requetes PROVE DossierSuivi(requete[r])'
  <2>1. DossierSuivi(requete[r])
    BY DEF LitigeInv
  <2> QED BY <1>1, <2>1 DEF DossierSuivi, Habilite, Consigne, Partage, TotauxLus
<1> QED BY <1>2, <1>3, <1>4 DEF LitigeInv

\* The journal only grows: a right written there stays.  So do the agreed totals:
\* what shared out one of them still does.
LEMMA HabiliteReste ==
  ASSUME journal \subseteq journal', accords \subseteq accords',
         accords' \in SUBSET Nat
  PROVE  /\ \A o : Habilite(o) => Habilite(o)'
         /\ \A issue : Partage(issue) => Partage(issue)'
<1>1. \A o : Habilite(o) => Habilite(o)'
  BY DEF Habilite, Consigne
<1>2. ASSUME NEW issue, Partage(issue)
      PROVE  Partage(issue)'
  <2>1. PICK t \in TotauxLus : issue.rembourse \in 0..t
    BY <1>2 DEF Partage
  <2>2. CASE accords' = {} \/ accords # {}
    <3>1. t \in TotauxLus'
      BY <2>1, <2>2 DEF TotauxLus
    <3> QED BY <1>2, <2>1, <3>1 DEF Partage
  <2>3. CASE accords' # {} /\ accords = {}
    <3>1. PICK n \in accords' : n \in Nat
      BY <2>3
    <3>2. issue.rembourse \in 0..n /\ n \in TotauxLus'
      BY <2>1, <2>3, <3>1 DEF TotauxLus
    <3> QED BY <1>2, <3>2 DEF Partage
  <2> QED BY <2>2, <2>3
<1> QED BY <1>1, <1>2

\* A request moves; the row is opened once and decided once.
LEMMA DossierReuni ==
  ASSUME LitigeInv, accords' = accords, actifs' \in SUBSET Ops,
         journal \subseteq journal', journal' \in SUBSET Gestes,
         NEW r \in Requetes, NEW e \in EtatsLitige, Devient(r, e), DossierSuivi(e)',
         litige' \in Litiges, DecisionFondee',
         \/ litige' = litige
         \/ litige.statut \notin Tranches /\ litige' # LitigeAbsent
  PROVE  LitigeInv'
<1>1. requete \in [Requetes -> EtatsLitige] /\ accords \in SUBSET TOTAUX
                                            /\ accords' \in SUBSET Nat
  BY LitigeAssumption DEF LitigeInv, LitigeOK
<1>2. /\ requete' \in [Requetes -> EtatsLitige]
      /\ \A q \in Requetes : requete'[q] = IF q = r THEN e ELSE requete[q]
  BY <1>1 DEF Devient
<1>3. ASSUME NEW q \in Requetes PROVE DossierSuivi(requete[q])'
  <2>1. CASE q = r
    <3>1. requete[q]' = e
      BY <1>2, <2>1
    <3> QED BY <3>1 DEF DossierSuivi, Habilite, Consigne, Partage
  <2>2. CASE q # r
    <3>1. PICK f \in EtatsLitige : f = requete[q]
      BY <1>1
    <3>2. DossierSuivi(f)
      BY <3>1 DEF LitigeInv
    <3>3. f.op = "repondu" /\ f.code = "DISPUTE_RESOLVED" => f.issue.statut \in Tranches
      BY ChampsLitige DEF Issues
    <3>4. DossierSuivi(f)'
      <4>1. litige # LitigeAbsent => litige' # LitigeAbsent
        OBVIOUS
      <4>2. f.op = "repondu" /\ f.code = "DISPUTE_RESOLVED" => litige' = litige
        BY <3>2, <3>3 DEF DossierSuivi
      <4> QED BY <1>1, <3>2, <4>1, <4>2, HabiliteReste DEF DossierSuivi
    <3>5. requete[q]' = f
      BY <1>2, <2>2, <3>1
    <3> QED BY <3>4, <3>5
  <2> QED BY <2>1, <2>2
<1>4. LitigeOK'
  BY <1>1, <1>2 DEF LitigeOK, JournalOpsOK
<1> QED BY <1>3, <1>4 DEF LitigeInv

\* The same when the row is left alone.
LEMMA DossierCalme ==
  ASSUME LitigeInv, UNCHANGED litigeEtAccords, actifs' \in SUBSET Ops,
         journal \subseteq journal', journal' \in SUBSET Gestes,
         NEW r \in Requetes, NEW e \in EtatsLitige, Devient(r, e), DossierSuivi(e)'
  PROVE  LitigeInv'
<1>1. UNCHANGED <<litige, accords>>
  BY DEF litigeEtAccords
<1>2. DecisionFondee /\ litige \in Litiges /\ accords' \in SUBSET Nat
  BY <1>1, LitigeAssumption DEF LitigeInv, LitigeOK
<1>3. DecisionFondee'
  BY <1>1, <1>2, HabiliteReste DEF DecisionFondee
<1> QED BY <1>1, <1>2, <1>3, DossierReuni

LEMMA LitigeInvNext ==
  ASSUME MissionInv, LitigeInv, LitigePas
  PROVE  LitigeInv'
<1>t. /\ actifs \in SUBSET Ops /\ journal \in SUBSET Gestes
      /\ litige \in Litiges /\ accords \in SUBSET Nat
      /\ requete \in [Requetes -> EtatsLitige]
      /\ \A r \in Requetes : DossierSuivi(requete[r])
      /\ DecisionFondee
  BY LitigeAssumption DEF LitigeInv, LitigeOK, JournalOpsOK
\* A request that moves alone.
<1>a. ASSUME NEW r \in Requetes, NEW e \in EtatsLitige, Devient(r, e), DossierSuivi(e)',
             UNCHANGED <<journalOps, litigeEtAccords>>
      PROVE  LitigeInv'
  BY <1>a, <1>t, DossierCalme DEF journalOps
\* An answer that says nothing of the row.
<1>b. ASSUME NEW r \in Requetes, NEW code \in CodesLitige, Devient(r, Repondu(code)),
             UNCHANGED <<journalOps, litigeEtAccords>>
      PROVE  LitigeInv'
  <2>1. DossierSuivi(Repondu(code))'
    BY DEF DossierSuivi, Repondu, CodesLitige
  <2>2. Repondu(code) \in EtatsLitige
    BY EtatsAdmisLitige
  <2> QED BY <1>a, <1>b, <2>1, <2>2
<1>1. ASSUME NEW o \in Ops, UNCHANGED litigeEtAccords, RevoquerInactif(o)
      PROVE  LitigeInv'
  <2>1. UNCHANGED <<requete, journal, litige, accords>> /\ actifs' \in SUBSET Ops
    BY <1>1, <1>t DEF RevoquerInactif, litigeEtAccords
  <2>2. LitigeOK'
    BY <2>1 DEF LitigeInv, LitigeOK, JournalOpsOK
  <2>3. DecisionFondee'
    BY <1>t, <2>1 DEF DecisionFondee, Habilite, Consigne, Partage, TotauxLus
  <2>4. ASSUME NEW r \in Requetes PROVE DossierSuivi(requete[r])'
    <3>1. DossierSuivi(requete[r])
      BY <1>t
    <3> QED BY <2>1, <3>1 DEF DossierSuivi, Habilite, Consigne, Partage, TotauxLus
  <2> QED BY <2>2, <2>3, <2>4 DEF LitigeInv
<1>2. ASSUME NEW r \in Requetes, Interrompre(r), UNCHANGED <<journalOps, litigeEtAccords>>
      PROVE  LitigeInv'
  <2>1. DossierSuivi(Repos)'
    BY DEF DossierSuivi, Repos
  <2> QED BY <1>2, <1>a, <2>1, EtatsAdmisLitige DEF Interrompre
<1>3. ASSUME NEW r \in Requetes, OuvrirLitige(r)
      PROVE  LitigeInv'
  <2>0. PICK q \in EtatsLitige : q = requete[r]
    BY <1>t
  <2>1. ASSUME NEW partie \in Parties, NEW motif, NEW description,
               DemanderLitige(r, partie, motif, description)
        PROVE  LitigeInv'
    <3>0. UNCHANGED <<journalOps, litigeEtAccords>>
      BY <2>1 DEF DemanderLitige
    <3>1. CASE Devient(r, Repondu("MOTIVE_UNKNOWN"))
      BY <1>b, <3>0, <3>1 DEF CodesLitige
    <3>2. CASE ~Devient(r, Repondu("MOTIVE_UNKNOWN"))
      <4>1. PICK grief, jour :
              grief = Grief(partie, motif, description) /\ jour = finie
        OBVIOUS
      <4>2. grief \in CodesLitige \cup {"aucun"}
        BY <4>1 DEF Grief, CodesLitige
      <4> DEFINE e == [op |-> "contexte", partie |-> partie, jour |-> jour,
                       grief |-> grief]
      <4>3. Devient(r, e)
        BY <2>1, <3>2, <4>1 DEF DemanderLitige
      <4>4. e \in EtatsLitige /\ e.op = "contexte"
        BY <4>1, <4>2, EtatsAdmisLitige DEF MissionInv, MissionOK
      <4> HIDE DEF e
      <4>5. DossierSuivi(e)'
        BY <4>4 DEF DossierSuivi
      <4> QED BY <1>a, <3>0, <4>3, <4>4, <4>5
    <3> QED BY <3>1, <3>2
  <2>2. CASE LireContexte(r)
    <3>0. /\ q.op = "contexte" /\ q.partie \in Parties
          /\ q.grief \in CodesLitige \cup {"aucun"}
          /\ UNCHANGED <<journalOps, litigeEtAccords>>
      BY <2>0, <2>2, ChampsLitige DEF LireContexte
    <3>1. PICK refus : refus = RefusLitige(q.jour, q.grief)
      OBVIOUS
    <3>2. CASE refus # "aucun"
      <4>1. refus \in CodesLitige
        BY <3>0, <3>1, <3>2 DEF RefusLitige, CodesLitige
      <4> QED BY <1>b, <2>0, <2>2, <3>0, <3>1, <3>2, <4>1 DEF LireContexte
    <3>3. CASE refus = "aucun"
      <4> DEFINE e == [op |-> "ouvrir", partie |-> q.partie]
      <4>1. Devient(r, e)
        BY <2>0, <2>2, <3>1, <3>3 DEF LireContexte
      <4>2. e \in EtatsLitige /\ e.op = "ouvrir"
        BY <3>0, EtatsAdmisLitige
      <4> HIDE DEF e
      <4>3. DossierSuivi(e)'
        BY <4>2 DEF DossierSuivi
      <4> QED BY <1>a, <3>0, <4>1, <4>2, <4>3
    <3> QED BY <3>2, <3>3
  <2>3. CASE InsererLitige(r)
    <3>0. /\ q.op = "ouvrir" /\ q.partie \in Parties
          /\ UNCHANGED <<journalOps, accords>>
      BY <2>0, <2>3, ChampsLitige DEF InsererLitige
    <3>1. CASE litige # LitigeAbsent
      BY <1>b, <2>3, <3>0, <3>1 DEF InsererLitige, CodesLitige, litigeEtAccords
    <3>2. CASE litige = LitigeAbsent
      <4>1. /\ litige' = [partie |-> q.partie, statut |-> "OPENED"]
            /\ Devient(r, [op |-> "compter"])
        BY <2>0, <2>3, <3>2 DEF InsererLitige
      <4>2. litige' \in Litiges /\ litige' # LitigeAbsent /\ litige'.statut \notin Tranches
        BY <3>0, <4>1 DEF Litiges, LitigeAbsent, Tranches
      <4>3. DossierSuivi([op |-> "compter"])'
        BY <4>2 DEF DossierSuivi
      <4>4. litige.statut \notin Tranches
        BY <3>2 DEF LitigeAbsent, Tranches
      <4>5. DecisionFondee'
        BY <4>2 DEF DecisionFondee
      <4> QED BY <1>t, <3>0, <4>1, <4>2, <4>3, <4>4, <4>5, EtatsAdmisLitige, DossierReuni
              DEF journalOps
    <3> QED BY <3>1, <3>2
  <2>4. ASSUME NEW aExaminer \in BOOLEAN, CompterLitiges(r, aExaminer)
        PROVE  LitigeInv'
    <3> DEFINE e == [op |-> "repondu", code |-> "DISPUTE_OPENED",
                     aExaminer |-> aExaminer]
    <3>1. Devient(r, e) /\ UNCHANGED <<journalOps, litigeEtAccords>> /\ q.op = "compter"
      BY <2>0, <2>4 DEF CompterLitiges
    <3>2. e \in EtatsLitige /\ e.op = "repondu" /\ e.code = "DISPUTE_OPENED"
      BY EtatsAdmisLitige
    <3>3. litige' # LitigeAbsent
      BY <1>t, <2>0, <3>1 DEF DossierSuivi, litigeEtAccords
    <3> HIDE DEF e
    <3>4. DossierSuivi(e)'
      BY <3>2, <3>3 DEF DossierSuivi
    <3> QED BY <1>a, <3>1, <3>2, <3>4
  <2> QED BY <1>3, <2>1, <2>2, <2>3, <2>4 DEF OuvrirLitige
<1>4. ASSUME NEW r \in Requetes, NEW concerne \in BOOLEAN, LireLitige(r, concerne)
      PROVE  LitigeInv'
  <2>1. PICK code \in {"MISSION_NOT_FOUND", "DISPUTE_NOT_FOUND", "DISPUTE_READ"} :
          Devient(r, Repondu(code)) /\ UNCHANGED <<journalOps, litigeEtAccords>>
    BY <1>4 DEF LireLitige
  <2> QED BY <1>b, <2>1 DEF CodesLitige
\* The two steps every act of the console shares.
<1>5. ASSUME NEW r \in Requetes, LireHabilitation(r), UNCHANGED litigeEtAccords
      PROVE  LitigeInv'
  <2>0. PICK q \in EtatsLitige : q = requete[r]
    BY <1>t
  <2>1. /\ q.ops \in Ops /\ q.geste \in Permissions /\ q.suite \in SuitesMediation
        /\ q = [op |-> "habilitation", ops |-> q.ops, geste |-> q.geste,
                suite |-> q.suite]
        /\ DossierSuivi(q)
    BY <1>5, <1>t, <2>0, ChampsLitige DEF LireHabilitation
  <2>2. CASE Autorise(q.ops, q.geste)
    <3> DEFINE e == [op |-> "consignation", ops |-> q.ops, geste |-> q.geste,
                     suite |-> q.suite]
    <3>1. [q EXCEPT !.op = "consignation"] = e
      BY <2>1
    <3>2. Devient(r, e) /\ UNCHANGED <<journalOps, litigeEtAccords>>
      BY <1>5, <2>0, <2>2, <3>1 DEF LireHabilitation, journalOps
    <3>3. /\ e \in EtatsLitige /\ e.op = "consignation" /\ e.ops = q.ops
          /\ e.geste = q.geste /\ e.suite = q.suite
      BY <2>1, EtatsAdmisLitige
    <3> HIDE DEF e
    <3>4. DossierSuivi(e)'
      BY <2>1, <2>2, <3>3 DEF DossierSuivi, Autorise
    <3> QED BY <1>a, <3>2, <3>3, <3>4
  <2>3. CASE ~Autorise(q.ops, q.geste)
    <3>1. /\ Devient(r, Repondu("FORBIDDEN")) /\ actifs' = actifs
          /\ journal' \in {journal, journal \cup {[ops |-> q.ops, geste |-> q.geste,
                                                   refuse |-> TRUE]}}
      BY <1>5, <2>0, <2>3 DEF LireHabilitation
    <3>2. [ops |-> q.ops, geste |-> q.geste, refuse |-> TRUE] \in Gestes
      BY <2>1 DEF Gestes
    <3>3. journal \subseteq journal' /\ journal' \in SUBSET Gestes
      BY <1>t, <3>1, <3>2
    <3>4. DossierSuivi(Repondu("FORBIDDEN"))'
      BY DEF DossierSuivi, Repondu
    <3>5. Repondu("FORBIDDEN") \in EtatsLitige
      BY EtatsAdmisLitige
    <3> QED BY <1>5, <1>t, <3>1, <3>3, <3>4, <3>5, DossierCalme
  <2> QED BY <2>2, <2>3
<1>6. ASSUME NEW r \in Requetes, ConsignerGeste(r), UNCHANGED litigeEtAccords
      PROVE  LitigeInv'
  <2>0. PICK q \in EtatsLitige : q = requete[r]
    BY <1>t
  <2>1. /\ q.op = "consignation"
        /\ q.ops \in Ops /\ q.geste \in Permissions /\ q.suite \in SuitesMediation
        /\ DossierSuivi(q)
    BY <1>6, <1>t, <2>0, ChampsLitige DEF ConsignerGeste
  <2> DEFINE acte == [ops |-> q.ops, geste |-> q.geste, refuse |-> FALSE]
  <2>2. journal' = journal \cup {acte} /\ actifs' = actifs /\ Devient(r, q.suite)
    BY <1>6, <2>0 DEF ConsignerGeste
  <2>3. acte \in Gestes
    BY <2>1 DEF Gestes
  <2>4. journal \subseteq journal' /\ journal' \in SUBSET Gestes
    BY <1>t, <2>2, <2>3
  <2>5. q.suite.op \in {"lire_file", "lire_dossier", "trancher"}
    BY <2>1 DEF SuitesMediation
  <2>6. q.suite.op = "trancher" => Habilite(q.suite.ops)'
    BY <2>1, <2>2 DEF DossierSuivi, Habilite, Consigne
  <2>7. DossierSuivi(q.suite)'
    BY <2>5, <2>6 DEF DossierSuivi
  <2>8. q.suite \in EtatsLitige
    BY <2>1, EtatsAdmisLitige
  <2> QED BY <1>6, <1>t, <2>2, <2>4, <2>7, <2>8, DossierCalme
\* A request for an act.
<1>7. ASSUME NEW r \in Requetes, NEW o \in Ops, NEW suite \in SuitesMediation,
             suite.op = "trancher" => suite.ops = o,
             DemanderGeste(r, o, "DISPUTE_RESOLVE", suite), UNCHANGED litigeEtAccords
      PROVE  LitigeInv'
  <2> DEFINE e == [op |-> "habilitation", ops |-> o, geste |-> "DISPUTE_RESOLVE",
                   suite |-> suite]
  <2>1. Devient(r, e) /\ UNCHANGED <<journalOps, litigeEtAccords>>
    BY <1>7 DEF DemanderGeste
  <2>2. "DISPUTE_RESOLVE" \in Permissions
    BY DEF Permissions
  <2>3. e \in EtatsLitige
    BY <2>2, EtatsAdmisLitige
  <2>4. /\ e.op = "habilitation" /\ e.ops = o /\ e.geste = "DISPUTE_RESOLVE"
        /\ e.suite = suite
    OBVIOUS
  <2> HIDE DEF e
  <2>5. DossierSuivi(e)'
    BY <1>7, <2>4 DEF DossierSuivi
  <2> QED BY <1>a, <2>1, <2>3, <2>5
<1>8. ASSUME NEW r \in Requetes, ConsulterLitiges(r)
      PROVE  LitigeInv'
  <2>1. ASSUME NEW o \in Ops, NEW op \in {"lire_file", "lire_dossier"},
               DemanderGeste(r, o, "DISPUTE_RESOLVE", [op |-> op]),
               UNCHANGED litigeEtAccords
        PROVE  LitigeInv'
    <3>1. [op |-> op] \in SuitesMediation /\ [op |-> op].op # "trancher"
      BY DEF SuitesMediation
    <3> QED BY <1>7, <2>1, <3>1
  <2>2. CASE LireDossiers(r)
    <3>1. PICK code \in {"DISPUTES", "DISPUTE_READ", "DISPUTE_NOT_FOUND"} :
            Devient(r, Repondu(code)) /\ UNCHANGED <<journalOps, litigeEtAccords>>
      BY <2>2 DEF LireDossiers
    <3> QED BY <1>b, <3>1 DEF CodesLitige
  <2> QED BY <1>8, <2>1, <2>2 DEF ConsulterLitiges
<1>9. ASSUME NEW r \in Requetes, NEW total \in TOTAUX \cup {0}, Trancher(r, total)
      PROVE  LitigeInv'
  <2>0. PICK q \in EtatsLitige : q = requete[r]
    BY <1>t
  <2>1. /\ q.op = "trancher" /\ q.ops \in Ops /\ q.decision \in Decisions
        /\ Habilite(q.ops) /\ UNCHANGED <<journalOps, litigeEtAccords>>
    BY <1>9, <1>t, <2>0, ChampsLitige DEF Trancher, DossierSuivi
  <2>t. total \in Nat /\ total \in TotauxLus
    BY <1>9, LitigeAssumption DEF Trancher
  <2>2. CASE \E code \in {"DISPUTE_NOT_FOUND", "REFUND_SHARE_OUT_OF_RANGE"} :
               Devient(r, Repondu(code))
    BY <1>b, <2>1, <2>2 DEF CodesLitige
  <2>3. CASE /\ q.decision.sens = "PARTIAL_REFUND" => PartAdmise(q.decision.part)
             /\ Devient(r, [op |-> "ecrire_issue", ops |-> q.ops,
                            issue |-> Issue(q.decision, total)])
    <3>1. PICK issue : issue = Issue(q.decision, total)
      OBVIOUS
    <3>2. issue \in Issues /\ Partage(issue)
      BY <2>t, <2>1, <2>3, <3>1, IssuePartage
    <3> DEFINE e == [op |-> "ecrire_issue", ops |-> q.ops, issue |-> issue]
    <3>3. Devient(r, e)
      BY <2>3, <3>1
    <3>4. e \in EtatsLitige /\ e.op = "ecrire_issue" /\ e.ops = q.ops /\ e.issue = issue
      BY <2>1, <3>2, EtatsAdmisLitige
    <3>5. UNCHANGED <<journal, accords>>
      BY <2>1 DEF journalOps, litigeEtAccords
    <3>6. Habilite(q.ops)' /\ Partage(issue)'
      BY <1>t, <2>1, <3>2, <3>5, HabiliteReste
    <3> HIDE DEF e
    <3>7. DossierSuivi(e)'
      BY <3>4, <3>6 DEF DossierSuivi
    <3> QED BY <1>a, <2>1, <3>3, <3>4, <3>7
  <2> QED BY <1>9, <2>0, <2>2, <2>3 DEF Trancher
<1>10. ASSUME NEW r \in Requetes, EcrireIssue(r)
       PROVE  LitigeInv'
  <2>0. PICK q \in EtatsLitige : q = requete[r]
    BY <1>t
  <2>1. /\ q.op = "ecrire_issue" /\ q.ops \in Ops /\ q.issue \in Issues
        /\ Habilite(q.ops) /\ Partage(q.issue) /\ UNCHANGED <<journalOps, accords>>
    BY <1>10, <1>t, <2>0, ChampsLitige DEF EcrireIssue, DossierSuivi
  <2>2. CASE ~EncoreOuvert
    BY <1>10, <1>b, <2>0, <2>1, <2>2 DEF EcrireIssue, CodesLitige, litigeEtAccords
  <2>3. CASE EncoreOuvert
    <3>1. litige.statut = "OPENED" /\ litige.partie \in Parties
      BY <1>t, <2>3 DEF EncoreOuvert, Litiges, LitigeAbsent, Tranches
    <3>2. PICK partie \in Parties : partie = litige.partie
      BY <3>1
    <3> DEFINE ligne == [partie |-> partie, statut |-> q.issue.statut,
                         rembourse |-> q.issue.rembourse, par |-> q.ops]
               e == [op |-> "repondu", code |-> "DISPUTE_RESOLVED", ops |-> q.ops,
                     issue |-> q.issue]
    <3>3. litige' = ligne /\ Devient(r, e)
      BY <1>10, <2>0, <2>3, <3>2 DEF EcrireIssue
    <3>4. q.issue.statut \in Tranches /\ q.issue.rembourse \in Nat
      BY <2>1 DEF Issues
    <3>5. /\ ligne \in Litiges /\ ligne # LitigeAbsent
          /\ ligne.statut = q.issue.statut /\ ligne.rembourse = q.issue.rembourse
          /\ ligne.par = q.ops
      BY <2>1, <3>4 DEF Litiges, LitigeAbsent
    <3>6. /\ e \in EtatsLitige /\ e.op = "repondu" /\ e.code = "DISPUTE_RESOLVED"
          /\ e.ops = q.ops /\ e.issue = q.issue
      BY <2>1, EtatsAdmisLitige
    <3> HIDE DEF ligne, e
    <3>7. DossierSuivi(e)'
      BY <3>3, <3>5, <3>6 DEF DossierSuivi
    <3>8. UNCHANGED <<actifs, journal, accords>>
      BY <2>1 DEF journalOps
    <3>9. Habilite(q.ops)' /\ Partage(q.issue)'
      BY <1>t, <2>1, <3>8, HabiliteReste
    <3>10. DecisionFondee'
      BY <3>3, <3>5, <3>9 DEF DecisionFondee, Partage
    <3>11. litige.statut \notin Tranches
      BY <3>1 DEF Tranches
    <3> QED BY <1>t, <3>3, <3>5, <3>6, <3>7, <3>8, <3>10, <3>11, DossierReuni
  <2> QED BY <2>2, <2>3
<1>11. ASSUME NEW r \in Requetes, TrancherLitige(r)
       PROVE  LitigeInv'
  <2>1. ASSUME NEW o \in Ops, NEW decision \in Decisions,
               DemanderGeste(r, o, "DISPUTE_RESOLVE",
                 [op |-> "trancher", ops |-> o, decision |-> decision]),
               UNCHANGED litigeEtAccords
        PROVE  LitigeInv'
    <3> DEFINE suite == [op |-> "trancher", ops |-> o, decision |-> decision]
    <3>1. suite \in SuitesMediation /\ suite.ops = o
      BY DEF SuitesMediation
    <3> HIDE DEF suite
    <3>2. DemanderGeste(r, o, "DISPUTE_RESOLVE", suite)
      BY <2>1 DEF suite
    <3> QED BY <1>7, <2>1, <3>1, <3>2
  <2> QED BY <1>5, <1>6, <1>9, <1>10, <1>11, <2>1 DEF TrancherLitige
\* A devis is accepted beside the dispute.
<1>12. ASSUME NEW t \in TOTAUX, AccepterDevis(t)
       PROVE  LitigeInv'
  <2>1. /\ UNCHANGED <<requete, actifs, journal, litige>>
        /\ accords \subseteq accords' /\ accords' \in SUBSET TOTAUX
    BY <1>12 DEF AccepterDevis, journalOps, LitigeInv, LitigeOK
  <2>2. accords' \in SUBSET Nat
    BY <2>1, LitigeAssumption
  <2>3. LitigeOK'
    BY <2>1 DEF LitigeInv, LitigeOK, JournalOpsOK
  <2>4. DecisionFondee'
    <3>1. PICK l \in Litiges : l = litige
      BY <1>t
    <3>2. l.statut \in Tranches => Habilite(l.par)' /\ Partage(l)'
      BY <1>t, <2>1, <2>2, <3>1, HabiliteReste DEF DecisionFondee
    <3> QED BY <2>1, <3>1, <3>2 DEF DecisionFondee
  <2>5. ASSUME NEW r \in Requetes PROVE DossierSuivi(requete[r])'
    <3>1. PICK f \in EtatsLitige : f = requete[r]
      BY <1>t
    <3>2. DossierSuivi(f)
      BY <1>t, <3>1
    <3>3. DossierSuivi(f)'
      BY <2>1, <2>2, <3>2, HabiliteReste DEF DossierSuivi
    <3> QED BY <2>1, <3>1, <3>3
  <2> QED BY <2>3, <2>4, <2>5 DEF LitigeInv
<1> QED BY <1>1, <1>2, <1>3, <1>4, <1>8, <1>11, <1>12 DEF LitigePas

LEMMA LitigeInvInit ==
  ASSUME AppelsInit, LitigeInit \/ MediationInit
  PROVE  LitigeInv
<1>1. requete \in [Requetes -> EtatsLitige]
  BY EtatsAdmisLitige DEF AppelsInit
<1>2. \A r \in Requetes : DossierSuivi(requete[r])
  BY DEF AppelsInit, DossierSuivi, Repos
<1>3. litige \in Litiges /\ litige.statut \in {"ABSENT", "OPENED"}
  BY DEF LitigeInit, MediationInit, Litiges, LitigeAbsent, Parties
<1>4. DecisionFondee
  BY <1>3 DEF DecisionFondee, Tranches
<1>5. accords \in SUBSET TOTAUX /\ JournalOpsOK
  BY DEF LitigeInit, MediationInit, JournalOpsOK
<1> QED BY <1>1, <1>2, <1>3, <1>4, <1>5 DEF LitigeInv, LitigeOK

-----------------------------------------------------------------------------
\* The Mission and the follow-up that runs, the others being where they start.
VoletTenu ==
  /\ volet = "reprogrammation" => ReprogrammationInv
  /\ volet = "suivi" => SuiviInv
  /\ volet = "conversation" => ConversationInv
  /\ volet = "notation" => NotationInv
  /\ volet \in {"litige", "mediation"} => LitigeInv

AutresAuRepos ==
  /\ volet # "reprogrammation" => proposition = "ABSENTE" /\ reprises = 0
  /\ volet # "conversation" => messages = 0
  /\ volet # "notation" => NotationInit
  /\ volet \notin {"litige", "mediation"} => litige = LitigeAbsent

SuitesInv ==
  /\ volet \in Volets
  /\ MissionInv
  /\ VoletTenu
  /\ AutresAuRepos

\* No follow-up writes the Mission.
LEMMA MissionSeulementLue ==
  /\ ReprogrammationPas => UNCHANGED mission
  /\ SuiviPas => UNCHANGED mission
  /\ ConversationPas => UNCHANGED mission
  /\ NotationPas => UNCHANGED mission
  /\ LitigePas => UNCHANGED mission
<1>1. ReprogrammationPas => UNCHANGED mission
  BY DEF ReprogrammationPas, ChangerDeMission, ProposerReprogrammation,
         DemanderProposition, InsererProposition, RelireProposition,
         RepondreReprogrammation, DemanderReprise, AccepterReprise, RefuserReprise
<1>2. SuiviPas => UNCHANGED mission
  BY DEF SuiviPas, PerdrePosition, PurgerTraces, ConsentirSuivi, ReleverSuivi,
         ConsulterSuivi, RefuserSuivi, DemanderConsentement, Consentir,
         RetirerConsentement, DemanderReleve, LireConsentement, Relever,
         DemanderVue, Consulter
<1>3. ConversationPas => UNCHANGED mission
  BY DEF ConversationPas, EnvoyerMessage, LireConversation, RefuserEtranger, LireFil,
         DemanderMessage, LireEtat, EcrireMessage, ConsignerTentative,
         BilanTentatives
<1>4. NotationPas => UNCHANGED mission
  BY DEF NotationPas, NoterIntervention, LireNotesDeMission, SansCible, DemanderNote,
         LireValidation, EcrireNote, RelireNotes, DemanderNotes,
         LireValidationPourNotes, LireNotes
<1>5. LitigePas => UNCHANGED mission
  <2>1. \A r \in Requetes : OuvrirLitige(r) => UNCHANGED mission
    BY DEF OuvrirLitige, DemanderLitige, LireContexte, InsererLitige, CompterLitiges
  <2>2. \A r \in Requetes : TrancherLitige(r) \/ ConsulterLitiges(r)
                              => UNCHANGED mission
    BY DEF ConsulterLitiges, LireDossiers, TrancherLitige, Trancher, EcrireIssue
  <2> QED BY <2>1, <2>2 DEF LitigePas, AccepterDevis, LireLitige
<1> QED BY <1>1, <1>2, <1>3, <1>4, <1>5

\* Every step is one of the Mission, or one of the follow-up that runs.
LEMMA PasDeVolet ==
  ASSUME SuitesInv, Next
  PROVE  \/ HorsMission /\ MissionNext
         \/ HorsReprogrammation /\ ReprogrammationPas
         \/ HorsSuivi /\ SuiviPas
         \/ HorsConversation /\ ConversationPas
         \/ HorsNotation /\ NotationPas
         \/ (HorsLitige \/ HorsMediation) /\ LitigePas
<1> DEFINE But ==
         \/ HorsMission /\ MissionNext
         \/ HorsReprogrammation /\ ReprogrammationPas
         \/ HorsSuivi /\ SuiviPas
         \/ HorsConversation /\ ConversationPas
         \/ HorsNotation /\ NotationPas
         \/ (HorsLitige \/ HorsMediation) /\ LitigePas
<1>1. CASE HorsMission /\ MissionNext
  BY <1>1
<1>2. ASSUME \/ HorsReprogrammation /\ ChangerDeMission
             \/ \E r \in Requetes :
                  \/ HorsReprogrammation /\ ProposerReprogrammation(r)
                  \/ HorsReprogrammation /\ RepondreReprogrammation(r)
      PROVE  But
  BY <1>2 DEF ReprogrammationPas
<1>3. ASSUME \/ HorsSuivi /\ PerdrePosition
             \/ Purge
             \/ \E r \in Requetes : \/ HorsSuivi /\ ConsentirSuivi(r)
                                    \/ HorsSuivi /\ ReleverSuivi(r)
                                    \/ HorsSuivi /\ ConsulterSuivi(r)
      PROVE  But
  BY <1>3 DEF SuiviPas, Purge
<1>4. ASSUME \E r \in Requetes : \/ HorsConversation /\ EnvoyerMessage(r)
                                 \/ HorsConversation /\ LireConversation(r)
      PROVE  But
  BY <1>4 DEF ConversationPas
<1>5. ASSUME \E r \in Requetes : \/ HorsNotation /\ NoterIntervention(r)
                                 \/ HorsNotation /\ LireNotesDeMission(r)
      PROVE  But
  BY <1>5 DEF NotationPas
<1>6. ASSUME \/ \E o \in Ops :
                  /\ HorsMediation /\ UNCHANGED <<mission, litigeEtAccords>>
                  /\ RevoquerInactif(o)
             \/ \E t \in TOTAUX : HorsMediation /\ AccepterDevis(t)
             \/ \E r \in Requetes :
                  \/ HorsLitige /\ OuvrirLitige(r)
                  \/ \E concerne \in BOOLEAN : HorsLitige /\ LireLitige(r, concerne)
                  \/ HorsMediation /\ ConsulterLitiges(r)
                  \/ HorsMediation /\ TrancherLitige(r)
      PROVE  But
  BY <1>6 DEF LitigePas
<1>7. ASSUME \E r \in Requetes : HorsRequete /\ Interrompre(r)
      PROVE  But
  <2>1. PICK r \in Requetes : HorsRequete /\ Interrompre(r)
    BY <1>7
  <2>2. UNCHANGED <<mission, reprogrammation, suivi, conversation, notation,
                    journalOps, litigeEtAccords, volet>>
    BY <2>1 DEF HorsRequete
  <2>3. volet \in Volets
    BY DEF SuitesInv
  <2>4. CASE volet = "reprogrammation"
    BY <2>1, <2>2, <2>4 DEF HorsReprogrammation, ReprogrammationPas
  <2>5. CASE volet = "suivi"
    BY <2>1, <2>2, <2>5 DEF HorsSuivi, SuiviPas
  <2>6. CASE volet = "conversation"
    BY <2>1, <2>2, <2>6 DEF HorsConversation, ConversationPas
  <2>7. CASE volet = "notation"
    BY <2>1, <2>2, <2>7 DEF HorsNotation, NotationPas
  <2>8. CASE volet \in {"litige", "mediation"}
    BY <2>1, <2>2, <2>8 DEF HorsLitige, HorsMediation, LitigePas
  <2> QED BY <2>3, <2>4, <2>5, <2>6, <2>7, <2>8 DEF Volets
<1> QED BY <1>1, <1>2, <1>3, <1>4, <1>5, <1>6, <1>7 DEF Next

LEMMA SuitesInvNext ==
  ASSUME SuitesInv, [Next]_vars
  PROVE  SuitesInv'
<1>t. volet \in Volets /\ MissionInv /\ VoletTenu /\ AutresAuRepos
  BY DEF SuitesInv
<1>1. CASE UNCHANGED vars
  <2>1. UNCHANGED <<mission, requete, reprogrammation, suivi, conversation, notation,
                    journalOps, litigeEtAccords, volet>>
    BY <1>1 DEF vars
  <2>2. MissionInv' /\ MissionSuit
    BY <1>t, <2>1, MissionIntacte
  <2>3. VoletTenu'
    BY <1>t, <2>1, <2>2, ReprogrammationSuit, SuiviSuit, ConversationSuit,
       NotationSuit, LitigeSuit DEF VoletTenu
  <2>4. AutresAuRepos'
    BY <1>t, <2>1
       DEF AutresAuRepos, reprogrammation, conversation, notation, litigeEtAccords,
           NotationInit
  <2> QED BY <1>t, <2>1, <2>2, <2>3, <2>4 DEF SuitesInv
<1>2. CASE HorsMission /\ MissionNext
  <2>1. UNCHANGED <<requete, reprogrammation, suivi, conversation, notation,
                    journalOps, litigeEtAccords, volet>>
    BY <1>2 DEF HorsMission
  <2>2. MissionInv' /\ MissionSuit
    BY <1>2, <1>t, MissionInvNext
  <2>3. VoletTenu'
    BY <1>t, <2>1, <2>2, ReprogrammationSuit, SuiviSuit, ConversationSuit,
       NotationSuit, LitigeSuit DEF VoletTenu
  <2>4. AutresAuRepos'
    BY <1>t, <2>1
       DEF AutresAuRepos, reprogrammation, conversation, notation, litigeEtAccords,
           NotationInit
  <2> QED BY <1>t, <2>1, <2>2, <2>3, <2>4 DEF SuitesInv
<1>3. CASE HorsReprogrammation /\ ReprogrammationPas
  <2>1. /\ volet = "reprogrammation" /\ volet' = volet
        /\ UNCHANGED <<messages, notes, vues, nombreNotes, litige>>
    BY <1>3 DEF HorsReprogrammation, conversation, notation, litigeEtAccords
  <2>2. MissionInv' /\ ReprogrammationInv'
    BY <1>3, <1>t, <2>1, MissionSeulementLue, MissionIntacte, ReprogrammationInvNext
       DEF VoletTenu
  <2>3. VoletTenu' /\ AutresAuRepos'
    BY <1>t, <2>1, <2>2 DEF VoletTenu, AutresAuRepos, NotationInit
  <2> QED BY <1>t, <2>1, <2>2, <2>3 DEF SuitesInv
<1>4. CASE HorsSuivi /\ SuiviPas
  <2>1. /\ volet = "suivi" /\ volet' = volet
        /\ UNCHANGED <<proposition, reprises, messages, notes, vues, nombreNotes,
                       litige>>
    BY <1>4 DEF HorsSuivi, reprogrammation, conversation, notation, litigeEtAccords
  <2>2. MissionInv' /\ SuiviInv'
    BY <1>4, <1>t, <2>1, MissionSeulementLue, MissionIntacte, SuiviInvNext
       DEF VoletTenu
  <2>3. VoletTenu' /\ AutresAuRepos'
    BY <1>t, <2>1, <2>2 DEF VoletTenu, AutresAuRepos, NotationInit
  <2> QED BY <1>t, <2>1, <2>2, <2>3 DEF SuitesInv
<1>5. CASE HorsConversation /\ ConversationPas
  <2>1. /\ volet = "conversation" /\ volet' = volet
        /\ UNCHANGED <<proposition, reprises, notes, vues, nombreNotes, litige>>
    BY <1>5 DEF HorsConversation, reprogrammation, notation, litigeEtAccords
  <2>2. MissionInv' /\ ConversationInv'
    BY <1>5, <1>t, <2>1, MissionSeulementLue, MissionIntacte, ConversationInvNext
       DEF VoletTenu
  <2>3. VoletTenu' /\ AutresAuRepos'
    BY <1>t, <2>1, <2>2 DEF VoletTenu, AutresAuRepos, NotationInit
  <2> QED BY <1>t, <2>1, <2>2, <2>3 DEF SuitesInv
<1>6. CASE HorsNotation /\ NotationPas
  <2>1. /\ volet = "notation" /\ volet' = volet
        /\ UNCHANGED <<proposition, reprises, messages, litige>>
    BY <1>6 DEF HorsNotation, reprogrammation, conversation, litigeEtAccords
  <2>2. MissionInv' /\ NotationInv'
    BY <1>6, <1>t, <2>1, MissionSeulementLue, MissionIntacte, NotationInvNext
       DEF VoletTenu
  <2>3. VoletTenu' /\ AutresAuRepos'
    BY <1>t, <2>1, <2>2 DEF VoletTenu, AutresAuRepos
  <2> QED BY <1>t, <2>1, <2>2, <2>3 DEF SuitesInv
<1>7. CASE (HorsLitige \/ HorsMediation) /\ LitigePas
  <2>1. /\ volet \in {"litige", "mediation"} /\ volet' = volet
        /\ UNCHANGED <<proposition, reprises, messages, notes, vues, nombreNotes>>
    BY <1>7 DEF HorsLitige, HorsMediation, reprogrammation, conversation, notation
  <2>2. MissionInv' /\ LitigeInv'
    BY <1>7, <1>t, <2>1, MissionSeulementLue, MissionIntacte, LitigeInvNext
       DEF VoletTenu
  <2>3. VoletTenu' /\ AutresAuRepos'
    BY <1>t, <2>1, <2>2 DEF VoletTenu, AutresAuRepos, NotationInit
  <2> QED BY <1>t, <2>1, <2>2, <2>3 DEF SuitesInv
<1>8. CASE Next
  BY <1>2, <1>3, <1>4, <1>5, <1>6, <1>7, <1>8, PasDeVolet
<1> QED BY <1>1, <1>8

LEMMA SuitesInvInit == Init => SuitesInv
<1> SUFFICES ASSUME Init PROVE SuitesInv
  OBVIOUS
<1>1. /\ MissionInit /\ AppelsInit /\ volet \in Volets
      /\ SuiviInit /\ ConversationInit /\ NotationInit
  BY DEF Init
<1>2. IF volet = "reprogrammation" THEN ReprogrammationInit
        ELSE proposition = "ABSENTE" /\ reprises = 0
  BY DEF Init
<1>3. IF volet = "mediation" THEN MediationInit ELSE LitigeInit
  BY DEF Init
<1>4. VoletTenu
  BY <1>1, <1>2, <1>3, ReprogrammationInvInit, SuiviInvInit, ConversationInvInit,
     NotationInvInit, LitigeInvInit DEF VoletTenu
<1>5. AutresAuRepos
  BY <1>1, <1>2, <1>3 DEF AutresAuRepos, ConversationInit, LitigeInit
<1> QED BY <1>1, <1>4, <1>5, MissionInvInit DEF SuitesInv

-----------------------------------------------------------------------------
\* What the answers of a follow-up can be: none says what another one writes.
LEMMA ReponsesPropres ==
  ASSUME SuitesInv, NEW r \in Requetes, requete[r].op = "repondu"
  PROVE  /\ volet = "reprogrammation" => requete[r].code \in CodesReprogrammation
         /\ volet = "suivi" => requete[r].code \in CodesSuivi \cup Vues
         /\ volet = "conversation" => requete[r].code \in CodesConversation
         /\ volet = "notation" =>
              requete[r].code \in CodesNotation \cup {"RATING_RECORDED", "RATINGS"}
         /\ volet \in {"litige", "mediation"} =>
              requete[r].code \in CodesLitige \cup
                {"FORBIDDEN", "DISPUTE_OPENED", "DISPUTE_RESOLVED"}
<1>1. VoletTenu
  BY DEF SuitesInv
<1>2. CASE volet = "reprogrammation"
  <2>1. requete[r] \in EtatsReprogrammation
    BY <1>1, <1>2 DEF VoletTenu, ReprogrammationInv
  <2> QED BY <1>2, <2>1 DEF EtatsReprogrammation, Repos
<1>3. CASE volet = "suivi"
  <2>1. requete[r] \in EtatsSuivi
    BY <1>1, <1>3 DEF VoletTenu, SuiviInv, SuiviOK
  <2> QED BY <1>3, <2>1 DEF EtatsSuivi, Repos
<1>4. CASE volet = "conversation"
  <2>1. requete[r] \in EtatsConversation
    BY <1>1, <1>4 DEF VoletTenu, ConversationInv, ConversationOK
  <2> QED BY <1>4, <2>1 DEF EtatsConversation, Repos
<1>5. CASE volet = "notation"
  <2>1. requete[r] \in EtatsNotation
    BY <1>1, <1>5 DEF VoletTenu, NotationInv, NotationOK
  <2> QED BY <1>5, <2>1 DEF EtatsNotation, Repos
<1>6. CASE volet \in {"litige", "mediation"}
  <2>1. requete[r] \in EtatsLitige
    BY <1>1, <1>6 DEF VoletTenu, LitigeInv, LitigeOK
  <2> QED BY <1>6, <2>1 DEF EtatsLitige, EtatsGeste, SuitesMediation, Repos
<1> QED BY <1>2, <1>3, <1>4, <1>5, <1>6 DEF SuitesInv, Volets

LEMMA DesTypes == SuitesInv => TypeOK
BY ReprogrammationInvSuffit, SuiviInvSuffit, ConversationInvSuffit, NotationInvSuffit,
   LitigeInvSuffit DEF SuitesInv, VoletTenu, MissionInv, TypeOK

LEMMA DeReprogrammation == SuitesInv => RepriseFondee
<1> SUFFICES ASSUME SuitesInv PROVE RepriseFondee
  OBVIOUS
<1>1. CASE volet = "reprogrammation"
  BY <1>1, ReprogrammationInvSuffit DEF SuitesInv, VoletTenu
<1>2. CASE volet # "reprogrammation"
  <2>1. proposition = "ABSENTE" /\ reprises = 0
    BY <1>2 DEF SuitesInv, AutresAuRepos
  <2>2. \A code : StatutReprogrammation(code) \in {200, 201} => code \in Ecrites
    BY DEF StatutReprogrammation, Ecrites
  <2>3. ASSUME NEW r \in Requetes, requete[r].op = "repondu"
        PROVE  requete[r].code \notin Ecrites
    BY <1>2, <2>3, ReponsesPropres
       DEF SuitesInv, Volets, Ecrites, CodesSuivi, Vues, CodesConversation,
           CodesNotation, CodesLitige
  <2> QED BY <2>1, <2>2, <2>3 DEF RepriseFondee
<1> QED BY <1>1, <1>2

LEMMA DeConversation == SuitesInv => ConversationBornee
<1> SUFFICES ASSUME SuitesInv PROVE ConversationBornee
  OBVIOUS
<1>1. CASE volet = "conversation"
  BY <1>1, ConversationInvSuffit DEF SuitesInv, VoletTenu
<1>2. CASE volet # "conversation"
  <2>1. messages = 0
    BY <1>2 DEF SuitesInv, AutresAuRepos
  <2>2. messages < MESSAGES_MAX + Cardinality(Requetes)
    BY <2>1, Comptees, ConversationAssumption
  <2>3. \A code : StatutConversation(code) = 201 => code = "MESSAGE_SENT"
    BY DEF StatutConversation
  <2>4. ASSUME NEW r \in Requetes, requete[r].op = "repondu"
        PROVE  requete[r].code # "MESSAGE_SENT"
    BY <1>2, <2>4, ReponsesPropres
       DEF SuitesInv, Volets, CodesReprogrammation, CodesSuivi, Vues, CodesNotation,
           CodesLitige
  <2> QED BY <2>2, <2>3, <2>4 DEF ConversationBornee
<1> QED BY <1>1, <1>2

LEMMA DeNotation == SuitesInv => NotesAveugles
<1> SUFFICES ASSUME SuitesInv PROVE NotesAveugles
  OBVIOUS
<1>1. CASE volet = "notation"
  BY <1>1, NotationInvSuffit DEF SuitesInv, VoletTenu
<1>2. CASE volet # "notation"
  <2>1. NotationInit
    BY <1>2 DEF SuitesInv, AutresAuRepos
  <2>2. (\A c \in Cibles : notes[c] # "informee") /\ Notees = {} /\ nombreNotes = 0
    BY <2>1 DEF NotationInit, Notees
  <2>3. \A code : StatutNotation(code) = 201 => code = "RATING_RECORDED"
    BY DEF StatutNotation
  <2>4. ASSUME NEW r \in Requetes, requete[r].op = "repondu"
        PROVE  requete[r].code # "RATING_RECORDED"
    BY <1>2, <2>4, ReponsesPropres
       DEF SuitesInv, Volets, CodesReprogrammation, CodesSuivi, Vues,
           CodesConversation, CodesLitige
  <2> QED BY <2>2, <2>3, <2>4 DEF NotesAveugles
<1> QED BY <1>1, <1>2

LEMMA DeLitige == SuitesInv => DecisionAnnoncee
<1> SUFFICES ASSUME SuitesInv PROVE DecisionAnnoncee
  OBVIOUS
<1>1. CASE volet \in {"litige", "mediation"}
  BY <1>1, LitigeInvSuffit DEF SuitesInv, VoletTenu
<1>2. CASE volet \notin {"litige", "mediation"}
  <2>1. litige.statut \notin Tranches
    BY <1>2 DEF SuitesInv, AutresAuRepos, LitigeAbsent, Tranches
  <2>2. \A code : StatutLitige(code) = 201 => code = "DISPUTE_OPENED"
    BY DEF StatutLitige
  <2>3. ASSUME NEW r \in Requetes, requete[r].op = "repondu"
        PROVE  requete[r].code \notin {"DISPUTE_OPENED", "DISPUTE_RESOLVED"}
    BY <1>2, <2>3, ReponsesPropres
       DEF SuitesInv, Volets, CodesReprogrammation, CodesSuivi, Vues,
           CodesConversation, CodesNotation
  <2> QED BY <2>1, <2>2, <2>3 DEF DecisionAnnoncee
<1> QED BY <1>1, <1>2

-----------------------------------------------------------------------------
LEMMA InvToujours == Spec => []SuitesInv
BY SuitesInvInit, SuitesInvNext, PTL DEF Spec

\* Every row, every answer and every read in hand stays what the tables and the
\* routes of the follow-ups can hold.
THEOREM TypesToujoursTenus == Spec => []TypeOK
BY InvToujours, DesTypes, PTL

\* However many proposals and answers cross, a cancelled Mission is taken up once
\* at most, and only one that its provider cancelled after a devis was agreed
\* (reprogrammer, PgReprogrammationRepository).
THEOREM RepriseToujoursFondee == Spec => []RepriseFondee
BY InvToujours, DeReprogrammation, PTL

\* A conversation never passes its limit by more than the requests that read it
\* together (envoyer, Message::ecrire).
THEOREM ConversationToujoursBornee == Spec => []ConversationBornee
BY InvToujours, DeConversation, PTL

\* Nobody gives his note after having read the one given about him, wherever the
\* window closes between the reads and the writes of the two parties (noter).
THEOREM NotesToujoursAveugles == Spec => []NotesAveugles
BY InvToujours, DeNotation, PTL

\* A dispute is decided once, as its mediator was told, by an account that had the
\* right to it and whose act is in the journal, within an agreed total (trancher,
\* autoriser_et_consigner).
THEOREM DecisionToujoursAnnoncee == Spec => []DecisionAnnoncee
BY InvToujours, DeLitige, PTL
=============================================================================
