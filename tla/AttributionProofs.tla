-------------------------- MODULE AttributionProofs --------------------------
(***************************************************************************)
(* What holds of Attribution for any number of Demandes, providers,        *)
(* concurrent requests and resumptions: type correctness, one living       *)
(* Mission per Demande, one Mission in progress per provider, the          *)
(* refinement of Affectation, and the finality of MATCHED and CANCELLED    *)
(* that follows from it.                                                   *)
(***************************************************************************)
EXTENDS Attribution, TLAPS

\* What a request in progress carries, according to the step it has reached.
LEMMA ChampsRequete ==
  ASSUME TypeOK, NEW r \in Requetes
  PROVE  /\ requete[r].op \in {"accepter", "elargir", "annuler", "epuiser",
                               "matcher", "eteindre", "consigner", "notifier"}
              => requete[r].demande \in Demandes
         /\ requete[r].op = "accepter" => requete[r].prestataire \in Prestataires
         /\ requete[r].op = "elargir" => /\ requete[r].vers \in Tours
                                         /\ requete[r].age \in 0..DUREE_DIFFUSION
         /\ requete[r].op = "matcher" =>
              /\ requete[r].tour \in Tours
              /\ requete[r] = [op |-> "matcher", demande |-> requete[r].demande,
                               tour |-> requete[r].tour]
         /\ requete[r].op = "elargir" =>
              requete[r] = [op |-> "elargir", demande |-> requete[r].demande,
                            vers |-> requete[r].vers, age |-> requete[r].age]
         /\ requete[r].op = "consigner" =>
              /\ requete[r].examines \in SUBSET Prestataires
              /\ requete[r].retenus \in SUBSET Prestataires
BY DEF TypeOK, EtatsRequete

\* The request's own state after its step, when that state is well formed.
LEMMA DevientType ==
  ASSUME TypeOK, NEW r \in Requetes, NEW e \in EtatsRequete, Devient(r, e)
  PROVE  requete' \in [Requetes -> EtatsRequete]
BY DEF TypeOK, Devient

\* Rewriting the statut of a row keeps the row well formed.
LEMMA StatutType ==
  ASSUME TypeOK, NEW d \in Demandes, NEW s \in StatutsDemande,
         \/ demande' = [demande EXCEPT ![d].statut = s]
         \/ demande' = demande
  PROVE  demande' \in [Demandes -> LignesDemande]
BY DEF TypeOK, LignesDemande

\* The clock saturates: an age stays in the window.
LEMMA VieillirType ==
  ASSUME NEW a \in 0..DUREE_DIFFUSION
  PROVE  Vieillir(a) \in 0..DUREE_DIFFUSION
BY ParametresAssumption DEF Vieillir

\* Init and every step keep every row and every request in progress typed.
LEMMA TypeInit == Init => TypeOK
BY ParametresAssumption
DEF Init, TypeOK, LignesDemande, StatutsDemande, EtatsRequete, Repos

\* The steps of the routes, sorted for the proofs: those that open a request
\* and those that go on with one.
Demander(r) ==
  \E d \in Demandes :
    \/ Soumettre(r, d)
    \/ \E p \in Prestataires : DemanderAcceptation(r, d, p)
    \/ DemanderElargissement(r, d)
    \/ DemanderAnnulation(r, d)

Poursuivre(r) ==
  \/ ChercherCandidats(r)
  \/ EteindreFauteDeCandidat(r)
  \/ ConsignerTrace(r)
  \/ NotifierCandidats(r)
  \/ Attribuer(r)
  \/ Relancer(r)
  \/ AnnulerEpuisee(r)
  \/ Annuler(r)

EtapeRoute(r) ==
  \/ SoumettreDemande(r)
  \/ AccepterDemande(r)
  \/ ElargirRayon(r)
  \/ AnnulerDemande(r)

LEMMA EtapesDesRoutes ==
  ASSUME NEW r \in Requetes, EtapeRoute(r)
  PROVE  Demander(r) \/ Poursuivre(r)
<1>1. CASE SoumettreDemande(r)
  BY <1>1 DEF SoumettreDemande, Diffuser, Demander, Poursuivre
<1>2. CASE AccepterDemande(r)
  BY <1>2 DEF AccepterDemande, Demander, Poursuivre
<1>3. CASE ElargirRayon(r)
  BY <1>3 DEF ElargirRayon, Diffuser, Demander, Poursuivre
<1>4. CASE AnnulerDemande(r)
  BY <1>4 DEF AnnulerDemande, Demander, Poursuivre
<1> QED BY <1>1, <1>2, <1>3, <1>4 DEF EtapeRoute

LEMMA TypeDemander ==
  ASSUME TypeOK, NEW r \in Requetes, Demander(r)
  PROVE  TypeOK'
<1>1. ASSUME NEW d \in Demandes, Soumettre(r, d)
      PROVE  TypeOK'
  <2>1. [op |-> "matcher", demande |-> d, tour |-> 0] \in EtatsRequete
    BY ParametresAssumption DEF EtatsRequete, Tours
  <2>2. requete' \in [Requetes -> EtatsRequete]
    BY <1>1, <2>1, DevientType DEF Soumettre
  <2>3. demande' \in [Demandes -> LignesDemande]
    BY <1>1, ParametresAssumption
    DEF Soumettre, TypeOK, LignesDemande, StatutsDemande
  <2> QED BY <1>1, <2>2, <2>3 DEF Soumettre, TypeOK
<1>2. ASSUME NEW d \in Demandes, NEW p \in Prestataires,
             DemanderAcceptation(r, d, p)
      PROVE  TypeOK'
  <2>1. [op |-> "accepter", demande |-> d, prestataire |-> p] \in EtatsRequete
    BY DEF EtatsRequete
  <2>2. requete' \in [Requetes -> EtatsRequete]
    BY <1>2, <2>1, DevientType DEF DemanderAcceptation
  <2> QED BY <1>2, <2>2 DEF DemanderAcceptation, TypeOK
<1>3. ASSUME NEW d \in Demandes, DemanderElargissement(r, d)
      PROVE  TypeOK'
  <2>1. requete' \in [Requetes -> EtatsRequete]
    <3>1. CASE EstEpuisee(d)
      <4>1. [op |-> "epuiser", demande |-> d] \in EtatsRequete
        BY DEF EtatsRequete
      <4> QED BY <1>3, <3>1, <4>1, DevientType DEF DemanderElargissement
    <3>2. CASE ~EstEpuisee(d)
      <4>1. demande[d].elargissements + 1 \in Tours
        BY <3>2, ParametresAssumption
        DEF TypeOK, LignesDemande, EstEpuisee, Tours
      <4>2. [op |-> "elargir", demande |-> d, age |-> 0,
             vers |-> demande[d].elargissements + 1] \in EtatsRequete
        BY <4>1, ParametresAssumption DEF EtatsRequete
      <4> QED BY <1>3, <3>2, <4>2, DevientType DEF DemanderElargissement
    <3> QED BY <3>1, <3>2
  <2> QED BY <1>3, <2>1 DEF DemanderElargissement, TypeOK
<1>4. ASSUME NEW d \in Demandes, DemanderAnnulation(r, d)
      PROVE  TypeOK'
  <2>1. [op |-> "annuler", demande |-> d] \in EtatsRequete
    BY DEF EtatsRequete
  <2>2. requete' \in [Requetes -> EtatsRequete]
    BY <1>4, <2>1, DevientType DEF DemanderAnnulation
  <2> QED BY <1>4, <2>2 DEF DemanderAnnulation, TypeOK
<1> QED BY <1>1, <1>2, <1>3, <1>4 DEF Demander

LEMMA TypePoursuivre ==
  ASSUME TypeOK, NEW r \in Requetes, Poursuivre(r)
  PROVE  TypeOK'
<1>r. Repos \in EtatsRequete
  BY DEF Repos, EtatsRequete
<1>c. ASSUME NEW c \in Reponses, NEW d \in Demandes
      PROVE  Reponse(c, d) \in EtatsRequete
  BY DEF Reponse, EtatsRequete
<1>1. ASSUME ChercherCandidats(r)
      PROVE  TypeOK'
  <2>1. requete[r].demande \in Demandes /\ requete[r].tour \in Tours
    BY <1>1, ChampsRequete DEF ChercherCandidats
  <2>2. [requete[r] EXCEPT !.op = "eteindre"] \in EtatsRequete
    <3>1. requete[r] = [op |-> "matcher", demande |-> requete[r].demande,
                        tour |-> requete[r].tour]
      BY <1>1, ChampsRequete DEF ChercherCandidats
    <3>2. [requete[r] EXCEPT !.op = "eteindre"]
            = [op |-> "eteindre", demande |-> requete[r].demande,
               tour |-> requete[r].tour]
      BY <3>1
    <3> QED BY <2>1, <3>2 DEF EtatsRequete
  <2>3. ASSUME NEW e \in SUBSET Prestataires, NEW n \in SUBSET Prestataires
        PROVE  [op |-> "consigner", demande |-> requete[r].demande,
                examines |-> e, retenus |-> n] \in EtatsRequete
    BY <2>1 DEF EtatsRequete
  <2>4. Eligibles(requete[r].demande) \subseteq Prestataires
    BY <2>1, ParametresAssumption DEF Eligibles
  <2>5. requete' \in [Requetes -> EtatsRequete]
    BY <1>1, <2>2, <2>3, <2>4, DevientType DEF ChercherCandidats
  <2> QED BY <1>1, <2>5 DEF ChercherCandidats, TypeOK
<1>2. ASSUME EteindreFauteDeCandidat(r)
      PROVE  TypeOK'
  <2>1. requete' \in [Requetes -> EtatsRequete]
    BY <1>2, <1>r, DevientType DEF EteindreFauteDeCandidat
  <2>2. requete[r].demande \in Demandes
    BY <1>2, ChampsRequete DEF EteindreFauteDeCandidat
  <2>3. demande' \in [Demandes -> LignesDemande]
    BY <1>2, <2>2, StatutType
    DEF EteindreFauteDeCandidat, ChangerStatut, StatutsDemande
  <2> QED BY <1>2, <2>1, <2>3 DEF EteindreFauteDeCandidat, TypeOK
<1>3. ASSUME ConsignerTrace(r)
      PROVE  TypeOK'
  <2>1. /\ requete[r].demande \in Demandes
        /\ requete[r].retenus \in SUBSET Prestataires
    BY <1>3, ChampsRequete DEF ConsignerTrace
  <2>2. [op |-> "notifier", demande |-> requete[r].demande,
         retenus |-> requete[r].retenus] \in EtatsRequete
    BY <2>1 DEF EtatsRequete
  <2>3. requete' \in [Requetes -> EtatsRequete]
    BY <1>3, <2>2, DevientType DEF ConsignerTrace
  <2>4. trace' \in [Demandes ->
                    [Prestataires -> {"aucune", "retenu", "ecarte"}]]
    BY <1>3, <2>1 DEF ConsignerTrace, TypeOK, LignesApres, LigneTrace
  <2> QED BY <1>3, <2>3, <2>4 DEF ConsignerTrace, TypeOK
<1>4. ASSUME NotifierCandidats(r)
      PROVE  TypeOK'
  <2>1. requete' \in [Requetes -> EtatsRequete]
    BY <1>4, <1>r, DevientType DEF NotifierCandidats
  <2> QED BY <1>4, <2>1 DEF NotifierCandidats, TypeOK
<1>5. ASSUME Attribuer(r)
      PROVE  TypeOK'
  <2>1. /\ requete[r].demande \in Demandes
        /\ requete[r].prestataire \in Prestataires
    BY <1>5, ChampsRequete DEF Attribuer, MissionNee
  <2>2. requete' \in [Requetes -> EtatsRequete]
    BY <1>5, <1>r, <1>c, <2>1, DevientType DEF Attribuer, MissionNee, Reponses
  <2>3. demande' \in [Demandes -> LignesDemande]
    BY <1>5, <2>1, StatutType DEF Attribuer, MissionNee, StatutsDemande
  <2>4. mission' \subseteq LignesMission
    BY <1>5, <2>1, ParametresAssumption
    DEF Attribuer, MissionNee, TypeOK, LignesMission, StatutsMission, Rangs
  <2> QED BY <1>5, <2>2, <2>3, <2>4 DEF Attribuer, MissionNee, TypeOK
<1>6. ASSUME Relancer(r)
      PROVE  TypeOK'
  <2>1. /\ requete[r].demande \in Demandes
        /\ requete[r].vers \in Tours
        /\ requete[r].age \in 0..DUREE_DIFFUSION
    BY <1>6, ChampsRequete DEF Relancer
  <2>2. [op |-> "matcher", demande |-> requete[r].demande,
         tour |-> requete[r].vers] \in EtatsRequete
    BY <2>1 DEF EtatsRequete
  <2>3. requete' \in [Requetes -> EtatsRequete]
    BY <1>6, <1>r, <2>2, DevientType DEF Relancer
  <2>4. demande' \in [Demandes -> LignesDemande]
    BY <1>6, <2>1, SMTT(30)
    DEF Relancer, TypeOK, LignesDemande, StatutsDemande, Tours
  <2>5. relances' \in [Demandes -> Nat]
    BY <1>6, <2>1 DEF Relancer, TypeOK
  <2> QED BY <1>6, <2>3, <2>4, <2>5 DEF Relancer, TypeOK
<1>7. ASSUME AnnulerEpuisee(r) \/ Annuler(r)
      PROVE  TypeOK'
  <2>1. requete[r].demande \in Demandes
    BY <1>7, ChampsRequete DEF AnnulerEpuisee, Annuler
  <2>2. requete' \in [Requetes -> EtatsRequete]
    BY <1>7, <1>r, <1>c, <2>1, DevientType
    DEF AnnulerEpuisee, Annuler, Reponses
  <2>3. demande' \in [Demandes -> LignesDemande]
    BY <1>7, <2>1, StatutType
    DEF AnnulerEpuisee, Annuler, EcrireAnnulation, StatutsDemande
  <2> QED BY <1>7, <2>2, <2>3 DEF AnnulerEpuisee, Annuler, TypeOK
<1> QED BY <1>1, <1>2, <1>3, <1>4, <1>5, <1>6, <1>7 DEF Poursuivre

LEMMA TypeNext == TypeOK /\ [Next]_vars => TypeOK'
<1> SUFFICES ASSUME TypeOK, [Next]_vars PROVE TypeOK'
  OBVIOUS
<1>1. ASSUME NEW r \in Requetes, Interrompre(r) PROVE TypeOK'
  <2>1. Repos \in EtatsRequete
    BY DEF Repos, EtatsRequete
  <2>2. requete' \in [Requetes -> EtatsRequete]
    BY <1>1, <2>1, DevientType DEF Interrompre
  <2> QED BY <1>1, <2>2 DEF Interrompre, TypeOK
<1>2. ASSUME ExpirerEchues PROVE TypeOK'
  <2>1. demande' \in [Demandes -> LignesDemande]
    BY <1>2 DEF ExpirerEchues, TypeOK, LignesDemande, StatutsDemande
  <2> QED BY <1>2, <2>1 DEF ExpirerEchues, TypeOK
<1>3. ASSUME NEW m \in mission, NEW cible \in StatutsMission,
             TransiterMission(m, cible)
      PROVE  TypeOK'
  <2>1. mission' \subseteq LignesMission
    BY <1>3 DEF TransiterMission, TypeOK, LignesMission
  <2> QED BY <1>3, <2>1 DEF TransiterMission, TypeOK
<1>7. ASSUME NEW m \in mission, Reprendre(m) PROVE TypeOK'
  <2>1. [MissionNee(m.demande, m.prestataire) EXCEPT !.rang = m.rang + 1]
          \in LignesMission
    <3>1. m \in LignesMission /\ m.rang + 1 \in Rangs
      BY <1>7, ParametresAssumption
      DEF Reprendre, TypeOK, LignesMission, Rangs
    <3>2. [MissionNee(m.demande, m.prestataire) EXCEPT !.rang = m.rang + 1]
            = [demande |-> m.demande, prestataire |-> m.prestataire,
               statut |-> "ACCEPTED", rang |-> m.rang + 1]
      BY DEF MissionNee
    <3> QED BY <3>1, <3>2 DEF LignesMission, StatutsMission
  <2> QED BY <1>7, <2>1 DEF Reprendre, TypeOK
<1>4. ASSUME NEW p \in Prestataires, MettreAJourEtat(p) PROVE TypeOK'
  BY <1>4 DEF MettreAJourEtat, TypeOK
<1>5. ASSUME Tic PROVE TypeOK'
  <2>1. demande' \in [Demandes -> LignesDemande]
    BY <1>5, VieillirType DEF Tic, TypeOK, LignesDemande
  <2>2. ASSUME NEW r \in Requetes, requete[r].op = "elargir"
        PROVE  [requete[r] EXCEPT !.age = Vieillir(@)] \in EtatsRequete
    <3>1. /\ requete[r].demande \in Demandes
          /\ requete[r].vers \in Tours
          /\ requete[r].age \in 0..DUREE_DIFFUSION
          /\ requete[r] = [op |-> "elargir", demande |-> requete[r].demande,
                           vers |-> requete[r].vers, age |-> requete[r].age]
      BY <2>2, ChampsRequete
    <3>2. Vieillir(requete[r].age) \in 0..DUREE_DIFFUSION
      BY <3>1, VieillirType
    <3>3. [requete[r] EXCEPT !.age = Vieillir(@)]
            = [op |-> "elargir", demande |-> requete[r].demande,
               vers |-> requete[r].vers, age |-> Vieillir(requete[r].age)]
      BY <3>1
    <3> QED BY <3>1, <3>2, <3>3 DEF EtatsRequete
  <2>3. requete' \in [Requetes -> EtatsRequete]
    BY <1>5, <2>2 DEF Tic, TypeOK
  <2> QED BY <1>5, <2>1, <2>3 DEF Tic, TypeOK
<1>6. CASE UNCHANGED vars
  BY <1>6 DEF vars, TypeOK
<1> QED BY <1>1, <1>2, <1>3, <1>4, <1>5, <1>6, <1>7, TypeDemander, TypePoursuivre,
           EtapesDesRoutes
        DEF Next, EtapeRoute

\* Every row keeps a statut, a counter and an age its column allows, and every
\* request carries what its next step needs, whatever the interleaving.
THEOREM TypeCorrect == Spec => []TypeOK
BY TypeInit, TypeNext, PTL DEF Spec

-----------------------------------------------------------------------------
\* The steps that write no row of mission.
SansMission ==
  /\ ~ \E r \in Requetes : Attribuer(r)
  /\ ~ \E m \in mission, cible \in StatutsMission : TransiterMission(m, cible)
  /\ ~ \E m \in mission : Reprendre(m)

\* The steps that touch no row of mission neither take a Demande nor give it
\* back: a Demande is MATCHED after them exactly when it was before.
LEMMA StatutSansMission ==
  ASSUME TypeOK, [Next]_vars,
         SansMission
  PROVE  /\ mission' = mission
         /\ \A d \in Demandes :
              demande'[d].statut = "MATCHED" <=> demande[d].statut = "MATCHED"
<1> DEFINE But == /\ mission' = mission
                  /\ \A d \in Demandes : demande'[d].statut = "MATCHED"
                                           <=> demande[d].statut = "MATCHED"
<1>t. demande \in [Demandes -> LignesDemande]
  BY DEF TypeOK
<1>0. ASSUME NEW r \in Requetes, Demander(r) \/ Interrompre(r) PROVE But
  <2>1. ASSUME NEW d \in Demandes, Soumettre(r, d) PROVE But
    BY <2>1, <1>t DEF Soumettre, LignesDemande
  <2>2. CASE UNCHANGED <<demande, mission>>
    BY <2>2
  <2> QED
    BY <1>0, <2>1, <2>2
    DEF Demander, DemanderAcceptation, DemanderElargissement,
        DemanderAnnulation, Interrompre
<1>1. ASSUME NEW r \in Requetes, EteindreFauteDeCandidat(r) PROVE But
  BY <1>1, <1>t DEF EteindreFauteDeCandidat, ChangerStatut, LignesDemande
<1>2. ASSUME NEW r \in Requetes, Relancer(r) PROVE But
  BY <1>2, <1>t DEF Relancer, RelanceAdmise, LignesDemande
<1>3. ASSUME NEW r \in Requetes, AnnulerEpuisee(r) \/ Annuler(r) PROVE But
  BY <1>3, <1>t
  DEF AnnulerEpuisee, Annuler, EcrireAnnulation, AnnulationAdmise, LignesDemande
<1>4. ASSUME NEW r \in Requetes, Poursuivre(r) PROVE But
  BY <1>1, <1>2, <1>3, <1>4
  DEF Poursuivre, ChercherCandidats, ConsignerTrace, NotifierCandidats, SansMission
<1>5. CASE ExpirerEchues
  BY <1>5, <1>t DEF ExpirerEchues, Echues, LignesDemande
<1>6. CASE Tic
  BY <1>6, <1>t DEF Tic, LignesDemande
<1>7. CASE UNCHANGED vars
  BY <1>7 DEF vars
<1>8. ASSUME NEW p \in Prestataires, MettreAJourEtat(p) PROVE But
  BY <1>8 DEF MettreAJourEtat
<1> QED BY <1>0, <1>4, <1>5, <1>6, <1>7, <1>8, EtapesDesRoutes
        DEF Next, EtapeRoute, SansMission

\* A row of mission appears, in progress: its provider had none in progress,
\* and the other Missions of its Demande are all cancelled.
Nait(x) ==
  /\ x \in LignesMission
  /\ OccupeLePrestataire(x.statut)
  /\ EstVivante(x)
  /\ \A m \in mission :
       m.prestataire = x.prestataire => ~OccupeLePrestataire(m.statut)
  /\ \A m \in mission : m.demande = x.demande => ~EstVivante(m)
  /\ mission' = mission \cup {x}

\* A winning acceptance is a birth, and closes the Demande.
LEMMA AttributionGagnee ==
  ASSUME TypeOK, NEW r \in Requetes, Attribuer(r)
  PROVE  \/ UNCHANGED <<demande, mission>>
         \/ \E x \in LignesMission :
              /\ Nait(x)
              /\ demande[x.demande].statut = "BROADCASTING"
              /\ demande' = [demande EXCEPT ![x.demande].statut = "MATCHED"]
<1> DEFINE d == requete[r].demande
           p == requete[r].prestataire
           x == MissionNee(d, p)
<1>1. d \in Demandes /\ p \in Prestataires
  BY ChampsRequete DEF Attribuer
<1>2. /\ x.demande = d /\ x.prestataire = p
      /\ x.statut = "ACCEPTED" /\ x \in LignesMission
  BY <1>1, ParametresAssumption
  DEF MissionNee, LignesMission, StatutsMission, Rangs
<1>3. \/ UNCHANGED <<demande, mission>>
      \/ /\ demande[d].statut = "BROADCASTING"
         /\ InsertionAdmise(d, p)
         /\ demande' = [demande EXCEPT ![d].statut = "MATCHED"]
         /\ mission' = mission \cup {x}
  BY DEF Attribuer
<1> HIDE DEF d, p, x
<1>4. InsertionAdmise(d, p) /\ mission' = mission \cup {x} => Nait(x)
  BY <1>2 DEF InsertionAdmise, EstOccupe, Nait, OccupeLePrestataire, EstVivante
<1> QED BY <1>2, <1>3, <1>4

\* A resumption is a birth, on the account of the provider of the old row, and
\* leaves the Demande alone.
LEMMA RepriseNait ==
  ASSUME TypeOK, NEW m \in mission, Reprendre(m)
  PROVE  /\ demande' = demande
         /\ m \in LignesMission
         /\ \E x \in LignesMission :
              /\ Nait(x)
              /\ x.demande = m.demande
              /\ x.prestataire = m.prestataire
<1> DEFINE x == [MissionNee(m.demande, m.prestataire) EXCEPT !.rang = m.rang + 1]
<1>1. m \in LignesMission
  BY DEF TypeOK
<1>2. m.rang + 1 \in Rangs
  BY <1>1, ParametresAssumption DEF Reprendre, LignesMission, Rangs
<1>3. x = [demande |-> m.demande, prestataire |-> m.prestataire,
           statut |-> "ACCEPTED", rang |-> m.rang + 1]
  BY DEF MissionNee
<1>4. /\ x.demande = m.demande /\ x.prestataire = m.prestataire
      /\ x.statut = "ACCEPTED" /\ x \in LignesMission
  BY <1>1, <1>2, <1>3 DEF LignesMission, StatutsMission
<1>5. /\ demande' = demande
      /\ InsertionAdmise(m.demande, m.prestataire)
      /\ mission' = mission \cup {x}
  BY DEF Reprendre
<1> HIDE DEF x
<1>6. Nait(x)
  BY <1>4, <1>5
  DEF InsertionAdmise, EstOccupe, Nait, OccupeLePrestataire, EstVivante
<1> QED BY <1>1, <1>4, <1>5, <1>6

\* A birth keeps both uniqueness invariants, once the Demande it is born of is
\* MATCHED and given to no other provider.
LEMMA NaissanceUnique ==
  ASSUME AttribueeParUneMission, UneMissionALaFois,
         NEW x, Nait(x),
         \A m \in mission : m.demande = x.demande => m.prestataire = x.prestataire,
         \A d \in Demandes : demande'[d].statut = "MATCHED" <=>
                               demande[d].statut = "MATCHED" \/ d = x.demande
  PROVE  AttribueeParUneMission' /\ UneMissionALaFois'
<1>1. ASSUME NEW d \in Demandes
      PROVE  demande'[d].statut = "MATCHED" <=> \E m \in mission' : m.demande = d
  BY DEF Nait, AttribueeParUneMission
<1>2. ASSUME NEW d \in Demandes, NEW m \in mission', NEW n \in mission',
             m.demande = d, n.demande = d
      PROVE  m.prestataire = n.prestataire
  BY <1>2 DEF Nait, AttribueeParUneMission
<1>3. ASSUME NEW d \in Demandes, NEW m \in mission', NEW n \in mission',
             m.demande = d, n.demande = d, EstVivante(m), EstVivante(n)
      PROVE  m = n
  BY <1>3 DEF Nait, AttribueeParUneMission
<1>4. UneMissionALaFois'
  BY DEF Nait, UneMissionALaFois
<1> QED BY <1>1, <1>2, <1>3, <1>4 DEF AttribueeParUneMission, EstVivante

\* A Mission that advances stays the Mission of its Demande and its provider,
\* and never becomes "in progress", nor living, again.
LEMMA MissionAvance ==
  ASSUME TypeOK, NEW m \in mission, NEW cible \in StatutsMission,
         TransiterMission(m, cible)
  PROVE  /\ demande' = demande
         /\ m \in LignesMission
         /\ EstVivante(m)
         /\ OccupeLePrestataire(cible) => OccupeLePrestataire(m.statut)
         /\ cible = "CANCELLED" => OccupeLePrestataire(m.statut)
         /\ \E n \in LignesMission :
              /\ n.demande = m.demande
              /\ n.prestataire = m.prestataire
              /\ n.statut = cible
              /\ mission' = (mission \ {m}) \cup {n}
<1> DEFINE n == [m EXCEPT !.statut = cible]
<1>1. m \in LignesMission
  BY DEF TypeOK
<1>2. /\ n.demande = m.demande /\ n.prestataire = m.prestataire
      /\ n.statut = cible /\ n \in LignesMission
  BY <1>1 DEF LignesMission
<1>3. /\ EstVivante(m)
      /\ OccupeLePrestataire(cible) => OccupeLePrestataire(m.statut)
      /\ cible = "CANCELLED" => OccupeLePrestataire(m.statut)
  BY <1>1 DEF TransiterMission, TransitionsPossibles, OccupeLePrestataire,
              LignesMission, StatutsMission, EstVivante
<1>4. demande' = demande /\ mission' = (mission \ {m}) \cup {n}
  BY DEF TransiterMission
<1> HIDE DEF n
<1> QED BY <1>1, <1>2, <1>3, <1>4

LEMMA AvanceUnique ==
  ASSUME TypeOK, AttribueeParUneMission, UneMissionALaFois,
         NEW m \in mission, NEW cible \in StatutsMission,
         TransiterMission(m, cible)
  PROVE  AttribueeParUneMission' /\ UneMissionALaFois'
<1>1. /\ demande' = demande
      /\ m \in LignesMission
      /\ EstVivante(m)
      /\ OccupeLePrestataire(cible) => OccupeLePrestataire(m.statut)
  BY MissionAvance
<1>2. PICK n \in LignesMission :
         /\ n.demande = m.demande
         /\ n.prestataire = m.prestataire
         /\ n.statut = cible
         /\ mission' = (mission \ {m}) \cup {n}
  BY MissionAvance
<1>3. ASSUME NEW d \in Demandes
      PROVE  (\E k \in mission' : k.demande = d) <=> (\E k \in mission : k.demande = d)
  BY <1>2
<1>4. ASSUME NEW d \in Demandes, NEW k \in mission', NEW l \in mission',
             k.demande = d, l.demande = d
      PROVE  k.prestataire = l.prestataire
  BY <1>2, <1>4 DEF AttribueeParUneMission
<1>5. ASSUME NEW d \in Demandes, NEW k \in mission', NEW l \in mission',
             k.demande = d, l.demande = d, EstVivante(k), EstVivante(l)
      PROVE  k = l
  \* The Mission that advances was the only living one of its Demande.
  <2>1. ASSUME NEW j \in mission', j.demande = m.demande, EstVivante(j)
        PROVE  j = n
    <3>1. ASSUME j \in mission PROVE j = m
      BY <1>1, <2>1, <3>1 DEF AttribueeParUneMission, LignesMission
    <3> QED BY <1>2, <3>1
  <2>2. CASE d = m.demande
    BY <1>5, <2>1, <2>2
  <2>3. CASE d # m.demande
    <3>1. k \in mission /\ l \in mission
      BY <1>2, <1>5, <2>3
    <3> QED BY <1>5, <3>1 DEF AttribueeParUneMission
  <2> QED BY <2>2, <2>3
<1>6. UneMissionALaFois'
  BY <1>1, <1>2 DEF UneMissionALaFois
<1> QED BY <1>1, <1>3, <1>4, <1>5, <1>6 DEF AttribueeParUneMission, EstVivante

LEMMA UniciteNext ==
  TypeOK /\ AttribueeParUneMission /\ UneMissionALaFois /\ [Next]_vars
    => AttribueeParUneMission' /\ UneMissionALaFois'
<1> SUFFICES ASSUME TypeOK, AttribueeParUneMission, UneMissionALaFois,
                    [Next]_vars
             PROVE  AttribueeParUneMission' /\ UneMissionALaFois'
  OBVIOUS
<1>1. ASSUME NEW r \in Requetes, Attribuer(r)
      PROVE  AttribueeParUneMission' /\ UneMissionALaFois'
  <2>1. CASE UNCHANGED <<demande, mission>>
    BY <2>1 DEF AttribueeParUneMission, UneMissionALaFois, EstVivante
  <2>2. ASSUME NEW x \in LignesMission, Nait(x),
               demande[x.demande].statut = "BROADCASTING",
               demande' = [demande EXCEPT ![x.demande].statut = "MATCHED"]
        PROVE  AttribueeParUneMission' /\ UneMissionALaFois'
    <3>1. x.demande \in Demandes
      BY DEF LignesMission
    <3>2. \A m \in mission : m.demande # x.demande
      BY <2>2, <3>1 DEF AttribueeParUneMission
    <3>3. \A d \in Demandes : demande'[d].statut = "MATCHED" <=>
                                demande[d].statut = "MATCHED" \/ d = x.demande
      BY <2>2, <3>1 DEF TypeOK, LignesDemande
    <3> QED BY <2>2, <3>2, <3>3, NaissanceUnique
  <2> QED BY <1>1, <2>1, <2>2, AttributionGagnee
<1>2. ASSUME NEW m \in mission, NEW cible \in StatutsMission,
             TransiterMission(m, cible)
      PROVE  AttribueeParUneMission' /\ UneMissionALaFois'
  BY <1>2, AvanceUnique
<1>3. ASSUME NEW m \in mission, Reprendre(m)
      PROVE  AttribueeParUneMission' /\ UneMissionALaFois'
  <2>1. PICK x \in LignesMission : /\ Nait(x)
                                   /\ x.demande = m.demande
                                   /\ x.prestataire = m.prestataire
    BY <1>3, RepriseNait
  <2>2. demande' = demande /\ x.demande \in Demandes
    BY <1>3, RepriseNait DEF LignesMission
  <2>3. \A n \in mission : n.demande = x.demande => n.prestataire = x.prestataire
    BY <2>1, <2>2 DEF AttribueeParUneMission
  <2>4. demande[x.demande].statut = "MATCHED"
    BY <2>1, <2>2 DEF AttribueeParUneMission
  <2> QED BY <2>1, <2>2, <2>3, <2>4, NaissanceUnique
<1>4. CASE SansMission
  <2>1. /\ mission' = mission
        /\ \A d \in Demandes :
             demande'[d].statut = "MATCHED" <=> demande[d].statut = "MATCHED"
    BY <1>4, StatutSansMission
  <2> QED BY <2>1 DEF AttribueeParUneMission, UneMissionALaFois, EstVivante
<1> QED BY <1>1, <1>2, <1>3, <1>4 DEF SansMission

\* The two uniqueness invariants, with the type invariant: inductive as is.
Unicite == TypeOK /\ AttribueeParUneMission /\ UneMissionALaFois

LEMMA UniciteToujours == Spec => []Unicite
<1>1. Init => Unicite
  <2>1. Init => AttribueeParUneMission /\ UneMissionALaFois
    BY DEF Init, AttribueeParUneMission, UneMissionALaFois
  <2> QED BY <2>1, TypeInit DEF Unicite
<1>2. Unicite /\ [Next]_vars => Unicite'
  BY TypeNext, UniciteNext DEF Unicite
<1> QED BY <1>1, <1>2, PTL DEF Spec

\* A Demande is MATCHED exactly when a Mission was born of it; its Missions are
\* one provider's and one at most is not cancelled, whatever the order in which
\* any number of acceptances, cancellations, widenings, sweeps and resumptions
\* read and write the rows.
THEOREM UneSeuleAttribution == Spec => []AttribueeParUneMission
BY UniciteToujours, PTL DEF Unicite

\* However many Demandes a provider accepts at the same moment, one Mission
\* at most keeps him busy.
THEOREM UneSeuleMissionEnCours == Spec => []UneMissionALaFois
BY UniciteToujours, PTL DEF Unicite

-----------------------------------------------------------------------------
\* The abstract state of one Demande, when its row is well formed.
LEMMA EtatAbsType ==
  ASSUME TypeOK
  PROVE  /\ etatAbs = [d \in Demandes |-> EtatAbstrait(demande[d].statut)]
         /\ \A d \in Demandes :
              /\ demande[d].statut \in StatutsDemande \cup {"ABSENTE"}
              /\ etatAbs[d] = "absente" <=> demande[d].statut = "ABSENTE"
              /\ etatAbs[d] = "ouverte" <=>
                   demande[d].statut \in {"BROADCASTING", "NO_MATCH"}
              /\ etatAbs[d] = "attribuee" <=> demande[d].statut = "MATCHED"
              /\ etatAbs[d] = "close" <=> demande[d].statut = "CANCELLED"
<1>1. \A d \in Demandes : demande[d].statut \in StatutsDemande \cup {"ABSENTE"}
  BY DEF TypeOK, LignesDemande
<1> QED BY <1>1 DEF etatAbs, EtatAbstrait, StatutsDemande

\* A step that leaves mission alone leaves who holds what alone.
LEMMA ChargesInchangees ==
  ASSUME mission' = mission
  PROVE  /\ titulairesAbs' = titulairesAbs /\ porteursAbs' = porteursAbs
         /\ chargeAbs' = chargeAbs
BY DEF titulairesAbs, porteursAbs, chargeAbs, EstVivante

\* Rewriting one statut, or none, is one abstract change, or none.
LEMMA UnStatutChange ==
  ASSUME NEW d \in Demandes, TypeOK, TypeOK',
         \A e \in Demandes : e # d => demande'[e].statut = demande[e].statut
  PROVE  etatAbs' = [etatAbs EXCEPT ![d] = EtatAbstrait(demande'[d].statut)]
BY DEF etatAbs

LEMMA PasSansMission ==
  ASSUME TypeOK, TypeOK', [Next]_vars,
         SansMission
  PROVE  \/ etatAbs' = etatAbs
         \/ \E d \in Demandes : \/ /\ etatAbs[d] = "absente"
                                   /\ etatAbs' = [etatAbs EXCEPT ![d] = "ouverte"]
                                \/ /\ etatAbs[d] = "ouverte"
                                   /\ etatAbs' = [etatAbs EXCEPT ![d] = "close"]
<1> DEFINE But ==
      \/ etatAbs' = etatAbs
      \/ \E d \in Demandes : \/ /\ etatAbs[d] = "absente"
                                /\ etatAbs' = [etatAbs EXCEPT ![d] = "ouverte"]
                             \/ /\ etatAbs[d] = "ouverte"
                                /\ etatAbs' = [etatAbs EXCEPT ![d] = "close"]
<1>t. demande \in [Demandes -> LignesDemande]
  BY DEF TypeOK
<1>i. ASSUME \A d \in Demandes :
               \/ demande'[d].statut = demande[d].statut
               \/ /\ demande'[d].statut \in {"BROADCASTING", "NO_MATCH"}
                  /\ demande[d].statut \in {"BROADCASTING", "NO_MATCH"}
      PROVE  But
  <2>1. ASSUME NEW d \in Demandes
        PROVE  EtatAbstrait(demande'[d].statut) = EtatAbstrait(demande[d].statut)
    BY <1>i DEF EtatAbstrait
  <2>2. etatAbs' = etatAbs
    BY <2>1 DEF etatAbs
  <2> QED BY <2>2
<1>u. CASE demande' = demande
  BY <1>u, <1>i
<1>1. ASSUME NEW r \in Requetes, Demander(r) PROVE But
  <2>1. ASSUME NEW d \in Demandes, Soumettre(r, d) PROVE But
    <3>1. /\ demande[d].statut = "ABSENTE"
          /\ demande'[d].statut = "BROADCASTING"
          /\ \A e \in Demandes : e # d => demande'[e].statut = demande[e].statut
      BY <2>1, <1>t DEF Soumettre
    <3>2. etatAbs' = [etatAbs EXCEPT ![d] = "ouverte"]
      BY <3>1, UnStatutChange DEF EtatAbstrait
    <3> QED BY <3>1, <3>2, EtatAbsType
  <2> QED
    BY <1>1, <1>u, <2>1
    DEF Demander, DemanderAcceptation, DemanderElargissement, DemanderAnnulation
<1>2. ASSUME NEW r \in Requetes, EteindreFauteDeCandidat(r) PROVE But
  BY <1>2, <1>t, <1>i DEF EteindreFauteDeCandidat, ChangerStatut, LignesDemande
<1>3. ASSUME NEW r \in Requetes, Relancer(r) PROVE But
  BY <1>3, <1>t, <1>i DEF Relancer, RelanceAdmise, LignesDemande
<1>4. ASSUME NEW r \in Requetes, AnnulerEpuisee(r) \/ Annuler(r) PROVE But
  <2> DEFINE d == requete[r].demande
  <2>1. d \in Demandes
    BY <1>4, ChampsRequete DEF AnnulerEpuisee, Annuler
  <2>2. EcrireAnnulation(d)
    BY <1>4 DEF AnnulerEpuisee, Annuler
  <2> HIDE DEF d
  <2>3. CASE AnnulationAdmise(d)
    <3>1. /\ demande[d].statut \in {"BROADCASTING", "NO_MATCH"}
          /\ demande'[d].statut = "CANCELLED"
          /\ \A e \in Demandes : e # d => demande'[e].statut = demande[e].statut
      BY <1>t, <2>1, <2>2, <2>3
      DEF EcrireAnnulation, AnnulationAdmise, LignesDemande
    <3>2. etatAbs' = [etatAbs EXCEPT ![d] = "close"]
      BY <2>1, <3>1, UnStatutChange DEF EtatAbstrait
    <3> QED BY <2>1, <3>1, <3>2, EtatAbsType
  <2> QED BY <1>u, <2>2, <2>3 DEF EcrireAnnulation
<1>5. ASSUME NEW r \in Requetes, Poursuivre(r) PROVE But
  BY <1>2, <1>3, <1>4, <1>5, <1>u
  DEF Poursuivre, ChercherCandidats, ConsignerTrace, NotifierCandidats, SansMission
<1>6. CASE ExpirerEchues
  BY <1>6, <1>t, <1>i DEF ExpirerEchues, Echues, LignesDemande
<1>7. CASE Tic
  BY <1>7, <1>t, <1>i DEF Tic, LignesDemande
<1>8. CASE UNCHANGED vars
  BY <1>8, <1>u DEF vars
<1>9. ASSUME NEW r \in Requetes, Interrompre(r) PROVE But
  BY <1>9, <1>u DEF Interrompre
<1>10. ASSUME NEW p \in Prestataires, MettreAJourEtat(p) PROVE But
  BY <1>10, <1>u DEF MettreAJourEtat
<1> QED BY <1>1, <1>5, <1>6, <1>7, <1>8, <1>9, <1>10, EtapesDesRoutes
        DEF Next, EtapeRoute, SansMission

\* The one Mission in progress of a provider ceases to be in progress: he is
\* at work on nothing.
LEMMA ChargeLiberee ==
  ASSUME UneMissionALaFois,
         NEW m \in mission, NEW n,
         OccupeLePrestataire(m.statut), ~OccupeLePrestataire(n.statut),
         n.prestataire = m.prestataire,
         mission' = (mission \ {m}) \cup {n}
  PROVE  chargeAbs' = [chargeAbs EXCEPT ![m.prestataire] = {}]
<1>1. ASSUME NEW p \in Prestataires, NEW d \in Demandes
      PROVE  (\E k \in mission' : /\ k.demande = d /\ k.prestataire = p
                                  /\ OccupeLePrestataire(k.statut))
               <=> /\ p # m.prestataire
                   /\ \E k \in mission : /\ k.demande = d /\ k.prestataire = p
                                         /\ OccupeLePrestataire(k.statut)
  BY DEF UneMissionALaFois
<1>2. \A p \in Prestataires :
        chargeAbs'[p] = IF p = m.prestataire THEN {} ELSE chargeAbs[p]
  BY <1>1 DEF chargeAbs
<1>3. /\ chargeAbs = [p \in Prestataires |-> chargeAbs[p]]
      /\ chargeAbs' = [p \in Prestataires |-> chargeAbs'[p]]
  BY DEF chargeAbs
<1> QED BY <1>2, <1>3, SMT

\* A birth, seen from Affectation: the provider sets to work on the Demande,
\* which was carried by nobody, and is its only holder.
LEMMA NaissanceAbstraite ==
  ASSUME NEW x, Nait(x),
         \A m \in mission : m.demande = x.demande => m.prestataire = x.prestataire
  PROVE  /\ x.demande \in Demandes /\ x.prestataire \in Prestataires
         /\ Promesse!Engager(x.demande, x.prestataire)
         /\ titulairesAbs' = [titulairesAbs EXCEPT ![x.demande] = {x.prestataire}]
<1> DEFINE d == x.demande
           p == x.prestataire
<1>1. d \in Demandes /\ p \in Prestataires
  BY DEF Nait, LignesMission
<1>2. /\ OccupeLePrestataire(x.statut) /\ EstVivante(x)
      /\ \A m \in mission : m.prestataire = p => ~OccupeLePrestataire(m.statut)
      /\ \A m \in mission : m.demande = d => ~EstVivante(m) /\ m.prestataire = p
      /\ mission' = mission \cup {x}
      /\ x.demande = d /\ x.prestataire = p
  BY DEF Nait
<1> HIDE DEF d, p
<1>3. porteursAbs[d] = {} /\ chargeAbs[p] = {}
  BY <1>1, <1>2 DEF porteursAbs, chargeAbs
<1>4. titulairesAbs' = [titulairesAbs EXCEPT ![d] = {p}]
  <2>1. ASSUME NEW e \in Demandes, NEW q \in Prestataires
        PROVE  (\E m \in mission' : m.demande = e /\ m.prestataire = q)
                 <=> IF e = d THEN q = p
                     ELSE \E m \in mission : m.demande = e /\ m.prestataire = q
    BY <1>2
  <2>2. \A e \in Demandes :
          titulairesAbs'[e] = IF e = d THEN {p} ELSE titulairesAbs[e]
    BY <1>1, <2>1 DEF titulairesAbs
  <2> QED BY <2>2 DEF titulairesAbs
<1>5. porteursAbs' = [porteursAbs EXCEPT ![d] = {p}]
  <2>1. ASSUME NEW e \in Demandes, NEW q \in Prestataires
        PROVE  (\E m \in mission' : /\ m.demande = e /\ m.prestataire = q
                                    /\ EstVivante(m))
                 <=> IF e = d THEN q = p
                     ELSE \E m \in mission : /\ m.demande = e
                                             /\ m.prestataire = q
                                             /\ EstVivante(m)
    BY <1>2
  <2>2. \A e \in Demandes :
          porteursAbs'[e] = IF e = d THEN {p} ELSE porteursAbs[e]
    BY <1>1, <2>1 DEF porteursAbs, EstVivante
  <2> QED BY <2>2 DEF porteursAbs
<1>6. chargeAbs' = [chargeAbs EXCEPT ![p] = {d}]
  <2>1. ASSUME NEW q \in Prestataires, NEW e \in Demandes
        PROVE  (\E m \in mission' : /\ m.demande = e /\ m.prestataire = q
                                    /\ OccupeLePrestataire(m.statut))
                 <=> IF q = p THEN e = d
                     ELSE \E m \in mission : /\ m.demande = e
                                             /\ m.prestataire = q
                                             /\ OccupeLePrestataire(m.statut)
    BY <1>2
  <2>2. \A q \in Prestataires :
          chargeAbs'[q] = IF q = p THEN {d} ELSE chargeAbs[q]
    BY <1>1, <2>1 DEF chargeAbs
  <2> QED BY <2>2 DEF chargeAbs
<1> QED BY <1>1, <1>3, <1>4, <1>5, <1>6 DEF Promesse!Engager, d, p

\* A Mission that advances is invisible to Affectation, or its provider ends
\* the work, or gives it up.
LEMMA PasTransiter ==
  ASSUME TypeOK, AttribueeParUneMission, UneMissionALaFois,
         NEW m \in mission, NEW cible \in StatutsMission,
         TransiterMission(m, cible)
  PROVE  \/ UNCHANGED Promesse!vars
         \/ \E p \in Prestataires : Promesse!Terminer(p)
         \/ \E d \in Demandes, p \in Prestataires : Promesse!Desister(d, p)
<1>1. /\ demande' = demande
      /\ m.demande \in Demandes /\ m.prestataire \in Prestataires
      /\ EstVivante(m)
      /\ OccupeLePrestataire(cible) => OccupeLePrestataire(m.statut)
      /\ cible = "CANCELLED" => OccupeLePrestataire(m.statut)
  BY MissionAvance DEF LignesMission
<1>2. PICK n \in LignesMission :
         /\ n.demande = m.demande
         /\ n.prestataire = m.prestataire
         /\ n.statut = cible
         /\ mission' = (mission \ {m}) \cup {n}
  BY MissionAvance
<1>3. etatAbs' = etatAbs
  BY <1>1 DEF etatAbs
<1>4. titulairesAbs' = titulairesAbs
  <2>1. ASSUME NEW d \in Demandes, NEW p \in Prestataires
        PROVE  (\E k \in mission' : k.demande = d /\ k.prestataire = p)
                 <=> (\E k \in mission : k.demande = d /\ k.prestataire = p)
    BY <1>2
  <2> QED BY <2>1 DEF titulairesAbs
<1>5. CASE cible # "CANCELLED"
  <2>1. ASSUME NEW d \in Demandes, NEW p \in Prestataires
        PROVE  (\E k \in mission' : /\ k.demande = d /\ k.prestataire = p
                                    /\ EstVivante(k))
                 <=> (\E k \in mission : /\ k.demande = d /\ k.prestataire = p
                                         /\ EstVivante(k))
    BY <1>1, <1>2, <1>5 DEF EstVivante
  <2>2. porteursAbs' = porteursAbs
    BY <2>1 DEF porteursAbs, EstVivante
  <2>3. CASE OccupeLePrestataire(m.statut) <=> OccupeLePrestataire(cible)
    <3>1. ASSUME NEW p \in Prestataires, NEW d \in Demandes
          PROVE  (\E k \in mission' : /\ k.demande = d /\ k.prestataire = p
                                      /\ OccupeLePrestataire(k.statut))
                   <=> (\E k \in mission : /\ k.demande = d /\ k.prestataire = p
                                           /\ OccupeLePrestataire(k.statut))
      BY <1>2, <2>3
    <3>2. chargeAbs' = chargeAbs
      BY <3>1 DEF chargeAbs
    <3> QED BY <1>3, <1>4, <2>2, <3>2 DEF Promesse!vars
  <2>4. CASE OccupeLePrestataire(m.statut) /\ ~OccupeLePrestataire(cible)
    <3>1. chargeAbs' = [chargeAbs EXCEPT ![m.prestataire] = {}]
      BY <1>1, <1>2, <2>4, ChargeLiberee
    <3>2. chargeAbs[m.prestataire] # {}
      BY <1>1, <2>4 DEF chargeAbs
    <3>3. Promesse!Terminer(m.prestataire)
      BY <1>3, <1>4, <2>2, <3>1, <3>2 DEF Promesse!Terminer
    <3> QED BY <1>1, <3>3
  <2> QED BY <1>1, <2>3, <2>4
<1>6. CASE cible = "CANCELLED"
  <2>1. /\ OccupeLePrestataire(m.statut) /\ ~OccupeLePrestataire(cible)
        /\ ~EstVivante(n)
    BY <1>1, <1>2, <1>6 DEF OccupeLePrestataire, EstVivante
  <2>2. chargeAbs' = [chargeAbs EXCEPT ![m.prestataire] = {}]
    BY <1>1, <1>2, <2>1, ChargeLiberee
  <2>3. chargeAbs[m.prestataire] = {m.demande}
    BY <1>1, <2>1 DEF chargeAbs, UneMissionALaFois
  <2>4. porteursAbs' = [porteursAbs EXCEPT ![m.demande] = {}]
    <3>1. ASSUME NEW d \in Demandes, NEW p \in Prestataires
          PROVE  (\E k \in mission' : /\ k.demande = d /\ k.prestataire = p
                                      /\ EstVivante(k))
                   <=> /\ d # m.demande
                       /\ \E k \in mission : /\ k.demande = d
                                             /\ k.prestataire = p
                                             /\ EstVivante(k)
      <4>1. \A k \in mission : k.demande = m.demande /\ EstVivante(k) => k = m
        BY <1>1 DEF AttribueeParUneMission
      <4> QED BY <1>2, <2>1, <4>1
    <3>2. \A d \in Demandes :
            porteursAbs'[d] = IF d = m.demande THEN {} ELSE porteursAbs[d]
      BY <3>1 DEF porteursAbs, EstVivante
    <3> QED BY <3>2 DEF porteursAbs
  <2>5. Promesse!Desister(m.demande, m.prestataire)
    BY <1>3, <1>4, <2>2, <2>3, <2>4 DEF Promesse!Desister
  <2> QED BY <1>1, <2>5
<1> QED BY <1>5, <1>6

\* One concrete step is one abstract step, or none.
LEMMA PasAbstrait ==
  ASSUME Unicite, Unicite', [Next]_vars
  PROVE  [Promesse!Next]_(Promesse!vars)
<1>t. /\ TypeOK /\ TypeOK'
      /\ AttribueeParUneMission /\ UneMissionALaFois
  BY DEF Unicite
<1>1. ASSUME NEW r \in Requetes, Attribuer(r)
      PROVE  [Promesse!Next]_(Promesse!vars)
  <2>1. CASE UNCHANGED <<demande, mission>>
    <3>1. etatAbs' = etatAbs
      BY <2>1 DEF etatAbs
    <3> QED BY <2>1, <3>1, ChargesInchangees DEF Promesse!vars
  <2>2. CASE ~UNCHANGED <<demande, mission>>
    <3>1. PICK x \in LignesMission :
             /\ Nait(x)
             /\ demande[x.demande].statut = "BROADCASTING"
             /\ demande' = [demande EXCEPT ![x.demande].statut = "MATCHED"]
      BY <1>t, <1>1, <2>2, AttributionGagnee
    <3>2. x.demande \in Demandes /\ x.prestataire \in Prestataires
      BY DEF LignesMission
    <3>3. \A m \in mission : m.demande # x.demande
      BY <1>t, <3>1, <3>2 DEF AttribueeParUneMission
    <3>4. etatAbs[x.demande] = "ouverte"
      BY <1>t, <3>1, <3>2, EtatAbsType
    <3>5. etatAbs' = [etatAbs EXCEPT ![x.demande] = "attribuee"]
      <4>1. /\ demande'[x.demande].statut = "MATCHED"
            /\ \A e \in Demandes :
                 e # x.demande => demande'[e].statut = demande[e].statut
        BY <1>t, <3>1, <3>2 DEF TypeOK, LignesDemande
      <4> QED BY <1>t, <3>2, <4>1, UnStatutChange DEF EtatAbstrait
    <3>6. titulairesAbs[x.demande] = {}
      BY <3>2, <3>3 DEF titulairesAbs
    <3>7. /\ Promesse!Engager(x.demande, x.prestataire)
          /\ titulairesAbs' = [titulairesAbs EXCEPT ![x.demande] = {x.prestataire}]
      BY <3>1, <3>3, NaissanceAbstraite
    <3>8. Promesse!Attribuer(x.demande, x.prestataire)
      BY <3>4, <3>5, <3>6, <3>7 DEF Promesse!Attribuer
    <3> QED BY <3>2, <3>8 DEF Promesse!Next
  <2> QED BY <2>1, <2>2
<1>2. ASSUME NEW m \in mission, NEW cible \in StatutsMission,
             TransiterMission(m, cible)
      PROVE  [Promesse!Next]_(Promesse!vars)
  BY <1>t, <1>2, PasTransiter DEF Promesse!Next
<1>3. ASSUME NEW m \in mission, Reprendre(m)
      PROVE  [Promesse!Next]_(Promesse!vars)
  <2>1. PICK x \in LignesMission : /\ Nait(x)
                                   /\ x.demande = m.demande
                                   /\ x.prestataire = m.prestataire
    BY <1>t, <1>3, RepriseNait
  <2>2. /\ x.demande \in Demandes /\ x.prestataire \in Prestataires
        /\ etatAbs' = etatAbs
    BY <1>t, <1>3, RepriseNait DEF LignesMission, etatAbs
  <2>3. \A n \in mission : n.demande = x.demande => n.prestataire = x.prestataire
    BY <1>t, <2>1, <2>2 DEF AttribueeParUneMission
  <2>4. etatAbs[x.demande] = "attribuee"
    BY <1>t, <2>1, <2>2, EtatAbsType DEF AttribueeParUneMission
  <2>5. titulairesAbs[x.demande] = {x.prestataire}
    BY <2>1, <2>2, <2>3 DEF titulairesAbs
  <2>6. /\ Promesse!Engager(x.demande, x.prestataire)
        /\ titulairesAbs' = [titulairesAbs EXCEPT ![x.demande] = {x.prestataire}]
    BY <2>1, <2>3, NaissanceAbstraite
  <2>7. titulairesAbs' = titulairesAbs
    BY <2>2, <2>5, <2>6 DEF titulairesAbs
  <2>8. Promesse!Reprendre(x.demande, x.prestataire)
    BY <2>2, <2>4, <2>5, <2>6, <2>7 DEF Promesse!Reprendre
  <2> QED BY <2>2, <2>8 DEF Promesse!Next
<1>4. CASE SansMission
  <2>1. /\ titulairesAbs' = titulairesAbs /\ porteursAbs' = porteursAbs
        /\ chargeAbs' = chargeAbs
    BY <1>t, <1>4, StatutSansMission, ChargesInchangees
  <2>2. \/ etatAbs' = etatAbs
        \/ \E d \in Demandes : \/ /\ etatAbs[d] = "absente"
                                  /\ etatAbs' = [etatAbs EXCEPT ![d] = "ouverte"]
                               \/ /\ etatAbs[d] = "ouverte"
                                  /\ etatAbs' = [etatAbs EXCEPT ![d] = "close"]
    BY <1>t, <1>4, PasSansMission
  <2> QED BY <2>1, <2>2
          DEF Promesse!Next, Promesse!Ouvrir, Promesse!Clore, Promesse!vars
<1> QED BY <1>1, <1>2, <1>3, <1>4 DEF SansMission

\* Whatever the handlers do and however they interleave, what the outside sees
\* is Affectation: one provider per Demande, who alone takes up again what he
\* gave up, one intervention at a time, and nothing closed comes back.
THEOREM AttributionImplementeAffectation == Spec => ImplementeAffectation
<1>1. Init => Promesse!Init
  BY DEF Init, Promesse!Init, etatAbs, EtatAbstrait, titulairesAbs, porteursAbs,
         chargeAbs
<1>2. Unicite /\ Unicite' /\ [Next]_vars => [Promesse!Next]_(Promesse!vars)
  BY PasAbstrait
<1> QED BY <1>1, <1>2, UniciteToujours, PTL
        DEF Spec, ImplementeAffectation, Promesse!Spec

-----------------------------------------------------------------------------
\* MATCHED and CANCELLED are final: the abstract steps say so, and the
\* abstract state determines them.
LEMMA FinauxNext ==
  ASSUME Unicite, Unicite', [Next]_vars, NEW d \in Demandes,
         demande[d].statut \in {"MATCHED", "CANCELLED"}
  PROVE  demande'[d].statut = demande[d].statut
<1>1. etatAbs[d] \in {"attribuee", "close"}
  BY EtatAbsType DEF Unicite
<1>2. [Promesse!Next]_(Promesse!vars)
  BY PasAbstrait
<1>3. etatAbs'[d] = etatAbs[d]
  BY <1>1, <1>2
  DEF Promesse!Next, Promesse!Ouvrir, Promesse!Clore, Promesse!Attribuer,
      Promesse!Terminer, Promesse!Desister, Promesse!Reprendre, Promesse!vars,
      etatAbs
<1>4. /\ etatAbs'[d] = "attribuee" <=> demande'[d].statut = "MATCHED"
      /\ etatAbs'[d] = "close" <=> demande'[d].statut = "CANCELLED"
  <2>1. demande'[d].statut \in StatutsDemande \cup {"ABSENTE"}
    BY DEF Unicite, TypeOK, LignesDemande
  <2> QED BY <2>1 DEF etatAbs, EtatAbstrait, StatutsDemande
<1> QED BY <1>1, <1>3, <1>4, EtatAbsType DEF Unicite

\* No sweep, late matching or late widening takes a Demande out of a final
\* state, whatever the requests in progress had read.
THEOREM EtatsFinauxToujours == Spec => EtatsFinaux
<1> DEFINE Final == \A d \in Demandes :
                      demande[d].statut \in {"MATCHED", "CANCELLED"} =>
                        demande'[d].statut = demande[d].statut
<1>1. ASSUME Unicite, Unicite', [Next]_vars PROVE [Final]_vars
  BY <1>1, FinauxNext
<1> QED BY <1>1, UniciteToujours, PTL DEF Spec, EtatsFinaux

-----------------------------------------------------------------------------
\* The steps that write the table demande; every other one leaves it, and the
\* count of widenings, alone.
EcritDemande(r) ==
  \/ \E d \in Demandes : Soumettre(r, d)
  \/ EteindreFauteDeCandidat(r)
  \/ Attribuer(r)
  \/ Relancer(r)
  \/ AnnulerEpuisee(r)
  \/ Annuler(r)

LEMMA QuiEcritDemande ==
  ASSUME [Next]_vars
  PROVE  \/ \E r \in Requetes : EcritDemande(r)
         \/ ExpirerEchues
         \/ Tic
         \/ UNCHANGED <<demande, relances>>
<1>1. ASSUME NEW r \in Requetes, Demander(r) \/ Poursuivre(r) \/ Interrompre(r)
      PROVE  EcritDemande(r) \/ UNCHANGED <<demande, relances>>
  <2>1. CASE Demander(r)
    BY <2>1
    DEF Demander, EcritDemande, DemanderAcceptation, DemanderElargissement,
        DemanderAnnulation
  <2>2. CASE Poursuivre(r)
    BY <2>2
    DEF Poursuivre, EcritDemande, ChercherCandidats, ConsignerTrace,
        NotifierCandidats
  <2>3. CASE Interrompre(r)
    BY <2>3 DEF Interrompre
  <2> QED BY <1>1, <2>1, <2>2, <2>3
<1> QED BY <1>1, EtapesDesRoutes
        DEF Next, EtapeRoute, TransiterMission, Reprendre, MettreAJourEtat, vars

\* What an answer says of the statut of its Demande.
Dit(code, statut) ==
  /\ code = "MATCH_ACCEPTED" => statut = "MATCHED"
  /\ code = "REQUEST_CANCELLED" => statut = "CANCELLED"
  /\ code \in {"ALREADY_MATCHED", "MAX_RADIUS_REACHED"}
       => statut \in {"MATCHED", "CANCELLED"}

\* A request that is about to cancel holds a Demande somebody has submitted: its
\* write fails for no other reason than that the Demande is closed.
Soumises ==
  \A r \in Requetes : requete[r].op \in {"annuler", "epuiser"} =>
                         demande[requete[r].demande].statut # "ABSENTE"

\* No row goes back to "nobody has submitted it".
LEMMA JamaisAbsente ==
  ASSUME TypeOK, [Next]_vars, NEW d \in Demandes, demande[d].statut # "ABSENTE"
  PROVE  demande'[d].statut # "ABSENTE"
<1>t. demande \in [Demandes -> LignesDemande]
  BY DEF TypeOK
<1>1. ASSUME NEW r \in Requetes, EcritDemande(r)
      PROVE  demande'[d].statut # "ABSENTE"
  <2>1. CASE EteindreFauteDeCandidat(r)
    BY <1>t, <2>1 DEF EteindreFauteDeCandidat, ChangerStatut, LignesDemande
  <2>2. CASE AnnulerEpuisee(r) \/ Annuler(r)
    BY <1>t, <2>2 DEF AnnulerEpuisee, Annuler, EcrireAnnulation, LignesDemande
  <2>3. CASE Attribuer(r)
    BY <1>t, <2>3 DEF Attribuer, LignesDemande
  <2>4. CASE Relancer(r)
    BY <1>t, <2>4 DEF Relancer
  <2>5. ASSUME NEW e \in Demandes, Soumettre(r, e)
        PROVE  demande'[d].statut # "ABSENTE"
    BY <1>t, <2>5 DEF Soumettre
  <2> QED BY <1>1, <2>1, <2>2, <2>3, <2>4, <2>5 DEF EcritDemande
<1>2. CASE ExpirerEchues
  BY <1>t, <1>2 DEF ExpirerEchues, LignesDemande
<1>3. CASE Tic
  BY <1>t, <1>3 DEF Tic, LignesDemande
<1> QED BY <1>1, <1>2, <1>3, QuiEcritDemande

\* Time changes nothing of a request but the age a widening carries.
LEMMA TicRequete ==
  ASSUME TypeOK, Tic, NEW q \in Requetes
  PROVE  requete'[q] = requete[q] \/ requete'[q].op = "elargir"
<1>1. CASE requete[q].op = "elargir"
  <2>1. requete'[q] = [requete[q] EXCEPT !.age = Vieillir(@)]
    BY <1>1 DEF Tic
  <2>2. requete[q] = [op |-> "elargir", demande |-> requete[q].demande,
                      vers |-> requete[q].vers, age |-> requete[q].age]
    BY <1>1, ChampsRequete
  <2>3. requete'[q].op = "elargir"
    BY <2>1, <2>2
  <2> QED BY <2>3
<1>2. CASE requete[q].op # "elargir"
  BY <1>2 DEF Tic
<1> QED BY <1>1, <1>2

\* A step of one request, in general: the others keep what they hold; this one
\* goes on with an operation, or answers, or reaches its read.
LEMMA EtapeRequete ==
  ASSUME TypeOK, [Next]_vars, NEW q \in Requetes
  PROVE  \/ requete'[q] = requete[q]
         \/ requete'[q].op \notin {"repondue", "annuler", "epuiser"}
         \/ \E d \in Demandes : DemanderElargissement(q, d) \/ DemanderAnnulation(q, d)
         \/ Attribuer(q) \/ AnnulerEpuisee(q) \/ Annuler(q)
<1> DEFINE But ==
      \/ requete'[q] = requete[q]
      \/ requete'[q].op \notin {"repondue", "annuler", "epuiser"}
      \/ \E d \in Demandes : DemanderElargissement(q, d) \/ DemanderAnnulation(q, d)
      \/ Attribuer(q) \/ AnnulerEpuisee(q) \/ Annuler(q)
<1>t. requete \in [Requetes -> EtatsRequete]
  BY DEF TypeOK
<1>r. ASSUME NEW r \in Requetes, NEW e, Devient(r, e),
             e.op \notin {"repondue", "annuler", "epuiser"}
      PROVE  But
  BY <1>t, <1>r DEF Devient
<1>a. ASSUME NEW r \in Requetes, NEW e, Devient(r, e), r # q
      PROVE  But
  BY <1>t, <1>a DEF Devient
<1>1. ASSUME NEW r \in Requetes, Demander(r) PROVE But
  <2>1. ASSUME NEW d \in Demandes, Soumettre(r, d) PROVE But
    BY <1>r, <2>1 DEF Soumettre
  <2>2. ASSUME NEW d \in Demandes, NEW p \in Prestataires,
               DemanderAcceptation(r, d, p)
        PROVE  But
    BY <1>r, <2>2 DEF DemanderAcceptation
  <2>3. ASSUME NEW d \in Demandes, DemanderElargissement(r, d) PROVE But
    BY <1>a, <2>3 DEF DemanderElargissement
  <2>4. ASSUME NEW d \in Demandes, DemanderAnnulation(r, d) PROVE But
    BY <1>a, <2>4 DEF DemanderAnnulation
  <2> HIDE DEF But
  <2> QED BY <1>1, <2>1, <2>2, <2>3, <2>4 DEF Demander
<1>2. ASSUME NEW r \in Requetes, Poursuivre(r) PROVE But
  <2>1. CASE ChercherCandidats(r)
    <3>1. requete[r] = [op |-> "matcher", demande |-> requete[r].demande,
                        tour |-> requete[r].tour]
      BY <2>1, ChampsRequete DEF ChercherCandidats
    <3>2. [requete[r] EXCEPT !.op = "eteindre"].op = "eteindre"
      BY <3>1
    <3> QED BY <1>r, <2>1, <3>2 DEF ChercherCandidats
  <2>2. CASE \/ EteindreFauteDeCandidat(r) \/ ConsignerTrace(r)
             \/ NotifierCandidats(r) \/ Relancer(r)
    BY <1>r, <2>2
    DEF EteindreFauteDeCandidat, ConsignerTrace, NotifierCandidats, Relancer, Repos
  <2>3. CASE Attribuer(r) \/ AnnulerEpuisee(r) \/ Annuler(r)
    BY <1>a, <2>3 DEF Attribuer, AnnulerEpuisee, Annuler
  <2> QED BY <1>2, <2>1, <2>2, <2>3 DEF Poursuivre
<1>3. ASSUME NEW r \in Requetes, Interrompre(r) PROVE But
  BY <1>3, <1>r DEF Interrompre, Repos
<1>4. CASE Tic
  BY <1>4, TicRequete
<1>5. CASE UNCHANGED requete
  BY <1>5
<1>6. \/ \E r \in Requetes : EtapeRoute(r) \/ Interrompre(r)
      \/ Tic
      \/ UNCHANGED requete
  BY DEF Next, EtapeRoute, ExpirerEchues, TransiterMission, Reprendre,
         MettreAJourEtat, vars
<1>7. ASSUME NEW r \in Requetes, EtapeRoute(r) PROVE But
  BY <1>1, <1>2, <1>7, EtapesDesRoutes
<1> QED BY <1>3, <1>4, <1>5, <1>6, <1>7

LEMMA SoumisesNext ==
  ASSUME TypeOK, Soumises, [Next]_vars
  PROVE  Soumises'
<1> SUFFICES ASSUME NEW q \in Requetes, requete'[q].op \in {"annuler", "epuiser"}
             PROVE  demande'[requete'[q].demande].statut # "ABSENTE"
  BY DEF Soumises
<1>t. requete \in [Requetes -> EtatsRequete] /\ demande \in [Demandes -> LignesDemande]
  BY DEF TypeOK
<1>1. CASE requete'[q] = requete[q]
  <2>1. requete[q].demande \in Demandes
    BY <1>1, ChampsRequete
  <2>2. demande[requete[q].demande].statut # "ABSENTE"
    BY <1>1 DEF Soumises
  <2> QED BY <1>1, <2>1, <2>2, JamaisAbsente
<1>2. ASSUME NEW d \in Demandes,
             DemanderElargissement(q, d) \/ DemanderAnnulation(q, d)
      PROVE  demande'[requete'[q].demande].statut # "ABSENTE"
  <2>1. requete'[q].demande = d
    BY <1>t, <1>2 DEF DemanderElargissement, DemanderAnnulation, Devient
  <2> QED BY <1>2, <2>1
          DEF DemanderElargissement, DemanderAnnulation, SansReponse
<1>3. CASE Attribuer(q) \/ AnnulerEpuisee(q) \/ Annuler(q)
  BY <1>t, <1>3
  DEF Attribuer, AnnulerEpuisee, Annuler, Devient, Reponse, Repos
<1> QED BY <1>1, <1>2, <1>3, EtapeRequete

\* An answer a request holds after a step was there before it, or is true of
\* what the step has written or found.
LEMMA ReponseNouvelle ==
  ASSUME TypeOK, Soumises, [Next]_vars, NEW q \in Requetes,
         requete'[q].op = "repondue", requete'[q] # requete[q]
  PROVE  Dit(requete'[q].code, demande'[requete'[q].demande].statut)
<1> DEFINE d == requete[q].demande
<1>t. requete \in [Requetes -> EtatsRequete] /\ demande \in [Demandes -> LignesDemande]
  BY DEF TypeOK
<1>1. CASE Attribuer(q)
  <2>1. d \in Demandes
    BY <1>1, ChampsRequete DEF Attribuer
  <2>2. \/ /\ requete'[q] = Reponse("MATCH_ACCEPTED", d)
           /\ demande' = [demande EXCEPT ![d].statut = "MATCHED"]
        \/ requete'[q] = Reponse("REQUEST_ALREADY_MATCHED", d)
        \/ requete'[q] = Repos
    BY <1>1, <1>t DEF Attribuer, Devient
  <2> HIDE DEF d
  <2> QED BY <1>t, <2>1, <2>2 DEF Dit, Reponse, Repos, LignesDemande
<1>2. CASE AnnulerEpuisee(q) \/ Annuler(q)
  <2>1. /\ d \in Demandes
        /\ demande[d].statut \in StatutsDemande
    BY <1>2, <1>t, ChampsRequete
    DEF AnnulerEpuisee, Annuler, Soumises, LignesDemande
  <2>2. /\ EcrireAnnulation(d)
        /\ \/ requete'[q] = Reponse("MAX_RADIUS_REACHED", d)
           \/ /\ requete'[q] = Reponse("REQUEST_CANCELLED", d)
              /\ AnnulationAdmise(d)
           \/ requete'[q] = Reponse("ALREADY_MATCHED", d)
    BY <1>2, <1>t DEF AnnulerEpuisee, Annuler, Devient
  <2> HIDE DEF d
  <2>3. /\ demande'[d].statut \in {"MATCHED", "CANCELLED"}
        /\ AnnulationAdmise(d) => demande'[d].statut = "CANCELLED"
    BY <1>t, <2>1, <2>2
    DEF EcrireAnnulation, AnnulationAdmise, StatutsDemande, LignesDemande
  <2> QED BY <2>2, <2>3 DEF Dit, Reponse
<1>3. ~ \E e \in Demandes : DemanderElargissement(q, e) \/ DemanderAnnulation(q, e)
  BY <1>t DEF DemanderElargissement, DemanderAnnulation, Devient
<1> QED BY <1>1, <1>2, <1>3, EtapeRequete

\* An accepted Demande is and stays MATCHED, a cancelled one CANCELLED; a
\* cancellation refused on its write, and a widening refused for good, leave the
\* Demande in one of these two states for ever, whatever the other requests, the
\* sweep and the widenings have done.
THEOREM ReponsesTenuesToujours == Spec => []ReponsesTenues
<1>1. Init => ReponsesTenues /\ Soumises
  BY DEF Init, ReponsesTenues, Soumises, Repos
<1>2. ASSUME Unicite, Unicite', Soumises, ReponsesTenues, [Next]_vars
      PROVE  ReponsesTenues' /\ Soumises'
  <2>1. ASSUME NEW q \in Requetes, requete'[q].op = "repondue"
        PROVE  Dit(requete'[q].code, demande'[requete'[q].demande].statut)
    <3>1. CASE requete'[q] = requete[q]
      <4>1. requete[q].demande \in Demandes
        BY <1>2, <2>1, <3>1 DEF Unicite, TypeOK, EtatsRequete
      <4>2. Dit(requete[q].code, demande[requete[q].demande].statut)
        BY <1>2, <2>1, <3>1 DEF ReponsesTenues, Dit
      <4> QED BY <1>2, <3>1, <4>1, <4>2, FinauxNext DEF Dit
    <3>2. CASE requete'[q] # requete[q]
      BY <1>2, <2>1, <3>2, ReponseNouvelle DEF Unicite
    <3> QED BY <3>1, <3>2
  <2>2. ReponsesTenues'
    BY <2>1 DEF ReponsesTenues, Dit
  <2>3. Soumises'
    BY <1>2, SoumisesNext DEF Unicite
  <2> QED BY <2>2, <2>3
<1> QED BY <1>1, <1>2, UniciteToujours, PTL DEF Spec

-----------------------------------------------------------------------------
\* The counter and the history agree, and a Demande nobody has submitted has
\* no widening yet: the submission writes 0.
Compte == RelancesComptees /\ \A d \in Demandes :
            demande[d].statut = "ABSENTE" => demande[d].elargissements = 0

LEMMA CompteNext ==
  ASSUME TypeOK, Compte, [Next]_vars
  PROVE  Compte'
<1>t. /\ demande \in [Demandes -> LignesDemande]
      /\ relances \in [Demandes -> Nat]
      /\ \A d \in Demandes : /\ demande[d].elargissements = relances[d]
                             /\ relances[d] \in Nat
  BY DEF TypeOK, Compte, RelancesComptees
<1>c. ASSUME relances' = relances,
             \A d \in Demandes :
               /\ demande'[d].elargissements = demande[d].elargissements
               /\ demande'[d].statut = "ABSENTE" => demande[d].statut = "ABSENTE"
      PROVE  Compte'
  BY <1>c DEF Compte, RelancesComptees
<1>s. ASSUME relances' = relances, NEW d \in Demandes, NEW s \in StatutsDemande,
             \/ demande' = demande
             \/ demande' = [demande EXCEPT ![d].statut = s]
      PROVE  Compte'
  BY <1>c, <1>s, <1>t DEF LignesDemande, StatutsDemande
<1>1. ASSUME NEW r \in Requetes, NEW d \in Demandes, Soumettre(r, d)
      PROVE  Compte'
  BY <1>1, <1>t DEF Soumettre, Compte, RelancesComptees
<1>2. ASSUME NEW r \in Requetes, EteindreFauteDeCandidat(r) PROVE Compte'
  <2>1. requete[r].demande \in Demandes
    BY <1>2, ChampsRequete DEF EteindreFauteDeCandidat
  <2> QED BY <1>2, <1>s, <2>1
          DEF EteindreFauteDeCandidat, ChangerStatut, StatutsDemande
<1>3. ASSUME NEW r \in Requetes, Attribuer(r) PROVE Compte'
  <2>1. requete[r].demande \in Demandes
    BY <1>3, ChampsRequete DEF Attribuer
  <2> QED BY <1>3, <1>s, <2>1 DEF Attribuer, StatutsDemande
<1>4. ASSUME NEW r \in Requetes, AnnulerEpuisee(r) \/ Annuler(r) PROVE Compte'
  <2>1. requete[r].demande \in Demandes
    BY <1>4, ChampsRequete DEF AnnulerEpuisee, Annuler
  <2> QED BY <1>4, <1>s, <2>1
          DEF AnnulerEpuisee, Annuler, EcrireAnnulation, StatutsDemande
<1>5. ASSUME NEW r \in Requetes, Relancer(r) PROVE Compte'
  <2> DEFINE d == requete[r].demande
             v == requete[r].vers
  <2>1. d \in Demandes /\ v \in Nat
    <3>1. requete[r].op = "elargir"
      BY <1>5 DEF Relancer
    <3>2. d \in Demandes /\ v \in Tours
      BY <3>1, ChampsRequete
    <3> QED BY <3>2, ParametresAssumption DEF Tours
  <2>2. CASE RelanceAdmise(d, v)
    <3>1. /\ demande' = [demande EXCEPT ![d] =
                [statut |-> "BROADCASTING", age |-> requete[r].age,
                 elargissements |-> v]]
          /\ relances' = [relances EXCEPT ![d] = @ + 1]
          /\ relances[d] = v - 1
      BY <1>5, <1>t, <2>1, <2>2 DEF Relancer, RelanceAdmise
    <3> HIDE DEF d, v
    <3>2. \A e \in Demandes : demande'[e].elargissements = relances'[e]
      BY <1>t, <2>1, <3>1
    <3>3. \A e \in Demandes : demande'[e].statut = "ABSENTE" =>
                                e # d /\ demande'[e] = demande[e]
      BY <1>t, <2>1, <3>1
    <3> QED BY <3>2, <3>3 DEF Compte, RelancesComptees
  <2>3. CASE ~RelanceAdmise(d, v)
    BY <1>5, <1>c, <2>3 DEF Relancer
  <2> QED BY <2>2, <2>3
<1>6. CASE ExpirerEchues
  BY <1>6, <1>t, <1>c DEF ExpirerEchues, LignesDemande
<1>7. CASE Tic
  BY <1>7, <1>t, <1>c DEF Tic, LignesDemande
<1>8. CASE UNCHANGED <<demande, relances>>
  BY <1>8, <1>c
<1> QED BY <1>1, <1>2, <1>3, <1>4, <1>5, <1>6, <1>7, <1>8, QuiEcritDemande
        DEF EcritDemande

\* The counter of widenings is the number of widenings that were answered with
\* success: two requests that read the same counter never both count.
THEOREM RelancesCompteesToujours == Spec => []RelancesComptees
<1>1. Init => Compte
  BY DEF Init, Compte, RelancesComptees
<1>2. Compte => RelancesComptees
  BY DEF Compte
<1> QED BY <1>1, <1>2, TypeCorrect, CompteNext, PTL DEF Spec

\* A broadcast becomes NO_MATCH only after its window, or on the account of a
\* matching of that Demande that found nobody.
THEOREM SansReponseJustifieToujours == Spec => SansReponseJustifie
<1> DEFINE Justifie ==
      \A d \in Demandes :
        demande[d].statut = "BROADCASTING" /\ demande'[d].statut = "NO_MATCH"
          => \/ EstExpiree(d)
             \/ \E r \in Requetes : /\ requete[r].op = "eteindre"
                                    /\ requete[r].demande = d
<1>1. ASSUME TypeOK, [Next]_vars PROVE [Justifie]_vars
  <2>t. demande \in [Demandes -> LignesDemande]
    BY <1>1 DEF TypeOK
  <2>1. ASSUME NEW r \in Requetes, EcritDemande(r) PROVE Justifie
    <3>1. CASE EteindreFauteDeCandidat(r)
      BY <3>1, <2>t DEF EteindreFauteDeCandidat, ChangerStatut
    <3>2. CASE AnnulerEpuisee(r) \/ Annuler(r)
      BY <3>2, <2>t DEF AnnulerEpuisee, Annuler, EcrireAnnulation, LignesDemande
    <3>3. CASE Attribuer(r)
      BY <3>3, <2>t DEF Attribuer, LignesDemande
    <3>4. CASE Relancer(r)
      BY <3>4, <2>t DEF Relancer
    <3>5. ASSUME NEW d \in Demandes, Soumettre(r, d) PROVE Justifie
      BY <3>5, <2>t DEF Soumettre
    <3> QED BY <2>1, <3>1, <3>2, <3>3, <3>4, <3>5 DEF EcritDemande
  <2>2. CASE ExpirerEchues
    BY <2>2, <2>t DEF ExpirerEchues, Echues
  <2>3. CASE Tic
    BY <2>3, <2>t DEF Tic, LignesDemande
  <2>4. CASE UNCHANGED <<demande, relances>>
    BY <2>4
  <2> HIDE DEF Justifie
  <2> QED BY <1>1, <2>1, <2>2, <2>3, <2>4, QuiEcritDemande
<1> QED BY <1>1, TypeCorrect, PTL DEF Spec, SansReponseJustifie
=============================================================================
