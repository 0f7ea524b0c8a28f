------------------------- MODULE InterventionProofs -------------------------
(***************************************************************************)
(* What holds of Intervention for any number of Missions, providers,       *)
(* amounts and concurrent requests: type correctness, the money of a       *)
(* Mission that moves once, refunds that add up to an accepted devis,      *)
(* suspensions that were earned, and the finality of answers.              *)
(*                                                                         *)
(* The inductive invariant says what each request and the sweep in         *)
(* progress still know of the tables: a devis they read as accepted stays  *)
(* accepted, a ceiling they met stays met, a count they made stays reached.*)
(***************************************************************************)
EXTENDS Intervention, FiniteSetTheorems, SequenceTheorems, TLAPS

Accepte(m, i) == i \in 1..Len(devis[m]) /\ devis[m][i].statut = "ACCEPTED"

\* What the requester of m has agreed to pay, or nothing.
Doit(m, montant) ==
  montant = 0 \/ \E i \in Rangs : Accepte(m, i) /\ devis[m][i].total = montant

UnSeulVivant == \A m \in Missions : \A i, j \in EnAttente(m) : i = j

\* A provider who did withdraw often enough to be suspended.
Recidiviste(p) ==
  Cardinality(Desistements(p)) >= DESISTEMENTS_AVANT_SUSPENSION

\* What a request in state e has read and may still rely on.
EtatFonde(e) ==
  /\ e.op = "transiter" => e.vers \in CiblesDuPrestataire(e.depuis)
  /\ e.op = "repondre"  => e.rang \in 1..Len(devis[e.mission])
  /\ e.op = "plafonner" => PlafondAtteint(e.mission)
  /\ e.op = "annuler"   => Doit(e.mission, e.engage)
  /\ e.op = "liberer"   => Accepte(e.mission, e.devis)
  /\ e.op = "suspendre" => Recidiviste(e.prestataire)

RequetesFondees == \A r \in Requetes : EtatFonde(requete[r])

BalayageFonde == \A e \in balayage.ecriture : Accepte(e.mission, e.devis)

\* One row of annulation_mission for each Mission it was written for.
AnnulationsUniques ==
  /\ IsFiniteSet(annulations)
  /\ \A a \in annulations : /\ mission[a.mission] = "CANCELLED"
                            /\ \A b \in annulations : b.mission = a.mission => b = a

LiberationsUniques ==
  /\ \A m \in Missions :
       mission[m] = "VALIDATED" <=> \E l \in liberations : l.mission = m
  /\ \A l \in liberations :
       /\ Accepte(l.mission, l.devis)
       /\ \A k \in liberations : k.mission = l.mission => k = l

Rembourse ==
  \A a \in annulations : Doit(a.mission, a.forfait + a.remboursement)

Inv == /\ TypeOK
       /\ UnSeulVivant
       /\ RequetesFondees
       /\ BalayageFonde
       /\ AnnulationsUniques
       /\ LiberationsUniques
       /\ Rembourse
       /\ SuspensionJustifiee

-----------------------------------------------------------------------------
\* The steps, sorted for the proofs by what they write.

\* A request that reads, or is cut off: its own state, and nothing else.
Lire(r) ==
  \/ \E m \in Missions :
       \/ \E vers \in StatutsMission : DemanderTransition(r, m, vers)
       \/ \E total \in Totaux : DemanderEmission(r, m, total)
       \/ \E i \in EnAttente(m), rep \in {"ACCEPTED", "REFUSED"} :
            DemanderReponse(r, m, i, rep)
       \/ \E auteur \in Auteurs : DemanderAnnulation(r, m, auteur)
       \/ DemanderValidation(r, m)
  \/ CompterDesistements(r)
  \/ Interrompre(r)

\* A request that writes a table.
Ecrire(r) ==
  \/ TransiterMission(r)
  \/ Emettre(r)
  \/ AnnulerPlafond(r)
  \/ Repondre(r)
  \/ Annuler(r)
  \/ Suspendre(r)
  \/ Valider(r)

\* What goes on outside the requests.
Ailleurs ==
  \/ \E m \in Missions : \/ Attribuer(m)
                         \/ PasserDelai(m)
                         \/ \E i \in 1..Len(devis[m]) : Echoir(m, i)
                         \/ LireAccord(m)
  \/ \E a \in annulations : Oublier(a)
  \/ ExpirerDevis
  \/ SelectionnerEchues
  \/ EcrireLiberation
  \/ InterrompreBalayage

LEMMA LesPas ==
  ASSUME [Next]_vars
  PROVE  \/ \E r \in Requetes : Lire(r) \/ Ecrire(r)
         \/ Ailleurs
         \/ UNCHANGED vars
<1>1. ASSUME NEW r \in Requetes,
             \/ AvancerMission(r) \/ EnvoyerDevis(r) \/ RepondreAuDevis(r)
             \/ AnnulerIntervention(r) \/ ValiderMission(r) \/ Interrompre(r)
      PROVE  Lire(r) \/ Ecrire(r)
  BY <1>1 DEF AvancerMission, EnvoyerDevis, RepondreAuDevis,
              AnnulerIntervention, ValiderMission, Lire, Ecrire
<1>2. ASSUME \/ \E m \in Missions : Attribuer(m) \/ PasserDelai(m)
             \/ \E m \in Missions : \E i \in 1..Len(devis[m]) : Echoir(m, i)
             \/ \E a \in annulations : Oublier(a)
             \/ Expirer
             \/ InterrompreBalayage
      PROVE  Ailleurs
  BY <1>2 DEF Expirer, Ailleurs
<1> QED BY <1>1, <1>2 DEF Next

\* What a request in progress carries, according to the step it has reached.
LEMMA ChampsRequete ==
  ASSUME TypeOK, NEW r \in Requetes
  PROVE  /\ requete[r].op \in {"transiter", "emettre", "plafonner", "repondre",
                               "annuler", "liberer"}
              => requete[r].mission \in Missions
         /\ requete[r].op = "transiter" =>
              /\ requete[r].depuis \in StatutsMission
              /\ requete[r].vers \in StatutsMission
         /\ requete[r].op \in {"emettre", "plafonner", "annuler"}
              => requete[r].depuis \in EnCours
         /\ requete[r].op = "emettre" => requete[r].total \in Totaux
         /\ requete[r].op = "repondre" =>
              /\ requete[r].rang \in Rangs
              /\ requete[r].reponse \in {"ACCEPTED", "REFUSED"}
         /\ requete[r].op = "annuler" =>
              /\ requete[r].auteur \in Auteurs
              /\ requete[r].engage \in {0} \cup Totaux
         /\ requete[r].op \in {"compter", "suspendre"} =>
              /\ requete[r].prestataire \in Prestataires
              /\ requete[r] = [op |-> requete[r].op,
                               prestataire |-> requete[r].prestataire]
         /\ requete[r].op = "liberer" => requete[r].devis \in Rangs
BY DEF TypeOK, EtatsRequete

LEMMA DevientType ==
  ASSUME TypeOK, NEW r \in Requetes, NEW e \in EtatsRequete, Devient(r, e)
  PROVE  requete' \in [Requetes -> EtatsRequete]
BY DEF TypeOK, Devient

-----------------------------------------------------------------------------
\* The table devis.
LEMMA LignesTypees ==
  ASSUME TypeOK, NEW m \in Missions
  PROVE  /\ devis[m] \in Seq(LignesDevis)
         /\ Len(devis[m]) \in 0..DEVIS_MAX_PAR_MISSION
         /\ \A i \in 1..Len(devis[m]) : devis[m][i] \in LignesDevis /\ i \in Rangs
         /\ dernier[m] \in 0..Len(devis[m])
<1>1. devis[m] \in Seq(LignesDevis) /\ Len(devis[m]) <= DEVIS_MAX_PAR_MISSION
  BY DEF TypeOK
<1>2. Len(devis[m]) \in Nat
  BY <1>1, LenProperties
<1>3. \A i \in 1..Len(devis[m]) : devis[m][i] \in LignesDevis
  BY <1>1, ElementOfSeq
<1>4. dernier[m] \in 0..Len(devis[m])
  BY <1>2, ParametresAssumption DEF TypeOK, Rangs
<1> QED BY <1>1, <1>2, <1>3, <1>4, ParametresAssumption DEF Rangs

\* The last devis, when it is accepted, is a row of the Mission.
LEMMA DernierEstAccepte ==
  ASSUME TypeOK, NEW m \in Missions, DernierAccepte(m)
  PROVE  dernier[m] \in Rangs /\ Accepte(m, dernier[m])
BY LignesTypees, ParametresAssumption DEF DernierAccepte, Accepte, Rangs

LEMMA EngageFonde ==
  ASSUME TypeOK, NEW m \in Missions
  PROVE  Engage(m) \in {0} \cup Totaux /\ Doit(m, Engage(m))
<1>1. CASE DernierAccepte(m)
  <2>1. dernier[m] \in Rangs /\ Accepte(m, dernier[m])
    BY <1>1, DernierEstAccepte
  <2>2. devis[m][dernier[m]] \in LignesDevis
    BY <2>1, LignesTypees DEF Accepte
  <2> QED BY <1>1, <2>1, <2>2 DEF Engage, Doit, LignesDevis
<1>2. CASE ~DernierAccepte(m)
  BY <1>2 DEF Engage, Doit
<1> QED BY <1>1, <1>2

\* What every step makes of the rows: none is lost, and one that was answered
\* or has expired is never written again.
LignesTenues ==
  \A m \in Missions :
    /\ Len(devis[m]) <= Len(devis'[m])
    /\ \A i \in 1..Len(devis[m]) :
         devis[m][i].statut # "SENT" => devis'[m][i] = devis[m][i]

\* An UPDATE of rows that were still SENT.
LignesReecrites ==
  /\ devis' \in [Missions -> Seq(LignesDevis)]
  /\ \A m \in Missions :
       /\ Len(devis'[m]) = Len(devis[m])
       /\ \A i \in 1..Len(devis[m]) :
            \/ devis'[m][i] = devis[m][i]
            \/ devis[m][i].statut = "SENT"

LEMMA UneLigneReecrite ==
  ASSUME TypeOK, NEW m \in Missions, NEW i \in 1..Len(devis[m]),
         NEW l \in LignesDevis, devis[m][i].statut = "SENT",
         devis' = [devis EXCEPT ![m] = [devis[m] EXCEPT ![i] = l]]
  PROVE  LignesReecrites
<1> DEFINE suite == [devis[m] EXCEPT ![i] = l]
<1>1. devis[m] \in Seq(LignesDevis)
  BY LignesTypees
<1>2. /\ suite \in Seq(LignesDevis)
      /\ Len(suite) = Len(devis[m])
      /\ \A j \in 1..Len(devis[m]) : suite[j] = IF j = i THEN l ELSE devis[m][j]
  BY <1>1, ExceptSeq
<1>3. devis \in [Missions -> Seq(LignesDevis)] /\ devis' = [devis EXCEPT ![m] = suite]
  BY DEF TypeOK
<1> HIDE DEF suite
<1>4. ASSUME NEW n \in Missions
      PROVE  /\ devis'[n] \in Seq(LignesDevis)
             /\ Len(devis'[n]) = Len(devis[n])
             /\ \A j \in 1..Len(devis[n]) :
                  devis'[n][j] = devis[n][j] \/ devis[n][j].statut = "SENT"
  <2>1. CASE n = m
    BY <1>2, <1>3, <2>1
  <2>2. CASE n # m
    BY <1>3, <2>2
  <2> QED BY <2>1, <2>2
<1>5. devis' \in [Missions -> Seq(LignesDevis)]
  BY <1>2, <1>3
<1> QED BY <1>4, <1>5 DEF LignesReecrites

LEMMA RepondreReecrit ==
  ASSUME TypeOK, RequetesFondees, NEW r \in Requetes, Repondre(r)
  PROVE  LignesReecrites
<1> DEFINE m == requete[r].mission
           i == requete[r].rang
           suite == [devis[m][i] EXCEPT !.statut = requete[r].reponse]
<1>1. /\ m \in Missions /\ i \in 1..Len(devis[m])
      /\ requete[r].reponse \in StatutsDevis
  BY ChampsRequete DEF Repondre, StatutsDevis, RequetesFondees, EtatFonde
<1>2. CASE ~Repondable(m, i)
  BY <1>2 DEF Repondre, LignesReecrites, TypeOK
<1>3. CASE Repondable(m, i)
  <2>1. devis[m][i] \in LignesDevis
    BY <1>1, LignesTypees
  <2>2. suite \in LignesDevis
    BY <1>1, <2>1 DEF LignesDevis
  <2>3. devis' = [devis EXCEPT ![m][i].statut = requete[r].reponse]
    BY <1>3 DEF Repondre
  <2>4. devis' = [devis EXCEPT ![m] = [devis[m] EXCEPT ![i] = suite]]
    BY <2>3
  <2> HIDE DEF suite
  <2> QED BY <1>1, <1>3, <2>2, <2>4, UneLigneReecrite DEF Repondable
<1> QED BY <1>2, <1>3

LEMMA EchoirReecrit ==
  ASSUME TypeOK, NEW m \in Missions, NEW i \in 1..Len(devis[m]), Echoir(m, i)
  PROVE  LignesReecrites
<1> DEFINE suite == [devis[m][i] EXCEPT !.echu = TRUE]
<1>1. devis[m][i] \in LignesDevis
  BY LignesTypees
<1>2. suite \in LignesDevis
  BY <1>1 DEF LignesDevis
<1>3. devis' = [devis EXCEPT ![m] = [devis[m] EXCEPT ![i] = suite]]
  BY DEF Echoir
<1> HIDE DEF suite
<1> QED BY <1>2, <1>3, UneLigneReecrite DEF Echoir

LEMMA ExpirerReecrit ==
  ASSUME TypeOK, ExpirerDevis
  PROVE  LignesReecrites
<1>1. PICK lot \in SUBSET DevisEchus : ExpirerLesEchus(lot)
  BY DEF ExpirerDevis
<1> DEFINE ligne(m, i) == IF m \in lot /\ i \in EnAttente(m)
                            THEN [devis[m][i] EXCEPT !.statut = "EXPIRED"]
                            ELSE devis[m][i]
           suite(m) == [i \in 1..Len(devis[m]) |-> ligne(m, i)]
<1>2. devis' = [m \in Missions |-> suite(m)]
  BY <1>1 DEF ExpirerLesEchus
<1>3. ASSUME NEW m \in Missions
      PROVE  /\ suite(m) \in Seq(LignesDevis)
             /\ Len(suite(m)) = Len(devis[m])
             /\ \A i \in 1..Len(devis[m]) :
                  suite(m)[i] = devis[m][i] \/ devis[m][i].statut = "SENT"
  <2>1. /\ Len(devis[m]) \in Nat
        /\ \A i \in 1..Len(devis[m]) : devis[m][i] \in LignesDevis
    BY LignesTypees
  <2>2. ASSUME NEW i \in 1..Len(devis[m])
        PROVE  /\ ligne(m, i) \in LignesDevis
               /\ ligne(m, i) = devis[m][i] \/ devis[m][i].statut = "SENT"
    BY <2>1 DEF LignesDevis, StatutsDevis, EnAttente
  <2> HIDE DEF ligne
  <2>3. suite(m) \in Seq(LignesDevis)
    BY <2>1, <2>2
  <2> QED BY <2>1, <2>2, <2>3
<1> HIDE DEF suite
<1> QED BY <1>2, <1>3 DEF LignesReecrites

\* The INSERT of a devis, and what the two limits leave of it.
LEMMA EmettreAjoute ==
  ASSUME TypeOK, NEW r \in Requetes, Emettre(r), devis' # devis
  PROVE  LET m == requete[r].mission
             n == Len(devis[m]) + 1
         IN  /\ m \in Missions
             /\ EnAttente(m) = {}
             /\ n <= DEVIS_MAX_PAR_MISSION
             /\ devis' \in [Missions -> Seq(LignesDevis)]
             /\ \A k \in Missions \ {m} : devis'[k] = devis[k]
             /\ Len(devis'[m]) = n
             /\ devis'[m][n].statut = "SENT"
             /\ \A i \in 1..Len(devis[m]) : devis'[m][i] = devis[m][i]
             /\ dernier' \in [Missions -> {0} \cup Rangs]
             /\ \A k \in Missions \ {m} : dernier'[k] = dernier[k]
             /\ dernier'[m] \in {dernier[m], n}
<1> DEFINE m == requete[r].mission
           n == Len(devis[m]) + 1
           neuve == [statut |-> "SENT", echu |-> FALSE, total |-> requete[r].total]
           suite == Append(devis[m], neuve)
<1>1. m \in Missions /\ requete[r].total \in Totaux
  BY ChampsRequete DEF Emettre
<1>2. /\ devis[m] \in Seq(LignesDevis)
      /\ Len(devis[m]) \in Nat
  BY <1>1, LignesTypees
<1>3. neuve \in LignesDevis /\ neuve.statut = "SENT"
  BY <1>1 DEF LignesDevis, StatutsDevis
<1>4. /\ Insertion(m)
      /\ devis' = [devis EXCEPT ![m] = Append(@, neuve)]
      /\ dernier' = [dernier EXCEPT ![m] = n] \/ dernier' = dernier
  BY DEF Emettre
<1>5. devis' = [devis EXCEPT ![m] = suite]
  BY <1>4
<1> HIDE DEF neuve
<1>6. /\ suite \in Seq(LignesDevis)
      /\ Len(suite) = n
      /\ suite[n] = neuve
      /\ \A i \in 1..Len(devis[m]) : suite[i] = devis[m][i]
  BY <1>2, <1>3
<1>7. EnAttente(m) = {} /\ n \in Rangs
  BY <1>2, <1>4, ParametresAssumption DEF Insertion, Rangs
<1> HIDE DEF suite
<1>8. /\ devis' \in [Missions -> Seq(LignesDevis)]
      /\ \A k \in Missions \ {m} : devis'[k] = devis[k]
      /\ devis'[m] = suite
  BY <1>1, <1>5, <1>6 DEF TypeOK
<1>9. /\ dernier' \in [Missions -> {0} \cup Rangs]
      /\ \A k \in Missions \ {m} : dernier'[k] = dernier[k]
      /\ dernier'[m] \in {dernier[m], n}
  <2>1. PICK rang \in Rangs : rang = n
    BY <1>7
  <2>2. dernier \in [Missions -> {0} \cup Rangs]
    BY DEF TypeOK
  <2>3. dernier' = [dernier EXCEPT ![m] = rang] \/ dernier' = dernier
    BY <1>4, <2>1
  <2> HIDE DEF m, n
  <2> QED BY <1>1, <2>1, <2>2, <2>3
<1>10. n <= DEVIS_MAX_PAR_MISSION
  BY <1>7 DEF Rangs
<1> QED BY <1>1, <1>3, <1>6, <1>7, <1>8, <1>9, <1>10

\* Who writes the table devis, and the rank of the last row.
LEMMA QuiEcritDevis ==
  ASSUME TypeOK, RequetesFondees, [Next]_vars
  PROVE  \/ \E r \in Requetes : Emettre(r) /\ devis' # devis
         \/ LignesReecrites /\ dernier' = dernier
         \/ UNCHANGED <<devis, dernier>>
<1>1. ASSUME NEW r \in Requetes, Lire(r)
      PROVE  UNCHANGED <<devis, dernier>>
  BY <1>1 DEF Lire, DemanderTransition, DemanderEmission, DemanderReponse,
              DemanderAnnulation, DemanderValidation, CompterDesistements,
              Interrompre
<1>2. ASSUME NEW r \in Requetes, Ecrire(r)
      PROVE  \/ Emettre(r) /\ devis' # devis
             \/ LignesReecrites /\ dernier' = dernier
             \/ UNCHANGED <<devis, dernier>>
  <2>1. CASE Emettre(r)
    <3>1. CASE devis' = devis
      <4>1. requete[r].mission \in Missions
        BY <2>1, ChampsRequete DEF Emettre
      <4>2. /\ devis[requete[r].mission] \in Seq(LignesDevis)
            /\ devis \in [Missions -> Seq(LignesDevis)]
        BY <4>1 DEF TypeOK
      <4> QED BY <2>1, <3>1, <4>1, <4>2 DEF Emettre
    <3> QED BY <2>1, <3>1
  <2>2. CASE Repondre(r)
    BY <2>2, RepondreReecrit DEF Repondre
  <2> QED BY <1>2, <2>1, <2>2
    DEF Ecrire, TransiterMission, AnnulerPlafond, Annuler, Suspendre, Valider
<1>3. CASE Ailleurs
  <2>1. ASSUME NEW m \in Missions, NEW i \in 1..Len(devis[m]), Echoir(m, i)
        PROVE  LignesReecrites /\ dernier' = dernier
    BY <2>1, EchoirReecrit DEF Echoir
  <2>2. CASE ExpirerDevis
    BY <2>2, ExpirerReecrit DEF ExpirerDevis
  <2> QED BY <1>3, <2>1, <2>2
    DEF Ailleurs, Attribuer, PasserDelai, LireAccord, Oublier,
        SelectionnerEchues, EcrireLiberation, InterrompreBalayage
<1> QED BY <1>1, <1>2, <1>3, LesPas DEF vars

DevisType ==
  /\ devis \in [Missions -> Seq(LignesDevis)]
  /\ dernier \in [Missions -> {0} \cup Rangs]
  /\ \A m \in Missions : /\ Len(devis[m]) <= DEVIS_MAX_PAR_MISSION
                         /\ Cardinality(EnAttente(m)) <= 1
                         /\ dernier[m] <= Len(devis[m])

LEMMA AuPlusUn ==
  ASSUME NEW S, \A i, j \in S : i = j
  PROVE  Cardinality(S) <= 1
<1>1. CASE S = {}
  BY <1>1, FS_EmptySet
<1>2. CASE S # {}
  <2>1. PICK x \in S : S = {x}
    BY <1>2
  <2> QED BY <2>1, FS_Singleton
<1> QED BY <1>1, <1>2

LEMMA DevisNext ==
  ASSUME TypeOK, UnSeulVivant, RequetesFondees, [Next]_vars
  PROVE  DevisType' /\ UnSeulVivant' /\ LignesTenues
<1> DEFINE Rangees == /\ devis' \in [Missions -> Seq(LignesDevis)]
                      /\ dernier' \in [Missions -> {0} \cup Rangs]
                      /\ \A m \in Missions :
                           /\ Len(devis'[m]) <= DEVIS_MAX_PAR_MISSION
                           /\ dernier'[m] <= Len(devis'[m])
           But == Rangees /\ UnSeulVivant' /\ LignesTenues
<1>t. /\ devis \in [Missions -> Seq(LignesDevis)]
      /\ dernier \in [Missions -> {0} \cup Rangs]
  BY DEF TypeOK
<1>1. ASSUME NEW r \in Requetes, Emettre(r), devis' # devis
      PROVE  But
  \* Rigid: the request has moved on after the step.
  <2>m. PICK m : m = requete[r].mission
    OBVIOUS
  <2>n. PICK n : n = Len(devis[m]) + 1
    OBVIOUS
  <2>1. /\ m \in Missions
        /\ EnAttente(m) = {}
        /\ n <= DEVIS_MAX_PAR_MISSION
        /\ devis' \in [Missions -> Seq(LignesDevis)]
        /\ \A k \in Missions \ {m} : devis'[k] = devis[k]
        /\ Len(devis'[m]) = n
        /\ devis'[m][n].statut = "SENT"
        /\ \A i \in 1..Len(devis[m]) : devis'[m][i] = devis[m][i]
        /\ dernier' \in [Missions -> {0} \cup Rangs]
        /\ \A k \in Missions \ {m} : dernier'[k] = dernier[k]
        /\ dernier'[m] \in {dernier[m], n}
    BY <1>1, <2>m, <2>n, EmettreAjoute
  <2>2. /\ Len(devis[m]) \in Nat /\ dernier[m] \in 0..Len(devis[m])
        /\ n = Len(devis[m]) + 1
    BY <2>n, <2>1, LignesTypees
  <2>3. EnAttente(m)' = {n}
    <3>1. \A i \in 1..Len(devis[m]) : devis'[m][i].statut # "SENT"
      BY <2>1 DEF EnAttente
    <3>2. 1..Len(devis'[m]) = (1..Len(devis[m])) \cup {n} /\ n \in 1..n
      BY <2>1, <2>2
    <3> QED BY <2>1, <3>1, <3>2 DEF EnAttente
  <2>4. \A k \in Missions \ {m} : EnAttente(k)' = EnAttente(k)
    BY <2>1 DEF EnAttente
  <2>5. UnSeulVivant'
    BY <2>3, <2>4 DEF UnSeulVivant
  <2>6. LignesTenues
    <3>1. ASSUME NEW k \in Missions
          PROVE  /\ Len(devis[k]) <= Len(devis'[k])
                 /\ \A i \in 1..Len(devis[k]) : devis'[k][i] = devis[k][i]
      <4>1. Len(devis[k]) \in Nat
        BY LignesTypees
      <4>2. CASE k = m
        BY <2>1, <2>2, <4>2
      <4>3. CASE k # m
        <5>1. devis'[k] = devis[k]
          BY <2>1, <4>3
        <5> QED BY <4>1, <5>1
      <4> QED BY <4>2, <4>3
    <3> QED BY <3>1 DEF LignesTenues
  <2>7. Rangees
    <3>1. ASSUME NEW k \in Missions
          PROVE  /\ Len(devis'[k]) <= DEVIS_MAX_PAR_MISSION
                 /\ dernier'[k] <= Len(devis'[k])
      <4>1. Len(devis[k]) \in 0..DEVIS_MAX_PAR_MISSION /\ dernier[k] \in 0..Len(devis[k])
        BY LignesTypees
      <4>2. CASE k = m
        <5>1. dernier'[k] \in {dernier[k], n} /\ Len(devis'[k]) = n
          BY <2>1, <4>2
        <5> QED BY <2>1, <2>2, <4>1, <4>2, <5>1, ParametresAssumption
      <4>3. CASE k # m
        <5>1. devis'[k] = devis[k] /\ dernier'[k] = dernier[k]
          BY <2>1, <4>3
        <5> QED BY <4>1, <5>1, ParametresAssumption
      <4> QED BY <4>2, <4>3
    <3> QED BY <2>1, <3>1
  <2> QED BY <2>5, <2>6, <2>7
<1>2. ASSUME LignesReecrites, dernier' = dernier
      PROVE  But
  <2>1. ASSUME NEW m \in Missions
        PROVE  /\ Len(devis'[m]) = Len(devis[m])
               /\ Len(devis[m]) \in 0..DEVIS_MAX_PAR_MISSION
               /\ dernier[m] <= Len(devis[m])
               /\ EnAttente(m)' \subseteq EnAttente(m)
    BY <1>2, LignesTypees, ParametresAssumption DEF LignesReecrites, EnAttente
  <2>2. UnSeulVivant'
    BY <2>1 DEF UnSeulVivant
  <2>3. LignesTenues
    BY <1>2, <2>1, ParametresAssumption DEF LignesReecrites, LignesTenues
  <2>4. Rangees
    BY <1>2, <1>t, <2>1, ParametresAssumption DEF LignesReecrites
  <2> QED BY <2>2, <2>3, <2>4
<1>3. ASSUME UNCHANGED <<devis, dernier>>
      PROVE  But
  <2>1. LignesReecrites
    BY <1>3, <1>t DEF LignesReecrites
  <2> QED BY <1>2, <1>3, <2>1
<1>4. But
  BY <1>1, <1>2, <1>3, QuiEcritDevis
<1>5. \A m \in Missions : Cardinality(EnAttente(m)') <= 1
  BY <1>4, AuPlusUn DEF UnSeulVivant
<1> QED BY <1>4, <1>5 DEF DevisType

\* What was read of the rows stays true of them.
LEMMA AccepteReste ==
  ASSUME TypeOK, LignesTenues, DevisType', NEW m \in Missions, NEW i, Accepte(m, i)
  PROVE  Accepte(m, i)' /\ devis'[m][i].total = devis[m][i].total
<1>1. /\ i \in 1..Len(devis[m])
      /\ devis[m][i].statut = "ACCEPTED"
  BY DEF Accepte
<1>2. devis'[m][i] = devis[m][i]
  BY <1>1 DEF LignesTenues
<1>3. Len(devis[m]) \in Nat /\ Len(devis'[m]) \in Nat /\ Len(devis[m]) <= Len(devis'[m])
  BY LignesTypees, LenProperties DEF LignesTenues, DevisType
<1> QED BY <1>1, <1>2, <1>3 DEF Accepte

LEMMA DoitReste ==
  ASSUME TypeOK, LignesTenues, DevisType', NEW m \in Missions, NEW x, Doit(m, x)
  PROVE  Doit(m, x)'
BY AccepteReste DEF Doit

\* A Mission that has received all its devis and has none to answer stays so.
LEMMA PlafondReste ==
  ASSUME TypeOK, UnSeulVivant, RequetesFondees, [Next]_vars, DevisType',
         NEW m \in Missions, PlafondAtteint(m)
  PROVE  PlafondAtteint(m)'
<1>1. Len(devis[m]) \in 0..DEVIS_MAX_PAR_MISSION
  BY LignesTypees
<1>2. ASSUME NEW r \in Requetes, Emettre(r), devis' # devis
      PROVE  devis'[m] = devis[m]
  <2>1. m # requete[r].mission
    BY <1>1, <1>2, EmettreAjoute, ParametresAssumption DEF PlafondAtteint
  <2> QED BY <1>2, <2>1, EmettreAjoute
<1>3. ASSUME LignesReecrites
      PROVE  Len(devis'[m]) = Len(devis[m]) /\ EnAttente(m)' \subseteq EnAttente(m)
  BY <1>3 DEF LignesReecrites, EnAttente
<1> QED BY <1>2, <1>3, QuiEcritDevis DEF PlafondAtteint, EnAttente

-----------------------------------------------------------------------------
\* The tables mission, annulation_mission and liberation.

\* Mission m goes from one statut to another, and no other Mission moves.
Passe(m, de, vers) ==
  /\ m \in Missions
  /\ mission[m] = de
  /\ mission' = [mission EXCEPT ![m] = vers]

\* What each step does to the three tables at once.
EffetsMission ==
  \/ UNCHANGED <<mission, annulations, liberations>>
  \/ /\ \E m \in Missions : Passe(m, "ABSENTE", "ACCEPTED")
     /\ UNCHANGED <<annulations, liberations>>
  \/ /\ \E m \in Missions, s \in EnCours :
          \E vers \in CiblesDuPrestataire(s) : Passe(m, s, vers)
     /\ UNCHANGED <<annulations, liberations>>
  \/ /\ \E r \in Requetes :
          /\ requete[r].op = "annuler"
          /\ requete[r].mission \in Missions /\ requete[r].depuis \in EnCours
          /\ Passe(requete[r].mission, requete[r].depuis, "CANCELLED")
          /\ \E a \in LignesAnnulation :
               /\ a.mission = requete[r].mission /\ a.depuis = requete[r].depuis
               /\ a.forfait + a.remboursement = requete[r].engage
               /\ annulations' = annulations \cup {a}
     /\ UNCHANGED liberations
  \/ /\ \E l \in LignesLiberation :
          /\ Accepte(l.mission, l.devis)
          /\ Passe(l.mission, "COMPLETED", "VALIDATED")
          /\ liberations' = liberations \cup {l}
     /\ UNCHANGED annulations
  \/ /\ \E a \in annulations :
          annulations' = (annulations \ {a}) \cup {[a EXCEPT !.recente = FALSE]}
     /\ UNCHANGED <<mission, liberations>>

LEMMA CiblesEnCours ==
  ASSUME NEW s \in StatutsMission, NEW vers \in CiblesDuPrestataire(s)
  PROVE  s \in EnCours /\ vers \in StatutsMission \ {"VALIDATED"}
BY DEF CiblesDuPrestataire, Transiter, TransitionsPossibles, StatutsMission, EnCours

\* A cancellation splits what was engaged, and loses none of it.
LEMMA ForfaitPartage ==
  ASSUME NEW depuis, NEW engage \in {0} \cup Totaux
  PROVE  /\ Forfait(depuis, engage) \in Montants
         /\ engage - Forfait(depuis, engage) \in Montants
         /\ Forfait(depuis, engage) + (engage - Forfait(depuis, engage)) = engage
<1>1. engage \in Nat /\ FORFAIT_DEPLACEMENT \in Nat /\ Totaux \subseteq Nat \ {0}
  BY ParametresAssumption
<1>2. CASE depuis # "ON_SITE"
  BY <1>1, <1>2 DEF Forfait, Montants
<1>3. CASE depuis = "ON_SITE" /\ engage < FORFAIT_DEPLACEMENT
  BY <1>1, <1>3 DEF Forfait, Montants
<1>4. CASE depuis = "ON_SITE" /\ ~(engage < FORFAIT_DEPLACEMENT)
  BY <1>1, <1>4 DEF Forfait, Montants
<1> QED BY <1>2, <1>3, <1>4

LEMMA LibererEcrit ==
  ASSUME TypeOK, NEW m \in Missions, NEW rang \in Rangs,
         NEW origine \in {"USER_VALIDATION", "AUTO_RELEASE_72H"},
         Accepte(m, rang), Liberer(m, rang, origine), UNCHANGED annulations
  PROVE  EffetsMission
<1> DEFINE l == [mission |-> m, devis |-> rang, origine |-> origine]
<1>1. l \in LignesLiberation
  BY DEF LignesLiberation
<1>2. CASE LiberationAdmise(m)
  <2>1. /\ Passe(l.mission, "COMPLETED", "VALIDATED")
        /\ liberations' = liberations \cup {l}
        /\ Accepte(l.mission, l.devis)
    BY <1>2 DEF Liberer, LiberationAdmise, Passe
  <2> HIDE DEF l
  <2> QED BY <1>1, <2>1 DEF EffetsMission
<1>3. CASE ~LiberationAdmise(m)
  BY <1>3 DEF Liberer, EffetsMission
<1> QED BY <1>2, <1>3

LEMMA AnnulerEcrit ==
  ASSUME TypeOK, NEW r \in Requetes, Annuler(r)
  PROVE  EffetsMission
<1> DEFINE m == requete[r].mission
           depuis == requete[r].depuis
           engage == requete[r].engage
           forfait == Forfait(depuis, engage)
           a == [mission |-> m, auteur |-> requete[r].auteur, depuis |-> depuis,
                 forfait |-> forfait, remboursement |-> engage - forfait,
                 recente |-> TRUE]
<1>1. /\ m \in Missions /\ depuis \in EnCours
      /\ requete[r].auteur \in Auteurs /\ engage \in {0} \cup Totaux
      /\ requete[r].op = "annuler"
  BY ChampsRequete DEF Annuler
<1>2. CASE AnnulationAdmise(m, depuis)
  <2>1. /\ forfait \in Montants /\ engage - forfait \in Montants
        /\ forfait + (engage - forfait) = engage
    BY <1>1, ForfaitPartage
  <2>2. /\ a \in LignesAnnulation
        /\ a.mission = m /\ a.depuis = depuis
        /\ a.forfait + a.remboursement = engage
    BY <1>1, <2>1 DEF LignesAnnulation
  <2>3. /\ Passe(m, depuis, "CANCELLED")
        /\ annulations' = annulations \cup {a}
        /\ UNCHANGED liberations
    BY <1>1, <1>2 DEF Annuler, AnnulationAdmise, Passe
  <2> HIDE DEF a
  <2> QED BY <1>1, <2>2, <2>3 DEF EffetsMission
<1>3. CASE ~AnnulationAdmise(m, depuis)
  BY <1>3 DEF Annuler, EffetsMission
<1> QED BY <1>2, <1>3

LEMMA MissionNext ==
  ASSUME TypeOK, RequetesFondees, BalayageFonde, [Next]_vars
  PROVE  EffetsMission
<1>1. ASSUME NEW r \in Requetes, Lire(r)
      PROVE  EffetsMission
  BY <1>1
  DEF Lire, DemanderTransition, DemanderEmission, DemanderReponse,
      DemanderAnnulation, DemanderValidation, CompterDesistements, Interrompre,
      EffetsMission
<1>2. ASSUME NEW r \in Requetes, Ecrire(r)
      PROVE  EffetsMission
  <2>1. CASE TransiterMission(r)
    <3>1. /\ requete[r].mission \in Missions
          /\ requete[r].depuis \in EnCours
          /\ requete[r].vers \in CiblesDuPrestataire(requete[r].depuis)
      BY <2>1, ChampsRequete, CiblesEnCours
         DEF TransiterMission, RequetesFondees, EtatFonde
    <3> QED BY <2>1, <3>1 DEF TransiterMission, Bascule, EffetsMission, Passe
  <2>2. CASE AnnulerPlafond(r)
    <3>1. /\ requete[r].mission \in Missions
          /\ requete[r].depuis \in EnCours
          /\ "CANCELLED" \in CiblesDuPrestataire(requete[r].depuis)
      BY <2>2, ChampsRequete
      DEF AnnulerPlafond, CiblesDuPrestataire, StatutsMission
    <3> QED BY <2>2, <3>1 DEF AnnulerPlafond, Bascule, EffetsMission, Passe
  <2>3. CASE Annuler(r)
    BY <2>3, AnnulerEcrit
  <2>4. CASE Valider(r)
    <3>1. /\ requete[r].mission \in Missions /\ requete[r].devis \in Rangs
          /\ Accepte(requete[r].mission, requete[r].devis)
      BY <2>4, ChampsRequete DEF Valider, RequetesFondees, EtatFonde
    <3> QED BY <2>4, <3>1, LibererEcrit DEF Valider
  <2> QED BY <1>2, <2>1, <2>2, <2>3, <2>4
          DEF Ecrire, Emettre, Repondre, Suspendre, EffetsMission
<1>3. CASE Ailleurs
  <2>1. ASSUME NEW m \in Missions, Attribuer(m)
        PROVE  EffetsMission
    BY <2>1 DEF Attribuer, EffetsMission, Passe
  <2>2. CASE EcrireLiberation
    <3>1. PICK e \in balayage.ecriture :
            Liberer(e.mission, e.devis, "AUTO_RELEASE_72H")
      BY <2>2 DEF EcrireLiberation
    <3>2. /\ e.mission \in Missions /\ e.devis \in Rangs
          /\ Accepte(e.mission, e.devis)
      BY <3>1 DEF TypeOK, BalayageFonde
    <3> QED BY <2>2, <3>1, <3>2, LibererEcrit DEF EcrireLiberation
  <2>3. ASSUME NEW a \in annulations, Oublier(a)
        PROVE  EffetsMission
    BY <2>3 DEF Oublier, EffetsMission
  <2> QED BY <1>3, <2>1, <2>2, <2>3
    DEF Ailleurs, PasserDelai, Echoir, LireAccord, ExpirerDevis,
        SelectionnerEchues, InterrompreBalayage, EffetsMission
<1> QED BY <1>1, <1>2, <1>3, LesPas DEF vars, EffetsMission

\* A statut leaves its value along TransitionsPossibles only, so that VALIDATED
\* and CANCELLED are never left and VALIDATED is only reached with a release.
LEMMA StatutsNext ==
  ASSUME TypeOK, EffetsMission
  PROVE  /\ mission' \in [Missions -> StatutsMission \cup {"ABSENTE"}]
         /\ \A m \in Missions :
              mission[m] \in {"VALIDATED", "CANCELLED"} => mission'[m] = mission[m]
         /\ \A m \in Missions :
              mission'[m] = "VALIDATED" /\ mission[m] # "VALIDATED" =>
                \E l \in liberations' : l.mission = m
<1> DEFINE But ==
         /\ mission' \in [Missions -> StatutsMission \cup {"ABSENTE"}]
         /\ \A m \in Missions :
              mission[m] \in {"VALIDATED", "CANCELLED"} => mission'[m] = mission[m]
         /\ \A m \in Missions :
              mission'[m] = "VALIDATED" /\ mission[m] # "VALIDATED" =>
                \E l \in liberations' : l.mission = m
<1>t. mission \in [Missions -> StatutsMission \cup {"ABSENTE"}]
  BY DEF TypeOK
<1>1. ASSUME NEW m, NEW de \in EnCours \cup {"ABSENTE"},
             NEW vers \in StatutsMission \ {"VALIDATED"}, Passe(m, de, vers)
      PROVE  But
  BY <1>1, <1>t DEF Passe, EnCours, StatutsMission
<1>2. ASSUME NEW l \in LignesLiberation, Passe(l.mission, "COMPLETED", "VALIDATED"),
             liberations' = liberations \cup {l}
      PROVE  But
  <2>1. l.mission \in Missions /\ l \in liberations'
    BY <1>2 DEF LignesLiberation
  <2> QED BY <1>2, <1>t, <2>1 DEF Passe, StatutsMission
<1>3. CASE UNCHANGED mission
  BY <1>3, <1>t
<1>4. \A s \in EnCours : \A vers \in CiblesDuPrestataire(s) :
        vers \in StatutsMission \ {"VALIDATED"}
  BY CiblesEnCours DEF EnCours, StatutsMission
<1>5. "ACCEPTED" \in StatutsMission \ {"VALIDATED"}
      /\ "CANCELLED" \in StatutsMission \ {"VALIDATED"}
  BY DEF StatutsMission
<1> QED BY <1>1, <1>2, <1>3, <1>4, <1>5 DEF EffetsMission

-----------------------------------------------------------------------------
\* The rows of annulation_mission: one for a Mission, never lost, and a
\* withdrawal that leaves the window of thirty days is still one.
LEMMA AnnulationsNext ==
  ASSUME TypeOK, AnnulationsUniques, EffetsMission
  PROVE  /\ annulations' \subseteq LignesAnnulation
         /\ AnnulationsUniques'
         /\ \A p : Cardinality(Desistements(p)) <= Cardinality(Desistements(p))'
<1> DEFINE But ==
      /\ annulations' \subseteq LignesAnnulation
      /\ AnnulationsUniques'
      /\ \A p : Cardinality(Desistements(p)) <= Cardinality(Desistements(p)')
<1>t. annulations \subseteq LignesAnnulation /\ IsFiniteSet(annulations)
  BY DEF TypeOK, AnnulationsUniques
<1>f. \A p : /\ IsFiniteSet(Desistements(p))
             /\ Cardinality(Desistements(p)) \in Nat
  BY <1>t, FS_Subset, FS_CardinalityType DEF Desistements
<1>m. \A a \in annulations : mission'[a.mission] = "CANCELLED"
  BY <1>t, StatutsNext DEF AnnulationsUniques, LignesAnnulation
<1>1. CASE annulations' = annulations
  <2>1. \A p : Desistements(p)' = Desistements(p)
    BY <1>1 DEF Desistements
  <2> QED BY <1>1, <1>t, <1>f, <1>m, <2>1 DEF AnnulationsUniques
<1>2. ASSUME NEW r \in Requetes, requete[r].mission \in Missions,
             requete[r].depuis \in EnCours,
             Passe(requete[r].mission, requete[r].depuis, "CANCELLED"),
             NEW a \in LignesAnnulation, a.mission = requete[r].mission,
             annulations' = annulations \cup {a}
      PROVE  But
  <2>1. mission'[a.mission] = "CANCELLED" /\ mission[a.mission] # "CANCELLED"
    BY <1>2 DEF Passe, TypeOK, EnCours
  <2>2. \A b \in annulations : b.mission # a.mission
    BY <2>1 DEF AnnulationsUniques
  <2>3. IsFiniteSet(annulations')
    BY <1>2, <1>t, FS_AddElement
  <2>4. AnnulationsUniques'
    BY <1>2, <1>m, <2>1, <2>2, <2>3 DEF AnnulationsUniques
  <2>5. ASSUME NEW p
        PROVE  Cardinality(Desistements(p)) <= Cardinality(Desistements(p)')
    <3>1. Desistements(p)' \in SUBSET annulations'
      BY DEF Desistements
    <3>2. IsFiniteSet(Desistements(p)')
      BY <2>3, <3>1, FS_Subset
    <3>3. Desistements(p) \in SUBSET (Desistements(p)')
      BY <1>2 DEF Desistements
    <3> QED BY <3>2, <3>3, FS_Subset
  <2> QED BY <1>2, <1>t, <2>4, <2>5
<1>3. ASSUME NEW a \in annulations, UNCHANGED mission,
             annulations' = (annulations \ {a}) \cup {[a EXCEPT !.recente = FALSE]}
      PROVE  But
  <2>b. PICK b : b = [a EXCEPT !.recente = FALSE]
    OBVIOUS
  <2>1. /\ b \in LignesAnnulation
        /\ b.mission = a.mission /\ b.auteur = a.auteur
    BY <1>t, <2>b DEF LignesAnnulation
  <2>2. annulations' = (annulations \ {a}) \cup {b}
    BY <1>3, <2>b
  <2>3. \A c \in annulations : c.mission = b.mission => c = a
    BY <2>1 DEF AnnulationsUniques
  <2>4. IsFiniteSet(annulations')
    BY <1>t, <2>2, FS_RemoveElement, FS_AddElement
  <2>5. AnnulationsUniques'
    BY <1>m, <2>1, <2>2, <2>3, <2>4 DEF AnnulationsUniques
  <2>6. ASSUME NEW p
        PROVE  Cardinality(Desistements(p)) <= Cardinality(Desistements(p)')
    <3>1. CASE a \in Desistements(p)
      <4>1. Desistements(p)' = (Desistements(p) \ {a}) \cup {b}
        BY <2>1, <2>2, <3>1 DEF Desistements
      <4>2. b \notin Desistements(p) \ {a}
        BY <2>3 DEF Desistements
      <4>3. /\ IsFiniteSet(Desistements(p) \ {a})
            /\ Cardinality(Desistements(p) \ {a}) = Cardinality(Desistements(p)) - 1
        BY <1>f, <3>1, FS_RemoveElement
      <4>4. Cardinality(Desistements(p)') = Cardinality(Desistements(p) \ {a}) + 1
        BY <4>1, <4>2, <4>3, FS_AddElement
      <4> QED BY <1>f, <4>3, <4>4
    <3>2. CASE a \notin Desistements(p)
      <4>1. Desistements(p)' = Desistements(p)
        BY <2>1, <2>2, <3>2 DEF Desistements
      <4> QED BY <1>f, <4>1
    <3> QED BY <3>1, <3>2
  <2> QED BY <1>t, <2>1, <2>2, <2>5, <2>6
<1> QED BY <1>1, <1>2, <1>3 DEF EffetsMission

LEMMA RecidivisteReste ==
  ASSUME TypeOK, AnnulationsUniques, EffetsMission, NEW p, Recidiviste(p)
  PROVE  Recidiviste(p)'
<1>1. /\ Cardinality(Desistements(p)) \in Nat
      /\ Cardinality(Desistements(p))' \in Nat
  <2>1. IsFiniteSet(annulations) /\ IsFiniteSet(annulations')
    BY AnnulationsNext DEF AnnulationsUniques
  <2>2. /\ Desistements(p) \in SUBSET annulations
        /\ Desistements(p)' \in SUBSET annulations'
    BY DEF Desistements
  <2> QED BY <2>1, <2>2, FS_Subset, FS_CardinalityType
<1>2. Cardinality(Desistements(p)) <= Cardinality(Desistements(p))'
  BY AnnulationsNext
<1> QED BY <1>1, <1>2, ParametresAssumption DEF Recidiviste

\* What a cancellation has kept and given back is still what was agreed.
LEMMA RembourseNext ==
  ASSUME TypeOK, LignesTenues, DevisType', RequetesFondees, Rembourse, EffetsMission
  PROVE  Rembourse'
<1>t. annulations \subseteq LignesAnnulation
  BY DEF TypeOK
<1>1. ASSUME NEW a \in annulations
      PROVE  Doit(a.mission, a.forfait + a.remboursement)'
  BY <1>t, DoitReste DEF Rembourse, LignesAnnulation
<1>2. CASE annulations' = annulations
  BY <1>1, <1>2 DEF Rembourse
<1>3. ASSUME NEW r \in Requetes, requete[r].op = "annuler",
             NEW a \in LignesAnnulation, a.mission = requete[r].mission,
             a.forfait + a.remboursement = requete[r].engage,
             annulations' = annulations \cup {a}
      PROVE  Rembourse'
  <2>1. Doit(a.mission, a.forfait + a.remboursement)
    BY <1>3 DEF RequetesFondees, EtatFonde
  <2>2. Doit(a.mission, a.forfait + a.remboursement)'
    BY <2>1, DoitReste DEF LignesAnnulation
  <2> QED BY <1>1, <1>3, <2>2 DEF Rembourse
<1>4. ASSUME NEW a \in annulations,
             annulations' = (annulations \ {a}) \cup {[a EXCEPT !.recente = FALSE]}
      PROVE  Rembourse'
  <2>b. PICK b : b = [a EXCEPT !.recente = FALSE]
    OBVIOUS
  <2>1. /\ b.mission = a.mission /\ b.forfait = a.forfait
        /\ b.remboursement = a.remboursement
    BY <1>t, <2>b DEF LignesAnnulation
  <2>2. Doit(b.mission, b.forfait + b.remboursement)'
    BY <1>1, <2>1
  <2> QED BY <1>1, <1>4, <2>b, <2>2 DEF Rembourse
<1> QED BY <1>2, <1>3, <1>4 DEF EffetsMission

\* The rows of liberation: one exactly for a Mission that is VALIDATED.
LEMMA LiberationsNext ==
  ASSUME TypeOK, LignesTenues, DevisType', LiberationsUniques, EffetsMission
  PROVE  liberations' \subseteq LignesLiberation /\ LiberationsUniques'
<1>t. /\ liberations \subseteq LignesLiberation
      /\ mission \in [Missions -> StatutsMission \cup {"ABSENTE"}]
  BY DEF TypeOK
<1>a. \A l \in liberations : Accepte(l.mission, l.devis)'
  BY <1>t, AccepteReste DEF LiberationsUniques, LignesLiberation
<1>1. CASE liberations' = liberations
  <2>1. \A m \in Missions : mission'[m] = "VALIDATED" <=> mission[m] = "VALIDATED"
    BY <1>1, StatutsNext DEF LiberationsUniques
  <2> QED BY <1>t, <1>a, <1>1, <2>1 DEF LiberationsUniques
<1>2. ASSUME NEW l \in LignesLiberation, Accepte(l.mission, l.devis),
             Passe(l.mission, "COMPLETED", "VALIDATED"),
             liberations' = liberations \cup {l}
      PROVE  liberations' \subseteq LignesLiberation /\ LiberationsUniques'
  <2>1. l.mission \in Missions
    BY DEF LignesLiberation
  <2>2. Accepte(l.mission, l.devis)'
    BY <1>2, <2>1, AccepteReste
  <2>3. \A k \in liberations : k.mission # l.mission
    BY <1>2, <2>1 DEF LiberationsUniques, Passe
  <2>4. \A m \in Missions : mission'[m] = "VALIDATED"
                              <=> mission[m] = "VALIDATED" \/ m = l.mission
    BY <1>2, <1>t, <2>1 DEF Passe
  <2>5. \A m \in Missions :
          mission'[m] = "VALIDATED" <=> \E k \in liberations' : k.mission = m
    BY <1>2, <2>4 DEF LiberationsUniques
  <2> QED BY <1>2, <1>t, <1>a, <2>2, <2>3, <2>5 DEF LiberationsUniques
<1> QED BY <1>1, <1>2 DEF EffetsMission

-----------------------------------------------------------------------------
\* Each request goes on with what its next step needs, and knows it.
LEMMA EtatsNext ==
  ASSUME TypeOK, RequetesFondees, AnnulationsUniques, [Next]_vars
  PROVE  \/ UNCHANGED requete
         \/ \E r \in Requetes, e \in EtatsRequete : Devient(r, e) /\ EtatFonde(e)
<1> DEFINE But(r) == \E e \in EtatsRequete : Devient(r, e) /\ EtatFonde(e)
<1>t. mission \in [Missions -> StatutsMission \cup {"ABSENTE"}]
  BY DEF TypeOK
<1>r. Repos \in EtatsRequete /\ EtatFonde(Repos)
  BY DEF Repos, EtatsRequete, EtatFonde
<1>1. ASSUME NEW r \in Requetes, Lire(r)
      PROVE  But(r)
  <2>1. ASSUME NEW m \in Missions, NEW vers \in StatutsMission,
               DemanderTransition(r, m, vers)
        PROVE  But(r)
    <3> DEFINE e == [op |-> "transiter", mission |-> m, depuis |-> mission[m],
                     vers |-> vers]
    <3>1. mission[m] \in StatutsMission /\ vers \in CiblesDuPrestataire(mission[m])
      BY <1>t, <2>1 DEF DemanderTransition
    <3>2. e \in EtatsRequete /\ EtatFonde(e)
      BY <3>1 DEF EtatsRequete, EtatFonde
    <3> QED BY <2>1, <3>2 DEF DemanderTransition
  <2>2. ASSUME NEW m \in Missions, NEW total \in Totaux,
               DemanderEmission(r, m, total)
        PROVE  But(r)
    <3> DEFINE e == [op |-> "emettre", mission |-> m, depuis |-> mission[m],
                     total |-> total, vus |-> Len(devis[m])]
    <3>1. mission[m] \in EnCours /\ Len(devis[m]) \in 0..DEVIS_MAX_PAR_MISSION
      BY <2>2, LignesTypees DEF DemanderEmission
    <3>2. e \in EtatsRequete /\ EtatFonde(e)
      BY <3>1 DEF EtatsRequete, EtatFonde
    <3> QED BY <2>2, <3>2 DEF DemanderEmission
  <2>3. ASSUME NEW m \in Missions, NEW i \in EnAttente(m),
               NEW rep \in {"ACCEPTED", "REFUSED"}, DemanderReponse(r, m, i, rep)
        PROVE  But(r)
    <3> DEFINE e == [op |-> "repondre", mission |-> m, rang |-> i, reponse |-> rep]
    <3>1. i \in 1..Len(devis[m]) /\ i \in Rangs
      BY LignesTypees DEF EnAttente
    <3>2. e \in EtatsRequete /\ EtatFonde(e)
      BY <3>1 DEF EtatsRequete, EtatFonde
    <3> QED BY <2>3, <3>2 DEF DemanderReponse
  <2>4. ASSUME NEW m \in Missions, NEW auteur \in Auteurs,
               DemanderAnnulation(r, m, auteur)
        PROVE  But(r)
    <3> DEFINE e == [op |-> "annuler", mission |-> m, auteur |-> auteur,
                     depuis |-> mission[m], engage |-> Engage(m)]
    <3>1. /\ mission[m] \in EnCours
          /\ Engage(m) \in {0} \cup Totaux /\ Doit(m, Engage(m))
      BY <2>4, EngageFonde DEF DemanderAnnulation
    <3>2. e \in EtatsRequete /\ EtatFonde(e)
      BY <3>1 DEF EtatsRequete, EtatFonde
    <3> QED BY <2>4, <3>2 DEF DemanderAnnulation
  <2>5. ASSUME NEW m \in Missions, DemanderValidation(r, m)
        PROVE  But(r)
    <3> DEFINE e == [op |-> "liberer", mission |-> m, devis |-> dernier[m]]
    <3>1. dernier[m] \in Rangs /\ Accepte(m, dernier[m])
      BY <2>5, DernierEstAccepte DEF DemanderValidation
    <3>2. e \in EtatsRequete /\ EtatFonde(e)
      BY <3>1 DEF EtatsRequete, EtatFonde
    <3> QED BY <2>5, <3>2 DEF DemanderValidation
  <2>6. CASE CompterDesistements(r)
    <3> DEFINE p == requete[r].prestataire
               e == [op |-> "suspendre", prestataire |-> p]
    <3>1. /\ p \in Prestataires
          /\ requete[r] = [op |-> "compter", prestataire |-> p]
      BY <2>6, ChampsRequete DEF CompterDesistements
    <3>2. CASE Recidive(p)
      <4>1. Recidiviste(p)
        <5>1. IsFiniteSet(Desistements(p))
          BY FS_Subset DEF Desistements, AnnulationsUniques
        <5>2. {a \in Desistements(p) : a.recente} \in SUBSET Desistements(p)
          OBVIOUS
        <5>3. /\ Cardinality(Desistements(p)) \in Nat
              /\ Cardinality({a \in Desistements(p) : a.recente}) \in Nat
              /\ Cardinality({a \in Desistements(p) : a.recente})
                   <= Cardinality(Desistements(p))
          BY <5>1, <5>2, FS_Subset, FS_CardinalityType
        <5> QED BY <3>2, <5>3, ParametresAssumption DEF Recidive, Recidiviste
      <4>2. e \in EtatsRequete /\ EtatFonde(e)
        BY <3>1, <4>1 DEF EtatsRequete, EtatFonde
      <4>3. [requete[r] EXCEPT !.op = "suspendre"] = e
        BY <3>1
      <4> QED BY <2>6, <3>2, <4>2, <4>3 DEF CompterDesistements
    <3>3. CASE ~Recidive(p)
      BY <1>r, <2>6, <3>3 DEF CompterDesistements
    <3> QED BY <3>2, <3>3
  <2>7. CASE Interrompre(r)
    BY <1>r, <2>7 DEF Interrompre
  <2> QED BY <1>1, <2>1, <2>2, <2>3, <2>4, <2>5, <2>6, <2>7 DEF Lire
<1>2. ASSUME NEW r \in Requetes, Ecrire(r)
      PROVE  But(r)
  <2>1. CASE Devient(r, Repos)
    BY <1>r, <2>1
  <2>2. CASE Emettre(r)
    <3> DEFINE m == requete[r].mission
               e == [op |-> "plafonner", mission |-> m, depuis |-> requete[r].depuis]
    <3>1. m \in Missions /\ requete[r].depuis \in EnCours
      BY <2>2, ChampsRequete DEF Emettre
    <3>2. e \in EtatsRequete
      BY <3>1 DEF EtatsRequete
    <3>3. PlafondAtteint(m) => EtatFonde(e)
      BY DEF EtatFonde
    <3>4. Devient(r, Repos) \/ (PlafondAtteint(m) /\ Devient(r, e))
      BY <2>2 DEF Emettre
    <3> QED BY <2>1, <3>2, <3>3, <3>4
  <2>3. CASE Annuler(r)
    <3> DEFINE p == Titulaire[requete[r].mission]
               e == [op |-> "compter", prestataire |-> p]
    <3>1. p \in Prestataires
      BY <2>3, ChampsRequete, ParametresAssumption DEF Annuler
    <3>2. e \in EtatsRequete /\ EtatFonde(e)
      BY <3>1 DEF EtatsRequete, EtatFonde
    <3>3. Devient(r, Repos) \/ Devient(r, e)
      BY <2>3 DEF Annuler
    <3> QED BY <2>1, <3>2, <3>3
  <2> QED BY <1>2, <2>1, <2>2, <2>3
    DEF Ecrire, TransiterMission, AnnulerPlafond, Repondre, Suspendre, Valider
<1>3. CASE Ailleurs
  BY <1>3 DEF Ailleurs, Attribuer, PasserDelai, Echoir, LireAccord, Oublier,
              ExpirerDevis, SelectionnerEchues, EcrireLiberation,
              InterrompreBalayage
<1> QED BY <1>1, <1>2, <1>3, LesPas DEF vars

\* What a request knows of the tables, no step makes false.
LEMMA EtatReste ==
  ASSUME TypeOK, UnSeulVivant, RequetesFondees, AnnulationsUniques,
         [Next]_vars, LignesTenues, DevisType', EffetsMission,
         NEW e \in EtatsRequete, EtatFonde(e)
  PROVE  EtatFonde(e)'
<1>1. e.op \in {"repondre", "plafonner", "annuler", "liberer"}
        => e.mission \in Missions
  BY DEF EtatsRequete
<1>2. ASSUME e.op = "repondre"
      PROVE  e.rang \in 1..Len(devis'[e.mission])
  <2>1. e.mission \in Missions /\ e.rang \in 1..Len(devis[e.mission])
    BY <1>1, <1>2 DEF EtatFonde
  <2>2. /\ Len(devis[e.mission]) \in Nat /\ Len(devis'[e.mission]) \in Nat
        /\ Len(devis[e.mission]) <= Len(devis'[e.mission])
    BY <2>1, LignesTypees, LenProperties DEF LignesTenues, DevisType
  <2> QED BY <2>1, <2>2
<1>3. e.op = "plafonner" => PlafondAtteint(e.mission)'
  BY <1>1, PlafondReste DEF EtatFonde
<1>4. e.op = "annuler" => Doit(e.mission, e.engage)'
  BY <1>1, DoitReste DEF EtatFonde
<1>5. e.op = "liberer" => Accepte(e.mission, e.devis)'
  BY <1>1, AccepteReste DEF EtatFonde
<1>6. e.op = "suspendre" => Recidiviste(e.prestataire)'
  BY RecidivisteReste DEF EtatFonde
<1> QED BY <1>2, <1>3, <1>4, <1>5, <1>6 DEF EtatFonde

LEMMA BalayageNext ==
  ASSUME TypeOK, BalayageFonde, [Next]_vars, LignesTenues, DevisType'
  PROVE  /\ balayage' \in [lot : SUBSET Missions,
                           ecriture : SUBSET [mission : Missions, devis : Rangs]]
         /\ BalayageFonde'
<1> DEFINE Etats == [lot : SUBSET Missions,
                     ecriture : SUBSET [mission : Missions, devis : Rangs]]
           But == \/ UNCHANGED balayage
                  \/ /\ balayage' \in Etats
                     /\ \A e \in balayage'.ecriture : Accepte(e.mission, e.devis)
<1>t. balayage \in Etats
  BY DEF TypeOK
<1>1. ASSUME NEW r \in Requetes, Lire(r) \/ Ecrire(r)
      PROVE  UNCHANGED balayage
  BY <1>1
  DEF Lire, Ecrire, DemanderTransition, DemanderEmission, DemanderReponse,
      DemanderAnnulation, DemanderValidation, CompterDesistements, Interrompre,
      TransiterMission, Emettre, AnnulerPlafond, Repondre, Annuler, Suspendre,
      Valider
<1>2. ASSUME Ailleurs PROVE But
  <2>1. ASSUME NEW m \in Missions, LireAccord(m)
        PROVE  But
    <3>1. DernierAccepte(m) => dernier[m] \in Rangs /\ Accepte(m, dernier[m])
      BY DernierEstAccepte
    <3> QED BY <1>t, <2>1, <3>1 DEF LireAccord
  <2>2. CASE SelectionnerEchues
    <3>1. PICK lot \in SUBSET AValider : balayage' = [balayage EXCEPT !.lot = lot]
      BY <2>2 DEF SelectionnerEchues
    <3>2. lot \in SUBSET Missions /\ balayage.ecriture = {}
      <4>1. Anciennes \subseteq Missions
        BY ElementOfSeq DEF TypeOK, Anciennes
      <4> QED BY <2>2, <3>1, <4>1 DEF AValider, SelectionnerEchues, AuRepos
    <3> QED BY <1>t, <3>1, <3>2
  <2>3. CASE EcrireLiberation
    BY <1>t, <2>3 DEF EcrireLiberation
  <2>4. CASE InterrompreBalayage
    BY <2>4 DEF InterrompreBalayage, AuRepos
  <2> QED BY <1>2, <2>1, <2>2, <2>3, <2>4
          DEF Ailleurs, Attribuer, PasserDelai, Echoir, Oublier, ExpirerDevis
<1>3. But
  BY <1>1, <1>2, LesPas DEF vars
<1>4. balayage' \in Etats
  BY <1>t, <1>3
<1>5. \A e \in balayage'.ecriture : e.mission \in Missions /\ Accepte(e.mission, e.devis)
  BY <1>3, <1>4 DEF BalayageFonde
<1>6. BalayageFonde'
  BY <1>5, AccepteReste DEF BalayageFonde
<1> QED BY <1>4, <1>6

\* The two columns of a date or a statut that one step only writes.
LEMMA ColonnesNext ==
  ASSUME TypeOK, RequetesFondees, [Next]_vars
  PROVE  /\ delai' \in Seq(Missions)
         /\ \A p \in suspendu' : p \in Prestataires /\ (p \in suspendu \/ Recidiviste(p))
<1> DEFINE But ==
         /\ delai' \in Seq(Missions)
         /\ \A p \in suspendu' : p \in Prestataires /\ (p \in suspendu \/ Recidiviste(p))
<1>t. delai \in Seq(Missions) /\ suspendu \subseteq Prestataires
  BY DEF TypeOK
<1>1. ASSUME NEW r \in Requetes, Lire(r)
      PROVE  But
  BY <1>1, <1>t
  DEF Lire, DemanderTransition, DemanderEmission, DemanderReponse,
      DemanderAnnulation, DemanderValidation, CompterDesistements, Interrompre
<1>2. ASSUME NEW r \in Requetes, Ecrire(r)
      PROVE  But
  <2>1. CASE Suspendre(r)
    <3>1. /\ requete[r].prestataire \in Prestataires
          /\ Recidiviste(requete[r].prestataire)
      BY <2>1, ChampsRequete DEF Suspendre, RequetesFondees, EtatFonde
    <3> QED BY <1>t, <2>1, <3>1 DEF Suspendre
  <2> QED BY <1>2, <1>t, <2>1
    DEF Ecrire, TransiterMission, Emettre, AnnulerPlafond, Repondre, Annuler, Valider
<1>3. CASE Ailleurs
  <2>1. ASSUME NEW m \in Missions, PasserDelai(m)
        PROVE  But
    BY <2>1, <1>t, AppendProperties DEF PasserDelai
  <2> QED BY <1>3, <2>1, <1>t
    DEF Ailleurs, Attribuer, Echoir, LireAccord, Oublier, ExpirerDevis,
        SelectionnerEchues, EcrireLiberation, InterrompreBalayage
<1>4. CASE UNCHANGED vars
  BY <1>4, <1>t DEF vars
<1> QED BY <1>1, <1>2, <1>3, <1>4, LesPas

-----------------------------------------------------------------------------
LEMMA InvInit == Init => Inv
<1> SUFFICES ASSUME Init PROVE Inv
  OBVIOUS
<1>1. \A m \in Missions : EnAttente(m) = {} /\ Len(devis[m]) = 0 /\ dernier[m] = 0
  BY DEF Init, EnAttente
<1>2. TypeOK
  <2>1. \A m \in Missions : Cardinality(EnAttente(m)) <= 1
    BY <1>1, AuPlusUn
  <2>2. devis \in [Missions -> Seq(LignesDevis)]
    BY EmptySeq DEF Init
  <2>3. /\ requete \in [Requetes -> EtatsRequete]
        /\ balayage \in [lot : SUBSET Missions,
                         ecriture : SUBSET [mission : Missions, devis : Rangs]]
    BY DEF Init, Repos, EtatsRequete, AuRepos
  <2> QED BY <1>1, <2>1, <2>2, <2>3, ParametresAssumption DEF Init, TypeOK
<1>3. /\ UnSeulVivant /\ RequetesFondees /\ BalayageFonde /\ AnnulationsUniques
      /\ LiberationsUniques /\ Rembourse /\ SuspensionJustifiee
  BY <1>1, FS_EmptySet
  DEF Init, UnSeulVivant, RequetesFondees, EtatFonde, Repos, BalayageFonde, AuRepos,
      AnnulationsUniques, LiberationsUniques, Rembourse, SuspensionJustifiee
<1> QED BY <1>2, <1>3 DEF Inv

LEMMA InvNext == Inv /\ [Next]_vars => Inv'
<1> SUFFICES ASSUME Inv, [Next]_vars PROVE Inv'
  OBVIOUS
<1> USE DEF Inv
<1>1. DevisType' /\ UnSeulVivant' /\ LignesTenues
  BY DevisNext
<1>2. EffetsMission
  BY MissionNext
<1>3. mission' \in [Missions -> StatutsMission \cup {"ABSENTE"}]
  BY <1>2, StatutsNext
<1>4. annulations' \subseteq LignesAnnulation /\ AnnulationsUniques'
  BY <1>2, AnnulationsNext
<1>5. Rembourse'
  BY <1>1, <1>2, RembourseNext
<1>6. liberations' \subseteq LignesLiberation /\ LiberationsUniques'
  BY <1>1, <1>2, LiberationsNext
<1>7. requete' \in [Requetes -> EtatsRequete] /\ RequetesFondees'
  <2>1. \A e \in EtatsRequete : EtatFonde(e) => EtatFonde(e)'
    BY <1>1, <1>2, EtatReste
  <2>2. \A r \in Requetes : requete[r] \in EtatsRequete /\ EtatFonde(requete[r])
    BY DEF TypeOK, RequetesFondees
  <2>3. CASE UNCHANGED requete
    <3>1. ASSUME NEW r \in Requetes
          PROVE  EtatFonde(requete[r])'
      <4>1. PICK e : e = requete[r]
        OBVIOUS
      <4> QED BY <2>1, <2>2, <2>3, <4>1
    <3> QED BY <2>3, <3>1 DEF TypeOK, RequetesFondees
  <2>4. ASSUME NEW q \in Requetes, NEW f \in EtatsRequete, Devient(q, f), EtatFonde(f)
        PROVE  requete' \in [Requetes -> EtatsRequete] /\ RequetesFondees'
    <3>1. requete' \in [Requetes -> EtatsRequete]
      BY <2>4, DevientType
    <3>2. ASSUME NEW r \in Requetes
          PROVE  EtatFonde(requete[r])'
      <4>1. PICK e : e = requete'[r]
        OBVIOUS
      <4>2. e \in EtatsRequete /\ EtatFonde(e)
        BY <2>2, <2>4, <4>1 DEF Devient, TypeOK
      <4> QED BY <2>1, <4>1, <4>2
    <3> QED BY <3>1, <3>2 DEF RequetesFondees
  <2> QED BY <2>3, <2>4, EtatsNext
<1>8. /\ balayage' \in [lot : SUBSET Missions,
                        ecriture : SUBSET [mission : Missions, devis : Rangs]]
      /\ BalayageFonde'
  BY <1>1, BalayageNext
<1>9. delai' \in Seq(Missions) /\ suspendu' \subseteq Prestataires
  BY ColonnesNext
<1>10. SuspensionJustifiee'
  <2>1. \A p \in suspendu' : Recidiviste(p)
    BY ColonnesNext DEF SuspensionJustifiee, Recidiviste
  <2>2. \A p \in suspendu' : Recidiviste(p)'
    BY <1>2, <2>1, RecidivisteReste
  <2> QED BY <2>2 DEF SuspensionJustifiee, Recidiviste
<1>11. TypeOK'
  BY <1>1, <1>3, <1>4, <1>6, <1>7, <1>8, <1>9 DEF TypeOK, DevisType
<1> QED BY <1>1, <1>4, <1>5, <1>6, <1>7, <1>8, <1>10, <1>11

LEMMA InvToujours == Spec => []Inv
BY InvInit, InvNext, PTL DEF Spec

\* Every row keeps a value its column allows, a Mission never receives more
\* devis than the ceiling, and one at most waits for an answer.
THEOREM TypeCorrect == Spec => []TypeOK
BY InvToujours, PTL DEF Inv

\* Whoever validates, cancels, sweeps and retries at the same moment, the money
\* of a Mission moves once, on a devis that is accepted, and is never also given
\* back.
THEOREM ArgentToujoursUneFois == Spec => []ArgentUneFois
<1>1. Inv => ArgentUneFois
  <2> SUFFICES ASSUME Inv PROVE ArgentUneFois
    OBVIOUS
  <2>1. LiberationsUniques /\ AnnulationsUniques /\ liberations \subseteq LignesLiberation
    BY DEF Inv, TypeOK
  <2>2. ASSUME NEW l \in liberations
        PROVE  \A a \in annulations : a.mission # l.mission
    <3>1. l.mission \in Missions
      BY <2>1 DEF LignesLiberation
    <3>2. mission[l.mission] = "VALIDATED"
      BY <2>1, <3>1 DEF LiberationsUniques
    <3> QED BY <2>1, <3>2 DEF AnnulationsUniques
  <2> QED BY <2>1, <2>2 DEF LiberationsUniques, Accepte, ArgentUneFois
<1> QED BY <1>1, InvToujours, PTL

\* A cancellation moves no money the requester had not agreed to: whatever the
\* request had read, the sum is a devis that was and stays accepted.  That it
\* finds the agreement of the moment is not claimed.
THEOREM RemboursementToujoursDu == Spec => []RemboursementDu
<1>1. Inv => RemboursementDu
  BY DEF Inv, Rembourse, Doit, Accepte, RemboursementDu
<1> QED BY <1>1, InvToujours, PTL

\* A provider is only suspended by withdrawals he did make, although the count,
\* the decision and the blind write are three steps.
THEOREM SuspensionToujoursJustifiee == Spec => []SuspensionJustifiee
BY InvToujours, PTL DEF Inv

\* An answer to a devis is final, whatever arrives late.
THEOREM ReponsesToujoursFinales == Spec => ReponsesFinales
<1> DEFINE Final ==
      \A m \in Missions : \A i \in 1..Len(devis[m]) :
        devis[m][i].statut # "SENT" => devis'[m][i] = devis[m][i]
<1>1. ASSUME Inv, [Next]_vars PROVE [Final]_vars
  BY <1>1, DevisNext DEF Inv, LignesTenues
<1> QED BY <1>1, InvToujours, PTL DEF Spec, ReponsesFinales

\* The journey is charged from the statut the Mission had at that moment.
THEOREM AnnulationToujoursFidele == Spec => AnnulationFidele
<1> DEFINE Fidele ==
      \A a \in annulations' :
        (\A b \in annulations : b.mission # a.mission)
          => mission[a.mission] = a.depuis
<1>1. ASSUME Inv, [Next]_vars PROVE Fidele
  <2>1. EffetsMission
    BY <1>1, MissionNext DEF Inv
  <2>2. annulations \subseteq LignesAnnulation
    BY <1>1 DEF Inv, TypeOK
  <2>3. ASSUME NEW a \in annulations,
               annulations' = (annulations \ {a}) \cup {[a EXCEPT !.recente = FALSE]}
        PROVE  Fidele
    <3>b. PICK b : b = [a EXCEPT !.recente = FALSE]
      OBVIOUS
    <3>1. b.mission = a.mission
      BY <2>2, <3>b DEF LignesAnnulation
    <3> QED BY <2>3, <3>b, <3>1
  <2>4. ASSUME NEW r \in Requetes, NEW a,
               Passe(requete[r].mission, requete[r].depuis, "CANCELLED"),
               a.mission = requete[r].mission, a.depuis = requete[r].depuis,
               annulations' = annulations \cup {a}
        PROVE  Fidele
    BY <2>4 DEF Passe
  <2>5. CASE annulations' = annulations
    BY <2>5
  <2> QED BY <2>1, <2>3, <2>4, <2>5 DEF EffetsMission
<1> QED BY <1>1, InvToujours, PTL DEF Spec, AnnulationFidele

\* A Mission is never cancelled for want of a devis while its requester still
\* has an offer to answer, although the ceiling was met a step before.
THEOREM OffreToujoursProtegee == Spec => OffreVivanteProtegee
<1> DEFINE Protegee ==
      \A r \in Requetes, m \in Missions :
        /\ requete[r].op = "plafonner"
        /\ requete[r].mission = m
        /\ requete'[r] = Repos
        /\ mission[m] # mission'[m]
        => EnAttente(m) = {}
<1>1. Inv => Protegee
  BY DEF Inv, RequetesFondees, EtatFonde, PlafondAtteint
<1> QED BY <1>1, InvToujours, PTL DEF Spec, OffreVivanteProtegee

-----------------------------------------------------------------------------
(***************************************************************************)
(* Intervention implements, for each Mission, what its follow-ups assume.  *)
(* Only the table of Missions and the rows of cancellation are seen, so    *)
(* the effects of EffetsMission are taken one by one.                      *)
(***************************************************************************)
LEMMA AuteurDUneLigne == \A a : AuteurDe({a}) = a.auteur
BY DEF AuteurDe

\* What the follow-ups of m see of a step: nothing, or one step of the course.
Suit(m) == [Cours(m)!MissionNext]_(Cours(m)!mission)

LEMMA SuiviIntact ==
  ASSUME NEW m \in Missions, mission'[m] = mission[m], LignesDe(m)' = LignesDe(m)
  PROVE  Suit(m)
<1>1. statutSuivi'[m] = statutSuivi[m]
  BY DEF statutSuivi
<1>2. annulePar'[m] = annulePar[m]
  BY DEF annulePar
<1> QED BY <1>1, <1>2 DEF Suit, Cours!mission

\* The statut moves along the course, and no row of cancellation is written.
LEMMA SuiviAvance ==
  ASSUME TypeOK, NEW n \in Missions, NEW s \in EnCours,
         NEW vers \in CiblesDuPrestataire(s), Passe(n, s, vers),
         UNCHANGED annulations, NEW m \in Missions
  PROVE  Suit(m)
<1>1. LignesDe(m)' = LignesDe(m)
  BY DEF LignesDe
<1>2. CASE m # n
  BY <1>1, <1>2, SuiviIntact DEF Passe, TypeOK
<1>3. CASE m = n
  <2>1. mission[m] = s /\ mission'[m] = vers
    BY <1>3 DEF Passe, TypeOK
  <2>2. vers \in StatutsMission \ {"VALIDATED"}
    BY CiblesEnCours DEF EnCours, StatutsMission
  <2>3. statutSuivi[m] = s /\ statutSuivi'[m] = vers
    BY <2>1, <2>2 DEF statutSuivi, EnCours, StatutsMission
  <2>4. annulePar'[m] = annulePar[m]
    BY <1>1 DEF annulePar
  <2>5. vers = "CANCELLED" \/ vers = Cours(m)!Suivante[s]
    BY DEF CiblesDuPrestataire, Transiter, TransitionsPossibles, StatutsMission,
           EnCours, Cours!Suivante
  <2>6. s \in Cours(m)!EnCours
    BY DEF EnCours, Cours!EnCours
  <2>7. Cours(m)!AvancerMission \/ Cours(m)!AbandonnerMission
    BY <2>3, <2>4, <2>5, <2>6 DEF Cours!AvancerMission, Cours!AbandonnerMission
  <2> QED BY <2>7 DEF Suit, Cours!MissionNext
<1> QED BY <1>2, <1>3

\* The Mission is cancelled with the row that says by whom: it had none.
LEMMA SuiviAnnule ==
  ASSUME TypeOK, AnnulationsUniques, NEW n \in Missions, NEW s \in EnCours,
         Passe(n, s, "CANCELLED"), NEW a \in LignesAnnulation, a.mission = n,
         annulations' = annulations \cup {a}, NEW m \in Missions
  PROVE  Suit(m)
<1>1. CASE m # n
  <2>1. LignesDe(m)' = LignesDe(m)
    BY <1>1 DEF LignesDe
  <2> QED BY <1>1, <2>1, SuiviIntact DEF Passe, TypeOK
<1>2. CASE m = n
  <2>1. mission[m] = s /\ mission'[m] = "CANCELLED" /\ s # "CANCELLED"
    BY <1>2 DEF Passe, TypeOK, EnCours
  <2>2. LignesDe(m) = {} /\ LignesDe(m)' = {a}
    BY <1>2, <2>1 DEF LignesDe, AnnulationsUniques
  <2>3. statutSuivi[m] = s /\ statutSuivi'[m] = "CANCELLED"
    BY <2>1 DEF statutSuivi, EnCours
  <2>4. annulePar'[m] = a.auteur
    BY <2>2, AuteurDUneLigne DEF annulePar
  <2>5. /\ s \in Cours(m)!EnCours
        /\ a.auteur \in {"CANCELLED_USER", "CANCELLED_PROVIDER"}
    BY DEF EnCours, Cours!EnCours, LignesAnnulation, Auteurs
  <2>6. Cours(m)!AnnulerMission(a.auteur)
    BY <2>3, <2>4, <2>5 DEF Cours!AnnulerMission
  <2> QED BY <2>5, <2>6 DEF Suit, Cours!MissionNext
<1> QED BY <1>1, <1>2

\* A row that leaves the window of thirty days keeps its author.
LEMMA SuiviOublie ==
  ASSUME TypeOK, AnnulationsUniques, UNCHANGED mission, NEW a \in annulations,
         annulations' = (annulations \ {a}) \cup {[a EXCEPT !.recente = FALSE]},
         NEW m \in Missions
  PROVE  Suit(m)
<1>b. PICK b : b = [a EXCEPT !.recente = FALSE]
  OBVIOUS
<1>1. b.mission = a.mission /\ b.auteur = a.auteur
  BY <1>b DEF TypeOK, LignesAnnulation
<1>2. annulations' = (annulations \ {a}) \cup {b}
  BY <1>b
<1>3. CASE a.mission # m
  <2>1. LignesDe(m)' = LignesDe(m)
    BY <1>1, <1>2, <1>3 DEF LignesDe
  <2> QED BY <2>1, SuiviIntact
<1>4. CASE a.mission = m
  <2>1. LignesDe(m) = {a} /\ LignesDe(m)' = {b}
    BY <1>1, <1>2, <1>4 DEF LignesDe, AnnulationsUniques
  <2>2. annulePar'[m] = annulePar[m]
    BY <1>1, <2>1, AuteurDUneLigne DEF annulePar
  <2>3. statutSuivi'[m] = statutSuivi[m]
    BY DEF statutSuivi
  <2> QED BY <2>2, <2>3 DEF Suit, Cours!mission
<1> QED BY <1>3, <1>4

LEMMA PasSuivi ==
  ASSUME Inv, [Next]_vars, NEW m \in Missions
  PROVE  Suit(m)
<1>t. TypeOK /\ AnnulationsUniques
  BY DEF Inv
<1>1. CASE UNCHANGED <<mission, annulations>>
  <2>1. LignesDe(m)' = LignesDe(m)
    BY <1>1 DEF LignesDe
  <2> QED BY <1>1, <2>1, SuiviIntact
<1>2. ASSUME NEW n \in Missions, Passe(n, "ABSENTE", "ACCEPTED"),
             UNCHANGED annulations
      PROVE  Suit(m)
  <2>1. statutSuivi'[m] = statutSuivi[m]
    BY <1>t, <1>2 DEF statutSuivi, Passe, TypeOK
  <2>2. annulePar'[m] = annulePar[m]
    BY <1>2 DEF annulePar, LignesDe
  <2> QED BY <2>1, <2>2 DEF Suit, Cours!mission
<1>3. ASSUME NEW n \in Missions, NEW s \in EnCours,
             NEW vers \in CiblesDuPrestataire(s), Passe(n, s, vers),
             UNCHANGED annulations
      PROVE  Suit(m)
  BY <1>t, <1>3, SuiviAvance
<1>4. ASSUME NEW n \in Missions, NEW s \in EnCours, Passe(n, s, "CANCELLED"),
             NEW a \in LignesAnnulation, a.mission = n,
             annulations' = annulations \cup {a}
      PROVE  Suit(m)
  BY <1>t, <1>4, SuiviAnnule
<1>5. ASSUME NEW l \in LignesLiberation, Passe(l.mission, "COMPLETED", "VALIDATED"),
             UNCHANGED annulations
      PROVE  Suit(m)
  <2>1. LignesDe(m)' = LignesDe(m)
    BY <1>5 DEF LignesDe
  <2>2. CASE m # l.mission
    BY <1>t, <1>5, <2>1, <2>2, SuiviIntact DEF Passe, TypeOK
  <2>3. CASE m = l.mission
    <3>1. statutSuivi[m] = "COMPLETED" /\ statutSuivi'[m] = "VALIDATED"
      BY <1>t, <1>5, <2>3 DEF statutSuivi, Passe, TypeOK
    <3>2. annulePar'[m] = annulePar[m]
      BY <2>1 DEF annulePar
    <3>3. Cours(m)!ValiderMission
      BY <3>1, <3>2 DEF Cours!ValiderMission
    <3> QED BY <3>3 DEF Suit, Cours!MissionNext
  <2> QED BY <2>2, <2>3
<1>6. ASSUME NEW a \in annulations, UNCHANGED mission,
             annulations' = (annulations \ {a}) \cup {[a EXCEPT !.recente = FALSE]}
      PROVE  Suit(m)
  BY <1>t, <1>6, SuiviOublie
<1>7. EffetsMission
  BY MissionNext DEF Inv
<1> QED BY <1>1, <1>2, <1>3, <1>4, <1>5, <1>6, <1>7 DEF EffetsMission

LEMMA DebutSuivi ==
  ASSUME Init, NEW m \in Missions
  PROVE  Cours(m)!MissionInit
BY DEF Init, statutSuivi, annulePar, AuteurDe, LignesDe, Cours!MissionInit

\* Whatever the requests and the sweeps do, no Mission leaves the course its
\* follow-ups were written for, and the author of its end is the one who ended it.
THEOREM CoursToujoursSuivi == Spec => SuitLeCours
<1>1. Init => \A m \in Missions : Cours(m)!MissionInit
  BY DebutSuivi
<1>2. Inv /\ [Next]_vars =>
        [\A m \in Missions : [Cours(m)!MissionNext]_(Cours(m)!mission)]_vars
  BY PasSuivi DEF Suit
<1> QED BY <1>1, <1>2, InvToujours, PTL DEF Spec, SuitLeCours

\* Each Mission of Intervention is a Mission as CoursMission specifies it: what
\* is proved of a follow-up for that Mission holds for every one of these.
THEOREM ChaqueMissionSuitLeCours ==
  ASSUME NEW m \in Missions
  PROVE  Spec => Cours(m)!MissionSpec
<1>1. Init => Cours(m)!MissionInit
  BY DebutSuivi
<1>2. Inv /\ [Next]_vars => [Cours(m)!MissionNext]_(Cours(m)!mission)
  BY PasSuivi DEF Suit
<1> QED BY <1>1, <1>2, InvToujours, PTL DEF Spec, Cours!MissionSpec
=============================================================================
