---------------------------- MODULE TarifProofs ----------------------------
(***************************************************************************)
(* The accounts of a Mission are right for every amount, rate and delay a  *)
(* provider may type, not only for the cents the runs try: what the domain *)
(* computes satisfies the CHECKs of the tables, and nothing is lost.       *)
(***************************************************************************)
EXTENDS Tarif, TLAPS

Taux == {2100, 1800, 1200, 600}

\* q is a divided by 10000, truncated.
Tronque(q, a) == q \in Nat /\ q * 10000 <= a /\ a < q * 10000 + 10000

\* A rate of the code applied to an amount: truncated, never rounded up.
LEMMA AppliquerTronque ==
  ASSUME NEW taux \in Taux, NEW montant \in Nat
  PROVE  Tronque(Appliquer(taux, montant), montant * taux)
<1>1. montant * taux \in Nat
  BY SMT DEF Taux
<1>2. \A a \in Nat : Tronque(a \div 10000, a)
  BY SMT DEF Tronque
<1> QED
  BY <1>1, <1>2 DEF Appliquer

\* The commission and its VAT, taken on an amount before VAT.
LEMMA CommissionBornee ==
  ASSUME NEW htva \in Nat, htva > 0,
         NEW c, c = Appliquer(TAUX_COMMISSION_BP, htva),
         NEW t, t = Appliquer(TAUX_NORMAL, c)
  PROVE  c \in Nat /\ t \in Nat /\ 4 * (htva - (c + t)) > 3 * htva
<1>1. 1800 \in Taux /\ 2100 \in Taux
  BY SMT DEF Taux
<1>2. Tronque(c, htva * 1800)
  BY <1>1, AppliquerTronque DEF TAUX_COMMISSION_BP
<1>3. c \in Nat /\ c * 10000 <= htva * 1800
  BY SMT, <1>2 DEF Tronque
<1>4. Tronque(t, c * 2100)
  BY <1>1, <1>3, AppliquerTronque DEF TAUX_NORMAL
<1>5. t \in Nat /\ t * 10000 <= c * 2100
  BY SMT, <1>4 DEF Tronque
<1> QED
  BY SMT, <1>3, <1>5

Devis ==
  [statut : StatutsOffre, htva : Int, taux : Nat, tva : Int, total : Int,
   delai : Int, preuve : Textes, echue : BOOLEAN]

Partages ==
  [statut : {"AUTHORISED", "PENDING_OPS"}, total : Int, commissionHtva : Int,
   tvaCommission : Int, commissionTtc : Int, reversement : Int]

\* The amounts of a devis are those its proposal leads to.
Calcule(d) ==
  /\ d.htva \in Nat /\ d.htva > 0
  /\ d.taux \in TAUX_ADMIS
  /\ d.tva = Appliquer(d.taux, d.htva)
  /\ d.total = d.htva + d.tva

-----------------------------------------------------------------------------
\* A proposal that passes every check of emettre gives a row that passes every
\* CHECK of the table devis.
LEMMA DevisAdmis ==
  ASSUME NEW p \in Propositions, RefusDeProposition(p) = "aucun"
  PROVE  /\ DevisEmis(p) \in Devis
         /\ DevisEmis(p).statut = "SENT"
         /\ Calcule(DevisEmis(p))
         /\ AdmisParDevis(DevisEmis(p))
<1> DEFINE tva == Appliquer(p.taux, p.htva)
<1>1. p.htva \in Int /\ p.taux \in Nat /\ p.delai \in Int
  BY TarifAssumption DEF Propositions
<1>2. p.taux \in TAUX_ADMIS
  BY Zenon DEF RefusDeProposition
<1>3. p.htva > 0 /\ p.htva \in Nat
  <2>1. p.htva # 0 /\ ~(p.htva < 0)
    BY Zenon DEF RefusDeProposition
  <2> QED
    BY SMT, <1>1, <2>1
<1>4. p.delai >= 1 /\ p.delai <= 1440
  <2>1. ~(p.delai < 1) /\ ~(p.delai > DELAI_MAX_MINUTES)
    BY Zenon DEF RefusDeProposition
  <2> QED
    BY SMT, <1>1, <2>1 DEF DELAI_MAX_MINUTES
<1>5. p.taux = TAUX_NORMAL \/ p.preuve = "present"
  <2>1. /\ p.preuve # "trop long"
        /\ ~(p.taux # TAUX_NORMAL /\ p.preuve = "absent")
    BY Zenon DEF RefusDeProposition
  <2>2. p.preuve \in Textes
    BY DEF Propositions
  <2> QED
    BY Zenon, <2>1, <2>2 DEF Textes
<1>6. tva \in Nat
  <2>1. p.taux \in Taux
    BY SMT, <1>2 DEF TAUX_ADMIS, Taux
  <2>2. Tronque(tva, p.htva * p.taux)
    BY <1>3, <2>1, AppliquerTronque
  <2> QED
    BY <2>2 DEF Tronque
<1> DEFINE d == DevisEmis(p)
<1>7. d = [statut |-> "SENT", htva |-> p.htva, taux |-> p.taux, tva |-> tva,
           total |-> p.htva + tva, delai |-> p.delai,
           preuve |-> p.preuve, echue |-> FALSE]
  BY DEF DevisEmis
<1> HIDE DEF d, tva
<1>8. d \in Devis /\ d.statut = "SENT"
  BY SMT, <1>1, <1>3, <1>6, <1>7 DEF Devis, StatutsOffre, Propositions
<1>11. /\ d.htva = p.htva /\ d.taux = p.taux /\ d.tva = tva
       /\ d.total = p.htva + tva /\ d.delai = p.delai
  BY <1>7
<1>12. d.preuve = p.preuve
  BY <1>7
<1>9. Calcule(d)
  BY <1>2, <1>3, <1>11 DEF Calcule, tva
<1>10. AdmisParDevis(d)
  <2>1. ~(p.htva > MONTANT_MAX_CENTS)
    BY Zenon DEF RefusDeProposition
  <2>2. p.htva <= 1000000
    BY SMT, <1>1, <2>1 DEF MONTANT_MAX_CENTS
  <2>3. tva >= 0
    BY SMT, <1>6
  <2>4. p.taux \in {2100, 1200, 600}
    BY SMT, <1>2 DEF TAUX_ADMIS
  <2>5. p.taux = 2100 \/ p.preuve = "present"
    BY Zenon, <1>5 DEF TAUX_NORMAL
  <2>6. d.taux = 2100 \/ d.preuve # "absent"
    BY SMT, <1>11, <1>12, <2>5
  <2> QED
    BY SMT, <1>3, <1>4, <1>11, <2>2, <2>3, <2>4, <2>6 DEF AdmisParDevis
<1> QED
  BY <1>8, <1>9, <1>10 DEF d

\* The VAT of a devis is the one due, short of a fraction of a cent.
LEMMA CalculTronque ==
  ASSUME NEW d, Calcule(d)
  PROVE  Tronque(d.tva, d.htva * d.taux)
<1>1. d.taux \in Taux
  BY SMT DEF Calcule, TAUX_ADMIS, Taux
<1> QED
  BY <1>1, AppliquerTronque DEF Calcule

\* What repartir computes of an accepted devis passes every CHECK of the table
\* liberation, and leaves the provider more than three quarters of his price.
LEMMA PartageAdmis ==
  ASSUME NEW d \in Devis, Calcule(d)
  PROVE  /\ Repartir(d) \in Partages
         /\ AdmisParLiberation(Repartir(d))
         /\ 4 * (Repartir(d).reversement - d.tva) > 3 * d.htva
<1> DEFINE c == Appliquer(TAUX_COMMISSION_BP, d.htva)
           t == Appliquer(TAUX_NORMAL, c)
<1>1. d.htva \in Nat /\ d.htva > 0
  BY DEF Calcule
<1>2. d.tva \in Nat /\ d.total = d.htva + d.tva
  BY CalculTronque DEF Calcule, Tronque
<1>3. c \in Nat /\ t \in Nat /\ 4 * (d.htva - (c + t)) > 3 * d.htva
  BY <1>1, CommissionBornee
<1>4. Repartir(d) = [statut |-> IF d.total > SEUIL_QUATRE_YEUX_CENTS
                                  THEN "PENDING_OPS" ELSE "AUTHORISED",
                     total |-> d.total, commissionHtva |-> c,
                     tvaCommission |-> t, commissionTtc |-> c + t,
                     reversement |-> d.total - (c + t)]
  BY DEF Repartir
<1> HIDE DEF c, t
<1>5. d.total \in Int /\ d.total > 0 /\ d.total - (c + t) >= 0
  BY SMT, <1>1, <1>2, <1>3
<1>6. d.total - (c + t) - d.tva = d.htva - (c + t)
  BY SMT, <1>1, <1>2, <1>3
<1>7. Repartir(d) \in Partages
  BY SMT, <1>3, <1>4, <1>5 DEF Partages
<1>8. AdmisParLiberation(Repartir(d))
  BY SMT, <1>3, <1>4, <1>5 DEF AdmisParLiberation
<1>9. 4 * (Repartir(d).reversement - d.tva) > 3 * d.htva
  BY <1>3, <1>4, <1>6
<1> QED
  BY <1>7, <1>8, <1>9

-----------------------------------------------------------------------------
\* ComptesJustes says what the amounts satisfy, not where they come from: the
\* steps keep that they are the ones the domain computes.
TarifInv ==
  /\ offre = OffreAbsente \/ (offre \in Devis /\ Calcule(offre))
  /\ partage = PartageAbsent
     \/ (offre.statut = "ACCEPTED" /\ partage = Repartir(offre))
  /\ reponse \in CodesTarif \ {"CHECK_VIOLATION"}

LEMMA TarifInvInit == TarifInit => TarifInv
  BY DEF TarifInit, TarifInv, CodesTarif

\* What the calls answer.
LEMMA CodesRendus ==
  /\ \A p : RefusDeProposition(p) \in CodesTarif \ {"CHECK_VIOLATION"}
  /\ RefusDeReponse \in CodesTarif \ {"CHECK_VIOLATION"}
  /\ {"aucun", "QUOTE_NOT_ACCEPTED"} \subseteq CodesTarif \ {"CHECK_VIOLATION"}
  BY DEF RefusDeProposition, RefusDeReponse, CodesTarif

LEMMA TarifInvStep == TarifInv /\ [TarifNext]_tarif => TarifInv'
<1> SUFFICES ASSUME TarifInv, [TarifNext]_tarif PROVE TarifInv'
  OBVIOUS
<1> USE DEF TarifInv
<1>1. ASSUME NEW p \in Propositions, EmettreOffre(p) PROVE TarifInv'
  <2>1. partage = PartageAbsent /\ partage' = partage
    BY <1>1 DEF EmettreOffre
  <2>2. CASE RefusDeProposition(p) # "aucun"
    <3>1. RefusDeProposition(p) \in CodesTarif \ {"CHECK_VIOLATION"}
      BY CodesRendus
    <3> QED
      BY <1>1, <2>1, <2>2, <3>1 DEF EmettreOffre
  <2>3. CASE RefusDeProposition(p) = "aucun"
    BY <1>1, <2>1, <2>3, DevisAdmis, CodesRendus DEF EmettreOffre
  <2> QED
    BY <2>2, <2>3
<1>2. ASSUME EchoirOffre PROVE TarifInv'
  <2>1. offre \in Devis /\ Calcule(offre) /\ partage = PartageAbsent
    BY <1>2 DEF EchoirOffre, OffreAbsente
  <2>2. offre' = [offre EXCEPT !.echue = TRUE]
    BY <1>2 DEF EchoirOffre
  <2>3. offre' \in Devis
    BY Zenon, <2>1, <2>2 DEF Devis
  <2>4. /\ offre'.htva = offre.htva /\ offre'.taux = offre.taux
        /\ offre'.tva = offre.tva /\ offre'.total = offre.total
    BY <2>1, <2>2 DEF Devis
  <2>5. Calcule(offre')
    BY <2>1, <2>4 DEF Calcule
  <2> QED
    BY <1>2, <2>1, <2>3, <2>5 DEF EchoirOffre
<1>3. ASSUME NEW statut \in {"ACCEPTED", "REFUSED"}, RepondreOffre(statut)
      PROVE  TarifInv'
  <2>1. offre \in Devis /\ Calcule(offre)
    BY <1>3 DEF RepondreOffre, OffreAbsente
  <2>2. reponse' \in CodesTarif \ {"CHECK_VIOLATION"}
    BY <1>3, CodesRendus DEF RepondreOffre
  <2>3. CASE RefusDeReponse # "aucun"
    BY <1>3, <2>1, <2>2, <2>3 DEF RepondreOffre
  <2>4. CASE RefusDeReponse = "aucun"
    <3>1. offre.statut = "SENT" /\ partage = PartageAbsent
      BY <2>4 DEF RefusDeReponse
    <3>2. offre' \in Devis /\ Calcule(offre')
      BY SMT, <1>3, <2>1, <2>4 DEF RepondreOffre, Devis, Calcule, StatutsOffre
    <3> QED
      BY <1>3, <2>2, <3>1, <3>2 DEF RepondreOffre
  <2> QED
    BY <2>3, <2>4
<1>4. ASSUME ExpirerOffre PROVE TarifInv'
  <2>1. offre \in Devis /\ Calcule(offre) /\ partage = PartageAbsent
    BY <1>4 DEF ExpirerOffre, OffreAbsente
  <2>2. offre' \in Devis /\ Calcule(offre')
    BY SMT, <1>4, <2>1 DEF ExpirerOffre, Devis, Calcule, StatutsOffre
  <2> QED
    BY <1>4, <2>1, <2>2 DEF ExpirerOffre
<1>5. ASSUME PrononcerLiberation PROVE TarifInv'
  <2>1. offre \in Devis /\ Calcule(offre) /\ offre' = offre
    BY <1>5 DEF PrononcerLiberation, OffreAbsente
  <2>2. CASE offre.statut # "ACCEPTED"
    BY <1>5, <2>1, <2>2, CodesRendus DEF PrononcerLiberation
  <2>3. CASE offre.statut = "ACCEPTED"
    BY SMT, <1>5, <2>1, <2>3, PartageAdmis, CodesRendus DEF PrononcerLiberation
  <2> QED
    BY <2>2, <2>3
<1>6. CASE UNCHANGED tarif
  BY <1>6 DEF tarif
<1> QED
  BY <1>1, <1>2, <1>3, <1>4, <1>5, <1>6 DEF TarifNext

LEMMA TarifInvType == TarifInv => TarifOK
<1> SUFFICES ASSUME TarifInv PROVE TarifOK
  OBVIOUS
<1>1. partage = PartageAbsent \/ partage \in Partages
  <2>1. CASE offre = OffreAbsente
    BY <2>1 DEF TarifInv, OffreAbsente
  <2>2. CASE offre \in Devis /\ Calcule(offre)
    BY <2>2, PartageAdmis DEF TarifInv
  <2> QED
    BY <2>1, <2>2 DEF TarifInv
<1> QED
  BY <1>1 DEF TarifInv, TarifOK, Devis, Partages

LEMMA TarifInvSuffit == TarifInv => ComptesJustes
<1> SUFFICES ASSUME TarifInv PROVE ComptesJustes
  OBVIOUS
<1>1. offre.statut # "ABSENT" =>
        /\ offre.tva * 10000 <= offre.htva * offre.taux
        /\ offre.htva * offre.taux - offre.tva * 10000 < 10000
  <2> SUFFICES ASSUME offre \in Devis, Calcule(offre)
      PROVE /\ offre.tva * 10000 <= offre.htva * offre.taux
            /\ offre.htva * offre.taux - offre.tva * 10000 < 10000
    BY DEF TarifInv, OffreAbsente
  <2>1. Tronque(offre.tva, offre.htva * offre.taux)
    BY CalculTronque
  <2>2. offre.htva * offre.taux \in Int
    BY SMT DEF Devis
  <2> QED
    BY SMT, <2>1, <2>2 DEF Tronque
<1>2. ASSUME partage.statut # "ABSENT"
      PROVE  /\ offre.statut = "ACCEPTED"
             /\ partage.total = offre.total
             /\ partage.commissionTtc + partage.reversement = offre.total
             /\ 4 * (partage.reversement - offre.tva) > 3 * offre.htva
             /\ partage.statut = "PENDING_OPS" <=> offre.total > 50000
  <2>1. /\ offre \in Devis /\ Calcule(offre)
        /\ offre.statut = "ACCEPTED" /\ partage = Repartir(offre)
    BY <1>2 DEF TarifInv, OffreAbsente, PartageAbsent
  <2>2. /\ partage.total = offre.total
        /\ partage.statut = "PENDING_OPS" <=> offre.total > 50000
    BY SMT, <2>1 DEF Repartir, SEUIL_QUATRE_YEUX_CENTS
  <2>3. /\ partage.commissionTtc + partage.reversement = partage.total
        /\ 4 * (partage.reversement - offre.tva) > 3 * offre.htva
    BY SMT, <2>1, PartageAdmis DEF AdmisParLiberation
  <2> QED
    BY SMT, <2>1, <2>2, <2>3
<1> QED
  BY SMT, <1>1, <1>2 DEF TarifInv, ComptesJustes

\* For every amount, rate and delay: no row the domain computes is refused by
\* its table, no cent of VAT is charged that is not due, and a release shares
\* exactly what was accepted (Devis::emettre, repartir, V19, V22).
THEOREM ComptesToujoursJustes == TarifSpec => []ComptesJustes
<1>1. TarifSpec => []TarifInv
  BY TarifInvInit, TarifInvStep, PTL DEF TarifSpec
<1> QED
  BY <1>1, TarifInvSuffit, PTL
=============================================================================
