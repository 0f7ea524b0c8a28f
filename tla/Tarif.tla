------------------------------- MODULE Tarif -------------------------------
(***************************************************************************)
(* The cents of a Mission: what a devis asks for, and how a release shares *)
(* it (klaar-payment/devis.rs and liberation.rs), beside the CHECKs of the *)
(* tables that store them (V19, V22).  The domain and the tables state the *)
(* same rules twice, in two languages, and the domain divides: a row that  *)
(* the domain computes and the table refuses would be an error at the end  *)
(* of a Mission, after the work was done.                                  *)
(*                                                                         *)
(* Amounts are cents, in an i64; products go through an i128, and within   *)
(* MONTANT_MAX_CENTS none comes near their limits.                         *)
(***************************************************************************)
EXTENDS Integers

CONSTANTS
  MontantsProposes,   \* amounts a provider may type, before VAT
  TauxProposes,       \* rates he may ask for, in basis points
  DelaisProposes      \* delays he may announce, in minutes

ASSUME TarifAssumption ==
  /\ MontantsProposes \subseteq Int
  /\ TauxProposes \subseteq Nat
  /\ DelaisProposes \subseteq Int

VARIABLES
  offre,      \* the last devis of the Mission
  partage,    \* its row of the table liberation
  reponse     \* what the last call was answered

tarif == <<offre, partage, reponse>>

-----------------------------------------------------------------------------
MONTANT_MAX_CENTS == 1000000
DELAI_MAX_MINUTES == 1440
TAUX_COMMISSION_BP == 1800
TAUX_NORMAL == 2100
TAUX_ADMIS == {2100, 1200, 600}
SEUIL_QUATRE_YEUX_CENTS == 50000

Textes == {"absent", "present", "trop long"}

Propositions ==
  [htva : MontantsProposes, taux : TauxProposes, delai : DelaisProposes,
   preuve : Textes, note : Textes]

\* Mutant: the VAT rounded to the nearest cent.
AppliquerArrondi(taux, montant) == (montant * taux + 5000) \div 10000

\* VatRate::apply.  The amounts it is given are never negative.
Appliquer(taux, montant) == (montant * taux) \div 10000

\* The order of the checks is the order of the code.
RefusDeProposition(p) ==
  IF p.htva = 0 THEN "AMOUNT_ZERO"
  ELSE IF p.htva < 0 THEN "AMOUNT_NEGATIVE"
  ELSE IF p.htva > MONTANT_MAX_CENTS THEN "AMOUNT_TOO_HIGH"
  ELSE IF p.taux \notin TAUX_ADMIS THEN "VAT_RATE_UNKNOWN"
  ELSE IF p.preuve = "trop long" THEN "VAT_PROOF_TOO_LONG"
  ELSE IF p.taux # TAUX_NORMAL /\ p.preuve = "absent" THEN "VAT_PROOF_REQUIRED"
  ELSE IF p.delai < 1 THEN "DELAY_INVALID"
  ELSE IF p.delai > DELAI_MAX_MINUTES THEN "DELAY_TOO_LONG"
  ELSE IF p.note = "trop long" THEN "NOTE_TOO_LONG"
  ELSE "aucun"

CodesTarif ==
  {"aucun", "AMOUNT_ZERO", "AMOUNT_NEGATIVE", "AMOUNT_TOO_HIGH",
   "VAT_RATE_UNKNOWN", "VAT_PROOF_TOO_LONG", "VAT_PROOF_REQUIRED",
   "DELAY_INVALID", "DELAY_TOO_LONG", "NOTE_TOO_LONG", "QUOTE_EXPIRED",
   "QUOTE_ALREADY_ANSWERED", "QUOTE_NOT_ACCEPTED", "CHECK_VIOLATION"}

StatutsOffre == {"SENT", "ACCEPTED", "REFUSED", "EXPIRED"}

\* What Devis::emettre computes and keeps.
DevisEmis(p) ==
  LET tva == Appliquer(p.taux, p.htva)
  IN  [statut |-> "SENT", htva |-> p.htva, taux |-> p.taux, tva |-> tva,
       total |-> p.htva + tva, delai |-> p.delai,
       preuve |-> p.preuve, echue |-> FALSE]

\* The CHECKs of the table devis.
AdmisParDevis(d) ==
  /\ d.htva > 0 /\ d.htva <= 1000000
  /\ d.taux \in {2100, 1200, 600}
  /\ d.tva >= 0
  /\ d.total = d.htva + d.tva
  /\ d.delai >= 1 /\ d.delai <= 1440
  /\ d.taux = 2100 \/ d.preuve # "absent"

\* repartir: the commission is taken on the amount before VAT, and bears VAT
\* at the normal rate whatever the rate of the devis.
Repartir(d) ==
  LET commission == Appliquer(TAUX_COMMISSION_BP, d.htva)
      tvaCommission == Appliquer(TAUX_NORMAL, commission)
  IN  [statut |-> IF d.total > SEUIL_QUATRE_YEUX_CENTS
                    THEN "PENDING_OPS" ELSE "AUTHORISED",
       total |-> d.total,
       commissionHtva |-> commission,
       tvaCommission |-> tvaCommission,
       commissionTtc |-> commission + tvaCommission,
       reversement |-> d.total - (commission + tvaCommission)]

\* The CHECKs of the table liberation.
AdmisParLiberation(l) ==
  /\ l.total > 0
  /\ l.commissionHtva >= 0
  /\ l.tvaCommission >= 0
  /\ l.reversement >= 0
  /\ l.commissionTtc + l.reversement = l.total
  /\ l.commissionHtva + l.tvaCommission = l.commissionTtc
  /\ l.statut \in {"AUTHORISED", "PENDING_OPS"}

OffreAbsente ==
  [statut |-> "ABSENT", htva |-> 0, taux |-> 0, tva |-> 0, total |-> 0,
   delai |-> 0, preuve |-> "absent", echue |-> FALSE]

PartageAbsent ==
  [statut |-> "ABSENT", total |-> 0, commissionHtva |-> 0, tvaCommission |-> 0,
   commissionTtc |-> 0, reversement |-> 0]

TarifInit ==
  /\ offre = OffreAbsente
  /\ partage = PartageAbsent
  /\ reponse = "aucun"

-----------------------------------------------------------------------------
\* A devis that waits for no answer may be followed by another, an accepted one
\* too; not once the Mission is released.  The ceiling is Intervention's matter.
EmettreOffre(p) ==
  /\ offre.statut # "SENT"
  /\ partage = PartageAbsent
  /\ IF RefusDeProposition(p) # "aucun"
       THEN reponse' = RefusDeProposition(p) /\ UNCHANGED offre
       ELSE IF AdmisParDevis(DevisEmis(p))
              THEN offre' = DevisEmis(p) /\ reponse' = "aucun"
              ELSE reponse' = "CHECK_VIOLATION" /\ UNCHANGED offre
  /\ UNCHANGED partage

EchoirOffre ==
  /\ offre.statut = "SENT"
  /\ ~offre.echue
  /\ offre' = [offre EXCEPT !.echue = TRUE]
  /\ UNCHANGED <<partage, reponse>>

\* est_expire only speaks of a devis that still waits.
RefusDeReponse ==
  IF offre.statut = "SENT"
    THEN IF offre.echue THEN "QUOTE_EXPIRED" ELSE "aucun"
    ELSE "QUOTE_ALREADY_ANSWERED"

RepondreOffre(statut) ==
  /\ offre.statut # "ABSENT"
  /\ reponse' = RefusDeReponse
  /\ offre' = IF RefusDeReponse = "aucun"
                THEN [offre EXCEPT !.statut = statut] ELSE offre
  /\ UNCHANGED partage

ExpirerOffre ==
  /\ offre.statut = "SENT"
  /\ offre.echue
  /\ offre' = [offre EXCEPT !.statut = "EXPIRED"]
  /\ UNCHANGED <<partage, reponse>>

\* Liberation::prononcer, then the INSERT; UNIQUE (mission_id) keeps one row.
PrononcerLiberation ==
  /\ offre.statut # "ABSENT"
  /\ partage = PartageAbsent
  /\ IF offre.statut # "ACCEPTED"
       THEN reponse' = "QUOTE_NOT_ACCEPTED" /\ UNCHANGED partage
       ELSE IF AdmisParLiberation(Repartir(offre))
              THEN partage' = Repartir(offre) /\ reponse' = "aucun"
              ELSE reponse' = "CHECK_VIOLATION" /\ UNCHANGED partage
  /\ UNCHANGED offre

TarifNext ==
  \/ \E p \in Propositions : EmettreOffre(p)
  \/ EchoirOffre
  \/ \E statut \in {"ACCEPTED", "REFUSED"} : RepondreOffre(statut)
  \/ ExpirerOffre
  \/ PrononcerLiberation

TarifSpec == TarifInit /\ [][TarifNext]_tarif

-----------------------------------------------------------------------------
TarifOK ==
  /\ offre = OffreAbsente
     \/ offre \in [statut : StatutsOffre, htva : Int, taux : Nat, tva : Int,
                   total : Int, delai : Int, preuve : Textes, echue : BOOLEAN]
  /\ partage = PartageAbsent
     \/ partage \in [statut : {"AUTHORISED", "PENDING_OPS"}, total : Int,
                     commissionHtva : Int, tvaCommission : Int,
                     commissionTtc : Int, reversement : Int]
  /\ reponse \in CodesTarif

\* Whatever amount, rate and delay are typed, no row the domain has computed
\* is refused by its table; the requester is never charged a cent of VAT that
\* is not due; and a release shares exactly what was accepted, of which the
\* provider keeps more than three quarters of his price and all of its VAT.
ComptesJustes ==
  /\ reponse # "CHECK_VIOLATION"
  /\ offre.statut # "ABSENT" =>
       /\ offre.tva * 10000 <= offre.htva * offre.taux
       /\ offre.htva * offre.taux - offre.tva * 10000 < 10000
  /\ partage.statut # "ABSENT" =>
       /\ offre.statut = "ACCEPTED"
       /\ partage.total = offre.total
       /\ partage.commissionTtc + partage.reversement = offre.total
       /\ 4 * (partage.reversement - offre.tva) > 3 * offre.htva
       /\ partage.statut = "PENDING_OPS" <=> offre.total > 50000
=============================================================================
