------------------------------ MODULE Sequestre ------------------------------
(***************************************************************************)
(* The escrow of a Mission and the cards of a requester, as the domain has *)
(* them: no use case of the service calls them yet, so a caller is free to *)
(* ask for anything in any order (klaar-payment/sequestre.rs, methode.rs). *)
(***************************************************************************)
EXTENDS Integers, Sequences, FiniteSets

CONSTANTS
  Montants,            \* amounts asked for, in cents
  AUTORISATION_JOURS,
  CARTES_MAX

ASSUME SequestreAssumption ==
  /\ Montants \subseteq Int
  /\ AUTORISATION_JOURS \in Nat
  /\ CARTES_MAX \in Nat

VARIABLES
  sequestre,   \* the escrow
  age,         \* days since its authorisation
  verse,       \* history: what verser gave to be paid
  cartes       \* the cards, the oldest first

paiement == <<sequestre, age, verse, cartes>>

-----------------------------------------------------------------------------
StatutsSequestre ==
  {"AUTHORIZED", "CAPTURED", "REFUNDED", "PARTIALLY_REFUNDED", "PAID_OUT",
   "FAILED"}

CodesSequestre ==
  {"AMOUNT_INVALID", "CAPTURE_EXCEEDS_AUTHORIZATION", "REFUND_EXCEEDS_ESCROW",
   "PAYOUT_EXECUTED", "AUTHORIZATION_EXPIRED", "ESCROW_TRANSITION_INVALID"}

\* refus is the code of the last call, "aucun" where it was granted.
Sequestres ==
  [statut : StatutsSequestre \cup {"ABSENT"}, autorise : Nat, capture : Nat,
   rembourse : Nat, refus : CodesSequestre \cup {"aucun"}]

Cartes == [defaut : BOOLEAN, expiree : BOOLEAN]

PaiementInit ==
  /\ sequestre = [statut |-> "ABSENT", autorise |-> 0, capture |-> 0,
                  rembourse |-> 0, refus |-> "aucun"]
  /\ age = 0
  /\ verse = 0
  /\ cartes = <<>>

Solde == sequestre.capture - sequestre.rembourse

AutorisationValide == age < AUTORISATION_JOURS

Detenu == sequestre.statut \in {"CAPTURED", "PARTIALLY_REFUNDED"}

PasserJourSequestre ==
  /\ age < AUTORISATION_JOURS
  /\ age' = age + 1
  /\ UNCHANGED <<sequestre, verse, cartes>>

Accorder(suivant) == sequestre' = [suivant EXCEPT !.refus = "aucun"]

Refuser(code) == sequestre' = [sequestre EXCEPT !.refus = code]

-----------------------------------------------------------------------------
Autoriser(montant) ==
  /\ sequestre.statut = "ABSENT"
  /\ IF montant <= 0
       THEN Refuser("AMOUNT_INVALID")
       ELSE Accorder([sequestre EXCEPT !.statut = "AUTHORIZED",
                                       !.autorise = montant])
  /\ age' = 0
  /\ UNCHANGED <<verse, cartes>>

RefusDeCapture(montant) ==
  CASE sequestre.statut # "AUTHORIZED" -> "ESCROW_TRANSITION_INVALID"
    [] sequestre.statut = "AUTHORIZED" /\ montant <= 0 -> "AMOUNT_INVALID"
    [] sequestre.statut = "AUTHORIZED" /\ montant > sequestre.autorise
         -> "CAPTURE_EXCEEDS_AUTHORIZATION"
    [] sequestre.statut = "AUTHORIZED" /\ montant \in 1..sequestre.autorise
       /\ ~AutorisationValide -> "AUTHORIZATION_EXPIRED"
    [] OTHER -> "aucun"

Capturer(montant) ==
  /\ sequestre.statut # "ABSENT"
  /\ IF RefusDeCapture(montant) # "aucun"
       THEN Refuser(RefusDeCapture(montant))
       ELSE Accorder([sequestre EXCEPT !.statut = "CAPTURED",
                                       !.capture = montant])
  /\ UNCHANGED <<age, verse, cartes>>

\* The payout comes first: it tells who is to give the money back.
RefusDeRemboursement(montant) ==
  CASE sequestre.statut = "PAID_OUT" -> "PAYOUT_EXECUTED"
    [] sequestre.statut # "PAID_OUT" /\ ~Detenu -> "ESCROW_TRANSITION_INVALID"
    [] Detenu /\ montant <= 0 -> "AMOUNT_INVALID"
    [] Detenu /\ montant > 0 /\ montant > Solde -> "REFUND_EXCEEDS_ESCROW"
    [] OTHER -> "aucun"

Rembourser(montant) ==
  /\ sequestre.statut # "ABSENT"
  /\ IF RefusDeRemboursement(montant) # "aucun"
       THEN Refuser(RefusDeRemboursement(montant))
       ELSE Accorder([sequestre EXCEPT
              !.rembourse = @ + montant,
              !.statut = IF Solde = montant THEN "REFUNDED"
                                            ELSE "PARTIALLY_REFUNDED"])
  /\ UNCHANGED <<age, verse, cartes>>

\* AMOUNT_INVALID is not among its answers: what is held is never 0.
Verser ==
  /\ sequestre.statut # "ABSENT"
  /\ \/ /\ ~Detenu
        /\ Refuser("ESCROW_TRANSITION_INVALID")
        /\ UNCHANGED verse
     \/ /\ Detenu
        /\ Accorder([sequestre EXCEPT !.statut = "PAID_OUT"])
        /\ verse' = verse + Solde
  /\ UNCHANGED <<age, cartes>>

Echouer ==
  /\ sequestre.statut # "ABSENT"
  /\ IF sequestre.statut = "AUTHORIZED"
       THEN Accorder([sequestre EXCEPT !.statut = "FAILED"])
       ELSE Refuser("ESCROW_TRANSITION_INVALID")
  /\ UNCHANGED <<age, verse, cartes>>

-----------------------------------------------------------------------------
\* The first card is the default one.
EnregistrerCarte ==
  /\ Len(cartes) < CARTES_MAX
  /\ cartes' = Append(cartes, [defaut |-> cartes = <<>>, expiree |-> FALSE])
  /\ UNCHANGED <<sequestre, age, verse>>

Sans(i) == SubSeq(cartes, 1, i - 1) \o SubSeq(cartes, i + 1, Len(cartes))

\* Where the default card goes, the latest one takes its place.
SupprimerCarte ==
  /\ \E i \in 1..Len(cartes) :
       cartes' = IF cartes[i].defaut /\ Len(cartes) > 1
                   THEN [Sans(i) EXCEPT ![Len(cartes) - 1].defaut = TRUE]
                   ELSE Sans(i)
  /\ UNCHANGED <<sequestre, age, verse>>

ExpirerCarte ==
  /\ \E i \in 1..Len(cartes) :
       /\ ~cartes[i].expiree
       /\ cartes' = [cartes EXCEPT ![i].expiree = TRUE]
  /\ UNCHANGED <<sequestre, age, verse>>

PaiementNext ==
  \/ PasserJourSequestre
  \/ \E montant \in Montants :
       Autoriser(montant) \/ Capturer(montant) \/ Rembourser(montant)
  \/ Verser
  \/ Echouer
  \/ EnregistrerCarte
  \/ SupprimerCarte
  \/ ExpirerCarte

-----------------------------------------------------------------------------
\* Whatever is asked for, in whatever order, no cent is given twice.
FondsConserves ==
  /\ verse + sequestre.rembourse <= sequestre.capture
  /\ sequestre.capture <= sequestre.autorise
  /\ Detenu => Solde > 0
  /\ sequestre.statut = "PAID_OUT" <=> verse > 0
  /\ sequestre.statut = "PAID_OUT" => verse = Solde
  /\ sequestre.statut = "REFUNDED" <=> (sequestre.capture > 0 /\ Solde = 0)

PaiementOK ==
  /\ sequestre \in Sequestres
  /\ age \in 0..AUTORISATION_JOURS
  /\ verse \in Nat
  /\ cartes \in Seq(Cartes)
  /\ Len(cartes) <= CARTES_MAX
  /\ cartes # <<>> =>
       Cardinality({i \in 1..Len(cartes) : cartes[i].defaut}) = 1
  /\ FondsConserves
=============================================================================
