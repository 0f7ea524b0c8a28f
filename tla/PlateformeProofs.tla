-------------------------- MODULE PlateformeProofs --------------------------
(***************************************************************************)
(* The theorems about what surrounds the Missions, for any number of       *)
(* accounts, requests, events and changes.  OpsProofs, ServicesProofs and  *)
(* TarifProofs have the inductive invariant of each part; here is that of  *)
(* the escrow, and what holds of a part while another one runs.            *)
(***************************************************************************)
EXTENDS Plateforme, OpsProofs, ServicesProofs, TarifProofs, WellFoundedInduction

-----------------------------------------------------------------------------
\* The answers of each part, and that only a follower has an open socket.
RepondDans(e, codes) ==
  e.op # "ouverte" /\ (e.op = "repondu" => e.code \in codes)

LEMMA ReponsesDeConsole ==
  ASSUME NEW e \in EtatsDeConsole
  PROVE  RepondDans(e, CodesOps \cup Lectures)
BY DEF EtatsDeConsole, EtatsConsole, EtatsGeste, SuitesConsole, Repos, RepondDans, CodesOps

LEMMA ReponsesDeKyc ==
  ASSUME NEW e \in EtatsDeKyc
  PROVE  RepondDans(e, CodesRevue \cup CodesFiche \cup {"REVIEW_RECORDED", "FORBIDDEN"})
BY DEF EtatsDeKyc, EtatsKyc, EtatsGeste, SuitesKyc, Repos, RepondDans

LEMMA ReponsesDuCatalogue ==
  ASSUME NEW e \in EtatsDuCatalogue
  PROVE  RepondDans(e, CodesCatalogue \cup Faits \cup {"FORBIDDEN"})
BY DEF EtatsDuCatalogue, EtatsCatalogue, EtatsGeste, SuitesCatalogue, Actes, Repos, RepondDans

LEMMA ReponsesAuxDemandes ==
  ASSUME NEW e \in EtatsSoumission
  PROVE  RepondDans(e, {})
BY DEF EtatsSoumission, Repos, RepondDans

LEMMA ReponsesAStripe ==
  ASSUME NEW e \in EtatsWebhook
  PROVE  RepondDans(e, CodesWebhook)
BY DEF EtatsWebhook, Accuses, Repos, RepondDans

LEMMA ReponsesDuDirect ==
  ASSUME NEW e \in EtatsDirect
  PROVE  e.op = "repondu" => e.code \in CodesDirect
BY DEF EtatsDirect, Repos

-----------------------------------------------------------------------------
\* The escrow.  What was captured is what the status says: nothing before the
\* capture, nor after a failure.
SequestreTenu ==
  /\ sequestre \in Sequestres
  /\ verse \in Nat
  /\ sequestre.statut \in {"ABSENT", "AUTHORIZED", "FAILED"} =>
       sequestre.capture = 0 /\ sequestre.rembourse = 0
  /\ FondsConserves

\* One card is the default one.
UneParDefaut(c) ==
  c # <<>> =>
    \E i \in 1..Len(c) : \A j \in 1..Len(c) : c[j].defaut <=> j = i

CartesTenues ==
  /\ cartes \in Seq(Cartes)
  /\ Len(cartes) <= CARTES_MAX
  /\ UneParDefaut(cartes)

PaiementInv ==
  /\ SequestreTenu
  /\ age \in 0..AUTORISATION_JOURS
  /\ CartesTenues

LEMMA PaiementInvSuffit == PaiementInv => PaiementOK
<1> SUFFICES ASSUME PaiementInv PROVE PaiementOK
  OBVIOUS
<1>1. ASSUME cartes # <<>>
      PROVE  Cardinality({i \in 1..Len(cartes) : cartes[i].defaut}) = 1
  <2>1. PICK i \in 1..Len(cartes) :
          \A j \in 1..Len(cartes) : cartes[j].defaut <=> j = i
    BY <1>1 DEF PaiementInv, CartesTenues, UneParDefaut
  <2>2. {j \in 1..Len(cartes) : cartes[j].defaut} = {i}
    BY <2>1
  <2> QED BY <2>2, FS_Singleton
<1> QED BY <1>1 DEF PaiementInv, SequestreTenu, CartesTenues, PaiementOK

\* A call that is refused only leaves its code.
LEMMA SequestreRefuse ==
  ASSUME SequestreTenu, NEW code \in CodesSequestre, Refuser(code), UNCHANGED verse
  PROVE  SequestreTenu'
<1>1. sequestre \in Sequestres
  BY DEF SequestreTenu
<1>2. /\ sequestre' \in Sequestres
      /\ sequestre'.statut = sequestre.statut
      /\ sequestre'.autorise = sequestre.autorise
      /\ sequestre'.capture = sequestre.capture
      /\ sequestre'.rembourse = sequestre.rembourse
  BY <1>1 DEF Refuser, Sequestres
<1> QED BY <1>2 DEF SequestreTenu, FondsConserves, Detenu, Solde

\* A call that is granted moves the escrow to s.
LEMMA SequestreAccorde ==
  ASSUME NEW s, Accorder(s),
         s \in [statut : StatutsSequestre \cup {"ABSENT"}, autorise : Nat,
                capture : Nat, rembourse : Nat, refus : CodesSequestre \cup {"aucun"}]
  PROVE  /\ sequestre' \in Sequestres
         /\ sequestre'.statut = s.statut
         /\ sequestre'.autorise = s.autorise
         /\ sequestre'.capture = s.capture
         /\ sequestre'.rembourse = s.rembourse
BY DEF Accorder, Sequestres

LEMMA AutoriserTenu ==
  ASSUME SequestreTenu, NEW montant \in Montants, Autoriser(montant)
  PROVE  SequestreTenu'
<1>1. sequestre \in Sequestres /\ verse \in Nat /\ montant \in Int
  BY SequestreAssumption DEF SequestreTenu
<1>2. CASE montant <= 0
  <2>1. Refuser("AMOUNT_INVALID") /\ UNCHANGED verse
    BY <1>2 DEF Autoriser
  <2> QED BY <2>1, SequestreRefuse DEF CodesSequestre
<1>3. CASE ~(montant <= 0)
  <2> DEFINE s == [sequestre EXCEPT !.statut = "AUTHORIZED", !.autorise = montant]
  <2>1. Accorder(s) /\ UNCHANGED verse
    BY <1>3 DEF Autoriser
  <2>2. montant \in Nat
    BY <1>1, <1>3
  <2>3. /\ s \in Sequestres
        /\ s.statut = "AUTHORIZED" /\ s.autorise = montant
        /\ s.capture = sequestre.capture /\ s.rembourse = sequestre.rembourse
    BY <1>1, <2>2 DEF Sequestres, StatutsSequestre
  <2> HIDE DEF s
  <2>4. /\ sequestre' \in Sequestres
        /\ sequestre'.statut = "AUTHORIZED" /\ sequestre'.autorise = montant
        /\ sequestre'.capture = sequestre.capture
        /\ sequestre'.rembourse = sequestre.rembourse
    BY <2>1, <2>3, SequestreAccorde DEF Sequestres
  <2>5. sequestre.capture = 0 /\ sequestre.rembourse = 0 /\ verse = 0
    BY <1>1 DEF SequestreTenu, FondsConserves, Autoriser, Sequestres
  <2> QED BY <2>1, <2>2, <2>4, <2>5 DEF SequestreTenu, FondsConserves, Detenu, Solde
<1> QED BY <1>2, <1>3

LEMMA CapturerTenu ==
  ASSUME SequestreTenu, NEW montant \in Montants, Capturer(montant)
  PROVE  SequestreTenu'
<1>1. sequestre \in Sequestres /\ verse \in Nat /\ montant \in Int
  BY SequestreAssumption DEF SequestreTenu
<1>2. CASE RefusDeCapture(montant) # "aucun"
  <2>1. RefusDeCapture(montant) \in CodesSequestre
    BY <1>2 DEF RefusDeCapture, CodesSequestre
  <2> QED BY <1>2, <2>1, SequestreRefuse DEF Capturer
<1>3. CASE RefusDeCapture(montant) = "aucun"
  <2> DEFINE s == [sequestre EXCEPT !.statut = "CAPTURED", !.capture = montant]
  <2>1. Accorder(s) /\ UNCHANGED verse
    BY <1>3 DEF Capturer
  <2>2. sequestre.statut = "AUTHORIZED"
    BY <1>3 DEF RefusDeCapture
  <2>3. sequestre.autorise \in Nat /\ montant > 0 /\ montant <= sequestre.autorise
    BY <1>1, <1>3, <2>2 DEF RefusDeCapture, Sequestres
  <2>4. montant \in Nat
    BY <1>1, <2>3
  <2>5. /\ s \in Sequestres
        /\ s.statut = "CAPTURED" /\ s.autorise = sequestre.autorise
        /\ s.capture = montant /\ s.rembourse = sequestre.rembourse
    BY <1>1, <2>4 DEF Sequestres, StatutsSequestre
  <2> HIDE DEF s
  <2>6. /\ sequestre' \in Sequestres
        /\ sequestre'.statut = "CAPTURED" /\ sequestre'.autorise = sequestre.autorise
        /\ sequestre'.capture = montant
        /\ sequestre'.rembourse = sequestre.rembourse
    BY <2>1, <2>5, SequestreAccorde DEF Sequestres
  <2>7. sequestre.rembourse = 0 /\ verse = 0
    BY <1>1, <2>2 DEF SequestreTenu, FondsConserves
  <2> QED BY <2>1, <2>3, <2>4, <2>6, <2>7 DEF SequestreTenu, FondsConserves, Detenu, Solde
<1> QED BY <1>2, <1>3

LEMMA RembourserTenu ==
  ASSUME SequestreTenu, NEW montant \in Montants, Rembourser(montant)
  PROVE  SequestreTenu'
<1>1. sequestre \in Sequestres /\ verse \in Nat /\ montant \in Int
  BY SequestreAssumption DEF SequestreTenu
<1>2. CASE RefusDeRemboursement(montant) # "aucun"
  <2>1. RefusDeRemboursement(montant) \in CodesSequestre
    BY <1>2 DEF RefusDeRemboursement, CodesSequestre
  <2> QED BY <1>2, <2>1, SequestreRefuse DEF Rembourser
<1>3. CASE RefusDeRemboursement(montant) = "aucun"
  <2> DEFINE statut == IF Solde = montant THEN "REFUNDED" ELSE "PARTIALLY_REFUNDED"
  <2> DEFINE s == [sequestre EXCEPT !.rembourse = sequestre.rembourse + montant,
                                    !.statut = statut]
  <2>1. Accorder(s) /\ UNCHANGED verse
    BY <1>3 DEF Rembourser
  <2>2. /\ sequestre.capture \in Nat /\ sequestre.rembourse \in Nat
        /\ sequestre.autorise \in Nat
    BY <1>1 DEF Sequestres
  <2>3. Detenu /\ sequestre.statut # "PAID_OUT"
    BY <1>3 DEF RefusDeRemboursement, Detenu
  <2>4. montant > 0 /\ montant <= Solde
    BY <1>1, <1>3, <2>2, <2>3 DEF RefusDeRemboursement, Solde
  <2>5. verse = 0 /\ sequestre.capture <= sequestre.autorise
    BY <1>1, <2>3 DEF SequestreTenu, FondsConserves
  <2>6. sequestre.rembourse + montant \in Nat
    BY <1>1, <2>2, <2>4
  <2>7. statut \in StatutsSequestre
    BY DEF StatutsSequestre
  <2>8. /\ Solde = montant => statut = "REFUNDED"
        /\ Solde # montant => statut = "PARTIALLY_REFUNDED"
    OBVIOUS
  <2> HIDE DEF statut
  <2>9. /\ s \in Sequestres
        /\ s.statut = statut /\ s.autorise = sequestre.autorise
        /\ s.capture = sequestre.capture
        /\ s.rembourse = sequestre.rembourse + montant
    BY <1>1, <2>6, <2>7 DEF Sequestres
  <2> HIDE DEF s
  <2>10. /\ sequestre' \in Sequestres
         /\ sequestre'.statut = statut /\ sequestre'.autorise = sequestre.autorise
         /\ sequestre'.capture = sequestre.capture
         /\ sequestre'.rembourse = sequestre.rembourse + montant
    BY <2>1, <2>9, SequestreAccorde DEF Sequestres
  <2>11. FondsConserves'
    <3>1. CASE Solde = montant
      BY <1>1, <2>1, <2>2, <2>4, <2>5, <2>8, <2>10, <3>1 DEF FondsConserves, Detenu, Solde
    <3>2. CASE Solde # montant
      BY <1>1, <2>1, <2>2, <2>4, <2>5, <2>8, <2>10, <3>2 DEF FondsConserves, Detenu, Solde
    <3> QED BY <3>1, <3>2
  <2> QED BY <1>1, <2>1, <2>8, <2>10, <2>11 DEF SequestreTenu
<1> QED BY <1>2, <1>3

LEMMA VerserTenu ==
  ASSUME SequestreTenu, Verser
  PROVE  SequestreTenu'
<1>1. sequestre \in Sequestres /\ verse \in Nat
  BY DEF SequestreTenu
<1>2. CASE ~Detenu /\ Refuser("ESCROW_TRANSITION_INVALID") /\ UNCHANGED verse
  BY <1>2, SequestreRefuse DEF CodesSequestre
<1>3. CASE /\ Detenu
           /\ Accorder([sequestre EXCEPT !.statut = "PAID_OUT"])
           /\ verse' = verse + Solde
  <2> DEFINE s == [sequestre EXCEPT !.statut = "PAID_OUT"]
  <2>1. /\ s \in Sequestres
        /\ s.statut = "PAID_OUT" /\ s.autorise = sequestre.autorise
        /\ s.capture = sequestre.capture /\ s.rembourse = sequestre.rembourse
    BY <1>1 DEF Sequestres, StatutsSequestre
  <2>2. Accorder(s)
    BY <1>3
  <2> HIDE DEF s
  <2>3. /\ sequestre' \in Sequestres
        /\ sequestre'.statut = "PAID_OUT" /\ sequestre'.autorise = sequestre.autorise
        /\ sequestre'.capture = sequestre.capture
        /\ sequestre'.rembourse = sequestre.rembourse
    BY <2>1, <2>2, SequestreAccorde DEF Sequestres
  <2>4. /\ sequestre.capture \in Nat /\ sequestre.rembourse \in Nat
        /\ sequestre.autorise \in Nat
    BY <1>1 DEF Sequestres
  <2>5. verse = 0 /\ Solde > 0 /\ sequestre.capture <= sequestre.autorise
    BY <1>1, <1>3 DEF SequestreTenu, FondsConserves, Detenu
  <2>6. verse' = Solde
    BY <1>3, <2>4, <2>5 DEF Solde
  <2>7. FondsConserves'
    BY <2>3, <2>4, <2>5, <2>6 DEF FondsConserves, Detenu, Solde
  <2>8. verse' \in Nat
    BY <2>4, <2>5, <2>6 DEF Solde
  <2> QED BY <2>3, <2>7, <2>8 DEF SequestreTenu
<1> QED BY <1>2, <1>3 DEF Verser

LEMMA EchouerTenu ==
  ASSUME SequestreTenu, Echouer
  PROVE  SequestreTenu'
<1>1. sequestre \in Sequestres /\ verse \in Nat
  BY DEF SequestreTenu
<1>2. CASE sequestre.statut # "AUTHORIZED"
  BY <1>2, SequestreRefuse DEF Echouer, CodesSequestre
<1>3. CASE sequestre.statut = "AUTHORIZED"
  <2> DEFINE s == [sequestre EXCEPT !.statut = "FAILED"]
  <2>1. /\ s \in Sequestres
        /\ s.statut = "FAILED" /\ s.autorise = sequestre.autorise
        /\ s.capture = sequestre.capture /\ s.rembourse = sequestre.rembourse
    BY <1>1 DEF Sequestres, StatutsSequestre
  <2>2. Accorder(s) /\ UNCHANGED verse
    BY <1>3 DEF Echouer
  <2> HIDE DEF s
  <2>3. /\ sequestre' \in Sequestres
        /\ sequestre'.statut = "FAILED" /\ sequestre'.autorise = sequestre.autorise
        /\ sequestre'.capture = sequestre.capture
        /\ sequestre'.rembourse = sequestre.rembourse
    BY <2>1, <2>2, SequestreAccorde DEF Sequestres
  <2>4. sequestre.capture = 0 /\ sequestre.rembourse = 0 /\ verse = 0
    BY <1>1, <1>3 DEF SequestreTenu, FondsConserves
  <2>5. sequestre.autorise \in Nat
    BY <1>1 DEF Sequestres
  <2> QED BY <2>2, <2>3, <2>4, <2>5 DEF SequestreTenu, FondsConserves, Detenu, Solde
<1> QED BY <1>2, <1>3

\* The cards but the i-th: those before it, then those after it.
LEMMA Jointes ==
  ASSUME NEW c \in Seq(Cartes), NEW n, n = Len(c), NEW i \in 1..n,
         NEW a \in Seq(Cartes), Len(a) = i - 1,
         \A k \in 1..(i - 1) : a[k] = c[k],
         NEW b \in Seq(Cartes), Len(b) = n - i,
         \A k \in 1..(n - i) : b[k] = c[i + k],
         NEW s, s = a \o b
  PROVE  /\ s \in Seq(Cartes)
         /\ Len(s) = n - 1
         /\ \A k \in 1..(n - 1) : s[k] = IF k < i THEN c[k] ELSE c[k + 1]
<1>1. n \in Nat /\ i \in Int /\ 1 <= i /\ i <= n
  BY LenProperties
<1>2. /\ s \in Seq(Cartes) /\ Len(s) = Len(a) + Len(b)
      /\ \A k \in 1..(Len(a) + Len(b)) :
           s[k] = IF k <= Len(a) THEN a[k] ELSE b[k - Len(a)]
  BY ConcatProperties
<1>3. Len(a) + Len(b) = n - 1
  BY <1>1
<1>4. ASSUME NEW k \in 1..(n - 1)
      PROVE  /\ k < i => k \in 1..(i - 1) /\ k <= i - 1
             /\ ~(k < i) => /\ k - (i - 1) \in 1..(n - i) /\ ~(k <= i - 1)
                            /\ i + (k - (i - 1)) = k + 1
  BY <1>1
<1>5. ASSUME NEW k \in 1..(n - 1)
      PROVE  s[k] = IF k < i THEN c[k] ELSE c[k + 1]
  <2>1. s[k] = IF k <= i - 1 THEN a[k] ELSE b[k - (i - 1)]
    BY <1>2, <1>3
  <2>2. CASE k < i
    BY <1>4, <2>1, <2>2
  <2>3. CASE ~(k < i)
    <3>1. b[k - (i - 1)] = c[i + (k - (i - 1))]
      BY <1>4, <2>3
    <3> QED BY <1>4, <2>1, <2>3, <3>1
  <2> QED BY <2>2, <2>3
<1> QED BY <1>2, <1>3, <1>5

LEMMA SansLaCarte ==
  ASSUME NEW c \in Seq(Cartes), NEW i \in 1..Len(c)
  PROVE  LET s == SubSeq(c, 1, i - 1) \o SubSeq(c, i + 1, Len(c))
         IN  /\ s \in Seq(Cartes)
             /\ Len(c) \in Nat /\ Len(s) = Len(c) - 1
             /\ \A k \in 1..Len(s) : s[k] = IF k < i THEN c[k] ELSE c[k + 1]
<1>1. Len(c) \in Nat /\ i \in Int /\ 1 <= i /\ i <= Len(c)
  BY LenProperties
<1>2. \A k \in 1..Len(c) : c[k] \in Cartes
  BY ElementOfSeq
<1> DEFINE a == SubSeq(c, 1, i - 1)
<1> DEFINE b == SubSeq(c, i + 1, Len(c))
<1>3. /\ a \in Seq(Cartes) /\ Len(a) = i - 1
      /\ \A k \in 1..(i - 1) : a[k] = c[k]
  <2>1. /\ a \in Seq(Cartes) /\ Len(a) = (IF 1 <= i - 1 THEN i - 1 - 1 + 1 ELSE 0)
        /\ \A k \in 1..(i - 1 - 1 + 1) : a[k] = c[1 + k - 1]
    <3>1. \A k \in 1..(i - 1) : c[k] \in Cartes
      BY <1>1, <1>2
    <3> QED BY <1>1, <3>1, SubSeqProperties
  <2> HIDE DEF a
  <2> QED BY <1>1, <2>1
<1>4. /\ b \in Seq(Cartes) /\ Len(b) = Len(c) - i
      /\ \A k \in 1..(Len(c) - i) : b[k] = c[i + k]
  <2>1. /\ b \in Seq(Cartes)
        /\ Len(b) = (IF i + 1 <= Len(c) THEN Len(c) - (i + 1) + 1 ELSE 0)
        /\ \A k \in 1..(Len(c) - (i + 1) + 1) : b[k] = c[(i + 1) + k - 1]
    <3>1. \A k \in (i + 1)..Len(c) : c[k] \in Cartes
      BY <1>1, <1>2
    <3> QED BY <1>1, <3>1, SubSeqProperties
  <2> HIDE DEF b
  <2> QED BY <1>1, <2>1
<1> HIDE DEF a, b
<1>5. PICK s : s = a \o b
  OBVIOUS
<1>6. PICK n : n = Len(c)
  OBVIOUS
<1>7. /\ s \in Seq(Cartes)
      /\ Len(s) = n - 1
      /\ \A k \in 1..(n - 1) : s[k] = IF k < i THEN c[k] ELSE c[k + 1]
  BY <1>1, <1>3, <1>4, <1>5, <1>6, Jointes
<1> QED BY <1>1, <1>5, <1>6, <1>7 DEF a, b

LEMMA CarteEnregistree ==
  ASSUME CartesTenues, EnregistrerCarte
  PROVE  CartesTenues'
<1>1. /\ cartes \in Seq(Cartes) /\ Len(cartes) \in Nat /\ UneParDefaut(cartes)
      /\ Len(cartes) < CARTES_MAX /\ CARTES_MAX \in Nat
  BY LenProperties, SequestreAssumption DEF CartesTenues, EnregistrerCarte
<1> DEFINE n == [defaut |-> cartes = <<>>, expiree |-> FALSE]
<1>2. n \in Cartes /\ (n.defaut <=> cartes = <<>>)
  BY DEF Cartes
<1>3. cartes' = Append(cartes, n)
  BY DEF EnregistrerCarte
<1> HIDE DEF n
<1>4. /\ cartes' \in Seq(Cartes) /\ Len(cartes') = Len(cartes) + 1
      /\ cartes'[Len(cartes) + 1] = n
      /\ \A j \in 1..Len(cartes) : cartes'[j] = cartes[j]
  BY <1>1, <1>2, <1>3
<1>5. 1..Len(cartes') = (1..Len(cartes)) \cup {Len(cartes) + 1}
  BY <1>1, <1>4
<1>6. \E i \in 1..Len(cartes') : \A j \in 1..Len(cartes') : cartes'[j].defaut <=> j = i
  <2>1. CASE cartes = <<>>
    <3>1. Len(cartes) = 0
      BY <2>1
    <3>2. 1..Len(cartes') = {1} /\ cartes'[1] = n
      BY <1>4, <3>1
    <3> QED BY <1>2, <2>1, <3>2
  <2>2. CASE cartes # <<>>
    <3>1. PICK i \in 1..Len(cartes) :
            \A j \in 1..Len(cartes) : cartes[j].defaut <=> j = i
      BY <1>1, <2>2 DEF UneParDefaut
    <3>2. i # Len(cartes) + 1 /\ i \in 1..Len(cartes')
      BY <1>1, <1>5
    <3>3. ASSUME NEW j \in 1..Len(cartes')
          PROVE  cartes'[j].defaut <=> j = i
      <4>1. CASE j \in 1..Len(cartes)
        BY <1>4, <3>1, <4>1
      <4>2. CASE j = Len(cartes) + 1
        BY <1>2, <1>4, <2>2, <3>2, <4>2
      <4> QED BY <1>5, <4>1, <4>2
    <3> QED BY <3>2, <3>3
  <2> QED BY <2>1, <2>2
<1>7. Len(cartes') <= CARTES_MAX
  BY <1>1, <1>4
<1> QED BY <1>4, <1>6, <1>7 DEF CartesTenues, UneParDefaut

LEMMA CarteExpiree ==
  ASSUME CartesTenues, ExpirerCarte
  PROVE  CartesTenues'
<1>1. cartes \in Seq(Cartes) /\ Len(cartes) \in Nat
  BY LenProperties DEF CartesTenues
<1>2. PICK i \in 1..Len(cartes) : cartes' = [cartes EXCEPT ![i].expiree = TRUE]
  BY DEF ExpirerCarte
<1> DEFINE n == [cartes[i] EXCEPT !.expiree = TRUE]
<1>3. cartes[i] \in Cartes
  BY <1>1, ElementOfSeq
<1>4. n \in Cartes /\ n.defaut = cartes[i].defaut
  BY <1>3 DEF Cartes
<1>5. cartes' = [cartes EXCEPT ![i] = n]
  BY <1>2
<1> HIDE DEF n
<1>6. /\ cartes' \in Seq(Cartes) /\ Len(cartes') = Len(cartes)
      /\ \A j \in 1..Len(cartes) : cartes'[j] = IF j = i THEN n ELSE cartes[j]
  BY <1>1, <1>4, <1>5, ExceptSeq
<1>7. \A j \in 1..Len(cartes) : cartes'[j].defaut = cartes[j].defaut
  BY <1>4, <1>6
<1>8. PICK d \in 1..Len(cartes) :
        \A j \in 1..Len(cartes) : cartes[j].defaut <=> j = d
  <2>1. cartes # <<>>
    BY <1>1
  <2> QED BY <2>1 DEF CartesTenues, UneParDefaut
<1>9. UneParDefaut(cartes)'
  <2>1. \A j \in 1..Len(cartes) : cartes'[j].defaut <=> j = d
    BY <1>7, <1>8
  <2>2. d \in 1..Len(cartes') /\ \A j \in 1..Len(cartes') : cartes'[j].defaut <=> j = d
    BY <1>6, <2>1
  <2> QED BY <2>2 DEF UneParDefaut
<1> QED BY <1>6, <1>9 DEF CartesTenues

LEMMA CarteSupprimee ==
  ASSUME CartesTenues, SupprimerCarte
  PROVE  CartesTenues'
<1>1. /\ cartes \in Seq(Cartes) /\ Len(cartes) \in Nat /\ UneParDefaut(cartes)
      /\ Len(cartes) <= CARTES_MAX /\ CARTES_MAX \in Nat
  BY LenProperties, SequestreAssumption DEF CartesTenues
<1>2. PICK i \in 1..Len(cartes) :
        cartes' = IF cartes[i].defaut /\ Len(cartes) > 1
                    THEN [Sans(i) EXCEPT ![Len(cartes) - 1].defaut = TRUE]
                    ELSE Sans(i)
  BY DEF SupprimerCarte
<1>s. PICK s : s = Sans(i)
  OBVIOUS
<1>3. /\ s \in Seq(Cartes) /\ Len(s) = Len(cartes) - 1
      /\ \A k \in 1..Len(s) : s[k] = IF k < i THEN cartes[k] ELSE cartes[k + 1]
  BY <1>1, <1>s, SansLaCarte DEF Sans
<1>4. PICK d \in 1..Len(cartes) :
        \A j \in 1..Len(cartes) : cartes[j].defaut <=> j = d
  <2>1. cartes # <<>>
    BY <1>1
  <2> QED BY <1>1, <2>1 DEF UneParDefaut
<1>5. \A k \in 1..Len(s) :
        /\ k \in 1..Len(cartes) /\ k + 1 \in 1..Len(cartes)
        /\ s[k] \in Cartes
  BY <1>1, <1>3, ElementOfSeq
<1>6. Len(s) <= CARTES_MAX
  BY <1>1, <1>3
<1>7. CASE d = i /\ Len(cartes) > 1
  <2> DEFINE n == [s[Len(s)] EXCEPT !.defaut = TRUE]
  <2>1. Len(s) \in 1..Len(s)
    BY <1>1, <1>3, <1>7
  <2>2. n \in Cartes /\ n.defaut
    BY <1>5, <2>1 DEF Cartes
  <2>3. cartes' = [s EXCEPT ![Len(s)] = n]
    BY <1>2, <1>3, <1>4, <1>7, <1>s
  <2> HIDE DEF n
  <2>4. /\ cartes' \in Seq(Cartes) /\ Len(cartes') = Len(s)
        /\ \A j \in 1..Len(s) : cartes'[j] = IF j = Len(s) THEN n ELSE s[j]
    BY <1>3, <2>1, <2>2, <2>3, ExceptSeq
  <2>5. ASSUME NEW j \in 1..Len(s)
        PROVE  ~s[j].defaut
    <3>1. j # i \/ ~(j < i)
      OBVIOUS
    <3>2. CASE j < i
      <4>1. s[j] = cartes[j] /\ j # d
        BY <1>3, <1>7, <2>5, <3>2
      <4> QED BY <1>4, <1>5, <4>1
    <3>3. CASE ~(j < i)
      <4>1. s[j] = cartes[j + 1] /\ j + 1 # d
        BY <1>3, <1>7, <2>5, <3>3
      <4> QED BY <1>4, <1>5, <4>1
    <3> QED BY <3>2, <3>3
  <2>6. UneParDefaut(cartes)'
    BY <2>1, <2>2, <2>4, <2>5 DEF UneParDefaut
  <2> QED BY <1>6, <2>4, <2>6 DEF CartesTenues
<1>8. CASE ~(d = i /\ Len(cartes) > 1)
  <2>1. cartes' = s
    BY <1>2, <1>4, <1>8, <1>s
  <2>2. ASSUME s # <<>>
        PROVE  \E e \in 1..Len(s) : \A j \in 1..Len(s) : s[j].defaut <=> j = e
    <3>1. Len(s) > 0 /\ Len(s) \in Nat
      BY <1>3, <2>2, LenProperties, EmptySeq
    <3>2. d # i /\ i \in Int /\ d \in Int
      BY <1>1, <1>3, <1>8, <3>1
    <3> DEFINE e == IF d < i THEN d ELSE d - 1
    <3>3. /\ e \in 1..Len(s)
          /\ \A j \in 1..Len(s) : j < i => (j = d <=> j = e)
          /\ \A j \in 1..Len(s) : ~(j < i) => (j + 1 = d <=> j = e)
      BY <1>1, <1>3, <3>2
    <3> HIDE DEF e
    <3>4. ASSUME NEW j \in 1..Len(s)
          PROVE  s[j].defaut <=> j = e
      <4>1. CASE j < i
        <5>1. s[j] = cartes[j]
          BY <1>3, <4>1
        <5> QED BY <1>4, <1>5, <3>3, <4>1, <5>1
      <4>2. CASE ~(j < i)
        <5>1. s[j] = cartes[j + 1]
          BY <1>3, <4>2
        <5> QED BY <1>4, <1>5, <3>3, <4>2, <5>1
      <4> QED BY <4>1, <4>2
    <3> QED BY <3>3, <3>4
  <2> QED BY <1>3, <1>6, <2>1, <2>2 DEF CartesTenues, UneParDefaut
<1> QED BY <1>7, <1>8

LEMMA PaiementInvNext ==
  ASSUME PaiementInv, PaiementNext
  PROVE  PaiementInv'
<1>t. SequestreTenu /\ CartesTenues /\ age \in 0..AUTORISATION_JOURS
      /\ AUTORISATION_JOURS \in Nat
  BY SequestreAssumption DEF PaiementInv
<1>1. CASE PasserJourSequestre
  <2>1. age' \in 0..AUTORISATION_JOURS
    BY <1>t, <1>1 DEF PasserJourSequestre
  <2>2. SequestreTenu' /\ CartesTenues'
    BY <1>t, <1>1
       DEF PasserJourSequestre, SequestreTenu, FondsConserves, Detenu, Solde,
           CartesTenues, UneParDefaut
  <2> QED BY <2>1, <2>2 DEF PaiementInv
<1>2. ASSUME NEW montant \in Montants,
             Autoriser(montant) \/ Capturer(montant) \/ Rembourser(montant)
      PROVE  PaiementInv'
  <2>1. SequestreTenu'
    BY <1>t, <1>2, AutoriserTenu, CapturerTenu, RembourserTenu
  <2>2. age' \in 0..AUTORISATION_JOURS /\ UNCHANGED cartes
    BY <1>t, <1>2 DEF Autoriser, Capturer, Rembourser
  <2> QED BY <1>t, <2>1, <2>2 DEF PaiementInv, CartesTenues, UneParDefaut
<1>3. CASE Verser \/ Echouer
  <2>1. SequestreTenu'
    BY <1>t, <1>3, VerserTenu, EchouerTenu
  <2>2. UNCHANGED <<age, cartes>>
    BY <1>3 DEF Verser, Echouer
  <2> QED BY <1>t, <2>1, <2>2 DEF PaiementInv, CartesTenues, UneParDefaut
<1>4. CASE EnregistrerCarte \/ SupprimerCarte \/ ExpirerCarte
  <2>1. CartesTenues'
    BY <1>t, <1>4, CarteEnregistree, CarteSupprimee, CarteExpiree
  <2>2. UNCHANGED <<sequestre, age, verse>>
    BY <1>4 DEF EnregistrerCarte, SupprimerCarte, ExpirerCarte
  <2> QED BY <1>t, <2>1, <2>2
          DEF PaiementInv, SequestreTenu, FondsConserves, Detenu, Solde
<1> QED BY <1>1, <1>2, <1>3, <1>4 DEF PaiementNext

LEMMA PaiementInvInit == PaiementInit => PaiementInv
<1> SUFFICES ASSUME PaiementInit PROVE PaiementInv
  OBVIOUS
<1>1. SequestreTenu
  BY DEF PaiementInit, SequestreTenu, Sequestres, FondsConserves, Detenu, Solde
<1>2. Len(<<>>) = 0 /\ <<>> \in Seq(Cartes)
  OBVIOUS
<1>3. CartesTenues
  BY <1>2, SequestreAssumption DEF PaiementInit, CartesTenues, UneParDefaut
<1> QED BY <1>1, <1>3, SequestreAssumption DEF PaiementInit, PaiementInv

-----------------------------------------------------------------------------
\* The limiter.  A set of naturals has a smallest element.
LEMMA PlusPetit ==
  ASSUME NEW S \in SUBSET Nat, S # {}
  PROVE  \E m \in S : \A n \in S : m <= n
<1> DEFINE R == OpToRel(<, Nat)
<1>1. IsWellFoundedOn(R, Nat)
  BY NatLessThanWellFounded, Zenon
<1>2. \A x, y \in Nat : y < x => <<y, x>> \in R
  BY DEF OpToRel
<1> HIDE DEF R
<1>3. PICK m \in S : \A n \in S : ~(<<n, m>> \in R)
  BY <1>1, WFMin
<1>4. ASSUME NEW n \in S PROVE m <= n
  <2>1. m \in Nat /\ n \in Nat
    OBVIOUS
  <2>2. ~(n < m)
    BY <1>2, <1>3, <2>1, Zenon
  <2> QED BY <2>1, <2>2
<1> QED BY <1>4

\* The passages kept under a key are no more than its quota, and none is to come.
Gardees(passages, max) ==
  /\ passages \in SUBSET Passages
  /\ IsFiniteSet(passages)
  /\ Cardinality(passages) <= max
  /\ \A p \in passages : p.date <= instant

PorteInv ==
  /\ PorteOK
  /\ \A c \in Cles : Gardees(tentatives[c], MaxDe[c])

LEMMA DepuisGardees ==
  ASSUME NEW passages, NEW max \in Nat, Gardees(passages, max), NEW fenetre
  PROVE  Gardees(Depuis(passages, fenetre), max)
<1>1. Depuis(passages, fenetre) \subseteq passages
  BY DEF Depuis
<1>2. /\ IsFiniteSet(Depuis(passages, fenetre))
      /\ Cardinality(Depuis(passages, fenetre)) <= Cardinality(passages)
  BY <1>1, FS_Subset DEF Gardees
<1>3. /\ Cardinality(passages) \in Nat
      /\ Cardinality(Depuis(passages, fenetre)) \in Nat
  BY <1>2, FS_CardinalityType DEF Gardees
<1>4. Cardinality(Depuis(passages, fenetre)) <= max
  BY <1>2, <1>3 DEF Gardees
<1> QED BY <1>1, <1>2, <1>4 DEF Gardees

\* The wait announced is at least a second and at most the window.
LEMMA AttenteBornee ==
  ASSUME instant \in Nat, NEW passages, NEW max, Gardees(passages, max),
         NEW fenetre \in Nat \ {0}
  PROVE  Attente(passages, fenetre) \in 1..fenetre
<1> DEFINE dates == {p.date : p \in passages}
           debut == IF dates = {} THEN instant ELSE PlusAncienne(dates)
<1>1. dates \in SUBSET Nat /\ \A d \in dates : d <= instant
  BY DEF Gardees, Passages
<1>2. debut \in Nat /\ debut <= instant
  <2>1. CASE dates = {}
    BY <2>1
  <2>2. CASE dates # {}
    <3>1. PlusAncienne(dates) \in dates
      BY <1>1, <2>2, PlusPetit DEF PlusAncienne
    <3> QED BY <1>1, <2>2, <3>1
  <2> QED BY <2>1, <2>2
<1>3. Attente(passages, fenetre) =
        IF debut + fenetre > instant THEN debut + fenetre - instant ELSE 1
  BY DEF Attente
<1> HIDE DEF debut
<1> QED BY <1>2, <1>3

LEMMA PorteInvNext ==
  ASSUME PorteInv, PorteNext
  PROVE  PorteInv'
<1>t. /\ tentatives \in [Cles -> SUBSET Passages] /\ verdict \in Verdicts
      /\ instant \in 0..INSTANT_MAX
      /\ verdict.refuse => verdict.attente \in 1..FenetreDe[verdict.cle]
      /\ \A c \in Cles : Gardees(tentatives[c], MaxDe[c])
  BY DEF PorteInv, PorteOK
<1>a. /\ \A c \in Cles : FenetreDe[c] \in Nat \ {0} /\ MaxDe[c] \in Nat
      /\ INSTANT_MAX \in Nat
  BY PorteAssumption
<1>1. CASE PasserSeconde
  <2>1. UNCHANGED <<tentatives, verdict>> /\ instant' = instant + 1
        /\ instant' \in 0..INSTANT_MAX
    BY <1>1, <1>t, <1>a DEF PasserSeconde
  <2>2. ASSUME NEW c \in Cles PROVE Gardees(tentatives[c], MaxDe[c])'
    <3>1. Gardees(tentatives[c], MaxDe[c])
      BY <1>t
    <3>2. \A p \in tentatives[c] : p.date \in Nat /\ p.date <= instant'
      BY <1>t, <2>1, <3>1 DEF Gardees, Passages
    <3> QED BY <2>1, <3>1, <3>2 DEF Gardees
  <2> QED BY <1>t, <2>1, <2>2 DEF PorteInv, PorteOK, Gardees
<1>2. ASSUME NEW c \in Cles, VerifierQuota(c)
      PROVE  PorteInv'
  <2>1. PICK menage : menage = Menage(FenetreDe[c])
    OBVIOUS
  <2>2. PICK gardes : gardes = Depuis(menage[c], FenetreDe[c])
    OBVIOUS
  <2>3. /\ menage \in [Cles -> SUBSET Passages]
        /\ \A k \in Cles : Gardees(menage[k], MaxDe[k])
    <3>1. CASE menage = tentatives
      BY <1>t, <3>1
    <3>2. CASE menage = [k \in Cles |-> Depuis(tentatives[k], FenetreDe[c])]
      <4>1. \A k \in Cles : Gardees(Depuis(tentatives[k], FenetreDe[c]), MaxDe[k])
        BY <1>t, <1>a, DepuisGardees
      <4> QED BY <3>2, <4>1 DEF Gardees
    <3> QED BY <2>1, <3>1, <3>2 DEF Menage
  <2>4. Gardees(gardes, MaxDe[c])
    BY <1>a, <2>2, <2>3, DepuisGardees
  <2>5. UNCHANGED instant
    BY <1>2 DEF VerifierQuota
  <2>6. ASSUME NEW nouveaux, Gardees(nouveaux, MaxDe[c]),
               tentatives' = [menage EXCEPT ![c] = nouveaux],
               verdict' \in Verdicts,
               verdict'.refuse => verdict'.attente \in 1..FenetreDe[verdict'.cle]
        PROVE  PorteInv'
    <3>1. /\ tentatives' \in [Cles -> SUBSET Passages]
          /\ \A k \in Cles : tentatives'[k] = IF k = c THEN nouveaux ELSE menage[k]
      BY <2>3, <2>6 DEF Gardees
    <3>2. ASSUME NEW k \in Cles PROVE Gardees(tentatives[k], MaxDe[k])'
      <4>1. Gardees(tentatives'[k], MaxDe[k])
        BY <2>3, <2>6, <3>1
      <4> QED BY <2>5, <4>1 DEF Gardees
    <3> QED BY <1>t, <2>5, <2>6, <3>1, <3>2 DEF PorteInv, PorteOK, Gardees
  <2>7. CASE /\ verdict' = [refuse |-> TRUE, cle |-> c,
                            attente |-> Attente(gardes, FenetreDe[c])]
             /\ tentatives' = [menage EXCEPT ![c] = gardes]
    <3>1. PICK a \in 1..FenetreDe[c] : a = Attente(gardes, FenetreDe[c])
      BY <1>t, <1>a, <2>4, AttenteBornee
    <3>2. verdict' = [refuse |-> TRUE, cle |-> c, attente |-> a]
      BY <2>7, <3>1
    <3> DEFINE v == [refuse |-> TRUE, cle |-> c, attente |-> a]
    <3>3. v.cle = c /\ v.attente = a
      OBVIOUS
    <3>4. v \in [refuse : {TRUE}, cle : Cles, attente : Nat]
      BY <1>a
    <3>5. v \in Verdicts
      BY <3>4 DEF Verdicts
    <3> HIDE DEF v
    <3>6. verdict' = v
      BY <3>2 DEF v
    <3>7. verdict' \in Verdicts /\ verdict'.attente \in 1..FenetreDe[verdict'.cle]
      BY <3>3, <3>5, <3>6
    <3> QED BY <2>4, <2>6, <2>7, <3>7
  <2>8. CASE /\ Cardinality(gardes) < MaxDe[c]
             /\ verdict' = [refuse |-> FALSE]
             /\ tentatives' = [menage EXCEPT ![c] = gardes \cup {Passage(gardes)}]
    <3>1. PICK passage \in Passages : passage = Passage(gardes) /\ passage.date = instant
      <4>1. IsFiniteSet({p \in gardes : p.date = instant})
        BY <2>4, FS_Subset DEF Gardees
      <4>2. Cardinality({p \in gardes : p.date = instant}) \in Nat
        BY <4>1, FS_CardinalityType
      <4>3. PICK n \in Nat : n = Cardinality({p \in gardes : p.date = instant})
        BY <4>2, Zenon
      <4>4. Passage(gardes) = [date |-> instant, rang |-> n + 1]
        BY <4>3 DEF Passage
      <4>5. [date |-> instant, rang |-> n + 1] \in Passages
        BY <1>t DEF Passages
      <4> QED BY <4>4, <4>5
    <3>2. /\ IsFiniteSet(gardes \cup {passage})
          /\ Cardinality(gardes \cup {passage}) =
               IF passage \in gardes THEN Cardinality(gardes) ELSE Cardinality(gardes) + 1
      BY <2>4, FS_AddElement DEF Gardees
    <3>n. Cardinality(gardes) \in Nat
      BY <2>4, FS_CardinalityType DEF Gardees
    <3>3. Cardinality(gardes \cup {passage}) <= MaxDe[c]
      BY <1>a, <2>8, <3>2, <3>n
    <3>4. \A p \in gardes \cup {passage} : p.date <= instant
      BY <1>t, <2>4, <3>1 DEF Gardees
    <3>5. Gardees(gardes \cup {passage}, MaxDe[c])
      BY <2>4, <3>2, <3>3, <3>4 DEF Gardees
    <3>6. verdict' \in Verdicts /\ verdict'.refuse = FALSE
      BY <2>8 DEF Verdicts
    <3> QED BY <2>6, <2>8, <3>1, <3>5, <3>6
  <2> QED BY <1>2, <2>1, <2>2, <2>7, <2>8 DEF VerifierQuota
<1> QED BY <1>1, <1>2 DEF PorteNext

LEMMA PorteIntacte ==
  ASSUME PorteInv, UNCHANGED porte
  PROVE  PorteInv'
BY DEF PorteInv, PorteOK, Gardees, porte

LEMMA PorteInvInit == PorteInit => PorteInv
<1> SUFFICES ASSUME PorteInit PROVE PorteInv
  OBVIOUS
<1>1. \A c \in Cles : MaxDe[c] \in Nat
  BY PorteAssumption
<1>2. IsFiniteSet({}) /\ Cardinality({}) = 0
  BY FS_EmptySet
<1>3. \A c \in Cles : tentatives[c] = {}
  BY DEF PorteInit
<1>4. \A c \in Cles : Gardees(tentatives[c], MaxDe[c])
  BY <1>1, <1>2, <1>3 DEF Gardees
<1>5. tentatives \in [Cles -> SUBSET Passages] /\ instant \in 0..INSTANT_MAX
  BY PorteAssumption DEF PorteInit
<1>6. verdict \in Verdicts /\ verdict.refuse = FALSE
  BY DEF PorteInit, Verdicts
<1> QED BY <1>4, <1>5, <1>6 DEF PorteInv, PorteOK, Gardees

-----------------------------------------------------------------------------
\* The invariant of the part that runs.
VoletTenu ==
  /\ volet \in Volets
  /\ volet \in Console => ConsoleInv
  /\ volet \in {"kyc", "fiche"} => KycInv
  /\ volet = "catalogue" => CatalogueInv
  /\ volet = "soumission" => SoumissionInv
  /\ volet = "webhook" => WebhookInv
  /\ volet = "direct" => DirectInv
  /\ volet \in {"paiement", "tarif", "porte"} => AppelsInit

\* The parts that do not run are where they start.
AutresAuRepos ==
  /\ volet \notin Console => sessions = <<>>
  /\ volet \notin {"kyc", "fiche"} => fiche = FicheAbsente /\ revues = {}
  /\ volet # "catalogue" => secteur = SecteurAmorce
  /\ volet # "soumission" => SoumissionInit
  /\ volet # "webhook" => WebhookInit
  /\ volet # "direct" => DirectInit

PlateformeInv ==
  /\ VoletTenu
  /\ AutresAuRepos
  /\ PaiementInv
  /\ TarifInv
  /\ PorteInv

-----------------------------------------------------------------------------
LEMMA VoletsDistincts ==
  /\ Volets = Console \cup {"kyc", "fiche"} \cup
              {"catalogue", "soumission", "webhook", "direct"} \cup
              {"paiement", "tarif", "porte"}
  /\ \A v \in Console : v \notin {"kyc", "fiche", "catalogue", "soumission",
                                  "webhook", "direct", "paiement", "tarif", "porte"}
BY DEF Volets, Console

\* The answers of the part that runs.
LEMMA Reponses ==
  ASSUME VoletTenu, NEW r \in Requetes
  PROVE  /\ volet \in Console => RepondDans(requete[r], CodesOps \cup Lectures)
         /\ volet \in {"kyc", "fiche"} =>
              RepondDans(requete[r], CodesRevue \cup CodesFiche
                                       \cup {"REVIEW_RECORDED", "FORBIDDEN"})
         /\ volet = "catalogue" =>
              RepondDans(requete[r], CodesCatalogue \cup Faits \cup {"FORBIDDEN"})
         /\ volet = "soumission" => RepondDans(requete[r], {})
         /\ volet = "webhook" => RepondDans(requete[r], CodesWebhook)
         /\ volet = "direct" =>
              (requete[r].op = "repondu" => requete[r].code \in CodesDirect)
         /\ volet \in {"paiement", "tarif", "porte"} => RepondDans(requete[r], {})
<1>1. ASSUME volet \in Console
      PROVE  RepondDans(requete[r], CodesOps \cup Lectures)
  BY <1>1, ReponsesDeConsole DEF VoletTenu, ConsoleInv
<1>2. ASSUME volet \in {"kyc", "fiche"}
      PROVE  RepondDans(requete[r], CodesRevue \cup CodesFiche
                                      \cup {"REVIEW_RECORDED", "FORBIDDEN"})
  BY <1>2, ReponsesDeKyc DEF VoletTenu, KycInv
<1>3. ASSUME volet = "catalogue"
      PROVE  RepondDans(requete[r], CodesCatalogue \cup Faits \cup {"FORBIDDEN"})
  BY <1>3, ReponsesDuCatalogue DEF VoletTenu, CatalogueInv
<1>4. ASSUME volet = "soumission"
      PROVE  RepondDans(requete[r], {})
  BY <1>4, ReponsesAuxDemandes DEF VoletTenu, SoumissionInv
<1>5. ASSUME volet = "webhook"
      PROVE  RepondDans(requete[r], CodesWebhook)
  BY <1>5, ReponsesAStripe DEF VoletTenu, WebhookInv
<1>6. ASSUME volet = "direct"
      PROVE  requete[r].op = "repondu" => requete[r].code \in CodesDirect
  BY <1>6, ReponsesDuDirect DEF VoletTenu, DirectInv, DirectOK
<1>7. ASSUME volet \in {"paiement", "tarif", "porte"}
      PROVE  RepondDans(requete[r], {})
  BY <1>7 DEF VoletTenu, AppelsInit, Repos, RepondDans
<1> QED BY <1>1, <1>2, <1>3, <1>4, <1>5, <1>6, <1>7

\* No other part gives the answers that a property is about.
LEMMA ReponsesPropres ==
  ASSUME VoletTenu, NEW r \in Requetes
  PROVE  /\ volet # "direct" => requete[r].op # "ouverte"
         /\ requete[r].op = "repondu" =>
              /\ volet # "webhook" => requete[r].code \notin Accuses
              /\ volet \notin {"kyc", "fiche"} => requete[r].code # "REVIEW_RECORDED"
              /\ volet # "catalogue" =>
                   requete[r].code \notin {"SECTOR_CREATED", "SECTOR_PUBLISHED"}
<1>v. \/ volet \in Console \/ volet \in {"kyc", "fiche"} \/ volet = "catalogue"
      \/ volet = "soumission" \/ volet = "webhook" \/ volet = "direct"
      \/ volet \in {"paiement", "tarif", "porte"}
  BY VoletsDistincts DEF VoletTenu
<1>1. volet # "direct" => requete[r].op # "ouverte"
  BY <1>v, Reponses DEF RepondDans
<1>2. ASSUME requete[r].op = "repondu"
      PROVE  \/ volet \in Console /\ requete[r].code \in CodesOps \cup Lectures
             \/ volet \in {"kyc", "fiche"} /\ requete[r].code
                  \in CodesRevue \cup CodesFiche \cup {"REVIEW_RECORDED", "FORBIDDEN"}
             \/ volet = "catalogue" /\ requete[r].code
                  \in CodesCatalogue \cup Faits \cup {"FORBIDDEN"}
             \/ volet = "webhook" /\ requete[r].code \in CodesWebhook
             \/ volet = "direct" /\ requete[r].code \in CodesDirect
  BY <1>2, <1>v, Reponses DEF RepondDans
<1>3. ASSUME requete[r].op = "repondu", volet # "webhook"
      PROVE  requete[r].code \notin Accuses
  BY <1>2, <1>3, LesAccuses
     DEF SuitesStripe, CodesOps, Lectures, CodesRevue, CodesFiche, CodesCatalogue,
         Faits, CodesDirect
<1>4. ASSUME requete[r].op = "repondu", volet \notin {"kyc", "fiche"}
      PROVE  requete[r].code # "REVIEW_RECORDED"
  BY <1>2, <1>4
     DEF SuitesStripe, CodesOps, Lectures, CodesCatalogue, Faits, CodesWebhook,
         CodesDirect
<1>5. ASSUME requete[r].op = "repondu", volet # "catalogue"
      PROVE  requete[r].code \notin {"SECTOR_CREATED", "SECTOR_PUBLISHED"}
  BY <1>2, <1>5
     DEF SuitesStripe, CodesOps, Lectures, CodesRevue, CodesFiche, CodesWebhook,
         CodesDirect
<1> QED BY <1>1, <1>3, <1>4, <1>5

\* What follows from the invariant, whichever part runs.
LEMMA DeConsole == PlateformeInv => CodeUneFois
<1> SUFFICES ASSUME PlateformeInv PROVE CodeUneFois
  OBVIOUS
<1>1. CASE volet \in Console
  BY <1>1 DEF PlateformeInv, VoletTenu, ConsoleInv
<1>2. CASE volet \notin Console
  <2>1. sessions = <<>> /\ Len(<<>>) = 0
    BY <1>2 DEF PlateformeInv, AutresAuRepos
  <2> QED BY <2>1 DEF CodeUneFois
<1> QED BY <1>1, <1>2

LEMMA DeKyc == PlateformeInv => RefusADeux
<1> SUFFICES ASSUME PlateformeInv PROVE RefusADeux
  OBVIOUS
<1>1. CASE volet \in {"kyc", "fiche"}
  BY <1>1, KycInvSuffit DEF PlateformeInv, VoletTenu
<1>2. CASE volet \notin {"kyc", "fiche"}
  <2>1. fiche = FicheAbsente /\ revues = {}
    BY <1>2 DEF PlateformeInv, AutresAuRepos
  <2>2. Closes = {}
    BY <2>1 DEF Closes, EnAttente
  <2>3. fiche.statut = "ABSENT" /\ fiche.origine = "aucune"
    BY <2>1 DEF FicheAbsente, FicheInscrite
  <2>4. \A r \in Requetes : requete[r].op = "repondu" => requete[r].code # "REVIEW_RECORDED"
    BY <1>2, ReponsesPropres DEF PlateformeInv
  <2> QED BY <2>2, <2>3, <2>4 DEF RefusADeux
<1> QED BY <1>1, <1>2

LEMMA DuCatalogue == PlateformeInv => PublieParUnAutre
<1> SUFFICES ASSUME PlateformeInv PROVE PublieParUnAutre
  OBVIOUS
<1>1. CASE volet = "catalogue"
  BY <1>1, CatalogueInvSuffit DEF PlateformeInv, VoletTenu
<1>2. CASE volet # "catalogue"
  <2>1. secteur.creePar = "personne"
    BY <1>2 DEF PlateformeInv, AutresAuRepos, SecteurAmorce, SecteurAbsent
  <2>2. \A r \in Requetes :
          requete[r].op = "repondu" =>
            requete[r].code \notin {"SECTOR_CREATED", "SECTOR_PUBLISHED"}
    BY <1>2, ReponsesPropres DEF PlateformeInv
  <2>3. \A code : StatutCatalogue(code) = 201 => code = "SECTOR_CREATED"
    BY DEF StatutCatalogue
  <2> QED BY <2>1, <2>2, <2>3 DEF PublieParUnAutre
<1> QED BY <1>1, <1>2

LEMMA DesSoumissions == PlateformeInv => DemandesTenues
<1> SUFFICES ASSUME PlateformeInv PROVE DemandesTenues
  OBVIOUS
<1>1. CASE volet = "soumission"
  BY <1>1, SoumissionInvSuffit DEF PlateformeInv, VoletTenu
<1>2. CASE volet # "soumission"
  <2>1. demandes = <<>> /\ file = FileVide /\ Len(<<>>) = 0
    BY <1>2 DEF PlateformeInv, AutresAuRepos, SoumissionInit
  <2>2. Cardinality(Requetes) \in Nat \ {0}
    BY RequetesFinies
  <2>3. Len(demandes) <= QUOTA + Cardinality(Requetes) - 1
    BY <2>1, <2>2, SoumissionAssumption
  <2>4. \A lieu : Doublons(lieu) = {}
    BY <2>1 DEF Doublons
  <2>5. \A lieu : Cardinality(Doublons(lieu)) <= Cardinality(Requetes)
    BY <2>2, <2>4, FS_EmptySet
  <2>6. file.lieu = "aucun"
    BY <2>1 DEF FileVide
  <2> QED BY <2>3, <2>5, <2>6 DEF DemandesTenues
<1> QED BY <1>1, <1>2

LEMMA DuWebhook == PlateformeInv => EvenementUneFois
<1> SUFFICES ASSUME PlateformeInv PROVE EvenementUneFois
  OBVIOUS
<1>1. CASE volet = "webhook"
  BY <1>1, WebhookInvSuffit DEF PlateformeInv, VoletTenu
<1>2. CASE volet # "webhook"
  <2>1. \A e \in Evenements : evenementStripe[e] = "absent" /\ appliques[e] = 0
    BY <1>2 DEF PlateformeInv, AutresAuRepos, WebhookInit
  <2>2. \A r \in Requetes : requete[r].op = "repondu" => requete[r].code \notin Accuses
    BY <1>2, ReponsesPropres DEF PlateformeInv
  <2> QED BY <2>1, <2>2 DEF EvenementUneFois
<1> QED BY <1>1, <1>2

LEMMA DuDirect == PlateformeInv => FluxSansTrou
<1> SUFFICES ASSUME PlateformeInv PROVE FluxSansTrou
  OBVIOUS
<1>1. CASE volet = "direct"
  BY <1>1, DirectInvSuffit DEF PlateformeInv, VoletTenu
<1>2. CASE volet # "direct"
  <2>1. \A r \in Requetes : ~Ouverte(r)
    BY <1>2, ReponsesPropres DEF PlateformeInv, Ouverte
  <2> QED BY <2>1 DEF FluxSansTrou
<1> QED BY <1>1, <1>2

-----------------------------------------------------------------------------
\* What one part does not touch, it keeps.
LEMMA ConsoleIntacte ==
  ASSUME ConsoleInv, UNCHANGED <<requete, journalOps, consoleOps>>
  PROVE  ConsoleInv'
BY DEF ConsoleInv, JournalOpsOK, Tracee, Consigne, PasConsommes, CodeUneFois,
       journalOps, consoleOps

LEMMA KycIntact ==
  ASSUME KycInv, UNCHANGED <<requete, journalOps, kyc>>
  PROVE  KycInv'
BY DEF KycInv, JournalOpsOK, Instruite, Decidee, DossierTenu, RevueFondee, Consigne,
       EnAttente, Closes, journalOps, kyc

LEMMA CatalogueIntact ==
  ASSUME CatalogueInv, UNCHANGED <<requete, journalOps, catalogue>>
  PROVE  CatalogueInv'
BY DEF CatalogueInv, JournalOpsOK, Proposee, SecteurFonde, Consigne, journalOps, catalogue

LEMMA SoumissionIntacte ==
  ASSUME SoumissionInv, UNCHANGED <<requete, soumission>>
  PROVE  SoumissionInv'
BY DEF SoumissionInv, QuotaBorne, DoublonBorne, Doublons, EnRoute, Inserent, FileTenue,
       Suivie, soumission

LEMMA WebhookIntact ==
  ASSUME WebhookInv, UNCHANGED <<requete, webhook>>
  PROVE  WebhookInv'
BY DEF WebhookInv, TableTenue, Livree, SuiviParUnAutre, Appliques, webhook

LEMMA DirectIntact ==
  ASSUME DirectInv, UNCHANGED <<requete, direct>>
  PROVE  DirectInv'
BY DEF DirectInv, DirectOK, AvisSuivis, Suit, AttenteSuivie, SansTrou, Ouverte, direct

LEMMA PaiementIntact ==
  ASSUME PaiementInv, UNCHANGED paiement
  PROVE  PaiementInv'
BY DEF PaiementInv, SequestreTenu, FondsConserves, Detenu, Solde, CartesTenues,
       UneParDefaut, paiement

LEMMA TarifIntact ==
  ASSUME TarifInv, UNCHANGED tarif
  PROVE  TarifInv'
BY TarifInvStep

-----------------------------------------------------------------------------
LEMMA ConsoleRepose ==
  ASSUME volet \notin Console => sessions = <<>>, UNCHANGED <<consoleOps, volet>>
  PROVE  volet' \notin Console => sessions' = <<>>
BY DEF consoleOps

\* The part that runs moves, and the others do not.
LEMMA VoletAvance ==
  ASSUME PlateformeInv, Next
  PROVE  VoletTenu'
<1>t. VoletTenu /\ volet \in Volets
  BY DEF PlateformeInv, VoletTenu
<1>v. volet' = volet
  BY DEF Next, HorsConsole, HorsKyc, HorsCatalogue, HorsSoumission, HorsWebhook,
         HorsDirect, HorsPaiement, HorsTarif, HorsPorte
<1>1. CASE volet \in Console
  <2>1. ConsolePas
    BY <1>1, VoletsDistincts DEF Next, ConsolePas, Console
  <2>2. ConsoleInv'
    BY <1>t, <1>1, <2>1, ConsoleInvNext DEF VoletTenu
  <2> QED BY <1>t, <1>v, <1>1, <2>2, VoletsDistincts DEF VoletTenu
<1>2. CASE volet \in {"kyc", "fiche"}
  <2>1. KycPas
    BY <1>2 DEF Next, KycPas
  <2>2. KycInv'
    BY <1>t, <1>2, <2>1, KycInvNext DEF VoletTenu
  <2> QED BY <1>t, <1>v, <1>2, <2>2, VoletsDistincts DEF VoletTenu
<1>3. CASE volet = "catalogue"
  <2>1. CatalogueInv'
    BY <1>t, <1>3, CatalogueInvNext DEF VoletTenu, Next
  <2> QED BY <1>t, <1>v, <1>3, <2>1, VoletsDistincts DEF VoletTenu
<1>4. CASE volet = "soumission"
  <2>1. SoumissionInv'
    BY <1>t, <1>4, SoumissionInvNext DEF VoletTenu, Next
  <2> QED BY <1>t, <1>v, <1>4, <2>1, VoletsDistincts DEF VoletTenu
<1>5. CASE volet = "webhook"
  <2>1. WebhookInv'
    BY <1>t, <1>5, WebhookInvNext DEF VoletTenu, Next
  <2> QED BY <1>t, <1>v, <1>5, <2>1, VoletsDistincts DEF VoletTenu
<1>6. CASE volet = "direct"
  <2>1. DirectInv'
    BY <1>t, <1>6, DirectInvNext DEF VoletTenu, Next
  <2> QED BY <1>t, <1>v, <1>6, <2>1, VoletsDistincts DEF VoletTenu
<1>7. CASE volet \in {"paiement", "tarif", "porte"}
  <2>1. UNCHANGED requete
    BY <1>7 DEF Next, HorsPaiement, HorsTarif, HorsPorte
  <2>2. AppelsInit'
    BY <1>t, <1>7, <2>1 DEF VoletTenu, AppelsInit
  <2> QED BY <1>t, <1>v, <1>7, <2>2, VoletsDistincts DEF VoletTenu
<1> QED BY <1>t, <1>1, <1>2, <1>3, <1>4, <1>5, <1>6, <1>7, VoletsDistincts

LEMMA AutresAttendent ==
  ASSUME PlateformeInv, Next
  PROVE  AutresAuRepos'
<1>t. AutresAuRepos
  BY DEF PlateformeInv
<1>1. volet' = volet
  BY DEF Next, HorsConsole, HorsKyc, HorsCatalogue, HorsSoumission, HorsWebhook,
         HorsDirect, HorsPaiement, HorsTarif, HorsPorte
<1>2. /\ volet \notin Console => UNCHANGED consoleOps
      /\ volet \notin {"kyc", "fiche"} => UNCHANGED kyc
      /\ volet # "catalogue" => UNCHANGED catalogue
      /\ volet # "soumission" => UNCHANGED soumission
      /\ volet # "webhook" => UNCHANGED webhook
      /\ volet # "direct" => UNCHANGED direct
  BY DEF Next, Console, HorsConsole, HorsKyc, HorsCatalogue, HorsSoumission,
         HorsWebhook, HorsDirect, HorsPaiement, HorsTarif, HorsPorte
<1> QED BY <1>t, <1>1, <1>2
        DEF AutresAuRepos, SoumissionInit, WebhookInit, DirectInit, consoleOps, kyc,
            catalogue, soumission, webhook, direct

LEMMA PlateformeInvNext == PlateformeInv /\ [Next]_vars => PlateformeInv'
<1> SUFFICES ASSUME PlateformeInv, [Next]_vars PROVE PlateformeInv'
  OBVIOUS
<1>1. CASE Next
  <2>1. VoletTenu' /\ AutresAuRepos'
    BY <1>1, VoletAvance, AutresAttendent
  <2>2. (volet = "paiement" /\ PaiementNext) \/ UNCHANGED paiement
    BY <1>1 DEF Next, HorsConsole, HorsKyc, HorsCatalogue, HorsSoumission, HorsWebhook,
                HorsDirect, HorsTarif, HorsPorte
  <2>3. (volet = "tarif" /\ TarifNext) \/ UNCHANGED tarif
    BY <1>1 DEF Next, HorsConsole, HorsKyc, HorsCatalogue, HorsSoumission, HorsWebhook,
                HorsDirect, HorsPaiement, HorsPorte
  <2>4. (volet = "porte" /\ PorteNext) \/ UNCHANGED porte
    BY <1>1 DEF Next, HorsConsole, HorsKyc, HorsCatalogue, HorsSoumission, HorsWebhook,
                HorsDirect, HorsPaiement, HorsTarif
  <2>5. PaiementInv'
    BY <2>2, PaiementInvNext, PaiementIntact DEF PlateformeInv
  <2>6. TarifInv'
    BY <2>3, TarifInvStep DEF PlateformeInv
  <2>7. PorteInv'
    BY <2>4, PorteInvNext, PorteIntacte DEF PlateformeInv
  <2> QED BY <2>1, <2>5, <2>6, <2>7 DEF PlateformeInv
<1>2. CASE UNCHANGED vars
  <2>1. UNCHANGED <<requete, journalOps, consoleOps, kyc, catalogue, soumission,
                    webhook, direct, paiement, tarif, porte, volet>>
    BY <1>2 DEF vars
  <2>2. VoletTenu'
    <3>1. /\ volet \in Console => ConsoleInv'
          /\ volet \in {"kyc", "fiche"} => KycInv'
          /\ volet = "catalogue" => CatalogueInv'
          /\ volet = "soumission" => SoumissionInv'
          /\ volet = "webhook" => WebhookInv'
          /\ volet = "direct" => DirectInv'
      BY <2>1, ConsoleIntacte, KycIntact, CatalogueIntact, SoumissionIntacte,
         WebhookIntact, DirectIntact DEF PlateformeInv, VoletTenu
    <3>2. volet \in {"paiement", "tarif", "porte"} => AppelsInit'
      BY <2>1 DEF PlateformeInv, VoletTenu, AppelsInit
    <3> QED BY <2>1, <3>1, <3>2 DEF PlateformeInv, VoletTenu
  <2>3. AutresAuRepos'
    BY <2>1 DEF PlateformeInv, AutresAuRepos, SoumissionInit, WebhookInit, DirectInit,
                consoleOps, kyc, catalogue, soumission, webhook, direct
  <2> QED BY <2>1, <2>2, <2>3, PaiementIntact, TarifIntact, PorteIntacte
          DEF PlateformeInv
<1> QED BY <1>1, <1>2

LEMMA PlateformeInvInit == Init => PlateformeInv
<1> SUFFICES ASSUME Init PROVE PlateformeInv
  OBVIOUS
<1>1. /\ volet \in Volets /\ AppelsInit
      /\ SoumissionInit /\ WebhookInit /\ DirectInit
      /\ PaiementInit /\ TarifInit /\ PorteInit
  BY DEF Init
<1>2. /\ volet \in Console => ConsoleInit \/ SessionOuverteInit
      /\ volet \notin Console => sessions = <<>>
  BY <1>1 DEF Init, Console, ComptesAuRepos
<1>3. /\ volet \in {"kyc", "fiche"} => KycInit
      /\ volet \notin {"kyc", "fiche"} => fiche = FicheAbsente /\ revues = {}
      /\ volet = "catalogue" => CatalogueInit
      /\ volet # "catalogue" => secteur = SecteurAmorce
  BY DEF Init
<1>4. VoletTenu
  <2>1. volet \in Console => ConsoleInv
    BY <1>1, <1>2, ConsoleInvInit
  <2>2. volet \in {"kyc", "fiche"} => KycInv
    BY <1>1, <1>3, KycInvInit
  <2>3. volet = "catalogue" => CatalogueInv
    BY <1>1, <1>3, CatalogueInvInit
  <2>4. SoumissionInv /\ WebhookInv /\ DirectInv
    BY <1>1, SoumissionInvInit, WebhookInvInit, DirectInvInit
  <2> QED BY <1>1, <2>1, <2>2, <2>3, <2>4 DEF VoletTenu
<1>5. AutresAuRepos
  BY <1>1, <1>2, <1>3 DEF AutresAuRepos
<1>6. PaiementInv /\ TarifInv /\ PorteInv
  BY <1>1, PaiementInvInit, TarifInvInit, PorteInvInit
<1> QED BY <1>4, <1>5, <1>6 DEF PlateformeInv

\* A sector is withdrawn only by the statement that looks at its Missions again.
LEMMA RetraitDeSecteur ==
  ASSUME CatalogueInv, CatalogueNext,
         secteur.statut = "PUBLISHED", secteur'.statut = "DISABLED"
  PROVE  ~EnChantier
<1>t. /\ secteur \in [statut : StatutsSecteur \cup {"ABSENT"}, creePar : Auteurs,
                      publiePar : Auteurs]
      /\ secteur' # secteur
  BY DEF CatalogueInv, SecteurFonde
<1>1. PICK r \in Requetes :
        InsererSecteur(r) \/ PublierEnBase(r) \/ DesactiverEnBase(r)
  BY <1>t DEF CatalogueNext, OuvrirChantier, AvancerChantier, catalogue, CreerSecteur,
              DemanderActe, LireSecteur, PublierSecteur, DesactiverSecteur,
              ListerSecteurs, LireCatalogue
<1>2. CASE InsererSecteur(r)
  BY <1>t, <1>2 DEF InsererSecteur
<1>3. CASE PublierEnBase(r)
  BY <1>t, <1>3 DEF PublierEnBase, Publiable
<1>4. CASE DesactiverEnBase(r)
  BY <1>t, <1>4 DEF DesactiverEnBase, Desactivable
<1> QED BY <1>1, <1>2, <1>3, <1>4

-----------------------------------------------------------------------------
LEMMA InvToujours == Spec => []PlateformeInv
BY PlateformeInvInit, PlateformeInvNext, PTL DEF Spec

\* A TOTP code opens one session at most, for any number of accounts, requests
\* and sessions (consommer_pas_totp).
THEOREM CodeToujoursUneFois == Spec => []CodeUneFois
BY InvToujours, DeConsole, PTL

\* A refusal of a provider is closed by two accounts, both of whose acts are in
\* the journal, and whoever was told that his decision is recorded finds it in
\* force (decider, clore, V33).
THEOREM RefusToujoursADeux == Spec => []RefusADeux
BY InvToujours, DeKyc, PTL

\* The duplicates and the quota are exceeded by no more than the requests that
\* cross, and what was written offline never vanishes (soumettre, flushQueue).
THEOREM DemandesToujoursTenues == Spec => []DemandesTenues
BY InvToujours, DesSoumissions, PTL

\* An event of Stripe takes effect once, and a 200 says that it is written
\* (recevoir, consigner).
THEOREM EvenementToujoursUneFois == Spec => []EvenementUneFois
BY InvToujours, DuWebhook, PTL

\* A socket that is open while the listener holds leaves no gap
\* (suivre_en_direct, evenements.rs).
THEOREM FluxToujoursSansTrou == Spec => []FluxSansTrou
BY InvToujours, DuDirect, PTL

\* A sector drafted in the console is published by another account, and none is
\* withdrawn while a Mission of it is in progress (publier, desactiver).
THEOREM SecteurToujoursTenu == Spec => SecteurTenu
<1> DEFINE Retrait ==
      secteur.statut = "PUBLISHED" /\ secteur'.statut = "DISABLED" => ~EnChantier
<1>1. ASSUME PlateformeInv, [Next]_vars
      PROVE  [Retrait]_vars
  <2>1. CASE Next /\ volet = "catalogue"
    BY <1>1, <2>1, RetraitDeSecteur DEF Next, PlateformeInv, VoletTenu
  <2>2. CASE Next /\ volet # "catalogue"
    <3>1. UNCHANGED catalogue
      BY <2>2 DEF Next, HorsConsole, HorsKyc, HorsSoumission, HorsWebhook, HorsDirect,
                  HorsPaiement, HorsTarif, HorsPorte
    <3> QED BY <3>1 DEF catalogue
  <2> QED BY <1>1, <2>1, <2>2
<1>2. Spec => []PublieParUnAutre
  BY InvToujours, DuCatalogue, PTL
<1> QED BY <1>1, <1>2, InvToujours, PTL DEF Spec, SecteurTenu

\* Whatever amount, rate and delay is typed, the cents are right (Devis::emettre,
\* repartir, V19, V22).
THEOREM ComptesRestentJustes == Spec => []ComptesJustes
BY InvToujours, TarifInvSuffit, PTL DEF PlateformeInv

\* Whatever the escrow and the cards are asked for, in whatever order, no cent is
\* given twice and one card is the default one (sequestre.rs, methode.rs).
THEOREM FondsToujoursConserves == Spec => []PaiementOK
BY InvToujours, PaiementInvSuffit, PTL DEF PlateformeInv

\* Every row, request and queue stays well formed, whichever part runs (the CHECKs
\* of V19, V22 and V33 among them), and the limiter keeps no more passages than the
\* quota of their route, and announces a wait within its window (verifier_quota).
THEOREM TypesToujoursTenus == Spec => []TypeOK
<1>1. PlateformeInv => TypeOK
  BY ConsoleInvSuffit, KycInvSuffit, CatalogueInvSuffit, SoumissionInvSuffit,
     WebhookInvSuffit, DirectInvSuffit, PaiementInvSuffit, TarifInvType
     DEF PlateformeInv, VoletTenu, PorteInv, TypeOK
<1> QED BY <1>1, InvToujours, PTL
=============================================================================
