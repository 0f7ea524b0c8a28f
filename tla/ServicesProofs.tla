--------------------------- MODULE ServicesProofs ---------------------------
(***************************************************************************)
(* What the services around the Missions keep, for any number of events,   *)
(* of requests and of changes: an event of Stripe takes effect once, the   *)
(* duplicates and the quota of a requester are exceeded by no more than    *)
(* the requests that cross, and a live feed leaves no gap.                 *)
(* PlateformeProofs concludes from it.                                     *)
(***************************************************************************)
EXTENDS WebhookStripe, Soumission, Direct, SequenceTheorems, FiniteSetTheorems,
        FunctionTheorems, TLAPS

-----------------------------------------------------------------------------
\* The events of Stripe.
SuiviParUnAutre(e) == \E f \in Appliques(e) : DateDe[e] < DateDe[f]

\* What a delivery carries: a verdict of lateness that will still be true when
\* it is written, and an answer that says the event is written.
Livree(q) ==
  /\ q.op = "consigner" /\ q.suite = "SUPERSEDED" => SuiviParUnAutre(q.evenement)
  /\ q.op = "repondu" /\ q.code \in Accuses =>
       evenementStripe[q.evenement] # "absent"

TableTenue ==
  /\ evenementStripe \in [Evenements -> SuitesStripe \cup {"absent"}]
  /\ appliques \in [Evenements -> {0, 1}]
  /\ \A e \in Evenements :
       /\ appliques[e] = 1 => evenementStripe[e] = "APPLIED"
       /\ evenementStripe[e] = "SUPERSEDED" => SuiviParUnAutre(e)

WebhookInv ==
  /\ TableTenue
  /\ requete \in [Requetes -> EtatsWebhook]
  /\ \A r \in Requetes : Livree(requete[r])

\* A row is written once and kept.
LignesGardees ==
  \A e \in Evenements :
    evenementStripe[e] # "absent" => evenementStripe'[e] = evenementStripe[e]

LEMMA WebhookInvSuffit == WebhookInv => WebhookOK /\ EvenementUneFois
<1> SUFFICES ASSUME WebhookInv PROVE WebhookOK /\ EvenementUneFois
  OBVIOUS
<1>1. \A e \in Evenements : appliques[e] \in {0, 1}
  BY DEF WebhookInv, TableTenue
<1>2. appliques \in [Evenements -> Nat]
  BY DEF WebhookInv, TableTenue
<1>3. \A e \in Evenements : appliques[e] <= 1
  BY <1>1
<1> QED BY <1>2, <1>3
        DEF WebhookInv, TableTenue, WebhookOK, EvenementUneFois, Livree, SuiviParUnAutre

LEMMA LesAccuses == Accuses = SuitesStripe \cup {"DUPLICATE"}
BY DEF Accuses, CodesWebhook, SuitesStripe, StatutWebhook

LEMMA ChampsWebhook ==
  ASSUME NEW q \in EtatsWebhook
  PROVE  /\ q.op = "dernier" => q.evenement \in Evenements
         /\ q.op = "consigner" => q.evenement \in Evenements /\ q.suite \in SuitesStripe
         /\ q.op = "repondu" /\ q.code \in Accuses => q.evenement \in Evenements
BY DEF EtatsWebhook, Repos

LEMMA EtatsAdmisWebhook ==
  /\ Repos \in EtatsWebhook
  /\ \A e \in Evenements : [op |-> "dernier", evenement |-> e] \in EtatsWebhook
  /\ \A e \in Evenements, s \in SuitesStripe :
       [op |-> "consigner", evenement |-> e, suite |-> s] \in EtatsWebhook
  /\ \A code \in CodesWebhook \ Accuses : Repondu(code) \in EtatsWebhook
  /\ \A e \in Evenements, code \in Accuses :
       [op |-> "repondu", code |-> code, evenement |-> e] \in EtatsWebhook
BY DEF EtatsWebhook, Repondu

\* What was applied stays applied.
LEMMA LivreeReste ==
  ASSUME WebhookInv, TableTenue', LignesGardees, NEW q \in EtatsWebhook, Livree(q)
  PROVE  Livree(q)'
<1>1. ASSUME q.op = "consigner", q.suite = "SUPERSEDED"
      PROVE  SuiviParUnAutre(q.evenement)'
  <2>1. PICK f \in Appliques(q.evenement) : DateDe[q.evenement] < DateDe[f]
    BY <1>1 DEF Livree, SuiviParUnAutre
  <2>2. f \in Evenements /\ evenementStripe'[f] = "APPLIED"
        /\ ObjetDe[f] = ObjetDe[q.evenement]
    BY <2>1 DEF Appliques, LignesGardees
  <2> QED BY <2>1, <2>2 DEF SuiviParUnAutre, Appliques
<1>2. ASSUME q.op = "repondu", q.code \in Accuses
      PROVE  evenementStripe'[q.evenement] # "absent"
  BY <1>2, ChampsWebhook DEF Livree, LignesGardees
<1> QED BY <1>1, <1>2 DEF Livree

LEMMA WebhookInvNext ==
  ASSUME WebhookInv, WebhookNext
  PROVE  WebhookInv'
<1>t. /\ TableTenue
      /\ requete \in [Requetes -> EtatsWebhook]
      /\ \A r \in Requetes : Livree(requete[r])
  BY DEF WebhookInv
<1>a. ASSUME NEW r \in Requetes, NEW q \in EtatsWebhook, Devient(r, q), Livree(q)',
             TableTenue', LignesGardees
      PROVE  WebhookInv'
  <2>1. requete' \in [Requetes -> EtatsWebhook]
    BY <1>a, <1>t DEF Devient
  <2>2. ASSUME NEW x \in Requetes
        PROVE  Livree(requete[x])'
    <3>1. PICK f : f = requete'[x]
      OBVIOUS
    <3>2. f = q \/ f = requete[x]
      BY <1>a, <1>t, <3>1 DEF Devient
    <3>3. Livree(f)'
      BY <1>a, <1>t, <3>2, LivreeReste
    <3> QED BY <3>1, <3>3
  <2> QED BY <1>a, <2>1, <2>2 DEF WebhookInv
<1>b. ASSUME UNCHANGED webhook
      PROVE  /\ TableTenue' /\ LignesGardees
             /\ \A e : SuiviParUnAutre(e)' <=> SuiviParUnAutre(e)
  <2>1. UNCHANGED <<evenementStripe, appliques>>
    BY <1>b DEF webhook
  <2>2. \A e : SuiviParUnAutre(e)' <=> SuiviParUnAutre(e)
    BY <2>1 DEF SuiviParUnAutre, Appliques
  <2> QED BY <1>t, <2>1, <2>2 DEF TableTenue, LignesGardees
<1>1. ASSUME NEW r \in Requetes, Interrompre(r), UNCHANGED webhook
      PROVE  WebhookInv'
  <2>1. Livree(Repos)'
    BY DEF Livree, Repos
  <2> QED BY <1>1, <1>a, <1>b, <2>1, EtatsAdmisWebhook DEF Interrompre
<1>2. ASSUME NEW r \in Requetes, NEW configure \in BOOLEAN,
             NEW signature \in Signatures, NEW charge \in Charges,
             DemanderReception(r, configure, signature, charge)
      PROVE  WebhookInv'
  <2>1. PICK refus : refus = RefusWebhook(configure, signature, charge)
    OBVIOUS
  <2>2. PICK e \in Evenements :
          Devient(r, IF refus # "aucun" THEN Repondu(refus)
                     ELSE IF e \in Traites THEN [op |-> "dernier", evenement |-> e]
                     ELSE [op |-> "consigner", evenement |-> e, suite |-> "IGNORED"])
    BY <1>2, <2>1 DEF DemanderReception
  <2>3. CASE refus # "aucun"
    <3>1. refus \in CodesWebhook \ Accuses
      BY <2>1, <2>3, LesAccuses DEF RefusWebhook, CodesWebhook, SuitesStripe
    <3>2. Livree(Repondu(refus))'
      BY <3>1 DEF Livree, Repondu
    <3> QED BY <1>2, <1>a, <1>b, <2>2, <2>3, <3>1, <3>2, EtatsAdmisWebhook
            DEF DemanderReception
  <2>4. CASE refus = "aucun"
    <3>1. \E q \in EtatsWebhook : Devient(r, q) /\ Livree(q)'
      BY <2>2, <2>4, EtatsAdmisWebhook DEF Livree, SuitesStripe
    <3> QED BY <1>2, <1>a, <1>b, <3>1 DEF DemanderReception
  <2> QED BY <2>3, <2>4
<1>3. ASSUME NEW r \in Requetes, LireDernier(r)
      PROVE  WebhookInv'
  <2>e. PICK e : e = requete[r].evenement
    OBVIOUS
  <2>s. PICK s : s = SuiteDe(e)
    OBVIOUS
  <2> DEFINE q == [op |-> "consigner", evenement |-> e, suite |-> s]
  <2>1. e \in Evenements /\ s \in SuitesStripe
    BY <1>3, <1>t, <2>e, <2>s, ChampsWebhook DEF LireDernier, SuiteDe, SuitesStripe
  <2>2. Devient(r, q) /\ UNCHANGED webhook
    BY <1>3, <2>e, <2>s DEF LireDernier
  <2>3. s = "SUPERSEDED" => SuiviParUnAutre(e)
    BY <2>s DEF SuiteDe, SuiviParUnAutre
  <2>4. Livree(q)'
    BY <1>b, <2>2, <2>3 DEF Livree
  <2>5. q \in EtatsWebhook
    BY <2>1, EtatsAdmisWebhook
  <2> HIDE DEF q
  <2> QED BY <1>a, <1>b, <2>2, <2>4, <2>5
<1>4. ASSUME NEW r \in Requetes, ConsignerEvenement(r)
      PROVE  WebhookInv'
  <2>e. PICK e, s : e = requete[r].evenement /\ s = requete[r].suite
    OBVIOUS
  <2>1. /\ e \in Evenements /\ s \in SuitesStripe
        /\ s = "SUPERSEDED" => SuiviParUnAutre(e)
    BY <1>4, <1>t, <2>e, ChampsWebhook DEF ConsignerEvenement, Livree
  <2>2. CASE DejaVu(e)
    <3>1. PICK code \in Accuses :
            Devient(r, [op |-> "repondu", code |-> code, evenement |-> e])
      BY <1>4, <2>e, <2>1, <2>2, LesAccuses
      DEF ConsignerEvenement, RepondreEvenement, SuitesStripe
    <3> DEFINE q == [op |-> "repondu", code |-> code, evenement |-> e]
    <3>2. UNCHANGED webhook
      BY <1>4, <2>e, <2>2 DEF ConsignerEvenement
    <3>3. Livree(q)'
      BY <2>2, <3>2 DEF Livree, DejaVu, webhook
    <3>4. q \in EtatsWebhook
      BY <2>1, EtatsAdmisWebhook
    <3> HIDE DEF q
    <3> QED BY <1>a, <1>b, <3>1, <3>2, <3>3, <3>4 DEF q
  <2>3. CASE ~DejaVu(e)
    <3> DEFINE q == [op |-> "repondu", code |-> s, evenement |-> e]
    <3>1. /\ evenementStripe' = [evenementStripe EXCEPT ![e] = s]
          /\ Devient(r, q)
          /\ appliques' = IF s = "APPLIED" THEN [appliques EXCEPT ![e] = @ + 1]
                                           ELSE appliques
          /\ evenementStripe[e] = "absent"
      BY <1>4, <2>e, <2>3 DEF ConsignerEvenement, RepondreEvenement, DejaVu
    <3>2. appliques[e] = 0
      BY <1>t, <2>1, <3>1 DEF TableTenue
    <3>3. /\ evenementStripe' \in [Evenements -> SuitesStripe \cup {"absent"}]
          /\ evenementStripe'[e] = s
          /\ \A x \in Evenements \ {e} : evenementStripe'[x] = evenementStripe[x]
      BY <1>t, <2>1, <3>1 DEF TableTenue
    <3>4. /\ appliques' \in [Evenements -> {0, 1}]
          /\ s # "APPLIED" => appliques'[e] = 0
          /\ \A x \in Evenements \ {e} : appliques'[x] = appliques[x]
      BY <1>t, <2>1, <3>1, <3>2 DEF TableTenue
    <3>5. LignesGardees
      BY <3>1, <3>3 DEF LignesGardees
    <3>6. \A x : SuiviParUnAutre(x) => SuiviParUnAutre(x)'
      BY <3>5 DEF SuiviParUnAutre, Appliques, LignesGardees
    <3>7. TableTenue'
      BY <1>t, <2>1, <3>3, <3>4, <3>6 DEF TableTenue
    <3>8. s # "absent" /\ s \in Accuses
      BY <2>1, LesAccuses DEF SuitesStripe
    <3>9. q \in EtatsWebhook /\ Livree(q)'
      BY <2>1, <3>3, <3>8, EtatsAdmisWebhook DEF Livree
    <3> HIDE DEF q
    <3> QED BY <1>a, <3>1, <3>5, <3>7, <3>9
  <2> QED BY <2>2, <2>3
<1> QED BY <1>1, <1>2, <1>3, <1>4 DEF WebhookNext, RecevoirWebhook

LEMMA WebhookInvInit ==
  ASSUME AppelsInit, WebhookInit
  PROVE  WebhookInv
<1>1. /\ requete \in [Requetes -> EtatsWebhook]
      /\ \A r \in Requetes : Livree(requete[r])
  BY EtatsAdmisWebhook DEF AppelsInit, Repos, Livree
<1> QED BY <1>1 DEF WebhookInit, WebhookInv, TableTenue, SuitesStripe

-----------------------------------------------------------------------------
\* The submissions of a requester.
Inserent == {r \in Requetes : requete[r].op = "inserer"}

EnRoute(lieu) ==
  {r \in Requetes : requete[r].op \in {"quota", "inserer"} /\ requete[r].lieu = lieu}

\* Every request that has passed the read is counted with the rows: one that
\* passes may be the last to find room, and all the others pass with it.
QuotaBorne ==
  Len(demandes) + Cardinality(Inserent) <= QUOTA + Cardinality(Requetes) - 1

DoublonBorne(lieu) ==
  Cardinality(Doublons(lieu)) + Cardinality(EnRoute(lieu)) <= Cardinality(Requetes)

\* What a request sent from the queue knows of it.
Suivie(q) ==
  /\ q.op = "consigner" /\ q.deFile => file.traitee
  /\ q.op = "reponse" => file.lieu \in Lieux
  /\ q.op \in {"doublon", "quota", "inserer", "consigner"} /\ q.deFile =>
       file.lieu \in Lieux
  /\ q.op = "reponse" /\ q.code \in {"REQUEST_CREATED", "REQUEST_DUPLICATE"} =>
       file.traitee

FileTenue ==
  /\ file \in Files
  /\ file.attend => file.lieu \in Lieux
  /\ file.lieu # "aucun" => file.attend \/ file.morte \/ file.traitee

SoumissionInv ==
  /\ demandes \in Seq(LignesDemande)
  /\ requete \in [Requetes -> EtatsSoumission]
  /\ QuotaBorne
  /\ \A lieu \in Lieux : DoublonBorne(lieu)
  /\ FileTenue
  /\ \A r \in Requetes : Suivie(requete[r])

DoublonsDans(s, lieu) ==
  {i \in 1..Len(s) : s[i] = [lieu |-> lieu, diffusee |-> TRUE, recente |-> TRUE]}

LEMMA DoublonsFinis ==
  ASSUME NEW s \in Seq(LignesDemande), NEW lieu
  PROVE  /\ IsFiniteSet(DoublonsDans(s, lieu))
         /\ Cardinality(DoublonsDans(s, lieu)) \in Nat
<1>1. Len(s) \in Nat
  BY LenProperties
<1>2. IsFiniteSet(1..Len(s))
  BY <1>1, FS_Interval
<1>3. DoublonsDans(s, lieu) \subseteq 1..Len(s)
  BY DEF DoublonsDans
<1> QED BY <1>2, <1>3, FS_Subset, FS_CardinalityType

LEMMA RequetesFinies ==
  ASSUME NEW S, S \subseteq Requetes
  PROVE  /\ IsFiniteSet(S) /\ Cardinality(S) \in Nat
         /\ Cardinality(S) <= Cardinality(Requetes)
         /\ Cardinality(Requetes) \in Nat \ {0}
<1>1. IsFiniteSet(Requetes) /\ Requetes # {}
  BY SoumissionAssumption
<1>2. Cardinality(Requetes) \in Nat /\ Cardinality(Requetes) # 0
  BY <1>1, FS_CardinalityType, FS_EmptySet
<1>3. /\ IsFiniteSet(S)
      /\ Cardinality(S) <= Cardinality(Requetes)
  BY <1>1, FS_Subset
<1> QED BY <1>2, <1>3, FS_CardinalityType

LEMMA SoumissionInvSuffit == SoumissionInv => SoumissionOK /\ DemandesTenues
<1> SUFFICES ASSUME SoumissionInv PROVE SoumissionOK /\ DemandesTenues
  OBVIOUS
<1>1. SoumissionOK
  BY DEF SoumissionInv, SoumissionOK, FileTenue
<1>2. Len(demandes) <= QUOTA + Cardinality(Requetes) - 1
  <2>1. Inserent \subseteq Requetes
    BY DEF Inserent
  <2>2. Cardinality(Inserent) \in Nat /\ Cardinality(Requetes) \in Nat
    BY <2>1, RequetesFinies
  <2>3. Len(demandes) \in Nat
    BY LenProperties DEF SoumissionInv
  <2> QED BY <2>2, <2>3, SoumissionAssumption DEF SoumissionInv, QuotaBorne
<1>3. ASSUME NEW lieu \in Lieux
      PROVE  Cardinality(Doublons(lieu)) <= Cardinality(Requetes)
  <2>1. EnRoute(lieu) \subseteq Requetes
    BY DEF EnRoute
  <2>2. Cardinality(EnRoute(lieu)) \in Nat /\ Cardinality(Requetes) \in Nat
    BY <2>1, RequetesFinies
  <2>3. Doublons(lieu) = DoublonsDans(demandes, lieu)
    BY DEF Doublons, DoublonsDans
  <2>4. Cardinality(Doublons(lieu)) \in Nat
    BY <2>3, DoublonsFinis DEF SoumissionInv
  <2> QED BY <2>2, <2>4 DEF SoumissionInv, DoublonBorne
<1> QED BY <1>1, <1>2, <1>3 DEF SoumissionInv, DemandesTenues, FileTenue

\* The rows only grow old: none of these steps makes one more, nor a duplicate.
Vieillit(s, t) ==
  /\ t \in Seq(LignesDemande)
  /\ Len(t) <= Len(s)
  /\ \A lieu \in Lieux :
       Cardinality(DoublonsDans(t, lieu)) <= Cardinality(DoublonsDans(s, lieu))

LEMMA LigneVieillit ==
  ASSUME NEW s \in Seq(LignesDemande), NEW i \in 1..Len(s),
         NEW l \in LignesDemande, ~l.recente \/ ~l.diffusee
  PROVE  Vieillit(s, [s EXCEPT ![i] = l])
<1> DEFINE t == [s EXCEPT ![i] = l]
<1>1. /\ t \in Seq(LignesDemande) /\ Len(t) = Len(s)
      /\ \A j \in 1..Len(s) : t[j] = IF j = i THEN l ELSE s[j]
  BY ExceptSeq
<1> HIDE DEF t
<1>2. ASSUME NEW lieu \in Lieux
      PROVE  Cardinality(DoublonsDans(t, lieu)) <= Cardinality(DoublonsDans(s, lieu))
  <2>1. l # [lieu |-> lieu, diffusee |-> TRUE, recente |-> TRUE]
    OBVIOUS
  <2>2. DoublonsDans(t, lieu) \subseteq DoublonsDans(s, lieu)
    BY <1>1, <2>1 DEF DoublonsDans
  <2> QED BY <2>2, DoublonsFinis, FS_Subset
<1>3. Len(s) \in Nat
  BY LenProperties
<1>4. Vieillit(s, t)
  BY <1>1, <1>2, <1>3 DEF Vieillit
<1> QED BY <1>4 DEF t

LEMMA PremiereOubliee ==
  ASSUME NEW s \in Seq(LignesDemande), s # <<>>
  PROVE  Vieillit(s, Tail(s))
<1> DEFINE t == Tail(s)
<1>1. /\ t \in Seq(LignesDemande) /\ Len(t) = Len(s) - 1
      /\ \A j \in 1..Len(t) : t[j] = s[j + 1]
      /\ Len(s) \in Nat
  BY HeadTailProperties, LenProperties
<1> HIDE DEF t
<1>2. ASSUME NEW lieu \in Lieux
      PROVE  Cardinality(DoublonsDans(t, lieu)) <= Cardinality(DoublonsDans(s, lieu))
  <2> DEFINE D == DoublonsDans(t, lieu)
             E == DoublonsDans(s, lieu)
             f == [j \in D |-> j + 1]
  <2>1. \A j \in D : j \in Nat /\ j + 1 \in E
    BY <1>1 DEF DoublonsDans
  <2>2. f \in [D -> E]
    BY <2>1
  <2>3. \A j, k \in D : f[j] = f[k] => j = k
    BY <2>1
  <2>4. f \in Injection(D, E)
    BY <2>2, <2>3 DEF Injection, IsInjective
  <2>5. IsFiniteSet(E)
    BY DoublonsFinis
  <2> QED BY <2>4, <2>5, FS_Injection
<1>3. Vieillit(s, t)
  BY <1>1, <1>2 DEF Vieillit
<1> QED BY <1>3 DEF t

\* What was bounded stays so while the rows grow old and no request passes.
LEMMA BornesGardees ==
  ASSUME SoumissionInv, Vieillit(demandes, demandes') \/ UNCHANGED demandes
  PROVE  /\ demandes' \in Seq(LignesDemande)
         /\ Inserent' \subseteq Inserent => QuotaBorne'
         /\ \A lieu \in Lieux :
              EnRoute(lieu)' \subseteq EnRoute(lieu) => DoublonBorne(lieu)'
<1>1. /\ demandes \in Seq(LignesDemande) /\ demandes' \in Seq(LignesDemande)
      /\ Len(demandes) \in Nat /\ Len(demandes') \in Nat
      /\ Len(demandes') <= Len(demandes)
      /\ \A lieu \in Lieux : Cardinality(DoublonsDans(demandes', lieu))
                               <= Cardinality(DoublonsDans(demandes, lieu))
  <2>1. demandes \in Seq(LignesDemande)
    BY DEF SoumissionInv
  <2>2. demandes' \in Seq(LignesDemande)
    BY <2>1 DEF Vieillit
  <2>3. Len(demandes) \in Nat /\ Len(demandes') \in Nat
    BY <2>1, <2>2, LenProperties
  <2>4. \A lieu \in Lieux : Cardinality(DoublonsDans(demandes, lieu)) \in Nat
    BY <2>1, DoublonsFinis
  <2> QED BY <2>1, <2>2, <2>3, <2>4 DEF Vieillit
<1>2. ASSUME Inserent' \subseteq Inserent
      PROVE  QuotaBorne'
  <2>1. Inserent \subseteq Requetes
    BY DEF Inserent
  <2>2. IsFiniteSet(Inserent) /\ Cardinality(Inserent) \in Nat
        /\ Cardinality(Requetes) \in Nat
    BY <2>1, RequetesFinies
  <2>3. Cardinality(Inserent') <= Cardinality(Inserent) /\ Cardinality(Inserent') \in Nat
    BY <1>2, <2>2, FS_Subset, FS_CardinalityType
  <2> QED BY <1>1, <2>2, <2>3, SoumissionAssumption DEF SoumissionInv, QuotaBorne
<1>3. ASSUME NEW lieu \in Lieux, EnRoute(lieu)' \subseteq EnRoute(lieu)
      PROVE  DoublonBorne(lieu)'
  <2>1. EnRoute(lieu) \subseteq Requetes
    BY DEF EnRoute
  <2>2. IsFiniteSet(EnRoute(lieu)) /\ Cardinality(EnRoute(lieu)) \in Nat
        /\ Cardinality(Requetes) \in Nat
    BY <2>1, RequetesFinies
  <2>3. /\ Cardinality(EnRoute(lieu)') <= Cardinality(EnRoute(lieu))
        /\ Cardinality(EnRoute(lieu)') \in Nat
    BY <1>3, <2>2, FS_Subset, FS_CardinalityType
  <2>4. /\ Doublons(lieu) = DoublonsDans(demandes, lieu)
        /\ Doublons(lieu)' = DoublonsDans(demandes', lieu)
    BY DEF Doublons, DoublonsDans
  <2>5. /\ Cardinality(Doublons(lieu)) \in Nat /\ Cardinality(Doublons(lieu)') \in Nat
        /\ Cardinality(Doublons(lieu)') <= Cardinality(Doublons(lieu))
    BY <1>1, <2>4, DoublonsFinis
  <2> QED BY <2>2, <2>3, <2>5 DEF SoumissionInv, DoublonBorne
<1> QED BY <1>1, <1>2, <1>3

\* What a request carries, according to the step it has reached.
LEMMA ChampsSoumission ==
  ASSUME NEW q \in EtatsSoumission
  PROVE  /\ q.op \in {"doublon", "quota", "inserer", "consigner"} =>
              /\ q.lieu \in Lieux /\ q.deFile \in BOOLEAN
              /\ q = [op |-> q.op, lieu |-> q.lieu, deFile |-> q.deFile]
         /\ q.op = "reponse" => q.code \in CodesSoumission
BY DEF EtatsSoumission, Repos

LEMMA EtatsAdmisSoumission ==
  /\ Repos \in EtatsSoumission
  /\ \A op \in {"doublon", "quota", "inserer", "consigner"}, l \in Lieux, b \in BOOLEAN :
       [op |-> op, lieu |-> l, deFile |-> b] \in EtatsSoumission
  /\ \A code \in CodesSoumission : [op |-> "reponse", code |-> code] \in EtatsSoumission
BY DEF EtatsSoumission

\* The write of the queue keeps its place, and what was dealt with.
FileAvance ==
  /\ file.lieu \in Lieux => file'.lieu \in Lieux
  /\ file.traitee => file'.traitee

LEMMA SuivieReste ==
  ASSUME FileAvance, NEW q, Suivie(q)
  PROVE  Suivie(q)'
BY DEF FileAvance, Suivie

\* One request moves, with the bounds kept.
LEMMA SoumissionReunie ==
  ASSUME SoumissionInv, NEW r \in Requetes, NEW q \in EtatsSoumission, Devient(r, q),
         Suivie(q)', FileAvance, FileTenue', demandes' \in Seq(LignesDemande),
         QuotaBorne', \A lieu \in Lieux : DoublonBorne(lieu)'
  PROVE  SoumissionInv'
<1>1. requete' \in [Requetes -> EtatsSoumission]
  BY DEF SoumissionInv, Devient
<1>2. ASSUME NEW x \in Requetes
      PROVE  Suivie(requete[x])'
  <2>1. PICK f : f = requete'[x]
    OBVIOUS
  <2>2. f = q \/ (f = requete[x] /\ Suivie(f))
    BY <2>1 DEF SoumissionInv, Devient
  <2>3. Suivie(f)'
    BY <2>2, SuivieReste
  <2> QED BY <2>1, <2>3
<1> QED BY <1>1, <1>2 DEF SoumissionInv

\* A request that passes neither the duplicates nor the quota.
LEMMA SoumissionCalme ==
  ASSUME SoumissionInv, NEW r \in Requetes, NEW q \in EtatsSoumission, Devient(r, q),
         q.op \notin {"quota", "inserer"}, Suivie(q)', FileAvance, FileTenue',
         UNCHANGED demandes
  PROVE  SoumissionInv'
<1>1. requete \in [Requetes -> EtatsSoumission]
  BY DEF SoumissionInv
<1>2. Inserent' \subseteq Inserent
  BY <1>1 DEF Inserent, Devient
<1>3. \A lieu \in Lieux : EnRoute(lieu)' \subseteq EnRoute(lieu)
  BY <1>1 DEF EnRoute, Devient
<1>4. /\ demandes' \in Seq(LignesDemande)
      /\ QuotaBorne' /\ \A lieu \in Lieux : DoublonBorne(lieu)'
  BY <1>2, <1>3, BornesGardees
<1> QED BY <1>4, SoumissionReunie

\* The queue is not touched.
LEMMA FileIntacte ==
  ASSUME SoumissionInv, UNCHANGED file
  PROVE  FileAvance /\ FileTenue'
BY DEF SoumissionInv, FileAvance, FileTenue

\* The answer goes back to the queue, or to the form.
LEMMA ReponseRendue ==
  ASSUME SoumissionInv, NEW r \in Requetes, NEW code \in CodesSoumission,
         NEW deFile \in BOOLEAN, Rendre(r, code, deFile), FileAvance, FileTenue',
         UNCHANGED demandes,
         deFile => /\ file'.lieu \in Lieux
                   /\ code \in {"REQUEST_CREATED", "REQUEST_DUPLICATE"} => file'.traitee
  PROVE  SoumissionInv'
<1> DEFINE e == [op |-> "reponse", code |-> code]
<1>1. CASE deFile
  <2>1. Devient(r, e)
    BY <1>1 DEF Rendre
  <2>2. e \in EtatsSoumission /\ e.op \notin {"quota", "inserer"}
    BY EtatsAdmisSoumission
  <2>3. Suivie(e)'
    BY <1>1 DEF Suivie
  <2> HIDE DEF e
  <2> QED BY <2>1, <2>2, <2>3, SoumissionCalme
<1>2. CASE ~deFile
  <2>1. Devient(r, Repos)
    BY <1>2 DEF Rendre
  <2>2. Repos \in EtatsSoumission /\ Repos.op \notin {"quota", "inserer"} /\ Suivie(Repos)'
    BY EtatsAdmisSoumission DEF Repos, Suivie
  <2> QED BY <2>1, <2>2, SoumissionCalme
<1> QED BY <1>1, <1>2

\* A duplicate or a row is found or written for the write of the queue.
LEMMA FileTraitee ==
  ASSUME SoumissionInv, NEW r \in Requetes, Traiter(r), requete[r].deFile \in BOOLEAN
  PROVE  /\ FileAvance /\ FileTenue'
         /\ requete[r].deFile => file'.traitee
         /\ file'.lieu = file.lieu
<1> DEFINE t == file.traitee \/ requete[r].deFile
<1>1. t \in BOOLEAN /\ (file.traitee => t) /\ (requete[r].deFile => t)
  BY DEF SoumissionInv, FileTenue, Files
<1>2. file' = [file EXCEPT !.traitee = t]
  BY DEF Traiter
<1> HIDE DEF t
<1>3. /\ file' \in Files /\ file'.traitee = t /\ file'.lieu = file.lieu
      /\ file'.attend = file.attend /\ file'.morte = file.morte
  BY <1>1, <1>2 DEF SoumissionInv, FileTenue, Files
<1> QED BY <1>1, <1>3 DEF SoumissionInv, FileTenue, FileAvance

\* The quota is counted: whoever passes finds room for one.
LEMMA QuotaPasse ==
  ASSUME SoumissionInv, NEW r \in Requetes, requete[r].op = "quota",
         ~QuotaAtteint, Passer(r, "inserer"), UNCHANGED soumission
  PROVE  SoumissionInv'
<1>q. PICK l, b : l = requete[r].lieu /\ b = requete[r].deFile
  OBVIOUS
<1> DEFINE e == [op |-> "inserer", lieu |-> l, deFile |-> b]
<1>1. /\ l \in Lieux /\ b \in BOOLEAN
      /\ requete[r] = [op |-> "quota", lieu |-> l, deFile |-> b]
      /\ b => file.lieu \in Lieux
      /\ requete \in [Requetes -> EtatsSoumission]
  BY <1>q, ChampsSoumission DEF SoumissionInv, Suivie
<1>2. Devient(r, e)
  BY <1>1 DEF Passer
<1>3. UNCHANGED demandes /\ UNCHANGED file
  BY DEF soumission
<1>4. e \in EtatsSoumission /\ Suivie(e)'
  BY <1>1, <1>3, EtatsAdmisSoumission DEF Suivie
<1>5. QuotaBorne'
  <2>1. Inserent' \subseteq Requetes
    BY DEF Inserent
  <2>2. /\ Cardinality(Inserent') \in Nat /\ Cardinality(Requetes) \in Nat
        /\ Cardinality(Inserent') <= Cardinality(Requetes)
    BY <2>1, RequetesFinies
  <2>3. Len(demandes) \in Nat /\ QUOTA \in Nat /\ Len(demandes) < QUOTA
    BY LenProperties, SoumissionAssumption DEF SoumissionInv, QuotaAtteint
  <2> QED BY <1>3, <2>2, <2>3 DEF QuotaBorne
<1>6. \A lieu \in Lieux : DoublonBorne(lieu)'
  <2>1. \A lieu \in Lieux : EnRoute(lieu)' \subseteq EnRoute(lieu)
    BY <1>1, <1>2 DEF EnRoute, Devient
  <2> QED BY <1>3, <2>1, BornesGardees
<1>7. FileAvance /\ FileTenue'
  BY <1>3, FileIntacte
<1> HIDE DEF e
<1> QED BY <1>2, <1>3, <1>4, <1>5, <1>6, <1>7, SoumissionReunie DEF SoumissionInv

\* No duplicate was found: every request may be on its way to this place.
LEMMA DoublonPasse ==
  ASSUME SoumissionInv, NEW r \in Requetes, requete[r].op = "doublon",
         Doublons(requete[r].lieu) = {}, Passer(r, "quota"), UNCHANGED soumission
  PROVE  SoumissionInv'
<1>q. PICK l, b : l = requete[r].lieu /\ b = requete[r].deFile
  OBVIOUS
<1> DEFINE e == [op |-> "quota", lieu |-> l, deFile |-> b]
<1>1. /\ l \in Lieux /\ b \in BOOLEAN
      /\ requete[r] = [op |-> "doublon", lieu |-> l, deFile |-> b]
      /\ b => file.lieu \in Lieux
      /\ requete \in [Requetes -> EtatsSoumission]
  BY <1>q, ChampsSoumission DEF SoumissionInv, Suivie
<1>2. Devient(r, e)
  BY <1>1 DEF Passer
<1>3. UNCHANGED demandes /\ UNCHANGED file
  BY DEF soumission
<1>4. e \in EtatsSoumission /\ Suivie(e)'
  BY <1>1, <1>3, EtatsAdmisSoumission DEF Suivie
<1>5. QuotaBorne'
  <2>1. Inserent' \subseteq Inserent
    BY <1>1, <1>2 DEF Inserent, Devient
  <2> QED BY <1>3, <2>1, BornesGardees
<1>6. ASSUME NEW lieu \in Lieux
      PROVE  DoublonBorne(lieu)'
  <2>1. CASE lieu = l
    <3>1. EnRoute(l)' \subseteq Requetes
      BY DEF EnRoute
    <3>2. /\ Cardinality(EnRoute(l)') \in Nat /\ Cardinality(Requetes) \in Nat
          /\ Cardinality(EnRoute(l)') <= Cardinality(Requetes)
      BY <3>1, RequetesFinies
    <3>3. Doublons(l)' = {}
      BY <1>q, <1>3 DEF Doublons
    <3>4. Cardinality(Doublons(l)') = 0
      BY <3>3, FS_EmptySet
    <3> QED BY <2>1, <3>2, <3>4 DEF DoublonBorne
  <2>2. CASE lieu # l
    <3>1. EnRoute(lieu)' \subseteq EnRoute(lieu)
      BY <1>1, <1>2, <2>2 DEF EnRoute, Devient
    <3> QED BY <1>3, <3>1, BornesGardees
  <2> QED BY <2>1, <2>2
<1>7. FileAvance /\ FileTenue'
  BY <1>3, FileIntacte
<1> HIDE DEF e
<1> QED BY <1>2, <1>3, <1>4, <1>5, <1>6, <1>7, SoumissionReunie DEF SoumissionInv

\* The row is inserted: the request gives its place to it.
LEMMA DemandeInseree ==
  ASSUME SoumissionInv, NEW r \in Requetes, InsererDemande(r)
  PROVE  SoumissionInv'
<1>q. PICK l, b : l = requete[r].lieu /\ b = requete[r].deFile
  OBVIOUS
<1> DEFINE e == [op |-> "consigner", lieu |-> l, deFile |-> b]
           ligne == [lieu |-> l, diffusee |-> TRUE, recente |-> TRUE]
           n == Len(demandes) + 1
<1>1. /\ l \in Lieux /\ b \in BOOLEAN
      /\ requete[r] = [op |-> "inserer", lieu |-> l, deFile |-> b]
      /\ b => file.lieu \in Lieux
      /\ requete \in [Requetes -> EtatsSoumission]
      /\ demandes \in Seq(LignesDemande) /\ Len(demandes) \in Nat
  BY <1>q, ChampsSoumission, LenProperties DEF InsererDemande, SoumissionInv, Suivie
<1>2. /\ Devient(r, e) /\ Traiter(r)
      /\ demandes' = Append(demandes, ligne)
  BY <1>q, <1>1 DEF InsererDemande, Passer
<1>3. /\ FileAvance /\ FileTenue'
      /\ b => file'.traitee
      /\ file'.lieu = file.lieu
  BY <1>1, <1>2, FileTraitee
<1>4. e \in EtatsSoumission /\ Suivie(e)'
  BY <1>1, <1>3, EtatsAdmisSoumission DEF Suivie
<1>5. ligne \in LignesDemande
  BY <1>1 DEF LignesDemande
<1> HIDE DEF ligne
<1>6. /\ demandes' \in Seq(LignesDemande) /\ Len(demandes') = n
      /\ demandes'[n] = ligne
      /\ \A i \in 1..Len(demandes) : demandes'[i] = demandes[i]
  BY <1>1, <1>2, <1>5
<1>7. QuotaBorne'
  <2>1. Inserent \subseteq Requetes /\ r \in Inserent
    BY <1>1 DEF Inserent
  <2>2. Inserent' = Inserent \ {r}
    BY <1>1, <1>2 DEF Inserent, Devient
  <2>3. /\ IsFiniteSet(Inserent) /\ Cardinality(Inserent) \in Nat
        /\ Cardinality(Requetes) \in Nat
    BY <2>1, RequetesFinies
  <2>4. Cardinality(Inserent') = Cardinality(Inserent) - 1
    BY <2>1, <2>2, <2>3, FS_RemoveElement
  <2> QED BY <1>1, <1>6, <2>3, <2>4, SoumissionAssumption DEF SoumissionInv, QuotaBorne
<1>8. ASSUME NEW lieu \in Lieux
      PROVE  DoublonBorne(lieu)'
  <2>d. /\ Doublons(lieu) = DoublonsDans(demandes, lieu)
        /\ IsFiniteSet(Doublons(lieu)) /\ Cardinality(Doublons(lieu)) \in Nat
    <3>1. Doublons(lieu) = DoublonsDans(demandes, lieu)
      BY DEF Doublons, DoublonsDans
    <3> QED BY <1>1, <3>1, DoublonsFinis
  <2>e. EnRoute(lieu) \subseteq Requetes
    BY DEF EnRoute
  <2>f. /\ IsFiniteSet(EnRoute(lieu)) /\ Cardinality(EnRoute(lieu)) \in Nat
        /\ Cardinality(Requetes) \in Nat
    BY <2>e, RequetesFinies
  <2>g. 1..n = (1..Len(demandes)) \cup {n} /\ n \notin 1..Len(demandes)
    BY <1>1
  <2>1. CASE lieu = l
    <3>1. Doublons(l)' = Doublons(l) \cup {n} /\ n \notin Doublons(l)
      BY <1>6, <2>g DEF Doublons, ligne
    <3>2. Cardinality(Doublons(l)') = Cardinality(Doublons(l)) + 1
      BY <2>1, <2>d, <3>1, FS_AddElement
    <3>3. EnRoute(l)' = EnRoute(l) \ {r} /\ r \in EnRoute(l)
      BY <1>1, <1>2 DEF EnRoute, Devient
    <3>4. Cardinality(EnRoute(l)') = Cardinality(EnRoute(l)) - 1
      BY <2>1, <2>f, <3>3, FS_RemoveElement
    <3> QED BY <2>1, <2>d, <2>f, <3>2, <3>4 DEF SoumissionInv, DoublonBorne
  <2>2. CASE lieu # l
    <3>1. Doublons(lieu)' = Doublons(lieu)
      BY <1>6, <2>2, <2>g DEF Doublons, ligne
    <3>2. EnRoute(lieu)' = EnRoute(lieu)
      BY <1>1, <1>2, <2>2 DEF EnRoute, Devient
    <3> QED BY <3>1, <3>2 DEF SoumissionInv, DoublonBorne
  <2> QED BY <2>1, <2>2
<1> HIDE DEF e
<1> QED BY <1>2, <1>3, <1>4, <1>6, <1>7, <1>8, SoumissionReunie

\* Time passes, and the Demandes are accepted or cancelled.
LEMMA DemandesVieillissent ==
  ASSUME SoumissionInv, PasserFenetre \/ PasserHeure \/ CesserDiffusion
  PROVE  Vieillit(demandes, demandes') /\ UNCHANGED <<file, requete>>
<1>t. demandes \in Seq(LignesDemande)
  BY DEF SoumissionInv
<1>1. ASSUME NEW i \in 1..Len(demandes), NEW l \in LignesDemande,
             ~l.recente \/ ~l.diffusee, demandes' = [demandes EXCEPT ![i] = l]
      PROVE  Vieillit(demandes, demandes')
  BY <1>1, <1>t, LigneVieillit
<1>2. \A i \in 1..Len(demandes) : demandes[i] \in LignesDemande
  BY <1>t, ElementOfSeq
<1>3. CASE PasserFenetre
  <2>1. PICK i \in 1..Len(demandes) :
          demandes' = [demandes EXCEPT ![i].recente = FALSE]
    BY <1>3 DEF PasserFenetre
  <2> DEFINE l == [demandes[i] EXCEPT !.recente = FALSE]
  <2>2. l \in LignesDemande /\ ~l.recente
    BY <1>2 DEF LignesDemande
  <2>3. demandes' = [demandes EXCEPT ![i] = l]
    BY <2>1
  <2> HIDE DEF l
  <2> QED BY <1>1, <1>3, <2>2, <2>3 DEF PasserFenetre
<1>4. CASE CesserDiffusion
  <2>1. PICK i \in 1..Len(demandes) :
          demandes' = [demandes EXCEPT ![i].diffusee = FALSE]
    BY <1>4 DEF CesserDiffusion
  <2> DEFINE l == [demandes[i] EXCEPT !.diffusee = FALSE]
  <2>2. l \in LignesDemande /\ ~l.diffusee
    BY <1>2 DEF LignesDemande
  <2>3. demandes' = [demandes EXCEPT ![i] = l]
    BY <2>1
  <2> HIDE DEF l
  <2> QED BY <1>1, <1>4, <2>2, <2>3 DEF CesserDiffusion
<1>5. CASE PasserHeure
  BY <1>5, <1>t, PremiereOubliee DEF PasserHeure
<1> QED BY <1>3, <1>4, <1>5

\* Everything that the status of an answer decides in the queue.
LEMMA ReponseClassee ==
  ASSUME NEW code \in CodesSoumission, ~Retentable(code), ~(StatutSoumission(code) >= 400)
  PROVE  code \in {"REQUEST_CREATED", "REQUEST_DUPLICATE"}
BY DEF StatutSoumission, Retentable, CodesSoumission, RefusDeForme, RefusDeFond

LEMMA FileVidee ==
  ASSUME SoumissionInv, NEW r \in Requetes, RecevoirReponse(r), FileAvance, FileTenue'
  PROVE  SoumissionInv'
<1>1. Devient(r, Repos) /\ UNCHANGED demandes
  BY DEF RecevoirReponse
<1>2. Repos \in EtatsSoumission /\ Repos.op \notin {"quota", "inserer"} /\ Suivie(Repos)'
  BY EtatsAdmisSoumission DEF Repos, Suivie
<1> QED BY <1>1, <1>2, SoumissionCalme

\* The queue reads the answer.
LEMMA FileRepondue ==
  ASSUME SoumissionInv, NEW r \in Requetes, RecevoirReponse(r)
  PROVE  SoumissionInv'
<1>c. PICK code : code = requete[r].code
  OBVIOUS
<1>1. /\ requete[r].op = "reponse"
      /\ code \in CodesSoumission
      /\ file.lieu \in Lieux
      /\ code \in {"REQUEST_CREATED", "REQUEST_DUPLICATE"} => file.traitee
      /\ FileTenue /\ file \in Files
  BY <1>c, ChampsSoumission DEF RecevoirReponse, SoumissionInv, Suivie, FileTenue
<1>2. CASE Retentable(code)
  <2>1. file' = [file EXCEPT !.attend = TRUE]
    BY <1>2, <1>c DEF RecevoirReponse
  <2>2. /\ file' \in Files /\ file'.attend /\ file'.lieu = file.lieu
        /\ file'.traitee = file.traitee
    BY <1>1, <2>1 DEF Files
  <2> QED BY <1>1, <2>2, FileVidee DEF FileTenue, FileAvance
<1>3. CASE ~Retentable(code)
  <2> DEFINE m == file.morte \/ StatutSoumission(code) >= 400
  <2>1. file' = [file EXCEPT !.attend = FALSE, !.morte = m]
    BY <1>3, <1>c DEF RecevoirReponse
  <2>2. m \in BOOLEAN /\ (m \/ file.traitee)
    BY <1>1, <1>3, ReponseClassee DEF Files
  <2> HIDE DEF m
  <2>3. /\ file' \in Files /\ ~file'.attend /\ file'.morte = m /\ file'.lieu = file.lieu
        /\ file'.traitee = file.traitee
    BY <1>1, <2>1, <2>2 DEF Files
  <2> QED BY <1>1, <2>2, <2>3, FileVidee DEF FileTenue, FileAvance
<1> QED BY <1>2, <1>3

\* A form, or the queue, is read by the service.
LEMMA SoumissionDemandee ==
  ASSUME SoumissionInv, NEW r \in Requetes, NEW l \in Lieux, NEW b \in BOOLEAN,
         Soumettre(r, l, b), UNCHANGED soumission, b => file.lieu \in Lieux
  PROVE  SoumissionInv'
<1>1. /\ UNCHANGED demandes /\ UNCHANGED file
      /\ FileAvance /\ FileTenue'
  BY FileIntacte DEF soumission
<1>2. ASSUME NEW code \in RefusDeForme, Rendre(r, code, b)
      PROVE  SoumissionInv'
  <2>1. code \in CodesSoumission /\ code \notin {"REQUEST_CREATED", "REQUEST_DUPLICATE"}
    BY DEF RefusDeForme, CodesSoumission
  <2> QED BY <1>1, <1>2, <2>1, ReponseRendue
<1>3. CASE Devient(r, [op |-> "doublon", lieu |-> l, deFile |-> b])
  <2> DEFINE e == [op |-> "doublon", lieu |-> l, deFile |-> b]
  <2>1. e \in EtatsSoumission /\ Suivie(e)' /\ e.op \notin {"quota", "inserer"}
    BY <1>1, EtatsAdmisSoumission DEF Suivie
  <2> HIDE DEF e
  <2> QED BY <1>1, <1>3, <2>1, SoumissionCalme DEF e
<1> QED BY <1>2, <1>3 DEF Soumettre

LEMMA SoumissionInvNext ==
  ASSUME SoumissionInv, SoumissionNext
  PROVE  SoumissionInv'
<1>t. /\ requete \in [Requetes -> EtatsSoumission]
      /\ \A r \in Requetes : Suivie(requete[r])
      /\ FileTenue
  BY DEF SoumissionInv
<1>f. ASSUME UNCHANGED file
      PROVE  FileAvance /\ FileTenue'
  BY <1>f, FileIntacte
\* A request still on its way to its row.
<1>q. ASSUME NEW r \in Requetes,
             requete[r].op \in {"doublon", "quota", "inserer", "consigner"}
      PROVE  /\ requete[r].lieu \in Lieux /\ requete[r].deFile \in BOOLEAN
             /\ requete[r].deFile => file.lieu \in Lieux
  BY <1>q, <1>t, ChampsSoumission DEF Suivie
<1>1. CASE PasserFenetre \/ PasserHeure \/ CesserDiffusion
  <2>1. Vieillit(demandes, demandes') /\ UNCHANGED <<file, requete>>
    BY <1>1, DemandesVieillissent
  <2>2. Inserent' = Inserent /\ \A lieu \in Lieux : EnRoute(lieu)' = EnRoute(lieu)
    BY <2>1 DEF Inserent, EnRoute
  <2>3. /\ demandes' \in Seq(LignesDemande)
        /\ QuotaBorne' /\ \A lieu \in Lieux : DoublonBorne(lieu)'
    BY <2>1, <2>2, BornesGardees
  <2>4. \A r \in Requetes : Suivie(requete[r])'
    BY <1>t, <2>1 DEF Suivie
  <2> QED BY <1>t, <1>f, <2>1, <2>3, <2>4 DEF SoumissionInv
<1>2. CASE Enfiler
  <2>1. PICK lieu \in Lieux : file' = [file EXCEPT !.lieu = lieu, !.attend = TRUE]
    BY <1>2 DEF Enfiler
  <2>2. /\ file' \in Files /\ file'.attend /\ file'.lieu = lieu
        /\ file'.traitee = file.traitee
    BY <1>t, <2>1 DEF FileTenue, Files
  <2>3. UNCHANGED <<demandes, requete>>
    BY <1>2 DEF Enfiler
  <2>4. FileAvance /\ FileTenue'
    BY <2>2 DEF FileAvance, FileTenue
  <2>5. ASSUME NEW r \in Requetes
        PROVE  Suivie(requete[r])'
    <3>1. PICK q : q = requete[r]
      OBVIOUS
    <3>2. Suivie(q)'
      BY <1>t, <2>4, <3>1, SuivieReste
    <3> QED BY <2>3, <3>1, <3>2
  <2>6. /\ Inserent' \subseteq Inserent
        /\ \A place \in Lieux : EnRoute(place)' \subseteq EnRoute(place)
    BY <2>3 DEF Inserent, EnRoute
  <2>7. /\ demandes' \in Seq(LignesDemande)
        /\ QuotaBorne' /\ \A place \in Lieux : DoublonBorne(place)'
    BY <2>3, <2>6, BornesGardees
  <2> QED BY <1>t, <2>3, <2>4, <2>5, <2>7 DEF SoumissionInv
<1>3. ASSUME NEW r \in Requetes, Interrompre(r), UNCHANGED soumission
      PROVE  SoumissionInv'
  <2>1. Repos \in EtatsSoumission /\ Repos.op \notin {"quota", "inserer"} /\ Suivie(Repos)'
    BY EtatsAdmisSoumission DEF Repos, Suivie
  <2> QED BY <1>3, <1>f, <2>1, SoumissionCalme DEF Interrompre, soumission
<1>4. ASSUME NEW r \in Requetes, DemanderSoumission(r)
      PROVE  SoumissionInv'
  BY <1>4, SoumissionDemandee DEF DemanderSoumission
<1>5. ASSUME NEW r \in Requetes, NEW code \in CodesSoumission,
             requete[r].op \in {"doublon", "quota", "inserer", "consigner"},
             Terminer(r, code), UNCHANGED soumission,
             code \in {"REQUEST_CREATED", "REQUEST_DUPLICATE"} =>
               requete[r].op = "consigner"
      PROVE  SoumissionInv'
  <2>b. PICK b : b = requete[r].deFile
    OBVIOUS
  <2>1. /\ b \in BOOLEAN
        /\ b => file.lieu \in Lieux
        /\ b /\ code \in {"REQUEST_CREATED", "REQUEST_DUPLICATE"} => file.traitee
    BY <1>5, <1>q, <1>t, <2>b DEF Suivie
  <2>2. Rendre(r, code, b)
    BY <1>5, <2>b DEF Terminer
  <2>3. UNCHANGED demandes /\ UNCHANGED file
    BY <1>5 DEF soumission
  <2> QED BY <1>f, <2>1, <2>2, <2>3, ReponseRendue
<1>6. ASSUME NEW r \in Requetes, ChercherDoublon(r)
      PROVE  SoumissionInv'
  <2>1. CASE Doublons(requete[r].lieu) # {}
    <3>b. PICK b : b = requete[r].deFile
      OBVIOUS
    <3>1. /\ b \in BOOLEAN
          /\ b => file.lieu \in Lieux
          /\ Traiter(r) /\ Rendre(r, "REQUEST_DUPLICATE", b) /\ UNCHANGED demandes
      BY <1>6, <1>q, <2>1, <3>b DEF ChercherDoublon, Terminer
    <3>2. /\ FileAvance /\ FileTenue'
          /\ b => file'.traitee
          /\ file'.lieu = file.lieu
      BY <3>1, <3>b, FileTraitee
    <3>3. "REQUEST_DUPLICATE" \in CodesSoumission
      BY DEF CodesSoumission
    <3> QED BY <3>1, <3>2, <3>3, ReponseRendue
  <2>2. CASE Doublons(requete[r].lieu) = {}
    <3>1. /\ requete[r].op = "doublon" /\ Passer(r, "quota") /\ UNCHANGED soumission
      BY <1>6, <2>2 DEF ChercherDoublon, soumission
    <3> QED BY <2>2, <3>1, DoublonPasse
  <2> QED BY <2>1, <2>2
<1>7. ASSUME NEW r \in Requetes, CompterQuota(r)
      PROVE  SoumissionInv'
  <2>1. /\ "RATE_LIMIT_EXCEEDED" \in CodesSoumission /\ RefusDeFond \subseteq CodesSoumission
        /\ "RATE_LIMIT_EXCEEDED" \notin {"REQUEST_CREATED", "REQUEST_DUPLICATE"}
        /\ \A code \in RefusDeFond : code \notin {"REQUEST_CREATED", "REQUEST_DUPLICATE"}
    BY DEF CodesSoumission, RefusDeFond
  <2>2. requete[r].op = "quota" /\ UNCHANGED soumission
    BY <1>7 DEF CompterQuota
  <2>3. \/ ~QuotaAtteint /\ Passer(r, "inserer")
        \/ Terminer(r, "RATE_LIMIT_EXCEEDED")
        \/ \E code \in RefusDeFond : Terminer(r, code)
    BY <1>7 DEF CompterQuota
  <2> QED BY <1>5, <2>1, <2>2, <2>3, QuotaPasse
<1>8. ASSUME NEW r \in Requetes, ConsignerSoumission(r) \/ EchouerEnBase(r)
      PROVE  SoumissionInv'
  <2>1. "REQUEST_CREATED" \in CodesSoumission /\ "SERVICE_UNAVAILABLE" \in CodesSoumission
    BY DEF CodesSoumission
  <2> QED BY <1>8, <1>5, <2>1 DEF ConsignerSoumission, EchouerEnBase
<1>9. ASSUME NEW r \in Requetes, Rejouer(r)
      PROVE  SoumissionInv'
  <2>l. PICK l : l = file.lieu
    OBVIOUS
  <2>1. l \in Lieux /\ UNCHANGED soumission
    BY <1>9, <1>t, <2>l DEF Rejouer, FileTenue
  <2>2. CASE Soumettre(r, l, TRUE)
    BY <2>l, <2>1, <2>2, SoumissionDemandee
  <2>3. CASE Devient(r, [op |-> "reponse", code |-> "AUTH_MISSING"])
    <3>1. Rendre(r, "AUTH_MISSING", TRUE)
      BY <2>3 DEF Rendre
    <3>2. "AUTH_MISSING" \in CodesSoumission
      BY DEF CodesSoumission
    <3>3. UNCHANGED demandes /\ UNCHANGED file
      BY <2>1 DEF soumission
    <3> QED BY <1>f, <2>l, <2>1, <3>1, <3>2, <3>3, ReponseRendue
  <2> QED BY <1>9, <2>l, <2>2, <2>3 DEF Rejouer
<1> QED BY <1>1, <1>2, <1>3, <1>4, <1>6, <1>7, <1>8, <1>9, DemandeInseree, FileRepondue
        DEF SoumissionNext, SoumettreDemande, FlushQueue

LEMMA SoumissionInvInit ==
  ASSUME AppelsInit, SoumissionInit
  PROVE  SoumissionInv
<1>1. /\ requete \in [Requetes -> EtatsSoumission]
      /\ \A r \in Requetes : requete[r].op = "repos" /\ Suivie(requete[r])
  <2>1. Repos.op = "repos" /\ Suivie(Repos)
    BY DEF Repos, Suivie
  <2> QED BY <2>1, EtatsAdmisSoumission DEF AppelsInit
<1>2. /\ demandes \in Seq(LignesDemande) /\ Len(demandes) = 0
      /\ \A lieu : Doublons(lieu) = {}
  <2>1. demandes = <<>> /\ Len(<<>>) = 0 /\ <<>> \in Seq(LignesDemande)
    BY DEF SoumissionInit
  <2> QED BY <2>1 DEF Doublons
<1>3. Inserent = {} /\ \A lieu \in Lieux : EnRoute(lieu) = {}
  BY <1>1 DEF Inserent, EnRoute
<1>4. Cardinality(Requetes) \in Nat \ {0}
  BY RequetesFinies
<1>5. Cardinality({}) = 0
  BY FS_EmptySet
<1>6. QuotaBorne
  <2>1. Len(demandes) = 0 /\ Cardinality(Inserent) = 0 /\ QUOTA \in Nat
    BY <1>2, <1>3, <1>5, SoumissionAssumption
  <2> QED BY <1>4, <2>1 DEF QuotaBorne
<1>7. \A lieu \in Lieux : DoublonBorne(lieu)
  <2>1. ASSUME NEW lieu \in Lieux
        PROVE  DoublonBorne(lieu)
    <3>1. Cardinality(Doublons(lieu)) = 0 /\ Cardinality(EnRoute(lieu)) = 0
      BY <1>2, <1>3, <1>5
    <3> QED BY <1>4, <3>1 DEF DoublonBorne
  <2> QED BY <2>1
<1>8. FileTenue
  <2>1. /\ FileVide \in Files /\ FileVide.lieu = "aucun" /\ ~FileVide.attend
    BY DEF FileVide, Files
  <2> QED BY <2>1 DEF SoumissionInit, FileTenue
<1> QED BY <1>1, <1>2, <1>6, <1>7, <1>8 DEF SoumissionInv

-----------------------------------------------------------------------------
\* The live feed of a Mission.
Versions == 0..VERSIONS_MAX

\* v is in the queue q, or behind its i-th notice.
Dans(q, v) == \E j \in 1..Len(q) : q[j] = v

DansApres(q, i, v) == \E j \in 1..Len(q) : j > i /\ q[j] = v

\* The notices in flight are in the order of the changes, and miss none of those
\* that follow the first one of them.
AvisSuivis ==
  \A i \in 1..Len(avis), w \in 1..version :
    avis[i] # AUTRE /\ avis[i] < w => DansApres(avis, i, w)

\* So are the ones an uncut socket holds, continued by those in flight.
AttenteSuivie(s) ==
  \A i \in 1..Len(s.attente), w \in 1..version :
    s.attente[i] # AUTRE /\ s.attente[i] < w =>
      DansApres(s.attente, i, w) \/ Dans(avis, w)

SansTrou(s) ==
  \A v \in 1..version :
    s.depuis < v => v <= s.signale \/ Dans(avis, v) \/ Dans(s.attente, v)

Suit(s) ==
  s.op = "ouverte" /\ ~s.coupee =>
    /\ ecoute
    /\ AttenteSuivie(s)
    /\ ~s.distancee => SansTrou(s)

DirectInv ==
  /\ DirectOK
  /\ ~ecoute => avis = <<>>
  /\ AvisSuivis
  /\ \A r \in Requetes : Suit(requete[r])

LEMMA DirectInvSuffit == DirectInv => DirectOK /\ FluxSansTrou
<1> SUFFICES ASSUME DirectInv PROVE DirectOK /\ FluxSansTrou
  OBVIOUS
<1>1. ASSUME NEW r \in Requetes, Ouverte(r), ~requete[r].coupee,
             ~requete[r].distancee, NEW v \in (requete[r].depuis + 1)..version
      PROVE  \/ v <= requete[r].signale
             \/ \E i \in 1..Len(avis) : avis[i] = v
             \/ \E i \in 1..Len(requete[r].attente) : requete[r].attente[i] = v
  <2>1. SansTrou(requete[r])
    BY <1>1 DEF DirectInv, Suit, Ouverte
  <2>2. requete[r].depuis \in Nat
    BY <1>1 DEF DirectInv, DirectOK, EtatsDirect, Ouverte, Repos
  <2>3. version \in Nat
    BY DirectAssumption DEF DirectInv, DirectOK
  <2>4. v \in 1..version /\ requete[r].depuis < v
    BY <1>1, <2>2, <2>3
  <2> QED BY <2>1, <2>4 DEF SansTrou, Dans
<1> QED BY <1>1 DEF DirectInv, FluxSansTrou

\* An open socket, field by field.
Sockets ==
  [op : {"ouverte"}, attente : Seq(Versions), distancee : BOOLEAN,
   depuis : Versions, signale : Versions, coupee : BOOLEAN]

LEMMA ChampsDirect ==
  ASSUME NEW s \in EtatsDirect, s.op = "ouverte"
  PROVE  s \in Sockets
BY DEF EtatsDirect, Sockets, Versions, Repos

LEMMA EtatsAdmisDirect ==
  /\ Repos \in EtatsDirect /\ Repos.op # "ouverte"
  /\ [op |-> "acces"] \in EtatsDirect
  /\ \A s \in Sockets : s \in EtatsDirect
  /\ \A code \in CodesDirect :
       Repondu(code) \in EtatsDirect /\ Repondu(code).op # "ouverte"
BY DEF EtatsDirect, Sockets, Versions, Repos, Repondu

\* What a queue holds after its first one has gone, or one has come.
LEMMA FileDeVersions ==
  ASSUME NEW q \in Seq(Versions)
  PROVE  /\ Len(q) \in Nat
         /\ \A i \in 1..Len(q) : q[i] \in Versions
         /\ \A v \in Versions :
              /\ Append(q, v) \in Seq(Versions) /\ Len(Append(q, v)) = Len(q) + 1
              /\ Append(q, v)[Len(q) + 1] = v
              /\ \A i \in 1..Len(q) : Append(q, v)[i] = q[i]
         /\ q # <<>> =>
              /\ Len(q) > 0
              /\ Head(q) = q[1] /\ Head(q) \in Versions
              /\ Tail(q) \in Seq(Versions) /\ Len(Tail(q)) = Len(q) - 1
              /\ \A i \in 1..Len(Tail(q)) : Tail(q)[i] = q[i + 1]
<1>1. Len(q) \in Nat /\ \A i \in 1..Len(q) : q[i] \in Versions
  BY LenProperties, ElementOfSeq
<1>2. \A v \in Versions :
        /\ Append(q, v) \in Seq(Versions) /\ Len(Append(q, v)) = Len(q) + 1
        /\ Append(q, v)[Len(q) + 1] = v
        /\ \A i \in 1..Len(q) : Append(q, v)[i] = q[i]
  BY <1>1
<1>3. ASSUME q # <<>>
      PROVE  /\ Len(q) > 0
             /\ Head(q) = q[1] /\ Head(q) \in Versions
             /\ Tail(q) \in Seq(Versions) /\ Len(Tail(q)) = Len(q) - 1
             /\ \A i \in 1..Len(Tail(q)) : Tail(q)[i] = q[i + 1]
  <2>1. Len(q) > 0
    BY <1>1, <1>3, EmptySeq
  <2>2. Head(q) = q[1]
    BY <1>1, <2>1
  <2> QED BY <1>3, <2>1, <2>2, HeadTailProperties
<1> QED BY <1>1, <1>2, <1>3

LEMMA DansAjoutee ==
  ASSUME NEW q \in Seq(Versions), NEW v \in Versions
  PROVE  /\ \A w : Dans(Append(q, v), w) <=> Dans(q, w) \/ w = v
         /\ \A i \in 1..Len(q) : \A w :
              DansApres(Append(q, v), i, w) <=> DansApres(q, i, w) \/ w = v
<1> DEFINE t == Append(q, v)
<1>1. /\ Len(q) \in Nat /\ Len(t) = Len(q) + 1
      /\ t[Len(q) + 1] = v
      /\ \A i \in 1..Len(q) : t[i] = q[i]
  BY FileDeVersions
<1> HIDE DEF t
<1>2. 1..Len(t) = (1..Len(q)) \cup {Len(q) + 1}
  BY <1>1
<1>3. \A w : Dans(t, w) <=> Dans(q, w) \/ w = v
  BY <1>1, <1>2 DEF Dans
<1>4. \A i \in 1..Len(q) : \A w : DansApres(t, i, w) <=> DansApres(q, i, w) \/ w = v
  <2>1. ASSUME NEW i \in 1..Len(q)
        PROVE  Len(q) + 1 > i
    BY <1>1
  <2> QED BY <1>1, <1>2, <2>1 DEF DansApres
<1> QED BY <1>3, <1>4 DEF t

LEMMA DansLaSuite ==
  ASSUME NEW q \in Seq(Versions), q # <<>>
  PROVE  /\ \A w : Dans(q, w) <=> w = Head(q) \/ Dans(Tail(q), w)
         /\ \A w : DansApres(q, 1, w) => Dans(Tail(q), w)
         /\ \A i \in 1..Len(Tail(q)) : \A w :
              /\ i + 1 \in 1..Len(q)
              /\ Tail(q)[i] = q[i + 1]
              /\ DansApres(q, i + 1, w) => DansApres(Tail(q), i, w)
<1> DEFINE t == Tail(q)
<1>1. /\ Len(q) \in Nat /\ Len(q) > 0 /\ Len(t) = Len(q) - 1
      /\ Head(q) = q[1]
      /\ \A i \in 1..Len(t) : t[i] = q[i + 1]
  BY FileDeVersions
<1> HIDE DEF t
<1>2. \A i \in 1..Len(t) : i + 1 \in 1..Len(q) /\ t[i] = q[i + 1]
  BY <1>1
<1>3. ASSUME NEW j \in 1..Len(q), j > 1
      PROVE  j - 1 \in 1..Len(t) /\ t[j - 1] = q[j]
  <2>1. j - 1 \in 1..Len(t) /\ (j - 1) + 1 = j
    BY <1>1, <1>3
  <2> QED BY <1>2, <2>1
<1>4. ASSUME NEW w
      PROVE  Dans(q, w) <=> w = Head(q) \/ Dans(t, w)
  <2>1. ASSUME Dans(q, w)
        PROVE  w = Head(q) \/ Dans(t, w)
    <3>1. PICK j \in 1..Len(q) : q[j] = w
      BY <2>1 DEF Dans
    <3>2. CASE j = 1
      BY <1>1, <3>1, <3>2
    <3>3. CASE j # 1
      <4>1. j > 1
        BY <3>3, <1>1
      <4> QED BY <1>3, <3>1, <4>1 DEF Dans
    <3> QED BY <3>2, <3>3
  <2>2. 1 \in 1..Len(q)
    BY <1>1
  <2> QED BY <1>1, <1>2, <2>1, <2>2 DEF Dans
<1>5. ASSUME NEW w, DansApres(q, 1, w)
      PROVE  Dans(t, w)
  BY <1>3, <1>5 DEF Dans, DansApres
<1>6. ASSUME NEW i \in 1..Len(t), NEW w, DansApres(q, i + 1, w)
      PROVE  DansApres(t, i, w)
  <2>1. PICK j \in 1..Len(q) : j > i + 1 /\ q[j] = w
    BY <1>6 DEF DansApres
  <2>2. j > 1 /\ j - 1 > i
    BY <1>1, <2>1
  <2> QED BY <1>3, <2>1, <2>2 DEF DansApres
<1> QED BY <1>2, <1>4, <1>5, <1>6 DEF t

\* What the bus makes of a subscriber: either nothing falls, or it is told.
LEMMA Deposee ==
  ASSUME NEW s \in Sockets, Len(s.attente) <= PROFONDEUR, NEW v \in Versions,
         NEW t, t = Deposer(s, v)
  PROVE  /\ t \in Sockets /\ Len(t.attente) <= PROFONDEUR
         /\ t.coupee = s.coupee /\ t.depuis = s.depuis /\ t.signale = s.signale
         /\ \/ t.attente = Append(s.attente, v) /\ t.distancee = s.distancee
            \/ /\ s.attente # <<>>
               /\ t.attente = Append(Tail(s.attente), v)
               /\ t.distancee
<1>q. PICK q : q = s.attente
  OBVIOUS
<1>1. q \in Seq(Versions) /\ PROFONDEUR \in Nat \ {0}
  BY <1>q, DirectAssumption DEF Sockets
<1>2. CASE Len(q) < PROFONDEUR
  <2>1. t = [s EXCEPT !.attente = Append(q, v)]
    BY <1>2, <1>q DEF Deposer
  <2>2. Append(q, v) \in Seq(Versions) /\ Len(Append(q, v)) <= PROFONDEUR
    BY <1>1, <1>2, FileDeVersions
  <2>3. t \in Sockets /\ t.attente = Append(q, v)
    BY <2>1, <2>2 DEF Sockets
  <2>4. t.coupee = s.coupee /\ t.depuis = s.depuis /\ t.signale = s.signale
        /\ t.distancee = s.distancee
    BY <2>1 DEF Sockets
  <2> QED BY <1>q, <2>2, <2>3, <2>4
<1>3. CASE ~(Len(q) < PROFONDEUR)
  <2>1. q # <<>>
    BY <1>1, <1>3
  <2>2. Tail(q) \in Seq(Versions) /\ Len(Tail(q)) = Len(q) - 1 /\ Len(q) \in Nat
    BY <1>1, <2>1, FileDeVersions
  <2> DEFINE u == Append(Tail(q), v)
  <2>3. u \in Seq(Versions) /\ Len(u) = Len(q)
    BY <2>2, FileDeVersions
  <2>4. t = [s EXCEPT !.attente = u, !.distancee = TRUE]
    BY <1>3, <1>q DEF Deposer
  <2> HIDE DEF u
  <2>5. t \in Sockets /\ t.attente = u /\ t.distancee
    BY <2>3, <2>4 DEF Sockets
  <2>6. t.coupee = s.coupee /\ t.depuis = s.depuis /\ t.signale = s.signale
    BY <2>4 DEF Sockets
  <2> QED BY <1>q, <2>1, <2>3, <2>5, <2>6 DEF u
<1> QED BY <1>2, <1>3

\* A notice leaves the connection for the bus: each open socket has it in its
\* turn, and no notice that follows one it keeps is lost.
LEMMA DeposeeSuivie ==
  ASSUME DirectInv, avis # <<>>, avis' = Tail(avis), UNCHANGED <<version, ecoute>>,
         NEW s \in Sockets, Len(s.attente) <= PROFONDEUR, Suit(s),
         NEW t, t = Deposer(s, Head(avis))
  PROVE  Suit(t)'
<1>h. PICK h : h = Head(avis)
  OBVIOUS
<1>q. PICK q : q = s.attente
  OBVIOUS
<1>a. /\ avis \in Seq(Versions) /\ q \in Seq(Versions) /\ h \in Versions
      /\ version \in Nat /\ version \in Versions /\ Versions \subseteq Nat
      /\ AvisSuivis
  <2>1. avis \in Seq(Versions) /\ version \in Versions /\ AvisSuivis
    BY DEF DirectInv, DirectOK, Versions
  <2>2. Versions \subseteq Nat
    BY DirectAssumption DEF Versions
  <2>3. h \in Versions
    BY <1>h, <2>1, FileDeVersions
  <2> QED BY <1>q, <2>1, <2>2, <2>3 DEF Sockets
<1>t. /\ t \in Sockets
      /\ t.coupee = s.coupee /\ t.depuis = s.depuis /\ t.signale = s.signale
      /\ \/ t.attente = Append(q, h) /\ t.distancee = s.distancee
         \/ /\ q # <<>>
            /\ t.attente = Append(Tail(q), h)
            /\ t.distancee
  <2>1. t = Deposer(s, h) /\ h \in Versions
    BY <1>a, <1>h
  <2>2. /\ t \in Sockets
        /\ t.coupee = s.coupee /\ t.depuis = s.depuis /\ t.signale = s.signale
        /\ \/ t.attente = Append(s.attente, h) /\ t.distancee = s.distancee
           \/ /\ s.attente # <<>>
              /\ t.attente = Append(Tail(s.attente), h)
              /\ t.distancee
    BY <2>1, Deposee
  <2> QED BY <1>q, <2>2
<1> SUFFICES ASSUME ~t.coupee
             PROVE  /\ ecoute'
                    /\ AttenteSuivie(t)'
                    /\ ~t.distancee => SansTrou(t)'
  BY DEF Suit
<1>1. /\ ecoute /\ AttenteSuivie(s)
      /\ ~s.distancee => SansTrou(s)
  BY <1>t DEF Suit, Sockets
<1>d. \A w : Dans(avis, w) => w = h \/ Dans(avis', w)
  BY <1>a, <1>h, DansLaSuite
\* The notice that has just come is followed by those that remain.
<1>e. \A w \in 1..version : h # AUTRE /\ h < w => Dans(avis', w)
  <2>1. h = avis[1] /\ 1 \in 1..Len(avis)
    BY <1>a, <1>h, FileDeVersions
  <2>2. \A w : DansApres(avis, 1, w) => Dans(avis', w)
    BY <1>a, DansLaSuite
  <2> QED BY <1>a, <2>1, <2>2 DEF AvisSuivis
\* Those it already had are followed by the same, the one that has come included.
<1>f. ASSUME NEW u \in Seq(Versions), t.attente = Append(u, h),
             \A i \in 1..Len(u), w \in 1..version :
               u[i] # AUTRE /\ u[i] < w => DansApres(u, i, w) \/ Dans(avis, w)
      PROVE  AttenteSuivie(t)'
  <2> DEFINE p == Append(u, h)
  <2>1. /\ Len(u) \in Nat /\ Len(p) = Len(u) + 1
        /\ p[Len(u) + 1] = h
        /\ \A i \in 1..Len(u) : p[i] = u[i]
    BY <1>a, FileDeVersions
  <2>2. \A i \in 1..Len(u) : \A w : DansApres(p, i, w) <=> DansApres(u, i, w) \/ w = h
    BY <1>a, DansAjoutee
  <2> HIDE DEF p
  <2>3. 1..Len(p) = (1..Len(u)) \cup {Len(u) + 1}
    BY <2>1
  <2>4. ASSUME NEW i \in 1..Len(p), NEW w \in 1..version, p[i] # AUTRE, p[i] < w
        PROVE  DansApres(p, i, w) \/ Dans(avis', w)
    <3>1. CASE i \in 1..Len(u)
      BY <1>d, <1>f, <2>1, <2>2, <2>4, <3>1
    <3>2. CASE i = Len(u) + 1
      BY <1>e, <2>1, <2>4, <3>2
    <3> QED BY <2>3, <3>1, <3>2
  <2>5. t.attente = p
    BY <1>f DEF p
  <2> QED BY <2>4, <2>5 DEF AttenteSuivie
<1>2. CASE t.attente = Append(q, h) /\ t.distancee = s.distancee
  <2>1. AttenteSuivie(t)'
    BY <1>1, <1>2, <1>a, <1>f, <1>q DEF AttenteSuivie
  <2>2. ASSUME ~t.distancee
        PROVE  SansTrou(t)'
    <3>1. SansTrou(s)
      BY <1>1, <1>2, <2>2
    <3>2. \A w : Dans(t.attente, w) <=> Dans(q, w) \/ w = h
      <4>1. \A w : Dans(Append(q, h), w) <=> Dans(q, w) \/ w = h
        BY <1>a, DansAjoutee
      <4>2. PICK p : p = Append(q, h)
        OBVIOUS
      <4> QED BY <1>2, <4>1, <4>2
    <3>3. ASSUME NEW v \in 1..version, t.depuis < v
          PROVE  v <= t.signale \/ Dans(avis', v) \/ Dans(t.attente, v)
      BY <1>d, <1>q, <1>t, <3>1, <3>2, <3>3 DEF SansTrou
    <3> QED BY <3>3 DEF SansTrou
  <2> QED BY <1>1, <2>1, <2>2
<1>3. CASE q # <<>> /\ t.attente = Append(Tail(q), h) /\ t.distancee
  <2> DEFINE u == Tail(q)
  <2>1. /\ u \in Seq(Versions)
        /\ \A i \in 1..Len(u) : \A w :
             /\ i + 1 \in 1..Len(q)
             /\ u[i] = q[i + 1]
             /\ DansApres(q, i + 1, w) => DansApres(u, i, w)
    BY <1>3, <1>a, DansLaSuite, FileDeVersions
  <2> HIDE DEF u
  <2>2. \A i \in 1..Len(u), w \in 1..version :
          u[i] # AUTRE /\ u[i] < w => DansApres(u, i, w) \/ Dans(avis, w)
    BY <1>1, <1>q, <2>1 DEF AttenteSuivie
  <2>3. AttenteSuivie(t)'
    BY <1>3, <1>f, <2>1, <2>2 DEF u
  <2> QED BY <1>1, <1>3, <2>3
<1> QED BY <1>t, <1>2, <1>3

\* The Mission changes, or another one does: the notice goes behind the others.
LEMMA AvisEnvoye ==
  ASSUME DirectInv, NEW v \in Versions, Notifier(v), version' \in Versions,
         \/ v = AUTRE /\ version' = version
         \/ v = version + 1 /\ version' = version + 1
  PROVE  /\ avis' \in Seq(Versions)
         /\ AvisSuivis'
         /\ ecoute => \A w \in 1..version' :
                        (w \in 1..version => (Dans(avis, w) => Dans(avis', w)))
                        /\ (w \notin 1..version => Dans(avis', w))
<1>t. /\ avis \in Seq(Versions) /\ version \in Nat
      /\ AvisSuivis /\ (~ecoute => avis = <<>>)
      /\ Versions \subseteq Nat
  BY DirectAssumption DEF DirectInv, DirectOK, Versions
<1>1. CASE ~ecoute
  <2>1. avis' = <<>> /\ Len(<<>>) = 0 /\ <<>> \in Seq(Versions)
    BY <1>1, <1>t DEF Notifier
  <2>2. AvisSuivis'
    BY <2>1 DEF AvisSuivis
  <2> QED BY <1>1, <2>1, <2>2
<1>2. CASE ecoute
  <2>1. avis' = Append(avis, v)
    BY <1>2 DEF Notifier
  <2>2. /\ avis' \in Seq(Versions)
        /\ Len(avis) \in Nat /\ Len(avis') = Len(avis) + 1
        /\ avis'[Len(avis) + 1] = v
        /\ \A i \in 1..Len(avis) : avis[i] \in Versions /\ avis'[i] = avis[i]
    BY <1>t, <2>1, FileDeVersions
  <2>3. /\ \A w : Dans(avis', w) <=> Dans(avis, w) \/ w = v
        /\ \A i \in 1..Len(avis) : \A w :
             DansApres(avis', i, w) <=> DansApres(avis, i, w) \/ w = v
    BY <1>t, <2>1, DansAjoutee
  <2>4. \A w \in 1..version' : w \in 1..version \/ (w = v /\ v = version + 1)
    BY <1>t
  <2>5. ASSUME NEW i \in 1..Len(avis'), NEW w \in 1..version',
               avis'[i] # AUTRE, avis'[i] < w
        PROVE  DansApres(avis', i, w)
    <3>1. i \in 1..Len(avis) \/ i = Len(avis) + 1
      BY <2>2
    <3>2. CASE i \in 1..Len(avis)
      <4>1. avis[i] # AUTRE /\ avis[i] < w
        BY <2>2, <2>5, <3>2
      <4>2. w \in 1..version => DansApres(avis, i, w)
        BY <1>t, <3>2, <4>1 DEF AvisSuivis
      <4> QED BY <2>3, <2>4, <3>2, <4>2
    <3>3. CASE i = Len(avis) + 1
      <4>1. v # AUTRE /\ v < w
        BY <2>2, <2>5, <3>3
      <4>2. v = version + 1 /\ version' = version + 1
        BY <4>1
      <4> QED BY <1>t, <4>1, <4>2
    <3> QED BY <3>1, <3>2, <3>3
  <2>6. AvisSuivis'
    BY <2>5 DEF AvisSuivis
  <2> QED BY <2>2, <2>3, <2>4, <2>6
<1> QED BY <1>1, <1>2

\* The sockets that follow are told of it as long as the listener holds.
LEMMA ChangementSuivi ==
  ASSUME NEW s \in EtatsDirect, Suit(s), UNCHANGED ecoute, version \in Nat,
         version' \in Nat,
         ecoute => \A w \in 1..version' :
                     (w \in 1..version => (Dans(avis, w) => Dans(avis', w)))
                     /\ (w \notin 1..version => Dans(avis', w))
  PROVE  Suit(s)'
<1> SUFFICES ASSUME s.op = "ouverte", ~s.coupee
             PROVE  /\ ecoute'
                    /\ AttenteSuivie(s)'
                    /\ ~s.distancee => SansTrou(s)'
  BY DEF Suit
<1>1. ecoute /\ AttenteSuivie(s) /\ (~s.distancee => SansTrou(s))
  BY DEF Suit
<1>2. AttenteSuivie(s)'
  BY <1>1 DEF AttenteSuivie
<1>3. ~s.distancee => SansTrou(s)'
  BY <1>1 DEF SansTrou
<1> QED BY <1>1, <1>2, <1>3

\* A request that has no open socket follows nothing.
LEMMA SansSocket ==
  ASSUME NEW s, s.op # "ouverte"
  PROVE  Suit(s) /\ Suit(s)'
BY DEF Suit

\* A change of the Mission, or of another one.
LEMMA ChangementNext ==
  ASSUME DirectInv, ChangerMission \/ ChangerUneAutre
  PROVE  DirectInv'
<1>t. /\ DirectOK /\ version \in Versions /\ Versions \subseteq Nat
      /\ VERSIONS_MAX \in Nat
      /\ requete \in [Requetes -> EtatsDirect]
      /\ \A r \in Requetes : Suit(requete[r])
      /\ ~ecoute => avis = <<>>
  BY DirectAssumption DEF DirectInv, DirectOK, Versions
<1>1. /\ UNCHANGED <<ecoute, billets, requete>>
      /\ version' \in Versions
      /\ \E v \in Versions : /\ Notifier(v)
                             /\ \/ v = AUTRE /\ version' = version
                                \/ v = version + 1 /\ version' = version + 1
  <2>1. CASE ChangerMission
    BY <1>t, <2>1 DEF ChangerMission, Versions
  <2>2. CASE ChangerUneAutre
    BY <1>t, <2>2 DEF ChangerUneAutre, Versions, AUTRE
  <2> QED BY <2>1, <2>2
<1>2. PICK v \in Versions : /\ Notifier(v)
                            /\ \/ v = AUTRE /\ version' = version
                               \/ v = version + 1 /\ version' = version + 1
  BY <1>1
<1>3. /\ avis' \in Seq(Versions)
      /\ AvisSuivis'
      /\ ecoute => \A w \in 1..version' :
                     (w \in 1..version => (Dans(avis, w) => Dans(avis', w)))
                     /\ (w \notin 1..version => Dans(avis', w))
  BY <1>1, <1>2, AvisEnvoye
<1>4. DirectOK'
  BY <1>t, <1>1, <1>3 DEF DirectOK, Ouverte, Versions
<1>5. ASSUME NEW r \in Requetes
      PROVE  Suit(requete[r])'
  <2>1. PICK s : s = requete[r]
    OBVIOUS
  <2>2. Suit(s)'
    BY <1>t, <1>1, <1>3, <2>1, ChangementSuivi
  <2> QED BY <1>1, <2>1, <2>2
<1>6. ~ecoute' => avis' = <<>>
  BY <1>t, <1>1, <1>2 DEF Notifier
<1> QED BY <1>3, <1>4, <1>5, <1>6 DEF DirectInv

\* Nothing that a socket follows has moved.
LEMMA SocketCalme ==
  ASSUME NEW s, Suit(s), UNCHANGED <<version, avis, ecoute>>
  PROVE  Suit(s)'
BY DEF Suit, AttenteSuivie, SansTrou

\* The listener is cut: the notices in flight are lost, and every socket that is
\* open has been cut.
LEMMA CoupureNext ==
  ASSUME DirectInv, CouperEcoute
  PROVE  DirectInv'
<1>t. DirectOK /\ requete \in [Requetes -> EtatsDirect]
  BY DEF DirectInv, DirectOK
<1>1. avis' = <<>> /\ Len(<<>>) = 0 /\ <<>> \in Seq(0..VERSIONS_MAX) /\ AvisSuivis'
  BY DEF CouperEcoute, AvisSuivis
<1>2. ASSUME NEW r \in Requetes
      PROVE  /\ requete'[r] \in EtatsDirect
             /\ requete'[r].op = "ouverte" =>
                  requete'[r].coupee /\ Len(requete'[r].attente) <= PROFONDEUR
             /\ Suit(requete[r])'
  <2>s. PICK s : s = requete[r]
    OBVIOUS
  <2>1. CASE s.op = "ouverte"
    <3> DEFINE t == [s EXCEPT !.coupee = TRUE]
    <3>1. s \in Sockets
      BY <1>t, <2>s, <2>1, ChampsDirect
    <3>2. t \in Sockets /\ t.coupee /\ t.attente = s.attente
      BY <3>1 DEF Sockets
    <3>3. requete'[r] = t
      BY <2>s, <2>1 DEF CouperEcoute, Ouverte
    <3>4. Len(s.attente) <= PROFONDEUR
      BY <1>t, <2>s, <2>1 DEF DirectOK, Ouverte
    <3> HIDE DEF t
    <3>5. Suit(t)'
      BY <3>2 DEF Suit
    <3>6. t \in EtatsDirect
      BY <3>2, EtatsAdmisDirect
    <3> QED BY <3>2, <3>3, <3>4, <3>5, <3>6
  <2>2. CASE s.op # "ouverte"
    <3>1. requete'[r] = s
      BY <2>s, <2>2 DEF CouperEcoute, Ouverte
    <3>2. Suit(s)'
      BY <2>2, SansSocket
    <3> QED BY <1>t, <2>s, <2>2, <3>1, <3>2
  <2> QED BY <2>1, <2>2
<1>3. requete' \in [Requetes -> EtatsDirect]
  BY <1>2 DEF CouperEcoute
<1>4. DirectOK'
  BY <1>t, <1>1, <1>2, <1>3 DEF DirectOK, CouperEcoute, Ouverte
<1> QED BY <1>1, <1>2, <1>4 DEF DirectInv

\* It listens again: a socket that is open has been cut.
LEMMA RepriseNext ==
  ASSUME DirectInv, ReprendreEcoute
  PROVE  DirectInv'
<1>1. DirectOK' /\ AvisSuivis' /\ ecoute'
  BY DEF DirectInv, DirectOK, AvisSuivis, ReprendreEcoute, Ouverte
<1>2. ASSUME NEW r \in Requetes
      PROVE  Suit(requete[r])'
  BY DEF DirectInv, Suit, ReprendreEcoute
<1> QED BY <1>1, <1>2 DEF DirectInv

\* The next notice goes on the bus.
LEMMA PublicationNext ==
  ASSUME DirectInv, Publier
  PROVE  DirectInv'
<1>t. /\ DirectOK /\ requete \in [Requetes -> EtatsDirect]
      /\ avis \in Seq(Versions) /\ avis # <<>>
      /\ AvisSuivis
      /\ version \in Nat
  BY DirectAssumption DEF DirectInv, DirectOK, Publier, Versions
<1>p. /\ avis' = Tail(avis) /\ UNCHANGED <<version, ecoute, billets>>
  BY DEF Publier
<1>h. Head(avis) \in Versions /\ Tail(avis) \in Seq(Versions)
  BY <1>t, FileDeVersions
<1>1. AvisSuivis'
  <2>1. \A i \in 1..Len(avis') : \A w :
          /\ i + 1 \in 1..Len(avis)
          /\ avis'[i] = avis[i + 1]
          /\ DansApres(avis, i + 1, w) => DansApres(avis', i, w)
    BY <1>t, <1>p, DansLaSuite
  <2> QED BY <1>p, <1>t, <2>1 DEF AvisSuivis
<1>2. ASSUME NEW r \in Requetes
      PROVE  /\ requete'[r] \in EtatsDirect
             /\ requete'[r].op = "ouverte" => Len(requete'[r].attente) <= PROFONDEUR
             /\ Suit(requete[r])'
  <2>s. PICK s : s = requete[r]
    OBVIOUS
  <2>t. PICK t : t = Deposer(s, Head(avis))
    OBVIOUS
  <2>0. Suit(s)
    BY <2>s DEF DirectInv
  <2>1. CASE s.op = "ouverte"
    <3>1. s \in Sockets
      BY <1>t, <2>s, <2>1, ChampsDirect
    <3>2. requete'[r] = t
      BY <2>s, <2>t, <2>1 DEF Publier, Ouverte
    <3>3. Len(s.attente) <= PROFONDEUR
      BY <1>t, <2>s, <2>1 DEF DirectOK, Ouverte
    <3>4. Suit(t)'
      BY <1>t, <1>p, <2>0, <2>t, <3>1, <3>3, DeposeeSuivie
    <3>5. t \in Sockets /\ Len(t.attente) <= PROFONDEUR
      BY <1>h, <2>t, <3>1, <3>3, Deposee
    <3>6. t \in EtatsDirect
      BY <3>5, EtatsAdmisDirect
    <3> QED BY <3>2, <3>4, <3>5, <3>6
  <2>2. CASE s.op # "ouverte"
    <3>1. requete'[r] = s
      BY <2>s, <2>2 DEF Publier, Ouverte
    <3>2. Suit(s)'
      BY <2>2, SansSocket
    <3> QED BY <1>t, <2>s, <2>2, <3>1, <3>2
  <2> QED BY <2>1, <2>2
<1>3. requete' \in [Requetes -> EtatsDirect]
  BY <1>2 DEF Publier
<1>4. DirectOK'
  BY <1>t, <1>p, <1>h, <1>2, <1>3 DEF DirectOK, Versions, Ouverte
<1>5. ~ecoute' => avis' = <<>>
  BY <1>t, <1>p DEF DirectInv
<1> QED BY <1>1, <1>2, <1>4, <1>5 DEF DirectInv

\* The service restarts.
LEMMA RedemarrageNext ==
  ASSUME DirectInv, Redemarrer
  PROVE  DirectInv'
<1>1. avis' = <<>> /\ Len(<<>>) = 0 /\ <<>> \in Seq(0..VERSIONS_MAX) /\ AvisSuivis'
  BY DEF Redemarrer, AvisSuivis
<1>2. \A r \in Requetes : requete'[r] = Repos
  BY DEF Redemarrer
<1>3. DirectOK'
  BY <1>1, <1>2, EtatsAdmisDirect
     DEF DirectInv, DirectOK, Redemarrer, Ouverte, EtatsBillet
<1>4. Suit(Repos)'
  BY SansSocket, EtatsAdmisDirect
<1> QED BY <1>1, <1>2, <1>3, <1>4 DEF DirectInv

\* One request moves and the feed does not.
LEMMA SuiviReuni ==
  ASSUME DirectInv, UNCHANGED <<version, avis, ecoute>>,
         billets' \in [Billets -> EtatsBillet],
         \/ UNCHANGED requete
         \/ \E r \in Requetes, e \in EtatsDirect :
              /\ Devient(r, e)
              /\ e.op = "ouverte" => Len(e.attente) <= PROFONDEUR
              /\ Suit(e)
  PROVE  DirectInv'
<1>t. DirectOK /\ requete \in [Requetes -> EtatsDirect] /\ AvisSuivis
  BY DEF DirectInv, DirectOK
<1>1. AvisSuivis' /\ (~ecoute' => avis' = <<>>)
  BY <1>t DEF DirectInv, AvisSuivis
<1>2. ASSUME NEW p \in Requetes
      PROVE  /\ requete'[p] \in EtatsDirect
             /\ requete'[p].op = "ouverte" => Len(requete'[p].attente) <= PROFONDEUR
             /\ Suit(requete[p])'
  <2>s. PICK s : s = requete[p]
    OBVIOUS
  <2>0. /\ Suit(s) /\ s \in EtatsDirect
        /\ s.op = "ouverte" => Len(s.attente) <= PROFONDEUR
    BY <1>t, <2>s DEF DirectInv, DirectOK, Ouverte
  <2>1. CASE requete'[p] = s
    <3>1. Suit(s)'
      BY <2>0, SocketCalme
    <3> QED BY <2>0, <2>1, <3>1
  <2>2. ASSUME NEW e \in EtatsDirect, requete'[p] = e, Suit(e),
               e.op = "ouverte" => Len(e.attente) <= PROFONDEUR
        PROVE  /\ requete'[p] \in EtatsDirect
               /\ requete'[p].op = "ouverte" => Len(requete'[p].attente) <= PROFONDEUR
               /\ Suit(requete[p])'
    <3>1. Suit(e)'
      BY <2>2, SocketCalme
    <3> QED BY <2>2, <3>1
  <2> QED BY <1>t, <2>s, <2>1, <2>2 DEF Devient
<1>3. requete' \in [Requetes -> EtatsDirect]
  BY <1>t DEF Devient
<1>4. DirectOK'
  BY <1>t, <1>2, <1>3 DEF DirectOK, Ouverte
<1> QED BY <1>1, <1>2, <1>4 DEF DirectInv

\* A subscription opens: every change that follows it will be notified.
LEMMA AbonneSuivi ==
  ASSUME DirectInv, NEW s,
         s = [op |-> "ouverte", attente |-> <<>>, distancee |-> FALSE,
              depuis |-> version, signale |-> version, coupee |-> ~ecoute]
  PROVE  /\ s \in EtatsDirect
         /\ Len(s.attente) <= PROFONDEUR
         /\ Suit(s)
<1>1. /\ version \in Versions /\ version \in Nat /\ PROFONDEUR \in Nat
      /\ ecoute \in BOOLEAN
      /\ Len(<<>>) = 0 /\ <<>> \in Seq(Versions)
  BY DirectAssumption DEF DirectInv, DirectOK, Versions
<1>2. s \in Sockets
  BY <1>1 DEF Sockets
<1>3. s \in EtatsDirect
  BY <1>2, EtatsAdmisDirect
<1>4. s.attente = <<>> /\ s.depuis = version /\ s.coupee = ~ecoute
  OBVIOUS
<1>5. AttenteSuivie(s)
  BY <1>1, <1>4 DEF AttenteSuivie
<1>6. SansTrou(s)
  BY <1>1, <1>4 DEF SansTrou
<1>7. ~s.coupee => ecoute
  BY <1>4
<1>8. Suit(s)
  BY <1>5, <1>6, <1>7 DEF Suit
<1>9. Len(s.attente) <= PROFONDEUR
  <2>1. Len(s.attente) = 0 /\ PROFONDEUR \in Nat
    BY <1>1, <1>4
  <2> QED BY <2>1
<1> QED BY <1>3, <1>8, <1>9

\* A client is told that it missed some, and reads the Mission again.
LEMMA ResyncSuivi ==
  ASSUME DirectInv, NEW s \in Sockets, Suit(s), Len(s.attente) <= PROFONDEUR,
         NEW t, t = [s EXCEPT !.distancee = FALSE, !.signale = version]
  PROVE  /\ t \in EtatsDirect
         /\ Len(t.attente) <= PROFONDEUR
         /\ Suit(t)
<1>1. version \in Versions /\ version \in Nat
  BY DirectAssumption DEF DirectInv, DirectOK, Versions
<1>2. /\ t \in Sockets
      /\ t.attente = s.attente /\ t.coupee = s.coupee
      /\ t.signale = version
  BY <1>1 DEF Sockets
<1>3. t \in EtatsDirect
  BY <1>2, EtatsAdmisDirect
<1>4. SansTrou(t)
  BY <1>1, <1>2 DEF SansTrou
<1>5. AttenteSuivie(s) => AttenteSuivie(t)
  BY <1>2 DEF AttenteSuivie
<1> QED BY <1>2, <1>3, <1>4, <1>5 DEF Suit, Sockets

\* A client is told of the first change it waits for: those before it came
\* before it.
LEMMA ChangementRecu ==
  ASSUME DirectInv, NEW s \in Sockets, Suit(s), Len(s.attente) <= PROFONDEUR,
         ~s.distancee, s.attente # <<>>,
         NEW t, t = [s EXCEPT !.attente = Tail(s.attente),
                              !.signale = IF Head(s.attente) = AUTRE THEN s.signale
                                          ELSE Head(s.attente)]
  PROVE  /\ t \in EtatsDirect
         /\ Len(t.attente) <= PROFONDEUR
         /\ Suit(t)
<1>q. PICK q : q = s.attente
  OBVIOUS
<1>h. PICK h : h = Head(q)
  OBVIOUS
<1>u. PICK u : u = Tail(q)
  OBVIOUS
<1>1. /\ q \in Seq(Versions) /\ q # <<>> /\ Len(q) \in Nat
      /\ h \in Versions /\ u \in Seq(Versions) /\ Len(u) = Len(q) - 1
      /\ q[1] = h /\ 1 \in 1..Len(q)
  BY <1>q, <1>h, <1>u, FileDeVersions DEF Sockets
<1>2. /\ Versions \subseteq Nat /\ version \in Nat
      /\ s.signale \in Nat /\ s.depuis \in Nat /\ PROFONDEUR \in Nat
  BY DirectAssumption DEF DirectInv, DirectOK, Versions, Sockets
<1> DEFINE g == IF h = AUTRE THEN s.signale ELSE h
<1>3. g \in Versions
  BY <1>1 DEF Sockets
<1>4. t = [s EXCEPT !.attente = u, !.signale = g]
  BY <1>q, <1>h, <1>u
<1>5. (h = AUTRE => g = s.signale) /\ (h # AUTRE => g = h) /\ g \in Nat
  BY <1>2, <1>3
<1> HIDE DEF g
<1>6. /\ t \in Sockets
      /\ t.op = "ouverte" /\ t.attente = u /\ t.signale = g
      /\ t.coupee = s.coupee /\ t.depuis = s.depuis /\ t.distancee = s.distancee
  BY <1>1, <1>3, <1>4 DEF Sockets
<1>7. t \in EtatsDirect /\ Len(t.attente) <= PROFONDEUR
  <2>1. Len(q) <= PROFONDEUR
    BY <1>q
  <2>2. Len(u) <= PROFONDEUR
    BY <1>1, <1>2, <2>1
  <2> QED BY <1>6, <2>2, EtatsAdmisDirect
<1>8. ASSUME ~s.coupee
      PROVE  ecoute /\ AttenteSuivie(t) /\ SansTrou(t)
  <2>1. ecoute /\ AttenteSuivie(s) /\ SansTrou(s)
    BY <1>8 DEF Suit, Sockets
  <2>2. /\ \A w : Dans(q, w) <=> w = h \/ Dans(u, w)
        /\ \A w : DansApres(q, 1, w) => Dans(u, w)
        /\ \A i \in 1..Len(u) : \A w :
             /\ i + 1 \in 1..Len(q)
             /\ u[i] = q[i + 1]
             /\ DansApres(q, i + 1, w) => DansApres(u, i, w)
    BY <1>1, <1>h, <1>u, DansLaSuite
  <2>3. AttenteSuivie(t)
    BY <1>6, <1>q, <2>1, <2>2 DEF AttenteSuivie
  <2>4. ASSUME NEW v \in 1..version, t.depuis < v
        PROVE  v <= t.signale \/ Dans(avis, v) \/ Dans(t.attente, v)
    <3>1. v <= s.signale \/ Dans(avis, v) \/ Dans(q, v)
      BY <1>6, <1>q, <2>1, <2>4 DEF SansTrou
    <3>2. CASE v <= s.signale /\ h # AUTRE /\ h < v
      <4>1. DansApres(q, 1, v) \/ Dans(avis, v)
        BY <1>1, <1>q, <2>1, <3>2 DEF AttenteSuivie
      <4> QED BY <1>6, <2>2, <4>1
    <3>3. CASE v <= s.signale /\ ~(h # AUTRE /\ h < v)
      <4>1. v \in Nat /\ h \in Nat
        BY <1>1, <1>2
      <4>2. v <= g
        BY <1>5, <3>3, <4>1
      <4> QED BY <1>6, <4>2
    <3>4. CASE v = h
      <4>1. v # AUTRE /\ v <= v
        BY <1>2 DEF AUTRE
      <4> QED BY <1>5, <1>6, <3>4, <4>1
    <3> QED BY <1>6, <2>2, <3>1, <3>2, <3>3, <3>4
  <2>5. SansTrou(t)
    BY <2>4 DEF SansTrou
  <2> QED BY <2>1, <2>3, <2>5
<1> QED BY <1>6, <1>7, <1>8 DEF Suit

\* The steps of the request r.
LEMMA SuivreNext ==
  ASSUME DirectInv, NEW r \in Requetes,
         \/ Interrompre(r) /\ UNCHANGED direct
         \/ DemanderBillet(r)
         \/ SuivreEnDirect(r)
  PROVE  DirectInv'
<1> DEFINE But == \E e \in EtatsDirect :
                    /\ Devient(r, e)
                    /\ e.op = "ouverte" => Len(e.attente) <= PROFONDEUR
                    /\ Suit(e)
<1>t. /\ DirectOK /\ requete \in [Requetes -> EtatsDirect]
      /\ billets \in [Billets -> EtatsBillet]
  BY DEF DirectInv, DirectOK
<1>n. \A e \in EtatsDirect : e.op # "ouverte" /\ Devient(r, e) => But
  BY SansSocket
<1>r. \A code \in CodesDirect : Devient(r, Repondu(code)) => But
  BY <1>n, EtatsAdmisDirect
<1> SUFFICES /\ UNCHANGED <<version, avis, ecoute>>
             /\ billets' \in [Billets -> EtatsBillet]
             /\ But
  BY SuiviReuni
<1> DEFINE Obligation == /\ UNCHANGED <<version, avis, ecoute>>
                         /\ billets' \in [Billets -> EtatsBillet]
                         /\ But
<1> HIDE DEF But
<1>1. ASSUME Interrompre(r), UNCHANGED direct
      PROVE  Obligation
  <2>1. But
    BY <1>1, <1>n, EtatsAdmisDirect DEF Interrompre
  <2> QED BY <1>1, <1>t, <2>1 DEF direct
<1>2. ASSUME DemanderBillet(r)
      PROVE  Obligation
  <2>1. SansLesPerimes \in [Billets -> EtatsBillet]
    BY <1>t DEF SansLesPerimes, EtatsBillet
  <2>2. billets' \in [Billets -> EtatsBillet]
    BY <1>2, <2>1 DEF DemanderBillet, EtatsBillet
  <2>3. But
    BY <1>2, <1>r DEF DemanderBillet, CodesDirect
  <2> QED BY <1>2, <2>2, <2>3 DEF DemanderBillet
<1>3. ASSUME ConsommerBillet(r)
      PROVE  Obligation
  <2>1. billets' \in [Billets -> EtatsBillet]
    BY <1>3, <1>t DEF ConsommerBillet, EtatsBillet
  <2>2. [op |-> "acces"] \in EtatsDirect /\ [op |-> "acces"].op # "ouverte"
    BY EtatsAdmisDirect
  <2>3. But
    BY <1>3, <1>n, <1>r, <2>2 DEF ConsommerBillet, CodesDirect
  <2> QED BY <1>3, <2>1, <2>3 DEF ConsommerBillet
<1>4. ASSUME Abonner(r)
      PROVE  Obligation
  <2> DEFINE s == [op |-> "ouverte", attente |-> <<>>, distancee |-> FALSE,
                   depuis |-> version, signale |-> version, coupee |-> ~ecoute]
  <2>1. s \in EtatsDirect /\ Len(s.attente) <= PROFONDEUR /\ Suit(s)
    BY AbonneSuivi
  <2>2. \/ Devient(r, s)
        \/ \E code \in CodesDirect : Devient(r, Repondu(code))
    BY <1>4 DEF Abonner, CodesDirect
  <2> HIDE DEF s
  <2>3. But
    BY <1>r, <2>1, <2>2 DEF But
  <2> QED BY <1>4, <1>t, <2>3 DEF Abonner, direct
<1>5. ASSUME Recevoir(r)
      PROVE  Obligation
  <2>s. PICK s : s = requete[r]
    OBVIOUS
  <2>1. /\ s \in Sockets /\ Suit(s) /\ Len(s.attente) <= PROFONDEUR
        /\ s.distancee \/ s.attente # <<>>
    <3>1. s \in EtatsDirect /\ s.op = "ouverte" /\ Suit(s)
      BY <1>5, <1>t, <2>s DEF Recevoir, Ouverte, DirectInv
    <3>2. Len(s.attente) <= PROFONDEUR
      BY <1>t, <2>s, <3>1 DEF DirectOK, Ouverte
    <3> QED BY <1>5, <2>s, <3>1, <3>2, ChampsDirect DEF Recevoir
  <2>2. PICK t : /\ Devient(r, t)
                 /\ s.distancee => t = [s EXCEPT !.distancee = FALSE, !.signale = version]
                 /\ ~s.distancee =>
                      t = [s EXCEPT !.attente = Tail(s.attente),
                                    !.signale = IF Head(s.attente) = AUTRE THEN s.signale
                                                ELSE Head(s.attente)]
    BY <1>5, <2>s, <2>1 DEF Recevoir
  <2>3. t \in EtatsDirect /\ Len(t.attente) <= PROFONDEUR /\ Suit(t)
    <3>1. CASE s.distancee
      BY <2>1, <2>2, <3>1, ResyncSuivi
    <3>2. CASE ~s.distancee
      BY <2>1, <2>2, <3>2, ChangementRecu
    <3> QED BY <3>1, <3>2
  <2>4. But
    BY <2>2, <2>3 DEF But
  <2> QED BY <1>5, <1>t, <2>4 DEF Recevoir, direct
<1> QED BY <1>1, <1>2, <1>3, <1>4, <1>5 DEF SuivreEnDirect

LEMMA DirectInvNext ==
  ASSUME DirectInv, DirectNext
  PROVE  DirectInv'
<1>1. CASE ChangerMission \/ ChangerUneAutre
  BY <1>1, ChangementNext
<1>2. CASE CouperEcoute
  BY <1>2, CoupureNext
<1>3. CASE ReprendreEcoute
  BY <1>3, RepriseNext
<1>4. CASE Publier
  BY <1>4, PublicationNext
<1>5. CASE Redemarrer
  BY <1>5, RedemarrageNext
<1>6. CASE PerimerBillet
  <2>1. billets' \in [Billets -> EtatsBillet]
    BY <1>6 DEF PerimerBillet, DirectInv, DirectOK, EtatsBillet
  <2> QED BY <1>6, <2>1, SuiviReuni DEF PerimerBillet
<1>7. CASE \E r \in Requetes : \/ Interrompre(r) /\ UNCHANGED direct
                               \/ DemanderBillet(r)
                               \/ SuivreEnDirect(r)
  BY <1>7, SuivreNext
<1> QED BY <1>1, <1>2, <1>3, <1>4, <1>5, <1>6, <1>7 DEF DirectNext

LEMMA DirectInvInit ==
  ASSUME AppelsInit, DirectInit
  PROVE  DirectInv
<1>1. avis = <<>> /\ Len(<<>>) = 0 /\ <<>> \in Seq(0..VERSIONS_MAX) /\ AvisSuivis
  BY DEF DirectInit, AvisSuivis
<1>2. \A r \in Requetes : requete[r] = Repos
  BY DEF AppelsInit
<1>3. DirectOK
  BY <1>1, <1>2, EtatsAdmisDirect, DirectAssumption
     DEF DirectInit, DirectOK, AppelsInit, Ouverte, EtatsBillet
<1>4. Suit(Repos)
  BY SansSocket, EtatsAdmisDirect
<1> QED BY <1>1, <1>2, <1>3, <1>4 DEF DirectInv
=============================================================================
