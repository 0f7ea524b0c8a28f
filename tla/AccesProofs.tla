----------------------------- MODULE AccesProofs -----------------------------
(***************************************************************************)
(* What holds of Acces for any number of accounts, refresh tokens, requests*)
(* and instances of klaar-effacer: type correctness, one living link per   *)
(* family, the cut that a reuse or a logout has announced, the erasure     *)
(* recorded once and for good, and the purge that spares verified accounts.*)
(*                                                                         *)
(* They are proved together, as one inductive invariant: the uniqueness of *)
(* a link rests on the rank of the next one, and no right of a row can be  *)
(* kept unless the requests and the purge in progress aim at accounts that *)
(* have not moved since they were read.                                    *)
(***************************************************************************)
EXTENDS Acces, TLAPS

\* The links and the families that exist were drawn: the next one is new.
Rangs == \A s \in session : s.maillon <= tires /\ s.famille <= tires

\* The purge in progress still aims at accounts that are too old to be
\* verified, and an erasure being asked for at an account that was verified.
Visees ==
  /\ purge \subseteq APurger
  /\ \A r \in Requetes : requete[r].op = "programmer" =>
       compte[requete[r].compte].statut \notin {"ABSENT", "PENDING_EMAIL_VERIFY"}

\* What a family being cut has left to cut: the links its UPDATE has selected,
\* or links drawn after the cut was asked for.
Coupures ==
  \A r \in Requetes :
    /\ requete[r].op \in {"couper", "revoquer", "coupee"} =>
         requete[r].connus <= tires
    /\ requete[r].op = "revoquer" =>
         \A s \in session : s.famille = requete[r].famille /\ Vivant(s) =>
           s.maillon \in requete[r].vus \/ s.maillon > requete[r].connus

\* An erasure still to be recorded was done and was never recorded, and one
\* instance only will record it.
Consignes ==
  \A e \in Effaceurs : \A c \in effaceur[e].aConsigner :
    /\ compte[c].statut = "ERASED"
    /\ journal[c] = 0
    /\ \A f \in Effaceurs : c \in effaceur[f].aConsigner => f = e

Inv == /\ TypeOK
       /\ Rangs
       /\ Visees
       /\ UnMaillonParFamille
       /\ Coupures
       /\ CoupureTenue
       /\ Consignes
       /\ EffaceUneFois

-----------------------------------------------------------------------------
\* The steps, sorted for the proofs by what they write.

\* A request that opens, or is cut off: its own state, and nothing else.
Demander(r) ==
  \/ \E c \in Comptes : \/ EchouerConnexion(r, c)
                        \/ ReussirConnexion(r, c)
                        \/ DemanderEffacement(r, c)
                        \/ DemanderRetablissement(r, c)
  \/ \E s \in session : Rejouer(r, s) \/ Deconnecter(r, s)
  \/ SelectionnerFamille(r)
  \/ Interrompre(r)

\* The request that writes the lockout, the session or the account.
Ecrire(r) ==
  \/ EcrireEchec(r)
  \/ Reinitialiser(r)
  \/ Ouvrir(r)
  \/ RevoquerFamille(r)
  \/ ProgrammerEffacement(r)
  \/ AnnulerEffacement(r)

\* What goes on outside the requests that a session opens.
Ailleurs ==
  \/ \E s \in session : Rotationner(s)
  \/ \E c \in Comptes : \/ Inscrire(c)
                        \/ VerifierEmail(c)
                        \/ Vieillir(c)
                        \/ PasserDelaiDeGrace(c)
  \/ \E e \in Effaceurs : \/ ReleverEchus(e)
                          \/ \E c \in Comptes : Effacer(e, c)
                          \/ ConsignerEffacement(e)
                          \/ InterrompreEffaceur(e)
  \/ SelectionnerPurge
  \/ PurgerNonVerifies
  \/ Tic

LEMMA LesPas ==
  ASSUME [Next]_vars
  PROVE  \/ \E r \in Requetes : Demander(r) \/ Ecrire(r)
         \/ Ailleurs
         \/ UNCHANGED vars
<1>1. ASSUME NEW r \in Requetes,
             \/ Login(r) \/ Logout(r) \/ CouperFamille(r) \/ EffacerMonCompte(r)
             \/ AnnulerMonEffacement(r) \/ Interrompre(r)
      PROVE  Demander(r) \/ Ecrire(r)
  BY <1>1 DEF Login, Logout, CouperFamille, EffacerMonCompte,
              AnnulerMonEffacement, Demander, Ecrire
<1>2. ASSUME NEW r \in Requetes, Refresh(r)
      PROVE  Demander(r) \/ Ailleurs
  BY <1>2 DEF Refresh, Demander, Ailleurs
<1>3. ASSUME \/ Signup \/ Verifier \/ SelectionnerPurge \/ PurgerNonVerifies
             \/ Tic
             \/ \E c \in Comptes : Vieillir(c) \/ PasserDelaiDeGrace(c)
      PROVE  Ailleurs
  BY <1>3 DEF Signup, Verifier, Ailleurs
<1>4. ASSUME NEW e \in Effaceurs, ExecuterLesEchus(e) \/ InterrompreEffaceur(e)
      PROVE  Ailleurs
  BY <1>4 DEF ExecuterLesEchus, Ailleurs
<1> QED BY <1>1, <1>2, <1>3, <1>4 DEF Next

\* What a request in progress carries, according to the step it has reached.
LEMMA ChampsRequete ==
  ASSUME TypeOK, NEW r \in Requetes
  PROVE  /\ requete[r].op \in {"echouer", "reinitialiser", "ouvrir",
                               "programmer", "retablir"}
              => requete[r].compte \in Comptes
         /\ requete[r].op = "echouer" =>
              /\ requete[r].apres \in Verrouillages
              /\ requete[r] = [op |-> "echouer", compte |-> requete[r].compte,
                               apres |-> requete[r].apres]
         /\ requete[r].op \in {"couper", "revoquer", "coupee"} =>
              /\ requete[r].famille \in Maillons
              /\ requete[r].connus \in 0..MAILLONS_MAX
         /\ requete[r].op = "revoquer" => requete[r].vus \in SUBSET Maillons
BY DEF TypeOK, EtatsRequete

LEMMA DevientType ==
  ASSUME TypeOK, NEW r \in Requetes, NEW e \in EtatsRequete, Devient(r, e)
  PROVE  requete' \in [Requetes -> EtatsRequete]
BY DEF TypeOK, Devient

-----------------------------------------------------------------------------
\* The three columns of the lockout.
LEMMA ApresEchecType ==
  ASSUME NEW v \in Verrouillages
  PROVE  ApresEchec(v) \in Verrouillages
<1> DEFINE suite == IF v.echecs < MAX_ECHECS THEN v.echecs + 1 ELSE MAX_ECHECS
           echecs == IF v.echecs > 0 /\ v.age <= FENETRE_ECHECS THEN suite ELSE 1
<1>1. echecs \in 0..MAX_ECHECS
  BY ParametresAssumption DEF Verrouillages
<1>2. Reste(v, echecs) \in 0..DUREE_VERROU
  BY ParametresAssumption DEF Reste, Verrouillages
<1>3. 0 \in 0..(FENETRE_ECHECS + 1)
  BY ParametresAssumption
<1>4. ApresEchec(v) = [echecs |-> echecs, age |-> 0, reste |-> Reste(v, echecs)]
  BY DEF ApresEchec
<1> HIDE DEF echecs
<1> QED BY <1>1, <1>2, <1>3, <1>4 DEF Verrouillages

LEMMA VerrouApresTicType ==
  ASSUME NEW v \in Verrouillages
  PROVE  VerrouApresTic(v) \in Verrouillages
<1>1. /\ v.echecs \in 0..MAX_ECHECS
      /\ (IF v.age <= FENETRE_ECHECS THEN v.age + 1 ELSE v.age)
           \in 0..(FENETRE_ECHECS + 1)
      /\ (IF v.reste > 0 THEN v.reste - 1 ELSE 0) \in 0..DUREE_VERROU
  BY ParametresAssumption DEF Verrouillages
<1> QED BY <1>1 DEF VerrouApresTic, Verrouillages

LEMMA ApresSuccesType == ApresSucces \in Verrouillages
BY ParametresAssumption DEF ApresSucces, Verrouillages

LEMMA VerrouNext ==
  ASSUME TypeOK, [Next]_vars
  PROVE  verrou' \in [Comptes -> Verrouillages]
<1>t. verrou \in [Comptes -> Verrouillages]
  BY DEF TypeOK
<1>1. ASSUME NEW r \in Requetes, Demander(r) \/ Ecrire(r)
      PROVE  verrou' \in [Comptes -> Verrouillages]
  <2>1. CASE EcrireEchec(r)
    BY <1>t, <2>1, ChampsRequete DEF EcrireEchec
  <2>2. CASE Reinitialiser(r)
    BY <1>t, <2>2, ApresSuccesType DEF Reinitialiser
  <2>3. CASE UNCHANGED verrou
    BY <1>t, <2>3
  <2> QED BY <1>1, <2>1, <2>2, <2>3
    DEF Demander, Ecrire, EchouerConnexion, ReussirConnexion, Rejouer,
        Deconnecter, SelectionnerFamille, DemanderEffacement,
        DemanderRetablissement, Interrompre, Ouvrir, RevoquerFamille,
        ProgrammerEffacement, AnnulerEffacement
<1>2. CASE Ailleurs
  <2>1. ASSUME NEW e \in Effaceurs, NEW c \in Comptes, Effacer(e, c)
        PROVE  verrou' \in [Comptes -> Verrouillages]
    BY <1>t, <2>1, ApresSuccesType DEF Effacer
  <2>2. CASE Tic
    BY <1>t, <2>2, VerrouApresTicType DEF Tic
  <2>3. CASE UNCHANGED verrou
    BY <1>t, <2>3
  <2> QED BY <1>2, <2>1, <2>2, <2>3
    DEF Ailleurs, Rotationner, Inscrire, VerifierEmail, Vieillir,
        PasserDelaiDeGrace, ReleverEchus, ConsignerEffacement,
        InterrompreEffaceur, SelectionnerPurge, PurgerNonVerifies
<1> QED BY <1>t, <1>1, <1>2, LesPas DEF vars

\* Every request goes on with what its next step needs.
LEMMA RequeteNext ==
  ASSUME TypeOK, [Next]_vars
  PROVE  requete' \in [Requetes -> EtatsRequete]
<1> DEFINE But == requete' \in [Requetes -> EtatsRequete]
<1>t. /\ requete \in [Requetes -> EtatsRequete]
      /\ verrou \in [Comptes -> Verrouillages]
      /\ session \subseteq LignesSession
      /\ tires \in 0..MAILLONS_MAX
  BY DEF TypeOK
<1>r. Repos \in EtatsRequete
  BY DEF Repos, EtatsRequete
<1>f. ASSUME NEW s \in session
      PROVE  [op |-> "couper", famille |-> s.famille, connus |-> tires]
               \in EtatsRequete
  BY <1>t DEF LignesSession, EtatsRequete
<1>1. ASSUME NEW r \in Requetes, Demander(r) PROVE But
  <2>1. ASSUME NEW c \in Comptes, EchouerConnexion(r, c) PROVE But
    <3>1. [op |-> "echouer", compte |-> c, apres |-> ApresEchec(verrou[c])]
            \in EtatsRequete
      BY <1>t, ApresEchecType DEF EtatsRequete
    <3> QED BY <2>1, <3>1, DevientType DEF EchouerConnexion
  <2>2. ASSUME NEW c \in Comptes, ReussirConnexion(r, c) PROVE But
    <3>1. \A op \in {"ouvrir", "reinitialiser"} :
            [op |-> op, compte |-> c] \in EtatsRequete
      BY DEF EtatsRequete
    <3> QED BY <2>2, <3>1, DevientType DEF ReussirConnexion
  <2>3. ASSUME NEW c \in Comptes,
               DemanderEffacement(r, c) \/ DemanderRetablissement(r, c)
        PROVE  But
    <3>1. \A op \in {"programmer", "retablir"} :
            [op |-> op, compte |-> c] \in EtatsRequete
      BY DEF EtatsRequete
    <3> QED BY <2>3, <3>1, DevientType
            DEF DemanderEffacement, DemanderRetablissement
  <2>4. ASSUME NEW s \in session, Rejouer(r, s) \/ Deconnecter(r, s) PROVE But
    BY <1>f, <2>4, DevientType DEF Rejouer, Deconnecter
  <2>5. CASE SelectionnerFamille(r)
    <3>1. MaillonsACouper(requete[r].famille) \in SUBSET Maillons
      BY <1>t DEF MaillonsACouper, LignesSession
    <3>2. requete[r].famille \in Maillons /\ requete[r].connus \in 0..MAILLONS_MAX
      BY <2>5, ChampsRequete DEF SelectionnerFamille
    <3>3. [op |-> "revoquer", famille |-> requete[r].famille,
           connus |-> requete[r].connus,
           vus |-> MaillonsACouper(requete[r].famille)] \in EtatsRequete
      BY <3>1, <3>2 DEF EtatsRequete
    <3> QED BY <2>5, <3>3, DevientType DEF SelectionnerFamille
  <2>6. CASE Interrompre(r)
    BY <1>r, <2>6, DevientType DEF Interrompre
  <2> QED BY <1>1, <2>1, <2>2, <2>3, <2>4, <2>5, <2>6 DEF Demander
<1>2. ASSUME NEW r \in Requetes, Ecrire(r) PROVE But
  <2>1. CASE Reinitialiser(r)
    <3>1. [op |-> "ouvrir", compte |-> requete[r].compte] \in EtatsRequete
      BY <2>1, ChampsRequete DEF Reinitialiser, EtatsRequete
    <3> QED BY <2>1, <3>1, DevientType DEF Reinitialiser
  <2>2. CASE RevoquerFamille(r)
    <3>1. [op |-> "coupee", famille |-> requete[r].famille,
           connus |-> requete[r].connus] \in EtatsRequete
      BY <2>2, ChampsRequete DEF RevoquerFamille, EtatsRequete
    <3> QED BY <2>2, <3>1, DevientType DEF RevoquerFamille
  <2>3. CASE Devient(r, Repos)
    BY <1>r, <2>3, DevientType
  <2> QED BY <1>2, <2>1, <2>2, <2>3
          DEF Ecrire, EcrireEchec, Ouvrir, ProgrammerEffacement, AnnulerEffacement
<1>3. CASE Ailleurs
  <2>1. CASE Tic
    <3>1. ASSUME NEW r \in Requetes, requete[r].op = "echouer"
          PROVE  [requete[r] EXCEPT !.apres = VerrouApresTic(@)] \in EtatsRequete
      <4>1. /\ requete[r].compte \in Comptes
            /\ requete[r].apres \in Verrouillages
            /\ requete[r] = [op |-> "echouer", compte |-> requete[r].compte,
                             apres |-> requete[r].apres]
        BY <3>1, ChampsRequete
      <4>2. [requete[r] EXCEPT !.apres = VerrouApresTic(@)]
              = [op |-> "echouer", compte |-> requete[r].compte,
                 apres |-> VerrouApresTic(requete[r].apres)]
        BY <4>1
      <4> QED BY <4>1, <4>2, VerrouApresTicType DEF EtatsRequete
    <3> QED BY <1>t, <2>1, <3>1 DEF Tic
  <2>2. ASSUME NEW c \in Comptes, PasserDelaiDeGrace(c) PROVE But
    BY <1>t, <1>r, <2>2 DEF PasserDelaiDeGrace
  <2>3. CASE UNCHANGED requete
    BY <1>t, <2>3
  <2> QED BY <1>3, <2>1, <2>2, <2>3
    DEF Ailleurs, Rotationner, Inscrire, VerifierEmail, Vieillir, Effacer,
        ReleverEchus, ConsignerEffacement, InterrompreEffaceur,
        SelectionnerPurge, PurgerNonVerifies
<1> QED BY <1>t, <1>1, <1>2, <1>3, LesPas DEF vars

-----------------------------------------------------------------------------
\* The table session_refresh: what each step makes of it.
LEMMA EffetsSession ==
  ASSUME [Next]_vars
  PROVE  \/ \E r \in Requetes : Ouvrir(r) \/ RevoquerFamille(r)
         \/ \E s \in session : Rotationner(s)
         \/ /\ session' \subseteq session
            /\ tires' = tires
<1> DEFINE Moins == session' \subseteq session /\ tires' = tires
<1>1. ASSUME NEW r \in Requetes, Demander(r) PROVE Moins
  BY <1>1 DEF Demander, EchouerConnexion, ReussirConnexion, Rejouer, Deconnecter,
              SelectionnerFamille, DemanderEffacement, DemanderRetablissement,
              Interrompre
<1>2. ASSUME NEW r \in Requetes, Ecrire(r)
      PROVE  Ouvrir(r) \/ RevoquerFamille(r) \/ Moins
  BY <1>2 DEF Ecrire, EcrireEchec, Reinitialiser, ProgrammerEffacement,
              AnnulerEffacement
<1>3. ASSUME Ailleurs
      PROVE  (\E s \in session : Rotationner(s)) \/ Moins
  BY <1>3
  DEF Ailleurs, Inscrire, VerifierEmail, Vieillir, PasserDelaiDeGrace, Effacer,
      ReleverEchus, ConsignerEffacement, InterrompreEffaceur,
      SelectionnerPurge, PurgerNonVerifies, Tic
<1> QED BY <1>1, <1>2, <1>3, LesPas DEF vars

\* The three shapes a row of session_refresh may have after a step.
LEMMA LigneNeuve ==
  ASSUME NEW m, NEW c, NEW f
  PROVE  LET n == Maillon(m, c, f)
         IN  n.maillon = m /\ n.compte = c /\ n.famille = f /\ Vivant(n)
BY DEF Maillon, Vivant

LEMMA LigneTournee ==
  ASSUME NEW s \in LignesSession
  PROVE  LET n == ApresRotation(s)
         IN  /\ n \in LignesSession
             /\ n.maillon = s.maillon /\ n.famille = s.famille /\ ~Vivant(n)
BY DEF ApresRotation, LignesSession, Vivant

Coupee(s) == [s EXCEPT !.revoque = TRUE]

LEMMA LigneCoupee ==
  ASSUME NEW s \in LignesSession
  PROVE  /\ Coupee(s) \in LignesSession
         /\ Coupee(s).maillon = s.maillon /\ Coupee(s).famille = s.famille
         /\ ~Vivant(Coupee(s))
BY DEF Coupee, LignesSession, Vivant

\* Rows whose links are distinct, were drawn, and open each family once.
Saines(lignes, k) ==
  /\ lignes \subseteq LignesSession
  /\ \A s, t \in lignes : s.maillon = t.maillon => s = t
  /\ \A s \in lignes : s.maillon <= k /\ s.famille <= k
  /\ \A s, t \in lignes :
       Vivant(s) /\ Vivant(t) /\ s.famille = t.famille => s = t

\* A new link of a family that nothing opens any more, or of a new family.
LEMMA LignesAjoutees ==
  ASSUME NEW k \in 0..MAILLONS_MAX, k < MAILLONS_MAX, NEW lignes, Saines(lignes, k),
         NEW c \in Comptes, NEW f \in Maillons, f <= k + 1,
         \A s \in lignes : Vivant(s) => s.famille # f
  PROVE  Saines(lignes \cup {Maillon(k + 1, c, f)}, k + 1)
<1> DEFINE n == Maillon(k + 1, c, f)
<1>1. k \in Nat /\ k + 1 \in Maillons
  BY ParametresAssumption DEF Maillons
<1>2. n \in LignesSession /\ n.maillon = k + 1 /\ n.famille = f
  BY <1>1 DEF Maillon, LignesSession
<1>3. \A s \in lignes : /\ s.maillon \in Nat /\ s.maillon <= k
                        /\ s.famille \in Nat /\ s.famille <= k
  BY DEF Saines, LignesSession, Maillons
<1>4. \A s \in lignes : /\ s.maillon # n.maillon
                        /\ s.maillon <= k + 1 /\ s.famille <= k + 1
  BY <1>1, <1>2, <1>3
<1> HIDE DEF n
<1>5. \A s \in lignes \cup {n} : s.maillon <= k + 1 /\ s.famille <= k + 1
  BY <1>1, <1>2, <1>4
<1>6. \A s, t \in lignes \cup {n} : s.maillon = t.maillon => s = t
  BY <1>4 DEF Saines
<1>7. \A s, t \in lignes \cup {n} :
        Vivant(s) /\ Vivant(t) /\ s.famille = t.famille => s = t
  BY <1>2 DEF Saines
<1>8. lignes \cup {n} \subseteq LignesSession
  BY <1>2 DEF Saines
<1> QED BY <1>5, <1>6, <1>7, <1>8 DEF Saines, n

\* The rotation consumes one link; the cut revokes those it has selected.
LEMMA LignesFermees ==
  ASSUME NEW k \in Nat, NEW lignes, Saines(lignes, k),
         NEW F \in [lignes -> LignesSession],
         \A s \in lignes : /\ F[s].maillon = s.maillon
                           /\ F[s].famille = s.famille
                           /\ F[s] = s \/ ~Vivant(F[s])
  PROVE  Saines({F[s] : s \in lignes}, k)
<1> DEFINE apres == {F[s] : s \in lignes}
<1>1. apres \subseteq LignesSession
  OBVIOUS
<1>2. \A s \in apres : s.maillon <= k /\ s.famille <= k
  BY DEF Saines
<1>3. ASSUME NEW s \in lignes, NEW t \in lignes, F[s].maillon = F[t].maillon
      PROVE  F[s] = F[t]
  <2>1. s = t
    BY <1>3 DEF Saines
  <2> QED BY <2>1
<1>4. ASSUME NEW s \in lignes, NEW t \in lignes,
             Vivant(F[s]), Vivant(F[t]), F[s].famille = F[t].famille
      PROVE  F[s] = F[t]
  <2>1. F[s] = s /\ F[t] = t
    BY <1>4
  <2>2. s = t
    BY <1>4, <2>1 DEF Saines
  <2> QED BY <2>2
<1> QED BY <1>1, <1>2, <1>3, <1>4 DEF Saines

\* Two tabs, a replay and a logout at once: the links stay distinct, and one at
\* most opens each family.
LEMMA SessionNext ==
  ASSUME TypeOK, Rangs, UnMaillonParFamille, [Next]_vars
  PROVE  Saines(session', tires') /\ tires' \in 0..MAILLONS_MAX
<1>s. Saines(session, tires)
  BY DEF TypeOK, Rangs, UnMaillonParFamille, Saines
<1>t. /\ tires \in 0..MAILLONS_MAX /\ MAILLONS_MAX \in Nat /\ tires \in Nat
      /\ session \subseteq LignesSession
  BY ParametresAssumption DEF TypeOK
<1>1. ASSUME NEW r \in Requetes, Ouvrir(r)
      PROVE  Saines(session', tires') /\ tires' \in 0..MAILLONS_MAX
  <2>1. /\ requete[r].compte \in Comptes
        /\ tires < MAILLONS_MAX /\ tires' = tires + 1
        /\ session' = session \cup
                        {Maillon(tires + 1, requete[r].compte, tires + 1)}
    BY <1>1, ChampsRequete DEF Ouvrir
  <2>2. tires + 1 \in Maillons /\ tires + 1 \in 0..MAILLONS_MAX
    BY <1>t, <2>1 DEF Maillons
  <2>3. \A s \in session : s.famille # tires + 1
    BY <1>t DEF Rangs, LignesSession, Maillons
  <2> QED BY <1>s, <1>t, <2>1, <2>2, <2>3, LignesAjoutees
<1>2. ASSUME NEW s \in session, Rotationner(s)
      PROVE  Saines(session', tires') /\ tires' \in 0..MAILLONS_MAX
  <2> DEFINE F == [u \in session |-> IF u = s THEN ApresRotation(s) ELSE u]
             base == {F[u] : u \in session}
  <2>1. /\ Vivant(s) /\ tires < MAILLONS_MAX /\ tires' = tires + 1
        /\ session' = base \cup {Maillon(tires + 1, s.compte, s.famille)}
    BY <1>2 DEF Rotationner
  <2>2. /\ s.compte \in Comptes /\ s.famille \in Maillons /\ s.famille <= tires + 1
    BY <1>t DEF Rangs, LignesSession, Maillons
  <2>3. F \in [session -> LignesSession]
    BY <1>t, LigneTournee
  <2>4. \A u \in session : /\ F[u].maillon = u.maillon
                           /\ F[u].famille = u.famille
                           /\ F[u] = u \/ ~Vivant(F[u])
    BY <1>t, LigneTournee
  <2>5. ASSUME NEW u \in session, Vivant(F[u])
        PROVE  F[u].famille # s.famille
    <3>1. F[u] = u /\ u # s
      BY <1>t, <2>5, LigneTournee
    <3> QED BY <2>1, <2>5, <3>1 DEF UnMaillonParFamille
  <2> HIDE DEF F
  <2>6. Saines(base, tires)
    BY <1>s, <1>t, <2>3, <2>4, LignesFermees
  <2>7. \A u \in base : Vivant(u) => u.famille # s.famille
    BY <2>5
  <2>8. tires + 1 \in 0..MAILLONS_MAX
    BY <1>t, <2>1
  <2> HIDE DEF base
  <2>9. Saines(base \cup {Maillon(tires + 1, s.compte, s.famille)}, tires + 1)
    BY <1>t, <2>1, <2>2, <2>6, <2>7, LignesAjoutees
  <2> QED BY <2>1, <2>8, <2>9
<1>3. ASSUME NEW r \in Requetes, RevoquerFamille(r)
      PROVE  Saines(session', tires') /\ tires' \in 0..MAILLONS_MAX
  <2> DEFINE F == [u \in session |->
                    IF u.maillon \in requete[r].vus THEN Coupee(u) ELSE u]
  <2>1. session' = {F[u] : u \in session} /\ tires' = tires
    BY <1>3 DEF RevoquerFamille, Coupee
  <2>2. F \in [session -> LignesSession]
    BY <1>t, LigneCoupee
  <2>3. \A u \in session : /\ F[u].maillon = u.maillon
                           /\ F[u].famille = u.famille
                           /\ F[u] = u \/ ~Vivant(F[u])
    BY <1>t, LigneCoupee
  <2> HIDE DEF F
  <2>4. Saines({F[u] : u \in session}, tires)
    BY <1>s, <1>t, <2>2, <2>3, LignesFermees
  <2> QED BY <1>t, <2>1, <2>4
<1>4. ASSUME session' \subseteq session, tires' = tires
      PROVE  Saines(session', tires') /\ tires' \in 0..MAILLONS_MAX
  BY <1>s, <1>t, <1>4 DEF Saines
<1> QED BY <1>1, <1>2, <1>3, <1>4, EffetsSession

-----------------------------------------------------------------------------
\* A link that opens its family after a step did before, or was just drawn.
LEMMA VivantsApres ==
  ASSUME TypeOK, [Next]_vars
  PROVE  /\ tires' = tires \/ tires' = tires + 1
         /\ \A s \in session' : Vivant(s) =>
              s \in session \/ (tires' = tires + 1 /\ s.maillon = tires')
<1>t. session \subseteq LignesSession
  BY DEF TypeOK
<1>1. ASSUME NEW r \in Requetes, Ouvrir(r)
      PROVE  /\ tires' = tires + 1
             /\ \A s \in session' : s \in session \/ s.maillon = tires'
  BY <1>1, LigneNeuve DEF Ouvrir
<1>2. ASSUME NEW u \in session, Rotationner(u)
      PROVE  /\ tires' = tires + 1
             /\ \A s \in session' :
                  Vivant(s) => s \in session \/ s.maillon = tires'
  BY <1>t, <1>2, LigneNeuve, LigneTournee DEF Rotationner
<1>3. ASSUME NEW r \in Requetes, RevoquerFamille(r)
      PROVE  /\ tires' = tires
             /\ \A s \in session' : Vivant(s) => s \in session
  BY <1>t, <1>3, LigneCoupee DEF RevoquerFamille, Coupee
<1> QED BY <1>1, <1>2, <1>3, EffetsSession

\* How a request comes to be cutting a family, or to have cut it.
LEMMA EffetsCoupure ==
  ASSUME TypeOK, [Next]_vars, NEW r \in Requetes,
         requete'[r].op \in {"couper", "revoquer", "coupee"}
  PROVE  \/ requete'[r] = requete[r]
         \/ /\ requete'[r].op = "couper"
            /\ requete'[r].connus = tires
         \/ SelectionnerFamille(r)
         \/ RevoquerFamille(r)
<1> DEFINE But == \/ requete'[r] = requete[r]
                  \/ /\ requete'[r].op = "couper"
                     /\ requete'[r].connus = tires
                  \/ SelectionnerFamille(r)
                  \/ RevoquerFamille(r)
<1>t. requete \in [Requetes -> EtatsRequete]
  BY DEF TypeOK
<1>d. ASSUME NEW q \in Requetes, NEW e, Devient(q, e),
             e.op \notin {"couper", "revoquer", "coupee"}
      PROVE  But
  BY <1>t, <1>d DEF Devient
<1>1. ASSUME NEW q \in Requetes, Demander(q) PROVE But
  <2>1. ASSUME NEW s \in session, Rejouer(q, s) \/ Deconnecter(q, s) PROVE But
    BY <1>t, <2>1 DEF Rejouer, Deconnecter, Devient
  <2>2. CASE SelectionnerFamille(q)
    BY <1>t, <2>2 DEF SelectionnerFamille, Devient
  <2> QED BY <1>1, <1>d, <2>1, <2>2
          DEF Demander, EchouerConnexion, ReussirConnexion, DemanderEffacement,
              DemanderRetablissement, Interrompre, Repos
<1>2. ASSUME NEW q \in Requetes, Ecrire(q) PROVE But
  <2>1. CASE RevoquerFamille(q)
    BY <1>t, <2>1 DEF RevoquerFamille, Devient
  <2> QED BY <1>2, <1>d, <2>1
          DEF Ecrire, EcrireEchec, Reinitialiser, Ouvrir, ProgrammerEffacement,
              AnnulerEffacement, Repos
<1>3. CASE Ailleurs
  <2>1. CASE Tic
    <3>1. CASE requete[r].op = "echouer"
      <4>1. requete[r] = [op |-> "echouer", compte |-> requete[r].compte,
                          apres |-> requete[r].apres]
        BY <3>1, ChampsRequete
      <4>2. [requete[r] EXCEPT !.apres = VerrouApresTic(@)].op = "echouer"
        BY <4>1
      <4> QED BY <2>1, <3>1, <4>2 DEF Tic
    <3> QED BY <2>1, <3>1 DEF Tic
  <2>2. ASSUME NEW c \in Comptes, PasserDelaiDeGrace(c) PROVE But
    BY <1>t, <2>2 DEF PasserDelaiDeGrace, Repos
  <2>3. CASE UNCHANGED requete
    BY <2>3
  <2> QED BY <1>3, <2>1, <2>2, <2>3
    DEF Ailleurs, Rotationner, Inscrire, VerifierEmail, Vieillir, Effacer,
        ReleverEchus, ConsignerEffacement, InterrompreEffaceur,
        SelectionnerPurge, PurgerNonVerifies
<1> QED BY <1>1, <1>2, <1>3, LesPas DEF vars

\* What is drawn while a family is being cut is drawn after the cut was asked
\* for; what was there is selected, then revoked.
LEMMA CoupuresNext ==
  ASSUME TypeOK, Coupures, CoupureTenue, [Next]_vars
  PROVE  Coupures' /\ CoupureTenue'
<1>t. /\ session \subseteq LignesSession
      /\ requete \in [Requetes -> EtatsRequete]
      /\ tires \in Nat
      /\ tires' = tires \/ tires' = tires + 1
      /\ \A s \in LignesSession : s.maillon \in Nat
  BY VivantsApres, ParametresAssumption DEF TypeOK, LignesSession, Maillons
<1>1. ASSUME NEW r \in Requetes,
             requete'[r].op \in {"couper", "revoquer", "coupee"}
      PROVE  /\ requete'[r].connus <= tires'
             /\ requete'[r].op = "revoquer" =>
                  \A s \in session' :
                    s.famille = requete'[r].famille /\ Vivant(s) =>
                      \/ s.maillon \in requete'[r].vus
                      \/ s.maillon > requete'[r].connus
             /\ requete'[r].op = "coupee" =>
                  \A s \in session' :
                    s.famille = requete'[r].famille /\ Vivant(s) =>
                      s.maillon > requete'[r].connus
  <2>1. CASE requete'[r] = requete[r]
    <3>1. requete[r].connus \in Nat /\ requete[r].connus <= tires
      <4>1. requete[r].op \in {"couper", "revoquer", "coupee"}
        BY <1>1, <2>1
      <4>2. requete[r].connus \in 0..MAILLONS_MAX
        BY <4>1, ChampsRequete
      <4> QED BY <4>1, <4>2, ParametresAssumption DEF Coupures
    <3>2. requete[r].connus <= tires' /\ tires + 1 > requete[r].connus
      BY <1>t, <3>1
    <3> QED BY <1>1, <2>1, <3>2, VivantsApres DEF Coupures, CoupureTenue
  <2>2. CASE requete'[r].op = "couper" /\ requete'[r].connus = tires
    BY <1>t, <2>2
  <2>3. CASE SelectionnerFamille(r)
    <3>1. /\ requete[r].op = "couper"
          /\ requete'[r] = [op |-> "revoquer", famille |-> requete[r].famille,
                            connus |-> requete[r].connus,
                            vus |-> MaillonsACouper(requete[r].famille)]
          /\ session' = session /\ tires' = tires
      BY <1>t, <2>3 DEF SelectionnerFamille, Devient
    <3>2. \A s \in session : s.famille = requete[r].famille /\ Vivant(s) =>
            s.maillon \in MaillonsACouper(requete[r].famille)
      BY DEF MaillonsACouper, Vivant
    <3> QED BY <3>1, <3>2 DEF Coupures
  <2>4. CASE RevoquerFamille(r)
    <3>1. /\ requete[r].op = "revoquer"
          /\ requete'[r] = [op |-> "coupee", famille |-> requete[r].famille,
                            connus |-> requete[r].connus]
          /\ session' = {IF s.maillon \in requete[r].vus
                           THEN Coupee(s) ELSE s : s \in session}
          /\ tires' = tires
      BY <1>t, <2>4 DEF RevoquerFamille, Devient, Coupee
    <3>2. \A s \in session' : Vivant(s) =>
            s \in session /\ s.maillon \notin requete[r].vus
      BY <1>t, <3>1, LigneCoupee
    <3> QED BY <3>1, <3>2 DEF Coupures
  <2> QED BY <1>1, <2>1, <2>2, <2>3, <2>4, EffetsCoupure
<1> QED BY <1>1 DEF Coupures, CoupureTenue

-----------------------------------------------------------------------------
\* What may follow each statut of an account.
SuitesCompte ==
  [s \in StatutsCompte |->
     CASE s = "ABSENT"               -> {"PENDING_EMAIL_VERIFY"}
       [] s = "PENDING_EMAIL_VERIFY" -> {"ACTIVE", "PURGE"}
       [] s = "ACTIVE"               -> {"ERASED_PENDING"}
       [] s = "ERASED_PENDING"       -> {"ACTIVE", "ERASED"}
       [] OTHER                      -> {}]

SuivreAutomate ==
  \A c \in Comptes : \/ compte'[c].statut = compte[c].statut
                     \/ compte'[c].statut \in SuitesCompte[compte[c].statut]

\* The steps that write an account; every other one leaves it, its token and
\* the purge alone.
EcritCompte ==
  \/ \E c \in Comptes : \/ Inscrire(c)
                        \/ VerifierEmail(c)
                        \/ Vieillir(c)
                        \/ PasserDelaiDeGrace(c)
                        \/ \E e \in Effaceurs : Effacer(e, c)
  \/ \E r \in Requetes : ProgrammerEffacement(r) \/ AnnulerEffacement(r)
  \/ PurgerNonVerifies
  \/ SelectionnerPurge

LEMMA QuiEcritCompte ==
  ASSUME [Next]_vars
  PROVE  EcritCompte \/ UNCHANGED <<compte, jeton, purge>>
<1>1. ASSUME NEW r \in Requetes, Demander(r) \/ Ecrire(r)
      PROVE  EcritCompte \/ UNCHANGED <<compte, jeton, purge>>
  BY <1>1
  DEF Demander, Ecrire, EchouerConnexion, ReussirConnexion, Rejouer, Deconnecter,
      SelectionnerFamille, DemanderEffacement, DemanderRetablissement,
      Interrompre, EcrireEchec, Reinitialiser, Ouvrir, RevoquerFamille,
      EcritCompte
<1>2. ASSUME Ailleurs
      PROVE  EcritCompte \/ UNCHANGED <<compte, jeton, purge>>
  BY <1>2
  DEF Ailleurs, Rotationner, ReleverEchus, ConsignerEffacement,
      InterrompreEffaceur, Tic, EcritCompte
<1> QED BY <1>1, <1>2, LesPas DEF vars

\* A row of utilisateur when only one account moves, or when the purge takes
\* those it has selected.
LEMMA UnCompteChange ==
  ASSUME TypeOK, purge \subseteq APurger, NEW c \in Comptes, NEW l \in LignesCompte,
         compte' = [compte EXCEPT ![c] = l],
         \/ l.statut = compte[c].statut
         \/ l.statut \in SuitesCompte[compte[c].statut],
         \/ jeton' = jeton \ {c}
         \/ jeton' \subseteq jeton /\ l.statut = compte[c].statut
         \/ jeton' = jeton /\ compte[c].statut # "PENDING_EMAIL_VERIFY"
         \/ jeton' = jeton \cup {c} /\ l.statut = "PENDING_EMAIL_VERIFY",
         purge' = purge,
         c \in purge => l.statut = compte[c].statut /\ l.age >= RETENTION
  PROVE  /\ compte' \in [Comptes -> LignesCompte]
         /\ SuivreAutomate
         /\ jeton' \subseteq
              {x \in Comptes : compte'[x].statut = "PENDING_EMAIL_VERIFY"}
         /\ purge' \subseteq APurger'
<1>t. /\ compte \in [Comptes -> LignesCompte]
      /\ jeton \subseteq
           {x \in Comptes : compte[x].statut = "PENDING_EMAIL_VERIFY"}
  BY DEF TypeOK
<1>1. compte' \in [Comptes -> LignesCompte]
  BY <1>t
<1>2. \A x \in Comptes : compte'[x] = IF x = c THEN l ELSE compte[x]
  BY <1>t
<1>3. SuivreAutomate
  BY <1>2 DEF SuivreAutomate
<1>4. jeton' \subseteq
        {x \in Comptes : compte'[x].statut = "PENDING_EMAIL_VERIFY"}
  BY <1>t, <1>2
<1>5. purge' \subseteq APurger'
  BY <1>2 DEF APurger
<1> QED BY <1>1, <1>3, <1>4, <1>5

\* The row an UPDATE leaves: one column, two, or the whole of it.
LEMMA UneColonne ==
  ASSUME compte \in [Comptes -> LignesCompte], NEW c \in Comptes, NEW v
  PROVE  /\ [compte EXCEPT ![c].statut = v]
              = [compte EXCEPT ![c] = [statut |-> v, age |-> compte[c].age,
                                       echu |-> compte[c].echu]]
         /\ [compte EXCEPT ![c].age = v]
              = [compte EXCEPT ![c] = [statut |-> compte[c].statut, age |-> v,
                                       echu |-> compte[c].echu]]
         /\ [compte EXCEPT ![c].echu = v]
              = [compte EXCEPT ![c] = [statut |-> compte[c].statut,
                                       age |-> compte[c].age, echu |-> v]]
<1>1. compte[c] = [statut |-> compte[c].statut, age |-> compte[c].age,
                   echu |-> compte[c].echu]
  BY DEF LignesCompte
<1>2. [compte[c] EXCEPT !.statut = v]
        = [statut |-> v, age |-> compte[c].age, echu |-> compte[c].echu]
  BY <1>1
<1>3. [compte[c] EXCEPT !.age = v]
        = [statut |-> compte[c].statut, age |-> v, echu |-> compte[c].echu]
  BY <1>1
<1>4. [compte[c] EXCEPT !.echu = v]
        = [statut |-> compte[c].statut, age |-> compte[c].age, echu |-> v]
  BY <1>1
<1> QED BY <1>2, <1>3, <1>4

LEMMA DeuxColonnes ==
  ASSUME compte \in [Comptes -> LignesCompte], NEW c \in Comptes, NEW st, NEW b
  PROVE  [compte EXCEPT ![c].statut = st, ![c].echu = b]
           = [compte EXCEPT ![c] = [statut |-> st, age |-> compte[c].age,
                                    echu |-> b]]
<1> DEFINE g == [compte EXCEPT ![c].statut = st, ![c].echu = b]
<1>1. compte[c] = [statut |-> compte[c].statut, age |-> compte[c].age,
                   echu |-> compte[c].echu]
  BY DEF LignesCompte
<1>2. /\ \A x \in Comptes : x # c => g[x] = compte[x]
      /\ DOMAIN compte = Comptes
  OBVIOUS
<1>3. g[c] = [statut |-> st, age |-> compte[c].age, echu |-> b]
  BY <1>1
<1> QED BY <1>2, <1>3

LEMMA LigneEffacee ==
  ASSUME compte \in [Comptes -> LignesCompte], NEW c \in Comptes
  PROVE  [compte EXCEPT ![c].statut = "ERASED", ![c].age = 0, ![c].echu = FALSE]
           = [compte EXCEPT ![c] = [statut |-> "ERASED", age |-> 0,
                                    echu |-> FALSE]]
<1> DEFINE h == [compte EXCEPT ![c].statut = "ERASED", ![c].age = 0,
                               ![c].echu = FALSE]
<1>1. compte[c] = [statut |-> compte[c].statut, age |-> compte[c].age,
                   echu |-> compte[c].echu]
  BY DEF LignesCompte
<1>2. /\ \A x \in Comptes : x # c => h[x] = compte[x]
      /\ DOMAIN compte = Comptes
  OBVIOUS
<1>3. h[c] = [statut |-> "ERASED", age |-> 0, echu |-> FALSE]
  BY <1>1
<1> QED BY <1>2, <1>3

\* Every step moves an account along its automaton, leaves a token only to an
\* account that is still to be verified, and the purge in progress where it
\* aimed: an account old enough to be purged cannot be verified any more.
LEMMA ComptesNext ==
  ASSUME TypeOK, Visees, [Next]_vars
  PROVE  /\ compte' \in [Comptes -> LignesCompte]
         /\ SuivreAutomate
         /\ jeton' \subseteq
              {x \in Comptes : compte'[x].statut = "PENDING_EMAIL_VERIFY"}
         /\ purge' \subseteq APurger'
<1> DEFINE But == /\ compte' \in [Comptes -> LignesCompte]
                  /\ SuivreAutomate
                  /\ jeton' \subseteq
                       {x \in Comptes : compte'[x].statut = "PENDING_EMAIL_VERIFY"}
                  /\ purge' \subseteq APurger'
<1>t. /\ compte \in [Comptes -> LignesCompte]
      /\ jeton \subseteq
           {x \in Comptes : compte[x].statut = "PENDING_EMAIL_VERIFY"}
      /\ purge \subseteq APurger
      /\ RETENTION \in Nat /\ 0 \in 0..RETENTION
      /\ VALIDITE_JETON \in Nat /\ VALIDITE_JETON < RETENTION
  BY ParametresAssumption DEF TypeOK, Visees
<1>c. ASSUME NEW c \in Comptes
      PROVE  /\ compte[c].statut \in StatutsCompte
             /\ compte[c].age \in 0..RETENTION /\ compte[c].age \in Nat
             /\ compte[c].echu \in BOOLEAN
             /\ compte[c] = [statut |-> compte[c].statut, age |-> compte[c].age,
                             echu |-> compte[c].echu]
             /\ c \in purge => compte[c].statut = "PENDING_EMAIL_VERIFY"
                               /\ compte[c].age >= RETENTION
  BY <1>t, <1>c DEF LignesCompte, APurger
<1>e. ASSUME NEW c \in Comptes, NEW st \in StatutsCompte, NEW a \in 0..RETENTION,
             NEW b \in BOOLEAN
      PROVE  [statut |-> st, age |-> a, echu |-> b] \in LignesCompte
  BY DEF LignesCompte
<1>1. ASSUME NEW c \in Comptes, Inscrire(c) PROVE But
  <2> DEFINE l == [statut |-> "PENDING_EMAIL_VERIFY", age |-> compte[c].age,
                   echu |-> compte[c].echu]
  <2>a. [compte EXCEPT ![c].statut = "PENDING_EMAIL_VERIFY"]
          = [compte EXCEPT ![c] = l]
    BY <1>t, UneColonne
  <2>b. /\ compte' = [compte EXCEPT ![c].statut = "PENDING_EMAIL_VERIFY"]
        /\ compte[c].statut = "ABSENT"
        /\ jeton' = jeton \cup {c} /\ purge' = purge
    BY <1>1 DEF Inscrire, CreerSiAbsent
  <2>1. /\ compte' = [compte EXCEPT ![c] = l]
        /\ compte[c].statut = "ABSENT"
        /\ jeton' = jeton \cup {c} /\ purge' = purge
    BY <2>a, <2>b
  <2>2. l \in LignesCompte
    BY <1>c, <1>e DEF StatutsCompte
  <2>3. l.statut \in SuitesCompte[compte[c].statut]
    BY <2>1 DEF SuitesCompte, StatutsCompte
  <2> QED BY <1>c, <2>1, <2>2, <2>3, UnCompteChange DEF Visees
<1>2. ASSUME NEW c \in Comptes, VerifierEmail(c) PROVE But
  <2> DEFINE l == [statut |-> "ACTIVE", age |-> compte[c].age,
                   echu |-> compte[c].echu]
  <2>1. /\ compte' = [compte EXCEPT ![c] = l]
        /\ compte[c].statut = "PENDING_EMAIL_VERIFY"
        /\ compte[c].age < VALIDITE_JETON
        /\ jeton' = jeton \ {c} /\ purge' = purge
    <3>1. compte' = [compte EXCEPT ![c].statut = "ACTIVE"]
      BY <1>2 DEF VerifierEmail, ConsommerJeton
    <3>2. compte' = [compte EXCEPT ![c] = l]
      BY <1>t, <3>1, UneColonne
    <3> HIDE DEF l
    <3> QED BY <1>2, <1>t, <3>2
      DEF VerifierEmail, ConsommerJeton, JetonConsommable, JetonsRestants
  <2>2. c \notin purge
    BY <1>c, <1>t, <2>1
  <2>3. l \in LignesCompte
    BY <1>c, <1>e DEF StatutsCompte
  <2>4. l.statut \in SuitesCompte[compte[c].statut]
    BY <2>1 DEF SuitesCompte, StatutsCompte
  <2> QED BY <2>1, <2>2, <2>3, <2>4, UnCompteChange DEF Visees
<1>3. ASSUME NEW c \in Comptes, Vieillir(c) PROVE But
  <2> DEFINE l == [statut |-> compte[c].statut, age |-> compte[c].age + 1,
                   echu |-> compte[c].echu]
  <2>1. /\ compte' = [compte EXCEPT ![c] = l]
        /\ compte[c].age < RETENTION
        /\ jeton' = jeton /\ purge' = purge
    BY <1>3, <1>c, <1>t, UneColonne DEF Vieillir
  <2>2. c \notin purge /\ compte[c].age + 1 \in 0..RETENTION
    BY <1>c, <1>t, <2>1
  <2>3. l \in LignesCompte
    BY <1>c, <1>e, <2>2
  <2> QED BY <2>1, <2>2, <2>3, UnCompteChange DEF Visees
<1>4. ASSUME NEW c \in Comptes, PasserDelaiDeGrace(c) PROVE But
  <2> DEFINE l == [statut |-> compte[c].statut, age |-> compte[c].age,
                   echu |-> TRUE]
  <2>1. /\ compte' = [compte EXCEPT ![c] = l]
        /\ jeton' = jeton /\ purge' = purge
    BY <1>4, <1>c, <1>t, UneColonne DEF PasserDelaiDeGrace
  <2>2. l \in LignesCompte
    BY <1>c, <1>e
  <2> QED BY <1>c, <2>1, <2>2, UnCompteChange DEF Visees
<1>5. ASSUME NEW e \in Effaceurs, NEW c \in Comptes, Effacer(e, c) PROVE But
  <2> DEFINE l == [statut |-> "ERASED", age |-> 0, echu |-> FALSE]
  <2>1. CASE Effacable(c)
    <3>1. /\ compte' = [compte EXCEPT ![c] = l]
          /\ compte[c].statut = "ERASED_PENDING"
          /\ jeton' = jeton \ {c} /\ purge' = purge
      <4>1. compte' = [compte EXCEPT ![c].statut = "ERASED", ![c].age = 0,
                                     ![c].echu = FALSE]
        BY <1>5, <2>1 DEF Effacer
      <4>2. compte' = [compte EXCEPT ![c] = l]
        BY <1>t, <4>1, LigneEffacee
      <4> HIDE DEF l
      <4> QED BY <1>5, <2>1, <4>2 DEF Effacer, Effacable
    <3>2. l \in LignesCompte
      BY <1>e, <1>t DEF StatutsCompte
    <3>3. l.statut \in SuitesCompte[compte[c].statut]
      BY <3>1 DEF SuitesCompte, StatutsCompte
    <3> QED BY <1>c, <3>1, <3>2, <3>3, UnCompteChange DEF Visees
  <2>2. CASE ~Effacable(c)
    BY <1>5, <1>t, <2>2 DEF Effacer, SuivreAutomate, APurger
  <2> QED BY <2>1, <2>2
<1>6. ASSUME NEW r \in Requetes, ProgrammerEffacement(r) PROVE But
  <2> DEFINE c == requete[r].compte
             l == [statut |-> "ERASED_PENDING", age |-> compte[c].age,
                   echu |-> FALSE]
  <2>1. /\ c \in Comptes
        /\ compte[c].statut \notin {"ABSENT", "PENDING_EMAIL_VERIFY"}
        /\ jeton' = jeton /\ purge' = purge
    BY <1>6, ChampsRequete DEF ProgrammerEffacement, Visees
  <2>2. CASE Programmable(c)
    <3>1. /\ compte' = [compte EXCEPT ![c] = l]
          /\ compte[c].statut \in {"ACTIVE", "ERASED_PENDING"}
      <4>1. compte' = [compte EXCEPT ![c].statut = "ERASED_PENDING",
                                     ![c].echu = FALSE]
        BY <1>6, <2>2 DEF ProgrammerEffacement
      <4>2. compte' = [compte EXCEPT ![c] = l]
        BY <1>t, <2>1, <4>1, DeuxColonnes
      <4> HIDE DEF l, c
      <4> QED BY <1>c, <2>1, <2>2, <4>2 DEF Programmable, Lignes, StatutsCompte
    <3>2. l \in LignesCompte
      BY <1>c, <1>e, <2>1 DEF StatutsCompte
    <3>3. \/ l.statut = compte[c].statut
          \/ l.statut \in SuitesCompte[compte[c].statut]
      BY <3>1 DEF SuitesCompte, StatutsCompte
    <3> HIDE DEF l, c
    <3> QED BY <1>c, <2>1, <3>1, <3>2, <3>3, UnCompteChange DEF Visees
  <2>3. CASE ~Programmable(c)
    BY <1>6, <1>t, <2>1, <2>3 DEF ProgrammerEffacement, SuivreAutomate, APurger
  <2> QED BY <2>2, <2>3
<1>7. ASSUME NEW r \in Requetes, AnnulerEffacement(r) PROVE But
  <2> DEFINE c == requete[r].compte
             l == [statut |-> "ACTIVE", age |-> compte[c].age, echu |-> FALSE]
  <2>1. /\ c \in Comptes
        /\ jeton' = jeton /\ purge' = purge
    BY <1>7, ChampsRequete DEF AnnulerEffacement
  <2>2. CASE Retablissable(c)
    <3>1. /\ compte' = [compte EXCEPT ![c] = l]
          /\ compte[c].statut = "ERASED_PENDING"
      <4>1. compte' = [compte EXCEPT ![c].statut = "ACTIVE", ![c].echu = FALSE]
        BY <1>7, <2>2 DEF AnnulerEffacement
      <4>2. compte' = [compte EXCEPT ![c] = l]
        BY <1>t, <2>1, <4>1, DeuxColonnes
      <4> QED BY <2>2, <4>2 DEF Retablissable
    <3>2. l \in LignesCompte
      BY <1>c, <1>e, <2>1 DEF StatutsCompte
    <3>3. l.statut \in SuitesCompte[compte[c].statut]
      BY <3>1 DEF SuitesCompte, StatutsCompte
    <3> HIDE DEF l, c
    <3> QED BY <1>c, <2>1, <3>1, <3>2, <3>3, UnCompteChange DEF Visees
  <2>3. CASE ~Retablissable(c)
    BY <1>7, <1>t, <2>1, <2>3 DEF AnnulerEffacement, SuivreAutomate, APurger
  <2> QED BY <2>2, <2>3
<1>8. CASE PurgerNonVerifies
  <2>1. compte' \in [Comptes -> LignesCompte]
    BY <1>8, <1>c, <1>t DEF PurgerNonVerifies, LignesCompte, StatutsCompte
  <2>2. \A c \in Comptes :
          /\ c \in purge => compte'[c].statut = "PURGE"
          /\ c \notin purge => compte'[c] = compte[c]
    BY <1>8, <1>c DEF PurgerNonVerifies
  <2>3. SuivreAutomate
    BY <1>c, <2>2 DEF SuivreAutomate, SuitesCompte, StatutsCompte
  <2> QED BY <1>8, <1>t, <2>1, <2>2, <2>3 DEF PurgerNonVerifies
<1>9. CASE SelectionnerPurge
  BY <1>9, <1>t DEF SelectionnerPurge, SuivreAutomate, APurger
<1>10. CASE UNCHANGED <<compte, jeton, purge>>
  BY <1>10, <1>t DEF SuivreAutomate, APurger
<1> QED BY <1>1, <1>2, <1>3, <1>4, <1>5, <1>6, <1>7, <1>8, <1>9, <1>10,
           QuiEcritCompte
        DEF EcritCompte

\* A request that is about to ask for an erasure has read an ACTIVE account,
\* and no account goes back to the address that is still to be verified.
LEMMA ViseesNext ==
  ASSUME TypeOK, Visees, [Next]_vars
  PROVE  Visees'
<1>t. /\ requete \in [Requetes -> EtatsRequete]
      /\ compte \in [Comptes -> LignesCompte]
  BY DEF TypeOK
<1> DEFINE Vise(r) == \/ requete'[r] = requete[r]
                      \/ /\ requete'[r].compte \in Comptes
                         /\ compte[requete'[r].compte].statut = "ACTIVE"
<1>n. ASSUME NEW r \in Requetes, NEW q \in Requetes, NEW e, Devient(q, e),
             e.op # "programmer", requete'[r].op = "programmer"
      PROVE  Vise(r)
  BY <1>t, <1>n DEF Devient
<1>1. ASSUME NEW r \in Requetes, NEW q \in Requetes, Demander(q),
             requete'[r].op = "programmer"
      PROVE  Vise(r)
  <2>1. ASSUME NEW c \in Comptes, DemanderEffacement(q, c) PROVE Vise(r)
    BY <1>t, <2>1 DEF DemanderEffacement, Devient
  <2>2. ASSUME NEW c \in Comptes, ReussirConnexion(q, c) PROVE Vise(r)
    BY <1>1, <1>n, <2>2 DEF ReussirConnexion
  <2> QED BY <1>1, <1>n, <2>1, <2>2
          DEF Demander, EchouerConnexion, Rejouer, Deconnecter,
              SelectionnerFamille, DemanderRetablissement, Interrompre, Repos
<1>2. ASSUME NEW r \in Requetes, NEW q \in Requetes, Ecrire(q),
             requete'[r].op = "programmer"
      PROVE  Vise(r)
  BY <1>2, <1>n
  DEF Ecrire, EcrireEchec, Reinitialiser, Ouvrir, RevoquerFamille,
      ProgrammerEffacement, AnnulerEffacement, Repos
<1>3. ASSUME NEW r \in Requetes, Ailleurs, requete'[r].op = "programmer"
      PROVE  Vise(r)
  <2>1. CASE Tic
    <3>1. ASSUME requete[r].op = "echouer" PROVE FALSE
      <4>1. requete[r] = [op |-> "echouer", compte |-> requete[r].compte,
                          apres |-> requete[r].apres]
        BY <3>1, ChampsRequete
      <4>2. [requete[r] EXCEPT !.apres = VerrouApresTic(@)].op = "echouer"
        BY <4>1
      <4> QED BY <1>3, <2>1, <3>1, <4>2 DEF Tic
    <3> QED BY <2>1, <3>1 DEF Tic
  <2>2. ASSUME NEW c \in Comptes, PasserDelaiDeGrace(c) PROVE Vise(r)
    BY <1>3, <2>2 DEF PasserDelaiDeGrace, Repos
  <2>3. CASE UNCHANGED requete
    BY <2>3
  <2> QED BY <1>3, <2>1, <2>2, <2>3
    DEF Ailleurs, Rotationner, Inscrire, VerifierEmail, Vieillir, Effacer,
        ReleverEchus, ConsignerEffacement, InterrompreEffaceur,
        SelectionnerPurge, PurgerNonVerifies
<1>4. ASSUME NEW r \in Requetes, requete'[r].op = "programmer"
      PROVE  Vise(r)
  BY <1>1, <1>2, <1>3, <1>4, LesPas DEF vars
<1>5. ASSUME NEW r \in Requetes, requete'[r].op = "programmer"
      PROVE  compte'[requete'[r].compte].statut
               \notin {"ABSENT", "PENDING_EMAIL_VERIFY"}
  <2> DEFINE c == requete'[r].compte
  <2>1. /\ c \in Comptes
        /\ compte[c].statut \in StatutsCompte
        /\ compte[c].statut \notin {"ABSENT", "PENDING_EMAIL_VERIFY"}
    BY <1>t, <1>4, <1>5, ChampsRequete DEF Visees, LignesCompte
  <2>2. \/ compte'[c].statut = compte[c].statut
        \/ compte'[c].statut \in SuitesCompte[compte[c].statut]
    BY <2>1, ComptesNext DEF SuivreAutomate
  <2> HIDE DEF c
  <2>3. compte'[c].statut \notin {"ABSENT", "PENDING_EMAIL_VERIFY"}
    BY <2>1, <2>2 DEF SuitesCompte, StatutsCompte
  <2> QED BY <2>3 DEF c
<1> QED BY <1>5, ComptesNext DEF Visees

-----------------------------------------------------------------------------
\* The steps of klaar-effacer that write what it still has to record, or the
\* audit log.
LEMMA EffetsEffaceur ==
  ASSUME [Next]_vars
  PROVE  \/ \E e \in Effaceurs : \/ \E c \in Comptes : Effacer(e, c)
                                 \/ ConsignerEffacement(e)
                                 \/ ReleverEchus(e)
                                 \/ InterrompreEffaceur(e)
         \/ \E c \in Comptes : PasserDelaiDeGrace(c)
         \/ UNCHANGED <<effaceur, journal>>
<1>1. ASSUME NEW r \in Requetes, Demander(r) \/ Ecrire(r)
      PROVE  UNCHANGED <<effaceur, journal>>
  BY <1>1
  DEF Demander, Ecrire, EchouerConnexion, ReussirConnexion, Rejouer, Deconnecter,
      SelectionnerFamille, DemanderEffacement, DemanderRetablissement,
      Interrompre, EcrireEchec, Reinitialiser, Ouvrir, RevoquerFamille,
      ProgrammerEffacement, AnnulerEffacement
<1>2. ASSUME NEW s \in session, Rotationner(s)
      PROVE  UNCHANGED <<effaceur, journal>>
  BY <1>2 DEF Rotationner
<1>3. ASSUME NEW c \in Comptes, Inscrire(c) \/ VerifierEmail(c) \/ Vieillir(c)
      PROVE  UNCHANGED <<effaceur, journal>>
  BY <1>3 DEF Inscrire, VerifierEmail, Vieillir
<1>4. ASSUME SelectionnerPurge \/ PurgerNonVerifies \/ Tic
      PROVE  UNCHANGED <<effaceur, journal>>
  BY <1>4 DEF SelectionnerPurge, PurgerNonVerifies, Tic
<1> QED BY <1>1, <1>2, <1>3, <1>4, LesPas DEF vars, Ailleurs

EtatsEffaceur == [lot : SUBSET Comptes, aConsigner : SUBSET Comptes]

\* An account nobody has recorded goes to one instance, and is recorded once.
LEMMA ConsignesNext ==
  ASSUME TypeOK, Visees, Consignes, EffaceUneFois, [Next]_vars
  PROVE  /\ effaceur' \in [Effaceurs -> EtatsEffaceur]
         /\ journal' \in [Comptes -> Nat]
         /\ Consignes'
         /\ EffaceUneFois'
<1> DEFINE But == /\ effaceur' \in [Effaceurs -> EtatsEffaceur]
                  /\ journal' \in [Comptes -> Nat]
                  /\ Consignes'
                  /\ EffaceUneFois'
<1>t. /\ effaceur \in [Effaceurs -> EtatsEffaceur]
      /\ journal \in [Comptes -> Nat]
      /\ compte \in [Comptes -> LignesCompte]
      /\ \A e \in Effaceurs : /\ effaceur[e].lot \in SUBSET Comptes
                              /\ effaceur[e].aConsigner \in SUBSET Comptes
  BY DEF TypeOK, EtatsEffaceur
<1>r. AuRepos \in EtatsEffaceur /\ AuRepos.aConsigner = {}
  BY DEF AuRepos, EtatsEffaceur
<1>f. \A c \in Comptes : compte[c].statut = "ERASED" => compte'[c].statut = "ERASED"
  BY <1>t, ComptesNext DEF SuivreAutomate, SuitesCompte, StatutsCompte
<1>m. ASSUME journal' = journal,
             effaceur' \in [Effaceurs -> EtatsEffaceur],
             \A e \in Effaceurs :
               effaceur'[e].aConsigner \subseteq effaceur[e].aConsigner
      PROVE  But
  <2>1. Consignes'
    BY <1>f, <1>m, <1>t DEF Consignes
  <2>2. EffaceUneFois'
    BY <1>f, <1>m DEF EffaceUneFois
  <2> QED BY <1>m, <1>t, <2>1, <2>2
<1>1. ASSUME NEW e \in Effaceurs, NEW c \in Comptes, Effacer(e, c) PROVE But
  <2>1. CASE Effacable(c)
    <3>1. /\ compte[c].statut = "ERASED_PENDING"
          /\ compte' = [compte EXCEPT ![c].statut = "ERASED",
                                      ![c].age = 0, ![c].echu = FALSE]
          /\ effaceur' = [effaceur EXCEPT ![e] =
                            [lot |-> effaceur[e].lot \ {c}, aConsigner |-> {c}]]
          /\ journal' = journal
      BY <1>1, <2>1 DEF Effacer, Effacable
    <3>2. compte'[c].statut = "ERASED"
      <4>1. compte' = [compte EXCEPT ![c] = [statut |-> "ERASED", age |-> 0,
                                             echu |-> FALSE]]
        BY <1>t, <3>1, LigneEffacee
      <4> QED BY <1>t, <4>1
    <3>3. journal[c] = 0
      BY <1>t, <3>1 DEF EffaceUneFois
    <3>4. \A f \in Effaceurs : c \notin effaceur[f].aConsigner
      BY <3>1 DEF Consignes
    <3>5. /\ effaceur' \in [Effaceurs -> EtatsEffaceur]
          /\ effaceur'[e].aConsigner = {c}
          /\ \A f \in Effaceurs : f # e => effaceur'[f] = effaceur[f]
      BY <1>t, <3>1 DEF EtatsEffaceur
    <3>6. Consignes'
      BY <1>f, <1>t, <3>1, <3>2, <3>3, <3>4, <3>5 DEF Consignes
    <3>7. EffaceUneFois'
      BY <1>f, <3>1 DEF EffaceUneFois
    <3> QED BY <1>t, <3>1, <3>5, <3>6, <3>7
  <2>2. CASE ~Effacable(c)
    <3>1. /\ effaceur' = [effaceur EXCEPT ![e].lot = effaceur[e].lot \ {c}]
          /\ journal' = journal
      BY <1>1, <2>2 DEF Effacer
    <3>2. /\ effaceur' \in [Effaceurs -> EtatsEffaceur]
          /\ \A f \in Effaceurs :
               effaceur'[f].aConsigner = effaceur[f].aConsigner
      BY <1>t, <3>1 DEF EtatsEffaceur
    <3> QED BY <1>m, <3>1, <3>2
  <2> QED BY <2>1, <2>2
<1>2. ASSUME NEW e \in Effaceurs, ConsignerEffacement(e) PROVE But
  <2>1. /\ journal' = [c \in Comptes |->
             IF c \in effaceur[e].aConsigner THEN journal[c] + 1 ELSE journal[c]]
        /\ effaceur' = [effaceur EXCEPT ![e].aConsigner = {}]
    BY <1>2 DEF ConsignerEffacement
  <2>2. /\ effaceur' \in [Effaceurs -> EtatsEffaceur]
        /\ effaceur'[e].aConsigner = {}
        /\ \A f \in Effaceurs : f # e => effaceur'[f] = effaceur[f]
    BY <1>t, <2>1 DEF EtatsEffaceur
  <2>3. \A c \in Comptes :
          /\ c \in effaceur[e].aConsigner =>
               /\ journal'[c] = 1
               /\ compte[c].statut = "ERASED"
          /\ c \notin effaceur[e].aConsigner => journal'[c] = journal[c]
    BY <1>t, <2>1 DEF Consignes
  <2>4. Consignes'
    <3> SUFFICES ASSUME NEW f \in Effaceurs, NEW c \in effaceur'[f].aConsigner
                 PROVE  /\ compte'[c].statut = "ERASED"
                        /\ journal'[c] = 0
                        /\ \A g \in Effaceurs :
                             c \in effaceur'[g].aConsigner => g = f
      BY DEF Consignes
    <3>1. f # e /\ c \in effaceur[f].aConsigner /\ c \in Comptes
      BY <1>t, <2>2
    <3>2. c \notin effaceur[e].aConsigner
      BY <3>1 DEF Consignes
    <3> QED BY <1>f, <2>2, <2>3, <3>1, <3>2 DEF Consignes
  <2>5. EffaceUneFois'
    BY <1>f, <1>t, <2>3 DEF EffaceUneFois
  <2>6. journal' \in [Comptes -> Nat]
    BY <1>t, <2>1
  <2> QED BY <2>2, <2>4, <2>5, <2>6
<1>3. ASSUME NEW e \in Effaceurs, ReleverEchus(e) PROVE But
  <2>1. /\ effaceur' = [effaceur EXCEPT ![e].lot = EffacementsEchus]
        /\ journal' = journal
        /\ EffacementsEchus \in SUBSET Comptes
    BY <1>3 DEF ReleverEchus, EffacementsEchus
  <2>2. /\ effaceur' \in [Effaceurs -> EtatsEffaceur]
        /\ \A f \in Effaceurs : effaceur'[f].aConsigner = effaceur[f].aConsigner
    BY <1>t, <2>1 DEF EtatsEffaceur
  <2> QED BY <1>m, <2>1, <2>2
<1>4. ASSUME NEW e \in Effaceurs, InterrompreEffaceur(e) PROVE But
  BY <1>m, <1>r, <1>t, <1>4 DEF InterrompreEffaceur
<1>5. ASSUME NEW c \in Comptes, PasserDelaiDeGrace(c) PROVE But
  BY <1>m, <1>r, <1>t, <1>5 DEF PasserDelaiDeGrace
<1>6. CASE UNCHANGED <<effaceur, journal>>
  BY <1>m, <1>t, <1>6
<1> QED BY <1>1, <1>2, <1>3, <1>4, <1>5, <1>6, EffetsEffaceur

-----------------------------------------------------------------------------
\* Together they are inductive.
LEMMA InvInit == Init => Inv
<1> SUFFICES ASSUME Init PROVE Inv
  OBVIOUS
<1>1. TypeOK
  BY ParametresAssumption, ApresSuccesType
  DEF Init, TypeOK, LignesCompte, StatutsCompte, EtatsRequete, Repos, AuRepos
<1>2. /\ Rangs /\ Visees /\ UnMaillonParFamille
      /\ Coupures /\ CoupureTenue /\ Consignes /\ EffaceUneFois
  BY DEF Init, Rangs, Visees, UnMaillonParFamille, Coupures, CoupureTenue,
         Consignes, EffaceUneFois, Repos, AuRepos
<1> QED BY <1>1, <1>2 DEF Inv

LEMMA InvNext == Inv /\ [Next]_vars => Inv'
<1> SUFFICES ASSUME Inv, [Next]_vars PROVE Inv'
  OBVIOUS
<1>1. Saines(session', tires') /\ tires' \in 0..MAILLONS_MAX
  BY SessionNext DEF Inv
<1>2. /\ compte' \in [Comptes -> LignesCompte]
      /\ jeton' \subseteq
           {x \in Comptes : compte'[x].statut = "PENDING_EMAIL_VERIFY"}
      /\ purge' \subseteq Comptes
  BY ComptesNext DEF Inv, APurger
<1>3. /\ verrou' \in [Comptes -> Verrouillages]
      /\ requete' \in [Requetes -> EtatsRequete]
  BY VerrouNext, RequeteNext DEF Inv
<1>4. /\ effaceur' \in [Effaceurs -> [lot : SUBSET Comptes,
                                      aConsigner : SUBSET Comptes]]
      /\ journal' \in [Comptes -> Nat]
      /\ Consignes' /\ EffaceUneFois'
  BY ConsignesNext DEF Inv, EtatsEffaceur
<1>5. TypeOK' /\ Rangs' /\ UnMaillonParFamille'
  BY <1>1, <1>2, <1>3, <1>4 DEF TypeOK, Rangs, UnMaillonParFamille, Saines
<1>6. Coupures' /\ CoupureTenue'
  BY CoupuresNext DEF Inv
<1>7. Visees'
  BY ViseesNext DEF Inv
<1> QED BY <1>4, <1>5, <1>6, <1>7 DEF Inv

LEMMA InvToujours == Spec => []Inv
BY InvInit, InvNext, PTL DEF Spec

\* Every row keeps a value its column allows, the links of session_refresh
\* stay distinct, and a token is only left to an account still to be verified.
THEOREM TypeCorrect == Spec => []TypeOK
BY InvToujours, PTL DEF Inv

\* However many tabs refresh, replay and log out at once, one link at most
\* opens a family.
THEOREM UnSeulMaillon == Spec => []UnMaillonParFamille
BY InvToujours, PTL DEF Inv

\* Once a reuse or a logout was answered, no link of the family drawn before it
\* was asked for opens it any more, whatever was rotated between the selection
\* of the rows and their UPDATE.
THEOREM CoupureToujoursTenue == Spec => []CoupureTenue
BY InvToujours, PTL DEF Inv

\* Any number of instances of klaar-effacer record the erasure of an account
\* once at most, and only of an account that is erased.
THEOREM UnSeulEffacement == Spec => []EffaceUneFois
BY InvToujours, PTL DEF Inv

\* An erased account stays erased, whatever the requests in progress had read.
THEOREM EffacementToujoursFinal == Spec => EffacementFinal
<1> DEFINE Final == \A c \in Comptes :
                      compte[c].statut = "ERASED" => compte'[c].statut = "ERASED"
<1>1. ASSUME Inv, [Next]_vars PROVE [Final]_vars
  <2>1. SuivreAutomate
    BY <1>1, ComptesNext DEF Inv
  <2> QED BY <2>1 DEF SuivreAutomate, SuitesCompte, StatutsCompte
<1> QED BY <1>1, InvToujours, PTL DEF Spec, EffacementFinal

\* Only an account whose address was never verified is purged: the time a token
\* lives is over before the purge may select its account.
THEOREM VerifieJamaisPurge == Spec => VerifieNonPurge
<1> DEFINE Epargne ==
      \A c \in Comptes :
        compte[c].statut # "PURGE" /\ compte'[c].statut = "PURGE"
          => compte[c].statut = "PENDING_EMAIL_VERIFY"
<1>1. ASSUME Inv, [Next]_vars PROVE [Epargne]_vars
  <2>1. SuivreAutomate /\ compte \in [Comptes -> LignesCompte]
    BY <1>1, ComptesNext DEF Inv, TypeOK
  <2> QED BY <2>1 DEF SuivreAutomate, SuitesCompte, StatutsCompte, LignesCompte
<1> QED BY <1>1, InvToujours, PTL DEF Spec, VerifieNonPurge
=============================================================================
