-------------------------------- MODULE Acces --------------------------------
(***************************************************************************)
(* An account and its sessions: registration, verification of the address, *)
(* purge, login and lockout, rotation of the refresh token, erasure        *)
(* (klaar-identity and the usecases inscrire_utilisateur, verifier_email,  *)
(* purger_comptes, connecter, rafraichir, effacer, over klaar-sqlx-repos). *)
(*                                                                         *)
(* As in Attribution, requete[r] is what a handler carries from its reads  *)
(* to its write, and one SQL transaction is one step.  Two statements are  *)
(* split into the rows their snapshot selects and the rows they write,     *)
(* because PostgreSQL (READ COMMITTED) does not select again after waiting *)
(* for a lock: the DELETE of the purge and the UPDATE that cuts a family.  *)
(*                                                                         *)
(* The clocks of the account (hours), of the lockout (minutes) and of the  *)
(* erasure (days) are independent: no decision compares two of them.       *)
(***************************************************************************)
EXTENDS Naturals, FiniteSets

CONSTANTS
  Comptes,          \* the accounts that may register
  MAILLONS_MAX,     \* refresh tokens that may be drawn
  Requetes,         \* HTTP requests in progress at once
  Effaceurs,        \* instances of klaar-effacer that may run at once
  VALIDITE_JETON,   \* life of the verification token
  RETENTION,        \* age at which an unverified account is purged
  MAX_ECHECS,       \* failures that lock an account
  FENETRE_ECHECS,   \* age at which the last failure is forgotten
  DUREE_VERROU,     \* length of a lock
  PAR_PASSAGE_MAX   \* accounts one purge may delete

ASSUME ParametresAssumption ==
  /\ MAILLONS_MAX \in Nat
  /\ VALIDITE_JETON \in Nat \ {0}
  /\ RETENTION \in Nat
  /\ RETENTION > VALIDITE_JETON
  /\ MAX_ECHECS \in Nat \ {0}
  /\ FENETRE_ECHECS \in Nat
  /\ DUREE_VERROU \in Nat \ {0}
  /\ PAR_PASSAGE_MAX \in Nat \ {0}

VARIABLES
  compte,     \* table utilisateur: statut, age, due date of the erasure
  verrou,     \* the three columns of the lockout
  jeton,      \* accounts whose verification token is not consumed
  session,    \* table session_refresh: a set of rows
  tires,      \* how many refresh tokens were drawn so far
  requete,    \* what each request in progress will write
  purge,      \* the rows the purge in progress has selected
  effaceur,   \* each klaar-effacer: the rest of its list, its next entry
  journal     \* USER_ERASED entries of the audit log, per account

vars == <<compte, verrou, jeton, session, tires, requete, purge, effaceur,
          journal>>

-----------------------------------------------------------------------------
\* No row yet, the statuts of the column, no row any more.
StatutsCompte == {"ABSENT", "PENDING_EMAIL_VERIFY", "ACTIVE",
                  "ERASED_PENDING", "ERASED", "PURGE"}

Lignes == {c \in Comptes : compte[c].statut \notin {"ABSENT", "PURGE"}}

LignesCompte == [statut : StatutsCompte, age : 0..RETENTION, echu : BOOLEAN]

\* reste: what is left of the lock.  The code only compares the counter with
\* MAX_ECHECS, and the age of the last failure with FENETRE_ECHECS.
Verrouillages == [echecs : 0..MAX_ECHECS, age : 0..(FENETRE_ECHECS + 1),
                  reste : 0..DUREE_VERROU]

ApresSucces == [echecs |-> 0, age |-> 0, reste |-> 0]

EstVerrouille(v) == v.reste > 0

\* Mutant: a failure during the lock pushes its end.
ResteRepousse(v, echecs) == IF echecs >= MAX_ECHECS THEN DUREE_VERROU ELSE v.reste

Reste(v, echecs) ==
  IF echecs >= MAX_ECHECS /\ ~EstVerrouille(v) THEN DUREE_VERROU ELSE v.reste

ApresEchec(v) ==
  LET suite == IF v.echecs < MAX_ECHECS THEN v.echecs + 1 ELSE MAX_ECHECS
      echecs == IF v.echecs > 0 /\ v.age <= FENETRE_ECHECS THEN suite ELSE 1
  IN  [echecs |-> echecs, age |-> 0, reste |-> Reste(v, echecs)]

PeutOuvrirSession(c) == compte[c].statut \in {"ACTIVE", "ERASED_PENDING"}

\* Tokens are random: each is named by its rank among the tokens drawn, and a
\* family by its first link.  An expired link is one nobody rotates any more.
Maillons == 1..MAILLONS_MAX

LignesSession == [maillon : Maillons, compte : Comptes, famille : Maillons,
                  consomme : BOOLEAN, revoque : BOOLEAN]

Vivant(s) == ~s.consomme /\ ~s.revoque

EtatsRequete ==
       [op : {"repos"}]
  \cup [op : {"echouer"}, compte : Comptes, apres : Verrouillages]
  \cup [op : {"reinitialiser", "ouvrir", "programmer", "retablir"},
        compte : Comptes]
  \cup [op : {"couper", "coupee"}, famille : Maillons, connus : 0..MAILLONS_MAX]
  \cup [op : {"revoquer"}, famille : Maillons, connus : 0..MAILLONS_MAX,
        vus : SUBSET Maillons]

Repos == [op |-> "repos"]

Libre(r) == requete[r].op \in {"repos", "coupee"}

Devient(r, etat) == requete' = [requete EXCEPT ![r] = etat]

AuRepos == [lot |-> {}, aConsigner |-> {}]

-----------------------------------------------------------------------------
Init ==
  /\ compte = [c \in Comptes |->
                 [statut |-> "ABSENT", age |-> 0, echu |-> FALSE]]
  /\ verrou = [c \in Comptes |-> ApresSucces]
  /\ jeton = {}
  /\ session = {}
  /\ tires = 0
  /\ requete = [r \in Requetes |-> Repos]
  /\ purge = {}
  /\ effaceur = [e \in Effaceurs |-> AuRepos]
  /\ journal = [c \in Comptes |-> 0]

(***************************************************************************)
(* POST /auth/signup and the link of the e-mail: one transaction each.     *)
(***************************************************************************)
\* creer_si_absent: the account and its token, or nothing if the address is
\* already taken.
CreerSiAbsent(c) ==
  /\ compte[c].statut = "ABSENT"
  /\ compte' = [compte EXCEPT ![c].statut = "PENDING_EMAIL_VERIFY"]
  /\ jeton' = jeton \cup {c}

\* An address already taken gets the same answer, and another e-mail.
Inscrire(c) ==
  /\ CreerSiAbsent(c)
  /\ UNCHANGED <<verrou, session, tires, requete, purge, effaceur, journal>>

\* Mutant: the expiry of the token is not looked at.
JetonConsommableSansHeure(c) == c \in jeton

JetonConsommable(c) == c \in jeton /\ compte[c].age < VALIDITE_JETON

\* Mutant: the token is not marked as consumed.
JetonsRestantsTous(c) == jeton

JetonsRestants(c) == jeton \ {c}

\* The UPDATE of the account does not look at its statut.
ConsommerJeton(c) ==
  /\ JetonConsommable(c)
  /\ jeton' = JetonsRestants(c)
  /\ compte' = [compte EXCEPT ![c].statut = "ACTIVE"]

VerifierEmail(c) ==
  /\ ConsommerJeton(c)
  /\ UNCHANGED <<verrou, session, tires, requete, purge, effaceur, journal>>

(***************************************************************************)
(* The purge: the subquery selects, the DELETE waits for the rows it found *)
(* and does not look at their statut again.  Tokens go by cascade.         *)
(***************************************************************************)
APurger == {c \in Comptes : /\ compte[c].statut = "PENDING_EMAIL_VERIFY"
                            /\ compte[c].age >= RETENTION}

SelectionnerPurge ==
  /\ purge = {}
  /\ \E lot \in (SUBSET APurger) \ {{}} :
       /\ lot = APurger \/ Cardinality(lot) = PAR_PASSAGE_MAX
       /\ Cardinality(lot) <= PAR_PASSAGE_MAX
       /\ purge' = lot
  /\ UNCHANGED <<compte, verrou, jeton, session, tires, requete, effaceur,
                 journal>>

PurgerNonVerifies ==
  /\ purge # {}
  /\ compte' = [c \in Comptes |->
       IF c \in purge THEN [compte[c] EXCEPT !.statut = "PURGE"] ELSE compte[c]]
  /\ jeton' = jeton \ purge
  /\ session' = {s \in session : s.compte \notin purge}
  /\ purge' = {}
  /\ UNCHANGED <<verrou, tires, requete, effaceur, journal>>

(***************************************************************************)
(* POST /auth/login.  The account is read once; the password decides which *)
(* write follows.  An erased account has no password: nothing is right.    *)
(***************************************************************************)
EchouerConnexion(r, c) ==
  /\ Libre(r)
  /\ c \in Lignes
  /\ Devient(r, [op |-> "echouer", compte |-> c, apres |-> ApresEchec(verrou[c])])
  /\ UNCHANGED <<compte, verrou, jeton, session, tires, purge, effaceur, journal>>

\* A blind write of the three columns, computed on what was read.
EcrireEchec(r) ==
  /\ requete[r].op = "echouer"
  /\ verrou' = IF requete[r].compte \in Lignes
                 THEN [verrou EXCEPT ![requete[r].compte] = requete[r].apres]
                 ELSE verrou
  /\ Devient(r, Repos)
  /\ UNCHANGED <<compte, jeton, session, tires, purge, effaceur, journal>>

ReussirConnexion(r, c) ==
  /\ Libre(r)
  /\ PeutOuvrirSession(c)
  /\ ~EstVerrouille(verrou[c])
  /\ Devient(r, [op |-> IF verrou[c] = ApresSucces THEN "ouvrir"
                                                  ELSE "reinitialiser",
                 compte |-> c])
  /\ UNCHANGED <<compte, verrou, jeton, session, tires, purge, effaceur, journal>>

Reinitialiser(r) ==
  /\ requete[r].op = "reinitialiser"
  /\ verrou' = [verrou EXCEPT ![requete[r].compte] = ApresSucces]
  /\ Devient(r, [op |-> "ouvrir", compte |-> requete[r].compte])
  /\ UNCHANGED <<compte, jeton, session, tires, purge, effaceur, journal>>

Maillon(m, c, f) == [maillon |-> m, compte |-> c, famille |-> f,
                     consomme |-> FALSE, revoque |-> FALSE]

\* A login opens a family of its own; the statut is not looked at again.
Ouvrir(r) ==
  /\ requete[r].op = "ouvrir"
  /\ tires < MAILLONS_MAX
  /\ tires' = tires + 1
  /\ session' = session \cup {Maillon(tires', requete[r].compte, tires')}
  /\ Devient(r, Repos)
  /\ UNCHANGED <<compte, verrou, jeton, purge, effaceur, journal>>

(***************************************************************************)
(* POST /auth/refresh.  The row is locked; the statut of the account is    *)
(* not looked at.  A link presented twice cuts its family.                 *)
(***************************************************************************)
\* Mutant: the link that was presented stays valid.
ApresRotationSansTrace(s) == s

ApresRotation(s) == [s EXCEPT !.consomme = TRUE]

Rotationner(s) ==
  /\ Vivant(s)
  /\ tires < MAILLONS_MAX
  /\ tires' = tires + 1
  /\ session' = (session \ {s}) \cup
                  {ApresRotation(s), Maillon(tires', s.compte, s.famille)}
  /\ UNCHANGED <<compte, verrou, jeton, requete, purge, effaceur, journal>>

Rejouer(r, s) ==
  /\ Libre(r)
  /\ s.consomme
  /\ Devient(r, [op |-> "couper", famille |-> s.famille, connus |-> tires])
  /\ UNCHANGED <<compte, verrou, jeton, session, tires, purge, effaceur, journal>>

\* POST /auth/logout: any link of the family will do.
Deconnecter(r, s) ==
  /\ Libre(r)
  /\ Devient(r, [op |-> "couper", famille |-> s.famille, connus |-> tires])
  /\ UNCHANGED <<compte, verrou, jeton, session, tires, purge, effaceur, journal>>

\* Mutant: only the link named like the family is cut.
MaillonsACouperPremier(f) ==
  {s.maillon : s \in {t \in session : t.maillon = f /\ ~t.revoque}}

MaillonsACouper(f) ==
  {s.maillon : s \in {t \in session : t.famille = f /\ ~t.revoque}}

\* revoquer_famille: the snapshot, then the rows of it that are still there.
SelectionnerFamille(r) ==
  /\ requete[r].op = "couper"
  /\ Devient(r, [op |-> "revoquer", famille |-> requete[r].famille,
                 connus |-> requete[r].connus,
                 vus |-> MaillonsACouper(requete[r].famille)])
  /\ UNCHANGED <<compte, verrou, jeton, session, tires, purge, effaceur, journal>>

RevoquerFamille(r) ==
  /\ requete[r].op = "revoquer"
  /\ session' = {IF s.maillon \in requete[r].vus
                   THEN [s EXCEPT !.revoque = TRUE] ELSE s : s \in session}
  /\ Devient(r, [op |-> "coupee", famille |-> requete[r].famille,
                 connus |-> requete[r].connus])
  /\ UNCHANGED <<compte, verrou, jeton, tires, purge, effaceur, journal>>

(***************************************************************************)
(* POST /me/erase and /me/erase/cancel, by the holder of a session.        *)
(***************************************************************************)
DemanderEffacement(r, c) ==
  /\ Libre(r)
  /\ compte[c].statut = "ACTIVE"
  /\ Devient(r, [op |-> "programmer", compte |-> c])
  /\ UNCHANGED <<compte, verrou, jeton, session, tires, purge, effaceur, journal>>

\* The WHERE of the UPDATE.
Programmable(c) == c \in Lignes /\ compte[c].statut # "ERASED"

ProgrammerEffacement(r) ==
  LET c == requete[r].compte
  IN  /\ requete[r].op = "programmer"
      /\ compte' = IF Programmable(c)
                     THEN [compte EXCEPT ![c].statut = "ERASED_PENDING",
                                         ![c].echu = FALSE]
                     ELSE compte
      /\ Devient(r, Repos)
      /\ UNCHANGED <<verrou, jeton, session, tires, purge, effaceur, journal>>

DemanderRetablissement(r, c) ==
  /\ Libre(r)
  /\ compte[c].statut = "ERASED_PENDING"
  /\ Devient(r, [op |-> "retablir", compte |-> c])
  /\ UNCHANGED <<compte, verrou, jeton, session, tires, purge, effaceur, journal>>

\* Mutant: the UPDATE trusts the statut that was read.
RetablissableToujours(c) == c \in Lignes

Retablissable(c) == compte[c].statut = "ERASED_PENDING"

AnnulerEffacement(r) ==
  LET c == requete[r].compte
  IN  /\ requete[r].op = "retablir"
      /\ compte' = IF Retablissable(c)
                     THEN [compte EXCEPT ![c].statut = "ACTIVE",
                                         ![c].echu = FALSE]
                     ELSE compte
      /\ Devient(r, Repos)
      /\ UNCHANGED <<verrou, jeton, session, tires, purge, effaceur, journal>>

(***************************************************************************)
(* klaar-effacer: the list of the accounts that are due, then, one by one, *)
(* the transaction of effacer and the entry of the audit log.              *)
(***************************************************************************)
\* Mutant: the comparison with the due date the wrong way round.
EffacementsNonEchus ==
  {c \in Comptes : compte[c].statut = "ERASED_PENDING" /\ ~compte[c].echu}

EffacementsEchus ==
  {c \in Comptes : compte[c].statut = "ERASED_PENDING" /\ compte[c].echu}

ReleverEchus(e) ==
  /\ effaceur[e] = AuRepos
  /\ EffacementsEchus # {}
  /\ effaceur' = [effaceur EXCEPT ![e].lot = EffacementsEchus]
  /\ UNCHANGED <<compte, verrou, jeton, session, tires, requete, purge, journal>>

\* Mutant: the UPDATE without its guard, as before the test that found it.
EffacableToujours(c) == c \in Lignes

Effacable(c) == compte[c].statut = "ERASED_PENDING"

Effacer(e, c) ==
  /\ c \in effaceur[e].lot
  /\ effaceur[e].aConsigner = {}
  /\ IF Effacable(c)
       THEN /\ compte' = [compte EXCEPT ![c].statut = "ERASED",
                                        ![c].age = 0, ![c].echu = FALSE]
            /\ verrou' = [verrou EXCEPT ![c] = ApresSucces]
            /\ session' = {s \in session : s.compte # c}
            /\ jeton' = jeton \ {c}
            /\ effaceur' = [effaceur EXCEPT ![e] =
                              [lot |-> @.lot \ {c}, aConsigner |-> {c}]]
       ELSE /\ effaceur' = [effaceur EXCEPT ![e].lot = @ \ {c}]
            /\ UNCHANGED <<compte, verrou, jeton, session>>
  /\ UNCHANGED <<tires, requete, purge, journal>>

ConsignerEffacement(e) ==
  /\ effaceur[e].aConsigner # {}
  /\ journal' = [c \in Comptes |->
       IF c \in effaceur[e].aConsigner THEN journal[c] + 1 ELSE journal[c]]
  /\ effaceur' = [effaceur EXCEPT ![e].aConsigner = {}]
  /\ UNCHANGED <<compte, verrou, jeton, session, tires, requete, purge>>

(***************************************************************************)
(* A request, or klaar-effacer, is cut off; the clocks.                    *)
(***************************************************************************)
Interrompre(r) ==
  /\ ~Libre(r)
  /\ Devient(r, Repos)
  /\ UNCHANGED <<compte, verrou, jeton, session, tires, purge, effaceur, journal>>

InterrompreEffaceur(e) ==
  /\ effaceur[e] # AuRepos
  /\ effaceur' = [effaceur EXCEPT ![e] = AuRepos]
  /\ UNCHANGED <<compte, verrou, jeton, session, tires, requete, purge, journal>>

\* The account of someone who never clicks grows old.
Vieillir(c) ==
  /\ compte[c].statut = "PENDING_EMAIL_VERIFY"
  /\ compte[c].age < RETENTION
  /\ compte' = [compte EXCEPT ![c].age = @ + 1]
  /\ UNCHANGED <<verrou, jeton, session, tires, requete, purge, effaceur, journal>>

VerrouApresTic(v) ==
  IF v.echecs = 0 THEN v
    ELSE [echecs |-> v.echecs,
          age    |-> IF v.age <= FENETRE_ECHECS THEN v.age + 1 ELSE v.age,
          reste  |-> IF v.reste > 0 THEN v.reste - 1 ELSE 0]

\* A few minutes pass.  What a request has computed holds instants, so it
\* grows old with the row.
Tic ==
  /\ verrou' = [c \in Comptes |-> VerrouApresTic(verrou[c])]
  /\ requete' = [r \in Requetes |->
       IF requete[r].op = "echouer"
         THEN [requete[r] EXCEPT !.apres = VerrouApresTic(@)] ELSE requete[r]]
  /\ UNCHANGED <<compte, jeton, session, tires, purge, effaceur, journal>>

\* Thirty days pass: whatever was in progress has timed out long before.
PasserDelaiDeGrace(c) ==
  /\ compte[c].statut = "ERASED_PENDING"
  /\ ~compte[c].echu
  /\ compte' = [compte EXCEPT ![c].echu = TRUE]
  /\ requete' = [r \in Requetes |-> IF Libre(r) THEN requete[r] ELSE Repos]
  /\ effaceur' = [e \in Effaceurs |-> AuRepos]
  /\ UNCHANGED <<verrou, jeton, session, tires, purge, journal>>

-----------------------------------------------------------------------------
\* The handlers of the routes, each with the steps it takes.

\* One answer for every outcome; the limiter of Porte may refuse before it.
Signup == \E c \in Comptes : Inscrire(c)

\* A token consumed earlier is answered as a success, and writes nothing.
Verifier == \E c \in Comptes : VerifierEmail(c)

Login(r) ==
  \/ \E c \in Comptes : EchouerConnexion(r, c) \/ ReussirConnexion(r, c)
  \/ EcrireEchec(r)
  \/ Reinitialiser(r)
  \/ Ouvrir(r)

Refresh(r) == \E s \in session : Rotationner(s) \/ Rejouer(r, s)

Logout(r) == \E s \in session : Deconnecter(r, s)

\* The end of a logout, and of a refresh that presented a link twice.
CouperFamille(r) == SelectionnerFamille(r) \/ RevoquerFamille(r)

EffacerMonCompte(r) ==
  \/ \E c \in Comptes : DemanderEffacement(r, c)
  \/ ProgrammerEffacement(r)

AnnulerMonEffacement(r) ==
  \/ \E c \in Comptes : DemanderRetablissement(r, c)
  \/ AnnulerEffacement(r)

\* One pass of klaar-effacer.
ExecuterLesEchus(e) ==
  \/ ReleverEchus(e)
  \/ \E c \in Comptes : Effacer(e, c)
  \/ ConsignerEffacement(e)

Next ==
  \/ \E r \in Requetes : \/ Login(r)
                         \/ Refresh(r)
                         \/ Logout(r)
                         \/ CouperFamille(r)
                         \/ EffacerMonCompte(r)
                         \/ AnnulerMonEffacement(r)
                         \/ Interrompre(r)
  \/ Signup
  \/ Verifier
  \/ \E c \in Comptes : Vieillir(c) \/ PasserDelaiDeGrace(c)
  \/ \E e \in Effaceurs : ExecuterLesEchus(e) \/ InterrompreEffaceur(e)
  \/ SelectionnerPurge
  \/ PurgerNonVerifies
  \/ Tic

Spec == Init /\ [][Next]_vars

\* Time passes, and klaar-effacer is scheduled for ever and not cut off at the
\* same account for ever.  No request has to end.
FairSpec ==
  /\ Spec
  /\ WF_vars(Tic)
  /\ \A c \in Comptes :
       /\ WF_vars(PasserDelaiDeGrace(c))
       /\ \A e \in Effaceurs : SF_vars(Effacer(e, c))
  /\ \A e \in Effaceurs : /\ WF_vars(ReleverEchus(e))
                          /\ WF_vars(ConsignerEffacement(e))
-----------------------------------------------------------------------------
(***************************************************************************)
(* Properties.                                                             *)
(***************************************************************************)

\* Every row keeps a value its column allows, no two rows of session_refresh
\* have the same primary key, and the token of a verified, purged or erased
\* account cannot be used again.
TypeOK ==
  /\ compte \in [Comptes -> LignesCompte]
  /\ verrou \in [Comptes -> Verrouillages]
  /\ jeton \subseteq
       {c \in Comptes : compte[c].statut = "PENDING_EMAIL_VERIFY"}
  /\ session \subseteq LignesSession
  /\ \A s, t \in session : s.maillon = t.maillon => s = t
  /\ tires \in 0..MAILLONS_MAX
  /\ requete \in [Requetes -> EtatsRequete]
  /\ purge \subseteq Comptes
  /\ effaceur \in [Effaceurs -> [lot : SUBSET Comptes,
                                 aConsigner : SUBSET Comptes]]
  /\ journal \in [Comptes -> Nat]

\* Two tabs that refresh at once, replays and logouts never leave a family
\* with two links that open it.
UnMaillonParFamille ==
  \A s, t \in session :
    Vivant(s) /\ Vivant(t) /\ s.famille = t.famille => s = t

\* Once a reuse or a logout was answered, no link of the family that had been
\* drawn when it was asked for opens it any more, whatever was rotated since.
CoupureTenue ==
  \A r \in Requetes : requete[r].op = "coupee" =>
    \A s \in session :
      s.famille = requete[r].famille /\ Vivant(s) => s.maillon > requete[r].connus

\* The right to erasure is exercised once: two instances of klaar-effacer
\* never both record it, and it is only recorded of an erased account.
EffaceUneFois ==
  \A c \in Comptes : /\ journal[c] <= 1
                     /\ journal[c] = 1 => compte[c].statut = "ERASED"

\* An erased account stays erased: no request that read it before brings it
\* back, nor gives it a new due date.
EffacementFinal ==
  [][\A c \in Comptes :
       compte[c].statut = "ERASED" => compte'[c].statut = "ERASED"]_vars

\* The purge never takes an account whose holder has verified his address,
\* although its DELETE does not look at the statut again.
VerifieNonPurge ==
  [][\A c \in Comptes :
       compte[c].statut # "PURGE" /\ compte'[c].statut = "PURGE"
         => compte[c].statut = "PENDING_EMAIL_VERIFY"]_vars

\* A lock opens by itself, whatever failures go on arriving: nobody can keep
\* somebody else's account closed.
CompteSeRouvre == \A c \in Comptes : []<>~EstVerrouille(verrou[c])

\* An erasure that was asked for and not cancelled is carried out.
EffacementPrendFin ==
  \A c \in Comptes :
    compte[c].statut = "ERASED_PENDING" ~> compte[c].statut # "ERASED_PENDING"

-----------------------------------------------------------------------------
(***************************************************************************)
(* What comments of the code say and the code does not do.                 *)
(***************************************************************************)

\* The sessions of an erased account disappear.
EffaceSansSession ==
  \A s \in session : compte[s.compte].statut # "ERASED"
=============================================================================
