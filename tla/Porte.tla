-------------------------------- MODULE Porte --------------------------------
(***************************************************************************)
(* The limiter in front of the routes: one table in memory, keyed by the   *)
(* source and the route, each route with its own sliding window            *)
(* (klaar-api/limitation.rs).  A call holds the lock from end to end.      *)
(***************************************************************************)
EXTENDS Naturals, FiniteSets

CONSTANTS
  Cles,
  FenetreDe, MaxDe,     \* the Quota of the route of a key
  SEUIL_NETTOYAGE,
  INSTANT_MAX           \* bound on the clock

ASSUME PorteAssumption ==
  /\ FenetreDe \in [Cles -> Nat \ {0}]
  /\ MaxDe \in [Cles -> Nat]
  /\ SEUIL_NETTOYAGE \in Nat
  /\ INSTANT_MAX \in Nat

VARIABLES
  tentatives,   \* passages kept under each key, none where it has no entry
  verdict,      \* the last one given
  instant       \* the clock, in seconds

porte == <<tentatives, verdict, instant>>

-----------------------------------------------------------------------------
\* The Vec of a key is filtered, counted and searched for its oldest date, never
\* read by position: a set will do, where rang tells apart the calls of a second.
Passages == [date : 0..INSTANT_MAX, rang : Nat \ {0}]

Verdicts ==
       [refuse : {FALSE}]
  \cup [refuse : {TRUE}, cle : Cles, attente : Nat]

PorteInit ==
  /\ tentatives = [c \in Cles |-> {}]
  /\ verdict = [refuse |-> FALSE]
  /\ instant = 0

PasserSeconde ==
  /\ instant < INSTANT_MAX
  /\ instant' = instant + 1
  /\ UNCHANGED <<tentatives, verdict>>

Depuis(passages, fenetre) == {p \in passages : instant < p.date + fenetre}

Entrees == {c \in Cles : tentatives[c] # {}}

\* Over the threshold the whole table is swept, with the window of the caller.
Menage(fenetre) ==
  IF Cardinality(Entrees) > SEUIL_NETTOYAGE
    THEN [c \in Cles |-> Depuis(tentatives[c], fenetre)]
    ELSE tentatives

PlusAncienne(dates) == CHOOSE d \in dates : \A e \in dates : d <= e

\* The present instant where the quota lets nobody pass.
Attente(passages, fenetre) ==
  LET dates == {p.date : p \in passages}
      debut == IF dates = {} THEN instant ELSE PlusAncienne(dates)
  IN  IF debut + fenetre > instant THEN debut + fenetre - instant ELSE 1

Passage(passages) ==
  [date |-> instant,
   rang |-> Cardinality({p \in passages : p.date = instant}) + 1]

VerifierQuota(c) ==
  LET menage == Menage(FenetreDe[c])
      gardes == Depuis(menage[c], FenetreDe[c])
  IN  /\ \/ /\ Cardinality(gardes) >= MaxDe[c]
            /\ verdict' = [refuse |-> TRUE, cle |-> c,
                           attente |-> Attente(gardes, FenetreDe[c])]
            /\ tentatives' = [menage EXCEPT ![c] = gardes]
         \/ /\ Cardinality(gardes) < MaxDe[c]
            /\ verdict' = [refuse |-> FALSE]
            /\ tentatives' = [menage EXCEPT ![c] = gardes \cup {Passage(gardes)}]
      /\ UNCHANGED instant

PorteNext == PasserSeconde \/ \E c \in Cles : VerifierQuota(c)

-----------------------------------------------------------------------------
PorteOK ==
  /\ tentatives \in [Cles -> SUBSET Passages]
  /\ verdict \in Verdicts
  /\ instant \in 0..INSTANT_MAX
  /\ \A c \in Cles : Cardinality(tentatives[c]) <= MaxDe[c]
  /\ verdict.refuse => verdict.attente \in 1..FenetreDe[verdict.cle]
=============================================================================
