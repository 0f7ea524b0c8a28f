----------------------------- MODULE Affectation -----------------------------
(***************************************************************************)
(* What the attribution of Demandes promises, whatever the handlers and    *)
(* their interleavings: a Demande is given to one provider, who alone may  *)
(* take it up again when he has given it up; a provider has one            *)
(* intervention at a time; what was closed does not come back.             *)
(* Attribution implements this specification.                              *)
(***************************************************************************)
CONSTANTS Demandes, Prestataires

VARIABLES
  etat,        \* "absente", "ouverte", "attribuee" or "close"
  titulaires,  \* Demande -> the providers it was given to
  porteurs,    \* Demande -> those who have not given it up
  charge       \* provider -> the Demandes he is at work on

vars == <<etat, titulaires, porteurs, charge>>

Init ==
  /\ etat = [d \in Demandes |-> "absente"]
  /\ titulaires = [d \in Demandes |-> {}]
  /\ porteurs = [d \in Demandes |-> {}]
  /\ charge = [p \in Prestataires |-> {}]

\* A Demande appears, without a provider.
Ouvrir(d) ==
  /\ etat[d] = "absente"
  /\ etat' = [etat EXCEPT ![d] = "ouverte"]
  /\ UNCHANGED <<titulaires, porteurs, charge>>

\* It is withdrawn, which only an open Demande can be.
Clore(d) ==
  /\ etat[d] = "ouverte"
  /\ etat' = [etat EXCEPT ![d] = "close"]
  /\ UNCHANGED <<titulaires, porteurs, charge>>

\* A provider sets to work on a Demande nobody carries, having no other work.
Engager(d, p) ==
  /\ porteurs[d] = {}
  /\ charge[p] = {}
  /\ porteurs' = [porteurs EXCEPT ![d] = {p}]
  /\ charge' = [charge EXCEPT ![p] = {d}]

\* An open Demande goes to a provider, for the first and only time.
Attribuer(d, p) ==
  /\ etat[d] = "ouverte"
  /\ titulaires[d] = {}
  /\ Engager(d, p)
  /\ etat' = [etat EXCEPT ![d] = "attribuee"]
  /\ titulaires' = [titulaires EXCEPT ![d] = {p}]

\* The work is done: the provider is free, and still the one who carried it.
Terminer(p) ==
  /\ charge[p] # {}
  /\ charge' = [charge EXCEPT ![p] = {}]
  /\ UNCHANGED <<etat, titulaires, porteurs>>

\* The work is given up before its end.
Desister(d, p) ==
  /\ charge[p] = {d}
  /\ porteurs' = [porteurs EXCEPT ![d] = {}]
  /\ charge' = [charge EXCEPT ![p] = {}]
  /\ UNCHANGED <<etat, titulaires>>

\* It is taken up again, by the provider it was given to.
Reprendre(d, p) ==
  /\ etat[d] = "attribuee"
  /\ titulaires[d] = {p}
  /\ Engager(d, p)
  /\ UNCHANGED <<etat, titulaires>>

Next ==
  \/ \E d \in Demandes : Ouvrir(d) \/ Clore(d)
  \/ \E d \in Demandes, p \in Prestataires :
       Attribuer(d, p) \/ Desister(d, p) \/ Reprendre(d, p)
  \/ \E p \in Prestataires : Terminer(p)

Spec == Init /\ [][Next]_vars
=============================================================================
