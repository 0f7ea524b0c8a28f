---------------------------- MODULE MCAttribution ----------------------------
(* Small instances of Attribution for TLC. *)
EXTENDS Attribution, TLC

\* Every provider has the trade of every Demande.
TousCompetents == [d \in Demandes |-> Prestataires]

\* Requests are interchangeable; so are Demandes, and so are providers.
Symetrie == Permutations(Requetes) \cup Permutations(Demandes)
              \cup Permutations(Prestataires)
=============================================================================
