--------------------------- MODULE MCIntervention ---------------------------
(* Small instances of Intervention for TLC. *)
EXTENDS Intervention, TLC

\* One provider holds every Mission.
UnSeulTitulaire == [m \in Missions |-> CHOOSE p \in Prestataires : TRUE]

Symetrie == Permutations(Requetes)
=============================================================================
