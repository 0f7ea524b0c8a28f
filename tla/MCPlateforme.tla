---------------------------- MODULE MCPlateforme ----------------------------
(* Two accounts of the console that may do everything; four events of      *)
(* Stripe, of which two share a date and one is about another object; the  *)
(* keys of a slow route and of a quick one; amounts at every boundary.     *)
EXTENDS Plateforme, TLC

CONSTANTS o1, o2, r1, r2, l1, l2

MCRoleDe == (o1 :> "SUPER_ADMIN") @@ (o2 :> "SUPER_ADMIN")

MCDateDe == (1 :> 1) @@ (2 :> 2) @@ (3 :> 2) @@ (4 :> 1)

MCObjetDe == (1 :> "pi") @@ (2 :> "pi") @@ (3 :> "pi") @@ (4 :> "acct")

MCFenetreDe == ("s1" :> 3) @@ ("s2" :> 3) @@ ("a1" :> 1)

MCMaxDe == ("s1" :> 2) @@ ("s2" :> 2) @@ ("a1" :> 1)

\* 41323 and 41324 cents are on either side of SEUIL_QUATRE_YEUX_CENTS at 21 %.
MCMontantsProposes == {-1, 0, 1, 41323, 41324, 1000000, 1000001}

Symetrie ==
  Permutations(Ops) \cup Permutations(Requetes) \cup Permutations(Lieux)
=============================================================================
