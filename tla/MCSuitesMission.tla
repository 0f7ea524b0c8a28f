--------------------------- MODULE MCSuitesMission ---------------------------
(* Two accounts of the console that may decide a dispute.                  *)
EXTENDS SuitesMission, TLC

CONSTANTS o1, o2

MCRoleDe == (o1 :> "MEDIATOR") @@ (o2 :> "SUPER_ADMIN")
=============================================================================
