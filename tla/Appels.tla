------------------------------- MODULE Appels -------------------------------
(***************************************************************************)
(* HTTP requests in progress.  requete[r] is what a handler carries from   *)
(* its reads to its write, then the answer it gave.  A handler runs        *)
(* between two of its awaits; between two steps of r, anything may happen. *)
(***************************************************************************)

CONSTANT Requetes   \* requests in progress at once

VARIABLE requete

-----------------------------------------------------------------------------
Repos == [op |-> "repos"]

Repondu(code) == [op |-> "repondu", code |-> code]

Libre(r) == requete[r].op \in {"repos", "repondu"}

Devient(r, etat) == requete' = [requete EXCEPT ![r] = etat]

AppelsInit == requete = [r \in Requetes |-> Repos]

\* The client goes away, the database refuses, or the process stops before the
\* handler's next step; or the answer has been sent.
Interrompre(r) ==
  /\ requete[r].op # "repos"
  /\ Devient(r, Repos)
=============================================================================
