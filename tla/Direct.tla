------------------------------- MODULE Direct -------------------------------
(***************************************************************************)
(* The live feed of a Mission: a change is notified by PostgreSQL at its   *)
(* commit, received by the one listener of the service, put on a bounded   *)
(* bus and sent on the sockets that tickets opened (evenements.rs,         *)
(* billet.rs, routes/temps_reel.rs, ports/evenements.rs).  A request is    *)
(* that of a client that asks for a ticket, or follows the Mission.        *)
(***************************************************************************)
EXTENDS Naturals, Sequences, Appels

CONSTANTS
  VERSIONS_MAX,   \* bound on the changes of the Mission
  AVIS_MAX,       \* bound on the notices in flight
  PROFONDEUR,     \* of the bus
  VIVANTS_MAX     \* tickets alive

ASSUME DirectAssumption ==
  /\ VERSIONS_MAX \in Nat
  /\ AVIS_MAX \in Nat
  /\ PROFONDEUR \in Nat \ {0}
  /\ VIVANTS_MAX \in Nat

VARIABLES
  version,   \* how many times the Mission has changed
  avis,      \* notices sent by PostgreSQL, not yet received
  ecoute,    \* the listener is connected
  billets    \* the table of tickets

direct == <<version, avis, ecoute, billets>>

-----------------------------------------------------------------------------
AUTRE == 0   \* the notice of another Mission

Billets == 1..VIVANTS_MAX

EtatsBillet == {"absent", "vivant", "perime"}

CodesDirect ==
  {"TICKET", "TICKET_UNAVAILABLE", "MISSION_ID_INVALID", "TICKET_MISSING",
   "TICKET_INVALID", "MISSION_NOT_FOUND", "SERVICE_UNAVAILABLE"}

\* depuis is the version of the subscription, signale the last one that was
\* told, or that a RESYNC covers; coupee is history: the listener has been cut
\* since the subscription.
EtatsDirect ==
       {Repos}
  \cup [op : {"acces"}]
  \cup [op : {"ouverte"}, attente : Seq(0..VERSIONS_MAX), distancee : BOOLEAN,
        depuis : 0..VERSIONS_MAX, signale : 0..VERSIONS_MAX, coupee : BOOLEAN]
  \cup [op : {"repondu"}, code : CodesDirect]

DirectInit ==
  /\ version = 0
  /\ avis = <<>>
  /\ ecoute = TRUE
  /\ billets = [b \in Billets |-> "absent"]

Ouverte(r) == requete[r].op = "ouverte"

-----------------------------------------------------------------------------
\* pg_notify inside the transaction: delivered at the commit to who listens.
Notifier(v) == avis' = IF ecoute THEN Append(avis, v) ELSE avis

ChangerMission ==
  /\ version < VERSIONS_MAX /\ Len(avis) < AVIS_MAX
  /\ version' = version + 1
  /\ Notifier(version + 1)
  /\ UNCHANGED <<ecoute, billets, requete>>

ChangerUneAutre ==
  /\ Len(avis) < AVIS_MAX
  /\ Notifier(AUTRE)
  /\ UNCHANGED <<version, ecoute, billets, requete>>

\* PostgreSQL restarts, the network fails; three seconds later the service
\* listens again, and says nothing of what it missed.
CouperEcoute ==
  /\ ecoute
  /\ ecoute' = FALSE
  /\ avis' = <<>>
  /\ requete' = [r \in Requetes |->
       IF Ouverte(r) THEN [requete[r] EXCEPT !.coupee = TRUE] ELSE requete[r]]
  /\ UNCHANGED <<version, billets>>

ReprendreEcoute ==
  /\ ~ecoute
  /\ ecoute' = TRUE
  /\ UNCHANGED <<version, avis, billets, requete>>

\* MUTANT: what falls is not told.
DeposerSansLeDire(s, v) ==
  IF Len(s.attente) < PROFONDEUR THEN [s EXCEPT !.attente = Append(@, v)]
  ELSE [s EXCEPT !.attente = Append(Tail(@), v)]

\* What a bounded broadcast keeps for a subscriber: the oldest falls.
Deposer(s, v) ==
  IF Len(s.attente) < PROFONDEUR THEN [s EXCEPT !.attente = Append(@, v)]
  ELSE [s EXCEPT !.attente = Append(Tail(@), v), !.distancee = TRUE]

Publier ==
  /\ avis # <<>>
  /\ avis' = Tail(avis)
  /\ requete' = [r \in Requetes |->
       IF Ouverte(r) THEN Deposer(requete[r], Head(avis)) ELSE requete[r]]
  /\ UNCHANGED <<version, ecoute, billets>>

\* The service restarts: its tickets and its sockets are gone.
Redemarrer ==
  /\ billets' = [b \in Billets |-> "absent"]
  /\ requete' = [r \in Requetes |-> Repos]
  /\ avis' = <<>>
  /\ UNCHANGED <<version, ecoute>>

-----------------------------------------------------------------------------
PerimerBillet ==
  /\ \E b \in Billets : /\ billets[b] = "vivant"
                        /\ billets' = [billets EXCEPT ![b] = "perime"]
  /\ UNCHANGED <<version, avis, ecoute, requete>>

\* The expired are dropped first.
SansLesPerimes ==
  [b \in Billets |-> IF billets[b] = "perime" THEN "absent" ELSE billets[b]]

\* POST /realtime/ticket
DemanderBillet(r) ==
  /\ Libre(r)
  /\ \/ \E b \in Billets :
          /\ SansLesPerimes[b] = "absent"
          /\ billets' = [SansLesPerimes EXCEPT ![b] = "vivant"]
          /\ Devient(r, Repondu("TICKET"))
     \/ /\ \A b \in Billets : SansLesPerimes[b] # "absent"
        /\ billets' = SansLesPerimes
        /\ Devient(r, Repondu("TICKET_UNAVAILABLE"))
  /\ UNCHANGED <<version, avis, ecoute>>

\* A ticket that is shown is spent, whatever comes of it.
ConsommerBillet(r) ==
  /\ Libre(r)
  /\ \/ /\ \E code \in {"MISSION_ID_INVALID", "TICKET_MISSING", "TICKET_INVALID"} :
             Devient(r, Repondu(code))
        /\ UNCHANGED billets
     \/ \E b \in Billets :
          /\ billets[b] # "absent"
          /\ billets' = [billets EXCEPT ![b] = "absent"]
          /\ Devient(r, IF billets[b] = "vivant" THEN [op |-> "acces"]
                                                  ELSE Repondu("TICKET_INVALID"))
  /\ UNCHANGED <<version, avis, ecoute>>

\* peut_suivre, then the subscription, then the handshake.
Abonner(r) ==
  /\ requete[r].op = "acces"
  /\ \/ Devient(r, [op |-> "ouverte", attente |-> <<>>, distancee |-> FALSE,
                    depuis |-> version, signale |-> version,
                    coupee |-> ~ecoute])
     \/ \E code \in {"MISSION_NOT_FOUND", "SERVICE_UNAVAILABLE"} :
          Devient(r, Repondu(code))
  /\ UNCHANGED direct

\* One turn of the loop of a socket.  A client reads the Mission again when it
\* is told RESYNC.
Recevoir(r) ==
  LET s == requete[r]
      prochain == IF s.attente = <<>> THEN AUTRE ELSE Head(s.attente)
  IN  /\ Ouverte(r)
      /\ s.distancee \/ s.attente # <<>>
      /\ Devient(r,
           IF s.distancee
             THEN [s EXCEPT !.distancee = FALSE, !.signale = version]
             ELSE [s EXCEPT !.attente = Tail(@),
                            !.signale = IF prochain = AUTRE THEN @ ELSE prochain])
      /\ UNCHANGED direct

\* GET /missions/{id}/events
SuivreEnDirect(r) == ConsommerBillet(r) \/ Abonner(r) \/ Recevoir(r)

DirectNext ==
  \/ ChangerMission
  \/ ChangerUneAutre
  \/ CouperEcoute
  \/ ReprendreEcoute
  \/ Publier
  \/ Redemarrer
  \/ PerimerBillet
  \/ \E r \in Requetes :
       \/ Interrompre(r) /\ UNCHANGED direct
       \/ DemanderBillet(r)
       \/ SuivreEnDirect(r)

-----------------------------------------------------------------------------
DirectOK ==
  /\ version \in 0..VERSIONS_MAX
  /\ avis \in Seq(0..VERSIONS_MAX)
  /\ ecoute \in BOOLEAN
  /\ billets \in [Billets -> EtatsBillet]
  /\ requete \in [Requetes -> EtatsDirect]
  /\ \A r \in Requetes : Ouverte(r) => Len(requete[r].attente) <= PROFONDEUR

\* While the listener holds, an open socket leaves no gap: every change since
\* its subscription has been told, or covered by a RESYNC that its client was
\* told, or is on its way, or the RESYNC is (suivre_en_direct: "plutot que
\* d'afficher une suite trouee"); the notices of the other Missions, which take
\* the same bounded bus, cannot push one out in silence.
FluxSansTrou ==
  \A r \in Requetes :
    LET s == requete[r]
    IN  (Ouverte(r) /\ ~s.coupee /\ ~s.distancee) =>
          \A v \in (s.depuis + 1)..version :
            \/ v <= s.signale
            \/ \E i \in 1..Len(avis) : avis[i] = v
            \/ \E i \in 1..Len(s.attente) : s.attente[i] = v
=============================================================================
