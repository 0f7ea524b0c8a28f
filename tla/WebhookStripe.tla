--------------------------- MODULE WebhookStripe ---------------------------
(***************************************************************************)
(* The events that Stripe delivers several times and in any order: each is *)
(* authenticated, compared with the last one applied to the same object,   *)
(* and written under its own identifier (usecases/webhook_stripe.rs,       *)
(* klaar-stripe-adapter, PgEvenementStripeRepository).  Stripe is free to  *)
(* deliver any event again at any time: that is its retry.                 *)
(***************************************************************************)
EXTENDS Naturals, Appels

CONSTANTS
  Evenements,   \* identifiers of Stripe
  DateDe,       \* created, in seconds
  ObjetDe,      \* data.object.id
  Traites       \* events whose type is one of TypeEvenement

ASSUME EvenementsAssumption ==
  /\ DateDe \in [Evenements -> Nat]
  /\ DOMAIN ObjetDe = Evenements
  /\ Traites \subseteq Evenements

VARIABLES
  evenementStripe,   \* suite of each row of evenement_stripe, "absent" without
  appliques          \* history: how many times APPLIED was answered of each

webhook == <<evenementStripe, appliques>>

-----------------------------------------------------------------------------
SuitesStripe == {"APPLIED", "SUPERSEDED", "IGNORED"}

CodesWebhook ==
  SuitesStripe \cup {"DUPLICATE", "WEBHOOK_NOT_CONFIGURED", "INVALID_SIGNATURE",
                     "PAYLOAD_INVALID", "EVENT_ID_INVALID"}

StatutWebhook(code) ==
  CASE code \in SuitesStripe \cup {"DUPLICATE"} -> 200
    [] code = "INVALID_SIGNATURE" -> 401
    [] code \in {"PAYLOAD_INVALID", "EVENT_ID_INVALID"} -> 400
    [] code = "WEBHOOK_NOT_CONFIGURED" -> 503

\* What Stripe takes for received, and does not send again of itself.
Accuses == {code \in CodesWebhook : StatutWebhook(code) = 200}

Signatures == {"juste", "en-tete illisible", "fausse", "hors fenetre"}

Charges == {"lisible", "illisible", "identifiant invalide"}

\* Before an event is known: the secret, then the signature, then the payload.
RefusWebhook(configure, signature, charge) ==
  CASE ~configure -> "WEBHOOK_NOT_CONFIGURED"
    [] configure /\ signature # "juste" -> "INVALID_SIGNATURE"
    [] configure /\ signature = "juste" /\ charge = "illisible"
         -> "PAYLOAD_INVALID"
    [] configure /\ signature = "juste" /\ charge = "identifiant invalide"
         -> "EVENT_ID_INVALID"
    [] OTHER -> "aucun"

EtatsWebhook ==
       {Repos}
  \cup [op : {"dernier"}, evenement : Evenements]
  \cup [op : {"consigner"}, evenement : Evenements, suite : SuitesStripe]
  \cup [op : {"repondu"}, code : CodesWebhook \ Accuses]
  \cup [op : {"repondu"}, code : Accuses, evenement : Evenements]

WebhookInit ==
  /\ evenementStripe = [e \in Evenements |-> "absent"]
  /\ appliques = [e \in Evenements |-> 0]

-----------------------------------------------------------------------------
DemanderReception(r, configure, signature, charge) ==
  /\ Libre(r)
  /\ \E e \in Evenements :
       Devient(r,
         IF RefusWebhook(configure, signature, charge) # "aucun"
           THEN Repondu(RefusWebhook(configure, signature, charge))
         ELSE IF e \in Traites THEN [op |-> "dernier", evenement |-> e]
         ELSE [op |-> "consigner", evenement |-> e, suite |-> "IGNORED"])
  /\ UNCHANGED webhook

\* The events applied to the object of e, of which the read keeps the latest.
Appliques(e) ==
  {f \in Evenements : ObjetDe[f] = ObjetDe[e] /\ evenementStripe[f] = "APPLIED"}

\* Strictly earlier: two events of the same second are both applied.
SuiteDe(e) ==
  IF \E f \in Appliques(e) : DateDe[e] < DateDe[f] THEN "SUPERSEDED"
                                                  ELSE "APPLIED"

LireDernier(r) ==
  LET e == requete[r].evenement
  IN  /\ requete[r].op = "dernier"
      /\ Devient(r, [op |-> "consigner", evenement |-> e, suite |-> SuiteDe(e)])
      /\ UNCHANGED webhook

\* MUTANT: only an event that was superseded is known again.
DejaVuSiDepasse(e) == evenementStripe[e] = "SUPERSEDED"

\* ON CONFLICT (id) DO NOTHING
DejaVu(e) == evenementStripe[e] # "absent"

RepondreEvenement(r, code) ==
  Devient(r, [op |-> "repondu", code |-> code,
              evenement |-> requete[r].evenement])

ConsignerEvenement(r) ==
  LET e == requete[r].evenement
      suite == requete[r].suite
  IN  /\ requete[r].op = "consigner"
      /\ \/ /\ ~DejaVu(e)
            /\ evenementStripe' = [evenementStripe EXCEPT ![e] = suite]
            /\ RepondreEvenement(r, suite)
            /\ appliques' = IF suite = "APPLIED"
                              THEN [appliques EXCEPT ![e] = @ + 1]
                              ELSE appliques
         \/ /\ DejaVu(e)
            /\ RepondreEvenement(r, IF suite = "IGNORED" THEN suite ELSE "DUPLICATE")
            /\ UNCHANGED webhook

\* POST /webhooks/stripe
RecevoirWebhook(r) ==
  \/ \E configure \in BOOLEAN, signature \in Signatures, charge \in Charges :
       DemanderReception(r, configure, signature, charge)
  \/ LireDernier(r)
  \/ ConsignerEvenement(r)

WebhookNext ==
  \E r \in Requetes :
    \/ Interrompre(r) /\ UNCHANGED webhook
    \/ RecevoirWebhook(r)

-----------------------------------------------------------------------------
WebhookOK ==
  /\ evenementStripe \in [Evenements -> SuitesStripe \cup {"absent"}]
  /\ appliques \in [Evenements -> Nat]
  /\ requete \in [Requetes -> EtatsWebhook]

\* An event takes effect once, however often it is delivered and however its
\* deliveries cross: APPLIED is answered of it at most once, a 200 says that it
\* is written, and one that is set aside really follows, in the time of Stripe,
\* a later one applied to the same object (recevoir, decider, consigner).
EvenementUneFois ==
  /\ \A e \in Evenements :
       /\ appliques[e] <= 1
       /\ appliques[e] = 1 => evenementStripe[e] = "APPLIED"
       /\ evenementStripe[e] = "SUPERSEDED" =>
            \E f \in Appliques(e) : DateDe[e] < DateDe[f]
  /\ \A r \in Requetes :
       (requete[r].op = "repondu" /\ requete[r].code \in Accuses) =>
         evenementStripe[requete[r].evenement] # "absent"
=============================================================================
