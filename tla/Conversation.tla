---------------------------- MODULE Conversation ----------------------------
(***************************************************************************)
(* The messages of the two parties of a Mission, and the attempts to       *)
(* exchange an address or a telephone number                               *)
(* (klaar-messaging, the usecase converser and PgMessageRepository).  A    *)
(* text is only what the handler finds in it.                              *)
(***************************************************************************)
EXTENDS CoursMission, FiniteSets

CONSTANTS
  CONVERSATION_FERMEE,   \* days after the end when the conversation closes
  MESSAGES_MAX,          \* messages a conversation may hold
  TENTATIVES_SIGNALEES   \* attempts in thirty days that are reported

ASSUME ConversationAssumption ==
  /\ CONVERSATION_FERMEE \in 1..JOURS_MAX
  /\ MESSAGES_MAX \in Nat \ {0}
  /\ TENTATIVES_SIGNALEES \in Nat \ {0}

\* ConversationBornee counts the requests that cross.
ASSUME RequetesAssumption == IsFiniteSet(Requetes) /\ Requetes # {}

VARIABLES
  messages,     \* rows of message
  tentatives    \* rows of tentative_contournement, of the last thirty days

conversation == <<messages, tentatives>>

-----------------------------------------------------------------------------
Textes == {"vide", "trop_long", "coordonnees", "ordinaire"}

CodesConversation ==
  {"MISSION_NOT_FOUND", "MESSAGES", "MESSAGE_SENT", "MESSAGE_EMPTY", "MESSAGE_TOO_LONG", "CONVERSATION_CLOSED",
   "CONVERSATION_FULL", "CONTACT_INFO_FORBIDDEN", "SIGNALE"}

StatutConversation(code) ==
  CASE code = "MESSAGE_SENT" -> 201
    [] code = "MESSAGES" -> 200
    [] code = "MISSION_NOT_FOUND" -> 404
    [] code = "CONVERSATION_CLOSED" -> 410
    [] code \in {"CONTACT_INFO_FORBIDDEN", "SIGNALE"} -> 403
    [] OTHER -> 422

EtatsConversation ==
       {Repos}
  \cup [op : {"etat"}, texte : Textes, jour : Jours]
  \cup [op : {"ecrire", "consigner", "bilan"}]
  \cup [op : {"repondu"}, code : CodesConversation]

ConversationInit == messages = 0 /\ tentatives = 0

-----------------------------------------------------------------------------
\* Whoever is not a party of the Mission.
RefuserEtranger(r) ==
  /\ Libre(r)
  /\ Devient(r, Repondu("MISSION_NOT_FOUND"))
  /\ UNCHANGED <<mission, conversation>>

\* GET /missions/{id}/messages, whatever the Mission has become.
LireFil(r) ==
  /\ Libre(r)
  /\ Devient(r, Repondu("MESSAGES"))
  /\ UNCHANGED <<mission, conversation>>

\* POST /missions/{id}/messages takes the hour first, then finds the other
\* party, then reads how many messages there are and since when it is over.
DemanderMessage(r, texte) ==
  /\ Libre(r)
  /\ Devient(r, [op |-> "etat", texte |-> texte, jour |-> finie])
  /\ UNCHANGED <<mission, conversation>>

\* Mutant: the limit is passed before it is noticed.
PleineTropTard == messages > MESSAGES_MAX

Pleine == messages >= MESSAGES_MAX

Close(jour) == statut \in Finis /\ jour >= CONVERSATION_FERMEE

Recoit(texte) == IF texte = "coordonnees" THEN "consigner" ELSE "ecrire"

\* In the order of Message::ecrire.
RefusMessage(texte, jour) ==
  CASE texte = "vide"      -> "MESSAGE_EMPTY"
    [] texte = "trop_long" -> "MESSAGE_TOO_LONG"
    [] OTHER -> IF Close(jour) THEN "CONVERSATION_CLOSED"
                  ELSE IF Pleine THEN "CONVERSATION_FULL" ELSE "aucun"

LireEtat(r) ==
  LET refus == RefusMessage(requete[r].texte, requete[r].jour)
  IN  /\ requete[r].op = "etat"
      /\ Devient(r, IF refus = "aucun"
                      THEN [op |-> Recoit(requete[r].texte)]
                      ELSE Repondu(refus))
      /\ UNCHANGED <<mission, conversation>>

\* An INSERT that counts nothing.
EcrireMessage(r) ==
  /\ requete[r].op = "ecrire"
  /\ messages' = messages + 1
  /\ Devient(r, Repondu("MESSAGE_SENT"))
  /\ UNCHANGED <<mission, tentatives>>

\* The attempt is recorded if it can be: a failure of the write is logged and
\* the message refused all the same.
ConsignerTentative(r) ==
  /\ requete[r].op = "consigner"
  /\ tentatives' \in {tentatives,
                      IF tentatives < TENTATIVES_SIGNALEES
                        THEN tentatives + 1 ELSE tentatives}
  /\ Devient(r, [op |-> "bilan"])
  /\ UNCHANGED <<mission, messages>>

\* The count of the last thirty days, the present attempt included; read as
\* none if the read fails.
BilanTentatives(r) ==
  /\ requete[r].op = "bilan"
  /\ \/ /\ tentatives >= TENTATIVES_SIGNALEES
        /\ Devient(r, Repondu("SIGNALE"))
     \/ Devient(r, Repondu("CONTACT_INFO_FORBIDDEN"))
  /\ UNCHANGED <<mission, conversation>>

\* The two routes, from the request to the answer.
EnvoyerMessage(r) ==
  \/ RefuserEtranger(r)
  \/ \E texte \in Textes : DemanderMessage(r, texte)
  \/ LireEtat(r)
  \/ EcrireMessage(r)
  \/ ConsignerTentative(r)
  \/ BilanTentatives(r)

LireConversation(r) == RefuserEtranger(r) \/ LireFil(r)

-----------------------------------------------------------------------------
ConversationOK ==
  /\ messages \in Nat
  /\ tentatives \in 0..TENTATIVES_SIGNALEES
  /\ requete \in [Requetes -> EtatsConversation]

\* The limit is read before the INSERT, so it can be passed: never by more
\* than the requests that read it together.  And whoever was told 201 has his
\* message in the thread.
ConversationBornee ==
  /\ messages < MESSAGES_MAX + Cardinality(Requetes)
  /\ \A r \in Requetes :
       /\ requete[r].op = "repondu"
       /\ StatutConversation(requete[r].code) = 201
       => messages > 0
=============================================================================
