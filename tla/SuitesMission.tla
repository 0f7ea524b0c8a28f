---------------------------- MODULE SuitesMission ----------------------------
(***************************************************************************)
(* A Mission and what follows it.  Each follow-up reads the Mission and    *)
(* writes tables of its own that no other follow-up reads, so their        *)
(* interleavings with each other say nothing: volet is the one whose       *)
(* requests a behaviour runs, and the Mission goes its way meanwhile.      *)
(* A mediator, who reads the dispute and never the Mission, has a volet of *)
(* his own that starts with the dispute open.                              *)
(***************************************************************************)
EXTENDS Reprogrammation, Suivi, Conversation, Notation, Litige

VARIABLE volet

Volets == {"reprogrammation", "suivi", "conversation", "notation", "litige",
           "mediation"}

vars == <<mission, requete, reprogrammation, suivi, conversation, notation,
          journalOps, litigeEtAccords, volet>>

-----------------------------------------------------------------------------
\* The tables of every follow-up but the one that runs.
HorsReprogrammation ==
  /\ volet = "reprogrammation"
  /\ UNCHANGED <<suivi, conversation, notation, journalOps, litigeEtAccords,
                 volet>>

HorsSuivi ==
  /\ volet = "suivi"
  /\ UNCHANGED <<reprogrammation, conversation, notation, journalOps,
                 litigeEtAccords, volet>>

HorsConversation ==
  /\ volet = "conversation"
  /\ UNCHANGED <<reprogrammation, suivi, notation, journalOps, litigeEtAccords,
                 volet>>

HorsNotation ==
  /\ volet = "notation"
  /\ UNCHANGED <<reprogrammation, suivi, conversation, journalOps,
                 litigeEtAccords, volet>>

HorsLitige ==
  /\ volet = "litige"
  /\ UNCHANGED <<reprogrammation, suivi, conversation, notation, volet>>

HorsRequete ==
  UNCHANGED <<mission, reprogrammation, suivi, conversation, notation,
              journalOps, litigeEtAccords, volet>>

HorsMediation ==
  /\ volet = "mediation"
  /\ UNCHANGED <<reprogrammation, suivi, conversation, notation, volet>>

HorsMission ==
  /\ volet # "mediation"
  /\ UNCHANGED <<requete, reprogrammation, suivi, conversation, notation,
                 journalOps, litigeEtAccords, volet>>

\* A follow-up that does not run is where it starts.
Init ==
  /\ MissionInit
  /\ AppelsInit
  /\ volet \in Volets
  /\ IF volet = "reprogrammation" THEN ReprogrammationInit
       ELSE /\ proposition = "ABSENTE" /\ accord = FALSE
            /\ occupe = FALSE /\ reprises = 0
  /\ SuiviInit
  /\ ConversationInit
  /\ NotationInit
  /\ IF volet = "mediation" THEN MediationInit ELSE LitigeInit

-----------------------------------------------------------------------------
Jour == PasserJour /\ HorsMission

Purge == PurgerTraces /\ HorsSuivi

Next ==
  \/ HorsMission /\ MissionNext
  \/ HorsReprogrammation /\ ChangerDeMission
  \/ HorsSuivi /\ PerdrePosition
  \/ Purge
  \/ \E o \in Ops : 
       HorsMediation /\ UNCHANGED <<mission, litigeEtAccords>> /\ RevoquerInactif(o)
  \/ \E t \in TOTAUX : HorsMediation /\ AccepterDevis(t)
  \/ \E r \in Requetes :
       \/ HorsRequete /\ Interrompre(r)
       \/ HorsReprogrammation /\ ProposerReprogrammation(r)
       \/ HorsReprogrammation /\ RepondreReprogrammation(r)
       \/ HorsSuivi /\ ConsentirSuivi(r)
       \/ HorsSuivi /\ ReleverSuivi(r)
       \/ HorsSuivi /\ ConsulterSuivi(r)
       \/ HorsConversation /\ EnvoyerMessage(r)
       \/ HorsConversation /\ LireConversation(r)
       \/ HorsNotation /\ NoterIntervention(r)
       \/ HorsNotation /\ LireNotesDeMission(r)
       \/ HorsLitige /\ OuvrirLitige(r)
       \/ \E concerne \in BOOLEAN : HorsLitige /\ LireLitige(r, concerne)
       \/ HorsMediation /\ ConsulterLitiges(r)
       \/ HorsMediation /\ TrancherLitige(r)

Spec == Init /\ [][Next]_vars

\* Time passes, and klaar-expirer runs its sweep again and again.
FairSpec == Spec /\ WF_vars(Jour) /\ WF_vars(Purge)

-----------------------------------------------------------------------------
TypeOK ==
  /\ volet \in Volets
  /\ MissionOK
  /\ volet = "reprogrammation" => ReprogrammationOK
  /\ volet = "suivi" => SuiviOK
  /\ volet = "conversation" => ConversationOK
  /\ volet = "notation" => NotationOK
  /\ volet \in {"litige", "mediation"} => LitigeOK
=============================================================================
