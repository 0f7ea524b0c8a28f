----------------------------- MODULE Plateforme -----------------------------
(***************************************************************************)
(* What surrounds the Missions: the console of operations, the records of  *)
(* providers, the catalogue, the submissions, the events of Stripe, the    *)
(* live feed, the escrow, the amounts and the limiter.  They share the     *)
(* requests, the accounts of the console and its journal, and no other     *)
(* table that two of them read, so a behaviour runs one of them, volet,    *)
(* from where it starts; the console is cut in three after what its        *)
(* requests write.                                                         *)
(***************************************************************************)
EXTENDS ConsoleOps, RevueKyc, Catalogue, Soumission, WebhookStripe, Direct,
        Sequestre, Tarif, Porte

VARIABLE volet

Volets ==
  {"connexion", "comptes", "lectures", "kyc", "fiche", "catalogue",
   "soumission", "webhook", "direct", "paiement", "tarif", "porte"}

Console == {"connexion", "comptes", "lectures"}

vars == <<requete, journalOps, consoleOps, kyc, catalogue, soumission, webhook,
          direct, paiement, tarif, porte, volet>>

-----------------------------------------------------------------------------
\* Nothing else moves while one volet runs.
HorsConsole ==
  UNCHANGED <<kyc, catalogue, soumission, webhook, direct, paiement, tarif,
              porte, volet>>

HorsKyc ==
  UNCHANGED <<consoleOps, catalogue, soumission, webhook, direct, paiement,
              tarif, porte, volet>>

HorsCatalogue ==
  UNCHANGED <<consoleOps, kyc, soumission, webhook, direct, paiement, tarif,
              porte, volet>>

HorsSoumission ==
  UNCHANGED <<journalOps, consoleOps, kyc, catalogue, webhook, direct,
              paiement, tarif, porte, volet>>

HorsWebhook ==
  UNCHANGED <<journalOps, consoleOps, kyc, catalogue, soumission, direct,
              paiement, tarif, porte, volet>>

HorsDirect ==
  UNCHANGED <<journalOps, consoleOps, kyc, catalogue, soumission, webhook,
              paiement, tarif, porte, volet>>

HorsPaiement ==
  UNCHANGED <<requete, journalOps, consoleOps, kyc, catalogue, soumission,
              webhook, direct, tarif, porte, volet>>

HorsTarif ==
  UNCHANGED <<requete, journalOps, consoleOps, kyc, catalogue, soumission,
              webhook, direct, paiement, porte, volet>>

HorsPorte ==
  UNCHANGED <<requete, journalOps, consoleOps, kyc, catalogue, soumission,
              webhook, direct, paiement, tarif, volet>>

ComptesAuRepos ==
  /\ comptes = Ops
  /\ horloge = 1
  /\ dernierPas = [o \in Ops |-> 0]
  /\ sessions = <<>>

Init ==
  /\ volet \in Volets
  /\ AppelsInit
  /\ CASE volet = "connexion" -> ConsoleInit
       [] volet \in Console \ {"connexion"} -> SessionOuverteInit
       [] OTHER -> ComptesAuRepos
  /\ IF volet \in {"kyc", "fiche"} THEN KycInit
       ELSE /\ fiche = FicheAbsente /\ revues = {}
            /\ volet \notin Console => actifs = Ops /\ journal = {}
  /\ IF volet = "catalogue" THEN CatalogueInit
       ELSE secteur = SecteurAmorce /\ chantier = "aucun"
  /\ SoumissionInit
  /\ WebhookInit
  /\ DirectInit
  /\ PaiementInit
  /\ TarifInit
  /\ PorteInit

Next ==
  \/ volet = "connexion" /\ ConnexionNext /\ HorsConsole
  \/ volet = "comptes" /\ ComptesNext /\ HorsConsole
  \/ volet = "lectures" /\ LecturesNext /\ HorsConsole
  \/ volet = "kyc" /\ RevueNext /\ HorsKyc
  \/ volet = "fiche" /\ FicheNext /\ HorsKyc
  \/ volet = "catalogue" /\ CatalogueNext /\ HorsCatalogue
  \/ volet = "soumission" /\ SoumissionNext /\ HorsSoumission
  \/ volet = "webhook" /\ WebhookNext /\ HorsWebhook
  \/ volet = "direct" /\ DirectNext /\ HorsDirect
  \/ volet = "paiement" /\ PaiementNext /\ HorsPaiement
  \/ volet = "tarif" /\ TarifNext /\ HorsTarif
  \/ volet = "porte" /\ PorteNext /\ HorsPorte

Spec == Init /\ [][Next]_vars

-----------------------------------------------------------------------------
TypeOK ==
  /\ volet \in Volets
  /\ volet \in Console => ConsoleOpsOK
  /\ volet \in {"kyc", "fiche"} => KycOK
  /\ volet = "catalogue" => CatalogueOK
  /\ volet = "soumission" => SoumissionOK
  /\ volet = "webhook" => WebhookOK
  /\ volet = "direct" => DirectOK
  /\ PaiementOK
  /\ TarifOK
  /\ PorteOK

\* However the acts of the console and the Missions cross, a sector drafted in
\* the console is published by another account than its author, and a sector
\* is never withdrawn while a Mission of it is in progress, although the
\* Missions are counted before the row is written (publier, desactiver).
SecteurTenu ==
  /\ []PublieParUnAutre
  /\ [][secteur.statut = "PUBLISHED" /\ secteur'.statut = "DISABLED"
          => ~EnChantier]_vars
=============================================================================
