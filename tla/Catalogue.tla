----------------------------- MODULE Catalogue -----------------------------
(***************************************************************************)
(* A sector of the catalogue: drafted by an account of the console,        *)
(* published by another, withdrawn when no Mission of it is in progress,   *)
(* read by the public (usecases/administrer_catalogue.rs, klaar-catalog,   *)
(* PgCatalogueAdminRepository, routes/catalogue.rs).                       *)
(***************************************************************************)
EXTENDS JournalOps

VARIABLES
  secteur,     \* the row of secteur
  chantier     \* the Demande made in this sector, then its Mission

catalogue == <<secteur, chantier>>

-----------------------------------------------------------------------------
StatutsSecteur == {"DRAFT", "PUBLISHED", "DISABLED"}

Auteurs == Ops \cup {"personne"}

SecteurAbsent ==
  [statut |-> "ABSENT", creePar |-> "personne", publiePar |-> "personne"]

\* A sector that a migration wrote.
SecteurAmorce == [SecteurAbsent EXCEPT !.statut = "PUBLISHED"]

Chantiers ==
  {"aucun", "BROADCASTING", "ACCEPTED", "PROVIDER_EN_ROUTE", "ON_SITE", "fini"}

Actes == {"creer", "publier", "desactiver"}

CodesCatalogue ==
  {"SECTORS", "SECTOR_NOT_FOUND", "SECTOR_CODE_TAKEN", "LABEL_REQUIRED",
   "FOUR_EYES_REQUIRED", "SECTOR_TRANSITION_INVALID",
   "SECTOR_HAS_ACTIVE_MISSIONS", "SECTOR_CODE_INVALID", "CATALOG",
   "NOT_MODIFIED", "CATALOG_MAINTENANCE", "RATE_LIMIT_EXCEEDED"}

Faits == {"SECTOR_CREATED", "SECTOR_PUBLISHED", "SECTOR_DISABLED"}

StatutCatalogue(code) ==
  CASE code = "SECTOR_CREATED" -> 201
    [] code \in {"SECTOR_PUBLISHED", "SECTOR_DISABLED"} -> 204
    [] code = "SECTOR_NOT_FOUND" -> 404
    [] code \in {"SECTOR_CODE_TAKEN", "SECTOR_HAS_ACTIVE_MISSIONS"} -> 409
    [] code \in {"FORBIDDEN", "FOUR_EYES_REQUIRED"} -> 403
    [] OTHER -> 422

SuitesCatalogue ==
       [op : {"lister"}]
  \cup [op : Actes, ops : Ops, libelles : BOOLEAN]

EtatsCatalogue ==
       EtatsGeste(SuitesCatalogue) \cup SuitesCatalogue
  \cup [op : {"inserer_secteur", "basculer"}, ops : Ops,
        vers : {"PUBLISHED", "DISABLED", "DRAFT"}]
  \cup [op : {"lire_public"}, presentee : BOOLEAN]
  \cup [op : {"repondu"}, code : CodesCatalogue]
  \cup [op : {"repondu"}, code : Faits, ops : Ops]

CatalogueInit ==
  /\ secteur \in {SecteurAbsent, SecteurAmorce}
  /\ chantier = "aucun"
  /\ actifs = Ops
  /\ journal = {}

-----------------------------------------------------------------------------
EnChantier == chantier \in {"ACCEPTED", "PROVIDER_EN_ROUTE", "ON_SITE"}

VisibleDuPublic == secteur.statut = "PUBLISHED"

\* A submission that read the sector while it was published writes its Demande
\* even if it is withdrawn meanwhile; nobody reads the sector after that.
OuvrirChantier ==
  /\ chantier \in {"aucun", "fini"}
  /\ secteur.statut \in {"PUBLISHED", "DISABLED"}
  /\ chantier' = "BROADCASTING"
  /\ UNCHANGED <<secteur, journalOps, requete>>

AvancerChantier ==
  /\ chantier \notin {"aucun", "fini"}
  /\ \/ chantier' = [c \in Chantiers |->
                       CASE c = "BROADCASTING" -> "ACCEPTED"
                         [] c = "ACCEPTED" -> "PROVIDER_EN_ROUTE"
                         [] c = "PROVIDER_EN_ROUTE" -> "ON_SITE"
                         [] OTHER -> "fini"][chantier]
     \/ chantier' = "fini"
  /\ UNCHANGED <<secteur, journalOps, requete>>

-----------------------------------------------------------------------------
\* What the domain answers of the sector that was read, "aucun" to go on.
RefusDuCatalogue(q) ==
  CASE q.op = "creer" /\ secteur.statut # "ABSENT" -> "SECTOR_CODE_TAKEN"
    [] q.op = "creer" /\ secteur.statut = "ABSENT" /\ ~q.libelles
         -> "LABEL_REQUIRED"
    [] q.op # "creer" /\ secteur.statut = "ABSENT" -> "SECTOR_NOT_FOUND"
    [] q.op = "publier" /\ secteur.statut \in {"PUBLISHED", "DISABLED"}
         -> "SECTOR_TRANSITION_INVALID"
    [] q.op = "publier" /\ secteur.statut = "DRAFT" /\ secteur.creePar = q.ops
         -> "FOUR_EYES_REQUIRED"
    [] q.op = "desactiver" /\ secteur.statut \in {"DRAFT", "DISABLED"}
         -> "SECTOR_TRANSITION_INVALID"
    [] q.op = "desactiver" /\ secteur.statut = "PUBLISHED" /\ EnChantier
         -> "SECTOR_HAS_ACTIVE_MISSIONS"
    [] OTHER -> "aucun"

LireSecteur(r) ==
  LET q == requete[r]
  IN  /\ q.op \in Actes
      /\ Devient(r, IF RefusDuCatalogue(q) # "aucun"
                      THEN Repondu(RefusDuCatalogue(q))
                      ELSE [op |-> IF q.op = "creer" THEN "inserer_secteur"
                                                     ELSE "basculer",
                            ops |-> q.ops,
                            vers |-> CASE q.op = "creer" -> "DRAFT"
                                       [] q.op = "publier" -> "PUBLISHED"
                                       [] q.op = "desactiver" -> "DISABLED"])
      /\ UNCHANGED <<catalogue, journalOps>>

Fait(r, code) ==
  Devient(r, [op |-> "repondu", code |-> code, ops |-> requete[r].ops])

\* ON CONFLICT (code) DO NOTHING
InsererSecteur(r) ==
  LET q == requete[r]
  IN  /\ q.op = "inserer_secteur"
      /\ \/ /\ secteur.statut = "ABSENT"
            /\ secteur' = [secteur EXCEPT !.statut = "DRAFT", !.creePar = q.ops]
            /\ Fait(r, "SECTOR_CREATED")
         \/ /\ secteur.statut # "ABSENT"
            /\ Devient(r, Repondu("SECTOR_CODE_TAKEN"))
            /\ UNCHANGED secteur
      /\ UNCHANGED <<chantier, journalOps>>

\* WHERE statut = 'DRAFT' AND (cree_par IS NULL OR cree_par <> $2)
Publiable(o) == secteur.statut = "DRAFT" /\ secteur.creePar # o

PublierEnBase(r) ==
  LET q == requete[r]
  IN  /\ q.op = "basculer" /\ q.vers = "PUBLISHED"
      /\ \/ /\ Publiable(q.ops)
            /\ secteur' = [secteur EXCEPT !.statut = "PUBLISHED",
                                          !.publiePar = q.ops]
            /\ Fait(r, "SECTOR_PUBLISHED")
         \/ /\ ~Publiable(q.ops)
            /\ Devient(r, Repondu("SECTOR_TRANSITION_INVALID"))
            /\ UNCHANGED secteur
      /\ UNCHANGED <<chantier, journalOps>>

\* MUTANT: the Missions that were counted by the read are not looked at again.
DesactivableSansRecompter == secteur.statut = "PUBLISHED"

\* WHERE statut = 'PUBLISHED' AND NOT EXISTS (a Mission in progress): one step,
\* although in READ COMMITTED a Mission committed while it runs may be missed.
Desactivable == secteur.statut = "PUBLISHED" /\ ~EnChantier

DesactiverEnBase(r) ==
  LET q == requete[r]
  IN  /\ q.op = "basculer" /\ q.vers = "DISABLED"
      /\ \/ /\ Desactivable
            /\ secteur' = [secteur EXCEPT !.statut = "DISABLED"]
            /\ Fait(r, "SECTOR_DISABLED")
         \/ /\ ~Desactivable
            /\ Devient(r, Repondu("SECTOR_TRANSITION_INVALID"))
            /\ UNCHANGED secteur
      /\ UNCHANGED <<chantier, journalOps>>

DemanderActe(r, acte, libelles) ==
  \E o \in Ops : /\ DemanderGeste(r, o, "CATALOG_MANAGE",
                      [op |-> acte, ops |-> o, libelles |-> libelles])
                 /\ UNCHANGED catalogue

\* POST /ops/catalog/sectors
CreerSecteur(r) ==
  \/ \E libelles \in BOOLEAN : DemanderActe(r, "creer", libelles)
  \/ /\ Libre(r)
     /\ Devient(r, Repondu("SECTOR_CODE_INVALID"))
     /\ UNCHANGED <<catalogue, journalOps>>
  \/ LireSecteur(r)
  \/ InsererSecteur(r)

\* POST /ops/catalog/sectors/{code}/publish
PublierSecteur(r) == DemanderActe(r, "publier", TRUE) \/ PublierEnBase(r)

\* POST /ops/catalog/sectors/{code}/disable
DesactiverSecteur(r) == DemanderActe(r, "desactiver", TRUE) \/ DesactiverEnBase(r)

\* GET /ops/catalog/sectors
ListerSecteurs(r) ==
  \/ \E o \in Ops : /\ DemanderGeste(r, o, "CATALOG_MANAGE", [op |-> "lister"])
                    /\ UNCHANGED catalogue
  \/ /\ requete[r].op = "lister"
     /\ Devient(r, Repondu("SECTORS"))
     /\ UNCHANGED <<catalogue, journalOps>>

\* GET /catalog/sectors: presentee is whether the copy whose ETag is presented
\* shows the sector.
LireCatalogue(r) ==
  /\ \/ /\ Libre(r)
        /\ \E presentee \in BOOLEAN :
             Devient(r, [op |-> "lire_public", presentee |-> presentee])
     \/ /\ Libre(r)
        /\ \E code \in {"CATALOG_MAINTENANCE", "RATE_LIMIT_EXCEEDED"} :
             Devient(r, Repondu(code))
     \/ /\ requete[r].op = "lire_public"
        /\ Devient(r, Repondu(IF requete[r].presentee <=> VisibleDuPublic
                                THEN "NOT_MODIFIED" ELSE "CATALOG"))
  /\ UNCHANGED <<catalogue, journalOps>>

CatalogueNext ==
  \/ OuvrirChantier
  \/ AvancerChantier
  \/ \E o \in Ops : RevoquerInactif(o) /\ UNCHANGED catalogue
  \/ \E r \in Requetes :
       \/ Interrompre(r) /\ UNCHANGED <<catalogue, journalOps>>
       \/ /\ LireHabilitation(r) \/ ConsignerGeste(r)
          /\ UNCHANGED catalogue
       \/ CreerSecteur(r)
       \/ PublierSecteur(r)
       \/ DesactiverSecteur(r)
       \/ ListerSecteurs(r)
       \/ LireCatalogue(r)

-----------------------------------------------------------------------------
CatalogueOK ==
  /\ JournalOpsOK
  /\ secteur \in [statut : StatutsSecteur \cup {"ABSENT"}, creePar : Auteurs,
                  publiePar : Auteurs]
  /\ chantier \in Chantiers
  /\ \A r \in Requetes : requete[r] \in EtatsCatalogue \cup {Repos}

\* However the creations and the publications of several accounts cross, a
\* sector drafted in the console is published by another account than its
\* author, both acts being in the journal; whoever was told 201 is its author
\* and whoever was told that he published it did (creer, publier).
PublieParUnAutre ==
  /\ secteur.creePar # "personne" =>
       /\ Consigne(secteur.creePar, "CATALOG_MANAGE")
       /\ secteur.statut # "DRAFT" =>
            /\ secteur.publiePar \in Ops \ {secteur.creePar}
            /\ Consigne(secteur.publiePar, "CATALOG_MANAGE")
  /\ \A r \in Requetes :
       LET q == requete[r]
       IN  q.op = "repondu" =>
             /\ StatutCatalogue(q.code) = 201 => secteur.creePar = q.ops
             /\ q.code = "SECTOR_PUBLISHED" => secteur.publiePar = q.ops
=============================================================================
