------------------------------ MODULE Notation ------------------------------
(***************************************************************************)
(* The two notes of a validated Mission, given blind: neither party sees   *)
(* the other's before both are given or the window is closed               *)
(* (klaar-trust/notation.rs, the usecase noter and PgNotationRepository).  *)
(* A note is named by its target; its author is the other party.           *)
(***************************************************************************)
EXTENDS CoursMission

CONSTANT FENETRE_NOTATION   \* FENETRE_NOTATION_JOURS

ASSUME NotationAssumption == FENETRE_NOTATION \in 1..JOURS_MAX

VARIABLES
  notes,       \* the row of notation on each target; history: what its author
               \* had seen when he sent it
  vues,        \* history: targets whose author has been shown the other's note
  nombreNotes  \* nombre_notes of reputation_provider

notation == <<notes, vues, nombreNotes>>

-----------------------------------------------------------------------------
\* Whom a note is about: the requester notes the PROVIDER, who notes the USER.
Cibles == {"PROVIDER", "USER"}

Reciproque(cible) == CHOOSE c \in Cibles : c # cible

\* What Notation::emettre finds in the body.
Avis == {"correct", "hors_echelle", "commentaire_long"}

CodesNotation ==
  {"MISSION_NOT_FOUND", "MISSION_NOT_VALIDATED", "ALREADY_RATED",
   "RATING_OUT_OF_RANGE", "RATING_WINDOW_CLOSED", "COMMENT_TOO_LONG"}

StatutNotation(code) ==
  CASE code = "RATING_RECORDED" -> 201
    [] code = "RATINGS" -> 200
    [] code = "MISSION_NOT_FOUND" -> 404
    [] code \in {"MISSION_NOT_VALIDATED", "ALREADY_RATED"} -> 409
    [] code = "RATING_WINDOW_CLOSED" -> 410
    [] OTHER -> 422

EtatsNotation ==
       {Repos}
  \cup [op : {"validation"}, cible : Cibles, avis : Avis, jour : Jours,
        su : BOOLEAN]
  \cup [op : {"noter"}, cible : Cibles, jour : Jours, su : BOOLEAN]
  \cup [op : {"relire"}, jour : Jours]
  \cup [op : {"validation_lue", "notes_lues"}, auteur : Cibles, jour : Jours]
  \cup [op : {"repondu"}, code : CodesNotation]
  \cup [op : {"repondu"}, code : {"RATING_RECORDED"}, publiee : BOOLEAN]
  \cup [op : {"repondu"}, code : {"RATINGS"}, visibles : SUBSET Cibles]

NotationInit ==
  /\ notes = [c \in Cibles |-> "absente"]
  /\ vues = {}
  /\ nombreNotes = 0

-----------------------------------------------------------------------------
Notees == {c \in Cibles : notes[c] # "absente"}

\* Mutant: the first note is shown as soon as it is given.
PubliablesDesLaPremiere(jour) == Notees # {} \/ jour >= FENETRE_NOTATION

Publiables(jour) == Notees = Cibles \/ jour >= FENETRE_NOTATION

\* Neither the requester nor the provider of the Mission.
SansCible(r) ==
  /\ Libre(r)
  /\ Devient(r, Repondu("MISSION_NOT_FOUND"))
  /\ UNCHANGED <<mission, notation>>

\* POST /missions/{id}/rating: the hour is taken once, before the reads.
DemanderNote(r, cible, avis) ==
  /\ Libre(r)
  /\ Devient(r, [op |-> "validation", cible |-> cible, avis |-> avis,
                 jour |-> validee, su |-> cible \in vues])
  /\ UNCHANGED <<mission, notation>>

\* In the order of the code: VALIDATED, the scale, the window, the comment.
RefusNote(avis, jour) ==
  CASE statut # "VALIDATED" -> "MISSION_NOT_VALIDATED"
    [] statut = "VALIDATED" /\ avis = "hors_echelle" -> "RATING_OUT_OF_RANGE"
    [] statut = "VALIDATED" /\ avis # "hors_echelle" ->
         IF jour >= FENETRE_NOTATION THEN "RATING_WINDOW_CLOSED"
           ELSE IF avis = "correct" THEN "aucun" ELSE "COMMENT_TOO_LONG"

LireValidation(r) ==
  LET q == requete[r]
      refus == RefusNote(q.avis, q.jour)
  IN  /\ q.op = "validation"
      /\ Devient(r, IF refus = "aucun"
                      THEN [op |-> "noter", cible |-> q.cible, jour |-> q.jour,
                            su |-> q.su]
                      ELSE Repondu(refus))
      /\ UNCHANGED <<mission, notation>>

\* Mutant: the provider's reputation counts the note he gives.
NombreApresToujours(cible) == nombreNotes + 1

NombreApres(cible) ==
  IF cible = "PROVIDER" THEN nombreNotes + 1 ELSE nombreNotes

\* One transaction: the note under notation_une_par_cote, and the reputation of
\* the provider when it is about him.
EcrireNote(r) ==
  LET q == requete[r]
  IN  /\ q.op = "noter"
      /\ \/ /\ notes[q.cible] = "absente"
            /\ notes' = [notes EXCEPT ![q.cible] =
                           IF q.su THEN "informee" ELSE "aveugle"]
            /\ nombreNotes' = NombreApres(q.cible)
            /\ Devient(r, [op |-> "relire", jour |-> q.jour])
         \/ /\ notes[q.cible] # "absente"
            /\ Devient(r, Repondu("ALREADY_RATED"))
            /\ UNCHANGED <<notes, nombreNotes>>
      /\ UNCHANGED <<mission, vues>>

\* The answer tells whether the note is published, from a second read.
RelireNotes(r) ==
  /\ requete[r].op = "relire"
  /\ Devient(r, [op |-> "repondu", code |-> "RATING_RECORDED",
                 publiee |-> Publiables(requete[r].jour)])
  /\ UNCHANGED <<mission, notation>>

\* GET /missions/{id}/rating, by the author of the note on c; the hour, then the
\* validation, then the notes.  The code does not look at who asks.
DemanderNotes(r, c) ==
  /\ Libre(r)
  /\ Devient(r, [op |-> "validation_lue", auteur |-> c, jour |-> validee])
  /\ UNCHANGED <<mission, notation>>

LireValidationPourNotes(r) ==
  LET q == requete[r]
  IN  /\ q.op = "validation_lue"
      /\ Devient(r, IF statut = "VALIDATED"
                      THEN [q EXCEPT !.op = "notes_lues"]
                      ELSE [op |-> "repondu", code |-> "RATINGS",
                            visibles |-> {}])
      /\ UNCHANGED <<mission, notation>>

LireNotes(r) ==
  LET q == requete[r]
      visibles == IF Publiables(q.jour) THEN Notees ELSE {}
  IN  /\ q.op = "notes_lues"
      /\ vues' = vues \cup
                 (IF Reciproque(q.auteur) \in visibles THEN {q.auteur} ELSE {})
      /\ Devient(r, [op |-> "repondu", code |-> "RATINGS",
                     visibles |-> visibles])
      /\ UNCHANGED <<mission, notes, nombreNotes>>

\* The two routes, from the request to the answer.
NoterIntervention(r) ==
  \/ SansCible(r)
  \/ \E cible \in Cibles, avis \in Avis : DemanderNote(r, cible, avis)
  \/ LireValidation(r)
  \/ EcrireNote(r)
  \/ RelireNotes(r)

LireNotesDeMission(r) ==
  \/ \E c \in Cibles : DemanderNotes(r, c)
  \/ LireValidationPourNotes(r)
  \/ LireNotes(r)

-----------------------------------------------------------------------------
NotationOK ==
  /\ notes \in [Cibles -> {"absente", "aveugle", "informee"}]
  /\ vues \in SUBSET Cibles
  /\ nombreNotes \in 0..1
  /\ requete \in [Requetes -> EtatsNotation]

\* A party that has read the note given about him can no longer give his own,
\* wherever the closing of the window falls between the reads and the writes of
\* the two of them; the notes given are counted in the reputation, and whoever
\* was told 201 has given one.
NotesAveugles ==
  /\ \A c \in Cibles : notes[c] # "informee"
  /\ nombreNotes = IF "PROVIDER" \in Notees THEN 1 ELSE 0
  /\ \A r \in Requetes :
       /\ requete[r].op = "repondu"
       /\ StatutNotation(requete[r].code) = 201
       => Notees # {}
=============================================================================
