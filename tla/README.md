# klaar in TLA+

klaar connects somebody with a household emergency (a *Demande*) to a nearby
tradesperson (a *prestataire*), then follows the work (a *Mission*), its price
(the *devis*), its cancellation, its validation and its aftermath. The server is
Rust (actix-web over PostgreSQL through sqlx, one crate per bounded context and a
crate of usecases), the client a web application that works offline.

The specifications model the server's handlers with their reads and their writes
as separate steps, because that is where this code can go wrong: every handler
reads rows, awaits, and then writes with a guarded `UPDATE`; handlers run
concurrently on several threads and, in production, several processes, and they
share only the database. One SQL transaction is one step. Names in the modules
are the names in the code, in French like the code.

## 1. Inventory

| Component | State | Operations | Interacts with | Hard behaviours | Correct when |
|---|---|---|---|---|---|
| **Demande and attribution** (`klaar-matching`, usecases `matcher`, `accepter`, `elargir`, `annuler`, `expirer`) | `demande` (statut, elargissements, diffuse_depuis), `mission`, `trace_matching` | submit, match, trace, notify, accept, widen, cancel, sweep, take up again | the provider's record and his load, the Mission | acceptance race; cancellation against acceptance; late matching; two clicks on "widen"; sweep with `SKIP LOCKED`; a request cut off half-way | one living Mission per Demande and all its Missions of one provider, one Mission in progress per provider, final states final, what an answer announced stays so, a provider retained is told, every broadcast ends |
| **Submission** (`soumettre_demande`) | `demande` | check the sector, the duplicate and the quota, insert, audit | matching, the client's queue | check-then-insert by two requests | what is admitted exceeds the quota by no more than the requests that crossed |
| **Amounts** (`klaar-payment::devis`, `liberation`) | `devis`, `liberation` | propose, apply VAT, share a release | the `CHECK`s of the tables | truncations, thresholds | no row computed is refused by its table, not a cent is lost |
| **Mission** (`klaar-intervention`, usecase `transiter_mission`) | `mission.statut`, `mission_transition` | advance, cancel, validate | devis, release, suspension, tracking | compare-and-swap on the statut | the machine only moves along `transitions_possibles` |
| **Devis** (`klaar-payment::devis`, usecases `emettre_devis`, `repondre_devis`, `expirer_devis`) | `devis` (statut, expire_le, cree_le) | send, accept, refuse, expire, refuse the fourth | Mission | answer against expiry against sweep; two emissions at once; ceiling told in the wrong order | one offer waits at a time, an answer is final, three offers at most |
| **Cancellation and withdrawals** (`annulation`, usecase `annuler_mission`) | `annulation_mission`, `provider.statut` | cancel, refund, count, suspend | Mission, devis, provider | what is owed is read before the write; the suspension is a second write | nothing is given back or kept that the requester did not agree to; the journey is charged when it took place |
| **Release** (`klaar-payment::liberation`, usecase `valider_mission`) | `liberation` | validate, validate in place of a silent requester | Mission, devis, sweep | requester and sweep at once; bounded lots; a sweep that stops half-way | paid once, for an accepted price, never before 72 h of silence, and in the end unless older Missions fill the lot for ever (finding 3) |
| **Escrow, payment method** (`klaar-payment`) | domain objects; no usecase moves an escrow yet | authorise, capture, refund | Stripe | sequence of calls | never captured and refunded |
| **Stripe webhook** | `evenement_stripe` | receive, decide, record | escrow (later) | duplicates, reordering | an event is applied once; it is set aside when a newer one was applied before it was read, so an older one may still follow a newer one when two deliveries are read together |
| **Account** (`klaar-identity`) | `utilisateur` (verified, to be erased, lock) | register, verify, purge, ask for erasure, cancel it, erase | sessions | a purge or an erasure crossing a verification or a cancellation | no verified account purged, no erasure after its cancellation |
| **Session and lockout** | `session_refresh`, lock columns | log in, refresh, log out, detect reuse | account | a token used twice at once; lost updates of the failure counter; revocation against rotation | one living link per family, none after a reuse |
| **Provider record and KYC** | `provider`, `revue_kyc` | apply, pause, review, confirm, suspend | matching, ops | read-modify-write of the whole state; two examiners | a refusal has two different examiners; a suspension is not undone by accident |
| **Ops console** | `compte_ops`, `session_ops`, `journal_ops` | password, second factor, session, accounts, reads | reviews, mediation, catalogue | code used twice, session that ends under a request | one code opens one session, an act is written before it is done |
| **Disputes, mediation, ratings** (`klaar-trust`) | `litige`, `mediation`, `notation` | open, decide, confirm, rate | Mission, release | two parties at once, windows of time | one dispute per party, a rating stays hidden until both exist |
| **Rescheduling** | `reprogrammation` | propose, answer, expire | Mission | answer against expiry against the Mission's progress | one proposal waits at a time |
| **Tracking, conversation** | `position_suivi`, `message` | record, read, sweep | Mission, NOTIFY | window that follows the statut of the Mission | nothing is visible outside the window |
| **Catalogue** (`administrer_catalogue`) | `secteur` | draft, publish, withdraw, read | ops, Missions | two accounts of the console; a Mission that begins meanwhile | published by another than its author; never withdrawn under a Mission |
| **Real time** (`evenements`, `billet`, `routes/temps_reel`) | tickets and bus in memory | NOTIFY, ticket, socket | Mission | bounded bus, slow socket, cut of the listener | a gap is told |
| **Limiter** (`limitation`) | table in memory | verify, clean up | every route | sliding windows of several lengths, a full table | no more calls than the quota |
| **Push, e-mail, telemetry, scheduled programs** | one table each or none | | all of them | a program that stops half-way | see `PROJECT.json` |
| **Web client** (`web/src/lib`) | IndexedDB queues `queue` and `dead` | record offline, replay, give up | the whole API | lost answers, replays, two tabs, expired session | nothing is lost, nothing overtakes |

`PROJECT.json` lists every component with its sources and its status, and under
`hazards` what is hard to test, at its line.

## 2. Modules

A module is a component; a component that several others share is a module they
extend; `SuitesMission` and `Plateforme` compose.

| Module | Models | Extends |
|---|---|---|
| `Affectation` | abstract: a Demande is open, attributed to one provider or closed; he alone may take it up again once he has given it up; a provider carries one at a time | |
| `Attribution` | a Demande from its submission to its Mission | `Affectation` (by INSTANCE) |
| `Intervention` | a Mission from its attribution to its end: progress, devis, cancellation, suspension, release | `CoursMission` (by INSTANCE) |
| `Acces` | an account and its sessions, from its registration to its purge or its erasure | |
| `Appels` | the slots of the HTTP requests in progress | |
| `CoursMission` | what the follow-ups of a Mission see of it | `Appels` |
| `Reprogrammation` | taking up a cancelled Mission again | `CoursMission` |
| `Suivi` | consent, positions, their purge | `CoursMission` |
| `Conversation` | messages, refused attempts, the limit | `CoursMission` |
| `Notation` | the two blind notes | `CoursMission` |
| `JournalOps` | `autoriser_et_consigner`: read the account again, check its right, write the act, then do it | `Appels` |
| `Litige` | a dispute and its mediation | `CoursMission`, `JournalOps` |
| `SuitesMission` | a Mission with its follow-ups | the six above |
| `ConsoleOps` | accounts, TOTP, sessions and reads of the console | `JournalOps` |
| `RevueKyc` | a provider's record: review by four eyes, withdrawal, availability | `JournalOps` |
| `Catalogue` | a sector: drafted, published, withdrawn, read | `JournalOps` |
| `Soumission` | duplicate, quota, insertion, and the client's offline queue | `Appels` |
| `WebhookStripe` | events delivered several times in any order | `Appels` |
| `Direct` | NOTIFY, listener, bounded bus, tickets, sockets | `Appels` |
| `Sequestre` | the escrow and the cards, as the domain has them | |
| `Tarif` | the cents of a devis and of a release beside the `CHECK`s of their tables | |
| `Porte` | the limiter | |
| `Plateforme` | what surrounds the Missions | the nine above |
| `MCAttribution`, `MCIntervention`, `MCSuitesMission`, `MCPlateforme` | small instances for TLC | |
| `AttributionProofs`, `AccesProofs`, `InterventionProofs`, `TarifProofs` | theorems about the module of that name | it, `TLAPS` |
| `OpsProofs` | lemmas about the console, KYC and the catalogue | `ConsoleOps`, `RevueKyc`, `Catalogue`, `TLAPS` |
| `ServicesProofs` | lemmas about submission, webhook and live feed | `Soumission`, `WebhookStripe`, `Direct`, `TLAPS` |
| `PlateformeProofs` | theorems about `Plateforme` | it, the three modules of lemmas, `WellFoundedInduction` |
| `SuitesMissionProofs` | theorems about `SuitesMission` and each follow-up | it, `FiniteSetTheorems`, `TLAPS` |

**Volets.** The follow-ups of a Mission write tables that no other follow-up
reads, and the parts of `Plateforme` share the request slots, the accounts of the
console and its journal, and no other table. Interleaving two of them says nothing
that interleaving each with itself does not, so a behaviour runs one of them: the
variable `volet`, chosen in `Init` and never changed. `SuitesMission` has six
(rescheduling, tracking, conversation, notes, dispute, mediation), in all of which
but the mediation the Mission goes its way, while in the mediation its devis may still
be accepted; `Plateforme` has twelve (login to the
console, its accounts, its reads, KYC, the provider's own settings, catalogue,
submission, webhook, live feed, payment, amounts, limiter).

### How a module corresponds to the code

A handler is a chain of steps over `requete[r]`, the local variables it carries
from one `await` to the next. `DemanderX` is the reads and the checks on what
was read; the step after it is the transaction that writes, whose guard is the
`WHERE` of the SQL, and which decides what is done when no row matches. Between
the two, every other step may happen. Each HTTP handler is one operator, the
disjunction of its steps, named as in `routes/` (`AccepterDemande`,
`EnvoyerDevis`, `ValiderMission`, `Login`, `Refresh`, `EffacerMonCompte`,
`TrancherLitige`...), and `Next` is their disjunction with that of the scheduled
programs, the clocks and the faults. In `Attribution`, `Intervention` and `Acces`
a call refused on its reads changes nothing and is not an action; the other
modules keep the answer (`Repondu(code)`), because properties speak of what a
caller was told. `Interrompre` drops a handler between any two of its steps, as
actix does when a client leaves, sqlx when the connection fails and the machine
when it stops: what was committed stays. A scheduled program is an action per
statement. `PROJECT.json` gives the lines of every definition.

* **Time.** `Attribution` keeps the age of a broadcast window, saturated at its
  length: the code only ever compares `now - diffuse_depuis` with that length.
  `Intervention` keeps "the hour of this devis has passed", and the sequence of
  the Missions whose end is 72 hours old, in the order in which the sweep takes
  them. `Acces` has three independent clocks (hours of an
  unverified account, minutes of a lock, days of an erasure), since no decision
  compares two of them; thirty days end whatever was in progress. `CoursMission`
  counts days since the end and since the validation, saturated at `JOURS_MAX`; it
  does not tell the hour of the end that the provider declared, from which a
  conversation and a dispute count, from the hour it was recorded, from which
  tracking counts: they are five minutes apart at most.
  `ConsoleOps` counts TOTP steps of thirty seconds, `Porte` seconds. The marks of
  one address are a set in `Porte`, each with the rank of its call within its second: the
  `Vec` of the code is only ever filtered, counted and asked for its oldest mark.
* **Tokens.** Refresh tokens are random in the code; the model names each by its
  rank among those drawn, and a family by its first link. The expiry of a link is
  a link that nobody presents any more. A TOTP code is the step it belongs to.
* **Geography, ranking, availability.** `proches` and the score are an arbitrary
  choice among active, free, competent providers, of which at most
  `CANDIDATS_MAX` are retained: no property depends on which. In `Soumission` two
  submissions are near each other when they are at the same place.
* **Money.** In `Intervention` totals are members of a small set with one below
  and one above the flat charge of a journey, the two cases
  `AnnulationMission::prononcer` tells apart; `Tarif` computes them, with the
  truncations of the code, for one devis and one release: no other request is in
  progress there, and the ceiling of devis is the matter of `Intervention`.
* **Clock of a devis.** `cree_le` is read at the start of the request, so that
  two emissions may be inserted in the other order; `dernier` is the row with the
  latest `cree_le`, which is what `dernier_pour_mission` returns.
* **Texts.** A motive, a message or a label is what the handler finds in it: well
  formed, too long, with an address in it.
* **Transactions.** Each statement is atomic. PostgreSQL in READ COMMITTED lets
  the snapshot of one statement be older than a lock it waits for; the
  specifications do not split statements, except two of `Acces`, where the rows a
  statement selected and the rows it finds may differ: the `DELETE` of the purge
  (its subquery, then the rows it waited for) and the `UPDATE` of
  `revoquer_famille` (links drawn by a rotation in between are not seen).

### Abstract specifications

Two modules say what a component promises to those that see it from outside.

`Affectation` has six actions (open, attribute, close, finish, give up, take up
again) and no read that ages: a Demande open is attributed to one provider who
carries nothing, or closed, once; the work he has given up is taken up again by him
or by nobody, and only while he carries nothing else. `Attribution` implements it
under a refinement mapping that keeps of the rows the statut (BROADCASTING and
NO_MATCH are both "open"), the providers the Missions name, those of a Mission that
is not cancelled, and what each provider is at work on. A Mission taken up again
(`Reprendre`) is a second row for the same Demande, which the partial index of `V28`
admits once the first is cancelled. `ImplementeAffectation` is checked as a temporal
property and proved.

`CoursMission` is the Mission as its follow-ups know it: one transaction per
handler, the statut, and the author of the cancellation. The five follow-ups are
specified over it, and `Intervention` implements it for each of its Missions
(`Cours(m)`): a Mission is followed from its attribution, its author is that of
its row of `annulation_mission`, and the clocks of the follow-ups, which count days,
stand still, as `Intervention` does not count days. So the reads that age, the
sweeps and the concurrent requests of `Intervention` never lead a Mission to a
place its follow-ups were not written for. `SuitLeCours` is checked as a temporal
property and proved.

## 3. Runs

| Run | Instance | Shows |
|---|---|---|
| `attribution_course` | one Demande, two providers, three requests, one resumption | every order of the reads and writes of three handlers and the sweep on one row; the refinement of `Affectation`, the second Mission of a Demande included |
| `attribution_charge` | two Demandes, one provider, two requests, fairness | the load of a provider; every broadcast ends although requests are dropped and lots are bounded |
| `notifie_ecarte` (violation) | two providers, one place in a round | finding: a provider retained does not find the Demande in his list |
| `acceptation_echue` (violation) | one Demande | finding: an acceptance written after its window |
| `intervention_course` | one Mission, two requests, two devis, amounts below and above the flat charge, fairness of the expiry | money moves once, answers are final, a cancellation is faithful, a Mission goes along the course its follow-ups assume, offers end |
| `intervention_fin` | two Missions of one provider, two devis each, a lot of one, fairness of the validation | suspension justified; work done whose last devis is accepted is paid, whatever the other Mission hides, unless that one is the older and fills the lot |
| `accord_masque` (violation) | one Mission, two devis | finding: a devis sent after an agreement hides it |
| `engagement_perdu` (violation) | one Mission, two requests | finding: a devis accepted while the Mission is cancelled is not given back |
| `acces_course` | one account, two requests, two refresh tokens, two instances of `klaar-effacer`, fairness | a family has one living link and a cut holds; an erasure happens once, for good and in the end; a verified account is never purged; a lock opens by itself |
| `efface_connecte` (violation) | one account, one request | finding: a session opened while the account is erased |
| `suites_mission` | one Mission, two requests, two mediators, fairness | one cancelled Mission is taken up once; a conversation passes its limit by no more than the requests that crossed; nobody notes after having read; a dispute is decided once and as announced; no position stays for ever |
| `plateforme` | two requests, two accounts of the console, twelve volets | one code opens one session; a refusal takes two reviewers; no sector is withdrawn under a Mission; crossing submissions exceed the quota by a known number and an offline write never vanishes; a Stripe event takes effect once; the live feed has no silent gap; the tables accept what the domain computes |

**Why the bounds are enough.** The races of `Attribution` are on one row and one
write of each of three parties: three requests give every order of three handlers,
each of which is at most four steps long, and the sweep comes as often as it likes.
Two providers tell "the first" from "another"; three widenings are those of the
code, and `attribution_charge`, with one, makes the last round come early; one
resumption (`REPRISES_MAX`) gives a Demande its second Mission, and
`attribution_charge` has none, since a Demande taken up again is not broadcast; that
a resumption does not give a provider a second Mission in progress is proved
(`UneSeuleMissionEnCours`). A third Demande or provider adds no new pair of
conflicting writes, and what holds for every number is proved. In `Intervention` one
Mission is enough for the money, since no statement relates two Missions except the
lot of a sweep and the count of withdrawals, which `intervention_fin` has two of,
with a ceiling of two. Two devis tell "the last one" from "an accepted one"; the
ceiling is reached at two as at three. `intervention_fin` has both hazards of the
validation sweep: a second devis hides an agreement, and a lot of one is filled by
the older of two Missions. `AccordHonore` is promised to a Mission whose last devis
is the accepted one (finding 3 is the case where it is not), as long as fewer than a
lot of older Missions hide theirs for ever. `DevisPrendFin` is checked on one
Mission, whose row the lot may leave out while an answer holds it; that other Missions
fill the lot of the expiry is not in this instance, but each does so once per devis at
most, and the ceiling bounds those. No statement of `Acces` reads the rows of two
accounts except the lists of the purge and of `klaar-effacer`, which are walked
entry by entry. Two requests give every pair of handlers between their read and
their write; two refresh tokens give a family of two links, two families, and a
rotation between the snapshot of a cut and its writes; two instances of
`klaar-effacer` give overlapping lists. A threshold of one failure locks at every
failure, which is the hardest case of `CompteSeRouvre`: a greater one only delays
the lock.

`suites_mission` has windows of one day (`FENETRE_REPROGRAMMATION`,
`PURGE_JOURS`, `CONVERSATION_FERMEE`, `FENETRE_NOTATION`, `FENETRE_LITIGE`) in a
calendar of `JOURS_MAX = 2`: a day inside, the last day and a day after. Limits are
two (`POSITIONS_MAX`, `MESSAGES_MAX`, `TENTATIVES_SIGNALEES`), so that one request
reaches them and two cross them. A total of 101 cents shared at 3333 basis points
does not divide evenly, and its devis may be accepted at any moment of the
mediation; 99 is a part the domain refuses. The two mediators have
different roles that both give the right.

`plateforme` has a clock of two TOTP steps (`PAS_MAX`), sessions that last one and
of which `SESSIONS_MAX = 2` may be written, so that a code is presented again in
its window and a session ends under a request. Four Stripe events: two of one
second and one older on one object, one of another object. The live feed has two
versions of the Mission, two notices in flight, a bus of two and two tickets
(`VERSIONS_MAX`, `AVIS_MAX`, `PROFONDEUR`, `VIVANTS_MAX`): a slow socket loses one
notice, or more than the bus keeps. A quota of two with two tabs and two places
lets crossing submissions exceed it, and a queue hold two entries. The escrow is
asked for amounts from zero to three of an authorisation that lasts two days, and
two cards are at their limit. The amounts of `Tarif` are the boundaries: -1, 0, 1,
the two whose totals at 21 % are on either side of the four-eyes threshold (41323,
41324), the ceiling and one above; a rate refused, the lowest admitted and the
normal one; delays below, at and above the limits; every other value is proved. The
limiter has keys of two routes (windows of three and one seconds, at most two and
one calls), a clean-up at two keys, and five seconds (`INSTANT_MAX`).

Counters that only bounds stop (`PAS_MAX`, `SESSIONS_MAX`, `POSITIONS_MAX`,
`VERSIONS_MAX`, `AVIS_MAX`, `INSTANT_MAX`, `JOURS_MAX`, `MAILLONS_MAX`,
`REPRISES_MAX`) are constants with a comment that says so; the others
are constants of the code given small values.

**Symmetry** is declared for requests, Demandes, providers, accounts of the
console and places, only in runs without liveness.

**Deadlock** is only allowed where the system may stop: when every Demande, every
Mission or the part of the system of the volet is over, no request is in progress
and the clock is at its bound. The configurations say so with
`CHECK_DEADLOCK FALSE`.

**Fairness.** `Attribution!FairSpec` asks that time passes and that the sweep,
which a timer starts for ever (`deploy`), eventually runs: weak fairness of
`Tic` and `ExpirerEchues`. No handler is fair: each may be dropped for ever.
`Intervention` has one specification per sweep, so that neither leans on the other.
`SpecExpiration` asks for weak fairness of the hour of each devis and of the expiry,
`SpecValidation` of the 72 hours and of the selection. The
validation sweep may be cut off between any two of its steps; strong fairness of
its steps says that it is not cut off at the same place for ever.
`Acces!FairSpec` asks for weak fairness of the clocks, of the
reading of the list by `klaar-effacer` and of its audit entry, and strong fairness
of `Effacer`: a timer starts the program for ever, and it is not stopped at the
same account for ever. Neither the requests nor the purge get any.
`SuitesMission!FairSpec` asks for weak fairness of the day and of the purge of
traces, which the same timer starts; neither the Mission nor its parties get any.

## 4. Findings

Each is a run that TLC must find violated, with the line that says otherwise in
`PROJECT.json`.

1. `trace.rs:101` keeps the line of the first round (`ON CONFLICT DO NOTHING`): a
   provider written off at 5 km and retained at 10 km is recorded as written off,
   and the list he reads filters on `retenu`: the Demande is not in it. No push
   subscription is ever linked to an account, so that list is his only channel.
2. `mission.rs:72` compares the statut only: an acceptance read in its window is
   written after it, which the comment of `bin/expirer.rs` excludes.
3. `emettre_devis` accepts a devis after an accepted one, and the release reads the
  last devis only: the validation is refused, and the sweep, which selects on
  any accepted devis, takes the Mission again for ever. Such Missions come first in
  the lot (`liberation.rs:189`): as many of them as a lot holds starve every more
  recent Mission, which the comment above the query (`liberation.rs:166-171`) says
  the filter prevents; this is the premise of `AccordHonore`.
4. `annuler_mission.rs:169` reads what is committed before the write, which compares
  the statut of the Mission only: a devis accepted in between is not given back.
5. `connecter.rs` reads the account once and inserts the session without looking
  at the statut again: a login that crosses `klaar-effacer` leaves a session on
  an erased account, whose header says that the sessions disappear.
  A rotation that crosses a cut of its family leaves a living link
  in the same way: `CoupureTenue` holds for the links drawn before the cut was
  asked for, and says so.

Observed while reading, and not the subject of a run, although the models have
the first five:

* Refusals whose cause may be false. `accepter.rs:183` answers "already taken"
  whenever the write finds the statut changed, although the Demande may have been
  withdrawn or swept, which `accepter.rs:155-157` wants told apart. `annuler.rs:116`
  answers "already attributed, cancel the Mission", although a second click or a last
  widening may have cancelled the Demande, where `annuler.rs:113-115` says MATCHED is
  the only reason. `elargir.rs:119` drops what the cancellation answers: an acceptance
  written in between leaves a Demande MATCHED whose requester is told it is cancelled
  (`elargir.rs:60`).
* `transiter_mission.rs:141` refuses VALIDATED but not CANCELLED, and
  `emettre_devis.rs:183-191` cancels at the ceiling: the Mission ends without a row in
  `annulation_mission`, so no refund is recorded and no withdrawal counted, against
  `annuler_mission.rs:5-6`.
* `annuler_mission.rs:170` keeps the last devis only if it is accepted, so that,
  without any race, an accepted devis that another one follows is not given back.
* `annulation.rs:197` charges the journey from ON_SITE whoever cancels, where
  `annuler_mission.rs:5-6` says that a provider who withdraws gives everything back.
* `executer_les_echus` walks a list it read once, and the `UPDATE` of `effacer`
  compares the statut and not `efface_le`: an account whose owner cancelled and
  asked again while the list was walked is erased before its new term, where
  `effacer.rs:174` speaks of the erasures that are due. `Acces` has this behaviour
  (`Effacable` looks at the statut alone).
* `GenreEvenement` is serialised by serde as `STATUT_MISSION`, `DEVIS_EMIS`...,
  while `as_str`, the test of its stability (`evenements.rs:186-195`) and
  `tempsReel.ts:22` say `MISSION_STATUS`, `QUOTE_SENT`...; the TypeScript type also
  lacks `QUOTE_ANSWERED`. The client reads the Mission again on any message, so
  nothing breaks.
* A release above the four-eyes threshold is `PENDING_OPS`, which nothing leaves
  (`liberation.rs`, `V22__validation_mission.sql:73`).
* `routes/push.rs:185` stores a subscription that no statement links to an account.
* `routes/devis.rs:389` answers the devis that waits for the Mission, not the one
  that the requester was shown.
* The listener reconnects after a cut without telling the sockets to read again;
  `FluxSansTrou` holds while the listener does.
* The offline queue may replay a submission after the window in which the service
  recognises a duplicate: the service keeps no `Idempotency-Key`.
* Nothing calls `revoquer_les_inactifs`; `repondre` does not look at the seven days
  of a rescheduling again; `est_acceptable`, `expirer`, `annuler` and
  `est_doublon_de` of `klaar-matching/src/demande.rs` are reached by tests only,
  the handlers having the same rules in SQL.

## 5. Proofs

Every theorem is of the specification that a run checks, for every value of the
constants that the assumptions of its module allow: any number of Demandes,
Missions, accounts, providers, requests, sweeps, amounts and bounds. The
assumptions say that bounds are naturals (or positive where the code divides by
them or loops on them), that amounts are integers, that the roles of the console
are roles, that no account of the console is called "personne", the value that
stands for a NULL column, and, in `Soumission` and `Conversation`, that the
requests in progress are finitely many and at least one, since a property counts
them.

Every safety property of a passing run is the statement of a theorem: the
invariants, among them the type invariant of each run that states one, the action
properties and the two refinements. What remains is liveness.

In each module one inductive invariant carries the theorems. A read that ages is
what makes the properties of this code hard, so each of these invariants says, of
every request in progress, what it has read and may still rely on; a property that
names only tables is never inductive by itself.

### `AttributionProofs`

* `TypeCorrect`: `TypeOK` is inductive by itself.
* `UneSeuleAttribution` and `UneSeuleMissionEnCours`: a Demande is MATCHED exactly
  when a Mission was born of it, its Missions are one provider's and one at most is
  not cancelled; a provider has one in progress at most. Neither
  `AttribueeParUneMission` nor `UneMissionALaFois` needs the other, and both need
  `TypeOK`. Their conjunction is the inductive invariant of the module
  (`Unicite`). `Attribuer` and `Reprendre` are the interesting steps: the guard on
  the statut, or the provider of the cancelled Mission, gives the one provider; the
  partial index of `V28` on living Missions, and that on occupied providers, give
  the uniqueness.
* `AttributionImplementeAffectation`: every step is a step of `Affectation` or
  leaves its four variables alone (`PasAbstrait`, one case per step), by the
  invariant above. A resumption is the step `Reprendre` of the abstract
  specification: the same provider carries the Demande again.
* `EtatsFinauxToujours`: MATCHED and CANCELLED are final. No run checks it, for it is
  what `ImplementeAffectation`, which a run checks, says of the columns: an
  abstract Demande that was attributed or closed never changes.
* `ReponsesTenuesToujours`: an acceptance and a cancellation that succeeded leave
  the Demande as they said; a cancellation refused on its write and a widening
  refused for good leave it MATCHED or CANCELLED, without its being certain which
  (§4). Each holds when it is given (`ReponseNouvelle`, by the guard
  of the `UPDATE` that it reports) and stays so because both statuts are final. The
  refusal of an acceptance is not part of it: a Demande that a sweep has written
  NO_MATCH may be broadcast again, and that refusal is false then.
* `RelancesCompteesToujours`: the count of successful widenings is the column only
  if a Demande that was never submitted has none (`Compte`); the compare-and-swap
  of `relancer` on the counter does the rest.
* `SansReponseJustifieToujours`: an action property, from `TypeOK`, by the form of
  the three steps that write NO_MATCH.

`Next` groups steps by route; the lemma `EtapesDesRoutes` takes it apart into the
first step of a handler (`Demander`) and a later one (`Poursuivre`), which is the
form the proofs split on. `AccesProofs` and `InterventionProofs` do the same.

### `AccesProofs`

The invariant `Inv` adds four parts to the properties:

* `Rangs`: links and families were drawn, so that the next rank is new. Without it a
  rotation could put a second living link in another family.
* `Visees`: the purge that selected rows, and the request about to set the date of
  an erasure, aim at accounts that have not moved to a state the write would
  damage. `VerifieJamaisPurge` needs the first half: the rows of the `DELETE` may
  be older than its lock.
* `Coupures`: what a cut still has to cut is either among the links its `UPDATE` has
  selected or was drawn after the cut was asked for. This is exactly the rotation
  that `CoupureTenue` leaves out (finding 5): the invariant would be false without
  its second half.
* `Consignes`: an erasure still to be recorded was done, was never recorded, and is
  in the list of one instance of `klaar-effacer` only.

`EffacementToujoursFinal` and `VerifieJamaisPurge` are action properties that follow
from `TypeOK` and `Visees`.

### `InterventionProofs`

`EtatFonde` says what each request has read: a rank it answers exists, the ceiling
it met is met, the amount it will give back is one the requester agreed to or
nothing (it is nothing when it should not be in finding 4, and when a later devis
hides the agreement), the devis it releases
is accepted, the provider it suspends has withdrawn often enough. All are stable,
because an accepted devis is never changed, rows of `devis` and `annulation_mission`
are only added, and a count of withdrawals only grows. `BalayageFonde` says the same
of the lot of the validation sweep. `AnnulationsUniques` and `LiberationsUniques`
tie the rows to the statut of the Mission, which gives `ArgentUneFois`: CANCELLED
and VALIDATED are exclusive. `OffreToujoursProtegee` rests on the verdict of a
request about to cancel for want of a devis: that the ceiling is reached and no
offer waits was true when it was found, and stays so because the ceiling leaves room
for no new offer (`PlafondReste`). `UnSeulVivant` is the form, without a
cardinality, of what `TypeOK` says of the offers that wait; `TypeOK` also says that
`dernier` names a row that exists, which everything that reads the last devis needs.

`CoursToujoursSuivi` and `ChaqueMissionSuitLeCours` are the refinement of
`CoursMission`. `EffetsMission` already says what any step does to the three tables
that tell the story of a Mission; `PasSuivi` shows each of these effects to be, for
every Mission, one step of the course or none. The compare-and-swap of `Bascule`
gives the statut; `AnnulationsUniques` gives the author: a Mission that is
cancelled had no row before, and has one row after, so that "the author of its
row" means something.

### `TarifProofs`

`ComptesToujoursJustes`, for every amount, rate and delay. The rows are only as
good as the way they were computed, so the inductive invariant (`TarifInv`) says
that a devis was emitted by `DevisEmis` from a proposal that was not refused, a
release was shared by `Repartir` from an accepted devis, and that no answer so far
was the refusal of a `CHECK`. Two lemmas bound the truncations
(`AppliquerTronque`, `CommissionBornee`), two show that what is computed satisfies
the `CHECK`s of `V19` and `V22` (`DevisAdmis`, `PartageAdmis`).

### `PlateformeProofs`, on `OpsProofs` and `ServicesProofs`

The parts of `Plateforme` are proved one by one, then composed. `OpsProofs`
treats those that the console's accounts share, `ServicesProofs` the others; each
gives a lemma for `Init` and one for a step of the part.

* **Console** (`ConsoleInv`). `CodeUneFois` compares sessions; the race is between a
  request that has consumed a step and the insertion of its session.
  `PasConsommes` says that a consumed step is not ahead of `dernierPas` and is held
  once, by one request or by one session. `Tracee` follows an act from the right
  that was checked to the journal: a read that answers has its line there. The
  proof found the model wrong: a behaviour that begins with an open session had
  `dernierPas` at 0, as if its code had not been consumed, and the same code could
  have opened a second one. `SessionOuverteInit` now starts as `ouvrir_session`
  leaves the row.
* **KYC** (`KycInv`). `DossierTenu`: one review waits at most, one is closed at most,
  a review that waits is a refusal, and the statut of the record says which was
  closed. `Instruite`: an examiner has his line in the journal before he examines,
  the review about to be closed has two different people, and an answer
  `REVIEW_RECORDED` agrees with the record. `RefusADeux` speaks of closed reviews and
  of answers; it is inductive only with what the waiting ones and the requests
  between their read and their write hold.
* **Catalogue** (`CatalogueInv`). `SecteurFonde`: the author and the publisher differ,
  and both have their act in the journal; `Proposee` carries the same for the
  request whose `UPDATE` is still to come. The authors are never rewritten
  (`AuteursGardes`), so the answer to a publication stays true.
* **Submission** (`SoumissionInv`). The bound of `DemandesTenues` counts rows. It
  holds because every request that has passed the read is counted with the rows:
  rows plus requests about to insert never exceed the quota plus the *other*
  requests (`QuotaBorne`), and likewise for duplicates in one place
  (`DoublonBorne`). `Suivie` and `FileTenue` say what a request sent from the
  offline queue knows of its entry: an answer that removes it is of a request that
  was dealt with.
* **Webhook** (`WebhookInv`). A verdict "superseded" that was read stays true until it
  is written, for what was applied stays applied (`Livree`), and an effect is
  counted with the row that says APPLIED (`TableTenue`).
* **Live feed** (`DirectInv`). For any depth of the bus, any number of changes and
  sockets. The notices in flight are in the order of the changes and miss none of
  those that follow the first (`AvisSuivis`); those an uncut socket holds are
  continued by those in flight (`AttenteSuivie`); so every version since the
  subscription was told, is in the socket's queue, or is in flight (`SansTrou`),
  unless the socket knows that it was left behind.
* **Payment** (`PaiementInv`): nothing is captured before the capture nor after a
  failure, and among the cards that exist one is the default.
* **Limiter** (`PorteInv`). The marks of an address are finitely many and at most its
  threshold (`DepuisGardees`: filtering only loses some). A refusal announces a wait
  of a second at least and of the window at most (`AttenteBornee`), which rests on the
  existence of an oldest mark: that a non-empty set of marks has one comes from
  the least element of a set of naturals (`PlusPetit`, by the well-foundedness of
  `<`), without any induction on data.
* **Composition** (`PlateformeInv`): the invariant of the part that runs, and the
  initial state of the tables of the others. From it come `CodeToujoursUneFois`,
  `RefusToujoursADeux`, `DemandesToujoursTenues`, `EvenementToujoursUneFois`,
  `FluxToujoursSansTrou`, `SecteurToujoursTenu`, `ComptesRestentJustes`,
  `FondsToujoursConserves` and `TypesToujoursTenus`.

### `SuitesMissionProofs`

Each follow-up has its inductive invariant over the Mission of `CoursMission`, whose
end is final while its clocks go on (`MissionSuit`): this is what a handler that read
the Mission before its last `await` may still say of it.

* **Rescheduling** (`ReprogrammationInv`). A request about to insert a proposal read a
  Mission cancelled by its provider after an agreed devis, and `MissionSuit` keeps
  that true (`RepriseSuivie`); the number of Missions created is the statut of the
  one row of the proposal, so that any number of acceptances creates one.
* **Tracking** (`SuiviInv`): the positions kept are among those that were written.
* **Conversation** (`ConversationInv`). The limit is read before the `INSERT`. As in
  `Soumission`, rows plus requests that have found room never exceed the limit plus
  the *other* requests (`PlaceBornee`), an argument on cardinals.
* **Ratings** (`NotationInv`). A party that has seen the other's note has seen it late:
  both notes are given, or the window is closed (`VueTardive`). `NoteSuivie` carries
  the day each request took from its clock, which is never ahead of the stored one,
  through its three reads.
* **Disputes** (`LitigeInv`). `DossierSuivi` says what a mediator's request holds between
  its read and its write: the account whose right was checked, a dispute that
  existed, amounts computed from an agreed total (`RemboursementBorne`, `Partage`),
  which stays agreed whichever devis are accepted meanwhile (`HabiliteReste`).
  `DecisionFondee` ties the decided row to the line of the journal and to the role.
* **Composition** (`SuitesInv`): the invariant of the Mission, that of the follow-up
  that runs, the initial tables of the others. From it come `TypesToujoursTenus`,
  `RepriseToujoursFondee`, `ConversationToujoursBornee`, `NotesToujoursAveugles`
  and `DecisionToujoursAnnoncee`.

### Only model-checked

Liveness and everything under fairness are out of reach of the prover, like
`ENABLED`: `DiffusionPrendFin`, `DevisPrendFin`, `AccordHonore`,
`EffacementPrendFin`, `CompteSeRouvre` and `TracesPurgees`.

## 6. Plan

1. *(done)* `Affectation`, `Attribution`, `Intervention`, `Acces`, their runs, and
   the proofs of the attribution.
2. *(done)* What follows a Mission (`SuitesMission`), what surrounds it
   (`Plateforme`), and the proof of `Tarif`.
3. *(done)* The safety of `Attribution`, `Acces`, `Intervention` and `Plateforme`
   proved.
4. *(done)* `SuitesMissionProofs`, the limiter, and `Intervention` shown to implement
   `CoursMission`.
5. Abstract promises still to be stated and refined: a journalled act (authorised,
   written, done) that the console, the reviews, the catalogue and the mediation
   implement; a call of the offline queue applied in order or given up.

## 7. Not modelled

Cryptography (argon2, the digits of a TOTP code, JWT, HMAC of the webhook, push
encryption), floating point (scores, distances, bias statistics), the words of
texts and their locales, HTTP mapping, telemetry, the composition of e-mails and
notifications, read-only views (dashboard, exports, consultation), evidence
(`preuve.rs`) and the itsme adapter, which no route reaches, and the DDL other than
the constraints handlers rely on. `PROJECT.json` gives the reason for each
component.
