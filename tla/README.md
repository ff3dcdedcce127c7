# Prometis: a TLA+ development

Prometis runs real-estate promotions: it sells lots, calls funds from buyers as
the building goes up, pays the companies that build, and runs tenders and
contracts. It is a NestJS API (`src/apps/api`) over PostgreSQL, with a Next.js
front end (`src/apps/web`). This directory holds TLA+ models of the API's own
logic, their model-checking configurations, and proofs.

## 1. Inventory

Every handler runs in one or several transactions opened by
`TenantPrismaService.runInTenant` (Prisma interactive transactions, READ
COMMITTED, no `FOR UPDATE` anywhere). A handler reads rows, decides, then
writes. Between the read and the write any other request may commit. What the
database itself protects is only: unique keys, foreign keys, and the row an
`UPDATE` holds until its commit. Most of what is hard here follows from that
sentence.

| Component (`apps/api/src/...`) | State | Operations | What makes it correct |
|---|---|---|---|
| `ventes` | lots, reservations, payment schedule (étapes) | create and change a reservation, create and change a step | one active reservation per lot; the lot follows it; price and percentage frozen once a call derives from them |
| `appels-de-fonds` | calls, receipts, letters | trigger a step, catch up a reservation, receipt, reminder | one call per reservation and step; committed before announced; announced once; status agrees with receipts |
| `factures` | invoices, controls, reports, payments, reading queue | read, analyse, edit, validate, dispute, pay | the machine never overwrites a person; paid means covered; validated total within the contract; the amount to pay follows the invoice |
| `factures/emails-entrants` | messages of the mailbox, quarantine | search, release, reject, pour pieces in | no invoice comes from a message nobody answers for |
| `paiements` | payment orders, pain.001 identifiers | compose, visa, cancel, download | an invoice is in one living order; a file has one identifier for ever; nothing leaves without a visa; what left cannot be cancelled |
| `passerelle` | journal of webhooks, links to Kolabimo | receive, process, replay, link, synchronise | each delivery applied once; the mirror follows its master; no debt cancelled silently |
| `passerelle/connexion-kolabimo` | key, secret and token of a company | try, store, cut, show a secret | a key in use was tried; a secret that was shown was in force |
| `soumissions` | tenders, invitations, bids | invite, send, remind, deposit, decline, open, score | bids sealed until the deadline; one deposit; a company is shown its own file only |
| `soumissions/espace-entreprise` | links, e-mailed codes, sessions | ask a code, try it, enter | a code stands a bounded number of tries |
| `contrats` | awards, contracts, amendments | award, withdraw, contract | award, bid and tender change together; no withdrawal under a contract |
| `facturation`, `modules` | subscription, rights | start, end, resume, Stripe events | rights follow Stripe; a warning leaves once |
| `acces` | members, invitations, director of works | invite, accept, revoke, change a role | an owner remains; an invitation is used once |
| `auth` | sessions, second factor, counters of failures | enrol, verify, backup codes | a backup code is used once; failures are bounded in a window |
| `auth/guards.ts`, decorators | the routes, the token, the rights | the four guards | who only reads changes nothing; a module that is left stays read |
| `prisma/tenant-prisma.service.ts`, policies | connections and their setting | runInTenant, runResolution | a transaction sees the rows of its company and no other |
| `budget` | versions, lines, posts | current version, copy, edit, view | one current version; a view that adds up |
| `ged` | documents, versions, files | deposit, link, remove | version numbers unique and ordered; no row without its file |
| `courtage` | mandates, commissions | create, close, state commissions | exclusivity; a sale is commissioned once |
| `operations` | an operation and all it owns | create, remove | it goes whole, and not with accounting pieces |
| `foncier`, `acteurs` | parcels, lots, parking places, actors | edit, deposit, attach | signed and reserved prices stay; one general contractor |
| `seances` | meetings, points | create, order, follow up, minutes | ranks of their own; the places that say what is to be done agree |
| `passeport` | equipments, deadlines | type, propose, validate, reject | nothing a person has not put there; nothing lost |
| `reglements` | communes, regulations, zones | deposit, read, validate | one text and one reading each; a zone applies once validated |
| `tresorerie` | none (read only) | the plan of receipts and payments | it adds up |
| `passe-quotidienne` | trace of each night | two tasks over what is due | a trace without an error left nothing due |
| IA, search, storage, mail, configuration, audit | rows without a life of their own, or I/O | | not modelled |
| `apps/web` | none that the API does not check again | | not modelled, but for `lib/foncier.ts` |

How they interact: `passerelle` writes reservations and steps and calls the
engine of `appels-de-fonds`; `paiements` reads and pays the rows of `factures`;
`factures` validates against `contrats`; `contrats` is born from `soumissions`;
`modules` opens every other component through the guards. They share the
database and nothing else: there is no message bus inside the process, and a
nightly pass (`passe-quotidienne`) calls a few handlers on a timer.

The hard behaviours are listed line by line under `hazards` in `PROJECT.json`,
each with the property that would catch it going wrong.

## 2. Plan

Done, in order of importance to someone's money: calls for funds with their
abstract promise (`Creances`), payment orders, the gateway, tenders and
contracts, invoices and their reports, subscriptions and rights, then the
components that share a shape ("a rule across rows that is looked up before it
is written"), the guards, the isolation of companies, and the pure
calculations. Twenty components have proofs.

Left:

1. Models: the identity of buyers in the gateway, the e-mails that confirm a
   trial or a subscription at the end of `synchroniser`.
2. Theorems: `Operations` and `Droits`; the properties listed at the end of
   section 5, beside those a prover cannot reach: `RangNeuf`, `PrixSigne` and
   `SignatureDuMoment` need only a statement of what must be held back, and
   `EssaisBornes` of `SecondFacteur` needs facts about `SelectSeq` that the
   prover's library does not have.

Composition: `Passerelle` sees the engine as one step, `AppelsDeFonds` sees the
gateway as one caller (`AccueillirEtape`); `OrdresPaiement` sees a validation
as one step, which `LectureFactures` details; `Droits` extends `Routes`;
`Cloisonnement` and `Operations` extend `Tables`.

## 3. Modules

### How a handler is modelled

A request `q` of `Requetes` is a handler in progress. An action that reads
copies into `req[q]` what the code keeps in local variables (a record whose
`etat` says where it is), an action that writes uses the copy and the rows of
that moment, as the SQL does. `Finir(q)` is the commit. `Interrompre(q)` is
every way a handler ends without writing: a guard that refuses, a validation
error, a deadlock of the database, a timeout, an exception, a restart; its
transaction is rolled back and what earlier transactions committed stays.
Waiting for a row lock is not a state: the later writer simply writes later. Two
places where a lock decides what follows are modelled by a `Verrouillee` of
their own: the `UPDATE` of the step at the start of `declencherEtape`, and the
rows an adoption of `Budget` has set aside and not committed.

Mutated forms (`X_Suffixe`, commented "Mutant") stand before the definition
they spoil. They are not part of the specification: each is what a plausible
bug would be, and shows that a property reacts to it.

### Money

**`AppelsDeFonds`** (ventes.service.ts, appels-de-fonds.service.ts,
calculs.ts). `reservations`, `etapes`, `appels`, `lots` are the tables;
`lettres` the mails that left; `lie` whether the operation is linked to
Kolabimo. `LireCreation` / `CreerReservation`, `LireReservation` /
`ModifierReservation`, `LireEtape` / `ModifierEtape`, `ChangerAvancement` are
VentesService. `LireDeclenchement`, `Verrouiller`, `ValiderDeclenchement` are
declencherEtape; `LireRattrapage`, `ValiderRattrapage` are rattraper;
`ConflitUnicite` is P2002. `EnvoyerLettre` to `FinEnvoi` are envoyerAppels,
after the commit. `LireEncaissement` to `MarquerRelance` are receipts and
reminders. Left out: the persons of a reservation (its price is given or
computed in one step), the deletion and reordering of steps. The gateway's own
writes are in `Passerelle`.

**`Creances`** is what a buyer is promised: one debt per reservation and step,
of an amount that never moves, never withdrawn, announced at most once and only
when it exists. `ImplementeCreances` says that AppelsDeFonds implements it,
receipts and letters included.

**`OrdresPaiement`** (ordres-paiement.service.ts, factures.service.ts).
`factures`, `ordres` are the tables, `saisi` and `vire` the payments entered by
hand and those a file recorded, `fichiers` what the bank was given.
`LireFactures`, `LireNumero`, `CreerOrdre`, `ConflitNumero` are creer;
`LireVisa`, `Viser`; `LireAnnulation`, `Annuler`; `LireFichier`,
`Retelecharger`, `PreparerVirements`, `Transmettre` are fichier. `Modifier`,
`Analyser`, `Valider`, `ChangerStatut`, `EnregistrerPaiement` are
FacturesService, `ViserDirectionTravaux` the word of the site management (only
the latest is read, so one `visa` per invoice). Left out: credit notes,
`EN_LECTURE`; a refused validation is `Interrompre`. The retention is one
constant; the amount the report proposes is in `Rapports`.

**`Passerelle`** (passerelle.service.ts, synchronisation-kolabimo.service.ts,
reconciliation.ts). `emis` is what Kolabimo emitted, in order: its state is the
last event of each subject (external, modelled from what the code reads).
`journal` is `webhook_events`, one entry per event since the key is unique.
`Recevoir`, `Conclure`, `Rejouer` are the ways in and out; a duplicate changes
nothing and is no action. `LireDossier` / `CreerDossier` / `ConflitExterne` /
`Bloquer` / `MettreAJour` are appliquerReservation with planifierMiseAJour, for
a webhook and, from `LireTire`, for a pull. `LireJalon` / `Declencher` /
`JalonSansSuite` are appliquerEtapeCompletee. `Rattacher`, `Synchroniser`,
`TirerEcheancier`, `TirerReservations`, `AppliquerCatalogue` are the pull. Left
out: the identity of buyers, the outbox, ranks and percentages of steps, a
second operation on the same promotion. The check of a signature is in
`ConnexionKolabimo`, the price `lot.updated` writes in `Foncier`.

**`LectureFactures`** (lecture-factures, emails-entrants, factures services): a
piece is dropped on the screen or arrives in a message; a background task reads
it; it may fail, and a restart empties the queue; the director of works
endorses, the developer validates against the contract, the status changes, it
is paid. An invoice has an amount before tax, one with tax and a rate, each of
which may be missing; `Valeur` is `valeurDansBase`, `Ajoute` and `Montant` the
two ways the code does without it (the amount before tax when the invoice is
validated, nothing once it is). `Decider` has the mailbox open to unknown
senders, and `EchouerLecture` the failure of the control that ends a reading.
`RelectureValidee` runs it without mail (`AucunePiece`). **`Rapports`**: the
report with the amount to pay, stored beside the columns by a transaction of its
own, and everyone who must have it written again.

**`Facturation`** (facturation.service.ts): Stripe is external (its
subscriptions, checkout sessions, events still to deliver); checkout, addition,
removal and recovery of a module, each event and each explicit synchronisation,
the warning at the end of a trial. Time is counted in billing periods.
`PeriodePayee` and `ModuleEchu` run it under `SpecAbonne`, which leaves aside the
operator's hand and the announcement of trials.

### Tenders

**`Soumissions`** (soumissions, consultation, espace-entreprise, contrats
services). `soumission` is the tender, `invitations`, `offres` (bids),
`adjudication` (the award in force) and `contrats` its rows, `jour` the
calendar. `Inviter`, `Revoquer`; `LireEnvoi` /
`EnvoyerUne` / `FinEnvoi` and `LireRelance` / `Relancer`; the company's side
`LireSession` / `LireDepot` / `DeposerOffre` and `Decliner`; the developer's
`LireSaisie` / `SaisirOffre`, `LireLignes` / `FixerLignes`, `LireModification` /
`Modifier`; `LireAdjudication` / `Adjuger`, `LireAnnulation` / `Annuler`,
`LireContrat` / `CreerContrat` and the amendments; `Avancer` is time. One
module, because an award is read from the bids.

**`EspaceEntreprise`**: the link, the code asked and sent by e-mail, the tries
(compared, then counted in a transaction of their own), the session, the link
sent again or withdrawn. **`Consultations`** (pure): what each party is shown of
a tender and of its pieces.

### Access

**`Membres`** (acces, invitations services): invitations made, sent again,
revoked, resolved, accepted; roles and activity; the director of works.
**`SecondFacteur`** (mfa.service.ts, limiteur.ts): enrolment, activation, codes,
removal, the counters of failures and their loss at a restart. **`Routes`** is
the decorators of every route; **`Droits`** the four guards that read them, over
the rows they look at, with a token that keeps the role of the day it was
issued. **`Cloisonnement`** (tenant-prisma.service.ts and the policies of
`prisma/migrations`): connections that requests of every company take turns to
use, the setting they carry, the rows a transaction then sees; **`Tables`** is
the chain of each table to its company. **`ConnexionKolabimo`**: key tried and
stored, secrets and their tolerance.

### The rest of an operation

**`Budget`** (an adoption is its two statements, `EcarterAutres` then
`ModifierVersion`), **`Ged`**, **`Courtage`**, **`Operations`** (removal against every
foreign key), **`Foncier`** (land, lots, parking places, actors), **`Seances`**,
**`Passeport`**, **`Reglements`**: one module per service, its state the tables
it writes. **`Passe`** (passe-quotidienne.ts): two tasks, each a loop
over what is due, one message and one mark per transaction, and the trace;
nothing keeps two passes from running at once.

### Calculations

`Montants`, `Controles`, `References`, `Lectures`, `Consultations`, `Bilans`,
`Echeances`, `Envois` translate pure functions (rounding and shares, controls of
an invoice, QR and IBAN keys, the reading of a slip or a text, tenders,
balances and treasury, deadlines, what a letter says). `MCCalculs` checks them
against reference definitions over bounded inputs.

`MCServices` puts the components that have no run of their own into one state
machine: the variable `regime`, fixed in the initial state, says which one
moves, and `Figees` freezes the others. It is a way to run many small instances
in one pass of the checker, not a composition.

## 4. Runs

| Run | Instance | Question |
|---|---|---|
| `AppelsConcurrents` | 1 reservation, 1 step, 2 requests, receipts of 25 up to 50 = the amount of the call | every handler against every other: types, one call per couple, paid is covered, letters backed and sent once, refinement of `Creances` |
| `AppelsSequentiels` | 1 reservation, 2 steps, 2 prices, option and reservation, receipts of 40 up to 80, 1 request | long sequences of legal calls: the price a call was issued on, status of receipts and reminders, calls on engaged reservations only |
| `OrdresConcurrents` | 1 invoice, 2 orders, 2 requests | nothing leaves without a visa |
| `OrdresSequentiels` | 2 invoices of 100, 2 orders, payments of 60 or 100 up to 100 in all, a site management, 1 request | one living order, one identifier, one payment by file, transmitted for good, paid means covered, no payment on what is rejected, nor on what is disputed but by the site management, nothing overwritten |
| `PasserelleConcurrente` | 1 reservation with an externalId, 2 events, both contracts, 2 requests, crashes | one processing per event, one row per externalId, applied means present, no deed unsigned |
| `PasserelleOrdonnee` | 1 reservation, 1 step, 3 events in order, failures, 1 request, no crash | one row, price and cancellation against calls, faithful mirror, everything concluded |
| `Passe` | 1 trial, 1 reminder, an address that is refused, 1 stop, 2 passes | a trace without an error left nothing due; what can be reminded is, in the end |
| `Services` | one small instance per regime, below | the other components |
| `RejeuKolabimo` | violation, 1 request | an applied event turns to an error when replayed |
| `RelectureValidee` | violation, 1 piece, 1 request | a validated invoice is read again |
| `PeriodePayee` | violation, 2 modules, 2 requests | a module that is paid is closed |
| `ModuleEchu` | violation, 1 request | a module whose period is over still writes |

Regimes of `Services` (requests in flight between brackets, one when nothing is
said), and what each asks of its component:

| Regime | Property | Question |
|---|---|---|
| `plis` | `OuvertureAHeure`, `DecisionFidele` | every handler of a tender with one company: a sealed bid opens when its day has come |
| `decisions`, `contrats` (2) | `DecisionFidele`, `ContratSuitDecision` | two companies, two awards: award, bid, tender and contract agree |
| `courriel` (2) | `QuarantaineRetenue`, `IInv` | two pieces of one message: nothing comes from a message nobody answers for |
| `visee`, `cumul` | `FactureJustifiee`, and in `visee` `SInv` | what is billed was endorsed, and ordered (in `cumul`, a contract with tax and invoices that give it or not) |
| `rapports` | `MontantSuivi`, `SInv` | the stored amount to pay is that of the columns |
| `abonnee`, `essai` (2) | `AligneSurStripe`, `AvertiUneFois`, `SInv` or `IInv` | the server ends up where Stripe is; a trial is announced once |
| `adhesions`, `proprietaires`, `entrees` (2) | `Administrable`, `UnSeulLien`, `EntreeParInvitation`, `SInv` or `IInv` | an owner remains, a link works, an invitation lets in once |
| `facteur`, `essais` | `CodeUneFois`, `FacteurProuve`, `EssaisBornes`, and in `facteur` `SInv` | backup codes, proved secrets, windows of failures |
| `droits` | `LectureSeule`, `VoletTenu`, `ProfilTenu`, `DonneesGardees` | every route of the API against one account |
| `cloisons` (2) | `VoitLesSiennes`, `RefusParDefaut`, `Etanche`, `IInv` | two requests on one connection |
| `cles`, `secrets` (2) | `CleEprouvee`, `SecretMontreVaut`, `SignatureDuMoment`, `SInv` or `IInv` | keys and webhook secrets |
| `codes` (2) | `EssaisBornes` | a code against tries made at once |
| `adoptions` (2), `copies`, `fil` | `AdoptionsExclusives` and `IInv` in `adoptions`, `UneSeuleCourante`, `CouranteGardee` and `SInv` in `copies`, `FilRouge` | current version, copies, the consolidated view |
| `mandats`, `ventes` | `ExclusiviteTenue`, `CommissionUnique`, `SInv` | brokerage |
| `chaines`, `fichiers` (2) | `ChaineSuivie`, `PvSansSecond`, `FichePresente`, `SInv` or `IInv` | versions of a document, rows and files |
| `dossier` | `Effacable`, `PiecesGardees` | an operation removed while rows are written |
| `lus`, `zones` (2) | `CommuneUnique`, `TexteDuFichier`, `UneLecture`, `ZoneValidee`, `SInv` or `IInv` | regulations |
| `catalogue`, `valeurs`, `terrain` (2), `annuaire` | `PrixSigne`, `AssietteGardee`, `PiecePresente`, `MandataireUnique`, `SInv` in `annuaire`, `IInv` in `valeurs` and `terrain` | lots, prices, parcels, actors |
| `passeport`, `propositions` (2) | `PasDePerte`, `RienDInvente`, `SInv` or `IInv` | equipments |
| `reunions`, `actions` | `RangNeuf`, `TenueDatee`, `PosteDeLOperation`, `SuiviAccorde`, `SInv` | meetings |
| `calculs` | `MontantsExacts`, `FacturesExactes`, `DossiersExacts` | the pure modules against their reference definitions |

The properties a run lists (`FacturesJustifiees`, `AccesSains`...) gather those
of the regimes by theme; each conjunct names the instance it is about. Where
`IInv` or `SInv` stands, the run also checks the inductive invariant of section 5.

Why these bounds. The races are between two handlers: two slots. A third would
only repeat what one of the two does, since handlers share nothing but rows. A
rule about "another one" (another order, another company) needs two of the
thing; everything else is per row and one is enough. Amounts are chosen so that
one receipt or payment is not enough and two are, and so that rounding matters.
Three events are the shortest sequence that creates, changes and cancels.
`PlafondRecu`, `PlafondSaisi`, `MaxOrdres`, `MaxEmissions`, `MaxOffres`,
`MaxDecisions`, `Horizon` and the other `Max...` cap what would grow for ever.
Where a component has a theorem, the bounds no longer matter for what it states.

A sequential run (one slot) and a concurrent one ask different questions: many
rules are kept by each handler on what it has read, and broken when two
overlap. The sequential runs show the former; the violations and section 6
show the latter.

Fairness. Safety is checked without any. `ToutConclu` needs that a request taken
runs to its end: `Equite` of `Passerelle` is weak fairness of the server's own
steps, under `SpecSansArret`, where the process does not stop. Node runs its
promises, and every transaction has a timeout that ends it one way or the other.
`traiter` catches what fails in a handling (`Echouer`), but `conclure` runs
outside its `try` (passerelle.service.ts:176): that its statement does not fail
is assumed as well, its failure being an `Interrompre`. Users, Kolabimo and
replays have no fairness. With a crash, or a conclusion that fails, the property
does not hold: an event that stays RECU is acknowledged as a duplicate when it
comes again, and waits for a replay. `RelancesParties` of `Passe` assumes that
the cron opens passes, that a pass under way goes on or fails (weak fairness),
and that a task which is reached again and again ends up reading what is due and
a message which is tried again and again ends up leaving (strong fairness), but
for the addresses in `Refusees`, of which nothing is assumed; the process stops
at most `MaxArrets` times.

`PasserelleOrdonnee` delivers in order (`EnOrdre`) and only replays the last
event of a subject: the code has no notion of the age of an event, and an older
one that arrives or is replayed later writes over a newer one.

Deadlock is checked, except in `Services`, `ModuleEchu` and `PeriodePayee`: the
regime of the calculations has no step, and there time and counters stop at
their bound.

## 5. Proofs

Twenty components are checked by TLAPS, for any number of requests, rows and
amounts. A proof module EXTENDS one component; `AccesProofs`, `DossiersProofs`
and `LectureFacturesProofs` take others beside it as instances:

| Module | Components |
|---|---|
| `AppelsDeFondsProofs`, `OrdresPaiementProofs`, `PasserelleProofs`, `SoumissionsProofs`, `CloisonnementProofs` | the one they are named after |
| `LectureFacturesProofs` | `LectureFactures`, `Rapports` (`Ra`) |
| `AccesProofs` | `EspaceEntreprise`, `Membres` (`Mb`), `SecondFacteur` (`Fa`), `ConnexionKolabimo` (`Ko`), `Facturation` (`Fc`) |
| `DossiersProofs` | `Passe`, `Courtage` (`Co`), `Ged` (`Ge`), `Passeport` (`Pa`), `Reglements` (`Rg`), `Budget` (`Bu`), `Foncier` (`Fo`), `Seances` (`Se`) |

The components of a module share the names of some constants (`Requetes`, `NUL`),
never an assumption on them: each theorem names what it needs. The instances are
over variables of their own and nothing relates them.

`AppelsDeFondsProofs`, `OrdresPaiementProofs`, `PasserelleProofs` and the part on
`Passe` rest on the named assumptions on the constants of the module they are
about (`DomainesAssumption`, `StatutsAssumption`...). The others take `Domaines`
as a hypothesis of their theorems, since those modules are instantiated, several
of them more than once, and an assumption would not travel; `MCServices` assumes
it of each instance. TLC evaluates them all.

Many of the rules hold one request at a time and not otherwise. Their theorems
carry the assumption `UneALaFois` (`\A p, q \in Requetes : p = q`): what they
say is that each handler keeps the rule whatever the sequence of calls, for any
data. Each has two parts, an invariant that holds under any concurrency and a
stronger one, which adds that what the request has read is still what it would
read.

**AppelsDeFonds.** `IInv` strengthens the properties by what open requests hold:
a transaction about to insert has one line per couple (`LignesParCouple`), a
receipt in progress knows at most what was received (`RecuConnu`), the letters
still to send are those of committed calls, of this request, and have not left
(`CourriersAdosses`). The last is what makes `LettreUneFois` true: keys drawn by
two requests differ. From `IInv`, under any concurrency: `TypeOK`,
`UniciteAppel`, `PayeEstSolde`, `LettreAdossee`, `LettreUneFois`, and
`Raffinement`: every step maps to a step of `Creances` or a stutter. One request
at a time, `SInv` adds that a row not inserted yet has no price and no
percentage (`RangsVierges`), that the price and percentage a request computes
from are those of the rows (`AssietteLue`), that the lines it is about to insert
are on engaged reservations and at today's amounts (`LignesAJour`), and that a
receipt knows exactly what was received (`RecuLu`). From `SInv`: `AssietteFigee`
(no handler moves the price under a call), `StatutSelonRecu` (the status says
what the receipts and the due date say) and `AppelSurEngagee`.

**OrdresPaiement.** `IInv` (types, visa) holds under any concurrency, whence
`SortieVisee`. One request at a time, `SInv` adds that what the request has read
is still what the rows hold (`LectureFraiche`) and that files and payments by
file belong to transmitted orders (`FichiersTransmis`): one living order per
invoice, one identifier per order, one payment by file, transmitted for good,
paid means covered, nothing overwritten by the machine, and no payment on an
invoice that is rejected, or disputed otherwise than by the site management
(`PaiementsSansOrphelin`).

**Passerelle.** `IInv` strengthens the properties by what each request in flight
knows (`Suivi`): the event it works on has been received, the row it has found
is of the reservation it treats, and a conclusion of "applied" has its row. Its
argument is that a few facts are never taken back by any step (`Stable`: the
events, a delivery, the reservation and the externalId of a row, a signed
deed), so that what one request knows survives every step of another
(`SuiviStable`), and each step only has to say what its own request knows
afterwards (`Pas`). From `IInv`, under any concurrency: `TypeOK`,
`TraitementUnique`, `ExterneUnique`, `TraiteAdosse`, `ActeDefinitif`, and
`UneLigneParDossier` when every reservation has an externalId
(`Externes = Dossiers`). Without that assumption the last one is false under
concurrency; it is proved one request at a time, with `AssietteTenue` and
`AnnulationSansAppel`, from `SInv`, which adds that what the request has read
is still what it would read (`Fraiche`). `MiroirFidele` (nothing in progress, an
applied event that no later one contradicts is what Prometis shows) needs
deliveries in order as well: `MiroirInv` says that events are received in the
order of their subject (`RecusDansLOrdre`), that an applied event which no later
one contradicts agrees with the row (`AppliquesFideles`, without asking that
nothing be in progress), and that a request at work carries the last event
received of its subject or something pulled since (`Averti`).

**Soumissions.** Under any concurrency, `IInv` says of each request that the
company, the bid and the award it will write on are there (`Sain`, a predicate
on what the request has read, which is stable because no row is deleted), and
that the award in force is the last pronounced and on a bid that is there
(`DerniereDecision`). From it, `ContratSuitDecision`: two requests at once do not
attach to an award a contract for another company or amount, nor two contracts;
what the proof uses is that the write finds its award still there and without a
contract, as the foreign key and the unique key ensure. One request at a time,
`SInv` adds that what was read is still so (`Actuel`: no award under what is
being edited, no other bid for the company, the amount is what the bid comes
to), whence `DecisionFidele` (while an award stands its bid alone is retained,
at its amount, the tender is awarded, and no company is compared twice) and
`PliOuvertAHeure`: a sealed bid opens because its day has come.

**EspaceEntreprise.** A try is compared in one transaction and counted in
another, so the limit read by the check is late. `IInv` counts the tries in
flight already (`EnVolComptes`): answers given and answers under way on a code
never exceed the limit by more than the requests but one, and a code in force
has had no more answers than are counted and has served nobody
(`CodeEnVigueur`). From it, for any finite set
of requests, `EssaisBornes`: a code stands `CODE_ESSAIS_MAX` tries and one more
for each request but one, and opens no more sessions than there are requests.
The cardinality lemmas on the requests in flight come from
`FiniteSetTheorems`.

**Passe.** `Suivie` says of a pass that has met no error that what it found due
and did not send is still in what remains of its loop; from it `TraceFidele`,
for any number of passes at once, reminders and stops.

**Cloisonnement.** A policy follows the chain of a row up to a company, through
functions that call themselves on the parent. `Domaines` asks that every table
have a rank above that of the table it hangs from (`Etagees`), which TLC
evaluates on the schema as translated. `IInv` says that every row has its parent
in the table it should (`Rattachees`), that no identifier yet to come is in use
(`NumerosPris`), and that a connection is held by one open transaction, with the
company of that transaction as its only setting (`ConnexionsTenues`). The company
of a row and what a policy lets through are then related by taking, among the
rows that would part them, one of the lowest rank. For any companies, tables
followed, connections and requests: a transaction sees the rows of its company,
all of them and no other (`VueJuste`); a connection nobody holds shows nothing
(`SansSocieteRien`); no write and no cascade moves a row to another company or
touches one of another company (`AucunPassage`).

**LectureFactures.** Under any concurrency and with crashes, `IInv` says of each
request that the row and the message it works on are there (`Suivi`), that the
message a piece came by is accepted and answered for (`Retenu`, which no step
takes back), and that a piece still to be read for the first time has one
receiver (`PremiereLecture`): hence `QuarantaineRetenue`. One request at a time,
`SInv` adds that what was read, and what allowed to validate, is still so
(`Actuel`), that a validated invoice has an amount before tax and its
endorsement, that it counts for the value it was compared with or has been
completed since (`Comparee`), and that those which still count for that value and
which nobody forced stay within the order (`SansForcer`): hence
`FactureJustifiee`. An invoice compared without a value in the contract's base is
no part of it (section 6). The last part is stronger than the property, which
says nothing while a forced invoice is counted: that invoice may be rejected
later, and what remains must then be within the order. The sums are over finite
sets of invoices; what they need (adding one, dropping one, a smaller set, an
unchanged summand) is proved first, from a set of the fewest elements that would
fail.

**Rapports.** The report is written by a transaction of its own after the
columns. `SInv` says of every invoice that has been controlled that its stored
report agrees with the bulletin and the columns as they are (`Accord`), and of a
control under way that it has read them as they are: hence `MontantSuivi`, one
request at a time.

**Membres.** Under any concurrency, `IInv` says that an invitation taken up is
still there and that a member being changed is one (`Suivi`): no row of either
is erased. From it `EntreeUnique`: what makes one entry per invitation is the
conditional update of the commit, not what was read before. One request at a
time, `SInv` adds that an invitation being written replaces every one that
waits for its address, and that an owner about to be demoted leaves another
(`Actuel`): hence `Administrable` and `UnSeulLien`.

**SecondFacteur.** `SInv` says that the account a code is checked against is
still the account (`Actuel`), and that a backup code that is still kept, or not
drawn yet, has never opened anything (`CodesNeufs`): hence `CodeUneFois`. The
secret about to be put in force is one a right code was given for: hence
`FacteurProuve`. Both are one request at a time; with two they are false.

**ConnexionKolabimo.** Under any concurrency, `IInv` says that secrets and
tokens are drawn once, for one company, and that the one in force for a company
was drawn for it (`SecretsTires`); a secret on its way to the screen is among
them (`Suivi`): hence `SecretMontreVaut`. One request at a time, `SInv` adds that
the key about to be kept is that of a promoter of the name read, and that an
answer to a trial is about the key that is stored: hence `CleEprouvee`.

**Facturation.** Under any concurrency, `IInv` says that the row of the warning
belongs to the request that sends it, and that a letter left is a row written or
a transaction lost: hence `AvertiUneFois`. One handling at a time, with one
subscription, `SInv` says that when no event is left but the one being handled,
what is being written is what Stripe shows, and that the modules already treated
are aligned (`Actuel`); when none is left and none is handled, everything is
(`Alignee`). An event counts as handled only once its handling is over, so that a
failure leaves it to be delivered again: hence `AligneSurStripe`. The operator of
the platform may close or open a module at any time; the argument needs that a
module billed through Stripe is not a closed one (`Rattachees`).

**Courtage.** `SInv` adds to `ExclusiviteTenue` and `CommissionUnique` that a
mandate about to be put in force conflicts with none, and that a commission about
to be stated has none (`Actuel`), one request at a time.

**Ged.** Under any concurrency and with stops anywhere, `IInv` says that a file
between its deposit and its row, or between the removal of its row and its own,
is named by no row (`Suivi`), and that no two requests hold the same: hence
`FichePresente`. One request at a time, `SInv` adds that the number about to be
given is one more than the length of the chain, that its root is a root, and that
minutes about to make a document have none before them (`Actuel`): hence
`ChaineSuivie`, which counts the versions of a chain, and `PvSansSecond`.

**Passeport.** Under any concurrency, `IInv` says that the values kept from an
answer are passages of the document asked about: hence `RienDInvente`, since
what is validated was either typed or proposed with its quotation. One request at
a time, `SInv` adds that what is about to be validated or set aside is still a
proposal (`Actuel`): hence `PasDePerte`.

**Reglements.** Under any concurrency, `IInv` says that a zone has a key of its
own, that a zone marked as validated has the gesture of a person behind it, and
that a zone about to be removed is the one that was seen: hence `ZoneValidee`. One
request at a time, `SInv` adds that the text being read is that of the file the
row shows, that a reading replaces every zone there was, and that a commune
about to be created has no other spelling: hence `TexteDuFichier`, `UneLecture`
and `CommuneUnique`. With two requests the first two are false (section 6).

**Budget.** Adopting is two statements in one transaction: the first puts down the
flag of every other version there is and holds their rows, the second raises
that of the version. Under any concurrency, `AdoptionsExclusives`: a second
version becomes current only when an adoption ends beside one that was not there
when it set the others aside. One request at a time, `SInv` adds that an adoption
about to end has set aside every other version, and that a version whose flag is
about to fall, or which is about to go, is not the current one: hence
`UneSeuleCourante` and `CouranteGardee`. With two requests the first is false
(section 6).

**Foncier.** Under any concurrency, `IInv` says that a file just stored and not
yet pointed at is in the storage, which with `PiecePresente` is inductive, and
gives `AssietteGardee` on every step. One request at a time, `SInv` adds that a
general contractor about to be written has no other beside it: hence
`MandataireUnique`.

**Seances.** Under any concurrency, `IInv` says that every point, written or about
to be, hangs from a meeting that is there and from a post of the operation of
that meeting (`Rattache`): hence `PosteDeLOperation`. The three views of what
remains to be done are then compared as sets, and their counts by the
cardinality facts of `FiniteSetTheorems`: hence `SuiviAccorde`. One request at a
time, `SInv` adds that a meeting about to be held has its date, and gives
`TenueDatee`.

The theorems on the components that `Services` checks are about the component's
own specification, whatever its constants; the runs check the same definitions on
instances (the regimes of section 4). `AccesSains`, `FacturesJustifiees`,
`AbonnementTenu`, `DossiersSains` gather several components each, and are proved
in part only.
`PliOuvertAHeure` is `[][OuvertureAHeure]_vars`, the form `SoumissionsTenues`
checks in the regime `plis`.

Only model-checked: what `Services` asks of `Operations`, `Droits` and the pure
modules, and five properties of components that have theorems. `EssaisBornes` of
`SecondFacteur` (how many failures a window lets through): its counters are
filtered with `SelectSeq`, about which the library proves nothing. `FilRouge` of
`Budget`: the consolidated view is a recursive function on the tree of posts.
`PrixSigne` of `Foncier` and `RangNeuf` of `Seances`: they hold while sales and
the gateway, or the edition of a point, are held back, so that they would be
theorems about part of the specification only. `SignatureDuMoment` of
`ConnexionKolabimo`: every secret ever in force is tried against the check of a
signature. Liveness (`ToutConclu`,
`RelancesParties`) and `ENABLED` are beyond the prover. The induction theorems of
the library take an operator as a parameter and cannot be used either. Where data
has a rank or a cardinality, a least counterexample does instead (`WFMin`): the
chains of `Tables` and the sums of invoices are reached that way. What the other
recursive functions compute for every input (the pure modules, the view of
`Budget`) stays with TLC. No module uses `RECURSIVE`.

### Not modelled

Services around (machine reading, search, storage, mail, configuration, audit):
I/O whose answers are inputs of the modules that call them. The pages of
`apps/web` hold no state the API does not check again; only `lib/foncier.ts`,
which works out again figures the API prints, is translated (`Bilans`). Seeds,
the HTTP client of Kolabimo, the layout of PDF and XML, the parsing of e-mails,
hashing and tokens, sign-up and passwords, and in each module what its paragraph
above, or its note in `PROJECT.json`, leaves out.

## 6. Where the code and its comments part

Four disagreements are runs (`findings` in `PROJECT.json`): `RejeuKolabimo`,
`RelectureValidee`, `PeriodePayee`, `ModuleEchu`.

Others are as easily reached. Each formula below, added to the configuration
named (with two requests in flight where it says so), is violated.

| Configuration | Formula | What happens |
|---|---|---|
| `AppelsSequentiels`, 2 requests | `AssietteFigee`, `AppelSurEngagee` | the price, the percentage or the status changes around a trigger (ventes.service.ts:282) |
| `AppelsSequentiels` with two reservations on a lot and `ANNULEE` among `StatutsSaisis` | `UneReservationActive` | a closed reservation is put back, or moved, by a PATCH after another was taken on its lot (ventes.service.ts:290, against 201) |
| `AppelsSequentiels` with two reservations and two lots | `\A r \in Reservations : Engagee(reservations[r].statut) => lots[reservations[r].lot] # "DISPONIBLE"` | ventes.service.ts:317 writes the status of the lot from the reservation being edited, and never that of the lot it moves to |
| `AppelsSequentiels` | `[][\A q \in Requetes : ValiderDeclenchement(q) /\ etapes[req[q].etape].statut = "COMPLETED" => appels' = appels]_vars` | a completed step is triggered again after a reservation was taken: it is called, where appels-de-fonds.service.ts:113 says nothing new is created |
| `AppelsConcurrents` | `StatutSelonRecu` | two receipts, or a receipt and a reminder, each write the status from what they read |
| `OrdresConcurrents` | `OrdreVivantUnique` | both compose before either is there (ordres-paiement.service.ts:184, against the message at 148, "Une facture déjà dans un ordre vivant ne peut pas y entrer deux fois") |
| `OrdresConcurrents` | `UnFichierParOrdre`, `TransmisDefinitif`, `RienNEcrase`, `PaiementsSansOrphelin` | two first downloads; a cancellation around a file; an analysis around a person's save; a rejection around a payment |
| `OrdresSequentiels` | `AucunOrphelin` | an invoice with a payment is put back to validation, then refused by the site management, which makes it disputed without looking at its payments (lecture-factures.service.ts:624-627; factures.service.ts:542-546 refuses the same to changerStatut: "des paiements orphelins") |
| `OrdresSequentiels` | `SeuleValideePayee` | an invoice disputed after its order was approved is paid by the file (ordres-paiement.service.ts:346) |
| `OrdresSequentiels` | `[][\A f \in Factures : factures[f].statut \in {"VALIDEE", "PAYEE"} => Du(factures'[f].ht, factures'[f].ttc) = Du(factures[f].ht, factures[f].ttc)]_vars` | analysing a validated invoice without a total fills it, and changes what is due |
| `Services`, instance `Cumul` | `CumulTenu` | an invoice with no value in the base of its contract (with tax, and the invoice gives neither it nor a rate) is compared for its amount before tax (factures.service.ts:478) and counts for nothing once validated (115): two such invoices exceed the order, nobody forcing, where the comment of valider (385) says "Le contrôle de cumul est bloquant" |
| `Services`, instance `Adoptions` (2 requests) | `UneSeuleCourante` | the adoption of the only version sets nothing aside (budget.service.ts:139); another version is created, validated and adopted before its second statement (151): two are current, where the comment (113-117) says "c'est ici qu'il tient" |
| `PasserelleConcurrente` with `Externes = {}` | `UneLigneParDossier` | with a reservation that has no externalId, two deliveries both find no row |

What follows was read in the code while it was translated. Most of it is why a
property is stated one request at a time, or with the exception it carries.

**Tenders.** A PATCH can put a tender in comparison, then move its deadline or
unseal it (schema.prisma:1060-1062 says a sealed bid stays so). A deposit checked
before the deadline may commit after it (espace-entreprise.service.ts:323, 359);
two requests may leave two bids of a company; an award may be withdrawn while its
contract is being written; a send stopped half-way leaves the tender in
BROUILLON (consultation.service.ts:290); a reminder leaves before its mark
commits and may leave again, or go to a company that answered since the list was
read (435). Documents: `versions()` (ged.service.ts:283-301) does not hide
sealed bids, which lines 32-36 say "n'existe pas pour la GED"; a piece attached
to a typed bid is listed to the company (espace-entreprise.service.ts:243-247)
but cannot be downloaded (292-302). A code asked with an old link and written
after the link was sent again opens the new one; an interrupted try is not
counted.

**Invoices.** A reading overwrites what a person typed and undoes a validation;
analysing attaches a validated invoice to a contract without the cumulated
check, or completes the amount it counts for (factures.service.ts:325-327); two
validations at once exceed what was ordered (factures.service.ts:389); an
endorsement survives a later change of the amounts; REJETEE goes back to
A_VALIDER without a new control. The report is a photograph: a crash or a second
request between a change and the control leaves a stale amount that an order
pays. A message whose process stops before its pieces are poured in is a
duplicate when it comes again, and is flagged \Seen even when it failed. The
IBAN control misses two invoices analysed before either is validated.
rapprochement.ts prefers a quoted reference to the company typed by hand (37)
and compares an amount without tax with one that has it (106-113). Readings: a
slip without reference still takes any 27 digits of the text; a "Total HT" line
may be read as the total with tax; a deduced rate rounded to 0.01 % may raise a
false arithmetic finding on a large invoice (`FacturesExactes` is below CHF
1,000). A slip in EUR is read (qr-lu.ts:126) and paid in CHF (pain001.ts:177);
estQrIban knows CH only while LI slips are read.

**Letters.** The message says a letter is joined even when it was not produced
(appels-de-fonds.service.ts:868-871), and that the payment details stand even
when the company has no IBAN; a mail that left and whose mark failed counts as
failed. The comment of qr-facture.ts about a single address field is out of date.

**Subscriptions.** Two checkout sessions give two living subscriptions; a late
event of an old subscription closes modules; two removals at once of one module
cancel all; a warning row is kept when nobody could be written to, and the mail
is sent again if the commit fails after it left. `modulesOuverts` and
`rafraichir` write `modulesActifs` in turn.

**Access.** supprimerParcelle (foncier.controller.ts:221) has lost the
decorators that stand above deposerActe (176-177). synchroniser of
`OperationPasserelleController` asks a role and no access on the operation. A
POST at READ_ONLY writes the report of an invoice; a GET pays the invoices of an
order, even when the module has been left. The token of a deactivated member or
demoted administrator keeps its role until it expires. Two owners who demote
each other at once leave none (acces.service.ts:129); two invitations at once
leave two links (invitations.service.ts:187-188); an old link that was already
resolved is accepted (263); the director of works stays after the access is
withdrawn (511-512, although the comment asks for it). Second factor: two
requests at once accept a backup code twice or activate a secret nobody proved;
counters are lost at a restart (limiteur.ts:8-11). Kolabimo: testing an old key
may write its holder beside a newer key; an answer that shows a secret may be
lost after the commit.

**The rest.** Communes: the comment says a name is compared without accents or
case (reglements.service.ts:116-118), the query ignores case only (130), so that
`CommuneUnique` lets « Sévery » and « Severy » be two. Budget: a PATCH puts the
current version back to BROUILLON, lines are written into an ARCHIVE version
(budget.service.ts:377), two imports at once double a line. Brokerage:
exclusivities and commissions are doubled by two requests at once; a sale given
up keeps its commission DUE. Documents: two versions deposited at once have one
number and are both current; files are left after a crash. Land: signed prices,
which "ne doit pas dériver" (foncier.service.ts:359-360), are rewritten by the
gateway (passerelle.service.ts:712, synchronisation-kolabimo.service.ts:417); a
lot may take the reference of another; parking places move after the deed.
Operations: a piece written between the count and the deletions goes with the
operation (operations.service.ts:113-173); an operation with a mandate or an
award is refused by the database and not by a message. Passport: a contract
without company erases the company; a rejection read before a validation commits
deletes a validated equipment. Meetings: a meeting may be TENUE without a date,
two points may have one rank. Regulations: a reading that ends after a new file
came writes the old text under it (reglements.service.ts:307-317); two
extractions at once leave the zones of both; a new file keeps zones validated on
the old one. Nightly pass: one address that is always refused stops the loop of
its task every night (facturation.service.ts:763, consultation.service.ts:431).
Journals said to be append-only keep UPDATE and DELETE, the default privileges
of the database. Figures: the printed estimate ignores fees known from deeds,
which the screen counts (budget.service.ts:616-624, against web/lib/foncier.ts);
months beyond 1200 are dropped; dates overflow a short month (31 January plus a
month is 3 March, which `TermesEntiers` bounds by three days).
