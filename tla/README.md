# A TLA+ model of CH-Api-Budgy

CH-Api-Budgy is the back end of a personal budget portal: it attaches bank accounts through
an account-information provider (Enable Banking), synchronises them in the background,
categorises their operations and answers monthly screens. This directory holds a TLA+ model of
it, the TLC instances that check the model and the proofs TLAPS checks. Paths such as
`domain/synchro.rs` are relative to `src/src/`; `tests/`, `migrations/` and `README.md` (of the
program) are relative to `src/`. Definitions keep the French names of the code.

`PROJECT.json` lists every run, the source lines behind every definition, the hazards with the
properties that cover them, and the disagreements found between the code and its documents.

## 1. The system

One process holds axum handlers, one synchronisation worker (a tokio task) and an MQTT client.
All state that lasts is in PostgreSQL. **No SQL transaction is opened anywhere**: every
statement commits by itself, so a handler is a sequence of atomic statements and awaited bank
calls, and everything else may run between two of them. When an HTTP client hangs up, axum drops
the handler at its current `await`.

| component | state | operations | talks to |
| --- | --- | --- | --- |
| Synchronisation (`worker/synchro.rs`, `domain/synchro.rs`) | `bank_account.next_sync_at`, `last_sync_day`, `sync_count_today`; the cycle's list and its `maintenant` | list due accounts, reserve a slot, read balances and operations, mark a consent expired | bank, tables, publisher |
| Statement of an account (`adapters/bank/enable_banking`, `repository/bank_transactions.rs`, `balances.rs`) | rows of `bank_transaction` and `balance` | balances, window, pages, upsert | bank |
| Attachment (`handlers/banques.rs`, `domain/consent.rs`) | rows of `consent` and `bank_account` | create, complete, renew | bank, worker (through the rows) |
| Erasure (`domain/effacement.rs`, `relay/handler.rs`) | the same rows | revoke at the bank, delete consents, delete accounts | broker, bank |
| Relay (`relay/publisher.rs`, `main.rs`) | a queue of 32 events, the MQTT session, the stop's `Notify` | publish, reconnect, stop | worker, broker |
| Subscriber (`relay/abonne.rs`, `relay/handler.rs`) | a second MQTT session with one subscription, the message under way | subscribe once, poll, run the erasure inside the loop, abort | broker, erasure |
| Labels (`domain/libelle.rs`, `domain/regle_categorisation.rs`) | none (pure) | clean a label, compare a rule with it | pairing, recurrences, rules |
| Internal transfers (`domain/transfert_interne.rs`) | none (pure) | pair debits with credits | categorisation |
| Recurrences (`domain/recurrence.rs`) | `is_recurrent` | detect, reset, mark | worker, categorisation |
| Categorisation (`handlers/transactions.rs`, `handlers/regles_categorisation.rs`, `repository/bank_transactions.rs`) | `category_id`, `categorization_source`, `rule_id`, `is_internal_transfer`; rules, categories | insert, apply rules, reconcile, file by hand, create and delete categories | worker, requests |
| Monthly screens (`handlers/previsionnel.rs`, `budgets.rs`, `depenses.rs`, `domain/cycle.rs`, `previsionnel.rs`, `reste_a_depenser.rs`) | budgets, start day of the month | forecast, remaining budgets, expenses | all the tables above |
| Envelopes (`handlers/enveloppes.rs`, `repository/enveloppes.rs`) | rows of `enveloppe`, `bank_transaction.enveloppe_id` | list, create, update, delete, assign | the transactions |
| Read API, encryption, authentication, configuration, mock bank | see section 7 | | |

What is hard here:

* **Reads used after an await.** The worker works on a list read once per cycle; the callback of
  a consent checks, calls the bank and then writes; the reconciliation decides on rows read
  several statements before it writes them; a screen is put together from up to a dozen SELECTs.
* **Cuts.** A handler, a cycle or an erasure may stop after any statement, and there is no
  rollback: each prefix is a state the next run starts from.
* **Retries.** The same callback may arrive twice, the portal calls `recategoriser` at every
  load, each synchronisation reads again thirty days of operations.
* **A bank that moves.** Operations appear, are booked or withdrawn while pages are read, and
  between the balances and the pages.
* **Messages that are lost.** The subscriber acknowledges before it works, subscribes once, and its
  session is clean.
* **Text.** The same counterparty comes with another prefix, date or reference each month, and
  three mechanisms count on what is left when all that is taken off.
* **Limits.** A daily quota per account across crashes and midnight, a queue of 32 events whose
  publisher waits, batches of 5000 rows.

## 2. Modules

Pass by pass, from the worker outwards. Each VARIABLE is a column, a local variable of a task or
a history (said so in its comment); each action is one statement or one bank call, with what the
program does before its next await.

| module | models | notes |
| --- | --- | --- |
| `CreneauxReserves` | the promise of the worker to the bank: a ledger where a call spends one reserved slot | abstract specification |
| `SynchroComptes` | worker loop, listing, `reserver_creneau`, the two bank calls, events, expiry mark, crash, stop; handlers, erasure and the clock around it | refines `CreneauxReserves` (`Promesse`) |
| `SynchroTours` | `SynchroComptes` plus history that counts the slots other accounts get while one waits | EXTENDS `SynchroComptes` |
| `Releve` | one account over many synchronisations: window (`depuis_pour`), pages, `INSERT … ON CONFLICT`, failed rows | |
| `Soldes` | the balances beside the statement: their types and dates, the rows stored before the listing, the one `solde_courant` shows | EXTENDS `Releve`, which it implements |
| `Rattachement` | `create_consent`, the callback, `renew`, the worker's marks and the erasure, statement by statement | |
| `Relais` | queue, link, acknowledgements, graceful stop | |
| `Abonnement` | the subscription, the loop of `abonne.rs`, the erasure inside it, stop and restart | |
| `Libelle` | the cleaning of a label and the comparison of a rule, word by word | pure |
| `TransfertsInternes` | the operators of the pairing: couples, doubt, order, the loop as a fold over the couples taken in the order of `sort_by` | pure, used by `Appariement`, `Categorisation` and what extends it |
| `Appariement` | the greedy loop of `detecter_transferts_internes`, one couple per step | |
| `Mouvements` | from a line of the bank to a movement: cents, sign, cleaned label | EXTENDS `Appariement`, `Libelle` |
| `Categorisation` | insertion, rules, reconciliation, manual filing, categories: every statement | EXTENDS `TransfertsInternes` |
| `Reconciliation` | `Categorisation` plus history that tells a call which nothing disturbed | EXTENDS `Categorisation`; checked through `MCCategorisation` |
| `Recurrences` | the clusters of `detecter_recurrences` and SELECT / reset / mark | EXTENDS `Libelle` |
| `Cycles` | the month of an owner paid on day *j* (`domain/cycle.rs`) | pure |
| `Previsions` | the reads of the three screens beside the worker, the budgets, the preferences | EXTENDS `Cycles` |
| `Enveloppes` | the envelopes, their two SELECTs, the update and its answer, beside a second device | EXTENDS `Previsions` |

`MC…` modules only give constants their values. `…Proofs` modules hold theorems.

How the parts meet: `SynchroComptes` says *when* the bank is called, `Releve` *what* such a call
leaves in the table, `Soldes` which balance goes with it, `Mouvements` what a line becomes once its
amount and label are cleaned, `Categorisation` and `Recurrences` what happens to the rows after that, and
`Previsions` what is shown of them. `Rattachement` makes and destroys the accounts `SynchroComptes`
works on; in `SynchroComptes` these writers are the environment (`MaxEcritures` bounds them), in
`Rattachement` the worker is (`WorkerLit`, `WorkerMarqueExpire`, `WorkerSynchronise`). `Abonnement`
says when an erasure starts, whether it gets to its end and what a lost message leaves behind;
`Rattachement` what it meets in the tables while requests run.

### Abstractions common to the modules

* An id, a name or an amount is a model value or a small number. In `Libelle` a label is the
  sequence of its words in upper case (what `normaliser` leaves), in `TransfertsInternes` the set of
  its cleaned words; `Mouvements` and `Recurrences` go from the first to what pairing and clustering
  see, with the operators of `Libelle`.
* A loop over a sorted list is a fold that takes the elements in that order, from a set: the clusters
  and the dates of `Recurrences`, the couples of the pairing. Equal amounts or equal dates come in any
  order. A median is read by rank (`Rang`), which is what sorting and indexing come to.
* In `Mouvements` an amount is its sign, its integer part and its decimal digits, as the bank writes
  it; everywhere else it is already a number.
* In `Soldes` a balance is the set of the operations it counts. The table keeps every row ever
  read; since only the first of the ORDER BY is read, that one alone is kept in `affiche`, and two
  synchronisations at one instant are ordered as they were inserted.
* In `Abonnement` a read of the socket may take several packets before the handler gets the first:
  `recus` is what the client has acknowledged and not handled. That the broker closes the link when
  the handler keeps the loop from answering its pings is one of the ways `LienRompt` happens.
* In `Relais` the client sends what is not acknowledged again in one step when the link is back; a link
  that breaks in the middle of it is in the same step (`Relier` takes any part of the packets, from the
  first).
* In `Enveloppes` an envelope is its identifier; the owner has one request answered at a time and
  another device that writes in between. `MaxEcritures` bounds the writes of both.
* Encryption is left out; a decryption that fails is one of the ways a statement fails.
* Every statement filters on `owner_id`: `Categorisation`, `Recurrences` and `Previsions` have one
  owner. `Rattachement` has two, because the same bank account may reach two owners.
* An instant is a number. In `SynchroComptes` a NULL `next_sync_at` is 0 and a NULL
  `last_sync_day` the day 0 with a zero counter, which the SQL treats alike.
* In `SynchroComptes` an awaited publication is a step of its own, after the statement it follows:
  the reservation, the renewal notice, the expiry mark, the outcome of a sync.
* In `Rattachement` an authorisation is what the bank keeps of the redirection: `ouverte` when
  `POST /auth` has returned its URL, then `accordee` or `abandonnee` by the user, of which the program
  hears nothing, and `consommee` with its code. A bank may return no account at all: the callback
  answers 200 and leaves an active consent without any.
* In `Previsions` a balance is the set of operations it counts, an aggregate the set it adds up:
  the amounts of an answer are computed from these sets, so that "counted twice" can be said.
  `attendue` is the category an operation ends up in; how it gets there is `Categorisation`'s. An
  operation has the date of its pending line (`annonce`) and that of its booked line (`date`), either
  of which may be missing (`SansDate`): its row is added up under the date it has at the moment, pending
  or booked alike, moves when the booked line replaces the pending one (`definitives`), and belongs to no
  cycle without any date. The dates are one per line, booking and value date together; the amount is
  that of the row, which the upsert never replaces.
* In `Releve` a page is cut into its lines; a page of several lines is several steps during which
  nothing else happened.

## 3. What the runs check

| run | instance | what it shows |
| --- | --- | --- |
| `SynchroQuota` | 1 account, quota 2, days of 5 instants, 2 days, 1 crash or stop, a consent that expires at the last instant, unless the foreign write gives it another life | the quota per slot day (`QuotaParJour`) and per calendar day (`QuotaCalendaire`), spacing of slots, refinement of the ledger (`TientLaPromesse`) |
| `SynchroConsents` | 2 accounts of 1 consent with 3 slots each, 3 instants, 1 foreign write, 1 stop or crash, under fairness | each started sync has its outcome event, and no outcome it should not have (`IssueAnnoncee`); a started sync ends (`SyncTermine`); at most one call per account on a consent that is no longer active (`AuPlusUnAppelPerime`), although later cycles have slots for more; an account that is due and waits is overtaken at most twice by another, across cycles that are abandoned or run over (`TourRespecte`) |
| `RattachementConcurrent` | 2 requests on 1 consent of an owner, cut anywhere; a user who grants or abandons the authorisation; 2 bank accounts or none, one of which another owner may already have; erasure of the first owner, worker | an active consent has the accounts the bank returned unless its completion was cut, an account has one owner, a refusal writes no account, the authorisation of a pending consent is unspent or the consent renewable, unless a request was lost or raced, an erased consent never comes back, a session is ended before it is forgotten |
| `Releve` | 2 operations, window of 1 day, 3 days, answers of at most 4 lines; banks that list their balances in either order, or one kind only | what a complete synchronisation had to show is stored (`RienDePerdu`), a booked operation leaves no pending row, booked stays booked; a displayed booked balance counts only operations of the statement (`SoldeExplique`), and is the bank's current one after a synchronisation that stored it (`SoldeAJour`) |
| `Appariement` | 2 debits against 2 credits, every label, date and filing of a small set; then single lines with each of the 31 prefixes, with dates, titles and references around a name; amounts on both sides of a half cent | the greedy loop takes a movement once, refuses doubtful couples, justifies each choice (`AppariementSur`) and equals its declarative reading (`FinDetecter`); the cleaned label is the name whatever surrounds it (`ClefStable`), cents are the nearest (`CentimesJustes`), a rule made from a transaction applies to it (`RegleDeSaTransaction`) |
| `Categorisation` | 3 transactions, 1 rule, 3 categories, 2 concurrent requests, worker | the four columns agree, no transaction escapes a rule in force, a manual choice survives every race, an undisturbed `recategoriser` reaches its goal and is idempotent |
| `Recurrences` | 7 operations of 2 counterparties under labels that vary, every order of insertion, any reclassification | the marks are those of the definition if nothing moved since they were read, whatever the order of the rows |
| `RelaisArret` | queue of 2, 2 syncs of 2 or 4 events, 1 broken link, a stop, under fairness | order and no loss while the link holds (`RelaisFidele`), the stop ends, no sync waits for ever |
| `Abonnement` | 2 owners with a consent each, active with its accounts or pending, 2 messages at a time, broken links, a bank that keeps a call, failing statements, a token that outlives the account and creates and completes a consent, any number of stops and restarts, under fairness | a deletion received ends with the rows gone, unless its message or a statement was lost or the bank keeps the call (`EffacementAboutit`); what outlives a deletion has one of three explanations, and an account only ever comes with a consent of its owner (`ResteExplique`) |
| `PrevisionForecast` | 2 accounts; undated fees, a salary shown pending then booked, a transfer; they are synchronised, filed and matched | the forecast is what the balance counts besides the expected movements plus what each category brings, and is off by exactly what is stored and not in the balance, or in it and not stored (`TresorerieExacte`) |
| `PrevisionEcrans` | the three screens and the envelopes while a card payment is booked under another date and the start day, a budget, a category and the envelopes change | no answer counts an operation in two windows but that payment (`UneSeuleFenetre`), none loses a dated expense whose category is deleted meanwhile (`DepensesEntieres`), an answer on the envelopes adds up (`EnveloppeRecoupee`) |
| `RattachementCourse` | 2 requests of 2 owners at the same time | ends in a counterexample, see section 6 |

**Bounds.** Every bound is a constant of the module or of its cfg. The instances are the smallest
in which the case at stake happens: two days and an interval that crosses midnight for the quota,
with the expiry of the consent inside the horizon; two accounts of one consent so that the first
can have it marked expired, and three slots each so that later cycles could call on it again, and an
account overtaken twice be so a third time; two owners and two bank accounts for the ownership check, whose loop
must end before the inserts begin; a window shorter than the horizon so that operations fall out
of it; two debits against two credits, the smallest ambiguous pairing; four amounts that drift
across the tolerance of the clusters, and a tie, for recurrences; a payment shown on the 28th and
booked on the 27th, on both sides of the start day, so that it can be in two cycles of one answer; a queue smaller than the events
of one sync; two messages, so that one can wait behind the erasure of another; two envelopes and an
operation that moves from one to the other between the SELECTs. `MaxEcritures`, `MaxArrets`, `MaxCoupures`, `MaxSyncs`, `Horizon`, `MaxJour` and
`MaxLignes`, `MaxMessages` bound counters that nothing in the code bounds; `Effacables` bounds the owners erased, `Vises` the consents that
requests, worker and time touch (the others are rows that were there before, `Anterieurs`).
The queue has two places instead of 32. `Limite` is not reached: batches of more than 5000 rows
are not explored.

`CHECK_DEADLOCK FALSE` is set where the system may really stop: the end of the horizon
(`Synchro…`), the end of the loop (`Appariement`), the end of the process (`RelaisArret`).

## 4. Fairness

Only `SynchroConsents`, `RelaisArret` and `Abonnement` use it.

* The worker's task is polled as long as the process lives: weak fairness of the steps of a sync that
  has begun, its publications (`PublierDebut`, `PublierRenouvellement`, `PublierSolde`,
  `PublierTransactions`, `PublierSucces`) and its two calls. Nothing is asked of the reservation: a
  statement that fails for ever starves the accounts behind it (`domain/synchro.rs:185-208`). What
  the order of the listing gives without any fairness is `TourRespecte`.
* The bank ends up answering, with a success or a refusal: `DemanderSolde \/ SoldeRefuse` and
  `ListerTransactions \/ TransactionsRefusees`. **The code does not guarantee it**:
  `reqwest::Client::new()` has no timeout (`adapters/bank/enable_banking/transport.rs:70`), so a
  connection that hangs stops the worker. The liveness results are relative to this assumption.
* The broker comes back: weak fairness of `Relier`. **The code does not guarantee it either**:
  without it TLC finds that the worker waits for a place in the queue for ever, and the stop for
  the worker.
* `tokio::select!` draws its ready branch at random, so the stop is taken eventually: strong
  fairness of `FinTache`.
* The subscriber's task goes on when it can: weak fairness of `Boucle`, and of nothing else. The
  link need not come back, the bank need not answer (`muette`), the process need not be restarted:
  each is an exception in `EffacementAboutit`.

## 5. Proofs

TLAPS checks every theorem below for all values of the constants, under the named `ASSUME`s of
the modules (TLC evaluates these on every run). What a theorem supposes besides is in its statement
and said here. `PROJECT.json` names the theorems that state a property of a run.

* **`SynchroComptesProofs`.** `Types` (types, the step of the current account, a cycle's time that
  never passes the clock) is inductive. `QuotaParJour` alone is not: a call must be charged to a
  slot reserved earlier in the same cycle. `CreneauxAvantAppels` (per account, the calls of its
  last day plus the call under way never exceed the slots counted in the row; later days are
  empty) makes it so; `GrandLivre == Types /\ CreneauxAvantAppels` gives `QuotaRespecte` and, step
  by step, the refinement `PromesseTenue` of `CreneauxReserves`. `ListesEchus` (an account still on
  the list was due when listed, and only the worker plans it) gives `EspacementRespecte`.
  `Calendrier` (an account that a cycle of an earlier day has still to begin has not been called
  today, so the excess over the row's counter never passes one) gives `QuotaCalendaireRespecte`.
  `PerimeDe` (what a stale consent may still cost, by phase of the cycle) gives `AppelsPerimesRares`;
  `IssueDe` (what has been published, by step of the sync) gives `IssueToujoursAnnoncee`. `Tours` (an
  account overtaken once is in every list of the cycle the other is in; overtaken twice, it has the
  older `next_sync_at`) gives `ToursRespectes`, for any number of accounts.
  With the types, `BrancheExpirationMorte` is inductive by itself (`BrancheToujoursMorte`).
* **`RattachementProofs`.** What a handler read before an await is not true any more when it writes;
  the invariant says what is left of it. `Tables`: a request that creates a consent is alone on it.
  `Completions`: the accounts the bank returned last, if any, are in the table or a running request
  carries them; this gives `ConsentActifComplet`. `Codes`: an authorisation stays unspent (open, granted
  or given up) until a request takes its code, two requests on one consent are counted among
  `troubles`; this gives `ToujoursUneVoieDeRetour`, which says that the program never spends the way
  back and forgets it, not that the user takes it. `Revocations`: the erasure's list covers what it has still to revoke; with
  `VieDUnStatut` (which steps change a status, and to what) it gives the action properties
  `ConsentEffaceDefinitif` and `RevoqueAvantDeSupprimer`. `RefuseEnBloc` follows from `Insertions`.
  `UnSeulProprietaire` is **false** in general (section 6): `UnSeulProprietaireParVisiteur` proves it
  when the consents that requests touch are those of one owner, whatever rows another owner had
  before, as long as these give each account one owner.
* **`SoldesProofs`.** What is due is followed from the pages to come, to the lines read, to the row
  (`Suivi`); a row never disappears and a booked one never changes (`AcquisStable`, `UpsertSaine`).
  This gives `RienNEstPerdu`, `TransitionToujoursAppliquee` (when the bank keeps one reference per
  operation) and `LigneComptabiliseeFinale` of `Releve`. Every step of `Soldes` is a step of `Releve` or
  leaves it alone (`PasDeReleve`), so `SpecSoldes => Spec` and all that holds with the balances.
  `InvariantSoldes` adds what ties the two: what a balance already read counts was shown by the bank
  (`Explication`), so the listing that comes after owes it; and which of two balances the ORDER BY puts
  first (`Affichage`). It gives `SoldeToujoursExplique` (one reference per operation again: without it
  the row that explains the balance may be a second, pending one) and `SoldeToujoursAJour`.
* **`DetectionsProofs`.** `Boucle`: the couples not examined yet come after those examined
  (`EnOrdre`), which with the asymmetry of the order (`PrecedeAsymetrique`) makes the greedy choice
  justified. Gives `ChoixToujoursJustifie`, `JamaisDeuxFois`, `DouteToujoursEcarte`, and the three
  together `AppariementToujoursSur`. `FinToujoursDetecter` is the other half: the loop computes the
  function `Detecter` that the reconciliation calls. The order is strict and total (`PrecedeTotal`;
  `PrecedeTransitif`, by products of the fractions: a score is a quotient), so a set of couples has one
  last (`DernierExiste`); `DetecterDeroule` unfolds the fold, and `Suivie` says that what the loop has
  kept is the value of the unfolding on what it has examined. It needs ids that are unique (the
  primary key; two movements of one id would tie). `CentimesToujoursJustes` is about one line of the
  bank with **any number of decimals**: the decimals after the third only decide which side of the half
  cent the amount is on (`ArrondiAuPlusProche`), whatever they are.

  *Monthly operations.* `regrouper_par_montant` and `grappe_est_mensuelle` are folds, over amounts and
  over dates in order. `Groupees` says what the first has made of the rows it has seen: each cluster
  holds the rows within the tolerance of its name, and no two names are within it (`Ancrage`, which has
  a single solution: `AncrageUnique`). `SuiviJuste` says of the second that it has counted the
  neighbouring dates a month apart (`Voisins`). Whence `DetectionToujoursJuste`: the folds give what the
  definition `MensuellesDe` describes without any order, for every finite set of rows. `Marquage`
  follows the three statements of the worker (read, taken off, marked) as long as nothing moved, and
  gives `MarquesToujoursJustes`.

  *Labels.* The three folds of `libelle.rs` are unfolded (`GardesDeplies`, `ToutesDepliees`,
  `CivilitesDepliees`). A title with no word of the name is found on one side of it or on the other,
  never across (`TrouveDUnCote`); taken off as many times as it occurs, it leaves none (`ToutesParties`),
  and the loop over the whole label does on each side what it would do there alone (`ToutesDUnCote`). No
  prefix of the list begins with an earlier one (`ListeDesPrefixes`, the 31 entries two by two), so the
  first that matches is the one the bank put (`PrefixeRetire`). `NomRetrouve` puts these together, and
  `ClefToujoursStable` is `ClefStable` for labels and names of **any length**. Its hypothesis
  `NomsHabilles` says what such a label is: one of the 31 kinds or none; a name with no volatile word and
  no word of a title; on each side, titles and volatile words only; and no word of a kind right after the
  kind (of « VIREMENT DE X », DE goes too; « VIREMENT » before a name that begins with SEPA takes
  SEPA with it). What makes a word volatile
  (`EstVolatil`) plays no part in the proof.
* **`CategorisationProofs`.** `Invariant` says of the tables that each row is coherent, and of each
  task that what it remembers (its rule, its list) is still what it was read as. `Presence` adds
  which rows a task can still write. Gives `TypesToujours`, `SourceToujoursCoherente` and the action
  property `ChoixManuelToujoursConserve`, for any number of concurrent requests.
  `Rattrapage`: while nothing failed, a row that lacks the category of a rule in force is in somebody's
  hands, the worker that inserted it and has still to read that rule, or a request whose batch will
  come to it. `AucuneOubliee` says so of quiet states only and is not inductive; it follows
  (`JamaisUneOubliee`). For `Reconciliation`, `ObservationFidele` (`SpecObserve => Spec`: its history
  variables disturb nothing) brings over all the above, then `Appel` and `Observation` describe the
  rows step by step during a call nobody disturbs: after the mark, after each rule, after the default.
  `ReconciliationToujoursComplete` reads the last of these; for `ReconciliationToujoursIdempotente`,
  `Reprise` says that on reconciled rows each of these statements writes what is there. These four
  suppose `LimiteSuffisante` (finitely many rows, at most LIMITE_RETROACTIF = 5000): above it the code
  leaves rows for the next call.
* **`PrevisionsProofs`.** Of the months: consecutive cycles touch, none is empty, two cycles of one
  owner share no day, every day is in a cycle, a cycle is named after its last month; the cases are
  the months shorter than the start day. `Origines` says of each aggregate already read which cycle
  and which sign its rows have, or that their dates were replaced since (`redatees`); with
  `CyclesDisjoints` no other row is counted in two windows (`OperationCompteeUneFois`), whatever the owner
  changes between the reads: no writer deletes a row, and the only one that changes its dates notes it
  (`LignesGardees`). `Stockage` says what the tables keep of an expense, pending or booked, through
  synchronisations, filings and deletions, `DepensesLues` what the first SELECT has of it while the second
  is still to run: `DepensesToujoursEntieres`, beside the envelopes too. `Recoupement`: an operation is in an envelope that exists or in none (`Formes`), and what the
  history says has not moved since the request began is still so, in envelopes that the first SELECT
  lists (`Inchangees`). Reading all that is filed in one statement then gives `EnveloppeToujoursRecoupee`.
  For the forecast, `Fidele` says that each of its reads so far, balances, aggregates of four cycles,
  is what the tables hold, as long as nothing moved. What is left is arithmetic over tables of
  any size: a sum over a finite set is unfolded once (`SommeDeroulee`), whence the sum of two
  disjoint sets, by category or by account (`SommeDisjointe`, `SommeParGroupes`); a median is an integer
  (`MedianeEntiere`); what was expected or came (`PrevuOuRealise`); what came is in the balance or not
  (`SoldesEtVenues`). `TresorerieToujoursExacte` then holds for any accounts, operations, categories and start day, beside the envelopes.
* **`AbonnementProofs`.** A deletion once announced is on its way (broker, client or erasure under
  way), was lost or cut (`manques`), or has been carried out: what is left then is a consent created
  since, noted in `tardifs`, and the accounts its callback attached. A callback of an older consent that
  was inserting while the erasure ran loses its row to the deletion, and the foreign key refuses what
  it would still insert (`Tache` says where the task of the worker stands). The three cases are
  `ResteToujoursExplique`.
* **`RelaisProofs`.** The events received, in flight, queued and still to publish stand in one line, in
  order (`Ordre`); what is in flight overlaps what was received by its beginning only (`Reprise`), which
  sending it again repairs. Sending again is a fold over the packets in flight: `PliagePossible` and
  `PliageParPas` unfold it, for a session of any length. Gives `OrdreToujoursConserve`,
  `RienNEstPerduEnLigne` and the two together `RelaisToujoursFidele`, for a queue of any capacity: the
  run has two places where the code has 32.

Folds of the community modules have no induction rule the provers can use. Three modules derive one
on naturals from the least element of a set (`Recurrence`) and unfold the folds they need: a
sequence taken from its start, a finite set from its last element, the decimals of an amount, a sum.
The last element may be any choice the model makes among equals (`PlusCher`, `PlusRecent`): the
unfolding supposes nothing of it but that it belongs to the set.

**Only model-checked.**

* *Liveness* and what rests on ENABLED: `EffacementAboutit`, the ends of a synchronisation and of the
  stop. Out of the prover's reach.
* `RegleDeSaTransaction`, on the labels of the run. It is not true of every text (section 6, labels):
  the cleaning is not idempotent when the five-word fallback cuts titles inside one another. Where it
  holds it is about texts, a fragment found in another, and a string is a constant without letters
  for the provers.

The other way round, the types of `Releve`, `Categorisation` and `Previsions` and the dead branch of
`SynchroComptes` are proved (`TypesDuReleve`, `TypesToujours`, `TypesDesEcrans`, `BrancheToujoursMorte`) and
not listed in a run.

## 6. Where the code and its documents disagree

`RattachementCourse` is a run that ends in a counterexample: two owners complete at the same time,
both pass `proprietaire_concurrent`, both insert, and a bank account has two owners, although
`tests/incident_compte_dun_autre.rs:273` says the second is refused. `PROJECT.json` quotes the lines.

The rest was met while modelling. Each item is a hypothesis of a property, said in its comment, or
a behaviour the model keeps without judging it; none is a run of its own.

* *Worker.* The branch of `synchroniser_compte` that expires a consent never runs: the SQL listing
  compares `expires_at` to the same instant (`BrancheToujoursMorte`). The cycle works on the consents it listed: the second account of a consent the same
  cycle has just marked expired is still sent to the bank. `AuPlusUnAppelPerime` bounds it. A failed
  reservation ends the cycle, and the next one begins again with the same account: while it fails, the
  accounts behind it get nothing (no property, and no fairness, says otherwise).
* *Attachment.* The consent is activated before its accounts are listed, so an error leaves it
  active with no account (`interrompus` in `ActifComplet`); a callback replayed while the first one
  runs writes `failed` over its `active`; a renewal that overlaps a callback, or a callback cut after
  the bank took its code, leaves a consent `pending` that nothing can complete or renew before its
  last week (`troubles` in `VoieDeRetour`). So does an authorisation the user gives up: the program
  is not told, and `VoieDeRetour` names that as a case of its own (`abandonnee`). A
  bank that returns no account leaves an active consent without any, reported as a success
  (`ActifComplet` asks for the accounts the bank returned). `renew` refuses (409) a consent without
  `etablissement`; `create_consent` always writes one, so the model has none without.
* *Relay.* With the broker away, 32 events later the worker waits, and the graceful stop with it.
* *Subscriber.* `user.deleted` is acknowledged before it is handled and never asked for again: a
  statement that fails, a stop, or a link broken while it waits leaves the owner's rows for good. The
  subscription is sent once, before the loop, with a clean session: after a broken link the process
  receives nothing more until it restarts. The bank client has no timeout, so one call may hold every
  erasure behind it. A consent created after the erasure, by a token that outlives the account, is
  never erased, and its callback attaches bank accounts anew. `manques`, `muette` and `tardifs` say so in the properties.
* *Labels.* `README.md:84` says that a pattern reduced to « ACHAT » or « CARTE » no longer matches
  anything, since such prefixes are removed on both sides. CARTE alone is not one of the prefixes,
  so it matches the « CARTE INTERMARCHE » of the same paragraph; and ACHAT, which is one, falls back
  to itself and matches a label of which nothing else is left. « Ne renvoie jamais de chaîne vide »
  (`README.md:95`) does not hold for an empty label. And a pattern is cleaned again when it is compared,
  although cleaning twice is not cleaning once: of `CB MR OU MR OU MME MME` nothing is left when the
  titles are off, so the rule's pattern is its first five words, `CB MR OU MR OU`; cleaned again that is
  `OU OU`, and the rule does not apply to the transaction it comes from.
* *Balances.* `PRCD`, the previous closing balance, is stored as booked: when the bank dates neither,
  the last inserted is shown, which is why `SoldeAJour` leaves aside two booked balances without
  dates. A bank that dates its balances one day and not the next may leave an old one in front; the
  run has banks that date all of them.
* *Categorisation.* A rule may file into « Virements internes », and the row still counts; the
  reconciliation takes away a category a rule gave (the SQL comment wants it, `README.md:77` and the
  comment of `handlers/transactions.rs:25-33` exclude it); a rule created meanwhile categorises a
  row just marked internal; a row filed by hand between the pairing's SELECT and its mark is
  excluded all the same.
* *Screens.* The forecast takes the balance from the bank and what came from the rows, and these do
  not count the same operations: a pending row, or one stored after a newer balance failed to be, is
  taken off what is expected and is not in the balance; one that is in the balance and not stored yet,
  or stored without any date, is in the balance and expected still, so that a salary may count
  twice. `TresorerieExacte` says by how much the forecast is off, and asks only that nothing was written
  during the answer (`remue`). `montants_par_categorie` has no filter on the status: a pending row is added
  up under the date of its pending line, and moves when it is booked, so an answer under way may count it
  in two cycles or in none (`redatees` in `UneSeuleFenetre` and `DepensesEntieres`). A row without any date
  is in no screen. `README.md:72` gives another formula for the forecast, from the budgets, which the code does not
  read; a category deleted between two SELECTs gives a second line without category. An envelope
  deleted after the first SELECT is shown with nothing in it.
* *Statement.* An operation that gets its `entry_reference` when it is booked keeps its pending row
  beside the booked one: `TransitionAppliquee` supposes one reference per operation (`EntreeTardive`
  is FALSE in the run).

`is_recurrent` is written by the worker, and no handler reads it any more
(`lister_recurrents_pour_proprietaire` has no caller): the marks `Recurrences` models reach no
screen at this commit.

## 7. Not modelled

* **What surrounds the words of a label**: upper case, accents and the splitting at blanks.
* **Expected balances** (`XPCD`) and `solde_a_venir`; a balance with another currency.
* **A booking date and a value date that differ** on one line: `Previsions` has one date per line, the
  one `COALESCE(booking_date, value_date)` keeps. A pending row the bank withdraws without booking it
  stays stored and added up, in the model as in the code (nothing deletes a row).
* **Balances dated one by one**: the banks of `Soldes` date all of theirs or none.
* **The amount of an envelope**, its percentage and its validation: arithmetic on one row.
* **Retained consent events** and the signature of events: what a front end that connects later sees.
* **The fingerprints recomputed at start** (`reprendre_empreintes`): the rows have them already.
* **The cache of the application token** (`enable_banking/jwt.rs`): two tasks may sign at once, and
  each token is valid.
* **Renaming a category, currencies, pagination, filters, serialisation, error bodies**: no state
  that a property could relate.
* **Encryption, authentication, configuration, start, mock bank**: pure, or over before anything
  runs concurrently.

## 8. Plan

The modules were written in this order, the worker first because the bank's quota and the
consents depend on it: `CreneauxReserves`, `SynchroComptes`, `Rattachement`, `TransfertsInternes`,
`Appariement`, `Categorisation`, `Reconciliation`, `Relais`, `Cycles`, `Previsions`, `Releve`,
`Recurrences`; then `Libelle`, `Mouvements`, `Abonnement`, `Soldes`, `Enveloppes`, `SynchroTours`. Left for later is
the composition of `SynchroComptes` with `Releve` (the slots and the window together: how long an
account may be out of quota or of consent before operations are out of reach).
