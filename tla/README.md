# TLA+ models of the EU Battery Passport platform

This directory holds TLA+ specifications of the platform in `src/`: the passport aggregate of
the API with its database transactions, the evidence store and its malware scan, suppliers,
capabilities, tenancy, the Registry and its exports, the web application with its sign-in and
its pages, the intake queue of the marketing site with its mail worker, and the scripts that
install, deploy and inspect all of it. TLC checks small instances; TLAPS proves nearly every
safety property for all instances. `PROJECT.json` maps every definition to the lines it models
and lists runs, hazards, theorems and findings.

To repeat a run: `tlc -workers 2 -config <run>.cfg <module>`. To repeat a proof:
`tlapm <module>Proofs.tla`.

## 1. The system

| Part | State | Operations | Talks to |
|---|---|---|---|
| Compliance rules (`packages/rules`) | none | `transition`, `calculateReadiness`, `crossFieldChecks`, actor gate, disclosure tiers, registry files | called by API and web |
| Models and items (`modules/batteries`) | BatteryModel with its applicability review, BatteryItem | create, bulk create, review | invalidates passports |
| Values (`modules/values`) | PassportValue (history by validUntil) | create, validate, reject | evidence, passports |
| Passports (`modules/passports`) | passportState, PassportVersion, PublicPassportSnapshot | validate, publish, export | rules, values |
| Lifecycle (`modules/lifecycle`) | lifecycleStatus, LifecycleEvent, telemetry | event, telemetry | passports |
| Evidence (`common/storage`, `modules/evidence`) | EvidenceObject, EvidenceLink, S3 object, ExtractionJob | upload, finalize, verify, link, malware rejection, review download, extraction | S3, clamd, webhook, passports |
| Suppliers (`modules/suppliers`) | SupplierRequest, submissions, capability token | create, session, upload, submit, accept | evidence, values, passports |
| Capabilities (`modules/access`, `modules/authorisations`, `common/tenant`) | AccessGrant, WrittenAuthorisation | grant, revoke, restricted read, delegated call | every tenant transaction |
| Tenancy (`common/tenant`, `infra/postgres`) | the organisation named on a pooled connection; policies, grants, trigger, foreign keys | begin, statement, end; deletions | every statement |
| Registry preparation (`modules/registry`) | RegistrySubmission | prepare, export, get | passports, authorisations, actor gate |
| Organisations (`modules/organisations`) | Organisation, User, RegistryIdentity and profile, AuditEvent | bootstrap, enrolment, readiness | onboarding page, Registry gate |
| Authentication and roles (`common/auth`) | none of its own; claims of a token | AuthGuard, TenantGuard, RolesGuard | identity provider |
| HTTP shell (`common/http`) | rate buckets | limit, sweep | every request |
| Resolver, compliance matrix, health | none | public passport, matrices | snapshots |
| Web application (`apps/web`) | two cookies, and the state of each page | sign-in, proxy, dossier, models, suppliers, onboarding, public page | API |
| Intake queue (`websites/marketing`) | intakes, intake_worker (D1), journal files | form, POST, claim, ack, cron worker | mail queue |
| Offline tools (`scripts/passport-export.cjs`) | files on a disk | verify, assemble | exports of the API |
| Installs (`websites/marketing/scripts`) | locks, store, node_modules, report | pnpm, npm, bare installs | each other |
| Operations (`scripts/ops`, `scripts`) | blueprint, image, environment; the identity provider's account and Action; a working paper | render, build, start, preflight, audit, assess | infrastructure |

The handlers of the API share the rows of one Postgres database and nothing else. A handler is
one `TenantDbService.run` transaction (READ COMMITTED), a few are several. The row locks of
`passport-lock.ts` (model, then item, then evidence) and the call of `invalidatePassports` in
every writer hold them together. The web application only sees the API's answers, in the order
the network delivers them. The intake queue is a second system: a Cloudflare database, an HTTP
API and a PHP cron worker with a journal on disk.

### What is hard

The list `hazards` of `PROJECT.json` has each at its line, with the properties that are for it:

* handlers that interleave between an unlocked lookup, the locks, the reads and the writes;
* data that changes under a passport that was validated or published: directly, through its
  model, through its evidence or through a supplier;
* histories that must stay: versions and their chain, superseded values, recycled items, audit
  events, against any sequence of legal calls and cascades;
* circles of waits between rejection, linking, acceptance, submission and revocation;
* results of minutes of work (a scan, a review, an extraction, a registry draft, an audit, a
  preflight) that meet something another actor has changed meanwhile;
* capabilities, sessions and authorisations looked up before the work that relies on them;
* answers that arrive late or in another order, and pages that act on what is no longer on
  screen;
* at-most-once mail with crashes, lost acknowledgements, expired leases and late calls;
* installers that lock in different ways, and statuses that allow a fallback;
* limits at their edge: buckets, buffers, batches, lifetimes and clock tolerance.

### What makes each part correct

* *Passports*: `ready` and `published` never outlive the data they were earned with; versions
  form one chain; the public page shows the latest version; recycling is final.
* *Values*: one current value per owner and field; history is never written again.
* *Evidence*: what is attested, downloaded or extracted is the version that was scanned; a
  verdict is on the whole object; the pinned version stays.
* *Suppliers*: submissions are accepted together and once, nothing comes in after that, and no
  accepted document is rejected at that moment.
* *Capabilities*: work under a grant or an authorisation ends before it is revoked.
* *Transactions*: every handler is atomic, and none waits for ever.
* *Tenancy*: a statement touches rows of its own organisation; deletions take no published
  version and no audit event along.
* *Registry*: a draft is stored whole or not at all, of versions current at that moment, under
  an authorisation that stands.
* *Exports*: what the API issues is accepted by the browser and the offline verifier; a
  directory with a report is what was verified.
* *Organisations and authority*: one founder; an open enrolment was recorded; what is published
  was reviewed, whoever worked on it; providers act on grants.
* *Sessions and accounts*: what the API accepts goes back to a completed sign-in; an ended session
  does not come back; tokens let act only as provisioned.
* *Pages*: a command is about what was on screen when it was meant, and what is told is true.
* *Disclosure*: no reader sees what a catalogue on the way withholds.
* *Limits*: no address passes on more than twice its limit in one window; the table is bounded.
* *Intake*: mailed at most once, "accepted" only when mailed, everything settled in the end.
* *Operations*: installs do not meet unseen; a status, report, preflight or console that says
  success has it.

## 2. Modules

| Module | What it is |
|---|---|
| `PassportRules` | Pure operators: the state machine, what invalidation does to a state, lifecycle status of an event, the publication gate over a view of the data. |
| `PassportAggregate` | The aggregate with each handler as one atomic action: what the handlers promise. |
| `PassportTx` | The handlers as transactions: lookup, locks one by one, decision, writes, commit; rollback anywhere. Implements `PassportAggregate`. |
| `EvidenceStates` | The states of evidence and the moves between them, shared by the aggregate and `EvidenceReview`. |
| `EvidenceReview` | The handlers around one evidence object: load, scan, and a write on condition that the row is still the one loaded. |
| `MalwareScan` | One scan: both clamd requests, every event of socket, timer and storage stream. |
| `SupplierPromise`, `SupplierRequest` | What a supplier request promises; portal and acceptance as transactions with their locks, which implement it. |
| `Capabilities` | Grants and authorisations, the requests that rely on them and those that revoke them. |
| `Authority` | The declarations of all handlers before the three guards, and one dossier from nothing to publication by whoever may. |
| `TenantRows` | Row policies on pooled connections, privileges that drift, the check at start, cascades between rows. |
| `Erasure` | All foreign keys: what a deletion takes along from any state of the rows. |
| `RegistryDraft` | prepare: gate, candidates, locks, item after item, files, the draft or its refusal. |
| `Bootstrap` | The transactions of bootstrap and enrolment, readiness and the actor gate, and the onboarding page. |
| `RateLimiter` | The table of buckets with its sweep and limit. |
| `ExportManifest`, `OperatorExport`, `ExportArchive` | The manifest and what is demanded of it; the transaction that issues one; the offline verifier and assembler. |
| `Disclosure` | Three catalogues between a version and a reader: publication, API, web. |
| `SignIn`, `Console` | Two cookies through login, callback, logout and proxy; one console page with its panel, its commands and its sign-out. |
| `DossierPage`, `ModelPage`, `SuppliersPage` | The pages, with effects, commands, confirmations, and as far as they need it the API. |
| `Provisioning` | Metadata, Action, token, actor; and the audit of the provider while administrators go on. |
| `IntakeForm` | The form of the website and the handler that stores what it sends. |
| `IntakePromise`, `IntakeDelivery` | What the queue promises per request; form handler, delivery API, worker, journal and calls in flight, which implement it. |
| `Installs`, `PnpmInstall` | The installers of a machine with locks and shared store; the process that runs one pnpm. |
| `IndustrialAssessment` | The working paper of an industrial model and its indicators. |
| `Launch` | Blueprint, build, start of console and API, and the preflight. |
| `MCPassportAggregate`, `MCPassportTx`, `MCSupplierRequest` | Constants, symmetry and initial states of the runs of one module. |
| `MCApi`, `MCWeb`, `MCOperations` | Compositions of parts that share no state: a behaviour follows one of them (`part`). |
| `PassportAggregateProofs`, `EvidenceReviewProofs`, `SupplierRequestProofs`, `CapabilitiesProofs`, `IntakeDeliveryProofs`, `ApiProofs`, `WebProofs`, `OperationsProofs` | Theorems. |

Interfaces. `PassportTx` implements `PassportAggregate`; the aggregate takes the moves of
`EvidenceStates` as single steps and `EvidenceReview` shows the steps that lead to them; what
`MalwareScan` comes to is the three outcomes `EvidenceReview` starts from; what `accept` does to
values is in the aggregate and who may call it, when and how often in `SupplierRequest`;
`RegistryDraft`, `OperatorExport` and `Disclosure` take as their environment the publications and
invalidations of the aggregate. `ExportArchive` starts from payloads that `OperatorExport` may
issue (`ExportManifest` is common to both), `IntakeDelivery` from the rows `IntakeForm` stores.

### PassportRules and PassportAggregate

| Variable | Code |
|---|---|
| `reviewed`, `applicable` | the applicability review stored on BatteryModel; only a review that decides every conditional field is stored |
| `modelOf`, `pstate`, `lifecycle` | BatteryItem.modelId, passportState, lifecycleStatus |
| `value` | PassportValue rows; `current` is `validUntil IS NULL` |
| `evidence`, `links` | EvidenceObject.verificationStatus, EvidenceLink |
| `versions`, `active` | PassportVersion in order of versionNo, active PublicPassportSnapshot rows by version number |

Abstractions:

* A field is an id with a requirement (mandatory, conditional, optional, deferred, hidden) given
  by a constant per model; the 71-field tables of the rules package are instances of it. The
  value of a field is one of `Contents`; `EmptyContent` stands for one the gate counts as missing.
* The cross checks of `engine.ts` are a set of forbidden combinations, `Conflicts`; the status
  check of `validateTx` compares one field with the lifecycle status.
* The hash of a version stands for its number, so the chain is the previous number. That the
  hash is a function of the content is assumed of SHA-256.
* Evidence is usable when it is verified and inside its validity window. The window is not
  stored: a handler that asks sees some subset of the verified evidence, chosen anew each time.
  `ReadyIsPublishable` is therefore stated for evidence inside its window; `publish` asks again,
  and so does the model.
* One organisation (tenancy is `TenantRows`), and models exist from the start: creating one
  affects no item. Audit rows are left out: no code reads them to decide anything here.

### PassportTx

`tx[p]` is the transaction of a request: `locking` with the rows it `want`s, computed by the
unlocked lookup (`Begin`); `writing` with what it kept of its reads (`Decide`); then `Commit`.
`holder` is the lock table. `Lock` takes the next row in the order of the code: models by id,
then the item, then evidence by id. `Rollback` is an error response or a lost connection. READ
COMMITTED shows in `Decide`, which reads the committed state, and in `Commit`, which writes what
was kept even if it is stale; only conditional updates look again. Malware rejection finds the
models through links it reads without a lock, looks again after locking, and starts over at most
three times (`RetryRejection`).

`ImplementsAggregate` is the refinement: the variables of the aggregate are the committed rows, so
`[][Next]_vars` says that every commit is a step of the atomic handlers. It is an action property
because runs start in prepared states: building a publishable passport from nothing takes eight
transactions before anything can interfere. The rows of `createValue` (the one writer of values
next to `accept`) are locked through their owner; the FOR KEY SHARE locks that Postgres takes for
foreign keys are in `SupplierRequest`, where they can deadlock, and not here.

### EvidenceReview and MalwareScan

| Variable | Code |
|---|---|
| `row` | EvidenceObject: verificationStatus, `stamp` for updatedAt, `version` for storageVersionId, `attested` for the malwareScan columns |
| `links` | EvidenceLink rows of it, counted |
| `call` | per process the handler (finalize, verify, extract, review), the row it loaded, the version it streams, the attempt of its rejection |
| `jobs`, `urls` | ExtractionJob rows, versions a review download was signed for |
| `puts`, `detects` | the bucket's versions, and whether the scanner knows the bytes (external) |
| `cleared` | history: versions a scan passed |

`Load`, `Head`, `Scan` are the work outside any transaction. `Transition` is `transition()`: an
update whose WHERE repeats status and updatedAt; `StartJob` is its counterpart in `extractNow`. A
detection goes through `LookAtLinks`, `TryAgain` (at most three attempts, on changed links only)
and `Reject`. updatedAt is a counter: that two writes within one millisecond would have the same
stamp is ignored. The row starts absent, or as one of before the scan columns (`Legacy`: uploaded or
verified, with neither version nor attestation, which the migration leaves as it is); the status
unverified, which the handlers treat like uploaded, and a bucket without versions, which a
deployment with a scanner refuses (`storage.service.ts:41`), are left out. Sizes, hashes and file types of an object are constant and left out: an upload
has the declared hash, because the signed URL demands it.

In `MalwareScan`, `request` holds the locals of `clamdRequest` and of the send loop, `socket` the
connection, `outcome` what `scan()` comes to. Each callback is one action (`Connect`, `Data`,
`End`, `Breaks`, `Deadline`, `Flushed`), as Node runs them one at a time; `Pull` is one turn of the
loop over the stored bytes. The object is a sequence of chunks that are empty, harmless or
infected. clamd is external: it judges what it received up to the first frame of length zero and
then tells the truth, but it may complain at any time, stop within an answer, name a signature
like the other answer, or say nothing.

### SupplierRequest

| Variable | Code |
|---|---|
| `status`, `opened`, `expired` | SupplierRequest.status, openedAt, expiresAt |
| `received`, `imported` | SupplierSubmission rows and the values made of them, counted per body |
| `rejected` | rejected evidence of the supplier |
| `call` | per process the handler, the request it is about, the evidence still to be locked |
| `holder`, `sharing` | FOR UPDATE, and the FOR KEY SHARE that a foreign key takes on evidence |

`Begin` resolves the token without a lock, `LockRequest` is `lockRequest` with its second
`assertOpen`, `CheckTime` the third one before the writes. What `accept` does to values is in
`PassportAggregate`; here it only counts, and the order of import is left out. Postgres aborts one
transaction of a circle of waits, which is `Rollback`.

### Capabilities and Authority

| Variable of Capabilities | Code |
|---|---|
| `row` | AccessGrant and WrittenAuthorisation: revokedAt, the time against validFrom and validUntil, the scopes that are TRUE, and whether tier or scope record are well formed |
| `revocations` | audit rows access_grant.revoke |
| `call` | per process the request: a restricted read, a delegated request with the transactions it still runs, or a revocation |
| `holder`, `sharing` | FOR UPDATE (or the lock of an update) and FOR SHARE per row |

`Resolve` and `Guard` are the lookups before the transaction, `Admit` is FOR SHARE and the second
look (`withGrant`, `TenantDbService.run`), which a delegated request repeats in each of its
transactions. `WorkRevokes` is the delegated handler that locks such a row itself
(`AccessController.revoke`); authorisations are `OwnTenantOnly`. A second revocation of an
authorisation overwrites its revokedAt; of a grant it does nothing (`RevokedOnce`). Rows may exist
from an older version of the program, malformed.

`Authority` has, per controller, the handlers with the scope they need under a delegation and the
roles they ask for, and the three guards as predicates over them. A dossier (`model`, `document`,
`value`, `linked`, `state`) moves by handlers that are one step each; `mode` is oidc or dev,
`Accounts` those the identity provider knows. `touched` and `basis` record what a provider did
and whose review the first authorisation rested on.

### TenantRows and Erasure

`TenantRows`: `conn` is a pooled connection with the name `set_config(..., true)` left on it;
`row` a row of a table with an organisation, of a link table without, or a version; `flaws` are
privileges of the role or gaps of the tables that undo the policies, which the process looks for
when it starts and which may come later (`drifted`). Statements see what the policies of
`001_rls.sql` let through; `Delete` takes along what cascades unless the trigger raises.

`Erasure`: `refs` gives the rows (one per table) that refer to each other; `Cascades`, `Nulls`
and `Restricts` are the foreign keys of the schema; a deletion by the runtime role or an owner
happens whole or is refused.

### RegistryDraft

| Variable | Code |
|---|---|
| `item`, `versions` | the aggregate's items: passportState, the readiness validateTx would find, category, schema and rule set of each version |
| `authorisation`, `sharing` | WrittenAuthorisation rows that stand, FOR SHARE |
| `call` | a request: the gate it read, the items it found, the records it made, the items it refused |
| `holder` | the model locks |
| `submissions`, `rejections` | RegistrySubmission rows; audit rows registry.prevalidation_rejected |

`Gate` reads the actor gate in an earlier transaction; `FindItems`, `LockItems` and `Check` are the
steps of `prepare`; `Store` makes the files in groups of at most `MaxBatch` and stores the draft,
`Reject` the refusal; `Rollback` may come anywhere between.
Identifiers and serialisation are abstracted to items the contract refuses.

### Exports

`OperatorExport`: `export` is the transaction (count, then read under the item's lock), `issued` the
payload. `ExportManifest` says what the browser writes (`Written`) and what the verifier demands
(`Verifies`, `Chained`). `ExportArchive`: `file` and `source` are the disk, which others change at
any step; `run` an assembler between load, sources, mkdir, copy, second reading and report;
`archive` the destinations. Hashes are collision-free by construction.

### RateLimiter

`buckets` is the Map, `nextCleanup` its timer, `now` the clock. `served` is history: when the
requests of a key were passed on. One process; several API processes count apart.

### Organisations, accounts, sessions

`Bootstrap`: `call` per person the step of the handler between its transactions; `organisation`,
`users`, `profile`, `identities`, `audit` the rows; `form` and `shown` the onboarding page; `answer`
the last answer of readiness or of the gate, with the records it may rest on. What the Registry
says is recorded from outside (`identities`) and lapses by the clock.

`Provisioning`: `metadata` of the account, `codes` of the deployed Actions, `bound` in the flow,
`token` the last one issued, with the claims as of the run of its Action (the challenge and the issue
come after it and change none, so they are one step with it), `audit` the run of the audit script, request by request.

`SignIn`: `txn` and `session` are the cookies, `open` the requests under way with the cookies they
were sent with, `codes` the authorization codes not exchanged yet; `had` and `accepted` are history.
Signatures are taken to be sound; time is a counter. `Console`: `session` is the browser's session
by number, `panel` and `opening` the session panel, `leaving` the sign-out, `call` a command
through the proxy with its limits, `working` and `applied` what the API does with it.

### Pages

`DossierPage`: `item`, `itemId`, `field`, `values`, `detail` are on screen, `loads` and `fetching` what
it waits for, `confirmed` and `reviewed` the ticks, `busy` the command under way with what was ticked
for it. `saved` is what the API holds of each field: this page's saves, those whose answer was lost,
and what other operators and accepted declarations write or reject at any moment (`OtherWrites`).
`ModelPage`: `decisions`, `approved`, `review` are the form, `context` the stored review, `profile`
the release that runs. `SuppliersPage`: `listed`, `review`, `reviewed`, `invitation` are on screen,
`status`, `submissions`, `imported` the API. `Disclosure`: `version` and `snapshot` as published,
`issued` the catalogue of the snapshot, `api` and `web` the catalogues that run, `reader` a request
and the page it became. `IntakeForm`: `form`, `posts`, `awaits`, `reference` the page, `intakes` and `hour`
the database. In all of them a request may fail or an answer be lost or late. Other pages write in
`DossierPage`, `ModelPage` and `Disclosure` (releases), suppliers submit in `SuppliersPage`. The deletion
of accepted intakes after 90 days is left out of `IntakeForm`: no page is open that long.

### IntakeDelivery

| Variable | Code |
|---|---|
| `row` | the intakes table: delivery_status, attempts, lease_token, and as booleans whether lease_until, next_attempt_at and the 30-minute limit lie ahead; `limit` is last_error = 'attempt_limit' |
| `fresh` | intake_worker.last_seen less than ten minutes old |
| `admitted` | form handlers between `workerReady` and the INSERT |
| `journal` | `state/<id>.json` of the worker |
| `mailed` | messages the local mail queue accepted (external) |
| `pc`, `todo`, `claims`, `job`, `token`, `sent` | the one worker run that holds worker.lock |
| `call`, `late` | the API call it waits for, and calls of dead runs still under way |

Time is abstracted: leases, back-offs and the heartbeat may run out at any moment. Each call of the
worker can fail: `Fail` ends the run anywhere, and a call on its way may be served later, or never.
`claimIntake` is one D1 batch and one action; `acknowledgeIntake` is two statements and two actions.

### Operations

`Installs`: `step` is where the shell of a run is, `holder` its Node process that keeps the locks
("fd" for an inherited descriptor), `killed` the runs that lost the shell, its wrapper or the holder
from outside, `work` the installers that write, `store` the stores, `clear` what an npm run found in
the process table. Locks and private stores belong to the runtime root of a run (`RootOf`), which
for pnpm may be another than the project's own; `Unseen` are npm ci runs whose directory or command
line the npm helper does not recognise. `PnpmInstall`: `stage`, `progress`, `failure`, `signal`, `code` the
process, `marker`, `report`, `exit` what it leaves behind, `seen` every event pnpm told (history).
`IndustrialAssessment`: `scope`, `model`, `review`, `evidence` the paper, filled in by hand in any
order; its field `use` is given when both finished_battery and intended_application are, which only
completeness asks for. An indicator says candidate, open, or why not. `Launch`: `blueprint`, `image`, `environment`, `console`, `api` the deployment, `faults` what is not
in order, `preflight` its run, one request after the other, with `never`, what was not in order at
any moment since it began.

## 3. Runs

| Run | Module | Instance | Shows |
|---|---|---|---|
| `aggregate` | `MCPassportAggregate` | one model, two items, a mandatory and a conditional field, two value rows on items or model, a blocking cross check, reuse and recycling, two publications | the gate holds wherever the state says ready or published; one chain, one active snapshot, one current row; nothing reaches a recycled item or the history; legal transitions |
| `aggregate_note` | `MCPassportAggregate` | a mandatory and an optional field, two documents | **violation**: see Findings |
| `transactions` | `MCPassportTx` | two requests of any kind at once over two models, two items, three values and two documents, from a prepared state | every commit is a step of the aggregate; waits form no circle and every transaction ends |
| `evidence_review` | `EvidenceReview` | two handlers at once, three in all, a new or a legacy row, two uploads, three links, one failure, with and without scanner | the row moves as the aggregate assumes; attestation, downloads and jobs are for the scanned, pinned version |
| `evidence_detected` | `EvidenceReview` | two handlers at once, three in all, one upload, no failure | **violation**: see Findings |
| `supplier_requests` | `MCSupplierRequest` | three calls at once, four in all, two requests about two models, submissions that name two documents in either order | SupplierPromise; no rejected document is accepted; only unsorted submissions deadlock |
| `capabilities` | `Capabilities` | three requests, one grant, two authorisations, two scopes, two transactions each | work is authorised until it ends; no circle of waits |
| `api` | `MCApi` | drafts of every request over three items of two models; three rows, two organisations, two connections, one flaw; eleven tables; two addresses with limits 2 and 1 and room for two buckets; an export of up to three versions; two archives made at once of one destination | `WholeOrNothing`, `DraftsAreCurrent`, `TenantsAreApart`, `HistoryOutlives`, `LimitsHold`, `ExportsHold` |
| `web` | `MCWeb` | three people in four calls; two models, two releases; the dossier of two items, two fields, one of them contested; two supplier requests; one command through the proxy; two sign-ins with overlapping requests; a form sent three times; three catalogues; an account, an Action of two versions; four people of two organisations | `OrganisationsHold`, `PagesAreMeant`, `NothingWithheldIsShown`, `AccountsHold`, `AcceptedIsSignedIn`, `SessionsDoNotReturn` |
| `operations` | `MCOperations` | every object of up to three chunks; any three of two pnpm runs of one project, of which one has a runtime root elsewhere and both offer one store, an npm run and two bare ones, one of them unseen; one pnpm process of two packages; a paper with two records; four templates, settings right or wrong in one respect, one fault at a time | `VerdictOnTheWhole`, `Settles`, `InstallsAreAlone`, `ReportsAreTrue`, `VerdictsStand` |
| `intake` | `IntakeDelivery` | two requests, one malformed, two attempts, one failure | IntakePromise; everything settles; a late acceptance arrives |
| `unreviewed_import` | `SuppliersPage` | two requests, two submissions each | **violation**: see Findings |

Several parts in one run. `api`, `web` and `operations` each compose parts that keep no state in
common: the limiter of a process and the rows of a database, a page and another page. `part` is
chosen in the initial state and stays, so the states of a run are the sum, not the product, of
those of its parts; interleaving parts that do not meet would add states and nothing to see. A
property of such a run is the conjunction of those of some parts, each of which is stated in the
module of its part. The theorems about these runs (`ApiProofs`, `WebProofs`, `OperationsProofs`) are about
the same composition and so about each part.

Why the bounds are enough.

* *Passports*: items interact only through their model and shared evidence, so two items on one
  model show every cross effect; two versions show the chain, the switch of snapshots and a
  republication; a second value row is a replacement, or the model's next to the item's.
  Interference needs two requests; two models, items and documents are what can be locked
  crosswise.
* *Evidence*: two handlers overlap, and with three in all the row changes twice under one of them;
  what it would take three to do is left to the theorems, which hold for any number. Three links
  are one for each attempt of a rejection. Three chunks are a chunk
  before, at and after an early end, and exceed the limit of two.
* *Suppliers, capabilities*: a deadlock of supplier calls takes two submissions in opposite orders
  or a submission and an acceptance, on two documents. A revoker, a reader and a second revoker
  or delegated request are what can meet at one row.
* *API*: a file is two items, so that three fill one and begin another; two connections let a name
  outlive its transaction and meet the other tenant; the limiter's clock runs two windows, and
  two buckets for four keys (two per address) fill the table. The one draft meets publication,
  expiry and revocation; drafts meet each other through the model locks, of which the theorem
  speaks for any number. Two issued payloads differ in whether a source is missing.
* *Web*: a page has one request that is late and one that overtakes it; the third load and the
  second value of a field make "what was on screen" differ from "what is". Lifetimes lie on both
  sides of the session's and the token's age. A release that opens, one that closes and one that
  opens again are three catalogues.
* *Operations*: two runs of one runtime root meet in its lock, two of different roots in the store
  and in the project; an npm run and two bare ones, seen and unseen, meet in the process table.
  Three runs of the five (`MaxRuns`) are two at work and one that looks. One fault at a time appears and disappears
  between any two requests of the preflight.
* *Intake*: requests share only the heartbeat, the sweep and the worker, for which the second one is
  there; two attempts are a retry and the limit.

`MaxVersions`, `MaxTx`, `MaxStored`, `MaxFailures`, `MaxSubmitted`, `MaxPuts`, `MaxLinks`, `MaxCalls`,
`MaxSubmits`, `MaxTxs`, `MaxTime`, `MaxClock`, `MaxPublished`, `MaxExported`, `MaxLoads`, `MaxSaves`,
`MaxPosts`, `MaxRuns`, `MaxAttempts`, `MaxOpen`, `MaxSessions`, `MaxRecords`, `MaxFaults`, `MaxRequest` and `EventKinds` bound
the instances, where the code has no such number (`MaxExported` of `api` is also the export's own
limit of 256 versions, `MaxRequest` the 1000 items of a request). Limits of the code that are small
here: `MaxChunks` (CLAMAV_MAX_BYTES), `MaxBatch` (100), `MaxBuckets` (30000), `MaxSize` (8 MiB),
`MaxMessage` (3000), `MaxHour` (5), `MaxPackages` (100000), the lifetimes of sessions and tokens.

TLC's own deadlock check is on in `intake`, which never stops, and off where a bound or the end of
the work stops the system; `NoDeadlock` (of `Capabilities`), `OnlyUnsortedSubmitsDeadlock` and `TransactionsEnd` are about waiting
transactions instead. Symmetry is used in `aggregate`, `supplier_requests`, `capabilities` and `api`, on
values and processes the code does not order, and never in a run with a liveness property.
`EmptyContent` is not in the `Contents` of the aggregate runs, where a missing row stands for it.

### Fairness

* `TxFairness`: a statement whose lock is free runs, and a handler that holds its locks goes on to
  an answer or an error. This is what Postgres and Node do; nothing is assumed of the order in
  which waiters get a lock. Because `MaxTx` bounds the transactions, `TransactionsEnd` shows the
  absence of deadlock and not freedom from starvation.
* The scan (`MCSpec` of `MCOperations`, as `FairSpec` of `MalwareScan`): the timer fires, a destroyed
  socket or stream fails what waits for it, a settled promise is taken up. Nothing is assumed of
  clamd, network or object store.
* `IntakeDelivery!Fairness`: cron starts the worker again and it goes on while it does not fail, the
  API answers the call waited for, leases and back-offs run out. `Fail` is not fair and happens
  finitely often (`MaxFailures`); calls of dead runs need never be served.

No other property needs fairness: pages, sessions, installs and the API may stop anywhere.

## 4. Proofs

All proofs are for arbitrary constants (finite or not, any bounds) under the named ASSUMEs of the
modules they extend: `RulesAssumption`, `AggregateAssumption` and `TxAssumption`, `ReviewAssumption`, `SupplierAssumption`,
`CapabilitiesAssumption`, `IntakeAssumption`, `TenantAssumption` and `ApiAssumption`, `SignInAssumption`,
`PagesAssumption` and `OrganisationsAssumption`, `InstallsAssumption`, `OperationsAssumption` and `LaunchAssumption`.
They say that limits are numbers, that maps have the domains they are declared for, and that
`None` is none of the values it stands beside. `TxAssumption` adds that the ids have an order and that the
requests under way are finitely many, however many; `ApiAssumption` that a file has room for a record and
that versions and audit events are among the tables. TLC evaluates each of them on the run that extends
its module.

Every theorem follows the same three facts: the initial states satisfy an inductive invariant,
each step keeps it, and it implies the property. What the invariants say:

`PassportAggregateProofs`

* `AggregateTypes`, `VersionsAreChained`, `LatestSnapshotIsActive`, `RecycledAgrees` are inductive given
  `TypeOK`.
* `OneCurrentRow`: the key is `PriorIsAll`: while an owner has at most one current row of a field, the
  row that `findFirst` returns is all of them, so superseding it is enough.
* `ReadyMeansPublishable`, `PublishedMeansUnchanged`: the invariant is their conjunction `GateInv`; neither is
  inductive alone, since revalidating a published passport leaves its state and publishing a
  ready one needs the gate. A state that an action has invalidated is neither ready nor published
  (`InvalidatingClears`), so only items outside the affected set matter; what such an item shows is
  unchanged (`ViewKept`, `OwnerWriteFrame`, `InsertedFrame`); and the gate depends on nothing else and is
  monotone in the usable evidence (`GateFrame`, `GateMonotone`).
* `HistoryStays`, `TransitionsAreLegal`, `RecycledStaysFrozen`: action properties from the above.
* `HandlersAreAtomic`, the refinement of the aggregate by `PassportTx`, from `LockInv`: rows belong to owners
  that are there (`RowsOwned`), a transaction that takes locks has asked for all it needs (`Locking`), and
  one that writes holds them, so that its decision, and the data it kept, would be the same now
  (`Stands`). The steps of the argument: a write of a decision that stands is a step of the
  aggregate (`PassportWriteIsAtomic`, `ValueWriteIsAtomic`, `AcceptanceIsAtomic`); a write disturbs only models
  and evidence its transaction holds (the `Footprint` lemmas), of which two transactions share none;
  and a decision stands while what it needs is undisturbed (`DecisionStands`). What handlers without
  row locks write disturbs none: a new item is not what a decision is about, evidence whose status
  was decided on is locked and waits, and what advances to verified only adds usable evidence.
  Only a rejection takes some away, under locks on all models whose values it supports.
* `CommittedPassportsAreSound` takes what is proved of the atomic handlers over to the transactions.
* `LocksNeverDeadlock` from `OrderInv`: what a transaction holds comes before what it still wants. So a
  circle of waits would go up for ever; among finitely many transactions one waits below the
  fewest, and whoever it waits for waits below fewer (`LeastNumber`, a least element of a well-founded
  order, which needs no operator parameter).

`EvidenceReviewProofs`: `ReviewTypes`; then `AttestationIsEarned`, `DownloadsAreClean`, `MovesAreAllowed`,
`PinnedVersionStays`, `JobsArePinned` from `ReviewInv`, about what handlers remember: a row seen with the
present stamp is the present row, what a handler found clean is in `cleared`, and it streamed the
pinned version if there was one. The optimistic update then writes only what is still true.

`SupplierRequestProofs`

* `RequestsKeepTheirPromise` (refinement of `SupplierPromise`) and `StatusNeverGoesBack` from `SInv`: a call past
  `assertOpen` holds its request, and what it saw there still stands.
* `AcceptedDocumentsAreUsable` and `DeadlockNeedsAnUnsortedSubmission` from `LInv` (theorem `LocksAreInOrder`): the
  documents a call has locked come before those it still wants, and an acceptance has locked,
  or wants, those of all submissions. In a circle of waits that is sorted, the call that waits for
  the largest document would wait for a larger one. That a set of documents has a sorted sequence,
  and a finite set a largest member, is proved by a smallest counterexample (`SmallestFiniteSet`,
  with the well-founded orders of the library), which needs no operator parameter.

`CapabilitiesProofs`: `WellFormed`, `RevocationWaits`, `GrantRevokedOnce` from `CInv`: a transaction past its second
look shares its row (`Good`), nobody else shares a row that is held (`Exclusive`), and who writes
holds what it revokes and found it active. `NobodyWaitsInACircle`: who is waited for shares an
authorisation and waits for a grant (`WaitedFor`), and who is waited for at a grant waits for nobody.

`IntakeDeliveryProofs`: `IntakeTypes`; `MailedAtMostOnce` and `AcceptedOnlyWhenMailed` from `JournalInv`: the journal is
ahead of the database. Nothing with a receipt none or retry was mailed, an accepted receipt was,
and calls under way and rows only repeat what the journal says. `NothingSentAfterUnknown`, and
`QueueKeepsPromise`: every step is a step of `IntakePromise` or a stutter.

`ApiProofs`

* `TenantsStayApart`, `PublishedVersionsStay` from `TInv`: an open transaction has a name; a row that is no
  link has an organisation and a link parents that are there; what the process found at its start
  still holds unless something drifted. What a deletion does not take along it does not leave
  without a parent, which is the trigger.
* `RequestsAreLimited` from `LInv`. "At most twice the maximum in a window" is not inductive: it says
  nothing of the bucket. The invariant places, for each key, the requests that its bucket does not
  count before the window of the bucket, and all but a maximum of those before the window
  preceding it (`Live`); without a bucket, or with one that expired, all are over (`Fresh`). That the
  table stays bounded through sweeps is a fact about cardinalities of function domains.
* `ExportsAreWhole` from `EInv` and `AInv`: what is read of the item stays as it was counted; a run of the
  assembler has a manifest that was verified and a directory of its own (mkdir is exclusive), whose
  copies are right as far as they were read again, whatever happens to the sources.
* `DraftsRepeatWhatIs` from `DInv`: while a draft is checked it holds the models of what it found and
  shares the authorisation it works under, so that what it has recorded stays true until it is
  stored. The gate of the earlier transaction plays no part, which is why the handler may read it
  there.
* `DraftsAreWhole` from `WInv`: nothing is stored of a call before it ends, and as long as nothing was
  refused each item checked has left its record, so that there is one of each in the end. The
  rest is about `Rows`. In a finite ordered set the ranks are 0, 1 and so on (`RanksCount`): so are
  the ranks of the records of a group and the numbers of the files, which are the ranks of the
  records that begin one (`FilesCount`). A file is then a run of ranks that a multiple of `MaxBatch`
  begins, which ends with the next one or with the group (`FileIsARun`, `Remainders`). Sets are
  counted by bijections, without an induction over the records. `PassedDraftsSerialize`, from the
  same invariant: the serialisers refuse nothing that passed.
* `HistoryIsKept` from `RefsInv`: a row refers to rows that are there. What goes with a row (`Gone`) is a
  recursive function. All that is needed of it is that it is a fixpoint, and there is one: the
  least set that is closed under the cascades (`WhatGoes`). Every row that stays then refers to what
  stays; what a version refers to would take it along, which fails; and what goes with an audit
  event would lead down from nothing, as cascades end (`CascadesEnd`).

`WebProofs`. Something travels and comes back late, or is read first and used later; the invariants
say that wherever it is, it still says what was true when it was made, and whose it is.

* `OnlySessionsAreAccepted`, `EndedSessionsStayEnded` from `SInv`: each cookie, also in a request under way, is of a
  sign-in that was started (and completed in time), and a code that was used is not used again.
* `ReadersSeeWhatTheyMay`: snapshots, answers and pages each carry the catalogues they passed, and show
  what all of these let through (`SnapshotsLet`, `ReadersAreLet`).
* `AccountsActAsProvisioned`: a token of the repository's flow has the claims administrators wrote or
  none; the version an audit remembers runs the repository's code and stays what it is.
* `PagesDoWhatWasMeant` from one invariant per page: loads are numbered and only the last one is shown
  (`LoadsHold`), ticks, commands and screen are about one item and value (`TicksHold`, `WorkHolds`) unless
  another writer has replaced the value whose evidence is listed, an
  approval is for the decisions beside it (`FormHolds`), what is not with the API yet was not worked
  at (`CallsHold`), a reference is that of the row (`ReferencesHold`).
* `OrganisationsAreOrdered` from `BInv` and `AInv`: a call that created something is the founder's, each call
  has a number of its own in the audit; what a call read of the identity is a record the row had
  since the call began; what a published passport stands on is there and reviewed.

`OperationsProofs`

* `InstallsStayAlone`, `StoresStay` from `IInv`: of the runs of a runtime root one holds the lock at most;
  an installer at work means that its run holds it, unless a process of it was killed or it never
  had one; what an npm run did not find in the process table was not there or does not show. What
  is proved of a project is therefore no more than the locks give: two pnpm runs, or a pnpm and an
  npm run, exclude each other if their runtime roots are one.
* `SuccessIsReported`: what is written down stays (`PInv`), a console that is up fits its build (`LInv`), and
  what was not in order ever since the preflight began is still to be asked for or was shown by an
  answer (`KInv`).
* `IndicatorsAreSettledForGood`: from what each indicator asks. A reason why not may give way to one
  that the code asks first (not rechargeable to below the threshold) and to nothing else.
* `ScansAreJudgedWhole` from `SInv`: clamd says nothing that looks like a verdict before the end of the
  object was sent (`Speaking`), all of which was sent by then (`Sending`); for objects of any length.

Beside the properties of the runs, the theorems `AggregateTypes`, `RecycledAgrees`, `StatusNeverGoesBack`,
`GrantRevokedOnce`, `WellFormed`, `ReviewTypes`, `IntakeTypes`, `MailedAtMostOnce`, `AcceptedOnlyWhenMailed`,
`NothingSentAfterUnknown`, `PublishedVersionsStay`, `StoresStay`, `CommittedPassportsAreSound`,
`PassedDraftsSerialize` and `LocksNeverDeadlock` state what no run checks by itself.

Only model-checked, and why:

* `TransactionsEnd`, `Settles` (both), `LateAcceptanceArrives`: liveness under fairness is beyond the prover.
* The instances of the cross checks and the 71-field tables, which are data.

## 5. Findings

`aggregate_note`: `docs/11_V2_ARCHITECTURE.md:21` says "A validated passport value requires verified
evidence." `ValuesController.validate` enforces it when a value is validated, and malware rejection
invalidates the passports that show it, but the stored status of the value stays `validated`. For
a field the category does not require, the next validation does not ask for evidence, so the
next version presents the value as validated although its only evidence was rejected.

`evidence_detected`: `docs/21_PRODUCTION_SECURITY_RUNBOOK.md:238` says "Malware detections persist
`AuditEvent.action="evidence.malware_rejected"`", and `docs/18_MALWARE_SCANNING.md:18` "Detection
returns HTTP 409 `EVIDENCE_MALWARE_DETECTED`". When another handler has written the row since it
was loaded, `checkBytes` throws EVIDENCE_CHANGED_RETRY, which its loop does not try again (it
repeats EVIDENCE_LINKS_CHANGED_RETRY only): the evidence keeps its status, no audit row is written
and the caller sees the other code.

`unreviewed_import`: `docs/27_CUSTOMER_PASSPORT_WORKFLOW.md:21` says "Reviewed submissions import as
unvalidated supplier values." `accept` imports every submission the request holds when it runs, and
the suppliers page sends an empty body: what a supplier submits after the operator loaded and
reviewed the declarations is imported with them.

No findings, but worth knowing:

* `submit` takes foreign-key locks on evidence in the order of the request body while `accept` locks
  sorted: a submission that names its documents out of order can be in a deadlock, which Postgres
  ends with an error. `DeadlockNeedsAnUnsortedSubmission` proves that nothing else can.
* The preflight accepts blanks around the audience and the portal addresses, which the API refuses
  when it starts; `PassedInspection` therefore says what was inspected, not that the API starts.
* After a link, the dossier page reloads and then lists the evidence of the value the link was for
  (`page.tsx:99-106`). If somebody replaced that value meanwhile, the list and what is ticked on it
  belong to the old value while the new one is on screen: "Verify" records a document of the old
  value, and "Validate value" is enabled beside it. `CommandsAreMeant` allows this one case (`Replaced`).
  The API validates the value it is asked for against that value's own evidence.
* Two pnpm installs of one project with different `SITES_RUNTIME_ROOT`, or one with a moved root and an
  npm install, lock different files and may write node_modules at once. So may two when the Node
  wrapper or `timeout` around pnpm is killed: the shell ends, its lock with it, and pnpm goes on. And
  npm ci that was started from another directory does not show. `InstallsAreAlone` names these cases
  and excludes all others.
* A bootstrap that fails between its transactions leaves an organisation without a user, which no
  retry repairs; `OneFounder` says who may be its user, not that there is one.
* The actor gate of a registry draft is read in an earlier transaction and may be stale when the
  draft is stored; `DraftsAreCurrent` is about versions, readiness and the authorisation, not the gate.
* Readiness of an organisation counts a lapsed verification as ready, and the profile and the
  identity it counts need not have been there at one moment; the actor gate looks at the clock.
* The session panel may show "in" when its late answer overtakes an expiry, and a command answered
  "unavailable" may still be carried out: `ToldIsTrue` is about "ok" and "refused".
* Verification of evidence, the review download, the applicability review and the export ask for
  a reviewer's role; validating values, accepting declarations and publishing are open to every
  role. `PublishedWasReviewed` rests on the first of these alone.

## 6. Not modelled

* The regulatory ledger review, `verify-v2` and seeds: scripts that run once and keep nothing.
* Static pages, translations and the vendored user interface components of the marketing site
  (`components/ui`, about half of all implementation lines), which hold no program logic.
* `chatgpt-auth.ts` of the marketing site, the Access and Registry pages of the console (they load
  and show), and test drivers.
* Headers, body limits and error filters of the HTTP shell; health is a constant and the registry
  adapter a stub; the compliance matrices compute what `PassportRules` has.
* Cryptography (signatures, hashes, tokens), serialisation, wording and layout.

## 7. Plan

Done: every component of the inventory that decides or keeps something is modelled and checked;
all safety properties of the runs are proved, and so are the refinements.

Next, in this order:

1. Which invariants of `Capabilities` carry over to drafts: `RegistryDraft` takes written authorisations
   as rows that stand or do not, and has no theorem that its steps are steps of `Capabilities`.
2. What the theorems about pages (`WebProofs`) take from each page could be one lemma about numbered
   loads.
