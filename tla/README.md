# A verification project for the personal AI stylist

TLA+ models of the stylist's back end, TLC runs on small instances of them, and
theorems checked by TLAPS for every size. Everything here is translated from
the code under `src/`; paths below are relative to it, with
`api/` for `services/stylist_api/`, `worker/` for `services/stylist_worker/`,
`db/` for `packages/stylist_db/`, `suggest/` for `packages/stylist_suggest/` and
`domain/` for `packages/stylist_domain/`.

Run anything here with

    tlc -workers 2 -config <run>.cfg <MC module>.tla
    tlapm <Proofs module>.tla

`PROJECT.json` lists the runs, which source lines every definition stands for,
the hazards each property is aimed at, a mutation of the code's model that each
property catches, and the theorems.

## 1. The system

A user photographs clothes. The API takes the photos in, a worker pool turns
each photo into garment rows through ten stages, and the wardrobe that results
is suggested from, worn, corrected, merged, added to by shops and mails, and in
the end exported or erased.

| component | state it keeps | operations | how it meets the others | module |
|---|---|---|---|---|
| ingest intake, `api/routers/garments.py`, `stylist_clients/redis_client.py` | an idempotency claim in Redis; garments, jobs and outbox rows | POST /garments/ingest | claim in Redis, then one Postgres transaction, then the reply | IngestIntake |
| outbox and relay, `db/outbox.py`, `worker/relay.py` | outbox rows, `sent_at` | `emit` in any transaction; a relay tick per replica | enqueues arq jobs under an id made from the row's | OutboxRelay |
| ingest state machine, `worker/state_machine.py`, `worker/main.py` | the jobs row: state, attempts, waits, deferrals, DLQ | one call of `ingest_photo` per arq entry | runs the stages; re-enqueues itself; marks the garment row | IngestPipeline |
| job progress, `api/routers/jobs.py` | nothing; a stream per client | polls of the jobs row as server-sent events | reads what the state machine writes | JobWatch |
| ingest stages, `worker/stages/` | garment rows, cutouts, embeddings; `ctx.scratch` in memory | ten stages, each re-runnable | ML service, LLM gateway, object store; the user edits the same rows | PhotoRows, Splitting |
| wardrobe, `api/routers/{wear,duplicates,garments,corrections}.py` | garments, `wear_log`, duplicate questions | wear, unwear, remove, resolve, correct | concurrent with each other and with dedupe jobs | Wardrobe |
| generation of outfits, `suggest/{pipeline,rerank}.py`, `domain/{slots,scoring,validator,bandit}.py` | none; a caption cache | filter, combine, score, rerank, draw | read by the next two | OutfitRules, Pool, Scoring, Ranking |
| stored outfits, `worker/precompute.py`, `api/routers/suggestions.py` | the outfits table, an advisory lock | nightly precompute, recompute, live generation | read garments; a removal and a correction delete the rows that name the garment | Outfits |
| occasion and weather, `api/routers/{chat,calendar,suggestions}.py`, `domain/{intent,context,observances}.py` | a weather cache | classify, ask back, resolve occasion and sky | feed the generation | Asking |
| learning, `api/routers/feedback.py` | event log, style vector, bandit arms | feedback; offline rebuild | read by suggestions and precompute | Learning |
| shop, `api/routers/shop.py`, `packages/stylist_shop/{gaps,own,conversions}.py` | catalogue garments in the wardrobe, orders, `bought` events | offers, "I own this", merchants' reports | adds and retires garments | Shop |
| try-on, `api/routers/tryon.py`, `worker/tryon.py` | audit log (quota, in-flight), renders, body photo consent | request, render, revoke | outbox job; consent in `privacy.py` | Tryon |
| erasure and export, `worker/erasure.py`, `worker/export.py` | erasure request with completed steps; export rows | request, drain cron, build, sweep | every table and prefix of the user | Erasure, Export |
| purchases, `api/purchase_intake.py`, `worker/{purchases,inbox_poll,gmail_sync}.py` | mails seen, purchase keys on garments, sync times | accept, ingest a mail, poll, sync | adds and retires garments | OrderMail, Purchases |
| digest, `worker/notify.py` | `push_send`, device tokens | hourly digest | reads outfits | Digest |
| accounts and partners, `api/routers/auth.py`, `api/security.py`, `api/deps.py`, `api/routers/partner.py` | users, spent refresh tokens, partner keys, request counters | register, sign in, refresh, sign out, gate | LLM gateway (a key per user), Redis | Accounts, PartnerKeys |
| Google links, `api/routers/{calendar,gmail}.py` | refresh tokens, OAuth states | connect, callback, read, disconnect | Google's one grant per app and user | GoogleLinks |
| trends, CRUD routers, clients, ML service, front end, scripts | mostly one row per request | see section 6 | | |

What is hard in it:

- *Concurrency.* Requests are Postgres transactions under READ COMMITTED that
  check first and write later; several worker replicas take jobs from one queue;
  a job can have two live queue entries after an unlucky crash.
- *Failure.* A worker may die between any two commits. `ctx.scratch`, counters
  in local variables and row locks go with it; Redis and arq keep what they have.
  A call to a provider has happened although the transaction around it rolls back.
- *Ordering.* Outbox rows commit in another order than `created_at`; the user
  corrects, removes and answers while a photo is still being processed; a
  merchant's reports of one order come late, twice, or in reverse.
- *Staleness.* Consent is read minutes before the picture is sent; a nightly
  run stores outfits of garments read earlier; a disconnect clears a row it
  read before it called Google.
- *Timeouts and budgets.* Retries, waits for a dependency inside the slot,
  deferrals through the queue, a wait budget in the row; TTLs on the
  idempotency claim and on arq's memory of job ids; quotas and windows.

What makes the components correct, in short: a photo taken in is not lost and
comes to rest (state machine, relay, intake); each garment on it gets exactly
the rows and work it should, across restarts, and the user's edits win (stages);
wearings and articles survive merges (wardrobe); no outfit served holds a
garment that is gone, and an empty screen is for an empty wardrobe (outfits,
pool); what was learned is what was logged (learning); a garment is there
because somebody said it was bought, once (shop, purchases); what the user is
told of a link, a job, an export or an erasure is so; nothing of a user is left,
sent or made after erasure or revocation without being disclosed.

## 2. The modules

Every component module has its state as VARIABLES, Init, one action per
database transaction or call, Next and its specification. Components of which a
process holds a position (a coroutine between two awaits) have a program
counter per process; what a process has read and not yet used is in its record.
Variables and fields marked *ghost* are history for the properties: no guard of
an action that models code reads them.

### IngestPipeline, JobLifecycle (MCSettling, MCPhoto, MCIngestPipeline, IngestPipelineProofs)

`IngestPipeline` is `state_machine.py` and `ingest_photo`, step by database
step. The jobs row is `state` (0 is received, i the completed stage i, negative
numbers the off-ramps), `attempts`, `dlq`, `waited`, `deferrals`; `marked` is
the state on the garment row. `queued` and `finished` are arq's entries, each a
job and a round: round 0 is the relay's, round n is `defer-{job}-{n}`. `run[s]`
holds what one call of `ingest_photo` has in local variables, with a program
counter that names its next commit, so a crash can fall between any two.
`Crash` returns the entry to the queue, as arq does for a worker that dies;
`Abort` is an exception that leaves `ingest_photo`, which arq files as done.

`JobLifecycle` is what the row does as others may count on it: stages complete
one after the other, an off-ramp or the DLQ is final, and every job reaches an
end. It has an exception, because no write of the row has a guard: a job in
`redelivered` may be written back and buried. A job is put there when its entry
is run again although the call that held it had written its last
(`CutAtTheEnd`), and only where the new call finds work to do: a deferred job,
that the old entry and the deferred one then drive at once, or one at
`degraded_tagged`, which `load_job` does not take for terminal. A crash anywhere
else, with any number of slots, is no exception. `IngestPipeline` instantiates
it under the identity on `state`, `dlq` and `redelivered`.

### JobWatch (MCService, ServiceProofs)

The server-sent events over a job. It INSTANCEs JobLifecycle for the row that is
written between two polls, back and forth once the job was delivered again, so
its client sees every behaviour the lifecycle allows. Attempts and waits are
recorded without a change of state; every write moves `updated_at`, which is
part of the snapshot, as the code's UPDATEs and `_job_snapshot` have it. It adds
the polls, the "done" and "gone" events, the cap and reconnects.

### OutboxRelay, DurableIntent (MCSettling, OutboxRelayProofs)

`OutboxRelay` has rows numbered in the order of `created_at` that commit in any
order (`Commit` is `emit` with the caller's transaction), replicas that claim
with FOR UPDATE SKIP LOCKED (`Claim`), enqueue row by row (`Publish`) and mark
the whole batch (`MarkSent`), and arq with its two memories: ids of jobs in the
queue and ids of kept results. `TickDies` and `WorkerDies` cut a tick or a job
short; `Forget` is a result that expires. `DurableIntent` is what `emit` may
count on; the refinement maps a row to absent, recorded, handed, done or dropped.

### IngestIntake (MCRequests, RequestsProofs)

The claim (`SetNx`, `GetClaim` as the two Redis calls they are), the transaction
with its unique constraint (`Insert`), process death and the TTL. An attempt is
one execution of the handler and stands for the job ids it minted.

### PhotoRows (MCPhoto, PhotoRowsProofs)

The garment rows of one photo. A stage has a read step (records from
`ctx.scratch`, or rebuilt from the table after a restart, and the model call)
and a write step (its transaction); `Advance` is the transition. `Crash`
empties the scratch and goes on from the last completed stage; a failing stage
and a lost intermediate object are faults; `Correct`, `Remove` and `Resolve` are
the user, at any moment, also between a stage's read and its write. Of a value
the row keeps who wrote it last; `why` and `answered` are history. Queueing and
retries are `IngestPipeline`'s and appear as their effect: `StageFails` either
tries again or gives up.

### Wardrobe (MCWardrobe, WardrobeProofs)

Requests as Postgres transactions, statement by statement, under READ COMMITTED:
`tx[c]` is the open transaction of a client with what it read and its
uncommitted `wear_log` inserts and deletes; a statement that needs a key held
by another transaction waits (a guard). The merge is three steps, as in the
code: INSERT ... SELECT (`Copy`), DELETE (`Clear`), and the UPDATE with its
COMMIT. Dedupe jobs look for a candidate in one transaction and ask in another.

### Outfits (MCOutfits, MCSettling, OutfitsProofs)

The outfits table of one tenant, occasion and warmth band: a row per set of
garments, with the style vector it was scored under. Its writers are the nightly
run (behind an advisory lock that can be left with the connection pool), the
recompute after a reaction and the live generation of a request, each a
transaction that upserts row by row, waits for rows another writer holds and is
the victim when writers wait in a circle. A ranking is a set of listings with
one member, so that what is proved does not depend on how it is computed.
Garments are removed, corrected, hidden, washed and come back between any two
steps. A removal and a correction by the user delete the rows that name the
garment in their own transaction (`RowsNaming`), waiting for writers that hold
one; a row a writer has not yet committed escapes them, and is what the prune is
for. What a correction makes of the rules and scores is not followed: `Sets` and
`Score` stay. `owed` holds the hashes that were handed out and have to resolve:
not those with a garment that became unusable, nor those a correction or removal
has deleted since the request read or stored them (`lost`).

### Splitting, OutfitRules, Pool, Scoring, Asking, InOrder (MCService, ServiceProofs)

The pure parts, as operators. `Splitting` is `split_masks` over exact integer
boxes; its loop over the masks is a recursive function of the place in the list. `OutfitRules` has the slot rules and `Unset`; `Pool` the hard filters
with their relaxations and notes, the anchors and combinations, and the
shortfall; `Scoring` the six sub-scores, the product of the penalties and the
total, in thousandths, with colour distances, cosines and logarithms as tables; `Asking`
what the occasion and the weather are derived from: the message, the user's own
names, the model's reply, the diary, observances and the forecast. `InOrder` is
what they share about lists: the members of a set by an order, what a filter
leaves of a list, a sum. None of them declares a RECURSIVE operator, so that
they can be proved about. Each has a
reference definition that the run compares with: `WardrobeServes` for example
asks of every wardrobe and day whether any relaxation the code did not try would
have given an outfit, and whether what the shop offers would mend the gap named.
MCService puts every input of the instance to them, each as an initial state
with one answering step; `AskedAssumption` says what its inputs have in common.

### Ranking, Shop, Accounts, PartnerKeys, Access, GoogleLinks (MCService, ServiceProofs)

`Ranking` is both callers of the reranker (nightly job and request), its one
call, the caption cache that fails and outlives garments, and the bandit's
draw, which is any rearrangement that `Reorderings` allows. `Shop` extends Pool: taps on "I own this" and merchants' reports are
transactions that read, write objects and commit apart. `Accounts` is creating
an account (gateway key first, row second, the unique address at the INSERT),
and the rotation of refresh tokens with its separate read and write of the
spent list in Redis. `PartnerKeys` is the gate (key, counter, user) of a call
of a partner: the key's look-up, then the INCR of the counter of the minute that
was read before it, so that the minute may end in between, then the user; that a
counter expires is not modelled, since no window comes back. `Access` extends both and states what they promise together.
`GoogleLinks` has two links (calendar, Gmail) under one grant of Google's:
consent, callback, reading and disconnecting, each with its awaits.

### Export, Learning, OrderMail, Purchases, Digest (MCRequests, RequestsProofs)

`Export` is the row, the build with redelivery and interruption, the link and
the sweep. `Learning` is the transaction of a reaction (event, vector, arm) with
its two row locks, beside others and the rebuild script; the vector is the
sequence of folds it is the result of. `OrderMail` brings mails to the intake,
by polls of the shared inbox and by syncs of a linked account with its
watermark; a mailbox is a sequence and a listing a set of its positions;
`Purchases` is the job that reads an accepted one, with its look-up and insert
apart. `Digest` is the claim of a day, the send and the record of its result,
over runs that overlap and phones that come and go.

### Erasure, Tryon (MCAccount, MCErasure, AccountProofs)

`Erasure` has the account, the newest request and the drain: one transaction
that locks the request, runs the seven steps, each with effects on providers and
the object store that a rollback does not undo, and commits or rolls back as
one. Requests and jobs that passed the account check in time write on. `Tryon`
has consents and revocations photo by photo, taps that check and record in two
transactions, and the render job pass by pass, with a provider's thread that a
timeout does not stop.

MCSettling, MCPhoto, MCRequests, MCAccount and MCService each hold several
components that meet nowhere but in the account they belong to: a variable `part` says which one a
behaviour is of, so that the components are checked one after the other in one
run and the state spaces add up, not multiply.

## 3. The runs

| run | what it asks | bounds |
|---|---|---|
| MCSettling | NoLostJob: never out of the queue before it is settled; LifecycleSafe: the row implements the lifecycle; JobsSettle: at rest for good. NothingLost, EffectivelyOnce, and IntentSpec: the durable intent with its liveness. OutfitsSettle: removed garments and old scores leave the table for good | 3 stages with every kind of off-ramp, degraded_tagged included, 1 job, 2 slots, 2 crashes; 3 rows (one unrouted), 2 replicas, batch of 2, 2 deaths, 1 forgotten result; 3 garments, 3 outfits, nights without end, one request, 1 reaction, 1 change, 1 fault |
| MCRequests | SameAnswer (intake); LearningSound; NoMailPassedOver, OneRowPerPurchase, MailsEnd (mail); OneDigestADay; ExportLifetime | 3 attempts and 2 expiries; 2 reactions and a rebuild; 3 mails, 2 links, 1 fault; 3 mails of one order, 1 fault; 2 runs on 2 days; 2 exports, 2 faults |
| MCPhoto | SplitIsWhole, FlagsReachTheUser, QuarantineContained, CorrectionsKept (rows of a photo); RetriesBounded: attempts and waits across restarts | up to 2 garments, every verdict and content, 1 edit, 1 crash, 1 fault; the ten real stages, one job, one slot, 2 crashes, 1 abort |
| MCWardrobe | AnswersLoseNothing: wearings and articles survive merges; WearsNeverMix | 2 rows of one coat, a look-alike scarf, 2 days, 2 clients, 4 requests |
| MCOutfits | HashesResolve, NeverServedUnwearable, AnswersWhatItCan | 4 garments, 3 outfits, one night, one recompute, one request, 1 reaction, 1 change, 1 fault |
| MCAccount | ConfirmedIsTrue, ErasureFinishes (erasure); RevocationHolds, RecordDescribesImage, InProgressEnds (try-on); the type invariant | 3 prefixes, 2 grants, 2 late writers, 3 failures; 2 photos, 1 outfit, 2 taps, 3 jobs, 1 fault |
| MCService | GarmentsReal, WardrobeServes, RankingSound, OccasionJustified (pure parts and ranking); PurchasesAgree (shop); AccessHolds (accounts, partners); LinksAsTold; StreamsTell | 7 garments, 3 products, 11 answers of the model; 5 reports, 2 taps; 2 creates, 2 refreshes; 4 calls under 2 keys; 4 calls on 2 links; 2 streams |
| MCOffRampShown (violation) | OffRampShown | 3 stages, 1 job, 1 slot, 1 crash |
| MCErasureKept (violation) | NothingSurvivesUndisclosed | no fault |
| MCShopClaimed (violation) | TheirsToRemove | as MCService |
| MCTemperatureTold (violation) | TemperatureIsTold | as MCService |
| MCDemotedBelow (violation) | DemotedFallBelow | as MCService |

Why the bounds are enough to see the interesting cases: a second live entry of
a job needs one crash after the re-enqueue, and two slots to run it; a spent
budget needs more than one deferral (budget 2 or 4, delays of 1 to 3, one unit
in the slot); a job that goes back needs one crash after its last write, and a
second one to do so twice; a retry limit carried over a restart needs attempts 3 (2 in the
small runs) and one crash; a batch of two of three rows leaves one for the
other replica; two expiries let a third attempt claim anew; two garments are
the smallest split; four requests are two merges, or a merge, a wearing and the
two dedupe jobs that set it up. A circle of writers in Outfits takes two
transactions and two rows; a tie under the column's rounding takes two scores
closer than `Coarse`. A confirmed erasure with something left behind takes one
late writer after the purge and one more run. A photo sent after its revocation
takes a job that has read consent, a revocation, and a second photo to tell the
two apart. An allowance overrun takes two calls in one window and the window's
end between the reading of the minute and the INCR. Two taps, or a tap and a report, are what can race
on one product, and pending, approved, rejected and returned of two orders need
five reports. `MaxCrashes` stays below arq's five tries, so arq never gives an
entry up. Deadlock is not checked where jobs, rows or requests run out, which is
in every run; the liveness properties say that the machines do not merely stop.

RetriesBounded is checked with one slot and without the off-ramp of stage 7,
because beyond that it does not hold, and the theorem has the same hypothesis:
two calls of one job each spend what the row had left, and a job that starts over
from `degraded_tagged` may wait in its slot again at every stage.

The runs that look for a violation find what the code does against a line of its
own documentation:

- MCOffRampShown: the off-ramp of a job and of its garment are two transactions.
  If the worker dies between them the next call finds the job terminal and
  returns, and the garment row never shows the off-ramp, which is what the second
  call is for (`state_machine.py:584`, against `state_machine.py:585-596`).
- MCErasureKept: profile pictures (`avatars/`) and sanitised copies outlive a
  confirmed erasure that does not disclose them, because neither prefix is purged
  (`erasure.py:321`, against `storage.py:118`).
- MCShopClaimed: a garment the user tapped "I bought this" on is retired by a later
  rejection of the merchant's order, because the tap leaves `confirmed_by` as it
  is (`shop.py:395-412` and `shop.py:533`, against `shop.py:524-526`).
- MCTemperatureTold: a chat message that says only rain counts as a statement of the
  weather, and the default of 26 degrees replaces the forecast and is called the
  user's (`intent.py:328-330`, `chat.py:359`, against `chat.py:347-355`). The weather
  half of OccasionJustified says what does hold: who says nothing of the weather
  gets the forecast, or is told of a placeholder.
- MCDemotedBelow: outfits the model was unsure of are listed above those it omitted
  and those it was not sent (`rerank.py:353`, against `validator.py:239-241` and
  `rerank.py:341-342`). RankingSound leaves their place open, and lets an outfit stand
  twice only if the accepted answer named that very outfit twice.

The passing properties state what does hold, with the exceptions the code makes
named in their definitions: two repeats of a split are bounded by crashes, not
excluded; a wearing committed between a merge's copy and its delete is lost; a
vote can be lost where overlapping reactions leave the vector alone; a job whose
entry is run again at its end may go back, and its clients hear it; a
disconnect may clear a token connected after the one it read.

### Observations

Made while modelling, of behaviour a reader of the code may not expect. None is
checked by a run of its own; most appear as a named exception of a property.

- *Ingest.* An exception that leaves `ingest_photo`, or arq's job timeout,
  leaves the job between states and nothing looks for it (`Abort`;
  JobsSettle and NoLostJob are checked without it). `degraded_tagged`
  (`state_machine.py:145`) is in neither TERMINAL_STATES nor STATE_ORDER:
  delivered again, the job starts from the top. With two live queue entries the
  slower run writes an earlier state over a later one. In both cases a second
  delivery is not the "cheap no-op" of `run_pipeline`'s docstring; LifecycleSafe
  names them. A process that dies
  between the Redis claim and the commit leaves a claim that answers retries
  for 24 hours with job ids that are in no table. Matte assigns `needs_review`
  where moderate had OR-ed it in. Classify and segment write without looking at
  `user_verified_fields`; only tag does. An off-ramp after the split marks the
  job's own row, not the other rows of the photo.
- *Job stream.* A poll misses states shorter than its period, though
  `jobs.py:22-27` says every change is sent; a job at `degraded_tagged` is never
  "done" for the stream.
- *Outfits and their generation.* A one-piece anchor with no shoes gives no
  outfit and no blocking note (against `pipeline.py:372`). Saree outfits are
  never generated; `avoids` on `fit` never match; `evaluate` accepts a dress
  with jeans; the dress-code penalty never applies. The reranker shows an outfit
  twice that the model names twice (an exception of RankingSound), and captions keyed by ids outlive a
  correction by up to seven days. The nightly job over all tenants runs under
  arq's ordinary job timeout (`precompute.py:431`).
- *Occasion and weather.* The holiday cache is written with a keyword
  its client does not take, inside a suppressed exception, so it is never
  written (`suggestions.py`, near 249).
- *Learning.* A retry of a reaction whose answer was lost records it twice; the
  rebuild overwrites reactions committed after its read.
- *Shop and purchases.* A delayed pending report after a rejection adds the
  garment of a cancelled order; the return of one of two orders retires the
  garment of both; a tap on a removed garment answers that it is already there.
  An exception in the mail job leaves the mail "received" for good; a sync that
  lists more than its limit never sees the rest; mails that cannot be accepted
  hold their place in the polled batch.
- *Try-on and export.* A render that failed is final for its outfit, and an
  early return of the job records nothing. arq's timeout (300 s) is shorter than
  the renderer's (900 s). A cancelled build leaves its export "building", and
  new requests answered 409. Renders stay after a revocation.
- *Erasure.* A gateway that answers False to the deletion of a key is not heard
  (`erasure.py:202`); the confirmation of one Google link speaks for all
  (`erasure.py:231`); the steps are not separately durable, since they share a
  transaction.
- *Accounts and links.* Two overlapping refreshes of one token both get a pair
  (against `auth.py:116-117`); a refresh whose answer is lost signs the client
  out; a failed registration leaves a gateway key nobody owns. The calendar's
  disconnect ends Gmail's grant without asking whether it is linked, though
  `gmail.py:182` knows that Google keeps one grant; an older callback may store
  its token over a newer one.
- *Digest.* A run with no outfit, or that fails after its claim, costs the day.

## 4. Fairness

Safety properties are checked without fairness or do not depend on it. MCSettling
holds three modules with fairness; its `MCFairness` restates, conjunct by conjunct,
the Fairness of each, with the steps guarded by the part that moves.

- *IngestPipeline*, `FairSpec`: weak fairness of the delivery of each job (the
  relay ticks every second), of each slot taking an entry (arq polls), and of
  each slot's next stage or bookkeeping step (the call runs in one process,
  whose steps do not wait on other jobs). It forces no stage to succeed, no
  crash and no abort; that a job settles although its dependency may be down
  for ever is what the budgets are for.
- *OutboxRelay*: weak fairness of each replica's tick and of each queued job's
  execution, and nothing of commits, crashes or expiries.
- *Outfits*, `FairSpec`: the cron fires every night and a run that began goes
  on, so does a request and a recompute; strong fairness of a writer's next
  upsert, since the row it waits for is freed again and again and Postgres
  queues those who wait for a lock; a circle of waiters is broken. That the
  tenant's turn comes is assumed, an idle night is not.
- *Erasure*: the drain's cron comes round and a run goes on until it ends,
  commits or rolls back. Failures are bounded, so there is a run without one.
- *Tryon*: hours pass (`GrowOld`), and a tap that decided to record does so; no
  job is forced to run, which is why an in-flight mark must expire.
- *Export*: builds that are queued run, days pass, and the sweep's hour comes.
  The queue is assumed not to hold a build back for the seven days an archive
  lives.
- *OrderMail, Purchases*: the inbox is polled every minute, one tick at a time;
  queued jobs run on.

Crashes, outages and user actions are bounded by constants, so an infinite
behaviour has a last one.

## 5. The proofs

All for every value of the constants, from the named assumptions of the modules.
These say that sets that are counted are finite, that bounds are naturals, that
"nobody" and "nothing" are none of the things they stand beside, that a table has
an entry for every row it is asked about, and (IngestPipeline) what the tables of
stages and budgets in the code have in common. Two theorems, of IngestPipeline,
have a hypothesis besides: it is named with them below.

- **IngestPipelineProofs.** `TypeCorrect`: every state is well typed.
  `JobsAreNotLost`: NoLostJob for any jobs, slots, stage table, budgets and
  crashes, for runs without an escaping exception (`MaxAborts = 0`). NoLostJob
  is not inductive: that the next round's id is fresh needs RoundsCounted (no
  round in arq or in a slot exceeds the row's counter), and that a returning
  slot leaves the job settled or queued needs to know that a slot still at work
  has a stage left to run (`Working`). `JobsKeepTheLifecycle` has no hypothesis:
  any number of slots, crashes and aborts, and stages that end at
  `degraded_tagged`. A job that is open and not redelivered is in one place,
  not yet delivered, one queue entry or one slot that knows its row, and of an
  ended one no slot has more to write than the mark on the garment (`OneWay`): a
  crash puts the entry back in the place of the slot, and only one after the call's
  last write leaves two. `RetriesStayBounded` holds where two calls of one job do
  not overlap and none starts over (`RunsApart`): two calls each spend what the
  row had left. It needs that a slot's idea of the state is the row's (`InStep`),
  that a degraded job rests (`DegradedRests`) and `CountInv`, which accounts for
  what the row does not show: an error raised and not yet recorded, waits in a slot,
  and one more of each for a call cut short.
- **OutboxRelayProofs.** `WorkIsNotLost`, `HandlersCompleteOnce` and
  `RelayImplementsIntent`. The invariant says that a row a tick has passed is in
  arq's memory, in its queue or done; completions are counted against results
  forgotten. The refinement is proved for steps: each maps to one of
  DurableIntent or to a stutter. Its liveness is TLC's.
- **PhotoRowsProofs.** `QuarantineHolds`: a photo to be quarantined never gets
  past its third stage (`Stopped`), so the rows are the job's own and no later
  stage has touched it. `SplitsAreWhole`, `FlagsAreNotLost` and the action property
  `CorrectionsAreKept` rest on `PhotoInv`, which says for each stage what its
  records and the rows have between them. Its parts: no secondary garment has
  more rows than lost workers and one (`Counted`); every garment has a row that
  the user took out or that has what the stages so far make and is among the next
  stage's records (`Covered`); without a crash a stage works on every row (`Whole`);
  what is embedded reaches dedupe with its cutout and vector, so that a known
  twin is found (`Compared`); and what a stage flagged stays (`Flagged`).
- **WardrobeProofs.** `TypeCorrect`, `WearsStayWithTheArticle` and
  `AnswersAlwaysLoseNothing`. Every action begins a transaction, adds a statement
  or commits, so there is one lemma for each shape. For the second the invariant
  adds that what a merge read at its start still relates rows of one article
  (`Readings`) and that an uncommitted insert is one the user was told of, or
  will be on commit (`Inserts`). The third is about chains of merges, where a row
  merged into may be merged away in turn. Its invariant (`LoseInv`) says, unless
  two questions about one pair crossed, that every article not removed has an
  active row that no true answer merges away (`Rooted`); that rows can be ranked so
  that a row is of lower rank than the one it would be merged into (`Ranked`), so
  that there are no cycles; and that what a merge deletes is on a row of higher
  rank, or about to be (`Covered`), so that a wearing told of keeps a row
  (`AllKept`).
- **OutfitsProofs.** `HashesAlwaysResolve`, `UnwearableIsNeverServed` and
  `AnswersAreFull`, from one invariant. What a prune may take is lost
  (`GoneSound`: a transaction prunes only outfits a garment of which was unusable,
  and none of those is owed), so that a commit keeps every other row
  (`TableKept`), whatever it wrote and whoever wrote since. Per request: the rows
  it has read or persisted have their place in the table or are lost, to a prune or to
  a removal or correction since
  (`Standing`), a persist under way has each of its rows written or to do, what it is
  charged with not serving was never wearable since it began, and while nothing
  changes the rows it generated are all there are or as many as it asked for
  (`Full`).
- **RequestsProofs.** `OneAnswerPerKey`: until the first expiry everyone past the SET
  got there because of the one claim that stands (`OneOwner`). `OneDigestPerDay`:
  a day belongs to one run (`DaysApart`); what was shown of a day was shown by
  the run that claimed it, to phones no longer on its list
  (`ShownByTheClaimant`); a phone that a run heard is gone and that has the app
  came back since (`GoneOrRevived`). `PurchasesAddOnce`: a garment of an order was
  inserted by a job whose look-up found none, and the look-ups that overlap are
  on record. `MailsAreNotPassedOver`: while a sync goes through its listing, what
  is older than the mail at hand was handed over or lies past the limit
  (`SyncCovers`). `LearningAlwaysSound`, for a log of any length: the folds in the
  vector are of logged events, each once (`FoldsSound`); whoever reads while
  another writer is open is on record (`OverlapsRecorded`); a vector that no
  overlap or missing embedding touched is the replay of the log (`LikeReplay`); and
  the counters of an arm are counts of its events (`CountsSound`).
  `LinksAlwaysLead` is the safety part of ExportLifetime: a row gets its key when
  its archive is stored, and nothing is built of an export that is due
  (`ExportSound`).
- **ServiceProofs.** `PurchasesAlwaysAgree`: inductive with the types alone, one
  lemma for steps that change a garment and one for those that change an order
  with it. `AccessAlwaysHolds` is about accounts and partners side by side. An
  address has one row, committed or about to be (`OneUncommitted`), which one call
  was told it created (`OneCreator`), and a gateway key that nobody owns cost a
  failure (`KeysAccounted`); a token said
  to be spent is on the list for as long as it could be used (`EndedAreDenied`);
  the calls let through in a window are in its counter or among those it
  missed (`CountedOrMissed`). `LinksAlwaysAsTold` relates, token by
  token, the row, Google's grant and what the calls in flight have read.
  `StreamsAlwaysTell`: what a stream has in hand and what was heard last were the
  job's, and unless it was delivered again before they were read the job has only
  moved on since, and not at all from an end (`StreamSound`, `HeardSound`); a
  stream says "done" only of an end (`ClosedSound`).
  The other four theorems are about the pure parts and the ranking, of the
  specification MCService runs. An answer, once there, is the operator's answer to
  what was asked (`PureInv`, `SplitInv`), so each rests on lemmas that hold of any
  input of the operator's type:
  `NobodyIsDressedByGuess` on what the lexicon, the model's answer, the diary, the
  holidays and the forecast can each contribute (`ChatFollowsTheSky` for the reply's
  weather), and on the ceilings of warmth being ordered. `WhatTheWardrobeServes` on `RelaxingAlwaysBeatsEmptying` and
  `OffersAlwaysFillTheGap`: each filter's relaxation is decided on the pool the
  one before left, so what one sets aside is told of by one that comes later, and
  a product that suits a gap passes the very filters that emptied the slot.
  `RankingIsSound` on `RankingInv`, which is inductive: what a caller holds at
  each step of the reranker is an order of the rows it read, short only of rows no
  longer wearable and with repetitions only of what the answer named twice, and every caption in its hands or in the cache is a template
  or was checked against its outfit; and on `EveryScoreIsAShare`: bounds of each of the six
  parts, of their weighted sum, and of the product of the penalties, which
  is at least 341/1000.
  `GarmentsAreAlwaysReal` on `GarmentsAlwaysReal`, which is about photos of any
  number of masks. The greedy loop over the masks has one possible outcome: a mask
  survives exactly if no larger survivor repeats it (`Surviving`, and
  `OneSurvives`: there is one such set). Hence nothing is lost or twice; and since
  that condition only speaks of masks and of which is larger, it is the same after
  masks under the floor leave the list or the list is turned round (`Moves`,
  `Renumbers`).
  Sums, loops and orders are recursive over data, which would take an induction;
  the library's induction theorems cannot be applied here. What they give is
  shown of the least place where it would not hold instead: the natural numbers
  are well founded, and that theorem needs no operator (`LeastNat`).
- **AccountProofs.** `ConfirmationsAreTrue`: the steps are done in order; an open
  request keeps the account closed (`AccountClosed`), so that only late writers
  write; and what the record or the uncommitted run says is done is done
  (`RecordIsTrue`, `RunIsTrue`) - a grant that could not be ended is disclosed, or
  its secret is still there for the resumed run to present again.
  `RevocationsHold`: a job knows no revocation of the photo it works on
  (`JobsBeganInTime`) and a row is marked only after its object went
  (`MarksAreTrue`). `RecordsDescribeImages`: of the only job of an outfit, the job about to record
  knows the picture's passes, and once it is done the newest record does
  (`Described`); renders requested and taps about to request exceed the quota by
  fewer than there are taps (`QuotaKept`). `AccountsStayTyped`: the type invariant of the two
  side by side, which bounds the renders counted by quota and taps.

Not proved, and why. Liveness and everything that needs ENABLED is out of the
prover's reach: JobsSettle, OutfitsSettle, ErasureFinishes, InProgressEnds,
MailsEnd, the end of an archive in ExportLifetime and the liveness of IntentSpec
are TLC's. Every safety property of the passing runs is stated by a theorem
(RetriesBounded for the runs of its hypothesis),
IntentSpec by its steps and ExportLifetime by its safety part (`LinksAlwaysLead`).
OutfitsProofs uses of a listing only that it names outfits of a set, without
repetition and as many as it may: that there is exactly one ranked listing is not
proved there, and TLC sees it in MCOutfits.

## 6. What is abstracted, and what is not modelled

Pixels, vectors, prompts and texts are left out; a model's answer is any
answer of a small set that has a member for every branch of the code that reads
it. Delays are whole units, scores thousandths. One tenant at a time: row-level
security is not a subject. In Wardrobe the INSERT ... SELECT of a merge takes its
keys at once, where Postgres takes them row by row and can deadlock and abort
one of two merges; an aborted transaction changes nothing. The user answers
duplicate questions truthfully, if perhaps twice. arq, Redis and Postgres,
Google, the gateway, the renderer and the merchants are external: they are
modelled by what the code relies on.

Modelled in part:

- *Intake, corrections, wear log, removal*: listing and similarity search,
  validation of values, the laundry flag and the rate reports are not in the
  modules; each is a read or one statement on one row. Three modules have a removal,
  each as far as its rows see it: the garment's (Wardrobe), the photo's (PhotoRows),
  the outfits' (Outfits); likewise a correction.
- *Learning*: preference facts are single upserts; the reports and the offline
  grading of `replay.py` only read.
- *Purchases*: the parsing of mails is text processing.
- *Accounts*: hashing, signing, access tokens (stateless), the list of clients
  and the request metrics.
- *Clients, schema and sessions*: what a call does to a store or a provider is in
  the module that makes it; the transport is not.

Not modelled:

- *Trends*: one transaction a night replaces a table; SQL statistics, no
  protocol beyond that.
- *Taxonomy, schemas, search links, catalogue feeds*: data the modules take as
  constants.
- *Promotion of prompts, evaluation, scripts*: offline tools run by hand. One of
  them, `scripts/retag.py`, sets the rows of finished jobs back on purpose;
  LifecycleSafe and StreamsTell are about what the workers do.
- *Colour, perceptual hash, boards*: image arithmetic, out of a model
  checker's reach.
- *The remaining CRUD and read-only routers*: single-statement updates of one row
  or pure reads; what TLA+ could say of them restates the statement.
- *ML service*: stateless inference behind HTTP. *Front end*: a client of the
  API. *Observability, configuration, infrastructure*: no protocol of their own.

## 7. The plan

Built: the ingest path end to end, the wardrobe, the outfits from generation to
screen, what a user may take back, what brings garments and users in. Left, in
this order:

1. Proofs: of the safety properties none is left; what could still be proved is
   JobsAreNotLost with aborts, as "every job no abort hit", and the ranked listing
   of Outfits by the orders of InOrder.
2. Composition: Outfits with Wardrobe, so that a merge retires a garment in the
   middle of a recompute; Erasure with Export and Tryon in place of its abstract
   late writers.
3. Trends, once it keeps more than one table per night.
