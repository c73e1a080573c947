# Verification of the outreach platform

TLA+ models of the back end under `src/backend/app`: how an outreach request is
decided, approved, queued, claimed and sent; how a discovery job is walked from
a page to a signal; how signals become the score of a lead; what lets a page be
fetched and a caller in; and what holds of all this when workers race, die and retry
while people edit the same rows through the API. TLC checks the models on small
instances and TLAPS proves the most important properties for every instance.

1. [The system](#1-the-system)
2. [The modules](#2-the-modules)
3. [The runs](#3-the-runs)
4. [The disagreements found](#4-the-disagreements-found)
5. [The proofs](#5-the-proofs)
6. [What is left out, and why](#6-what-is-left-out-and-why)
7. [Plan](#7-plan)

Paths below are relative to `src/backend/app`.

## 1. The system

A tenant's users look for companies (discovery), keep what they find (companies,
contacts, evidence, signals), score and qualify leads, and contact them in
campaigns. A FastAPI process serves the API; two kinds of polling processes do the
work, `python -m app.worker` (outreach) and `python -m app.discovery_worker`
(discovery). They share nothing but a PostgreSQL database, and they may each run
many times over.

What makes this hard is in how they share it:

* the database runs at its default, READ COMMITTED: each statement sees what was
  committed when it started, and nothing holds between two statements of one
  transaction but the locks on rows the transaction itself has written;
* SQLAlchemy sessions are opened with `expire_on_commit=False`
  (`db/session.py`): a row stays in memory as it was loaded, through
  commits, and a flush writes only the columns that differ from that copy;
* rows are claimed with a status and a lease (`lease_until`), not with locks
  that outlive the claim; a lease may expire while its holder is still alive;
* a provider call happens outside any transaction.

| component | state | operations | talks to |
|---|---|---|---|
| Outbox engine: `services/outbox.py`, `worker.py`, `services/providers.py` | status, lease, `next_attempt_at`, `attempt_count` of an outreach request | claim, process (simulate or send), mark sent / retry / failed | the control plane, through the rows; the provider |
| Outreach control plane: `api/v1/outreach.py`, `services/outreach.py` | the same rows, the audit trail | create, approve, cancel, dispatch | the policy engine; the outbox (dispatch runs a claim) |
| Policy engine: `services/policy.py`, `api/v1/policies.py` | policy decisions | collect the context, evaluate nine rules | campaigns, opt-outs, consents, leads, signals, requests |
| Campaigns, do-not-contact, consent: `services/campaign_states.py`, `api/v1/campaigns.py`, `api/v1/do_not_contact.py` | campaign status and rules, opt-outs, consents | create, patch, delete; record, delete | read by the policy engine |
| Discovery pipeline: `services/discovery.py`, `services/discovery_worker.py`, `discovery_worker.py`, `api/v1/discovery.py` | jobs, sources, raw documents | create, add sources, patch, fetch, store; claim, walk, retry, finish | the fetcher; extraction; detection |
| Extraction: `services/extraction.py` | companies, contacts, evidence | ingest a raw document | called by the walk and by the API |
| Signal detection: `services/signal_detection.py` | signals | ingest evidence, delete | called by the walk and by the API; read by the policy engine |
| Scoring: `services/scoring.py`, `api/v1/leads.py` | score, explanation and qualification of a lead | score, qualify | reads signals and evidence; read by the policy engine |
| Secure fetcher: `services/secure_fetcher.py`, `core/network_safety.py`, `services/discovery.py` | none but budgets; sources and raw documents of its callers | fetch with redirects, limits and address checks; mark and store | called by the walk and by the API |
| Rate limiter and cache: `core/limits.py`, `core/cache.py` | a counter per client in Redis | count, expire, judge | login, refresh, register |
| Identity and access: `api/v1/auth.py`, `core/security.py` | tenants, workspaces, users, memberships | register, add a user, log in | behind the limiter |
| CRM records: `api/v1/opportunities.py`, `tasks.py`, `notes.py`, `companies.py`, `contacts.py` | rows edited by hand | create, patch, delete softly | audit; extraction |
| Audit, metrics, logging: `core/audit.py`, `core/metrics.py` | audit records, counters | record | every handler |
| Application shell | wiring | - | - |

What makes each of them correct:

* **Outbox.** A claimed request has one owner; it is sent once, or again only
  when an outcome was lost; it is dead-lettered after the maximum of provider
  errors and not before; it never stays claimed for good; and what the row says is
  what happened at the provider.
* **Control plane.** Nothing is sent that policy did not allow or a person did not
  approve after a review, whatever is approved, cancelled and dispatched at once.
  One intent has one request.
* **Policy engine.** A denial outranks everything. A decision, although its context is
  read piece by piece, has grounds in what was in force. Opt-outs have priority.
* **Discovery.** A done job was walked; a job fails only after the maximum of
  faults; every job ends; a cancelled job stays cancelled; whatever is stored has
  its provenance; and what was fetched is carried to the end of the chain.
* **Extraction, detection, scoring.** One company per domain and one contact per email; a
  known title is not guessed over; a signal is supported by its evidence and stays deleted; the
  score of a lead is that of one scoring, explained by its factors, the same whatever
  order rows come in, and never better for weaker signals.
* **Fetcher.** Every connection goes to an address that was vetted for that very hop; redirects
  end; a source marked as fetched has a stored body.
* **Way in.** A window admits no more than its limit; counters expire; a tenant
  has an owner and a user a tenant.
* **Records.** A deletion is final; the log knows every stage a row was in and, where no edit was
  written after another it did not know of, its last word is the stage; a completed task is done.

The places in the code where each of these can go wrong, 40 of them, are the
`hazards` of `PROJECT.json`, each at its line.

## 2. The modules

```
 Policy      nine rules, verdict               Delivery    what the engine promises
   |                                              ^   \
 Intake      creating a request                   |    DeliveryProofs
   |  \                                        (refinement)
   |   IntakeProofs                               |
 MCIntake                         Outbox ---- OutboxDelivery ---- MCOutbox
                                    \               |
 Discovery ---- MCDiscovery          OutboxProofs   |
     \                                   \          |
      DiscoveryProofs                     CalmProofs

         Scoring    Detection          Fetcher  Access  Records  Directory
              \     /                       \      |       |      /
 Sums        Prospects ---- MCProspects      \___ Api ____|_____/
     \          |                                /   \
      ---- ProspectsProofs               ApiProofs    MCApi
```

Each system module declares its parameters as CONSTANTS with one named assumption,
has one action per operation (or per transaction of an operation that has several),
and states its own properties at its end. The `MC` modules give the constants small
values; `OutboxDelivery` holds the refinement mapping; `Api` puts four parts side by side. Each
`...Proofs` module extends the module it is about and TLAPS; `Sums` has the facts about sums over finite sets
that the scores need. Bounds of a model are the constants
called `Max...`, except `MaxAttempts`, which is the program's `worker_max_attempts`.

### Outbox

The rows of `outreach_requests`, the workers and the API handlers that write them.

| in the model | in the code |
|---|---|
| `row[r]` | the committed columns the engine decides by: status, lease (none, live, expired, relative to now), gate (`next_attempt_at` due or not), attempt |
| `older` | the order of `updated_at`, which the claim's `ORDER BY` uses |
| `mem[p]` | the copies in the session of process `p` |
| `cands`, `claimed`, `held` | the claim's candidates, the ids it won, the rows it returned |
| `decision`, `audit`, `delivered`, `failures` | the policy decision of a creation; the audit actions that name the request; provider calls by outcome |
| `ClaimSelect`, `ClaimUpdate`, `ClaimCommit`, `ClaimNothing`, `ClaimLoad` | `claim_requests`: the SELECT, one UPDATE per candidate, the commit, the final SELECT, and what `process_batch` or `dispatch_request` makes of the result |
| `DeadlockVictim` | two claims that wait for each other's row locks: the database aborts one |
| `Simulate`, `Send`, `FinishSent`, `FinishRetry`, `FinishFailed` | `process_request`, `_simulate`, `_mark_retry`: the provider call apart from the commit of its outcome |
| `Create`, `ApproveRead/Write`, `CancelRead/Write`, `DispatchRead`, `Enqueue`, `Refresh` | the handlers of `api/v1/outreach.py`, their read and their write apart |
| `Crash`, `LeaseExpire`, `BackoffElapse` | a process dies, or an exception ends its poll or request; the clock |

`OrmFlush` is the write of a session: a column goes to the database only when it differs from
the loaded copy. This is why a status may be left alone while the lease beside it is
cleared, the root of one of the disagreements below.

What is abstracted. A transaction that writes one row is one atomic step, taken when no
claim holds the row's lock; the claim, which locks several rows, is not atomic.
`updated_at` is the order of the commits that set it. A provider's answer is any. Only
the audit actions that the properties compare are kept; creation's approval is audited
before the row has an id and so names no request. Tenants are not distinguished: no
claim looks at them. A process is `Live` if outreach is enabled and no dry run is set.
Requests are created here with any decision; how it comes about is module Intake.

### Delivery

The promise of the engine with no workers, sessions or leases: a request waits, is
worked on, one call is made, and its outcome settles it or sends it back to wait. With
`Lossy`, an outcome may be forgotten and the call made again. `OutboxDelivery` maps `Outbox`
to it (`ImplementsDelivery`): queued is waiting, dispatching is working, and an
answer that a process has not written back is the outcome. The map holds where the engine
alone acts (no API call), no lease expires under a live holder, and a death leaves no row that two workers
could recover; where there is one, a row gets two owners (`Outbox_v_recovery`) and the promise is lost.

### Discovery

Jobs, their sources, and what a walk leaves behind.

| in the model | in the code |
|---|---|
| `job[j]` | status, lease, gate, attempt of a job |
| `src[s]`, `doc[c]` | status of a source; the source a body is stored under (bodies are unique per tenant) |
| `companies`, `evidence`, `signal` | rows with the site's domain; evidence of each source; the signal of each body, live or deleted |
| `cur`, `todo`, `page`, `found` | where a process is in its walk, and what it looked up |
| `ClaimSelect`, `ClaimCommit`, `ClaimLoad` | `claim_jobs` |
| `StartJob`, `Fetch`, `Unsupported`, `FindCompany`, `Ingest`, `Detect` | `process_job`, `_process_source`, `fetch_source`, `ingest_raw_document`, `ingest_evidence`, each commit a step |
| `FinishJob`, `Upset`, `TwoCompanies` | the job's last transitions; `_mark_retry` after an exception; the exception two companies of one domain cause |
| `CreateJob`, `AddSource`, `PatchRead/Write`, `ApiFetch`, `ApiStore`, `ApiExtract`, `ApiDetect`, `DeleteSignal` | the routes of the API |
| `late`, `faults` | history: sources added when their job was no draft any more; worker faults |

What is abstracted. A claim is atomic at its commit and takes any due jobs (lock waits
and the order of candidates are those of Outbox, the same code). All sources are pages of one
site, so there is one company to find or create; contacts are found or created
the same way and are left out. What a fetch returns is fixed per source
(`Body`), whether it succeeds is not. Which bodies are readable, and which hold a signal,
are constants. `Targets` are the statuses somebody sets with PATCH: a person may also set
done, failed or running by hand, which no property survives and nothing in the code
prevents; the proofs say what they need of `Targets`.

### Policy and Intake

`Policy` is `services/policy.py`: the nine rules as sets of reasons over a record, and
the verdict. `Intake` is `POST /outreach`: one action per query of
`_build_policy_input` (`ReadLead` ... `ReadFrequency`), the lookup by idempotency key
(`LookUp`, `Replay`), and the transaction that stores the decision and the
request (`Decide`) or fails on the unique index (`LoseRace`). Around it the world moves:
PATCH of a campaign, its read and write apart (`OpenCampaign`, `PatchCampaign`),
its deletion, opt-outs that are recorded, deleted or expire (`CreateDnc`, `EndDnc`),
consents, the lead's score and qualification, its signals, and requests that are
queued and settle (`TakeUp`, `DropOut`).

`Watch` keeps a history of each call, updated with every step: `stood`, the
reasons against the request that were in force at every moment so far; `rose`, at
some moment; `posted`, the opt-outs in the list all the while; `moved`, whether the
campaign's rules were edited. The properties compare the outcome with them.

What is abstracted. There is one lead, which has a company, and one campaign; an
intent (contact or none, campaign or none, channel) stands for its idempotency key. "consent"
stands for every basis that the engine does not treat specially. The age of a signal does not
grow. `outreach_enabled` is a constant. An opt-out that names a contact and a company
is matched as the code matches it but `OptOutHolds` says nothing of it, because
nothing in the repository says what it means. `POST /policies/evaluate` makes the same
reads and keeps only its decision; it is left out. A call during which the
campaign's rules are edited is set aside in `DecisionIsGrounded`: the rules come from the
campaign as loaded first, what they limit from later queries, and such a pair may never
have been in force together. All rules but the campaign's are covered, and so
are campaigns whose status changes.

### Scoring, Detection and Prospects

`Scoring` is `services/scoring.py` and `Detection` the classifications of
`core/extraction_utils.py`, `services/extraction.py` and `services/signal_detection.py`, as
operators over sets and sequences. `Prospects` runs them: evidence is extracted or entered
(`ExtractPage`, `CreateEvidence`), signals are detected or entered, the lookup and the
insert apart (`DetectRead`, `CreateRead`, `InsertSignal`, `InsertFails`) and deleted
(`DeleteSignal`); a lead is scored in three steps, as the code loads the lead, queries the
signals, queries the evidence and writes (`ScoreRead`, `QuerySignals`, `ScoreWrite`), and qualified
(`QualifyRead`, `QualifyWrite`). `Flush` writes the columns that differ from the copy.
Signals come in any order (`Orders`), as the query has no ORDER BY.

What is abstracted. A text is the set of what the code looks for in it. The code computes in
floating point with weights of one decimal and confidences of any precision; the model computes in
integers, with confidences in units of a ten-thousandth divided by the constant `Fine`, which a run
sets so that its confidences are whole and the proofs leave open. Every rounding of the code is made: of a
detected signal's confidence to four decimals, of each factor's impact to two, of each dimension and of the
score to whole points, as Python rounds, to the even neighbour. Only the error of a binary
fraction is left out. An age does not grow. There is one lead; `lead` starts without a score
(`LeadCreate` may set one by hand, which no scoring explains).

### Fetcher

`secure_fetch` as `fetch_source` calls it, for a source that may be fetched twice at once: the
checks before each hop (`RefuseHop`), the resolution and the vetting of every answer
(`Resolve`, `SelectSafeIp`), the exchange, which ends in a redirect, a body or an error
(`Exchange`), and what becomes of the source and the body (`MarkSource`; `Reuse` or
`Miss` and `Insert`, the lookup and the insert of `store_raw_document` apart; `Abandon` for the errors that
`fetch_source` does not catch). `StoreByHand` is `POST /discovery/raw`. What a name
resolves to is chosen anew at each hop. Which addresses are unsafe and which URLs
are malformed are constants, since `core/network_safety.py` decides them with tables and
library code. `connections` is history: what each fetch connected to.

### Access

One counter of Redis per client, INCR, EXPIRE and the judgement apart (`Count`, `SetExpiry`,
`Judge`), with failures in which Redis has counted or not (`CountFails`, `ExpiryFails`) and
deaths in between; `WindowEnds` is the key's expiry. Behind it a registration, one transaction
with several inserts: a row is a draft of the session that made it until `Commit`, an insert
that meets another's draft waits, and one that meets a committed row fails (`Conflict`). A
tenant stands for itself and its default workspace, a user for itself and its membership.
Passwords, tokens and the role check of a request are left out: each looks at one request.
`window`, `served` and `leaked` are history.

### Records

Opportunities, tasks and notes as they are patched and deleted, in three steps: the load (`Load`); the INSERT
of the audit record, which takes its time then and locks nothing of the row (`LogEdit`); and the UPDATE,
which waits for the row's lock, with the commit that shows both (`PatchTask`, `PatchOpportunity`,
`DeleteRow`). Two edits may be logged in one order and written in the other. The UPDATE changes the columns that
differ from the copy. `trail` is the log as it is read, entries with their times; `clock` gives the times of each row's entries,
committed or not, in the order of the INSERTs (the clocks of several API processes are taken to agree).
`value` is the stage of an opportunity or the status of a task; the other columns are free of conditions. `raced`,
the rows written by a session after another had changed them behind its back, and `statused` are history.

### Directory

The companies and contacts of a tenant as extractions find, create and enrich them
(`GetCompany`, `GetContact`), each in a transaction with drafts and copies, and as they are
entered by hand. Two rows where one is expected raise (`OneOrNone`); then a request rolls back and
a worker commits what it has (`DropPage`, `GiveUp`, from `_mark_retry`). A contact entered by hand names any
company there is, or none. Discovery has the same
lookups with one company and no contacts; Directory has the rows. `rivals` and `doubled` are history.

## 3. The runs

All runs but the violations pass; each property of a passing run is falsified by a plausible bug
in the definition named in `mutants`.

| run | instance | shows |
|---|---|---|
| `Outbox_calm` | 3 queued requests, 2 workers, batches of 2, no fault | rows tell the truth about the provider (`OutcomeIsTrue`), no row has two owners (`SingleOwner`), the engine implements `Delivery` without loss |
| `Outbox_lossy` | 2 requests, 1 worker that dies twice | the engine implements `Delivery` with loss: at least once, recorded attempts never above the maximum |
| `Outbox_live` | 2 requests, 2 workers, one of them in dry run, batches of 2, 2 attempts, one crash, one lease that expires under its holder | every claimed row has a lease (`NoStuckClaim`); every queued or claimed request is sent or dead-lettered (`EveryRequestSettles`) |
| `Outbox_api` | 2 requests (one still to create), a worker, 2 API handlers, one of them in dry run, 2 calls | only what was allowed or approved reaches a provider; no early dead letter; a sent row was delivered or simulated |
| `Discovery_race` | 1 job of 2 pages, 2 workers, a crash, 2 worker faults, an overrun lease | a done job was walked; no job fails early; every job ends |
| `Discovery_api` | 2 jobs of 3 pages and 1, bodies shared, a worker, a crash, 3 API calls of any kind | provenance; a cancelled job nobody works on stays cancelled |
| `Intake` | 3 intents, 2 creations, 3 opt-outs, 2 contacts, 2 sets of rules, 2 edits | every outcome has grounds; opt-outs hold; one request per intent |
| `Prospects` | 1 row of evidence, 3 signals, 2 handlers, 4 calls, 2 companies, confidences of 1 and of up to five decimals (`Fine = 2`) | the lead tells its last scoring and its last qualification, its explanation adds up, signals are supported and stay deleted, order is no matter, weaker is never better |
| `Api` | 3 fetches of a source, 2 at once, 1 redirect, 3 URLs (one malformed); 3 sessions with 4 calls of a client, a limit of 2, an outage or death, 2 registrations for one name and a user to add; 2 editors of an opportunity, a task and a note, 5 calls; 2 sessions that extract 3 pages of a site, 4 extractions or entries by hand | vetted connections, bounded redirects, stored bodies; the limit of a window, counters that expire, whole tenants; trails, completion and deletion of records; one company per domain, titles that stand |
| `Outbox_v_recovery`, `Outbox_v_stuck`, `Discovery_v_chain` | | the disagreements of section 4 |

Bounds and why they suffice. Races on a row need two processes; deadlock between claims
needs two rows in both batches and two orders of them. `Outbox_live` has both: a retry commits between
two SELECTs and puts its row last, each claim then locks what the other wants next, and `DeadlockVictim`
aborts one. Its second worker is in dry run, which keeps the run within minutes: it claims, dies
and overruns like the first, and settles what it holds in one way instead of three. A batch larger
than what is left for the other worker needs three requests. A retry, a dead letter and the difference of one between them need
`MaxAttempts = 2`. A stale copy needs one writer that has loaded a row and another that
commits; a second fault may undo what a first one hid, so two crashes are allowed where
loss is the question. Two API calls are the least that make a handler's read and
write straddle another's. In Discovery two pages make a walk that can be
interrupted half-way, a shared body the deduplication, an unreadable one the early end of the
chain. In Intake two edits can each invalidate a different piece of a context
already read, or set and withdraw one between two queries; the three intents share a contact, a
campaign or neither. The initial world of that run is the one in which every rule of the
campaign applies and none objects, so that each edit raises an objection of its own; sessions are
interchangeable (symmetry), and no liveness is checked there.

In Prospects a row torn between two scorings needs four calls (two signals entered one after
the other, two scorings that overlap), and twins of one type that counts once, beside a
signal of another, need three signals. The confidences of that run make every rounding matter: 0.50015 is a
tie for that of detection, and 0.5001 of one type and 0.2686 of another give an intent of 51 and factors that add up to
51.50. The four parts of `Api` share no variable: `part` is chosen
at the start and only that part moves, so their state spaces add up and do not multiply, and what holds
of a part holds of it whatever the others do (theorem `PartsRun`). There a redirect
within the budget and one beyond it, an answer with a safe and an unsafe address, a budget of time
that is used up, a fetch that meets another half-way, a window that ends between a
count and its judgement, an outage on either side of EXPIRE, two registrations that pass the
lookups together, two editors with copies of one row, who log in one order and write in the other, and two extractions that miss each
other's drafts all happen.

`CHECK_DEADLOCK FALSE` throughout: once every request is settled, every budget spent and
nobody calls, the system rests.

Fairness. `FairSpec` asks for weak fairness of a worker's claim and of its processing,
per worker, and of the clock. The worker loops poll until they are stopped, and an
exception in a poll is logged and followed by the next poll (`worker.py:67-75`, and likewise in
`discovery_worker.py`), so a step of a worker that stays possible is taken. That a killed
process is started again, by whoever runs it, is an assumption:
`docker-compose.yml` names no restart policy. The provider stubs answer at once and a fetch has
connect, read and total timeouts, so calls return. Leases and backoffs are compared with the clock,
which advances. Nothing is assumed of people: no API call ever has to happen, and crashes are never
fair. Overruns and crashes are bounded, as a system that crashes for ever settles nothing.

## 4. The disagreements found

Each is a run of its own whose property states what a comment of the code says; TLC
finds the shortest run of the code that violates it.

* `Outbox_v_recovery`, `SingleOwner` (`services/outbox.py:121`). The claim's UPDATE
  re-checks the status, which a recovery does not change: two workers that both
  selected an expired row both win it, one after the other. The docstring calls that impossible.
* `Outbox_v_stuck`, `NoStuckClaim` (`services/outbox.py:202`). A worker that finishes from a
  stale copy clears the lease of a row whose status others have set back to dispatching: the
  row has no lease and no poll looks for it.
* `Discovery_v_chain`, `ChainIsComplete` (`services/discovery_worker.py:157`). A fault
  after a fetch was committed sends the job back to the queue; the retry walks pending sources
  only, so the page that was fetched is never extracted and the job ends done.

Other divergences, met while modelling and not given a run. First those where a
comment or a docstring says otherwise:

* the provider is called before the outcome is committed: a worker that dies in between leaves the message to
  be sent again (`services/outbox.py:241`; `:29-31` says never executed twice). The message carries the request's
  idempotency key in its metadata (`:239`), which none of the providers here looks at (`services/providers.py`).
  `Delivery` with loss is what holds;
* a synchronous dispatch claims the oldest due row of any tenant and, when that is not its own,
  leaves it claimed until its lease ends (`services/outreach.py:154`; `services/outbox.py:27-28` speaks of
  the tenant's own rows);
* a counter whose EXPIRE fails, or whose process dies before it, never expires, and refuses its
  client for good once it is full (`core/limits.py:44`; `:5-6`: "a cache outage never blocks legitimate
  traffic"). `CountersExpire` says that nothing else leaks one;
* two scorings that overlap may leave a row with columns of both (`api/v1/leads.py`;
  `services/scoring.py:14-15`). `LeadTellsItsScoring` holds of the rest;
* `_fit_score` keeps the last signal of a type, so two of them with different confidences give a score that
  depends on the order of rows (`services/scoring.py:8-9`: the same dataset gives the same score);
  `OrderIsNoMatter` holds of the rest. A single weak signal gives less than the 50 that no signal
  gives (`:249`), and `newest` is the oldest (`:304`);
* a signal that was deleted cannot be detected again: the lookup misses it, the unique index does not, and
  the call fails (`services/signal_detection.py`: "Idempotent"); `DeletedIsFinal`;
* every extraction of a page adds its evidence anew (`services/extraction.py:200-205`: "Idempotent"), and one
  that overlaps another may overwrite a title (`:174`: "Enrich, never overwrite"); `TitleStands`
  holds of the rest;
* the content type is checked after the whole body was read (`services/secure_fetcher.py:52-54`), the
  total time only when a hop begins, and an error of the transport is not a `SecureFetchError` and
  escapes `fetch_source` (`services/discovery.py:244`).

Then those of which the repository says nothing:

* overlapping PATCHes can take a campaign out of completed or cancelled
  (`api/v1/campaigns.py:104`; `PatchCampaign` has the step);
* the policy is not evaluated again when a request is sent: an opt-out recorded after
  its creation does not stop it (`services/outbox.py:231`);
* the factors that explain a score are rounded one by one (`services/scoring.py:210`) and their sum on its own
  (`:187`), so what is shown may add up to 51.50 beside a score of 51; `ExplanationAddsUp` says how far
  the two can be apart;
* an edit takes the time of its log entry before its UPDATE gets the row's lock (`models/audit.py:37`,
  `api/v1/opportunities.py:138-148`), and the log is read by that time (`api/v1/audit.py:49`): of two
  edits that overlap, the entry that comes last need not be of the stage that the row was left with.
  `TrailIsStage` says what holds of the log all the same;
* requests that are approved and not yet queued do not count against the daily cap
  (`api/v1/policies.py:99`), so any number can be approved;
* two extractions that both find no company create one each, and every later extraction
  of that domain raises (`services/extraction.py:137`; `OneOfEach` says only a race or a hand does it);
* PATCH to running gives a job no lease, so no poll ever finds it (`api/v1/discovery.py:106`);
* a body that another source has stored is not stored again, and the extraction of the
  fetched source then asks to fetch it first (`api/v1/discovery.py:196`);
* two qualifications that overlap may audit a status that is not written, and two edits of a task
  may leave a completion date on one that is not done (`api/v1/tasks.py:115`);
* two registrations that race, or one with a taken tenant name, fail with a database error
  (`api/v1/auth.py:45`), the rows whole all the same.

## 5. The proofs

Every theorem is proved for all values of the constants, under the named
assumption of its module (`ConstantsAssumption` of Outbox and of Discovery, `IntakeConstants`, `ProspectsConstants` and
`ScoringConstants`, `FetcherConstants`, `AccessConstants`, `RecordConstants`, `DirectoryConstants`), which only says what
shape the constants have: disjoint workers and sessions, positive batch size and attempts, numbers where
numbers are compared, finite sets where sums are taken, confidences between 0 and 1 in whole units of a precision (`Fine`) that may be any, model values
outside the sets they are compared with. The theorems of
`CalmProofs` are also conditional on the regime of the run they generalise: `Calm` (`Outbox_calm`) is no API
call, no crash, no lease that expires under its holder; `Lone` (`Outbox_lossy`) is no API call and one worker
that may die anywhere, any number of times, but holds no row longer than its lease. The two refinements need
moreover that every request is queued at the start and every worker configured to send (`AllSend`).

| module | theorem | property |
|---|---|---|
| `DeliveryProofs` | `DeliveredExactlyOnce` | `ExactlyOnce`: without loss, one delivery if done, none otherwise, exactly the maximum of errors if dead |
| `OutboxProofs` | `TypeCorrectness`, `WellFormedness` | `TypeOK`; the shape of a process |
| `OutboxProofs` | `NothingUnapproved` | `NothingUnapprovedIsSent` |
| `OutboxProofs` | `SentIsExecuted` | `SentWasExecuted` |
| `OutboxProofs` | `DeadLettersAreEarned` | `NoEarlyDeadLetter` |
| `CalmProofs` | `OneOwner` (calm) | `SingleOwner` |
| `CalmProofs` | `ClaimsCarryLeases` (calm) | `NoStuckClaim` |
| `CalmProofs` | `OutcomeHolds` (calm) | `OutcomeIsTrue` |
| `CalmProofs` | `EngineImplementsDelivery` (calm) | `ImplementsDelivery`, without or with loss |
| `CalmProofs` | `LoneClaimsCarryLeases` (lone) | `NoStuckClaim` |
| `CalmProofs` | `LoneEngineImplementsDelivery` (lone) | `ImplementsDelivery` with loss |
| `DiscoveryProofs` | `TypeCorrectness`, `WellPlaced` | `TypeOK`; the place of a process |
| `DiscoveryProofs` | `DoneWasWalked` (nobody sets done by hand) | `DoneMeansWalked` |
| `DiscoveryProofs` | `FailureWasEarned` (nobody sets failed by hand) | `NoEarlyFailure` |
| `DiscoveryProofs` | `ProvenanceHolds` | `Provenance` |
| `DiscoveryProofs` | `CancellationHolds` | `CancelHolds` |
| `IntakeProofs` | `DenialDecides` | a denial decides, for any context |
| `IntakeProofs` | `TypeCorrectness` | `TypeOK` |
| `IntakeProofs` | `OneRequest` | `OneRequestPerIntent` |
| `IntakeProofs` | `DecisionsAreGrounded` | `DecisionIsGrounded` |
| `IntakeProofs` | `OptOutsHold` | `OptOutHolds` |
| `ProspectsProofs` | `TypeCorrectness` | `TypeOK` |
| `ProspectsProofs` | `LeadTells`, `TrailTells` | `LeadTellsItsScoring`, `TrailTellsQualification` |
| `ProspectsProofs` | `DetectionSupported` | `DetectionIsSupported` |
| `ProspectsProofs` | `DeletedStaysGone` | `DeletedIsFinal` |
| `ProspectsProofs` | `Explained` | `ExplanationAddsUp` |
| `ProspectsProofs` | `WeakerNeverBetter` | `WeakerIsNeverBetter` |
| `ProspectsProofs` | `OrderNoMatter` | `OrderIsNoMatter` |
| `ApiProofs` | `FetcherTypes`, `AccessTypes`, `RecordsTypes`, `DirectoryTypes` | the types of the four parts |
| `ApiProofs` | `OnlyVettedConnections` | `ConnectsToVetted` |
| `ApiProofs` | `RedirectsEnd` | `WithinBudget` |
| `ApiProofs` | `FetchedIsStored` | `FetchedHasDocument` |
| `ApiProofs` | `LimitHolds` | `WindowLimit` |
| `ApiProofs` | `CountersExpireEventually` | `CountersExpire` |
| `ApiProofs` | `RegistrationsAreWhole` | `TenantsAreWhole` |
| `ApiProofs` | `DeletionsAreFinal` | `DeletedStaysDeleted` |
| `ApiProofs` | `CompletionHolds` | `DoneIsCompleted` |
| `ApiProofs` | `TrailHolds` | `TrailIsStage` |
| `ApiProofs` | `RowsAreSingle` | `OneOfEach` |
| `ApiProofs` | `TitlesStand` | `TitleStands` |
| `ApiProofs` | `PartsRun` | `ApiSpec` implies the specification of each part |
| `ApiProofs` | `ApiTypes`, `ApiIsSafe` | `ApiTypeOK` and all properties of the run `Api`, of `ApiSpec` |

The arguments:

* **Outbox.** `TypeOK` is not inductive: that a claim returns rows needs to know that what is
  claimed or held was loaded. `WellFormed` adds, per process, what its place
  says of its target, its copies and its answer. For `NothingUnapproved`, call a request
  cleared once policy allowed it or a person approved it after a review. `ApprovalInv` says that
  every status from approved on, and every place in which a process keeps a request it
  is about to enqueue, claim or send (a pending handler, a candidate list, a
  claim, a held row), has cleared requests only. It survives stale copies because a request that is
  cleared stays so.
  `SentIsExecuted` and `DeadLettersAreEarned` share `ToldInv`: what a row says is true, no copy in
  a session counts more attempts than the provider returned errors, and an error in hand is one
  the copy beside it does not count. A flush of a stale copy can then write too small a number of
  attempts, never too large a one, which is why the property bounds errors from below.
* **Outbox, calm.** `CalmInv` says who owns what. A claimed row has a live lease and exactly one
  owner, who holds it or is about to load it; the rows whose locks a claim holds are queued and
  locked by that claim alone; the copy of a held row is the row; and (`Tally`) the row counts every
  call but the one whose answer its owner has in hand. The step that matters is the claim's UPDATE:
  with every lease live, all candidates are queued, so a second claim of the row finds another
  status or waits for the lock. Recovery of an expired lease breaks exactly this, as
  `Outbox_v_recovery` shows. With `Tally` each step maps to one of Delivery: a commit of a
  claim to `Start` of its batch, a provider call to `Deliver` or `Fail`, a write-back to
  `Settle`; every other step leaves the mapped variables alone.
* **Outbox, one worker that dies.** What both regimes give a row that is processed is `Hands`: a held row is
  being dispatched, its copy is the row, and nobody else holds it. The lemmas on a provider call and a
  write-back rest on that alone. `LoneInv` says less than `CalmInv`: a row that is being dispatched has a lease,
  live if the worker owns it, and what the worker is claiming is queued or was left by a death. Nothing is said
  of the calls made, as a call whose worker dies is not in the row. A death with an answer in
  hand maps to `Forget`, one anywhere else to no step; a commit of a claim maps to `Start` of
  the rows that were queued, as those it recovers are at work already. With a second worker this fails: both may
  recover the row that a death left, which is `Outbox_v_recovery`.
* **Discovery.** `Typed` ties each process's place to what it holds. `DoneWasWalked`
  needs `AllWalked`: of a process in a walk, the sources that its job had when it was
  queued and that are still pending are in its `todo`. `FailureWasEarned` needs
  `AllCounted`: the attempt column, and every copy of it, is at most the number of faults.
  `ProvenanceHolds` needs `AllFounded`: between two commits of the chain, what a process
  is about to store has its predecessor already. `CancellationHolds` needs only the types: what a claim
  selected was queued or running, and every other write is to the writer's own current job.
* **Intake.** `DecisionsAreGrounded` rests on `AllFounded`: for a call under way,
  take the context it would decide by if it read now all it has not read yet
  (`Merged`). What stood throughout is an objection to that context, and every
  objection to it was in force at some moment. Each step keeps this: a step of anybody
  else changes each unread piece to what it is now, and lemma `Mixture` says
  that the reasons against a context made of pieces of two others lie between the
  intersection and the union of theirs, as each rule looks at one piece (and at the
  campaign's rules, which is why they must not be edited). When everything is read,
  `Merged` is the context the verdict is taken of. `OptOutsHold` needs `AllHeeded`: an opt-out posted
  all along is in the list, and once the list was read it has been seen.
  `OneRequest` needs only the types and the guard of the unique index.
* **Prospects, the rows.** The inductive invariant is `Inv`. `Shape` says what each handler has read at
  its place and that rows and columns have the values they should. `Support` says what detection owes
  to evidence, of the rows and of a signal about to be inserted; it is kept because evidence is never edited
  or taken away. `CopiesAgree` says that the loaded lead of a handler that nothing of its kind has overtaken
  agrees with the lead in the columns that kind writes, which is what makes the flush of the columns that
  differ write the whole score. `ScoredAddsUp` says of the last scoring what `ExplanationAddsUp`
  says. `DeletedIsFinal` follows from the unique index: the insert looks at deleted rows, and nothing
  clears `deleted`.
* **Prospects, the score.** `Explained`, `WeakerNeverBetter` and `OrderNoMatter` are about `compute_score`
  for any list of signals. A contribution is a rounding of a product, and monotone in the confidence
  (`RoundMonotone`, `WeakerContribution`). A dimension is a rounding of a capped sum: capping term by term
  what is capped in the end gives the same (`SumCapped`), and a sum over signals is one over types of
  the sums of each type (`SumByClass`), which is how the factors come to add up. As they are rounded one by one, their sum
  is off the sum of what they stand for by at most half a hundredth each (`SumRounded`), and the dimension by half
  a point, which is the room `ExplanationAddsUp` leaves, and no more. That the order is no
  matter is that a listing of the rows is a bijection from its positions (`SumRenamed`), and that the lookup
  by type finds the only confidence there is (`ListingFit`). Sums are the library's fold, whose meaning
  `Sums` establishes by induction: existence and uniqueness of a solution of its recursion on the subsets of
  a finite set.
* **Fetcher.** `Vetted` and `Counted` are kept by each hop: a connection is made to an address of
  the answer that was just judged, and hops are counted before the connection, so connections and hops left
  together never exceed the budget. `FetchedIsStored` needs that a source that knows a
  hash has stored a document with it, and that documents are never taken away (`HashesStay`), by
  whichever of two fetches of one body comes second.
* **Access.** For `LimitHolds` (`LimitInv`), the requests served in a window and those counted but
  not judged yet are together at most the limit and at most the counter; a counter that expires starts
  a window in which nothing was served. `CountersExpire` is inductive with the types.
  `RegistrationsAreWhole` (`WholeInv`) ties each draft of a tenant or user to the session that
  writes it and to the form it was given, so a commit writes both rows or none.
* **Records.** Copies are of rows that were live when read (`CopiesAreLive`), a flush writes only
  the columns that differ, and no handler assigns `deleted_at` back to null; so a deletion
  stands whatever is flushed over it. `CompletionHolds` is about tasks nobody edits at the same time:
  the write is then of the row as it is. `TrailHolds` rests on `LogInv`. `Told` is what the property says
  of each log. `Placed` is about a session between its load and its write: the stage it saw is on record, earlier than its
  own entry if it has made one; the time of that is nobody else's (`TimesDiffer`), and it is later than the
  whole log unless the session was overtaken. So an entry whose session was not overtaken extends the chain at its
  end (`WriteTells`), any other marks the row as raced and still leaves the log whole, and a commit of one
  session keeps what is said of the others, as it makes them overtaken if it changed anything (`WritePlaced`).
* **Directory.** `DirectoryInv` adds to the types: a contact's company is seen by whoever sees the
  contact (`Linked`); a draft is of a session that runs, and of one session there is one per address
  (`DraftsAreOwned`); when a draft repeats a committed row, its domain or address is among the `rivals` of its
  session (`RivalsAreNoticed`), so that the commit marks it as doubled; and outside `doubled`, two
  committed rows with one domain or one address are one row (`Singles`). `TitlesStand` is a property of a step: only the commit of
  an extraction writes titles, and it writes one only where the copy had none.
* **The composition.** A step of `Api` is a step of one part and leaves the variables of the others alone, so
  a behaviour of `ApiSpec` is one of each part (`PartsRun`), and the theorems about the parts are about the run.

Checked by TLC only: `NoStuckClaim` with several workers, a crash and an overrun lease (`Outbox_live`); and, out
of the prover's reach, the liveness properties `EveryRequestSettles` and `EveryJobEnds`, as tlapm proves
neither liveness under fairness nor anything about ENABLED. Its provers cannot instantiate a theorem
that takes an operator, the usual induction theorems among them; where a proof needs induction (the sums,
the least of a set of numbers) it is done with sets: a family of subsets, or a set of
numbers, has a minimal element, and the theorems on well-founded orders say so without an operator. No
module declares a recursive operator.

`NoStuckClaim` is a claim about few faults and not about many. With three workers, one request, three
attempts and two leases that expire between a claim's commit and the load of its rows, a
worker comes to load a row that reads as sent with the lease of another's claim, and clears that
lease when it finishes, over a row claimed once more: the stale copy hides the status from the flush.
It takes two workers that stop for longer than a lease within a few milliseconds of code, so the
run keeps to one overrun.

## 6. What is left out, and why

* **Classification of addresses, malformed URLs** (`core/network_safety.py`): constants of Fetcher. Which address
  is private is the answer of a library; what is modelled is when the question is asked.
* **Passwords, tokens, role checks**: each request is checked on its own, before it changes
  anything. Registration and the addition of users are in Access.
* **Further workspaces, activities, templates**: single rows that nothing else here depends on, by the same
  reads, flushes and soft deletes as the rows of Records.
* **Parsing, keyword tables, URL canonicalisation**: constants of Discovery, Detection and Directory. Which
  page yields which evidence does not change the order of the steps.
* **Reads of the API, input validation, the coherence checks of `POST /outreach`, `POST
  /policies/evaluate`**: they refuse a call, or answer one, and change nothing.
* **Transitions of a signal's status, creation of campaigns**: single assignments. The
  score leaves out deleted and dismissed signals, and both are modelled; no other status enters it.
* **Representation error of floats**: scores are scaled integers, with the roundings of the code where
  it rounds.
* **Metrics, logging, start-up, shell, web client**: wiring.

## 7. Plan

Done, in this order: `Outbox` with `Delivery`; `Discovery`; `Policy` and `Intake`; `Scoring`, `Detection` and
`Prospects`; `Fetcher`; `Access`; `Records`; `Directory`; their composition `Api`; the proofs of section 5.

What would come next:

1. Compositions: Intake feeding Outbox, for an abstract specification of a request's life
   from intent to outcome; Discovery and Prospects through the evidence they share.
2. Proofs: the life of a request, once it is composed; `NoStuckClaim` for several workers and one overrun; lemmas on `compute_score` that no run states, such as its behaviour when a signal is added.
3. A run each for campaigns that leave a terminal status and for opt-outs recorded after the
   creation, as far as the repository's own statements contradict them.
