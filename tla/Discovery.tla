----------------------------- MODULE Discovery -----------------------------
(***************************************************************************)
(* The discovery pipeline: jobs and their sources (services/discovery.py,  *)
(* api/v1/discovery.py), the worker that claims a job and walks each of    *)
(* its sources through fetch, extract and detect (services/                *)
(* discovery_worker.py), and what that leaves behind: raw documents, the   *)
(* company, evidence and signals (services/extraction.py,                  *)
(* services/signal_detection.py).                                          *)
(*                                                                         *)
(* As in Outbox, each process has one session over a READ COMMITTED        *)
(* database, keeps the copies it loaded and flushes only the columns that  *)
(* changed.  A claim is one atomic step at its commit, and any due jobs    *)
(* may be its batch (the lock waits and the oldest-first order of the same *)
(* claim are in Outbox).  All sources are pages of one site, so there is   *)
(* one company to find or create; contacts are found or created likewise.  *)
(***************************************************************************)
EXTENDS Naturals, FiniteSets

CONSTANTS
  Jobs, Sources, Contents,
  JobOf,        \* the job each source belongs to
  Body,         \* what fetching each source returns
  Extractable,  \* contents of a type that extract_page reads
  Telling,      \* contents in which detect_signal_type finds a signal
  Workers, Sessions,
  Backlog,      \* jobs queued at the start, with their sources
  Targets,      \* statuses that PATCH /discovery/jobs is called with
  BatchSize, MaxAttempts,
  MaxCrashes,   \* bound: processes killed, or polls ended by a database error
  MaxUpsets,    \* bound: exceptions other than database errors while walking
  MaxOverruns,  \* bound: leases that expire while their holder is still alive
  MaxOps,       \* bound: API calls
  NoJob, NoSource, NoCopy

Procs == Workers \cup Sessions

ASSUME ConstantsAssumption ==
  /\ JobOf \in [Sources -> Jobs] /\ Body \in [Sources -> Contents]
  /\ Extractable \subseteq Contents /\ Telling \subseteq Contents
  /\ Backlog \subseteq Jobs
  /\ Workers \cap Sessions = {}
  /\ BatchSize \in Nat \ {0} /\ MaxAttempts \in Nat \ {0}
  /\ MaxCrashes \in Nat /\ MaxUpsets \in Nat /\ MaxOverruns \in Nat /\ MaxOps \in Nat
  /\ NoJob \notin Jobs /\ NoSource \notin Sources

\* Statuses of a job; "absent" before POST /discovery/jobs.
JobStatuses == {"absent", "draft", "queued", "running", "fetched", "extracted", "done",
                "failed", "cancelled"}
JobRow == [status : JobStatuses, lease : {"none", "live", "expired"},
           gate : {"open", "closed"}, attempt : Nat]

\* VALID_JOB_TRANSITIONS.
Transitions(status) ==
  CASE status = "draft"     -> {"queued", "cancelled"}
    [] status = "queued"    -> {"running", "cancelled"}
    [] status = "running"   -> {"fetched", "failed", "cancelled"}
    [] status = "fetched"   -> {"extracted", "done", "failed", "cancelled"}
    [] status = "extracted" -> {"done", "failed", "cancelled"}
    [] status = "failed"    -> {"queued", "cancelled"}
    [] OTHER                -> {}

VARIABLES
  job,        \* committed discovery_jobs rows
  src,        \* status of each discovery_sources row
  late,       \* history: sources added when their job was no longer a draft
  doc,        \* the source each raw document is stored under, per content
  companies,  \* company rows with the site's domain
  evidence,   \* evidence rows extracted for each source
  signal,     \* the signal of each content: "none", "live" or "deleted" (deleted_at set)
  faults,     \* history: worker faults each job ran into
  pc, cands, held, cur, todo, page, found, mem,  \* per process, see TypeOK
  crashes, upsets, overruns, ops

world == <<late, doc, companies, evidence, signal>>
session == <<pc, cands, held, cur, todo, page, found, mem>>
budget == <<crashes, upsets, overruns, ops>>
vars == <<job, src, faults, world, session, budget>>

NewJob(status) == [status |-> status, lease |-> "none", gate |-> "open", attempt |-> 0]

Init ==
  /\ job = [j \in Jobs |-> NewJob(IF j \in Backlog THEN "queued" ELSE "absent")]
  /\ src = [s \in Sources |-> IF JobOf[s] \in Backlog THEN "pending" ELSE "absent"]
  /\ late = {}
  /\ doc = [c \in Contents |-> NoSource]
  /\ companies = 0
  /\ evidence = [s \in Sources |-> 0]
  /\ signal = [c \in Contents |-> "none"]
  /\ faults = [j \in Jobs |-> 0]
  /\ pc = [p \in Procs |-> "idle"]
  /\ cands = [p \in Procs |-> {}]
  /\ held = [p \in Procs |-> {}]
  /\ cur = [p \in Procs |-> NoJob]
  /\ todo = [p \in Procs |-> {}]
  /\ page = [p \in Procs |-> NoSource]
  /\ found = [p \in Procs |-> FALSE]
  /\ mem = [p \in Procs |-> [j \in Jobs |-> NoCopy]]
  /\ crashes = 0 /\ upsets = 0 /\ overruns = 0 /\ ops = 0

EndSession(p) ==
  /\ pc' = [pc EXCEPT ![p] = "idle"]
  /\ cands' = [cands EXCEPT ![p] = {}]
  /\ held' = [held EXCEPT ![p] = {}]
  /\ cur' = [cur EXCEPT ![p] = NoJob]
  /\ todo' = [todo EXCEPT ![p] = {}]
  /\ page' = [page EXCEPT ![p] = NoSource]
  /\ found' = [found EXCEPT ![p] = FALSE]
  /\ mem' = [mem EXCEPT ![p] = [j \in Jobs |-> NoCopy]]

\* Only the process's place in the walk changes.
Goto(p, place, s, known) ==
  /\ pc' = [pc EXCEPT ![p] = place]
  /\ page' = [page EXCEPT ![p] = s]
  /\ found' = [found EXCEPT ![p] = known]
  /\ UNCHANGED <<cands, held, cur, mem>>

Loaded(p, J) == [mem EXCEPT ![p] = [j \in Jobs |-> IF j \in J THEN job[j] ELSE @[j]]]

-----------------------------------------------------------------------------
(* Claiming jobs: claim_jobs. *)

\* Mutant: the jobs of a dead worker are not due.
QueuedOnly == {j \in Jobs : job[j].status = "queued" /\ job[j].gate = "open"}

Due == {j \in Jobs : \/ job[j].status = "queued" /\ job[j].gate = "open"
                     \/ job[j].status = "running" /\ job[j].lease = "expired"}

ClaimSelect(p) ==
  /\ p \in Workers /\ pc[p] = "idle"
  /\ \E J \in SUBSET Due \ {{}} :
       /\ \/ Cardinality(J) = BatchSize
          \/ Cardinality(J) < BatchSize /\ J = Due
       /\ cands' = [cands EXCEPT ![p] = {[id |-> j, status |-> job[j].status] : j \in J}]
  /\ pc' = [pc EXCEPT ![p] = "claim"]
  /\ UNCHANGED <<job, src, faults, world, held, cur, todo, page, found, mem, budget>>

\* Mutant: the candidate rows instead of their ids.
WonRows(p) == {c \in cands[p] : job[c.id].status = c.status}

\* Mutant: the UPDATE does not re-check the status.
AllSelected(p) == {c.id : c \in cands[p]}

\* The candidates whose status is still the one the SELECT saw.
Won(p) == {c.id : c \in {d \in cands[p] : job[d.id].status = d.status}}

Taken(x) == [x EXCEPT !.status = "running", !.lease = "live"]

ClaimCommit(p) ==
  /\ pc[p] = "claim"
  /\ job' = [j \in Jobs |-> IF j \in Won(p) THEN Taken(job[j]) ELSE job[j]]
  /\ IF Won(p) = {}
     THEN EndSession(p)
     ELSE /\ pc' = [pc EXCEPT ![p] = "load"]
          /\ held' = [held EXCEPT ![p] = Won(p)]
          /\ cands' = [cands EXCEPT ![p] = {}]
          /\ UNCHANGED <<cur, todo, page, found, mem>>
  /\ UNCHANGED <<src, faults, world, budget>>

ClaimLoad(p) ==
  /\ pc[p] = "load"
  /\ mem' = Loaded(p, held[p])
  /\ pc' = [pc EXCEPT ![p] = "job"]
  /\ UNCHANGED <<job, src, faults, world, cands, held, cur, todo, page, found, budget>>

-----------------------------------------------------------------------------
(* Walking a job's sources: process_job. *)

\* Mutant: the walk skips one of the pending sources.
AllButOnePending(j) ==
  LET P == {s \in Sources : JobOf[s] = j /\ src[s] = "pending"}
  IN  IF P = {} THEN {} ELSE P \ {CHOOSE s \in P : TRUE}

Pending(j) == {s \in Sources : JobOf[s] = j /\ src[s] = "pending"}

StartJob(p, j) ==
  /\ pc[p] = "job" /\ j \in held[p]
  /\ cur' = [cur EXCEPT ![p] = j]
  /\ todo' = [todo EXCEPT ![p] = Pending(j)]
  /\ pc' = [pc EXCEPT ![p] = "walk"]
  /\ UNCHANGED <<job, src, faults, world, cands, held, page, found, mem, budget>>

\* fetch_source, which commits the outcome.  A body seen before is not stored again.
Store(s) == doc' = [doc EXCEPT ![Body[s]] = IF @ = NoSource THEN s ELSE @]

Outcome(s, outcome) ==
  /\ outcome \in {"fetched", "rejected", "failed"}
  /\ src' = [src EXCEPT ![s] = outcome]
  /\ IF outcome = "fetched" THEN Store(s) ELSE UNCHANGED doc

\* Mutant: what follows a fetch does not look at its outcome.
AnyOutcome(outcome) == TRUE

\* _process_source goes on to extraction.
Proceeds(outcome) == outcome = "fetched"

Fetch(p, s, outcome) ==
  /\ pc[p] = "walk" /\ s \in todo[p]
  /\ Outcome(s, outcome)
  /\ todo' = [todo EXCEPT ![p] = @ \ {s}]
  /\ IF Proceeds(outcome) THEN Goto(p, "extract", s, FALSE) ELSE Goto(p, "walk", NoSource, FALSE)
  /\ UNCHANGED <<job, faults, late, companies, evidence, signal, budget>>

\* Where a process goes once extraction, or detection, is done.
Continue(p) == IF p \in Workers THEN Goto(p, "walk", NoSource, FALSE) /\ UNCHANGED todo
               ELSE EndSession(p)

Unsupported(p) ==
  /\ pc[p] = "extract" /\ Body[page[p]] \notin Extractable
  /\ Continue(p)
  /\ UNCHANGED <<job, src, faults, world, budget>>

\* _find_company_by_domain; scalar_one_or_none raises when it finds two rows.
FindCompany(p) ==
  /\ pc[p] = "extract" /\ Body[page[p]] \in Extractable /\ companies < 2
  /\ Goto(p, "ingest", page[p], companies = 1)
  /\ UNCHANGED <<job, src, faults, world, todo, budget>>

\* The company, if none was found, and the evidence are committed together.
Ingest(p) ==
  /\ pc[p] = "ingest"
  /\ companies' = IF found[p] THEN companies ELSE companies + 1
  /\ evidence' = [evidence EXCEPT ![page[p]] = @ + 1]
  /\ IF p \in Workers THEN Goto(p, "detect", page[p], FALSE) /\ UNCHANGED todo
                      ELSE EndSession(p)
  /\ UNCHANGED <<job, src, faults, late, doc, signal, budget>>

\* ingest_evidence looks for a signal that is not deleted, but the unique index also
\* covers deleted ones: inserting again ends the poll, or the request, with an error.
Reinserts(c) == c \in Telling /\ signal[c] = "deleted"
Signalled(c) == signal' = [signal EXCEPT ![c] = IF c \in Telling THEN "live" ELSE @]

Detect(p) ==
  /\ pc[p] = "detect"
  /\ IF Reinserts(Body[page[p]])
     THEN EndSession(p) /\ UNCHANGED signal
     ELSE Continue(p) /\ Signalled(Body[page[p]])
  /\ UNCHANGED <<job, src, faults, late, doc, companies, evidence, budget>>

-----------------------------------------------------------------------------
(* Ending a job. *)

\* A flush sends only the columns of the copy that changed since it was loaded.
Column(db, loaded, new) == IF new = loaded THEN db ELSE new
OrmFlush(db, loaded, new) ==
  [status  |-> Column(db.status, loaded.status, new.status),
   lease   |-> Column(db.lease, loaded.lease, new.lease),
   gate    |-> IF new.status = "queued" THEN "closed" ELSE db.gate,
   attempt |-> Column(db.attempt, loaded.attempt, new.attempt)]

\* The current job is over and the process turns to the next one of its batch.
Leave(p) ==
  IF held[p] = {cur[p]}
  THEN EndSession(p)
  ELSE /\ pc' = [pc EXCEPT ![p] = "job"]
       /\ held' = [held EXCEPT ![p] = @ \ {cur[p]}]
       /\ cur' = [cur EXCEPT ![p] = NoJob]
       /\ todo' = [todo EXCEPT ![p] = {}]
       /\ page' = [page EXCEPT ![p] = NoSource]
       /\ found' = [found EXCEPT ![p] = FALSE]
       /\ UNCHANGED <<cands, mem>>

\* running -> fetched -> extracted -> done, checked against the loaded copy only.
FinishJob(p) ==
  /\ pc[p] = "walk" /\ todo[p] = {}
  /\ LET j == cur[p] IN
       IF "fetched" \in Transitions(mem[p][j].status)
       THEN /\ job' = [job EXCEPT ![j] =
                         OrmFlush(@, mem[p][j],
                                  [mem[p][j] EXCEPT !.status = "done", !.lease = "none"])]
            /\ Leave(p)
       ELSE EndSession(p) /\ UNCHANGED job   \* transition_job raises 409
  /\ UNCHANGED <<src, faults, world, budget>>

\* Mutant: one attempt too few.
SpentEarly(n) == n + 1 >= MaxAttempts

Spent(n) == n >= MaxAttempts

\* _mark_retry; its commit also saves what the failed step had flushed.
MarkRetry(p) ==
  LET j == cur[p]
      n == mem[p][j].attempt + 1
  IN  /\ job' = [job EXCEPT ![j] =
                   OrmFlush(@, mem[p][j],
                            [mem[p][j] EXCEPT !.status = IF Spent(n) THEN "failed" ELSE "queued",
                                              !.lease = "none", !.attempt = n])]
      /\ faults' = [faults EXCEPT ![j] = @ + 1]
      /\ companies' = IF pc[p] = "ingest" /\ ~found[p] THEN companies + 1 ELSE companies
      /\ Leave(p)

\* An exception that is not a database error, while fetching, extracting or detecting.
Upset(p) ==
  /\ p \in Workers /\ pc[p] \in {"walk", "extract", "ingest", "detect"}
  /\ pc[p] = "walk" => todo[p] # {}
  /\ upsets < MaxUpsets /\ upsets' = upsets + 1
  /\ MarkRetry(p)
  /\ UNCHANGED <<src, late, doc, evidence, signal, crashes, overruns, ops>>

\* The site has two company rows: every extraction raises MultipleResultsFound.
TwoCompanies(p) ==
  /\ pc[p] = "extract" /\ Body[page[p]] \in Extractable /\ companies >= 2
  /\ IF p \in Workers THEN MarkRetry(p)
                      ELSE EndSession(p) /\ UNCHANGED <<job, faults, companies>>
  /\ UNCHANGED <<src, late, doc, evidence, signal, budget>>

\* The process dies, or a database error ends its poll: after a failed flush the session
\* refuses further work, so _mark_retry cannot record the attempt either.
Crash(p) ==
  /\ pc[p] # "idle"
  /\ crashes < MaxCrashes /\ crashes' = crashes + 1
  /\ EndSession(p)
  /\ UNCHANGED <<job, src, faults, world, upsets, overruns, ops>>

-----------------------------------------------------------------------------
(* The API. *)

Call == ops < MaxOps /\ ops' = ops + 1 /\ UNCHANGED <<crashes, upsets, overruns>>

CreateJob(j) ==
  /\ Call
  /\ job[j].status = "absent"
  /\ job' = [job EXCEPT ![j].status = "draft"]
  /\ UNCHANGED <<src, faults, world, session>>

\* Sources may be added whatever the job's status is.
AddSource(s) ==
  /\ Call
  /\ job[JobOf[s]].status # "absent" /\ src[s] = "absent"
  /\ src' = [src EXCEPT ![s] = "pending"]
  /\ late' = IF job[JobOf[s]].status = "draft" THEN late ELSE late \cup {s}
  /\ UNCHANGED <<job, faults, doc, companies, evidence, signal, session>>

\* PATCH: the transition is checked on the row the handler read, then written.
PatchRead(p, j, target) ==
  /\ Call
  /\ p \in Sessions /\ pc[p] = "idle"
  /\ target \in Targets \cap Transitions(job[j].status)
  /\ mem' = [mem EXCEPT ![p][j] = [job[j] EXCEPT !.status = target]]
  /\ cur' = [cur EXCEPT ![p] = j]
  /\ pc' = [pc EXCEPT ![p] = "patch"]
  /\ UNCHANGED <<job, src, faults, world, cands, held, todo, page, found>>

PatchWrite(p) ==
  /\ pc[p] = "patch"
  /\ job' = [job EXCEPT ![cur[p]].status = mem[p][cur[p]].status]
  /\ EndSession(p)
  /\ UNCHANGED <<src, faults, world, budget>>

\* POST .../fetch, whatever the source's status is.
ApiFetch(s, outcome) ==
  /\ Call
  /\ src[s] # "absent"
  /\ Outcome(s, outcome)
  /\ UNCHANGED <<job, faults, late, companies, evidence, signal, session>>

\* POST /discovery/raw stores a body without touching the source.
ApiStore(s) ==
  /\ Call
  /\ src[s] # "absent"
  /\ Store(s)
  /\ UNCHANGED <<job, src, faults, late, companies, evidence, signal, session>>

\* POST .../extract needs a document stored under this very source.
ApiExtract(p, s) ==
  /\ Call
  /\ p \in Sessions /\ pc[p] = "idle"
  /\ doc[Body[s]] = s
  /\ Goto(p, "extract", s, FALSE)
  /\ UNCHANGED <<job, src, faults, world, todo>>

\* POST /evidence/{id}/detect-signal.
ApiDetect(s) ==
  /\ Call
  /\ evidence[s] > 0 /\ ~Reinserts(Body[s])
  /\ Signalled(Body[s])
  /\ UNCHANGED <<job, src, faults, late, doc, companies, evidence, session>>

\* DELETE /signals/{id} sets deleted_at.
DeleteSignal(c) ==
  /\ Call
  /\ signal[c] = "live"
  /\ signal' = [signal EXCEPT ![c] = "deleted"]
  /\ UNCHANGED <<job, src, faults, late, doc, companies, evidence, session>>

-----------------------------------------------------------------------------
(* Time. *)

LeaseExpire(j) ==
  /\ job[j].status = "running" /\ job[j].lease = "live"
  /\ IF \E p \in Procs : j \in held[p]
     THEN overruns < MaxOverruns /\ overruns' = overruns + 1
     ELSE UNCHANGED overruns
  /\ job' = [job EXCEPT ![j].lease = "expired"]
  /\ UNCHANGED <<src, faults, world, session, crashes, upsets, ops>>

BackoffElapse(j) ==
  /\ job[j].status = "queued" /\ job[j].gate = "closed"
  /\ job' = [job EXCEPT ![j].gate = "open"]
  /\ UNCHANGED <<src, faults, world, session, budget>>

-----------------------------------------------------------------------------
Claim(p) == ClaimSelect(p) \/ ClaimCommit(p) \/ ClaimLoad(p)
Extract(p) == Unsupported(p) \/ FindCompany(p) \/ TwoCompanies(p) \/ Ingest(p)
Work(p) ==
  \/ \E j \in Jobs : StartJob(p, j)
  \/ \E s \in Sources, outcome \in {"fetched", "rejected", "failed"} : Fetch(p, s, outcome)
  \/ Extract(p) \/ Detect(p) \/ FinishJob(p)
Api ==
  \/ \E j \in Jobs : CreateJob(j)
  \/ \E s \in Sources : AddSource(s) \/ ApiStore(s) \/ ApiDetect(s)
  \/ \E s \in Sources, outcome \in {"fetched", "rejected", "failed"} : ApiFetch(s, outcome)
  \/ \E p \in Sessions, j \in Jobs, target \in JobStatuses : PatchRead(p, j, target)
  \/ \E p \in Sessions, s \in Sources : ApiExtract(p, s)
  \/ \E p \in Sessions : PatchWrite(p)
  \/ \E c \in Contents : DeleteSignal(c)

Next ==
  \/ \E p \in Procs : Claim(p) \/ Work(p) \/ Upset(p) \/ Crash(p)
  \/ Api
  \/ \E j \in Jobs : LeaseExpire(j) \/ BackoffElapse(j)

Spec == Init /\ [][Next]_vars

\* The worker loop polls for ever, its calls return, and clocks advance.
Fairness ==
  /\ \A p \in Workers : WF_vars(Claim(p)) /\ WF_vars(Work(p))
  /\ \A j \in Jobs : WF_vars(LeaseExpire(j)) /\ WF_vars(BackoffElapse(j))

FairSpec == Spec /\ Fairness

-----------------------------------------------------------------------------
(* Properties. *)

TypeOK ==
  /\ job \in [Jobs -> JobRow]
  /\ src \in [Sources -> {"absent", "pending", "fetched", "rejected", "failed"}]
  /\ late \subseteq Sources
  /\ doc \in [Contents -> Sources \cup {NoSource}]
  /\ companies \in Nat
  /\ evidence \in [Sources -> Nat]
  /\ signal \in [Contents -> {"none", "live", "deleted"}]
  /\ faults \in [Jobs -> Nat]
  /\ pc \in [Procs -> {"idle", "claim", "load", "job", "walk", "extract", "ingest",
                       "detect", "patch"}]
  /\ cands \in [Procs -> SUBSET [id : Jobs, status : {"queued", "running"}]]
  /\ held \in [Procs -> SUBSET Jobs]                        \* claimed, not finished
  /\ cur \in [Procs -> Jobs \cup {NoJob}]                   \* the job being walked or patched
  /\ todo \in [Procs -> SUBSET Sources]                     \* its sources still to walk
  /\ page \in [Procs -> Sources \cup {NoSource}]            \* the source being extracted
  /\ found \in [Procs -> BOOLEAN]                           \* the company lookup's answer
  /\ mem \in [Procs -> [Jobs -> JobRow \cup {NoCopy}]]      \* copies loaded in the session
  /\ crashes \in 0..MaxCrashes /\ upsets \in 0..MaxUpsets
  /\ overruns \in 0..MaxOverruns /\ ops \in 0..MaxOps

\* A job is done only when every source it had when it was queued has an outcome,
\* whichever workers raced for it, died, or were sent back to retry (process_job).
DoneMeansWalked ==
  \A s \in Sources : job[JobOf[s]].status = "done" /\ src[s] = "pending" => s \in late

\* Provenance: evidence comes from a stored document and has its company; a signal, from
\* evidence with the same body.  A rejected or failed fetch leads to none of them.
Provenance ==
  /\ \A s \in Sources : evidence[s] > 0 => doc[Body[s]] # NoSource /\ companies > 0
  /\ \A c \in Contents : signal[c] # "none" => \E s \in Sources : Body[s] = c /\ evidence[s] > 0

\* A job fails only after worker_max_attempts worker faults, however stale the copy of
\* attempt_count that a worker writes back (_mark_retry).
NoEarlyFailure == \A j \in Jobs : job[j].status = "failed" => faults[j] >= MaxAttempts

\* Every queued or claimed job ends, through crashes, faults and recoveries.
EveryJobEnds ==
  \A j \in Jobs : job[j].status \in {"queued", "running"}
                    ~> job[j].status \in {"done", "failed", "cancelled"}

\* Every source that was fetched is walked to the end of the chain: a done job's pages
\* of a readable type have evidence.
ChainIsComplete ==
  \A s \in Sources :
    job[JobOf[s]].status = "done" /\ src[s] = "fetched" /\ Body[s] \in Extractable
      => evidence[s] > 0

\* A cancelled job that nobody is working on stays cancelled: a claim that selected it
\* while it was queued does not take it any more (claim_jobs re-checks the status).
CancelHolds ==
  [][\A j \in Jobs :
       job[j].status = "cancelled" /\ (\A p \in Procs : j \notin held[p] /\ cur[p] # j)
         => job'[j].status = "cancelled"]_vars
=============================================================================
