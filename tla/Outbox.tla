------------------------------- MODULE Outbox -------------------------------
(***************************************************************************)
(* The outbox engine (services/outbox.py, worker.py) together with the API *)
(* handlers that touch the same rows (api/v1/outreach.py and               *)
(* services/outreach.py).                                                  *)
(*                                                                         *)
(* Every process (a polling worker, or a request handler of the API) owns  *)
(* one SQLAlchemy session over a READ COMMITTED database.  A session keeps *)
(* the copy of each row it loaded (expire_on_commit=False) and writes back *)
(* only the columns that differ from that copy; `mem' is that copy and     *)
(* OrmFlush that write.  The claim's UPDATE ... RETURNING holds the row    *)
(* locks of a batch until its commit; all other transactions write one row *)
(* and are one atomic step, enabled when no claim holds the row.           *)
(***************************************************************************)
EXTENDS Naturals, Sequences, Functions

CONSTANTS
  Requests,     \* outreach requests (one per idempotency key)
  Workers,      \* processes running `python -m app.worker`
  Sessions,     \* API request handlers that may run at the same time
  Live,         \* processes configured with outreach_enabled and not dry_run
  Backlog,      \* requests that policy allowed and that are queued at the start
  BatchSize,    \* settings.worker_batch_size
  MaxAttempts,  \* settings.worker_max_attempts
  MaxCrashes,   \* bound: processes killed, or polls ended by an exception
  MaxOverruns,  \* bound: leases that expire while their holder is still alive
  MaxOps,       \* bound: API calls on existing requests
  NoRow, NoRequest, NoAnswer   \* model values: nothing loaded, targeted, answered

Procs == Workers \cup Sessions

\* Statuses of a request; "absent" before the row is inserted ("delivered" is never set).
Statuses == {"absent", "pending", "approved", "denied", "queued", "dispatching",
             "sent", "failed", "cancelled"}

\* The columns the engine decides by: lease_until relative to now, next_attempt_at due or not.
Row == [status : Statuses, lease : {"none", "live", "expired"},
        gate : {"open", "closed"}, attempt : Nat]

Candidate == [id : Requests, status : {"queued", "dispatching"}]
Answer == [id : Requests, ok : BOOLEAN]

ASSUME ConstantsAssumption ==
  /\ Backlog \subseteq Requests
  /\ Live \subseteq Procs
  /\ Workers \cap Sessions = {}
  /\ BatchSize \in Nat \ {0}
  /\ MaxAttempts \in Nat \ {0}
  /\ MaxCrashes \in Nat /\ MaxOverruns \in Nat /\ MaxOps \in Nat
  /\ NoRequest \notin Requests /\ NoRow \notin Row /\ NoAnswer \notin Answer

VARIABLES
  row,        \* committed outreach_requests rows
  older,      \* <<q, r>> : q.updated_at is before r.updated_at
  decision,   \* the policy decision each request was created with
  audit,      \* audit entries that name the request
  delivered,  \* provider calls per request that returned ok
  failures,   \* provider calls per request that returned an error
  pc,         \* where each process is
  target,     \* the request an API handler was called for
  cands,      \* candidates a claim has still to try, oldest first
  claimed,    \* claimed_ids of the running claim, in claim order
  held,       \* rows the claim returned that are not processed yet
  mem,        \* copies loaded in the process's session
  answer,     \* the provider's answer not yet written back
  crashes, overruns, ops   \* how much of each bound is used up

vars == <<row, older, decision, audit, delivered, failures, pc, target, cands,
          claimed, held, mem, answer, crashes, overruns, ops>>
channels == <<delivered, failures>>
budget == <<crashes, overruns, ops>>

NewRow(s) == [status |-> s, lease |-> "none", gate |-> "open", attempt |-> 0]

\* updated_at orders the rows totally.
Ages == {o \in SUBSET (Requests \X Requests) :
           /\ \A q, r \in Requests : (<<q, r>> \in o) <=> (q # r /\ <<r, q>> \notin o)
           /\ \A q, r, s \in Requests : <<q, r>> \in o /\ <<r, s>> \in o => <<q, s>> \in o}

Init ==
  /\ row = [r \in Requests |-> NewRow(IF r \in Backlog THEN "queued" ELSE "absent")]
  /\ older \in Ages
  /\ decision = [r \in Requests |-> IF r \in Backlog THEN "ALLOW" ELSE "none"]
  /\ audit = [r \in Requests |-> {}]
  /\ delivered = [r \in Requests |-> 0]
  /\ failures = [r \in Requests |-> 0]
  /\ pc = [p \in Procs |-> "idle"]
  /\ target = [p \in Procs |-> NoRequest]
  /\ cands = [p \in Procs |-> <<>>]
  /\ claimed = [p \in Procs |-> <<>>]
  /\ held = [p \in Procs |-> {}]
  /\ mem = [p \in Procs |-> [r \in Requests |-> NoRow]]
  /\ answer = [p \in Procs |-> NoAnswer]
  /\ crashes = 0 /\ overruns = 0 /\ ops = 0

-----------------------------------------------------------------------------
(* The database and the sessions. *)

\* The rows of s were written in this order: each is now younger than every row before it.
Written(s) ==
  older' = {e \in older : e[1] \notin Range(s) /\ e[2] \notin Range(s)}
           \cup ((Requests \ Range(s)) \X Range(s))
           \cup {<<s[i[1]], s[i[2]]>> : i \in {j \in (DOMAIN s) \X (DOMAIN s) : j[1] < j[2]}}

\* Rows whose lock a running claim holds: updated, not committed.
LockedBy(p) == IF pc[p] = "update" THEN Range(claimed[p]) ELSE {}
Locked(r) == \E p \in Procs : r \in LockedBy(p)

\* Mutant: the attempt counter is not written.
OrmFlushNoAttempt(db, loaded, new) ==
  [status  |-> IF new.status = loaded.status THEN db.status ELSE new.status,
   lease   |-> IF loaded.lease = "none" THEN db.lease ELSE new.lease,
   gate    |-> IF new.status = "queued" THEN "closed" ELSE db.gate,
   attempt |-> db.attempt]

\* A flush sends only the columns of the copy that changed since it was loaded.  Only
\* a retry assigns next_attempt_at, always a new time in the future.
Column(db, loaded, new) == IF new = loaded THEN db ELSE new
OrmFlush(db, loaded, new) ==
  [status  |-> Column(db.status, loaded.status, new.status),
   lease   |-> IF loaded.lease = "none" THEN db.lease ELSE new.lease,
   gate    |-> IF new.status = "queued" THEN "closed" ELSE db.gate,
   attempt |-> Column(db.attempt, loaded.attempt, new.attempt)]

Loaded(p, S) == [mem EXCEPT ![p] = [r \in Requests |-> IF r \in S THEN row[r] ELSE @[r]]]
Audited(r, entry) == [audit EXCEPT ![r] = @ \cup {entry}]

\* The request or the poll is over and its session is closed.
EndSession(p) ==
  /\ pc' = [pc EXCEPT ![p] = "idle"]
  /\ target' = [target EXCEPT ![p] = NoRequest]
  /\ cands' = [cands EXCEPT ![p] = <<>>]
  /\ claimed' = [claimed EXCEPT ![p] = <<>>]
  /\ held' = [held EXCEPT ![p] = {}]
  /\ mem' = [mem EXCEPT ![p] = [r \in Requests |-> NoRow]]
  /\ answer' = [answer EXCEPT ![p] = NoAnswer]

-----------------------------------------------------------------------------
(* API: POST /outreach, /approve, /cancel and the first half of /dispatch. *)

\* Mutant: the decision itself is stored as the status.
StatusIsDecision(d) == d

InitialStatus(d) == CASE d = "ALLOW"  -> "approved"
                      [] d = "REVIEW" -> "pending"
                      [] d = "DENY"   -> "denied"

\* The row is inserted with the status the policy decision calls for.  An ALLOW
\* is audited as outreach.approved before the flush gives the row its id, so that
\* entry names no request.
Create(r, d) ==
  /\ row[r].status = "absent"
  /\ decision' = [decision EXCEPT ![r] = d]
  /\ row' = [row EXCEPT ![r].status = InitialStatus(d)]
  /\ Written(<<r>>)
  /\ UNCHANGED <<audit, channels, pc, target, cands, claimed, held, mem, answer, budget>>

\* A handler reads its row; the check on the status it read comes before any write.
ReadFor(p, r, next) ==
  /\ p \in Sessions /\ pc[p] = "idle"
  /\ ops < MaxOps /\ ops' = ops + 1
  /\ pc' = [pc EXCEPT ![p] = next]
  /\ target' = [target EXCEPT ![p] = r]
  /\ mem' = Loaded(p, {r})
  /\ UNCHANGED <<row, older, decision, audit, channels, cands, claimed, held, answer,
                 crashes, overruns>>

\* Mutant: the check for denied requests is missing.
ApprovableOrDenied == {"pending", "queued", "dispatching", "denied"}

\* What approve accepts; it leaves an approved request as it is.
Approvable == {"pending", "queued", "dispatching"}

ApproveRead(p, r) ==
  /\ row[r].status \in Approvable
  /\ ReadFor(p, r, "approve")

CancelRead(p, r) ==
  /\ row[r].status \in {"pending", "approved", "denied", "queued", "dispatching"}
  /\ ReadFor(p, r, "cancel")

DispatchRead(p, r) ==
  \/ row[r].status = "approved" /\ ReadFor(p, r, "enqueue")
  \/ row[r].status = "queued"   /\ ReadFor(p, r, "select")

\* UPDATE ... SET status = s WHERE id = r, whatever status the row has by now.
SetStatus(r, s) ==
  /\ ~Locked(r)
  /\ row' = [row EXCEPT ![r].status = s]
  /\ Written(<<r>>)

ApproveWrite(p) ==
  /\ pc[p] = "approve"
  /\ SetStatus(target[p], "approved")
  /\ audit' = Audited(target[p], "outreach.approved")
  /\ EndSession(p)
  /\ UNCHANGED <<decision, channels, budget>>

CancelWrite(p) ==
  /\ pc[p] = "cancel"
  /\ SetStatus(target[p], "cancelled")
  /\ EndSession(p)
  /\ UNCHANGED <<decision, audit, channels, budget>>

Enqueue(p) ==
  /\ pc[p] = "enqueue"
  /\ SetStatus(target[p], "queued")
  /\ mem' = [mem EXCEPT ![p][target[p]].status = "queued"]
  /\ pc' = [pc EXCEPT ![p] = "refresh"]
  /\ UNCHANGED <<decision, audit, channels, target, cands, claimed, held, answer, budget>>

Refresh(p) ==
  /\ pc[p] = "refresh"
  /\ mem' = Loaded(p, {target[p]})
  /\ pc' = [pc EXCEPT ![p] = "select"]
  /\ UNCHANGED <<row, older, decision, audit, channels, target, cands, claimed, held,
                 answer, budget>>

-----------------------------------------------------------------------------
(* The claim, shared by the workers' polls and the API's dispatch. *)

\* Mutants: leases are not compared with the clock; expired claims are not looked for.
DueAnyLease == {r \in Requests : \/ row[r].status = "queued" /\ row[r].gate = "open"
                                 \/ row[r].status = "dispatching"}
DueQueuedOnly == {r \in Requests : row[r].status = "queued" /\ row[r].gate = "open"}

Due == {r \in Requests : \/ row[r].status = "queued" /\ row[r].gate = "open"
                         \/ row[r].status = "dispatching" /\ row[r].lease = "expired"}

Limit(p) == IF p \in Workers THEN BatchSize ELSE 1

\* s lists at most n rows of D, least recently updated first.
OldestFirst(s, n, D) ==
  /\ \A i, j \in DOMAIN s : i < j => <<s[i], s[j]>> \in older
  /\ Len(s) = n \/ D \subseteq Range(s)
  /\ \A i \in DOMAIN s, r \in D \ Range(s) : <<s[i], r>> \in older

ClaimSelect(p) ==
  /\ \/ p \in Workers /\ pc[p] = "idle" /\ Due # {}
     \/ p \in Sessions /\ pc[p] = "select"
  /\ \E n \in 0..Limit(p) : \E s \in [1..n -> Due] :
       /\ OldestFirst(s, Limit(p), Due)
       /\ cands' = [cands EXCEPT ![p] =
                      [i \in 1..n |-> [id |-> s[i], status |-> row[s[i]].status]]]
  /\ pc' = [pc EXCEPT ![p] = "update"]
  /\ UNCHANGED <<row, older, decision, audit, channels, target, claimed, held, mem,
                 answer, budget>>

\* Mutant: the UPDATE matches on the id alone.
MatchesById(c) == TRUE

\* The WHERE of the claim's UPDATE: the row still has the status the SELECT saw.
Matches(c) == row[c.id].status = c.status

\* Mutant: the UPDATE takes the row without a lease.
TakenWithoutLease(x) == [x EXCEPT !.status = "dispatching"]

\* The SET of the claim's UPDATE.
Taken(x) == [x EXCEPT !.status = "dispatching", !.lease = "live"]

\* The head candidate's UPDATE has to wait for another claim's row lock.
WaitsFor(p, q) ==
  /\ pc[p] = "update" /\ cands[p] # <<>> /\ q # p
  /\ Matches(Head(cands[p]))
  /\ Head(cands[p]).id \in LockedBy(q)

\* The ORM also applies the UPDATE to a copy in the session when that copy matches.
ClaimUpdate(p) ==
  /\ pc[p] = "update" /\ cands[p] # <<>>
  /\ \A q \in Procs : ~WaitsFor(p, q)
  /\ LET c == Head(cands[p]) IN
       /\ claimed' = [claimed EXCEPT ![p] = IF Matches(c) THEN Append(@, c.id) ELSE @]
       /\ mem' = IF mem[p][c.id] # NoRow /\ mem[p][c.id].status = c.status
                 THEN [mem EXCEPT ![p][c.id] = Taken(@)]
                 ELSE mem
  /\ cands' = [cands EXCEPT ![p] = Tail(@)]
  /\ UNCHANGED <<row, older, decision, audit, channels, pc, target, held, answer, budget>>

ClaimCommit(p) ==
  /\ pc[p] = "update" /\ cands[p] = <<>> /\ claimed[p] # <<>>
  /\ row' = [r \in Requests |-> IF r \in Range(claimed[p]) THEN Taken(row[r]) ELSE row[r]]
  /\ Written(claimed[p])
  /\ pc' = [pc EXCEPT ![p] = "load"]
  /\ UNCHANGED <<decision, audit, channels, target, cands, claimed, held, mem, answer, budget>>

\* Nothing was won: the poll ends, the API refreshes its row and answers.
ClaimNothing(p) ==
  /\ pc[p] = "update" /\ cands[p] = <<>> /\ claimed[p] = <<>>
  /\ EndSession(p)
  /\ UNCHANGED <<row, older, decision, audit, channels, budget>>

\* A worker holds every row it won; the API keeps its own row only (already in its
\* session, so not reloaded) and leaves any other row as the claim made it.
ClaimLoad(p) ==
  /\ pc[p] = "load"
  /\ \/ /\ p \in Workers
        /\ held' = [held EXCEPT ![p] = Range(claimed[p])]
        /\ mem' = Loaded(p, Range(claimed[p]))
        /\ claimed' = [claimed EXCEPT ![p] = <<>>]
        /\ pc' = [pc EXCEPT ![p] = "work"]
        /\ UNCHANGED <<target, cands, answer>>
     \/ /\ target[p] \in Range(claimed[p])
        /\ held' = [held EXCEPT ![p] = {target[p]}]
        /\ claimed' = [claimed EXCEPT ![p] = <<>>]
        /\ pc' = [pc EXCEPT ![p] = "work"]
        /\ UNCHANGED <<target, cands, mem, answer>>
     \/ /\ p \in Sessions /\ target[p] \notin Range(claimed[p])
        /\ EndSession(p)
  /\ UNCHANGED <<row, older, decision, audit, channels, budget>>

\* Two or more claims wait in a cycle: the database aborts one of them.
DeadlockVictim(p) ==
  /\ \E S \in SUBSET Procs :
       /\ p \in S
       /\ \A a \in S : \E b \in S : WaitsFor(a, b)
  /\ EndSession(p)
  /\ UNCHANGED <<row, older, decision, audit, channels, budget>>

-----------------------------------------------------------------------------
(* Processing a claimed request. *)

\* The held row r is written back and the process turns to its next one.
WriteBack(p, r, new) ==
  /\ ~Locked(r)
  /\ row' = [row EXCEPT ![r] = OrmFlush(@, mem[p][r], new)]
  /\ Written(<<r>>)
  /\ IF held[p] = {r}
     THEN EndSession(p)
     ELSE /\ held' = [held EXCEPT ![p] = @ \ {r}]
          /\ mem' = [mem EXCEPT ![p][r] = NoRow]
          /\ answer' = [answer EXCEPT ![p] = NoAnswer]
          /\ pc' = [pc EXCEPT ![p] = "work"]
          /\ UNCHANGED <<target, cands, claimed>>

\* Kill switch or dry run: recorded as sent without calling a provider.
Simulate(p, r) ==
  /\ pc[p] = "work" /\ p \notin Live /\ r \in held[p]
  /\ WriteBack(p, r, [mem[p][r] EXCEPT !.status = "sent", !.lease = "none"])
  /\ audit' = Audited(r, "outreach.simulated")
  /\ UNCHANGED <<decision, channels, budget>>

\* provider.send: the world changes here, the database only in Finish.
Send(p, r, ok) ==
  /\ pc[p] = "work" /\ p \in Live /\ r \in held[p]
  /\ IF ok THEN delivered' = [delivered EXCEPT ![r] = @ + 1] /\ UNCHANGED failures
           ELSE failures' = [failures EXCEPT ![r] = @ + 1] /\ UNCHANGED delivered
  /\ answer' = [answer EXCEPT ![p] = [id |-> r, ok |-> ok]]
  /\ pc' = [pc EXCEPT ![p] = "answered"]
  /\ UNCHANGED <<row, older, decision, audit, target, cands, claimed, held, mem, budget>>

\* Mutant: result.ok is not looked at.
AcceptedAlways(p) == pc[p] = "answered"

Accepted(p) == pc[p] = "answered" /\ answer[p].ok

FinishSent(p) ==
  /\ Accepted(p)
  /\ LET r == answer[p].id IN
       /\ WriteBack(p, r, [mem[p][r] EXCEPT !.status = "sent", !.lease = "none"])
       /\ audit' = Audited(r, "outreach.sent")
  /\ UNCHANGED <<decision, channels, budget>>

\* Mutants: one attempt too many; one too few.
SpentLate(n) == n > MaxAttempts
SpentEarly(n) == n + 1 >= MaxAttempts

Spent(n) == n >= MaxAttempts

\* _mark_retry: back to queued behind a backoff, or failed once the attempts are spent.
FinishRetry(p) ==
  /\ pc[p] = "answered" /\ ~answer[p].ok
  /\ ~Spent(mem[p][answer[p].id].attempt + 1)
  /\ LET r == answer[p].id IN
       WriteBack(p, r, [mem[p][r] EXCEPT !.status = "queued", !.lease = "none",
                                         !.attempt = @ + 1])
  /\ UNCHANGED <<decision, audit, channels, budget>>

FinishFailed(p) ==
  /\ pc[p] = "answered" /\ ~answer[p].ok
  /\ Spent(mem[p][answer[p].id].attempt + 1)
  /\ LET r == answer[p].id IN
       /\ WriteBack(p, r, [mem[p][r] EXCEPT !.status = "failed", !.lease = "none",
                                            !.attempt = @ + 1])
       /\ audit' = Audited(r, "outreach.failed")
  /\ UNCHANGED <<decision, channels, budget>>

-----------------------------------------------------------------------------
(* The environment. *)

\* A process dies, or an exception ends its poll or its request: locks, uncommitted
\* updates and the session are gone, what it committed stays.
Crash(p) ==
  /\ pc[p] # "idle"
  /\ crashes < MaxCrashes /\ crashes' = crashes + 1
  /\ EndSession(p)
  /\ UNCHANGED <<row, older, decision, audit, channels, overruns, ops>>

\* Somebody may still write r back under the lease it took.
Owned(r) == \E p \in Procs : \/ r \in held[p]
                             \/ pc[p] = "load" /\ r \in Range(claimed[p])

\* Only a dispatching row's lease is ever compared with the clock.
LeaseExpire(r) ==
  /\ row[r].status = "dispatching" /\ row[r].lease = "live"
  /\ IF Owned(r) THEN overruns < MaxOverruns /\ overruns' = overruns + 1
                 ELSE UNCHANGED overruns
  /\ row' = [row EXCEPT ![r].lease = "expired"]
  /\ UNCHANGED <<older, decision, audit, channels, pc, target, cands, claimed, held, mem,
                 answer, crashes, ops>>

\* next_attempt_at passes; only a queued row's is ever compared with the clock.
BackoffElapse(r) ==
  /\ row[r].status = "queued" /\ row[r].gate = "closed"
  /\ row' = [row EXCEPT ![r].gate = "open"]
  /\ UNCHANGED <<older, decision, audit, channels, pc, target, cands, claimed, held, mem,
                 answer, budget>>

-----------------------------------------------------------------------------
ApiCall(p, r) == ApproveRead(p, r) \/ CancelRead(p, r) \/ DispatchRead(p, r)
ApiStep(p) == ApproveWrite(p) \/ CancelWrite(p) \/ Enqueue(p) \/ Refresh(p)
Claim(p) == \/ ClaimSelect(p) \/ ClaimUpdate(p) \/ ClaimCommit(p) \/ ClaimNothing(p)
            \/ ClaimLoad(p) \/ DeadlockVictim(p)
Process(p) ==
  \/ \E r \in Requests : Simulate(p, r) \/ \E ok \in BOOLEAN : Send(p, r, ok)
  \/ FinishSent(p) \/ FinishRetry(p) \/ FinishFailed(p)

Next ==
  \/ \E r \in Requests, d \in {"ALLOW", "REVIEW", "DENY"} : Create(r, d)
  \/ \E p \in Sessions, r \in Requests : ApiCall(p, r)
  \/ \E p \in Sessions : ApiStep(p)
  \/ \E p \in Procs : Claim(p) \/ Process(p) \/ Crash(p)
  \/ \E r \in Requests : LeaseExpire(r) \/ BackoffElapse(r)

Spec == Init /\ [][Next]_vars

\* The worker loop polls for ever and its session calls return; clocks advance.
Fairness ==
  /\ \A p \in Workers : WF_vars(Claim(p)) /\ WF_vars(Process(p))
  /\ \A r \in Requests : WF_vars(LeaseExpire(r)) /\ WF_vars(BackoffElapse(r))

FairSpec == Spec /\ Fairness

-----------------------------------------------------------------------------
(* Properties. *)

TypeOK ==
  /\ row \in [Requests -> Row]
  /\ older \subseteq Requests \X Requests
  /\ decision \in [Requests -> {"none", "ALLOW", "REVIEW", "DENY"}]
  /\ audit \in [Requests -> SUBSET {"outreach.approved", "outreach.simulated",
                                    "outreach.sent", "outreach.failed"}]
  /\ delivered \in [Requests -> Nat]
  /\ failures \in [Requests -> Nat]
  /\ pc \in [Procs -> {"idle", "approve", "cancel", "enqueue", "refresh", "select",
                       "update", "load", "work", "answered"}]
  /\ target \in [Procs -> Requests \cup {NoRequest}]
  /\ cands \in [Procs -> Seq(Candidate)]
  /\ claimed \in [Procs -> Seq(Requests)]
  /\ held \in [Procs -> SUBSET Requests]
  /\ mem \in [Procs -> [Requests -> Row \cup {NoRow}]]
  /\ answer \in [Procs -> Answer \cup {NoAnswer}]
  /\ crashes \in 0..MaxCrashes /\ overruns \in 0..MaxOverruns /\ ops \in 0..MaxOps

\* Calls(r): how often a provider was asked to send r.
Calls(r) == delivered[r] + failures[r]

\* A provider is called only for a request that policy allowed, or that policy sent
\* to review and a person approved: the rule of services/outreach.py, whatever the
\* interleaving of approvals, cancellations, dispatches, claims, crashes and leases.
NothingUnapprovedIsSent ==
  \A r \in Requests :
    Calls(r) > 0 => \/ decision[r] = "ALLOW"
                    \/ decision[r] = "REVIEW" /\ "outreach.approved" \in audit[r]

\* A row says sent only after a provider accepted the message or a simulation was
\* recorded, and the audit trail says which (process_request, _simulate).
SentWasExecuted ==
  \A r \in Requests :
    row[r].status = "sent" => \/ "outreach.simulated" \in audit[r]
                              \/ "outreach.sent" \in audit[r] /\ delivered[r] > 0

\* A request is dead-lettered only after worker_max_attempts provider errors: a stale
\* copy of attempt_count never makes an attempt count twice (_mark_retry).
NoEarlyDeadLetter ==
  \A r \in Requests :
    row[r].status = "failed" => failures[r] >= MaxAttempts /\ "outreach.failed" \in audit[r]

\* A claimed row always carries a lease, so that some later poll can recover it
\* (claim_requests looks for lease_until IS NOT NULL).
NoStuckClaim ==
  \A r \in Requests : row[r].status = "dispatching" => row[r].lease # "none"

\* No two processes may write the same claimed row back.
SingleOwner ==
  \A r \in Requests : \A p, q \in Procs :
    (r \in held[p] /\ r \in held[q]) => p = q

\* With no fault, the outcome in the row is what happened at the provider: at most one
\* delivery, at most worker_max_attempts errors, and no delivered message dead-lettered.
OutcomeIsTrue ==
  \A r \in Requests :
    /\ failures[r] <= MaxAttempts
    /\ delivered[r] <= 1
    /\ row[r].status = "failed" => delivered[r] = 0
    /\ row[r].status = "queued" => delivered[r] = 0 /\ failures[r] = row[r].attempt

\* Every queued or claimed request is eventually sent or dead-lettered, through crashes,
\* overrun leases and deadlock victims.
EveryRequestSettles ==
  \A r \in Requests : row[r].status \in {"queued", "dispatching"}
                        ~> row[r].status \in {"sent", "failed"}
=============================================================================
