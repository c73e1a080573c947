---------------------------- MODULE OutboxProofs ----------------------------
(***************************************************************************)
(* Machine-checked proofs about Outbox, for any finite or infinite set of  *)
(* requests, workers and sessions and any bounds.                          *)
(***************************************************************************)
EXTENDS Outbox, SequenceTheorems, TLAPS

-----------------------------------------------------------------------------
(* Facts about the operators the actions are built from. *)

\* Writing rows of Requests keeps `older' a relation on Requests.
LEMMA WrittenType ==
  ASSUME TypeOK, NEW s \in Seq(Requests), Written(s)
  PROVE  (older \subseteq Requests \X Requests)'
<1>1. Range(s) \subseteq Requests
  BY RangeOfSeq
<1>2. \A i \in DOMAIN s : s[i] \in Requests
  OBVIOUS
<1>3. \A e \in older : e \in Requests \X Requests
  BY DEF TypeOK
<1>. QED
  BY <1>1, <1>2, <1>3 DEF Written

LEMMA WrittenOneType ==
  ASSUME TypeOK, NEW r \in Requests, Written(<<r>>)
  PROVE  (older \subseteq Requests \X Requests)'
<1>1. <<r>> \in Seq(Requests)
  OBVIOUS
<1>. QED
  BY <1>1, WrittenType

\* Closing a session leaves every per-process variable well typed.
LEMMA EndSessionType ==
  ASSUME TypeOK, NEW p \in Procs, EndSession(p)
  PROVE  /\ pc' \in [Procs -> {"idle", "approve", "cancel", "enqueue", "refresh", "select",
                               "update", "load", "work", "answered"}]
         /\ target' \in [Procs -> Requests \cup {NoRequest}]
         /\ cands' \in [Procs -> Seq(Candidate)]
         /\ claimed' \in [Procs -> Seq(Requests)]
         /\ held' \in [Procs -> SUBSET Requests]
         /\ mem' \in [Procs -> [Requests -> Row \cup {NoRow}]]
         /\ answer' \in [Procs -> Answer \cup {NoAnswer}]
BY DEF EndSession, TypeOK

\* What a flush writes is a row.
LEMMA OrmFlushType ==
  ASSUME NEW db \in Row, NEW loaded \in Row, NEW new \in Row
  PROVE  OrmFlush(db, loaded, new) \in Row
BY DEF OrmFlush, Column, Row

\* Replacing the columns the code assigns leaves a row.
LEMMA RowUpdate ==
  ASSUME NEW x \in Row
  PROVE  /\ \A s \in Statuses : [x EXCEPT !.status = s] \in Row
         /\ \A s \in Statuses, l \in {"none", "live", "expired"} :
              /\ [x EXCEPT !.status = s, !.lease = l] \in Row
              /\ \A n \in Nat : [x EXCEPT !.status = s, !.lease = l, !.attempt = n] \in Row
         /\ \A l \in {"none", "live", "expired"} : [x EXCEPT !.lease = l] \in Row
         /\ \A g \in {"open", "closed"} : [x EXCEPT !.gate = g] \in Row
BY DEF Row

\* A session's copies of committed rows are rows.
LEMMA LoadedType ==
  ASSUME TypeOK, NEW p \in Procs, NEW S
  PROVE  Loaded(p, S) \in [Procs -> [Requests -> Row \cup {NoRow}]]
BY DEF Loaded, TypeOK

\* Adding an audit entry.
LEMMA AuditedType ==
  ASSUME TypeOK, NEW r \in Requests,
         NEW e \in {"outreach.approved", "outreach.simulated", "outreach.sent",
                    "outreach.failed"}
  PROVE  Audited(r, e) \in [Requests -> SUBSET {"outreach.approved", "outreach.simulated",
                                                "outreach.sent", "outreach.failed"}]
BY DEF Audited, TypeOK

\* The audit trail only grows.
LEMMA AuditedGrows ==
  ASSUME TypeOK, NEW r \in Requests, NEW e, NEW q \in Requests
  PROVE  audit[q] \subseteq Audited(r, e)[q]
BY DEF Audited, TypeOK

-----------------------------------------------------------------------------
(* Type correctness, action by action. *)

LEMMA InitType == Init => TypeOK
<1>. SUFFICES ASSUME Init PROVE TypeOK
  OBVIOUS
<1>1. row \in [Requests -> Row]
  BY DEF Init, NewRow, Row, Statuses
<1>2. older \subseteq Requests \X Requests
  BY DEF Init, Ages
<1>3. cands \in [Procs -> Seq(Candidate)] /\ claimed \in [Procs -> Seq(Requests)]
  BY DEF Init
<1>. QED
  BY <1>1, <1>2, <1>3, ConstantsAssumption DEF Init, TypeOK

LEMMA CreateType ==
  ASSUME TypeOK, NEW r \in Requests, NEW d \in {"ALLOW", "REVIEW", "DENY"}, Create(r, d)
  PROVE  TypeOK'
<1>1. PICK s \in Statuses : row' = [row EXCEPT ![r] = [row[r] EXCEPT !.status = s]]
  BY DEF Create, InitialStatus, Statuses
<1>4. row' \in [Requests -> Row]
  BY <1>1, RowUpdate DEF TypeOK
<1>2. (older \subseteq Requests \X Requests)'
  BY WrittenOneType DEF Create
<1>3. decision' \in [Requests -> {"none", "ALLOW", "REVIEW", "DENY"}]
  BY DEF Create, TypeOK
<1>. QED
  BY <1>2, <1>3, <1>4 DEF Create, TypeOK, channels, budget

LEMMA ReadForType ==
  ASSUME TypeOK, NEW p \in Procs, NEW r \in Requests,
         NEW next \in {"approve", "cancel", "enqueue", "select"}, ReadFor(p, r, next)
  PROVE  TypeOK'
<1>1. mem' \in [Procs -> [Requests -> Row \cup {NoRow}]]
  BY LoadedType DEF ReadFor
<1>2. ops' \in 0..MaxOps
  BY ConstantsAssumption DEF ReadFor, TypeOK
<1>. QED
  BY <1>1, <1>2 DEF ReadFor, TypeOK, channels

LEMMA ApiCallType ==
  ASSUME TypeOK, NEW p \in Sessions, NEW r \in Requests, ApiCall(p, r)
  PROVE  TypeOK'
BY ReadForType DEF ApiCall, ApproveRead, CancelRead, DispatchRead, Procs


\* Replacing the status of a row.
LEMMA SetStatusType ==
  ASSUME TypeOK, NEW r \in Requests, NEW s \in Statuses, SetStatus(r, s)
  PROVE  row' \in [Requests -> Row] /\ (older \subseteq Requests \X Requests)'
<1>1. row' = [row EXCEPT ![r] = [row[r] EXCEPT !.status = s]]
  BY DEF SetStatus
<1>3. row' \in [Requests -> Row]
  BY <1>1, RowUpdate DEF TypeOK
<1>2. (older \subseteq Requests \X Requests)'
  BY WrittenOneType DEF SetStatus
<1>. QED
  BY <1>2, <1>3

\* What a process holds is loaded, and what an API handler works on is its target.
Shape == \A p \in Procs :
  /\ p \in Workers => target[p] = NoRequest
  /\ pc[p] \in {"approve", "cancel", "enqueue", "refresh", "select"} => target[p] # NoRequest
  /\ target[p] # NoRequest => mem[p][target[p]] \in Row /\ held[p] \subseteq {target[p]}
  /\ held[p] # {} => pc[p] \in {"work", "answered"}
  /\ \A r \in held[p] : mem[p][r] \in Row
  /\ pc[p] = "answered" => answer[p] \in Answer /\ answer[p].id \in held[p]

WellFormed == TypeOK /\ Shape

LEMMA InitShape == Init => Shape
BY DEF Init, Shape

LEMMA EndSessionShape ==
  ASSUME WellFormed, NEW p \in Procs, EndSession(p)
  PROVE  Shape'
BY DEF EndSession, WellFormed, TypeOK, Shape

LEMMA ReadForShape ==
  ASSUME WellFormed, NEW p \in Sessions, NEW r \in Requests,
         NEW next \in {"approve", "cancel", "enqueue", "select"}, ReadFor(p, r, next)
  PROVE  Shape'
<1>1. p \in Procs /\ p \notin Workers /\ r # NoRequest
  BY ConstantsAssumption DEF Procs
<1>2. ASSUME NEW q \in Procs, q # p
      PROVE  /\ pc'[q] = pc[q] /\ target'[q] = target[q] /\ mem'[q] = mem[q]
             /\ held'[q] = held[q] /\ answer'[q] = answer[q]
  BY <1>1, <1>2 DEF ReadFor, Loaded, WellFormed, TypeOK
<1>3. /\ pc'[p] = next /\ target'[p] = r /\ mem'[p][r] = row[r] /\ held'[p] = {}
  BY <1>1 DEF ReadFor, Loaded, WellFormed, TypeOK, Shape
<1>4. row[r] \in Row
  BY DEF WellFormed, TypeOK
<1>. QED
  BY <1>1, <1>2, <1>3, <1>4 DEF WellFormed, Shape

LEMMA ApiCallOK ==
  ASSUME WellFormed, NEW p \in Sessions, NEW r \in Requests, ApiCall(p, r)
  PROVE  WellFormed'
<1>1. PICK next \in {"approve", "cancel", "enqueue", "select"} : ReadFor(p, r, next)
  BY DEF ApiCall, ApproveRead, CancelRead, DispatchRead
<1>2. p \in Procs
  BY DEF Procs
<1>. QED
  BY <1>1, <1>2, ReadForType, ReadForShape DEF WellFormed

LEMMA ApproveWriteOK ==
  ASSUME WellFormed, NEW p \in Procs, ApproveWrite(p)
  PROVE  WellFormed'
<1>1. target[p] \in Requests
  BY DEF ApproveWrite, WellFormed, TypeOK, Shape
<1>2. TypeOK'
  BY <1>1, SetStatusType, EndSessionType, AuditedType
  DEF ApproveWrite, WellFormed, TypeOK, channels, budget, Statuses
<1>. QED
  BY <1>2, EndSessionShape DEF ApproveWrite, WellFormed

LEMMA CancelWriteOK ==
  ASSUME WellFormed, NEW p \in Procs, CancelWrite(p)
  PROVE  WellFormed'
<1>1. target[p] \in Requests
  BY DEF CancelWrite, WellFormed, TypeOK, Shape
<1>2. TypeOK'
  BY <1>1, SetStatusType, EndSessionType
  DEF CancelWrite, WellFormed, TypeOK, channels, budget, Statuses
<1>. QED
  BY <1>2, EndSessionShape DEF CancelWrite, WellFormed

LEMMA EnqueueOK ==
  ASSUME WellFormed, NEW p \in Procs, Enqueue(p)
  PROVE  WellFormed'
<1>1. target[p] \in Requests /\ mem[p][target[p]] \in Row
  BY DEF Enqueue, WellFormed, TypeOK, Shape
<1>2. [mem[p][target[p]] EXCEPT !.status = "queued"] \in Row
  BY <1>1, RowUpdate DEF Statuses
<1>3. mem' = [mem EXCEPT ![p] = [mem[p] EXCEPT ![target[p]] =
                 [mem[p][target[p]] EXCEPT !.status = "queued"]]]
  BY DEF Enqueue
<1>4. mem' \in [Procs -> [Requests -> Row \cup {NoRow}]]
  BY <1>1, <1>2, <1>3 DEF WellFormed, TypeOK
<1>5. TypeOK'
  BY <1>1, <1>4, SetStatusType
  DEF Enqueue, WellFormed, TypeOK, channels, budget, Statuses
<1>6. held[p] = {}
  BY DEF Enqueue, WellFormed, Shape
<1>9. mem'[p][target[p]] = [mem[p][target[p]] EXCEPT !.status = "queued"]
  BY <1>1, <1>3 DEF WellFormed, TypeOK
<1>7. \A q \in Procs : q # p => mem'[q] = mem[q] /\ pc'[q] = pc[q]
  BY <1>3 DEF Enqueue, WellFormed, TypeOK
<1>8. Shape'
  BY <1>1, <1>2, <1>6, <1>7, <1>9 DEF Enqueue, WellFormed, TypeOK, Shape
<1>. QED
  BY <1>5, <1>8 DEF WellFormed

LEMMA RefreshOK ==
  ASSUME WellFormed, NEW p \in Procs, Refresh(p)
  PROVE  WellFormed'
<1>1. target[p] \in Requests /\ held[p] = {}
  BY DEF Refresh, WellFormed, TypeOK, Shape
<1>2. TypeOK'
  BY LoadedType DEF Refresh, WellFormed, TypeOK, channels, budget
<1>3. mem'[p][target[p]] \in Row
  BY <1>1 DEF Refresh, Loaded, WellFormed, TypeOK
<1>4. \A q \in Procs : q # p => mem'[q] = mem[q] /\ pc'[q] = pc[q]
  BY DEF Refresh, Loaded, WellFormed, TypeOK
<1>5. Shape'
  BY <1>1, <1>3, <1>4 DEF Refresh, WellFormed, TypeOK, Shape
<1>. QED
  BY <1>2, <1>5 DEF WellFormed

LEMMA ClaimSelectOK ==
  ASSUME WellFormed, NEW p \in Procs, ClaimSelect(p)
  PROVE  WellFormed'
<1>. PICK n \in 0..Limit(p) : \E s \in [1..n -> Due] :
       cands' = [cands EXCEPT ![p] = [i \in 1..n |-> [id |-> s[i], status |-> row[s[i]].status]]]
  BY DEF ClaimSelect
<1>1. PICK s \in [1..n -> Due] :
        cands' = [cands EXCEPT ![p] = [i \in 1..n |-> [id |-> s[i], status |-> row[s[i]].status]]]
  OBVIOUS
<1>2. n \in Nat
  BY ConstantsAssumption DEF Limit
<1>3. \A i \in 1..n : [id |-> s[i], status |-> row[s[i]].status] \in Candidate
  BY DEF Due, Candidate
<1>4. [i \in 1..n |-> [id |-> s[i], status |-> row[s[i]].status]] \in Seq(Candidate)
  BY <1>2, <1>3, IsASeq
<1>5. TypeOK'
  BY <1>1, <1>4 DEF ClaimSelect, WellFormed, TypeOK, channels, budget
<1>6. Shape'
  BY DEF ClaimSelect, WellFormed, TypeOK, Shape
<1>. QED
  BY <1>5, <1>6 DEF WellFormed

\* The candidate a claim tries next.
LEMMA HeadCandidate ==
  ASSUME TypeOK, NEW p \in Procs, cands[p] # <<>>
  PROVE  /\ Head(cands[p]) \in Candidate
         /\ Head(cands[p]).id \in Requests
         /\ Tail(cands[p]) \in Seq(Candidate)
<1>1. Head(cands[p]) \in Candidate /\ Tail(cands[p]) \in Seq(Candidate)
  BY HeadTailProperties DEF TypeOK
<1>. QED
  BY <1>1 DEF Candidate

\* Every candidate names a request.
LEMMA CandidateTyped ==
  ASSUME TypeOK, NEW p \in Procs, NEW i \in DOMAIN cands[p]
  PROVE  cands[p][i] \in Candidate /\ cands[p][i].id \in Requests
<1>1. cands[p][i] \in Candidate
  BY DEF TypeOK
<1>. QED
  BY <1>1 DEF Candidate

LEMMA ClaimUpdateOK ==
  ASSUME WellFormed, NEW p \in Procs, ClaimUpdate(p)
  PROVE  WellFormed'
<1>. DEFINE c == Head(cands[p])
<1>1. c.id \in Requests /\ Tail(cands[p]) \in Seq(Candidate)
  BY HeadCandidate DEF ClaimUpdate, WellFormed
<1>2. claimed' \in [Procs -> Seq(Requests)]
  <2>1. Append(claimed[p], c.id) \in Seq(Requests)
    BY <1>1, AppendProperties DEF WellFormed, TypeOK
  <2>. QED
    BY <2>1 DEF ClaimUpdate, WellFormed, TypeOK
<1>3. \/ mem' = mem
      \/ /\ mem[p][c.id] \in Row
         /\ mem' = [mem EXCEPT ![p] = [mem[p] EXCEPT ![c.id] =
                      [mem[p][c.id] EXCEPT !.status = "dispatching", !.lease = "live"]]]
  <2>1. CASE mem[p][c.id] # NoRow /\ mem[p][c.id].status = c.status
    <3>1. mem[p][c.id] \in Row
      BY <1>1, <2>1 DEF WellFormed, TypeOK
    <3>2. mem' = [mem EXCEPT ![p] = [mem[p] EXCEPT ![c.id] =
                    [mem[p][c.id] EXCEPT !.status = "dispatching", !.lease = "live"]]]
      BY <2>1 DEF ClaimUpdate, Taken
    <3>. QED
      BY <3>1, <3>2
  <2>2. CASE ~(mem[p][c.id] # NoRow /\ mem[p][c.id].status = c.status)
    BY <2>2 DEF ClaimUpdate
  <2>. QED
    BY <2>1, <2>2
<1>4. /\ mem' \in [Procs -> [Requests -> Row \cup {NoRow}]]
      /\ \A q \in Procs, r \in Requests : mem[q][r] \in Row => mem'[q][r] \in Row
  <2>1. CASE mem' = mem
    BY <2>1 DEF WellFormed, TypeOK
  <2>2. CASE mem' # mem
    <3>1. [mem[p][c.id] EXCEPT !.status = "dispatching", !.lease = "live"] \in Row
      BY <1>3, <2>2, RowUpdate DEF Statuses
    <3>. DEFINE new == [mem[p][c.id] EXCEPT !.status = "dispatching", !.lease = "live"]
    <3>2. mem' = [mem EXCEPT ![p] = [mem[p] EXCEPT ![c.id] = new]]
      BY <1>3, <2>2
    <3>3. new \in Row
      BY <3>1
    <3>. HIDE DEF new
    <3>4. mem' \in [Procs -> [Requests -> Row \cup {NoRow}]]
      BY <1>1, <3>2, <3>3 DEF WellFormed, TypeOK
    <3>5. \A q \in Procs, r \in Requests : mem'[q][r] = mem[q][r] \/ mem'[q][r] = new
      BY <1>1, <3>2 DEF WellFormed, TypeOK
    <3>. QED
      BY <3>3, <3>4, <3>5
  <2>. QED
    BY <2>1, <2>2
<1>5. TypeOK'
  BY <1>1, <1>2, <1>4 DEF ClaimUpdate, WellFormed, TypeOK, channels, budget
<1>6. UNCHANGED <<pc, target, held, answer>>
  BY DEF ClaimUpdate
<1>7. Shape'
  BY <1>4, <1>6 DEF WellFormed, TypeOK, Shape
<1>. QED
  BY <1>5, <1>7 DEF WellFormed

LEMMA ClaimCommitOK ==
  ASSUME WellFormed, NEW p \in Procs, ClaimCommit(p)
  PROVE  WellFormed'
<1>1. claimed[p] \in Seq(Requests)
  BY DEF WellFormed, TypeOK
<1>2. \A r \in Requests : [row[r] EXCEPT !.status = "dispatching", !.lease = "live"] \in Row
  BY RowUpdate DEF WellFormed, TypeOK, Statuses
<1>3. row' \in [Requests -> Row]
  BY <1>2 DEF ClaimCommit, Taken, WellFormed, TypeOK
<1>4. TypeOK'
  BY <1>1, <1>3, WrittenType DEF ClaimCommit, WellFormed, TypeOK, channels, budget
<1>5. Shape'
  BY DEF ClaimCommit, WellFormed, TypeOK, Shape
<1>. QED
  BY <1>4, <1>5 DEF WellFormed

LEMMA ClaimNothingOK ==
  ASSUME WellFormed, NEW p \in Procs, ClaimNothing(p) \/ DeadlockVictim(p) \/ Crash(p)
  PROVE  WellFormed'
<1>1. EndSession(p)
  BY DEF ClaimNothing, DeadlockVictim, Crash
<1>2. crashes' \in 0..MaxCrashes
  BY ConstantsAssumption
  DEF ClaimNothing, DeadlockVictim, Crash, WellFormed, TypeOK, budget
<1>3. TypeOK'
  BY <1>1, <1>2, EndSessionType
  DEF ClaimNothing, DeadlockVictim, Crash, WellFormed, TypeOK, channels, budget
<1>. QED
  BY <1>1, <1>3, EndSessionShape DEF WellFormed

LEMMA ClaimLoadOK ==
  ASSUME WellFormed, NEW p \in Procs, ClaimLoad(p)
  PROVE  WellFormed'
<1>1. Range(claimed[p]) \subseteq Requests
  BY RangeOfSeq DEF WellFormed, TypeOK
<1>. UNCHANGED <<row, older, decision, audit, delivered, failures, crashes, overruns, ops>>
  BY DEF ClaimLoad, channels, budget
<1>2. CASE /\ p \in Workers
           /\ held' = [held EXCEPT ![p] = Range(claimed[p])]
           /\ mem' = Loaded(p, Range(claimed[p]))
           /\ claimed' = [claimed EXCEPT ![p] = <<>>]
           /\ pc' = [pc EXCEPT ![p] = "work"]
           /\ UNCHANGED <<target, cands, answer>>
  <2>a. mem' \in [Procs -> [Requests -> Row \cup {NoRow}]]
    BY <1>1, <1>2, LoadedType DEF WellFormed
  <2>b. held' \in [Procs -> SUBSET Requests] /\ claimed' \in [Procs -> Seq(Requests)]
    BY <1>1, <1>2 DEF WellFormed, TypeOK
  <2>1. TypeOK'
    BY <1>2, <2>a, <2>b DEF WellFormed, TypeOK
  <2>2. \A r \in held'[p] : mem'[p][r] \in Row
    BY <1>1, <1>2 DEF Loaded, WellFormed, TypeOK
  <2>3. target[p] = NoRequest
    BY <1>2 DEF WellFormed, Shape
  <2>4. \A q \in Procs : q # p => mem'[q] = mem[q] /\ pc'[q] = pc[q] /\ held'[q] = held[q]
    BY <1>2 DEF Loaded, WellFormed, TypeOK
  <2>5. pc'[p] = "work"
    BY <1>2 DEF WellFormed, TypeOK
  <2>6. Shape'
    BY <1>2, <2>2, <2>3, <2>4, <2>5 DEF WellFormed, Shape
  <2>. QED
    BY <2>1, <2>6 DEF WellFormed
<1>3. CASE /\ target[p] \in Range(claimed[p])
           /\ held' = [held EXCEPT ![p] = {target[p]}]
           /\ claimed' = [claimed EXCEPT ![p] = <<>>]
           /\ pc' = [pc EXCEPT ![p] = "work"]
           /\ UNCHANGED <<target, cands, mem, answer>>
  <2>1. TypeOK'
    BY <1>1, <1>3 DEF WellFormed, TypeOK
  <2>2. target[p] # NoRequest
    BY <1>1, <1>3, ConstantsAssumption
  <2>3. Shape'
    BY <1>3, <2>2 DEF WellFormed, TypeOK, Shape
  <2>. QED
    BY <2>1, <2>3 DEF WellFormed
<1>4. CASE EndSession(p)
  <2>1. TypeOK'
    BY <1>4, EndSessionType DEF WellFormed, TypeOK
  <2>. QED
    BY <1>4, <2>1, EndSessionShape DEF WellFormed
<1>. QED
  BY <1>2, <1>3, <1>4 DEF ClaimLoad

LEMMA WriteBackOK ==
  ASSUME WellFormed, NEW p \in Procs, NEW r \in held[p], NEW new \in Row,
         WriteBack(p, r, new)
  PROVE  /\ Shape'
         /\ row' \in [Requests -> Row] /\ older' \subseteq Requests \X Requests
         /\ pc' \in [Procs -> {"idle", "approve", "cancel", "enqueue", "refresh", "select",
                               "update", "load", "work", "answered"}]
         /\ target' \in [Procs -> Requests \cup {NoRequest}]
         /\ cands' \in [Procs -> Seq(Candidate)]
         /\ claimed' \in [Procs -> Seq(Requests)]
         /\ held' \in [Procs -> SUBSET Requests]
         /\ mem' \in [Procs -> [Requests -> Row \cup {NoRow}]]
         /\ answer' \in [Procs -> Answer \cup {NoAnswer}]
<1>1. r \in Requests /\ mem[p][r] \in Row
  BY DEF WellFormed, TypeOK, Shape
<1>2. row' \in [Requests -> Row]
  <2>1. OrmFlush(row[r], mem[p][r], new) \in Row
    BY <1>1, OrmFlushType DEF WellFormed, TypeOK
  <2>. QED
    BY <1>1, <2>1 DEF WriteBack, WellFormed, TypeOK
<1>3. older' \subseteq Requests \X Requests
  BY <1>1, WrittenOneType DEF WriteBack, WellFormed
<1>4. CASE EndSession(p)
  BY <1>2, <1>3, <1>4, EndSessionType, EndSessionShape DEF WellFormed
<1>5. CASE /\ held[p] # {r}
           /\ held' = [held EXCEPT ![p] = @ \ {r}]
           /\ mem' = [mem EXCEPT ![p][r] = NoRow]
           /\ answer' = [answer EXCEPT ![p] = NoAnswer]
           /\ pc' = [pc EXCEPT ![p] = "work"]
           /\ UNCHANGED <<target, cands, claimed>>
  <2>1. target[p] = NoRequest
    BY <1>5 DEF WellFormed, Shape
  <2>2. mem' \in [Procs -> [Requests -> Row \cup {NoRow}]]
    BY <1>1, <1>5 DEF WellFormed, TypeOK
  <2>3. \A q \in Procs : q # p => /\ mem'[q] = mem[q] /\ pc'[q] = pc[q]
                                  /\ held'[q] = held[q] /\ answer'[q] = answer[q]
    BY <1>5 DEF WellFormed, TypeOK
  <2>4. \A q \in held'[p] : mem'[p][q] = mem[p][q] /\ q \in held[p]
    BY <1>1, <1>5 DEF WellFormed, TypeOK
  <2>5. pc'[p] = "work"
    BY <1>5 DEF WellFormed, TypeOK
  <2>6. Shape'
    BY <1>5, <2>1, <2>3, <2>4, <2>5 DEF WellFormed, Shape
  <2>. QED
    BY <1>2, <1>3, <1>5, <2>2, <2>6 DEF WellFormed, TypeOK
<1>. QED
  BY <1>4, <1>5 DEF WriteBack

LEMMA SimulateOK ==
  ASSUME WellFormed, NEW p \in Procs, NEW r \in Requests, Simulate(p, r)
  PROVE  WellFormed'
<1>1. r \in held[p] /\ mem[p][r] \in Row
  BY DEF Simulate, WellFormed, Shape
<1>2. [mem[p][r] EXCEPT !.status = "sent", !.lease = "none"] \in Row
  BY <1>1, RowUpdate DEF Statuses
<1>. QED
  BY <1>1, <1>2, WriteBackOK, AuditedType
  DEF Simulate, WellFormed, TypeOK, channels, budget

LEMMA SendOK ==
  ASSUME WellFormed, NEW p \in Procs, NEW r \in Requests, NEW ok \in BOOLEAN, Send(p, r, ok)
  PROVE  WellFormed'
<1>1. [id |-> r, ok |-> ok] \in Answer
  BY DEF Answer
<1>2. delivered' \in [Requests -> Nat] /\ failures' \in [Requests -> Nat]
  <2>1. \/ delivered' = [delivered EXCEPT ![r] = @ + 1] /\ failures' = failures
        \/ failures' = [failures EXCEPT ![r] = @ + 1] /\ delivered' = delivered
    <3>1. CASE ok
      BY <3>1 DEF Send
    <3>2. CASE ~ok
      BY <3>2 DEF Send
    <3>. QED
      BY <3>1, <3>2
  <2>2. CASE delivered' = [delivered EXCEPT ![r] = @ + 1] /\ failures' = failures
    BY <2>2 DEF WellFormed, TypeOK
  <2>3. CASE failures' = [failures EXCEPT ![r] = @ + 1] /\ delivered' = delivered
    BY <2>3 DEF WellFormed, TypeOK
  <2>. QED
    BY <2>1, <2>2, <2>3
<1>3. TypeOK'
  BY <1>1, <1>2 DEF Send, WellFormed, TypeOK, budget
<1>4. pc'[p] = "answered" /\ answer'[p] = [id |-> r, ok |-> ok] /\ r \in held[p]
  BY DEF Send, WellFormed, TypeOK
<1>5. \A q \in Procs : q # p => pc'[q] = pc[q] /\ answer'[q] = answer[q]
  BY DEF Send, WellFormed, TypeOK
<1>6. Shape'
  BY <1>1, <1>4, <1>5 DEF Send, WellFormed, Shape
<1>. QED
  BY <1>3, <1>6 DEF WellFormed

\* The row a provider's answer is written back to.
LEMMA AnsweredRow ==
  ASSUME WellFormed, NEW p \in Procs, pc[p] = "answered"
  PROVE  /\ answer[p] \in Answer /\ answer[p].id \in held[p] /\ answer[p].id \in Requests
         /\ mem[p][answer[p].id] \in Row
BY DEF WellFormed, TypeOK, Shape

LEMMA FinishOK ==
  ASSUME WellFormed, NEW p \in Procs, FinishSent(p) \/ FinishRetry(p) \/ FinishFailed(p)
  PROVE  WellFormed'
<1>. DEFINE r == answer[p].id
            copy == mem[p][r]
<1>1. r \in held[p] /\ r \in Requests /\ copy \in Row
  BY AnsweredRow DEF FinishSent, Accepted, FinishRetry, FinishFailed
<1>2. copy.attempt + 1 \in Nat
  BY <1>1 DEF Row
<1>3. /\ [copy EXCEPT !.status = "sent", !.lease = "none"] \in Row
      /\ [copy EXCEPT !.status = "queued", !.lease = "none", !.attempt = @ + 1] \in Row
      /\ [copy EXCEPT !.status = "failed", !.lease = "none", !.attempt = @ + 1] \in Row
  BY <1>1, <1>2, RowUpdate DEF Statuses
<1>4. CASE FinishSent(p)
  BY <1>1, <1>3, <1>4, WriteBackOK, AuditedType
  DEF FinishSent, WellFormed, TypeOK, channels, budget
<1>5. CASE FinishRetry(p)
  BY <1>1, <1>3, <1>5, WriteBackOK DEF FinishRetry, WellFormed, TypeOK, channels, budget
<1>6. CASE FinishFailed(p)
  BY <1>1, <1>3, <1>6, WriteBackOK, AuditedType
  DEF FinishFailed, WellFormed, TypeOK, channels, budget
<1>. QED
  BY <1>4, <1>5, <1>6

LEMMA ClockOK ==
  ASSUME WellFormed, NEW r \in Requests, LeaseExpire(r) \/ BackoffElapse(r)
  PROVE  WellFormed'
<1>1. PICK x \in Row : row' = [row EXCEPT ![r] = x]
  <2>1. /\ [row[r] EXCEPT !.lease = "expired"] \in Row
        /\ [row[r] EXCEPT !.gate = "open"] \in Row
    BY RowUpdate DEF WellFormed, TypeOK
  <2>. QED
    BY <2>1 DEF LeaseExpire, BackoffElapse
<1>2. overruns' \in 0..MaxOverruns
  BY ConstantsAssumption DEF LeaseExpire, BackoffElapse, WellFormed, TypeOK, budget
<1>3. TypeOK'
  BY <1>1, <1>2 DEF LeaseExpire, BackoffElapse, WellFormed, TypeOK, channels, budget
<1>4. Shape'
  BY DEF LeaseExpire, BackoffElapse, WellFormed, Shape
<1>. QED
  BY <1>3, <1>4 DEF WellFormed

LEMMA CreateOK ==
  ASSUME WellFormed, NEW r \in Requests, NEW d \in {"ALLOW", "REVIEW", "DENY"}, Create(r, d)
  PROVE  WellFormed'
<1>1. TypeOK'
  BY CreateType DEF WellFormed
<1>2. Shape'
  BY DEF Create, WellFormed, Shape
<1>. QED
  BY <1>1, <1>2 DEF WellFormed

LEMMA StepOK == WellFormed /\ [Next]_vars => WellFormed'
<1>. SUFFICES ASSUME WellFormed, [Next]_vars PROVE WellFormed'
  OBVIOUS
<1>. Sessions \subseteq Procs
  BY DEF Procs
<1>1. ASSUME NEW r \in Requests, NEW d \in {"ALLOW", "REVIEW", "DENY"}, Create(r, d)
      PROVE  WellFormed'
  BY <1>1, CreateOK
<1>2. ASSUME NEW p \in Sessions, NEW r \in Requests, ApiCall(p, r)
      PROVE  WellFormed'
  BY <1>2, ApiCallOK
<1>3. ASSUME NEW p \in Sessions, ApiStep(p)
      PROVE  WellFormed'
  BY <1>3, ApproveWriteOK, CancelWriteOK, EnqueueOK, RefreshOK DEF ApiStep
<1>4. ASSUME NEW p \in Procs, Claim(p)
      PROVE  WellFormed'
  BY <1>4, ClaimSelectOK, ClaimUpdateOK, ClaimCommitOK, ClaimNothingOK, ClaimLoadOK DEF Claim
<1>5. ASSUME NEW p \in Procs, Process(p)
      PROVE  WellFormed'
  BY <1>5, SimulateOK, SendOK, FinishOK DEF Process
<1>6. ASSUME NEW p \in Procs, Crash(p)
      PROVE  WellFormed'
  BY <1>6, ClaimNothingOK
<1>7. ASSUME NEW r \in Requests, LeaseExpire(r) \/ BackoffElapse(r)
      PROVE  WellFormed'
  BY <1>7, ClockOK
<1>8. CASE UNCHANGED vars
  BY <1>8 DEF vars, WellFormed, TypeOK, Shape
<1>. QED
  BY <1>1, <1>2, <1>3, <1>4, <1>5, <1>6, <1>7, <1>8 DEF Next

\* Every variable keeps its type, and every row a process holds or an API handler works on
\* is loaded in its session: no handler ever dereferences a row it has not read.
THEOREM WellFormedness == Spec => []WellFormed
<1>1. Init => WellFormed
  BY InitType, InitShape DEF WellFormed
<1>. QED
  BY <1>1, StepOK, PTL DEF Spec

THEOREM TypeCorrectness == Spec => []TypeOK
<1>1. WellFormed => TypeOK
  BY DEF WellFormed
<1>. QED
  BY <1>1, WellFormedness, PTL

-----------------------------------------------------------------------------
(* Nothing unapproved is sent.  A request is cleared once policy allowed it or a person *)
(* approved it after a review; the statuses from approved on, and every place a process *)
(* keeps a request it is about to enqueue, claim or send, hold cleared requests only.   *)

Cleared(r) == \/ decision[r] = "ALLOW"
              \/ decision[r] = "REVIEW" /\ "outreach.approved" \in audit[r]

RowsCleared == \A r \in Requests :
  /\ row[r].status \in {"approved", "queued", "dispatching", "sent", "failed"} => Cleared(r)
  /\ row[r].status = "pending" => decision[r] = "REVIEW"
  /\ row[r].status = "absent" => decision[r] = "none"
  /\ Calls(r) > 0 => Cleared(r)

WorkCleared == \A p \in Procs :
  /\ pc[p] = "approve" => decision[target[p]] \in {"ALLOW", "REVIEW"}
  /\ pc[p] = "enqueue" => Cleared(target[p])
  /\ \A i \in DOMAIN cands[p] : Cleared(cands[p][i].id)
  /\ \A i \in DOMAIN claimed[p] : Cleared(claimed[p][i])
  /\ \A r \in held[p] : Cleared(r)

ApprovalInv == WellFormed /\ RowsCleared /\ WorkCleared

LEMMA ApprovalInit == Init => ApprovalInv
<1>. SUFFICES ASSUME Init PROVE ApprovalInv
  OBVIOUS
<1>1. WellFormed
  BY InitType, InitShape DEF WellFormed
<1>2. RowsCleared
  BY DEF Init, RowsCleared, Cleared, NewRow, Calls
<1>3. WorkCleared
  BY DEF Init, WorkCleared
<1>. QED
  BY <1>1, <1>2, <1>3 DEF ApprovalInv

\* A step that keeps decisions and only adds audit entries keeps requests cleared.
LEMMA ClearedStays ==
  ASSUME ApprovalInv, UNCHANGED decision,
         \A r \in Requests : audit[r] \subseteq audit'[r]
  PROVE  \A r \in Requests : Cleared(r) => Cleared(r)'
BY DEF Cleared

LEMMA ApprovalCreate ==
  ASSUME ApprovalInv, NEW r \in Requests, NEW d \in {"ALLOW", "REVIEW", "DENY"}, Create(r, d)
  PROVE  RowsCleared' /\ WorkCleared'
<1>1. /\ \A q \in Requests : q # r => decision'[q] = decision[q] /\ row'[q] = row[q]
      /\ decision'[r] = d /\ decision[r] = "none" /\ ~Cleared(r)
      /\ row'[r].status = CASE d = "ALLOW"  -> "approved"
                            [] d = "REVIEW" -> "pending"
                            [] d = "DENY"   -> "denied"
  BY DEF Create, InitialStatus, ApprovalInv, WellFormed, TypeOK, RowsCleared, Cleared
<1>2. UNCHANGED <<audit, delivered, failures, pc, target, cands, claimed, held>>
  BY DEF Create, channels
<1>3. \A q \in Requests : Cleared(q) => Cleared(q)'
  BY <1>1, <1>2 DEF Cleared
<1>4. RowsCleared'
  <2>. SUFFICES ASSUME NEW q \in Requests
                PROVE  /\ row'[q].status \in {"approved", "queued", "dispatching", "sent",
                                              "failed"} => Cleared(q)'
                       /\ row'[q].status = "pending" => decision'[q] = "REVIEW"
                       /\ row'[q].status = "absent" => decision'[q] = "none"
                       /\ Calls(q)' > 0 => Cleared(q)'
    BY DEF RowsCleared
  <2>1. Calls(q)' = Calls(q)
    BY <1>2 DEF Calls
  <2>2. CASE q # r
    BY <1>1, <1>3, <2>1, <2>2 DEF ApprovalInv, RowsCleared
  <2>3. CASE q = r
    BY <1>1, <1>3, <2>1, <2>3 DEF ApprovalInv, RowsCleared, Cleared
  <2>. QED
    BY <2>2, <2>3
<1>5. WorkCleared'
  <2>1. \A p \in Procs : pc[p] = "approve" => target[p] \in Requests
    BY DEF ApprovalInv, WellFormed, TypeOK, Shape
  <2>2. \A p \in Procs : pc[p] = "enqueue" => target[p] \in Requests
    BY DEF ApprovalInv, WellFormed, TypeOK, Shape
  <2>3. \A p \in Procs : \A i \in DOMAIN cands[p] : cands[p][i].id \in Requests
    BY CandidateTyped DEF ApprovalInv, WellFormed
  <2>4. \A p \in Procs : \A i \in DOMAIN claimed[p] : claimed[p][i] \in Requests
    BY DEF ApprovalInv, WellFormed, TypeOK
  <2>5. \A p \in Procs : held[p] \subseteq Requests
    BY DEF ApprovalInv, WellFormed, TypeOK
  <2>6. \A p \in Procs : pc[p] = "approve" => decision'[target[p]] = decision[target[p]]
    BY <1>1, <2>1 DEF ApprovalInv, WorkCleared
  <2>7. \A p \in Procs :
          /\ pc[p] = "enqueue" => Cleared(target[p])'
          /\ \A i \in DOMAIN cands[p] : Cleared(cands[p][i].id)'
          /\ \A i \in DOMAIN claimed[p] : Cleared(claimed[p][i])'
          /\ \A q \in held[p] : Cleared(q)'
    <3>. SUFFICES ASSUME NEW p \in Procs
                  PROVE  /\ pc[p] = "enqueue" => Cleared(target[p])'
                         /\ \A i \in DOMAIN cands[p] : Cleared(cands[p][i].id)'
                         /\ \A i \in DOMAIN claimed[p] : Cleared(claimed[p][i])'
                         /\ \A q \in held[p] : Cleared(q)'
      OBVIOUS
    <3>1. pc[p] = "enqueue" => Cleared(target[p])'
      BY <1>2, <1>3, <2>2 DEF ApprovalInv, WorkCleared
    <3>2. \A i \in DOMAIN cands[p] : Cleared(cands[p][i].id)'
      BY <1>2, <1>3, <2>3 DEF ApprovalInv, WorkCleared
    <3>3. \A i \in DOMAIN claimed[p] : Cleared(claimed[p][i])'
      BY <1>2, <1>3, <2>4 DEF ApprovalInv, WorkCleared
    <3>4. \A q \in held[p] : Cleared(q)'
      BY <1>2, <1>3, <2>5 DEF ApprovalInv, WorkCleared
    <3>. QED
      BY <3>1, <3>2, <3>3, <3>4
  <2>. QED
    BY <1>2, <2>6, <2>7 DEF ApprovalInv, WorkCleared
<1>. QED
  BY <1>4, <1>5

\* What an action must respect to keep every row cleared: no call and no status from
\* approved on for a request that is not cleared afterwards.
LEMMA RowsClearedStep ==
  ASSUME ApprovalInv, UNCHANGED decision, row' \in [Requests -> Row],
         \A r \in Requests : audit[r] \subseteq audit'[r],
         \A r \in Requests : Calls(r)' > 0 => Calls(r) > 0 \/ Cleared(r),
         \A r \in Requests : \/ row'[r].status = row[r].status
                             \/ Cleared(r)' /\ row'[r].status \notin {"pending", "absent"}
                             \/ row'[r].status = "cancelled"
  PROVE  RowsCleared'
<1>1. \A r \in Requests : Cleared(r) => Cleared(r)'
  BY ClearedStays
<1>. SUFFICES ASSUME NEW r \in Requests
              PROVE  /\ row'[r].status \in {"approved", "queued", "dispatching", "sent",
                                            "failed"} => Cleared(r)'
                     /\ row'[r].status = "pending" => decision'[r] = "REVIEW"
                     /\ row'[r].status = "absent" => decision'[r] = "none"
                     /\ Calls(r)' > 0 => Cleared(r)'
  BY DEF RowsCleared
<1>2. Calls(r)' > 0 => Cleared(r)'
  BY <1>1 DEF ApprovalInv, RowsCleared
<1>3. CASE row'[r].status = row[r].status
  BY <1>1, <1>2, <1>3 DEF ApprovalInv, RowsCleared
<1>4. CASE Cleared(r)' /\ row'[r].status \notin {"pending", "absent"}
  BY <1>2, <1>4
<1>5. CASE row'[r].status = "cancelled"
  BY <1>2, <1>5
<1>. QED
  BY <1>3, <1>4, <1>5

\* The same for the work in the processes' hands, when only p's changes.
LEMMA WorkClearedStep ==
  ASSUME ApprovalInv, UNCHANGED decision, NEW p \in Procs,
         \A r \in Requests : audit[r] \subseteq audit'[r],
         \A q \in Procs : q # p => /\ pc'[q] = pc[q] /\ target'[q] = target[q]
                                   /\ cands'[q] = cands[q] /\ claimed'[q] = claimed[q]
                                   /\ held'[q] = held[q],
         pc'[p] = "approve" => decision[target'[p]] \in {"ALLOW", "REVIEW"},
         pc'[p] = "enqueue" => target'[p] \in Requests /\ Cleared(target'[p]),
         \A i \in DOMAIN cands'[p] : cands'[p][i].id \in Requests /\ Cleared(cands'[p][i].id),
         \A i \in DOMAIN claimed'[p] : claimed'[p][i] \in Requests /\ Cleared(claimed'[p][i]),
         \A r \in held'[p] : r \in Requests /\ Cleared(r)
  PROVE  WorkCleared'
<1>1. \A r \in Requests : Cleared(r) => Cleared(r)'
  BY ClearedStays
<1>2. ASSUME NEW r \in Requests, Cleared(r)
      PROVE  \/ decision'[r] = "ALLOW"
             \/ decision'[r] = "REVIEW" /\ "outreach.approved" \in audit'[r]
  BY <1>1, <1>2 DEF Cleared
<1>. SUFFICES ASSUME NEW q \in Procs
              PROVE  /\ pc'[q] = "approve" => decision'[target'[q]] \in {"ALLOW", "REVIEW"}
                     /\ pc'[q] = "enqueue" => Cleared(target[q])'
                     /\ \A i \in DOMAIN cands'[q] : Cleared(cands[q][i].id)'
                     /\ \A i \in DOMAIN claimed'[q] : Cleared(claimed[q][i])'
                     /\ \A r \in held'[q] : Cleared(r)'
  BY Zenon DEF WorkCleared
<1>3. CASE q = p
  BY <1>2, <1>3 DEF Cleared
<1>4. CASE q # p
  <2>1. /\ pc[q] = "enqueue" => target[q] \in Requests
        /\ \A i \in DOMAIN cands[q] : cands[q][i].id \in Requests
        /\ \A i \in DOMAIN claimed[q] : claimed[q][i] \in Requests
        /\ held[q] \subseteq Requests
    <3>1. pc[q] = "enqueue" => target[q] \in Requests
      BY DEF ApprovalInv, WellFormed, TypeOK, Shape
    <3>2. \A i \in DOMAIN cands[q] : cands[q][i].id \in Requests
      BY CandidateTyped DEF ApprovalInv, WellFormed
    <3>3. (\A i \in DOMAIN claimed[q] : claimed[q][i] \in Requests) /\ held[q] \subseteq Requests
      BY DEF ApprovalInv, WellFormed, TypeOK
    <3>. QED
      BY <3>1, <3>2, <3>3
  <2>2. /\ pc[q] = "approve" => decision[target[q]] \in {"ALLOW", "REVIEW"}
        /\ pc[q] = "enqueue" => Cleared(target[q])
        /\ \A i \in DOMAIN cands[q] : Cleared(cands[q][i].id)
        /\ \A i \in DOMAIN claimed[q] : Cleared(claimed[q][i])
        /\ \A r \in held[q] : Cleared(r)
    BY DEF ApprovalInv, WorkCleared
  <2>. QED
    BY <1>2, <1>4, <2>1, <2>2 DEF Cleared
<1>. QED
  BY <1>3, <1>4

LEMMA EndSessionCleared ==
  ASSUME ApprovalInv, UNCHANGED decision, NEW p \in Procs, EndSession(p),
         \A r \in Requests : audit[r] \subseteq audit'[r]
  PROVE  WorkCleared'
<1>1. \A q \in Procs : q # p => /\ pc'[q] = pc[q] /\ target'[q] = target[q]
                                /\ cands'[q] = cands[q] /\ claimed'[q] = claimed[q]
                                /\ held'[q] = held[q]
  BY DEF EndSession, ApprovalInv, WellFormed, TypeOK
<1>2. pc'[p] = "idle" /\ cands'[p] = <<>> /\ claimed'[p] = <<>> /\ held'[p] = {}
  BY DEF EndSession, ApprovalInv, WellFormed, TypeOK
<1>. QED
  BY <1>1, <1>2, WorkClearedStep

\* All the requests in a process's hands are cleared ones.
LEMMA InHand ==
  ASSUME ApprovalInv, NEW p \in Procs
  PROVE  /\ \A i \in DOMAIN cands[p] : cands[p][i].id \in Requests /\ Cleared(cands[p][i].id)
         /\ \A i \in DOMAIN claimed[p] : claimed[p][i] \in Requests /\ Cleared(claimed[p][i])
         /\ \A r \in held[p] : r \in Requests /\ Cleared(r)
         /\ pc[p] \in {"approve", "cancel", "enqueue", "refresh", "select"} => target[p] \in Requests
<1>1. \A i \in DOMAIN cands[p] : cands[p][i].id \in Requests
  BY CandidateTyped DEF ApprovalInv, WellFormed
<1>2. (\A i \in DOMAIN claimed[p] : claimed[p][i] \in Requests) /\ held[p] \subseteq Requests
  BY DEF ApprovalInv, WellFormed, TypeOK
<1>3. pc[p] \in {"approve", "cancel", "enqueue", "refresh", "select"} => target[p] \in Requests
  BY DEF ApprovalInv, WellFormed, TypeOK, Shape
<1>. QED
  BY <1>1, <1>2, <1>3 DEF ApprovalInv, WorkCleared

\* SetStatus changes the status of one row and nothing else.
LEMMA SetStatusEffect ==
  ASSUME TypeOK, NEW r \in Requests, NEW s, SetStatus(r, s)
  PROVE  /\ row'[r].status = s
         /\ \A q \in Requests : q # r => row'[q] = row[q]
<1>1. row' = [row EXCEPT ![r] = [row[r] EXCEPT !.status = s]]
  BY DEF SetStatus
<1>2. row'[r] = [row[r] EXCEPT !.status = s] /\ row[r] \in Row
  BY <1>1 DEF TypeOK
<1>. QED
  BY <1>1, <1>2 DEF TypeOK, Row

LEMMA ApprovalApiCall ==
  ASSUME ApprovalInv, WellFormed', NEW p \in Sessions, NEW r \in Requests, ApiCall(p, r)
  PROVE  RowsCleared' /\ WorkCleared'
<1>. p \in Procs /\ WellFormed /\ row' \in [Requests -> Row]
  BY DEF Procs, ApprovalInv, WellFormed, TypeOK
<1>1. PICK next \in {"approve", "cancel", "enqueue", "select"} :
        /\ ReadFor(p, r, next)
        /\ next = "approve" => row[r].status \in {"pending", "queued", "dispatching"}
        /\ next = "enqueue" => row[r].status = "approved"
  BY DEF ApiCall, ApproveRead, Approvable, CancelRead, DispatchRead
<1>2. UNCHANGED <<row, decision, audit, delivered, failures, cands, claimed, held>>
  BY <1>1 DEF ReadFor, channels
<1>3. RowsCleared'
  BY <1>2, RowsClearedStep DEF Calls
<1>4. /\ pc'[p] = next /\ target'[p] = r
      /\ \A q \in Procs : q # p => pc'[q] = pc[q] /\ target'[q] = target[q]
  BY <1>1 DEF ReadFor, WellFormed, TypeOK
<1>5. next = "approve" => decision[r] \in {"ALLOW", "REVIEW"}
  BY <1>1 DEF ApprovalInv, RowsCleared, Cleared
<1>6. next = "enqueue" => Cleared(r)
  BY <1>1 DEF ApprovalInv, RowsCleared
<1>. QED
  BY <1>2, <1>3, <1>4, <1>5, <1>6, InHand, WorkClearedStep

LEMMA ApprovalApproveWrite ==
  ASSUME ApprovalInv, WellFormed', NEW p \in Procs, ApproveWrite(p)
  PROVE  RowsCleared' /\ WorkCleared'
<1>. WellFormed /\ row' \in [Requests -> Row]
  BY DEF ApprovalInv, WellFormed, TypeOK
<1>1. PICK r \in Requests : r = target[p] /\ decision[r] \in {"ALLOW", "REVIEW"}
  BY InHand DEF ApproveWrite, ApprovalInv, WorkCleared
<1>2. UNCHANGED <<decision, delivered, failures>>
  BY DEF ApproveWrite, channels
<1>3. "outreach.approved" \in audit'[r] /\ \A q \in Requests : audit[q] \subseteq audit'[q]
  BY <1>1 DEF ApproveWrite, Audited, WellFormed, TypeOK
<1>4. Cleared(r)'
  BY <1>1, <1>2, <1>3 DEF Cleared
<1>5. row'[r].status = "approved" /\ \A q \in Requests : q # r => row'[q] = row[q]
  BY <1>1, SetStatusEffect DEF ApproveWrite, WellFormed
<1>6. RowsCleared'
  BY <1>2, <1>3, <1>4, <1>5, RowsClearedStep DEF Calls
<1>7. WorkCleared'
  BY <1>2, <1>3, EndSessionCleared DEF ApproveWrite
<1>. QED
  BY <1>6, <1>7

LEMMA ApprovalCancelWrite ==
  ASSUME ApprovalInv, WellFormed', NEW p \in Procs, CancelWrite(p)
  PROVE  RowsCleared' /\ WorkCleared'
<1>. WellFormed /\ row' \in [Requests -> Row]
  BY DEF ApprovalInv, WellFormed, TypeOK
<1>1. PICK r \in Requests : r = target[p]
  BY InHand DEF CancelWrite
<1>2. UNCHANGED <<decision, audit, delivered, failures>>
  BY DEF CancelWrite, channels
<1>3. row'[r].status = "cancelled" /\ \A q \in Requests : q # r => row'[q] = row[q]
  BY <1>1, SetStatusEffect DEF CancelWrite, WellFormed
<1>4. RowsCleared'
  BY <1>2, <1>3, RowsClearedStep DEF Calls
<1>5. WorkCleared'
  BY <1>2, EndSessionCleared DEF CancelWrite
<1>. QED
  BY <1>4, <1>5

LEMMA ApprovalEnqueue ==
  ASSUME ApprovalInv, WellFormed', NEW p \in Procs, Enqueue(p)
  PROVE  RowsCleared' /\ WorkCleared'
<1>. WellFormed /\ row' \in [Requests -> Row]
  BY DEF ApprovalInv, WellFormed, TypeOK
<1>1. PICK r \in Requests : r = target[p] /\ Cleared(r)
  BY InHand DEF Enqueue, ApprovalInv, WorkCleared
<1>2. UNCHANGED <<decision, audit, delivered, failures, target, cands, claimed, held>>
  BY DEF Enqueue, channels
<1>3. row'[r].status = "queued" /\ \A q \in Requests : q # r => row'[q] = row[q]
  BY <1>1, SetStatusEffect DEF Enqueue, WellFormed
<1>4. Cleared(r)'
  BY <1>1, <1>2 DEF Cleared
<1>5. RowsCleared'
  BY <1>2, <1>3, <1>4, RowsClearedStep DEF Calls
<1>6. pc'[p] = "refresh" /\ \A q \in Procs : q # p => pc'[q] = pc[q]
  BY DEF Enqueue, WellFormed, TypeOK
<1>7. WorkCleared'
  BY <1>2, <1>6, InHand, WorkClearedStep
<1>. QED
  BY <1>5, <1>7

LEMMA ApprovalRefresh ==
  ASSUME ApprovalInv, WellFormed', NEW p \in Procs, Refresh(p)
  PROVE  RowsCleared' /\ WorkCleared'
<1>. WellFormed /\ row' \in [Requests -> Row]
  BY DEF ApprovalInv, WellFormed, TypeOK
<1>2. UNCHANGED <<row, decision, audit, delivered, failures, target, cands, claimed, held>>
  BY DEF Refresh, channels
<1>5. RowsCleared'
  BY <1>2, RowsClearedStep DEF Calls
<1>6. pc'[p] = "select" /\ \A q \in Procs : q # p => pc'[q] = pc[q]
  BY DEF Refresh, WellFormed, TypeOK
<1>7. WorkCleared'
  BY <1>2, <1>6, InHand, WorkClearedStep
<1>. QED
  BY <1>5, <1>7

LEMMA ApprovalClaimSelect ==
  ASSUME ApprovalInv, WellFormed', NEW p \in Procs, ClaimSelect(p)
  PROVE  RowsCleared' /\ WorkCleared'
<1>. WellFormed /\ row' \in [Requests -> Row]
  BY DEF ApprovalInv, WellFormed, TypeOK
<1>. PICK n \in 0..Limit(p) : \E s \in [1..n -> Due] :
       cands' = [cands EXCEPT ![p] = [i \in 1..n |-> [id |-> s[i], status |-> row[s[i]].status]]]
  BY DEF ClaimSelect
<1>1. PICK s \in [1..n -> Due] :
        cands' = [cands EXCEPT ![p] = [i \in 1..n |-> [id |-> s[i], status |-> row[s[i]].status]]]
  OBVIOUS
<1>2. UNCHANGED <<row, decision, audit, delivered, failures, target, claimed, held>>
  BY DEF ClaimSelect, channels
<1>3. RowsCleared'
  BY <1>2, RowsClearedStep DEF Calls
<1>4. pc'[p] = "update" /\ \A q \in Procs : q # p => pc'[q] = pc[q] /\ cands'[q] = cands[q]
  BY <1>1 DEF ClaimSelect, WellFormed, TypeOK
<1>5. \A i \in DOMAIN cands'[p] : cands'[p][i].id \in Due
  BY <1>1 DEF WellFormed, TypeOK
<1>6. \A r \in Due : r \in Requests /\ Cleared(r)
  BY DEF Due, ApprovalInv, RowsCleared
<1>7. WorkCleared'
  BY <1>2, <1>4, <1>5, <1>6, InHand, WorkClearedStep
<1>. QED
  BY <1>3, <1>7

LEMMA ApprovalClaimUpdate ==
  ASSUME ApprovalInv, WellFormed', NEW p \in Procs, ClaimUpdate(p)
  PROVE  RowsCleared' /\ WorkCleared'
<1>. WellFormed /\ row' \in [Requests -> Row]
  BY DEF ApprovalInv, WellFormed, TypeOK
<1>. DEFINE c == Head(cands[p])
<1>1. cands[p] \in Seq(Candidate) /\ cands[p] # <<>> /\ claimed[p] \in Seq(Requests)
  BY DEF ClaimUpdate, WellFormed, TypeOK
<1>2. UNCHANGED <<row, decision, audit, delivered, failures, pc, target, held>>
  BY DEF ClaimUpdate, channels
<1>3. RowsCleared'
  BY <1>2, RowsClearedStep DEF Calls
<1>4. /\ cands'[p] = Tail(cands[p])
      /\ claimed'[p] \in {claimed[p], Append(claimed[p], c.id)}
      /\ \A q \in Procs : q # p => cands'[q] = cands[q] /\ claimed'[q] = claimed[q]
  BY DEF ClaimUpdate, WellFormed, TypeOK
<1>5. c.id \in Requests /\ Cleared(c.id)
  <2>1. c = cands[p][1] /\ 1 \in DOMAIN cands[p]
    BY <1>1
  <2>. QED
    BY <2>1, InHand
<1>6. \A i \in DOMAIN cands'[p] : cands'[p][i].id \in Requests /\ Cleared(cands'[p][i].id)
  <2>1. \A i \in DOMAIN Tail(cands[p]) :
          i + 1 \in DOMAIN cands[p] /\ Tail(cands[p])[i] = cands[p][i + 1]
    BY <1>1
  <2>. QED
    BY <1>4, <2>1, InHand
<1>7. \A i \in DOMAIN claimed'[p] : claimed'[p][i] \in Requests /\ Cleared(claimed'[p][i])
  <2>1. \A i \in DOMAIN Append(claimed[p], c.id) :
          \/ i \in DOMAIN claimed[p] /\ Append(claimed[p], c.id)[i] = claimed[p][i]
          \/ Append(claimed[p], c.id)[i] = c.id
    BY <1>1, <1>5
  <2>. QED
    BY <1>4, <1>5, <2>1, InHand
<1>8. pc'[p] = "update"
  BY <1>2 DEF ClaimUpdate
<1>9. WorkCleared'
  BY <1>2, <1>4, <1>6, <1>7, <1>8, InHand, WorkClearedStep
<1>. QED
  BY <1>3, <1>9

LEMMA ApprovalClaimCommit ==
  ASSUME ApprovalInv, WellFormed', NEW p \in Procs, ClaimCommit(p)
  PROVE  RowsCleared' /\ WorkCleared'
<1>. WellFormed /\ row' \in [Requests -> Row]
  BY DEF ApprovalInv, WellFormed, TypeOK
<1>1. UNCHANGED <<decision, audit, delivered, failures, target, cands, claimed, held>>
  BY DEF ClaimCommit, channels
<1>2. \A r \in Range(claimed[p]) : r \in Requests /\ Cleared(r)
  BY InHand DEF Range
<1>3. \A r \in Requests : IF r \in Range(claimed[p])
                          THEN row'[r].status = "dispatching" ELSE row'[r] = row[r]
  <2>1. \A r \in Requests : [row[r] EXCEPT !.status = "dispatching", !.lease = "live"].status
                              = "dispatching"
    BY DEF WellFormed, TypeOK, Row
  <2>. QED
    BY <2>1 DEF ClaimCommit, Taken
<1>4. \A r \in Range(claimed[p]) : Cleared(r)'
  BY <1>1, <1>2 DEF Cleared
<1>5. RowsCleared'
  BY <1>1, <1>3, <1>4, RowsClearedStep DEF Calls
<1>6. pc'[p] = "load" /\ \A q \in Procs : q # p => pc'[q] = pc[q]
  BY DEF ClaimCommit, WellFormed, TypeOK
<1>7. WorkCleared'
  BY <1>1, <1>6, InHand, WorkClearedStep
<1>. QED
  BY <1>5, <1>7

LEMMA ApprovalSessionEnds ==
  ASSUME ApprovalInv, WellFormed', NEW p \in Procs,
         ClaimNothing(p) \/ DeadlockVictim(p) \/ Crash(p)
  PROVE  RowsCleared' /\ WorkCleared'
<1>1. UNCHANGED <<row, decision, audit, delivered, failures>> /\ EndSession(p)
  BY DEF ClaimNothing, DeadlockVictim, Crash, channels
<1>2. row' \in [Requests -> Row]
  BY DEF WellFormed, TypeOK
<1>. QED
  BY <1>1, <1>2, RowsClearedStep, EndSessionCleared DEF Calls

LEMMA ApprovalClaimLoad ==
  ASSUME ApprovalInv, WellFormed', NEW p \in Procs, ClaimLoad(p)
  PROVE  RowsCleared' /\ WorkCleared'
<1>. WellFormed /\ row' \in [Requests -> Row]
  BY DEF ApprovalInv, WellFormed, TypeOK
<1>1. UNCHANGED <<row, decision, audit, delivered, failures>>
  BY DEF ClaimLoad, channels
<1>2. RowsCleared'
  BY <1>1, RowsClearedStep DEF Calls
<1>3. CASE EndSession(p)
  BY <1>1, <1>2, <1>3, EndSessionCleared
<1>4. CASE ~EndSession(p)
  <2>1. /\ UNCHANGED <<target, cands>>
        /\ claimed' = [claimed EXCEPT ![p] = <<>>]
        /\ pc' = [pc EXCEPT ![p] = "work"]
        /\ \E S \in SUBSET Range(claimed[p]) : held' = [held EXCEPT ![p] = S]
    BY <1>4 DEF ClaimLoad
  <2>2. /\ pc'[p] = "work" /\ claimed'[p] = <<>>
        /\ \A q \in Procs : q # p => /\ pc'[q] = pc[q] /\ claimed'[q] = claimed[q]
                                     /\ held'[q] = held[q]
        /\ held'[p] \subseteq Range(claimed[p])
    BY <2>1 DEF WellFormed, TypeOK
  <2>3. \A r \in Range(claimed[p]) : r \in Requests /\ Cleared(r)
    BY InHand DEF Range
  <2>4. WorkCleared'
    BY <1>1, <2>1, <2>2, <2>3, InHand, WorkClearedStep
  <2>. QED
    BY <1>2, <2>4
<1>. QED
  BY <1>3, <1>4

\* What a write-back can do to statuses: keep them, or give r the status of the new copy.
LEMMA WriteBackStatus ==
  ASSUME WellFormed, NEW p \in Procs, NEW r \in held[p], NEW new \in Row,
         WriteBack(p, r, new)
  PROVE  /\ r \in Requests
         /\ \A q \in Requests : q # r => row'[q] = row[q]
         /\ row'[r].status \in {row[r].status, new.status}
<1>1. r \in Requests
  BY DEF WellFormed, TypeOK
<1>2. row' = [row EXCEPT ![r] = OrmFlush(row[r], mem[p][r], new)]
  BY DEF WriteBack
<1>3. OrmFlush(row[r], mem[p][r], new).status \in {row[r].status, new.status}
  BY DEF OrmFlush, Column
<1>. QED
  BY <1>1, <1>2, <1>3 DEF WellFormed, TypeOK

\* A write-back leaves its process with less work than before.
LEMMA WriteBackCleared ==
  ASSUME ApprovalInv, NEW p \in Procs, NEW r \in held[p], NEW new, WriteBack(p, r, new),
         UNCHANGED decision, \A q \in Requests : audit[q] \subseteq audit'[q]
  PROVE  WorkCleared'
<1>1. CASE EndSession(p)
  BY <1>1, EndSessionCleared
<1>2. CASE ~EndSession(p)
  <2>1. /\ held' = [held EXCEPT ![p] = @ \ {r}]
        /\ pc' = [pc EXCEPT ![p] = "work"]
        /\ UNCHANGED <<target, cands, claimed>>
    BY <1>2 DEF WriteBack
  <2>2. /\ pc'[p] = "work" /\ held'[p] \subseteq held[p]
        /\ \A q \in Procs : q # p => pc'[q] = pc[q] /\ held'[q] = held[q]
    BY <2>1 DEF ApprovalInv, WellFormed, TypeOK
  <2>. QED
    BY <2>1, <2>2, InHand, WorkClearedStep
<1>. QED
  BY <1>1, <1>2

LEMMA ApprovalWriteBack ==
  ASSUME ApprovalInv, WellFormed', NEW p \in Procs, NEW r \in held[p], NEW new \in Row,
         new.status \in {"queued", "sent", "failed"}, WriteBack(p, r, new),
         UNCHANGED <<decision, channels>>, \A q \in Requests : audit[q] \subseteq audit'[q]
  PROVE  RowsCleared' /\ WorkCleared'
<1>. WellFormed /\ row' \in [Requests -> Row]
  BY DEF ApprovalInv, WellFormed, TypeOK
<1>1. /\ r \in Requests
      /\ \A q \in Requests : q # r => row'[q] = row[q]
      /\ row'[r].status \in {row[r].status, new.status}
  BY WriteBackStatus
<1>2. Cleared(r)'
  <2>1. Cleared(r) /\ r \in Requests
    BY InHand
  <2>. QED
    BY <2>1, ClearedStays
<1>3. RowsCleared'
  BY <1>1, <1>2, RowsClearedStep DEF Calls, channels
<1>. QED
  BY <1>3, WriteBackCleared

LEMMA ApprovalSimulate ==
  ASSUME ApprovalInv, WellFormed', NEW p \in Procs, NEW r \in Requests, Simulate(p, r)
  PROVE  RowsCleared' /\ WorkCleared'
<1>. DEFINE new == [mem[p][r] EXCEPT !.status = "sent", !.lease = "none"]
<1>1. r \in held[p] /\ mem[p][r] \in Row
  BY DEF Simulate, ApprovalInv, WellFormed, Shape
<1>2. new \in Row
  BY <1>1, RowUpdate DEF Statuses
<1>3. new.status = "sent"
  BY <1>1 DEF Row
<1>4. WriteBack(p, r, new) /\ UNCHANGED <<decision, channels>>
  BY DEF Simulate
<1>5. \A q \in Requests : audit[q] \subseteq audit'[q]
  BY DEF Simulate, Audited, ApprovalInv, WellFormed, TypeOK
<1>. HIDE DEF new
<1>. QED
  BY <1>1, <1>2, <1>3, <1>4, <1>5, ApprovalWriteBack

LEMMA ApprovalSend ==
  ASSUME ApprovalInv, WellFormed', NEW p \in Procs, NEW r \in Requests, NEW ok \in BOOLEAN,
         Send(p, r, ok)
  PROVE  RowsCleared' /\ WorkCleared'
<1>. WellFormed /\ row' \in [Requests -> Row]
  BY DEF ApprovalInv, WellFormed, TypeOK
<1>1. UNCHANGED <<row, decision, audit, target, cands, claimed, held>>
  BY DEF Send
<1>2. Cleared(r)
  BY InHand DEF Send
<1>3. \A q \in Requests : q # r => delivered'[q] = delivered[q] /\ failures'[q] = failures[q]
  <2>1. CASE ok
    BY <2>1 DEF Send, WellFormed, TypeOK
  <2>2. CASE ~ok
    BY <2>2 DEF Send, WellFormed, TypeOK
  <2>. QED
    BY <2>1, <2>2
<1>4. RowsCleared'
  BY <1>1, <1>2, <1>3, RowsClearedStep DEF Calls
<1>5. pc'[p] = "answered" /\ \A q \in Procs : q # p => pc'[q] = pc[q]
  BY DEF Send, WellFormed, TypeOK
<1>6. WorkCleared'
  BY <1>1, <1>5, InHand, WorkClearedStep
<1>. QED
  BY <1>4, <1>6

\* The three ways an answer is written back, as one: the copy with a new status.
LEMMA FinishEffect ==
  ASSUME WellFormed, NEW p \in Procs, FinishSent(p) \/ FinishRetry(p) \/ FinishFailed(p)
  PROVE  /\ answer[p].id \in held[p] /\ UNCHANGED <<decision, channels>>
         /\ \A q \in Requests : audit[q] \subseteq audit'[q]
         /\ \E new \in Row : /\ new.status \in {"queued", "sent", "failed"}
                             /\ WriteBack(p, answer[p].id, new)
<1>. DEFINE r == answer[p].id
            copy == mem[p][r]
<1>1. r \in held[p] /\ r \in Requests /\ copy \in Row
  BY AnsweredRow DEF FinishSent, Accepted, FinishRetry, FinishFailed
<1>2. UNCHANGED <<decision, channels>> /\ \A q \in Requests : audit[q] \subseteq audit'[q]
  <2>1. UNCHANGED <<decision, channels>>
    BY DEF FinishSent, FinishRetry, FinishFailed
  <2>2. \/ audit' = audit
        \/ audit' = Audited(r, "outreach.sent")
        \/ audit' = Audited(r, "outreach.failed")
    <3>1. CASE FinishSent(p)
      BY <3>1 DEF FinishSent
    <3>2. CASE FinishRetry(p)
      BY <3>2 DEF FinishRetry
    <3>3. CASE FinishFailed(p)
      BY <3>3 DEF FinishFailed
    <3>. QED
      BY <3>1, <3>2, <3>3
  <2>3. \A q \in Requests : audit[q] \subseteq audit'[q]
    BY <1>1, <2>2, AuditedGrows DEF WellFormed
  <2>. QED
    BY <2>1, <2>3
<1>3. CASE FinishSent(p)
  <2>1. [copy EXCEPT !.status = "sent", !.lease = "none"] \in Row
    BY <1>1, RowUpdate DEF Statuses
  <2>2. [copy EXCEPT !.status = "sent", !.lease = "none"].status = "sent"
    BY <1>1 DEF Row
  <2>. QED
    BY <1>1, <1>2, <1>3, <2>1, <2>2 DEF FinishSent
<1>4. CASE FinishRetry(p)
  <2>0. copy.attempt + 1 \in Nat
    BY <1>1 DEF Row
  <2>1. [copy EXCEPT !.status = "queued", !.lease = "none", !.attempt = @ + 1] \in Row
    BY <1>1, <2>0, RowUpdate DEF Statuses
  <2>2. [copy EXCEPT !.status = "queued", !.lease = "none", !.attempt = @ + 1].status = "queued"
    BY <1>1 DEF Row
  <2>. QED
    BY <1>1, <1>2, <1>4, <2>1, <2>2 DEF FinishRetry
<1>5. CASE FinishFailed(p)
  <2>0. copy.attempt + 1 \in Nat
    BY <1>1 DEF Row
  <2>1. [copy EXCEPT !.status = "failed", !.lease = "none", !.attempt = @ + 1] \in Row
    BY <1>1, <2>0, RowUpdate DEF Statuses
  <2>2. [copy EXCEPT !.status = "failed", !.lease = "none", !.attempt = @ + 1].status = "failed"
    BY <1>1 DEF Row
  <2>. QED
    BY <1>1, <1>2, <1>5, <2>1, <2>2 DEF FinishFailed
<1>. QED
  BY <1>3, <1>4, <1>5

LEMMA ApprovalClock ==
  ASSUME ApprovalInv, WellFormed', NEW r \in Requests, LeaseExpire(r) \/ BackoffElapse(r)
  PROVE  RowsCleared' /\ WorkCleared'
<1>1. UNCHANGED <<decision, audit, delivered, failures, pc, target, cands, claimed, held>>
  BY DEF LeaseExpire, BackoffElapse, channels
<1>2. \A q \in Requests : row'[q].status = row[q].status
  <2>1. /\ [row[r] EXCEPT !.lease = "expired"].status = row[r].status
        /\ [row[r] EXCEPT !.gate = "open"].status = row[r].status
    BY DEF ApprovalInv, WellFormed, TypeOK, Row
  <2>2. \/ row' = [row EXCEPT ![r] = [row[r] EXCEPT !.lease = "expired"]]
        \/ row' = [row EXCEPT ![r] = [row[r] EXCEPT !.gate = "open"]]
    BY DEF LeaseExpire, BackoffElapse
  <2>. QED
    BY <2>1, <2>2 DEF ApprovalInv, WellFormed, TypeOK
<1>3. row' \in [Requests -> Row]
  BY DEF WellFormed, TypeOK
<1>4. RowsCleared'
  BY <1>1, <1>2, <1>3, RowsClearedStep DEF Calls
<1>5. WorkCleared'
  BY <1>1 DEF ApprovalInv, WorkCleared, Cleared
<1>. QED
  BY <1>4, <1>5

LEMMA ApprovalStep == ApprovalInv /\ [Next]_vars => ApprovalInv'
<1>. SUFFICES ASSUME ApprovalInv, [Next]_vars PROVE ApprovalInv'
  OBVIOUS
<1>0. WellFormed' /\ WellFormed /\ Sessions \subseteq Procs
  BY StepOK DEF ApprovalInv, Procs
<1>. SUFFICES RowsCleared' /\ WorkCleared'
  BY <1>0 DEF ApprovalInv
<1>1. ASSUME NEW r \in Requests, NEW d \in {"ALLOW", "REVIEW", "DENY"}, Create(r, d)
      PROVE  RowsCleared' /\ WorkCleared'
  BY <1>1, ApprovalCreate
<1>2. ASSUME NEW p \in Sessions, NEW r \in Requests, ApiCall(p, r)
      PROVE  RowsCleared' /\ WorkCleared'
  BY <1>0, <1>2, ApprovalApiCall
<1>3. ASSUME NEW p \in Sessions, ApiStep(p)
      PROVE  RowsCleared' /\ WorkCleared'
  BY <1>0, <1>3, ApprovalApproveWrite, ApprovalCancelWrite, ApprovalEnqueue, ApprovalRefresh
  DEF ApiStep
<1>4. ASSUME NEW p \in Procs, Claim(p) \/ Crash(p)
      PROVE  RowsCleared' /\ WorkCleared'
  BY <1>0, <1>4, ApprovalClaimSelect, ApprovalClaimUpdate, ApprovalClaimCommit,
     ApprovalSessionEnds, ApprovalClaimLoad DEF Claim
<1>5. ASSUME NEW p \in Procs, Process(p)
      PROVE  RowsCleared' /\ WorkCleared'
  <2>1. CASE \E r \in Requests : Simulate(p, r) \/ \E ok \in BOOLEAN : Send(p, r, ok)
    BY <1>0, <2>1, ApprovalSimulate, ApprovalSend
  <2>2. CASE FinishSent(p) \/ FinishRetry(p) \/ FinishFailed(p)
    BY <1>0, <2>2, FinishEffect, ApprovalWriteBack
  <2>. QED
    BY <1>5, <2>1, <2>2 DEF Process
<1>6. ASSUME NEW r \in Requests, LeaseExpire(r) \/ BackoffElapse(r)
      PROVE  RowsCleared' /\ WorkCleared'
  BY <1>0, <1>6, ApprovalClock
<1>7. CASE UNCHANGED vars
  BY <1>7 DEF vars, ApprovalInv, RowsCleared, WorkCleared, Cleared, Calls
<1>. QED
  BY <1>1, <1>2, <1>3, <1>4, <1>5, <1>6, <1>7 DEF Next

\* Nothing unapproved is sent: a provider is called only for a request that policy allowed
\* or a person approved after a review, for any number of workers and API calls, through
\* any crash, expired lease, stale copy or lost update.
THEOREM NothingUnapproved == Spec => []NothingUnapprovedIsSent
<1>1. ApprovalInv => NothingUnapprovedIsSent
  BY DEF ApprovalInv, RowsCleared, Cleared, NothingUnapprovedIsSent
<1>. QED
  BY <1>1, ApprovalInit, ApprovalStep, PTL DEF Spec
-----------------------------------------------------------------------------
(* The outcome a row reports is what happened.  No copy of a row counts more     *)
(* attempts than the provider returned errors, and an error not written back yet *)
(* is one that the copy in hand does not count; so an attempt is never counted    *)
(* twice, however stale the copy.                                                *)

\* What a row says of its request is true.
Told(r) ==
  /\ row[r].attempt <= failures[r]
  /\ row[r].status = "sent" => \/ "outreach.simulated" \in audit[r]
                               \/ "outreach.sent" \in audit[r] /\ delivered[r] > 0
  /\ row[r].status = "failed" => failures[r] >= MaxAttempts /\ "outreach.failed" \in audit[r]

\* No copy in a session counts an error that did not happen.
CopiesTold ==
  \A p \in Procs, r \in Requests : mem[p][r] \in Row => mem[p][r].attempt <= failures[r]

\* The answer in hand was given, and the copy in hand does not count it yet.
AnswersTold ==
  \A p \in Procs : pc[p] = "answered" =>
    IF answer[p].ok THEN delivered[answer[p].id] > 0
                    ELSE mem[p][answer[p].id].attempt < failures[answer[p].id]

ToldInv == WellFormed /\ (\A r \in Requests : Told(r)) /\ CopiesTold /\ AnswersTold

\* What happened stays: calls are counted up, the audit trail is only added to.
Grows == \A r \in Requests : /\ delivered[r] <= delivered'[r] /\ failures[r] <= failures'[r]
                             /\ audit[r] \subseteq audit'[r]

LEMMA ToldInit == Init => ToldInv
<1>. SUFFICES ASSUME Init PROVE ToldInv
  OBVIOUS
<1>1. WellFormed
  BY InitType, InitShape DEF WellFormed
<1>2. \A r \in Requests : Told(r)
  BY DEF Init, Told, NewRow
<1>3. CopiesTold
  BY ConstantsAssumption DEF Init, CopiesTold
<1>4. AnswersTold
  BY DEF Init, AnswersTold
<1>. QED
  BY <1>1, <1>2, <1>3, <1>4 DEF ToldInv

\* A row whose attempts are kept and whose status is kept or not an outcome stays true.
LEMMA ToldStays ==
  ASSUME WellFormed, WellFormed', Grows, NEW r \in Requests, Told(r),
         row'[r].attempt = row[r].attempt,
         row'[r].status = row[r].status \/ row'[r].status \notin {"sent", "failed"}
  PROVE  Told(r)'
<1>1. /\ row[r].attempt \in Nat /\ delivered[r] \in Nat /\ delivered'[r] \in Nat
      /\ failures[r] \in Nat /\ failures'[r] \in Nat
  BY DEF WellFormed, TypeOK, Row
<1>. QED
  BY <1>1, ConstantsAssumption DEF Told, Grows

\* Copies that are loaded now, or keep their attempts, count no error that did not happen.
LEMMA CopiesStay ==
  ASSUME ToldInv, WellFormed', Grows,
         \A p \in Procs, r \in Requests :
           mem'[p][r] \in Row => \/ mem'[p][r] = row[r]
                                 \/ mem[p][r] \in Row /\ mem'[p][r].attempt = mem[p][r].attempt
  PROVE  CopiesTold'
<1>. SUFFICES ASSUME NEW p \in Procs, NEW r \in Requests, mem'[p][r] \in Row
              PROVE  mem'[p][r].attempt <= failures'[r]
  BY DEF CopiesTold
<1>1. mem'[p][r].attempt <= failures[r] /\ mem'[p][r].attempt \in Nat
  BY DEF ToldInv, CopiesTold, Told, Row
<1>2. failures[r] \in Nat /\ failures'[r] \in Nat /\ failures[r] <= failures'[r]
  BY DEF ToldInv, WellFormed, TypeOK, Grows
<1>. QED
  BY <1>1, <1>2

\* Answers that are kept with the copy they belong to stay true.
LEMMA AnswersStay ==
  ASSUME ToldInv, WellFormed', Grows, NEW q \in Procs, pc[q] = "answered",
         answer'[q] = answer[q],
         mem'[q][answer[q].id].attempt = mem[q][answer[q].id].attempt
  PROVE  IF answer'[q].ok THEN delivered'[answer'[q].id] > 0
                          ELSE mem'[q][answer'[q].id].attempt < failures'[answer'[q].id]
<1>. DEFINE r == answer[q].id
<1>1. r \in Requests /\ mem[q][r].attempt \in Nat
  BY AnsweredRow DEF ToldInv, Row
<1>2. /\ delivered[r] \in Nat /\ delivered'[r] \in Nat
      /\ failures[r] \in Nat /\ failures'[r] \in Nat
  BY <1>1 DEF ToldInv, WellFormed, TypeOK
<1>. QED
  BY <1>1, <1>2 DEF ToldInv, AnswersTold, Grows

\* What an action must respect to keep every row, copy and answer true.
LEMMA ToldStep ==
  ASSUME ToldInv, WellFormed', Grows,
         \A r \in Requests :
           \/ Told(r)'
           \/ /\ row'[r].attempt = row[r].attempt
              /\ row'[r].status = row[r].status \/ row'[r].status \notin {"sent", "failed"},
         \A p \in Procs, r \in Requests :
           mem'[p][r] \in Row => \/ mem'[p][r] = row[r]
                                 \/ mem[p][r] \in Row /\ mem'[p][r].attempt = mem[p][r].attempt,
         \A q \in Procs : pc'[q] = "answered" =>
           /\ pc[q] = "answered" /\ answer'[q] = answer[q]
           /\ mem'[q][answer[q].id].attempt = mem[q][answer[q].id].attempt
  PROVE  ToldInv'
<1>1. \A r \in Requests : Told(r)'
  BY ToldStays DEF ToldInv
<1>2. CopiesTold'
  BY CopiesStay
<1>3. AnswersTold'
  BY AnswersStay DEF AnswersTold
<1>. QED
  BY <1>1, <1>2, <1>3 DEF ToldInv

\* A session that ends takes its copies and its answer with it.
LEMMA EndSessionEffect ==
  ASSUME WellFormed, NEW p \in Procs, EndSession(p)
  PROVE  /\ \A q \in Procs, r \in Requests : mem'[q][r] \in Row => mem'[q][r] = mem[q][r]
         /\ \A q \in Procs : pc'[q] = "answered" =>
              /\ pc[q] = "answered" /\ answer'[q] = answer[q]
              /\ mem'[q][answer[q].id] = mem[q][answer[q].id]
<1>1. \A q \in Procs : q # p => /\ mem'[q] = mem[q] /\ pc'[q] = pc[q]
                                /\ answer'[q] = answer[q]
  BY DEF EndSession, WellFormed, TypeOK
<1>2. pc'[p] = "idle" /\ \A r \in Requests : mem'[p][r] = NoRow
  BY DEF EndSession, WellFormed, TypeOK
<1>. QED
  BY <1>1, <1>2, ConstantsAssumption

LEMMA ToldCreate ==
  ASSUME ToldInv, WellFormed', NEW r \in Requests, NEW d \in {"ALLOW", "REVIEW", "DENY"},
         Create(r, d)
  PROVE  ToldInv'
<1>1. UNCHANGED <<audit, delivered, failures, pc, mem, answer>>
  BY DEF Create, channels
<1>2. Grows
  BY <1>1 DEF Grows, ToldInv, WellFormed, TypeOK
<1>3. row' = [row EXCEPT ![r] = [row[r] EXCEPT !.status = InitialStatus(d)]]
  BY DEF Create
<1>4. InitialStatus(d) \notin {"sent", "failed"}
  BY DEF InitialStatus
<1>5. \A q \in Requests : /\ row'[q].attempt = row[q].attempt
                          /\ \/ row'[q].status = row[q].status
                             \/ row'[q].status \notin {"sent", "failed"}
  BY <1>3, <1>4 DEF ToldInv, WellFormed, TypeOK, Row
<1>. QED
  BY <1>1, <1>2, <1>5, ToldStep

LEMMA ToldApiCall ==
  ASSUME ToldInv, WellFormed', NEW p \in Procs, NEW r \in Requests, ApiCall(p, r)
  PROVE  ToldInv'
<1>1. PICK next \in {"approve", "cancel", "enqueue", "select"} : ReadFor(p, r, next)
  BY DEF ApiCall, ApproveRead, CancelRead, DispatchRead
<1>2. UNCHANGED <<row, audit, delivered, failures, answer>>
  BY <1>1 DEF ReadFor, channels
<1>3. Grows
  BY <1>2 DEF Grows, ToldInv, WellFormed, TypeOK
<1>4. \A q \in Procs, s \in Requests : mem'[q][s] = row[s] \/ mem'[q][s] = mem[q][s]
  BY <1>1 DEF ReadFor, Loaded, ToldInv, WellFormed, TypeOK
<1>5. \A q \in Procs : pc'[q] = "answered" => pc[q] = "answered" /\ mem'[q] = mem[q]
  BY <1>1 DEF ReadFor, Loaded, ToldInv, WellFormed, TypeOK
<1>. QED
  BY <1>2, <1>3, <1>4, <1>5, ToldStep

\* The three blind updates of a status, none of which sets an outcome.
LEMMA ToldSetStatus ==
  ASSUME ToldInv, WellFormed', NEW r \in Requests, NEW s, s \notin {"sent", "failed"},
         SetStatus(r, s)
  PROVE  \A q \in Requests : /\ row'[q].attempt = row[q].attempt
                             /\ \/ row'[q].status = row[q].status
                                \/ row'[q].status \notin {"sent", "failed"}
<1>1. row' = [row EXCEPT ![r] = [row[r] EXCEPT !.status = s]]
  BY DEF SetStatus
<1>. QED
  BY <1>1 DEF ToldInv, WellFormed, TypeOK, Row

LEMMA ToldApprove ==
  ASSUME ToldInv, WellFormed', NEW p \in Procs, ApproveWrite(p) \/ CancelWrite(p)
  PROVE  ToldInv'
<1>1. target[p] \in Requests
  BY DEF ApproveWrite, CancelWrite, ToldInv, WellFormed, TypeOK, Shape
<1>2. UNCHANGED <<delivered, failures>> /\ EndSession(p)
  BY DEF ApproveWrite, CancelWrite, channels
<1>3. \A q \in Requests : audit[q] \subseteq audit'[q]
  BY <1>1, AuditedGrows DEF ApproveWrite, CancelWrite, ToldInv, WellFormed
<1>4. Grows
  BY <1>2, <1>3 DEF Grows, ToldInv, WellFormed, TypeOK
<1>5. \A q \in Requests : /\ row'[q].attempt = row[q].attempt
                          /\ \/ row'[q].status = row[q].status
                             \/ row'[q].status \notin {"sent", "failed"}
  BY <1>1, ToldSetStatus DEF ApproveWrite, CancelWrite
<1>. QED
  BY <1>2, <1>4, <1>5, EndSessionEffect, ToldStep DEF ToldInv

LEMMA ToldEnqueue ==
  ASSUME ToldInv, WellFormed', NEW p \in Procs, Enqueue(p)
  PROVE  ToldInv'
<1>1. target[p] \in Requests /\ mem[p][target[p]] \in Row
  BY DEF Enqueue, ToldInv, WellFormed, TypeOK, Shape
<1>2. UNCHANGED <<audit, delivered, failures, answer>>
  BY DEF Enqueue, channels
<1>3. Grows
  BY <1>2 DEF Grows, ToldInv, WellFormed, TypeOK
<1>4. \A q \in Requests : /\ row'[q].attempt = row[q].attempt
                          /\ \/ row'[q].status = row[q].status
                             \/ row'[q].status \notin {"sent", "failed"}
  BY <1>1, ToldSetStatus DEF Enqueue
<1>5. mem' = [mem EXCEPT ![p] = [mem[p] EXCEPT ![target[p]] =
                 [mem[p][target[p]] EXCEPT !.status = "queued"]]]
  BY DEF Enqueue
<1>6. \A q \in Procs, r \in Requests : \/ mem'[q][r] = mem[q][r]
                                       \/ /\ mem[q][r] \in Row
                                          /\ mem'[q][r].attempt = mem[q][r].attempt
  BY <1>1, <1>5 DEF ToldInv, WellFormed, TypeOK, Row
<1>7. \A q \in Procs : pc'[q] = "answered" => pc[q] = "answered" /\ mem'[q] = mem[q]
  BY <1>5 DEF Enqueue, ToldInv, WellFormed, TypeOK
<1>. QED
  BY <1>2, <1>3, <1>4, <1>6, <1>7, ToldStep

LEMMA ToldRefresh ==
  ASSUME ToldInv, WellFormed', NEW p \in Procs, Refresh(p)
  PROVE  ToldInv'
<1>1. UNCHANGED <<row, audit, delivered, failures, answer>>
  BY DEF Refresh, channels
<1>2. Grows
  BY <1>1 DEF Grows, ToldInv, WellFormed, TypeOK
<1>3. \A q \in Procs, r \in Requests : mem'[q][r] = row[r] \/ mem'[q][r] = mem[q][r]
  BY DEF Refresh, Loaded, ToldInv, WellFormed, TypeOK
<1>4. \A q \in Procs : pc'[q] = "answered" => pc[q] = "answered" /\ mem'[q] = mem[q]
  BY DEF Refresh, Loaded, ToldInv, WellFormed, TypeOK
<1>. QED
  BY <1>1, <1>2, <1>3, <1>4, ToldStep

LEMMA ToldClaimSelect ==
  ASSUME ToldInv, WellFormed', NEW p \in Procs, ClaimSelect(p)
  PROVE  ToldInv'
<1>1. UNCHANGED <<row, audit, delivered, failures, mem, answer>>
  BY DEF ClaimSelect, channels
<1>2. Grows
  BY <1>1 DEF Grows, ToldInv, WellFormed, TypeOK
<1>3. \A q \in Procs : pc'[q] = "answered" => pc[q] = "answered"
  BY DEF ClaimSelect, ToldInv, WellFormed, TypeOK
<1>. QED
  BY <1>1, <1>2, <1>3, ToldStep

\* The claim changes no attempts: neither of a row nor of a copy.
LEMMA ToldClaimUpdate ==
  ASSUME ToldInv, WellFormed', NEW p \in Procs, ClaimUpdate(p)
  PROVE  ToldInv'
<1>. DEFINE r == Head(cands[p]).id
<1>1. UNCHANGED <<row, audit, delivered, failures, pc, answer>>
  BY DEF ClaimUpdate, channels
<1>2. Grows
  BY <1>1 DEF Grows, ToldInv, WellFormed, TypeOK
<1>3. r \in Requests
  BY HeadCandidate DEF ClaimUpdate, ToldInv, WellFormed
<1>4. mem' = mem \/ /\ mem[p][r] # NoRow
                    /\ mem' = [mem EXCEPT ![p] = [mem[p] EXCEPT ![r] =
                         [mem[p][r] EXCEPT !.status = "dispatching", !.lease = "live"]]]
  BY DEF ClaimUpdate, Taken
<1>5. mem[p][r] # NoRow => mem[p][r] \in Row
  BY <1>3 DEF ToldInv, WellFormed, TypeOK
<1>6. \A q \in Procs, s \in Requests : \/ mem'[q][s] = mem[q][s]
                                       \/ /\ mem[q][s] \in Row
                                          /\ mem'[q][s].attempt = mem[q][s].attempt
  <2>. DEFINE new == [mem[p][r] EXCEPT !.status = "dispatching", !.lease = "live"]
  <2>1. mem[p][r] # NoRow => mem[p][r] \in Row /\ new.attempt = mem[p][r].attempt
    BY <1>5 DEF Row
  <2>2. \/ mem' = mem
        \/ mem[p][r] # NoRow /\ mem' = [mem EXCEPT ![p] = [mem[p] EXCEPT ![r] = new]]
    BY <1>4
  <2>. HIDE DEF new, r
  <2>3. \A q \in Procs, s \in Requests :
          \/ mem'[q][s] = mem[q][s]
          \/ q = p /\ s = r /\ mem[p][r] # NoRow /\ mem'[q][s] = new
    <3>1. CASE mem' = mem
      BY <3>1
    <3>2. CASE mem[p][r] # NoRow /\ mem' = [mem EXCEPT ![p] = [mem[p] EXCEPT ![r] = new]]
      BY <1>3, <3>2 DEF ToldInv, WellFormed, TypeOK
    <3>. QED
      BY <2>2, <3>1, <3>2
  <2>. QED
    BY <2>1, <2>3
<1>. HIDE DEF r
<1>7. \A q \in Procs : pc[q] = "answered" => answer[q].id \in Requests
  BY AnsweredRow DEF ToldInv
<1>8. \A q \in Procs : pc'[q] = "answered" =>
        /\ pc[q] = "answered" /\ answer'[q] = answer[q]
        /\ mem'[q][answer[q].id].attempt = mem[q][answer[q].id].attempt
  BY <1>1, <1>6, <1>7
<1>. QED
  BY <1>1, <1>2, <1>6, <1>8, ToldStep

LEMMA ToldClaimCommit ==
  ASSUME ToldInv, WellFormed', NEW p \in Procs, ClaimCommit(p)
  PROVE  ToldInv'
<1>1. UNCHANGED <<audit, delivered, failures, mem, answer>>
  BY DEF ClaimCommit, channels
<1>2. Grows
  BY <1>1 DEF Grows, ToldInv, WellFormed, TypeOK
<1>3. \A r \in Requests : \/ row'[r] = row[r]
                          \/ row'[r] = [row[r] EXCEPT !.status = "dispatching",
                                                      !.lease = "live"]
  BY DEF ClaimCommit, Taken
<1>4. \A r \in Requests : row[r] \in Row
  BY DEF ToldInv, WellFormed, TypeOK
<1>5. \A r \in Requests : /\ row'[r].attempt = row[r].attempt
                          /\ \/ row'[r].status = row[r].status
                             \/ row'[r].status \notin {"sent", "failed"}
  BY <1>3, <1>4 DEF Row
<1>6. \A q \in Procs : pc'[q] = "answered" => pc[q] = "answered"
  BY DEF ClaimCommit, ToldInv, WellFormed, TypeOK
<1>. QED
  BY <1>1, <1>2, <1>5, <1>6, ToldStep

LEMMA ToldSessionEnds ==
  ASSUME ToldInv, WellFormed', NEW p \in Procs, EndSession(p),
         UNCHANGED <<row, audit, delivered, failures>>
  PROVE  ToldInv'
<1>1. Grows
  BY DEF Grows, ToldInv, WellFormed, TypeOK
<1>. QED
  BY <1>1, EndSessionEffect, ToldStep DEF ToldInv

LEMMA ToldClaimLoad ==
  ASSUME ToldInv, WellFormed', NEW p \in Procs, ClaimLoad(p)
  PROVE  ToldInv'
<1>1. UNCHANGED <<row, audit, delivered, failures>>
  BY DEF ClaimLoad, channels
<1>2. CASE EndSession(p)
  BY <1>1, <1>2, ToldSessionEnds
<1>3. CASE ~EndSession(p)
  <2>1. /\ UNCHANGED answer /\ pc' = [pc EXCEPT ![p] = "work"]
        /\ mem' = mem \/ mem' = Loaded(p, Range(claimed[p]))
    BY <1>3 DEF ClaimLoad
  <2>2. Grows
    BY <1>1 DEF Grows, ToldInv, WellFormed, TypeOK
  <2>3. \A q \in Procs, r \in Requests : mem'[q][r] = row[r] \/ mem'[q][r] = mem[q][r]
    <3>1. CASE mem' = mem
      BY <3>1
    <3>2. CASE mem' = Loaded(p, Range(claimed[p]))
      BY <3>2 DEF Loaded, ToldInv, WellFormed, TypeOK
    <3>. QED
      BY <2>1, <3>1, <3>2
  <2>4. \A q \in Procs : pc'[q] = "answered" => pc[q] = "answered" /\ mem'[q] = mem[q]
    BY <2>1 DEF Loaded, ToldInv, WellFormed, TypeOK
  <2>. QED
    BY <1>1, <2>1, <2>2, <2>3, <2>4, ToldStep
<1>. QED
  BY <1>2, <1>3

\* A write-back of a copy that counts only errors that happened, and reports only an
\* outcome that happened, leaves everything true: what it does not write it does not touch.
LEMMA ToldWriteBack ==
  ASSUME ToldInv, WellFormed', Grows, NEW p \in Procs, NEW r \in held[p], NEW new \in Row,
         WriteBack(p, r, new), new.attempt <= failures'[r],
         new.status = "sent" => \/ "outreach.simulated" \in audit'[r]
                                \/ "outreach.sent" \in audit'[r] /\ delivered'[r] > 0,
         new.status = "failed" => /\ failures'[r] >= MaxAttempts
                                  /\ "outreach.failed" \in audit'[r]
  PROVE  ToldInv'
<1>1. /\ r \in Requests
      /\ \A q \in Requests : q # r => row'[q] = row[q]
      /\ row'[r].status \in {row[r].status, new.status}
  BY WriteBackStatus DEF ToldInv
<1>2. row'[r].attempt \in {row[r].attempt, new.attempt}
  <2>1. row'[r] = OrmFlush(row[r], mem[p][r], new)
    BY <1>1 DEF WriteBack, ToldInv, WellFormed, TypeOK
  <2>2. OrmFlush(row[r], mem[p][r], new).attempt \in {row[r].attempt, new.attempt}
    BY DEF OrmFlush, Column
  <2>. QED
    BY <2>1, <2>2
<1>3. /\ row[r].attempt \in Nat /\ new.attempt \in Nat
      /\ delivered[r] \in Nat /\ delivered'[r] \in Nat
      /\ failures[r] \in Nat /\ failures'[r] \in Nat
  BY <1>1 DEF ToldInv, WellFormed, TypeOK, Row
<1>4. Told(r)'
  BY <1>1, <1>2, <1>3, ConstantsAssumption DEF ToldInv, Told, Grows
<1>5. CASE EndSession(p)
  BY <1>1, <1>4, <1>5, EndSessionEffect, ToldStep DEF ToldInv
<1>6. CASE ~EndSession(p)
  <2>1. /\ mem' = [mem EXCEPT ![p][r] = NoRow]
        /\ answer' = [answer EXCEPT ![p] = NoAnswer]
        /\ pc' = [pc EXCEPT ![p] = "work"]
    BY <1>6 DEF WriteBack
  <2>2. \A q \in Procs, s \in Requests : mem'[q][s] \in Row => mem'[q][s] = mem[q][s]
    BY <1>1, <2>1, ConstantsAssumption DEF ToldInv, WellFormed, TypeOK
  <2>3. \A q \in Procs : pc'[q] = "answered" =>
          pc[q] = "answered" /\ answer'[q] = answer[q] /\ mem'[q] = mem[q]
    BY <2>1 DEF ToldInv, WellFormed, TypeOK
  <2>. QED
    BY <1>1, <1>4, <2>2, <2>3, ToldStep
<1>. QED
  BY <1>5, <1>6

\* Adding an audit entry adds it, and takes nothing away.
LEMMA AuditedAdds ==
  ASSUME TypeOK, NEW r \in Requests, NEW e, audit' = Audited(r, e)
  PROVE  e \in audit'[r] /\ \A q \in Requests : audit[q] \subseteq audit'[q]
BY DEF Audited, TypeOK

\* A simulation is audited as one in the transaction that records it as sent.
LEMMA ToldSimulate ==
  ASSUME ToldInv, WellFormed', NEW p \in Procs, NEW r \in Requests, Simulate(p, r)
  PROVE  ToldInv'
<1>. DEFINE new == [mem[p][r] EXCEPT !.status = "sent", !.lease = "none"]
<1>1. r \in held[p] /\ mem[p][r] \in Row
  BY DEF Simulate, ToldInv, WellFormed, Shape
<1>2. new \in Row
  BY <1>1, RowUpdate DEF Statuses
<1>3. new.status = "sent" /\ new.attempt = mem[p][r].attempt
  BY <1>1 DEF Row
<1>4. WriteBack(p, r, new) /\ UNCHANGED <<delivered, failures>>
  BY DEF Simulate, channels
<1>5. "outreach.simulated" \in audit'[r] /\ \A q \in Requests : audit[q] \subseteq audit'[q]
  BY AuditedAdds DEF Simulate, ToldInv, WellFormed
<1>6. Grows
  BY <1>4, <1>5 DEF Grows, ToldInv, WellFormed, TypeOK
<1>7. new.attempt <= failures'[r]
  BY <1>1, <1>3, <1>4 DEF ToldInv, CopiesTold
<1>. HIDE DEF new
<1>. QED
  BY <1>1, <1>2, <1>3, <1>4, <1>5, <1>6, <1>7, ToldWriteBack

\* The provider answers: the answer in hand is one that was given.
LEMMA ToldSend ==
  ASSUME ToldInv, WellFormed', NEW p \in Procs, NEW r \in Requests, NEW ok \in BOOLEAN,
         Send(p, r, ok)
  PROVE  ToldInv'
<1>1. UNCHANGED <<row, audit, mem>> /\ r \in held[p] /\ mem[p][r] \in Row
  BY DEF Send, ToldInv, WellFormed, Shape
<1>2. /\ delivered[r] \in Nat /\ failures[r] \in Nat /\ mem[p][r].attempt \in Nat
      /\ mem[p][r].attempt <= failures[r]
  BY <1>1 DEF ToldInv, CopiesTold, WellFormed, TypeOK, Row
<1>3. IF ok THEN delivered'[r] = delivered[r] + 1 ELSE failures'[r] = failures[r] + 1
  BY DEF Send, ToldInv, WellFormed, TypeOK
<1>4. Grows
  <2>1. ASSUME NEW q \in Requests
        PROVE  delivered[q] <= delivered'[q] /\ failures[q] <= failures'[q]
    <3>1. delivered[q] \in Nat /\ failures[q] \in Nat
      BY DEF ToldInv, WellFormed, TypeOK
    <3>2. /\ delivered'[q] \in {delivered[q], delivered[q] + 1}
          /\ failures'[q] \in {failures[q], failures[q] + 1}
      BY DEF Send, ToldInv, WellFormed, TypeOK
    <3>. QED
      BY <3>1, <3>2
  <2>. QED
    BY <1>1, <2>1 DEF Grows
<1>5. \A q \in Requests : Told(q)'
  BY <1>1, <1>4, ToldStays DEF ToldInv
<1>6. CopiesTold'
  BY <1>1, <1>4, CopiesStay
<1>7. AnswersTold'
  <2>1. /\ \A q \in Procs : q # p => pc'[q] = pc[q] /\ answer'[q] = answer[q]
        /\ answer'[p] = [id |-> r, ok |-> ok]
    BY DEF Send, ToldInv, WellFormed, TypeOK
  <2>2. answer'[p].id = r /\ answer'[p].ok = ok
    BY <2>1
  <2>3. IF answer'[p].ok THEN delivered'[answer'[p].id] > 0
                         ELSE mem'[p][answer'[p].id].attempt < failures'[answer'[p].id]
    <3>1. CASE ok
      BY <1>2, <1>3, <2>2, <3>1
    <3>2. CASE ~ok
      BY <1>1, <1>2, <1>3, <2>2, <3>2
    <3>. QED
      BY <3>1, <3>2
  <2>4. ASSUME NEW q \in Procs, q # p, pc'[q] = "answered"
        PROVE  IF answer'[q].ok THEN delivered'[answer'[q].id] > 0
                                ELSE mem'[q][answer'[q].id].attempt < failures'[answer'[q].id]
    BY <1>1, <1>4, <2>1, <2>4, AnswersStay
  <2>. QED
    BY <2>3, <2>4 DEF AnswersTold
<1>. QED
  BY <1>5, <1>6, <1>7 DEF ToldInv

\* An answer is written back: as sent if it was one, as an error counted once if not.
LEMMA ToldFinish ==
  ASSUME ToldInv, WellFormed', NEW p \in Procs,
         FinishSent(p) \/ FinishRetry(p) \/ FinishFailed(p)
  PROVE  ToldInv'
<1>. DEFINE r == answer[p].id
            copy == mem[p][r]
<1>1. r \in held[p] /\ r \in Requests /\ copy \in Row
  BY AnsweredRow DEF FinishSent, Accepted, FinishRetry, FinishFailed, ToldInv
<1>2. UNCHANGED <<delivered, failures>> /\ \A q \in Requests : audit[q] \subseteq audit'[q]
  BY FinishEffect DEF ToldInv, channels
<1>3. Grows
  BY <1>2 DEF Grows, ToldInv, WellFormed, TypeOK
<1>4. /\ failures[r] \in Nat /\ copy.attempt \in Nat /\ copy.attempt + 1 \in Nat
      /\ copy.attempt <= failures[r]
  <2>1. failures[r] \in Nat
    BY <1>1 DEF ToldInv, WellFormed, TypeOK
  <2>2. copy.attempt <= failures[r]
    BY <1>1 DEF ToldInv, CopiesTold
  <2>. HIDE DEF copy, r
  <2>3. copy.attempt \in Nat
    BY <1>1 DEF Row
  <2>4. copy.attempt + 1 \in Nat
    BY <2>3
  <2>. QED
    BY <2>1, <2>2, <2>3, <2>4
<1>5. CASE FinishSent(p)
  <2>. DEFINE new == [copy EXCEPT !.status = "sent", !.lease = "none"]
  <2>1. new \in Row
    BY <1>1, RowUpdate DEF Statuses
  <2>2. new.status = "sent" /\ new.attempt = copy.attempt
    BY <1>1 DEF Row
  <2>3. WriteBack(p, r, new) /\ audit' = Audited(r, "outreach.sent")
    BY <1>5 DEF FinishSent
  <2>4. "outreach.sent" \in audit'[r]
    BY <1>1, <2>3, AuditedAdds DEF ToldInv, WellFormed
  <2>5. delivered'[r] > 0
    BY <1>2, <1>5 DEF FinishSent, Accepted, ToldInv, AnswersTold
  <2>. HIDE DEF new, copy, r
  <2>. QED
    BY <1>1, <1>2, <1>3, <1>4, <2>1, <2>2, <2>3, <2>4, <2>5, ToldWriteBack
<1>6. CASE FinishRetry(p)
  <2>. DEFINE new == [copy EXCEPT !.status = "queued", !.lease = "none", !.attempt = @ + 1]
  <2>1. new \in Row
    BY <1>1, <1>4, RowUpdate DEF Statuses
  <2>2. new.status = "queued" /\ new.attempt = copy.attempt + 1
    BY <1>1 DEF Row
  <2>3. WriteBack(p, r, new)
    BY <1>6 DEF FinishRetry
  <2>4. copy.attempt < failures[r]
    BY <1>6 DEF FinishRetry, ToldInv, AnswersTold
  <2>5. new.attempt <= failures'[r]
    BY <1>2, <1>4, <2>2, <2>4
  <2>. HIDE DEF new, copy, r
  <2>. QED
    BY <1>1, <1>3, <2>1, <2>2, <2>3, <2>5, ToldWriteBack
<1>7. CASE FinishFailed(p)
  <2>. DEFINE new == [copy EXCEPT !.status = "failed", !.lease = "none", !.attempt = @ + 1]
  <2>1. new \in Row
    BY <1>1, <1>4, RowUpdate DEF Statuses
  <2>2. new.status = "failed" /\ new.attempt = copy.attempt + 1
    BY <1>1 DEF Row
  <2>3. WriteBack(p, r, new) /\ audit' = Audited(r, "outreach.failed")
    BY <1>7 DEF FinishFailed
  <2>4. "outreach.failed" \in audit'[r]
    BY <1>1, <2>3, AuditedAdds DEF ToldInv, WellFormed
  <2>5. copy.attempt < failures[r] /\ copy.attempt + 1 >= MaxAttempts
    BY <1>7 DEF FinishFailed, Spent, ToldInv, AnswersTold
  <2>6. new.attempt <= failures'[r] /\ failures'[r] >= MaxAttempts
    BY <1>2, <1>4, <2>2, <2>5, ConstantsAssumption
  <2>. HIDE DEF new, copy, r
  <2>. QED
    BY <1>1, <1>3, <2>1, <2>2, <2>3, <2>4, <2>6, ToldWriteBack
<1>. QED
  BY <1>5, <1>6, <1>7

LEMMA ToldClock ==
  ASSUME ToldInv, WellFormed', NEW r \in Requests, LeaseExpire(r) \/ BackoffElapse(r)
  PROVE  ToldInv'
<1>1. UNCHANGED <<audit, delivered, failures, pc, mem, answer>>
  BY DEF LeaseExpire, BackoffElapse, channels
<1>2. Grows
  BY <1>1 DEF Grows, ToldInv, WellFormed, TypeOK
<1>3. \/ row' = [row EXCEPT ![r] = [row[r] EXCEPT !.lease = "expired"]]
      \/ row' = [row EXCEPT ![r] = [row[r] EXCEPT !.gate = "open"]]
  BY DEF LeaseExpire, BackoffElapse
<1>4. /\ [row[r] EXCEPT !.lease = "expired"].status = row[r].status
      /\ [row[r] EXCEPT !.lease = "expired"].attempt = row[r].attempt
      /\ [row[r] EXCEPT !.gate = "open"].status = row[r].status
      /\ [row[r] EXCEPT !.gate = "open"].attempt = row[r].attempt
  BY DEF ToldInv, WellFormed, TypeOK, Row
<1>5. \A q \in Requests : row'[q].status = row[q].status /\ row'[q].attempt = row[q].attempt
  BY <1>3, <1>4 DEF ToldInv, WellFormed, TypeOK
<1>. QED
  BY <1>1, <1>2, <1>5, ToldStep

LEMMA ToldNext == ToldInv /\ [Next]_vars => ToldInv'
<1>. SUFFICES ASSUME ToldInv, [Next]_vars PROVE ToldInv'
  OBVIOUS
<1>0. WellFormed' /\ Sessions \subseteq Procs
  BY StepOK DEF ToldInv, Procs
<1>1. ASSUME NEW r \in Requests, NEW d \in {"ALLOW", "REVIEW", "DENY"}, Create(r, d)
      PROVE  ToldInv'
  BY <1>0, <1>1, ToldCreate
<1>2. ASSUME NEW p \in Sessions, NEW r \in Requests, ApiCall(p, r)
      PROVE  ToldInv'
  BY <1>0, <1>2, ToldApiCall
<1>3. ASSUME NEW p \in Sessions, ApiStep(p)
      PROVE  ToldInv'
  BY <1>0, <1>3, ToldApprove, ToldEnqueue, ToldRefresh DEF ApiStep
<1>4. ASSUME NEW p \in Procs, ClaimNothing(p) \/ DeadlockVictim(p) \/ Crash(p)
      PROVE  ToldInv'
  BY <1>0, <1>4, ToldSessionEnds DEF ClaimNothing, DeadlockVictim, Crash, channels
<1>5. ASSUME NEW p \in Procs, ClaimSelect(p) \/ ClaimUpdate(p) \/ ClaimCommit(p) \/ ClaimLoad(p)
      PROVE  ToldInv'
  BY <1>0, <1>5, ToldClaimSelect, ToldClaimUpdate, ToldClaimCommit, ToldClaimLoad
<1>6. ASSUME NEW p \in Procs, Process(p)
      PROVE  ToldInv'
  BY <1>0, <1>6, ToldSimulate, ToldSend, ToldFinish DEF Process
<1>7. ASSUME NEW r \in Requests, LeaseExpire(r) \/ BackoffElapse(r)
      PROVE  ToldInv'
  BY <1>0, <1>7, ToldClock
<1>8. CASE UNCHANGED vars
  BY <1>0, <1>8 DEF vars, ToldInv, Told, CopiesTold, AnswersTold
<1>. QED
  BY <1>1, <1>2, <1>3, <1>4, <1>5, <1>6, <1>7, <1>8 DEF Next, Claim

\* Every request that reads as sent was executed, really or as a recorded simulation, and
\* the audit trail says which, for any number of workers, API calls, crashes and leases.
THEOREM SentIsExecuted == Spec => []SentWasExecuted
<1>1. ToldInv => SentWasExecuted
  BY DEF ToldInv, Told, SentWasExecuted
<1>. QED
  BY <1>1, ToldInit, ToldNext, PTL DEF Spec

\* No request is dead-lettered before the provider has refused it as often as the settings
\* say: no stale copy of the attempts, and no second owner of a claim, counts one twice.
THEOREM DeadLettersAreEarned == Spec => []NoEarlyDeadLetter
<1>1. ToldInv => NoEarlyDeadLetter
  BY DEF ToldInv, Told, NoEarlyDeadLetter
<1>. QED
  BY <1>1, ToldInit, ToldNext, PTL DEF Spec
=============================================================================
