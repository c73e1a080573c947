----------------------------- MODULE CalmProofs -----------------------------
(***************************************************************************)
(* What the outbox engine guarantees when little goes wrong.  When nothing *)
(* does, a claimed row has one owner, the row counts what the provider was *)
(* asked, and the engine implements the promise of Delivery, for any       *)
(* number of workers, requests and attempts and any batch size.  With one  *)
(* worker that may die at any point, any number of times, it implements    *)
(* the promise with loss.                                                  *)
(***************************************************************************)
EXTENDS OutboxDelivery, OutboxProofs

\* Only the workers act and nothing goes wrong: no API call, no crash, no overrun lease.
Calm == Sessions = {} /\ MaxCrashes = 0 /\ MaxOverruns = 0

\* p took r and has not written it back.
Owns(p, r) == r \in held[p] \/ (pc[p] = "load" /\ r \in Range(claimed[p]))

\* p has an answer about r that is not written back.
Busy(p, r) == pc[p] = "answered" /\ answer[p].id = r

\* A worker looks at queued rows only, and its copies of what it holds are the rows.
CalmProc(p) ==
  /\ pc[p] \in {"idle", "update", "load", "work", "answered"}
  /\ pc[p] \notin {"update", "load"} => claimed[p] = <<>>
  /\ pc[p] # "answered" => answer[p] = NoAnswer
  /\ \A i \in DOMAIN cands[p] : cands[p][i].status = "queued"
  /\ \A r \in held[p] : mem[p][r] = row[r]

\* A claimed row has one owner and a live lease; a row being claimed is queued, and being
\* claimed by one worker.
CalmRow(r) ==
  /\ r \in Backlog => row[r].status # "absent"
  /\ row[r].status = "dispatching" => row[r].lease = "live" /\ \E p \in Procs : Owns(p, r)
  /\ \A p \in Procs : Owns(p, r) => row[r].status = "dispatching"
  /\ \A p, q \in Procs : Owns(p, r) /\ Owns(q, r) => p = q
  /\ \A p \in Procs : r \in LockedBy(p) => row[r].status = "queued"
  /\ \A p, q \in Procs : r \in LockedBy(p) /\ r \in LockedBy(q) => p = q

\* The row counts every error but the one in its owner's hands, and every delivery is
\* in the row or in its owner's hands.
Tally(r) ==
  /\ row[r].attempt <= MaxAttempts
  /\ row[r].status \notin {"sent", "failed"} => row[r].attempt < MaxAttempts
  /\ row[r].status # "dispatching" =>
       /\ failures[r] = row[r].attempt
       /\ delivered[r] = 0 \/ (row[r].status = "sent" /\ delivered[r] = 1)
  /\ \A p \in Procs : Owns(p, r) =>
       /\ failures[r] = row[r].attempt + (IF Busy(p, r) /\ ~answer[p].ok THEN 1 ELSE 0)
       /\ delivered[r] = IF Busy(p, r) /\ answer[p].ok THEN 1 ELSE 0

CalmInv == /\ WellFormed
           /\ \A p \in Procs : CalmProc(p)
           /\ \A r \in Requests : CalmRow(r) /\ Tally(r)

-----------------------------------------------------------------------------
(* Frames: what a step leaves as it was. *)

Untouched(q) ==
  /\ pc'[q] = pc[q] /\ cands'[q] = cands[q] /\ claimed'[q] = claimed[q]
  /\ held'[q] = held[q] /\ mem'[q] = mem[q] /\ answer'[q] = answer[q]

LEMMA UntouchedKeeps ==
  ASSUME NEW q, Untouched(q)
  PROVE  /\ LockedBy(q)' = LockedBy(q)
         /\ \A r : /\ Owns(q, r)' <=> Owns(q, r)
                   /\ Busy(q, r)' <=> Busy(q, r)
BY DEF Untouched, LockedBy, Owns, Busy, Range

LEMMA CalmProcKept ==
  ASSUME NEW q, CalmProc(q), Untouched(q), \A r \in held[q] : row'[r] = row[r]
  PROVE  CalmProc(q)'
BY DEF CalmProc, Untouched

LEMMA CalmRowKept ==
  ASSUME NEW r, CalmRow(r), row'[r] = row[r],
         \A q \in Procs : Owns(q, r)' <=> Owns(q, r),
         \A q \in Procs : r \in LockedBy(q)' => r \in LockedBy(q)
  PROVE  CalmRow(r)'
BY DEF CalmRow

LEMMA TallyKept ==
  ASSUME NEW r, Tally(r), row'[r] = row[r], delivered'[r] = delivered[r],
         failures'[r] = failures[r],
         \A q \in Procs : Owns(q, r)' => Owns(q, r),
         \A q \in Procs : Owns(q, r) => /\ Busy(q, r)' <=> Busy(q, r)
                                        /\ Busy(q, r) => answer'[q] = answer[q]
  PROVE  Tally(r)'
BY DEF Tally

\* Nothing claimed, held or answered: what an idle worker is like.
LEMMA NoHands ==
  ASSUME CalmInv, NEW p \in Procs, pc[p] \in {"idle", "update", "load"}
  PROVE  /\ held[p] = {}
         /\ pc[p] = "idle" => claimed[p] = <<>>
         /\ \A r : Owns(p, r) => pc[p] = "load"
         /\ \A r : ~Busy(p, r)
BY DEF CalmInv, CalmProc, WellFormed, Shape, Owns, Busy

\* The rows whose locks a claim holds are the ones it claimed.
LEMMA LockedRequests ==
  ASSUME TypeOK, NEW p \in Procs
  PROVE  LockedBy(p) \subseteq Requests /\ Range(claimed[p]) \subseteq Requests
BY RangeOfSeq DEF LockedBy, TypeOK

LEMMA RangeOfAppend ==
  ASSUME NEW S, NEW s \in Seq(S), NEW e \in S
  PROVE  Range(Append(s, e)) = Range(s) \cup {e}
<1>1. /\ DOMAIN Append(s, e) = (DOMAIN s) \cup {Len(s) + 1}
      /\ Append(s, e)[Len(s) + 1] = e
      /\ \A i \in DOMAIN s : Append(s, e)[i] = s[i]
  BY AppendProperties
<1>. QED
  BY <1>1, Zenon DEF Range

\* A session that ends leaves the worker idle.
LEMMA EndSessionCalm ==
  ASSUME CalmInv, NEW p \in Procs, EndSession(p)
  PROVE  /\ \A q \in Procs : q # p => Untouched(q)
         /\ pc'[p] = "idle" /\ CalmProc(p)' /\ held'[p] = {}
         /\ LockedBy(p)' = {} /\ \A r : ~Owns(p, r)' /\ ~Busy(p, r)'
<1>1. \A q \in Procs : q # p => Untouched(q)
  BY DEF EndSession, Untouched, CalmInv, WellFormed, TypeOK
<1>2. /\ pc'[p] = "idle" /\ cands'[p] = <<>> /\ claimed'[p] = <<>> /\ held'[p] = {}
      /\ answer'[p] = NoAnswer
  BY DEF EndSession, CalmInv, WellFormed, TypeOK
<1>3. CalmProc(p)'
  BY <1>2 DEF CalmProc
<1>4. LockedBy(p)' = {} /\ \A r : ~Owns(p, r)' /\ ~Busy(p, r)'
  BY <1>2 DEF LockedBy, Owns, Busy
<1>. QED
  BY <1>1, <1>2, <1>3, <1>4

\* A step of p that writes no row, asks no provider and takes nothing into p's hands or
\* out of them keeps everything.
LEMMA CalmQuiet ==
  ASSUME CalmInv, WellFormed', NEW p \in Procs, UNCHANGED <<row, delivered, failures>>,
         \A q \in Procs : q # p => Untouched(q),
         CalmProc(p)',
         \A r \in Requests : Owns(p, r)' <=> Owns(p, r),
         \A r \in Requests : ~Busy(p, r) /\ ~Busy(p, r)',
         LockedBy(p)' \subseteq LockedBy(p)
  PROVE  CalmInv'
<1>1. \A q \in Procs : CalmProc(q)'
  BY CalmProcKept DEF CalmInv
<1>2. ASSUME NEW r \in Requests
      PROVE  CalmRow(r)' /\ Tally(r)'
  <2>1. \A q \in Procs : /\ Owns(q, r)' <=> Owns(q, r)
                         /\ Busy(q, r)' <=> Busy(q, r)
                         /\ LockedBy(q)' \subseteq LockedBy(q)
    BY UntouchedKeeps
  <2>2. \A q \in Procs : Busy(q, r) => answer'[q] = answer[q]
    BY DEF Untouched
  <2>3. CalmRow(r)'
    BY <2>1, CalmRowKept DEF CalmInv
  <2>4. Tally(r)'
    BY <2>1, <2>2, TallyKept DEF CalmInv
  <2>. QED
    BY <2>3, <2>4
<1>. QED
  BY <1>1, <1>2 DEF CalmInv

-----------------------------------------------------------------------------
(* The claim. *)

\* With every lease live, what is due is queued.
LEMMA DueIsQueued ==
  ASSUME CalmInv, NEW r \in Due
  PROVE  r \in Requests /\ row[r].status = "queued"
BY DEF Due, CalmInv, CalmRow

LEMMA CalmSelect ==
  ASSUME Calm, CalmInv, WellFormed', NEW p \in Procs, ClaimSelect(p)
  PROVE  CalmInv'
<1>1. pc[p] = "idle" /\ UNCHANGED <<row, delivered, failures, claimed, held, mem, answer>>
  BY DEF ClaimSelect, Calm, channels
<1>. PICK n \in 0..Limit(p) : \E s \in [1..n -> Due] :
       cands' = [cands EXCEPT ![p] = [i \in 1..n |-> [id |-> s[i], status |-> row[s[i]].status]]]
  BY DEF ClaimSelect
<1>2. PICK s \in [1..n -> Due] :
        cands' = [cands EXCEPT ![p] = [i \in 1..n |-> [id |-> s[i], status |-> row[s[i]].status]]]
  OBVIOUS
<1>3. pc'[p] = "update" /\ cands'[p] = [i \in 1..n |-> [id |-> s[i], status |-> row[s[i]].status]]
  BY <1>2 DEF ClaimSelect, CalmInv, WellFormed, TypeOK
<1>4. \A q \in Procs : q # p => Untouched(q)
  BY <1>1, <1>2 DEF ClaimSelect, Untouched, CalmInv, WellFormed, TypeOK
<1>5. \A i \in DOMAIN cands'[p] : cands'[p][i].status = "queued"
  <2>1. \A i \in 1..n : row[s[i]].status = "queued"
    BY DueIsQueued
  <2>2. DOMAIN cands'[p] = 1..n
    BY <1>3
  <2>3. ASSUME NEW i \in 1..n PROVE cands'[p][i].status = row[s[i]].status
    BY <1>3
  <2>. QED
    BY <2>1, <2>2, <2>3
<1>6. held[p] = {} /\ claimed[p] = <<>> /\ answer[p] = NoAnswer
  BY <1>1, NoHands DEF CalmInv, CalmProc
<1>7. CalmProc(p)'
  BY <1>1, <1>3, <1>5, <1>6 DEF CalmProc
<1>8. \A r \in Requests : ~Owns(p, r) /\ ~Owns(p, r)' /\ ~Busy(p, r) /\ ~Busy(p, r)'
  BY <1>1, <1>3, <1>6 DEF Owns, Busy
<1>9. LockedBy(p)' = {}
  BY <1>1, <1>3, <1>6 DEF LockedBy, Range
<1>. QED
  BY <1>1, <1>4, <1>7, <1>8, <1>9, CalmQuiet

\* The candidate's row is queued and not claimed by another worker when it is taken.
LEMMA CalmUpdate ==
  ASSUME Calm, CalmInv, WellFormed', NEW p \in Procs, ClaimUpdate(p)
  PROVE  CalmInv'
<1>. DEFINE c == Head(cands[p])
<1>1. /\ pc[p] = "update" /\ cands[p] # <<>>
      /\ UNCHANGED <<row, delivered, failures, pc, held, answer>>
  BY DEF ClaimUpdate, channels
<1>2. c.id \in Requests /\ c.status = "queued"
  <2>1. 1 \in DOMAIN cands[p] /\ c = cands[p][1]
    BY <1>1 DEF CalmInv, WellFormed, TypeOK
  <2>. QED
    BY <1>1, <2>1, HeadCandidate DEF CalmInv, CalmProc, WellFormed
<1>3. \A q \in Procs : q # p => Untouched(q)
  BY <1>1 DEF ClaimUpdate, Untouched, CalmInv, WellFormed, TypeOK
<1>4. /\ cands'[p] = Tail(cands[p])
      /\ claimed'[p] = IF Matches(c) THEN Append(claimed[p], c.id) ELSE claimed[p]
  BY DEF ClaimUpdate, CalmInv, WellFormed, TypeOK
<1>5. \A i \in DOMAIN cands'[p] : cands'[p][i].status = "queued"
  <2>1. \A i \in DOMAIN Tail(cands[p]) : /\ i + 1 \in DOMAIN cands[p]
                                         /\ Tail(cands[p])[i] = cands[p][i + 1]
    BY <1>1 DEF CalmInv, WellFormed, TypeOK
  <2>. QED
    BY <1>4, <2>1 DEF CalmInv, CalmProc
<1>6. held[p] = {} /\ \A r : ~Owns(p, r) /\ ~Busy(p, r)
  BY <1>1, NoHands
<1>7. \A r : ~Owns(p, r)' /\ ~Busy(p, r)'
  BY <1>1, <1>6 DEF Owns, Busy
<1>8. CalmProc(p)'
  BY <1>1, <1>5, <1>6 DEF CalmProc, CalmInv
<1>9. LockedBy(p)' = IF Matches(c) THEN LockedBy(p) \cup {c.id} ELSE LockedBy(p)
  <2>1. claimed[p] \in Seq(Requests) /\ c.id \in Requests
    BY <1>2 DEF CalmInv, WellFormed, TypeOK
  <2>2. Range(Append(claimed[p], c.id)) = Range(claimed[p]) \cup {c.id}
    BY <2>1, RangeOfAppend
  <2>. QED
    BY <1>1, <1>4, <2>2 DEF LockedBy
<1>10. Matches(c) => row[c.id].status = "queued" /\ \A q \in Procs : q # p => c.id \notin LockedBy(q)
  BY <1>1, <1>2 DEF ClaimUpdate, Matches, WaitsFor
<1>11. \A q \in Procs : CalmProc(q)'
  BY <1>1, <1>3, <1>8, CalmProcKept DEF CalmInv
<1>12. ASSUME NEW r \in Requests
       PROVE  CalmRow(r)' /\ Tally(r)'
  <2>1. \A q \in Procs : /\ Owns(q, r)' <=> Owns(q, r)
                         /\ Busy(q, r)' <=> Busy(q, r)
    BY <1>3, <1>6, <1>7, UntouchedKeeps
  <2>2. \A q \in Procs : q # p => LockedBy(q)' = LockedBy(q)
    BY <1>3, UntouchedKeeps
  <2>3. Tally(r)'
    BY <1>1, <2>1, TallyKept DEF CalmInv
  <2>4. CASE Matches(c) /\ r = c.id
    <3>1. \A q \in Procs : r \in LockedBy(q)' => q = p
      BY <1>10, <2>2, <2>4
    <3>2. row'[r] = row[r] /\ row[r].status = "queued" /\ CalmRow(r)
      BY <1>1, <1>10, <2>4 DEF CalmInv
    <3>. QED
      BY <2>1, <2>3, <3>1, <3>2 DEF CalmRow
  <2>5. CASE ~(Matches(c) /\ r = c.id)
    <3>1. \A q \in Procs : r \in LockedBy(q)' => r \in LockedBy(q)
      BY <1>9, <2>2, <2>5
    <3>. QED
      BY <1>1, <2>1, <2>3, <3>1, CalmRowKept DEF CalmInv
  <2>. QED
    BY <2>3, <2>4, <2>5
<1>. QED
  BY <1>11, <1>12 DEF CalmInv

\* A claim that wins nothing, or is aborted, has nothing in its hands to lose.
LEMMA CalmClaimEnds ==
  ASSUME Calm, CalmInv, WellFormed', NEW p \in Procs, ClaimNothing(p) \/ DeadlockVictim(p)
  PROVE  CalmInv'
<1>1. UNCHANGED <<row, delivered, failures>> /\ EndSession(p)
  BY DEF ClaimNothing, DeadlockVictim, channels
<1>2. pc[p] = "update"
  BY DEF ClaimNothing, DeadlockVictim, WaitsFor
<1>3. \A r : ~Owns(p, r) /\ ~Busy(p, r)
  BY <1>2, NoHands
<1>. QED
  BY <1>1, <1>3, EndSessionCalm, CalmQuiet

\* The commit takes the rows whose locks the claim holds, all at once.
LEMMA CalmCommit ==
  ASSUME Calm, CalmInv, WellFormed', NEW p \in Procs, ClaimCommit(p)
  PROVE  CalmInv'
<1>1. /\ pc[p] = "update"
      /\ UNCHANGED <<delivered, failures, claimed, held, answer>>
  BY DEF ClaimCommit, channels
<1>2. \A q \in Procs : q # p => Untouched(q)
  BY DEF ClaimCommit, Untouched, CalmInv, WellFormed, TypeOK
<1>3. pc'[p] = "load" /\ UNCHANGED <<cands, mem>>
  BY DEF ClaimCommit, CalmInv, WellFormed, TypeOK
<1>4. LockedBy(p) = Range(claimed[p]) /\ LockedBy(p) \subseteq Requests
  BY <1>1, LockedRequests DEF LockedBy, CalmInv, WellFormed
<1>5. \A r \in Requests : row'[r] = IF r \in LockedBy(p) THEN Taken(row[r]) ELSE row[r]
  BY <1>4 DEF ClaimCommit
<1>6. held[p] = {} /\ \A r : ~Owns(p, r) /\ ~Busy(p, r)
  BY <1>1, NoHands
<1>7. /\ LockedBy(p)' = {} /\ \A r : ~Busy(p, r)'
      /\ \A r : Owns(p, r)' <=> r \in LockedBy(p)
  BY <1>1, <1>3, <1>4, <1>6 DEF LockedBy, Busy, Owns, Range
<1>8. \A q \in Procs, r \in LockedBy(p) : ~Owns(q, r)
  BY <1>4 DEF CalmInv, CalmRow
<1>9. ASSUME NEW q \in Procs
      PROVE  CalmProc(q)'
  <2>1. CASE q = p
    BY <1>1, <1>3, <1>6, <2>1 DEF CalmProc, CalmInv
  <2>2. CASE q # p
    <3>1. \A r \in held[q] : r \in Requests /\ row'[r] = row[r]
      BY <1>5, <1>8 DEF Owns, CalmInv, WellFormed, TypeOK
    <3>. QED
      BY <1>2, <2>2, <3>1, CalmProcKept DEF CalmInv
  <2>. QED
    BY <2>1, <2>2
<1>10. ASSUME NEW r \in Requests
       PROVE  CalmRow(r)' /\ Tally(r)'
  <2>1. \A q \in Procs : q # p => /\ Owns(q, r)' <=> Owns(q, r)
                                  /\ Busy(q, r)' <=> Busy(q, r)
                                  /\ LockedBy(q)' = LockedBy(q)
    BY <1>2, UntouchedKeeps
  <2>2. CalmRow(r) /\ Tally(r) /\ row[r] \in Row
    BY DEF CalmInv, WellFormed, TypeOK
  <2>3. CASE r \in LockedBy(p)
    <3>1. \A q \in Procs : Owns(q, r)' <=> q = p
      BY <1>7, <1>8, <2>1, <2>3
    <3>2. \A q \in Procs : r \notin LockedBy(q)'
      BY <1>7, <2>1, <2>2, <2>3 DEF CalmRow
    <3>3. /\ row'[r].status = "dispatching" /\ row'[r].lease = "live"
          /\ row'[r].attempt = row[r].attempt
      BY <1>5, <2>2, <2>3 DEF Taken, Row
    <3>4. CalmRow(r)'
      BY <3>1, <3>2, <3>3 DEF CalmRow
    <3>5. row[r].status = "queued"
      BY <2>2, <2>3 DEF CalmRow
    <3>6. /\ row[r].attempt < MaxAttempts /\ row[r].attempt <= MaxAttempts
          /\ failures[r] = row[r].attempt /\ delivered[r] = 0 /\ row[r].attempt \in Nat
      BY <2>2, <3>5 DEF Tally, Row
    <3>7. ~Busy(p, r)'
      BY <1>7
    <3>8. Tally(r)'
      BY <1>1, <3>1, <3>3, <3>6, <3>7 DEF Tally
    <3>. QED
      BY <3>4, <3>8
  <2>4. CASE r \notin LockedBy(p)
    <3>1. row'[r] = row[r]
      BY <1>5, <2>4
    <3>2. \A q \in Procs : /\ Owns(q, r)' <=> Owns(q, r)
                           /\ Busy(q, r)' <=> Busy(q, r)
                           /\ r \in LockedBy(q)' => r \in LockedBy(q)
      BY <1>6, <1>7, <2>1, <2>4
    <3>. QED
      BY <1>1, <2>2, <3>1, <3>2, CalmRowKept, TallyKept
  <2>. QED
    BY <2>3, <2>4
<1>. QED
  BY <1>9, <1>10 DEF CalmInv

\* What a worker won it holds, as the rows are now.
LEMMA CalmLoad ==
  ASSUME Calm, CalmInv, WellFormed', NEW p \in Procs, ClaimLoad(p)
  PROVE  CalmInv'
<1>1. p \in Workers /\ target[p] = NoRequest /\ Range(claimed[p]) \subseteq Requests
  BY LockedRequests DEF Calm, Procs, CalmInv, WellFormed, Shape
<1>2. /\ pc[p] = "load" /\ UNCHANGED <<row, delivered, failures, cands, answer>>
      /\ held' = [held EXCEPT ![p] = Range(claimed[p])]
      /\ mem' = Loaded(p, Range(claimed[p]))
      /\ claimed' = [claimed EXCEPT ![p] = <<>>]
      /\ pc' = [pc EXCEPT ![p] = "work"]
  BY <1>1, ConstantsAssumption DEF ClaimLoad, Calm, channels
<1>3. \A q \in Procs : q # p => Untouched(q)
  BY <1>2 DEF Loaded, Untouched, CalmInv, WellFormed, TypeOK
<1>4. /\ pc'[p] = "work" /\ held'[p] = Range(claimed[p]) /\ claimed'[p] = <<>>
      /\ \A r \in held'[p] : mem'[p][r] = row[r]
  BY <1>1, <1>2 DEF Loaded, CalmInv, WellFormed, TypeOK
<1>5. CalmProc(p)'
  BY <1>2, <1>4 DEF CalmProc, CalmInv
<1>6. \A r : /\ Owns(p, r)' <=> Owns(p, r)
             /\ ~Busy(p, r) /\ ~Busy(p, r)'
  BY <1>2, <1>4, NoHands DEF Owns, Busy
<1>7. LockedBy(p)' = {}
  BY <1>4 DEF LockedBy
<1>. QED
  BY <1>2, <1>3, <1>5, <1>6, <1>7, CalmQuiet

-----------------------------------------------------------------------------
(* Processing. *)

\* What processing a row rests on: a held row is being dispatched,
\* its holder's copy is the row, and nobody else holds it; an answer is in no idle hands.
Hands ==
  /\ WellFormed
  /\ \A p \in Procs : pc[p] # "answered" => answer[p] = NoAnswer
  /\ \A p \in Procs : \A r \in held[p] : mem[p][r] = row[r] /\ row[r].status = "dispatching"
  /\ \A p, q \in Procs : \A r \in held[p] : r \in held[q] => p = q

LEMMA CalmHands == ASSUME CalmInv PROVE Hands
<1>1. \A p \in Procs : \A r \in held[p] : r \in Requests /\ Owns(p, r)
  BY DEF CalmInv, WellFormed, TypeOK, Owns
<1>2. \A p, q \in Procs : \A r \in held[p] : r \in held[q] => p = q
  BY <1>1 DEF CalmInv, CalmRow
<1>. QED
  BY <1>1, <1>2 DEF CalmInv, CalmProc, CalmRow, Hands

\* What a write-back leaves of a held row is the new copy: the old copy was the row.
LEMMA WriteBackRow ==
  ASSUME Hands, NEW p \in Procs, NEW r \in held[p], NEW new \in Row,
         WriteBack(p, r, new), new.status \in {"sent", "queued", "failed"}
  PROVE  /\ \A s \in Requests : s # r => row'[s] = row[s]
         /\ row'[r].status = new.status /\ row'[r].attempt = new.attempt
<1>1. r \in Requests /\ mem[p][r] = row[r] /\ row[r] \in Row /\ row[r].status = "dispatching"
  BY DEF Hands, WellFormed, TypeOK
<1>2. row' = [row EXCEPT ![r] = OrmFlush(row[r], row[r], new)]
  BY <1>1 DEF WriteBack
<1>3. /\ OrmFlush(row[r], row[r], new).status = new.status
      /\ OrmFlush(row[r], row[r], new).attempt = new.attempt
  BY <1>1 DEF OrmFlush, Column
<1>. QED
  BY <1>1, <1>2, <1>3 DEF Hands, WellFormed, TypeOK

LEMMA WriteBackCalm ==
  ASSUME CalmInv, NEW p \in Procs, NEW r \in held[p], NEW new \in Row,
         WriteBack(p, r, new), new.status \in {"sent", "queued", "failed"}
  PROVE  /\ r \in Requests /\ row[r].status = "dispatching" /\ mem[p][r] = row[r]
         /\ \A s \in Requests : s # r => row'[s] = row[s]
         /\ row'[r].status = new.status /\ row'[r].attempt = new.attempt
BY CalmHands, WriteBackRow DEF Hands, WellFormed, TypeOK

\* After it the worker holds its other rows as before.
LEMMA WriteBackHands ==
  ASSUME CalmInv, NEW p \in Procs, NEW r \in held[p], NEW new, WriteBack(p, r, new)
  PROVE  /\ \A q \in Procs : q # p => Untouched(q)
         /\ pc'[p] \in {"idle", "work"} /\ cands'[p] \in {<<>>, cands[p]}
         /\ claimed'[p] = <<>> /\ answer'[p] = NoAnswer
         /\ held'[p] = held[p] \ {r} /\ \A s \in held'[p] : mem'[p][s] = mem[p][s]
<1>1. pc[p] \in {"work", "answered"} /\ claimed[p] = <<>> /\ held[p] \subseteq Requests
  BY DEF CalmInv, CalmProc, WellFormed, TypeOK, Shape
<1>2. CASE held[p] = {r}
  <2>1. EndSession(p)
    BY <1>2 DEF WriteBack
  <2>2. /\ pc'[p] = "idle" /\ cands'[p] = <<>> /\ claimed'[p] = <<>> /\ held'[p] = {}
        /\ answer'[p] = NoAnswer
    BY <2>1 DEF EndSession, CalmInv, WellFormed, TypeOK
  <2>. QED
    BY <1>2, <2>1, <2>2, EndSessionCalm
<1>3. CASE held[p] # {r}
  <2>1. /\ held' = [held EXCEPT ![p] = @ \ {r}]
        /\ mem' = [mem EXCEPT ![p][r] = NoRow]
        /\ answer' = [answer EXCEPT ![p] = NoAnswer]
        /\ pc' = [pc EXCEPT ![p] = "work"]
        /\ UNCHANGED <<target, cands, claimed>>
    BY <1>3 DEF WriteBack
  <2>2. \A q \in Procs : q # p => Untouched(q)
    BY <2>1 DEF Untouched, CalmInv, WellFormed, TypeOK
  <2>3. held'[p] = held[p] \ {r} /\ pc'[p] = "work" /\ answer'[p] = NoAnswer
    BY <2>1 DEF CalmInv, WellFormed, TypeOK
  <2>4. \A s \in held'[p] : mem'[p][s] = mem[p][s]
    BY <1>1, <2>1, <2>3 DEF CalmInv, WellFormed, TypeOK
  <2>. QED
    BY <1>1, <2>1, <2>2, <2>3, <2>4
<1>. QED
  BY <1>2, <1>3

LEMMA CalmWriteBack ==
  ASSUME Calm, CalmInv, WellFormed', NEW p \in Procs, NEW r \in held[p], NEW new \in Row,
         WriteBack(p, r, new), UNCHANGED <<delivered, failures>>,
         new.status \in {"sent", "queued", "failed"},
         new.attempt <= MaxAttempts, new.status = "queued" => new.attempt < MaxAttempts,
         failures[r] = new.attempt,
         delivered[r] = 0 \/ (new.status = "sent" /\ delivered[r] = 1),
         \A s \in Requests : Busy(p, s) => s = r
  PROVE  CalmInv'
<1>1. /\ r \in Requests /\ row[r].status = "dispatching" /\ mem[p][r] = row[r]
      /\ \A s \in Requests : s # r => row'[s] = row[s]
      /\ row'[r].status = new.status /\ row'[r].attempt = new.attempt
  BY WriteBackCalm
<1>2. /\ \A q \in Procs : q # p => Untouched(q)
      /\ pc'[p] \in {"idle", "work"} /\ cands'[p] \in {<<>>, cands[p]}
      /\ claimed'[p] = <<>> /\ answer'[p] = NoAnswer
      /\ held'[p] = held[p] \ {r} /\ \A s \in held'[p] : mem'[p][s] = mem[p][s]
  BY WriteBackHands
<1>3. pc[p] \in {"work", "answered"} /\ \A q \in Procs : held[q] \subseteq Requests
  BY DEF CalmInv, WellFormed, TypeOK, Shape
<1>4. /\ \A s : Owns(p, s)' <=> Owns(p, s) /\ s # r
      /\ \A s : ~Busy(p, s)'
      /\ LockedBy(p)' = {}
  BY <1>2, <1>3 DEF Owns, Busy, LockedBy
<1>5. \A q \in Procs : q # p => ~Owns(q, r)
  <2>1. Owns(p, r)
    BY DEF Owns
  <2>. QED
    BY <1>1, <2>1 DEF CalmInv, CalmRow
<1>6. ASSUME NEW q \in Procs
      PROVE  CalmProc(q)'
  <2>1. CASE q = p
    <3>1. \A i \in DOMAIN cands'[p] : cands'[p][i].status = "queued"
      BY <1>2 DEF CalmInv, CalmProc
    <3>2. \A s \in held'[p] : mem'[p][s] = row'[s]
      BY <1>1, <1>2, <1>3 DEF CalmInv, CalmProc
    <3>. QED
      BY <1>2, <2>1, <3>1, <3>2 DEF CalmProc
  <2>2. CASE q # p
    <3>1. \A s \in held[q] : row'[s] = row[s]
      BY <1>1, <1>3, <1>5, <2>2 DEF Owns
    <3>. QED
      BY <1>2, <2>2, <3>1, CalmProcKept DEF CalmInv
  <2>. QED
    BY <2>1, <2>2
<1>7. ASSUME NEW s \in Requests
      PROVE  CalmRow(s)' /\ Tally(s)'
  <2>1. \A q \in Procs : q # p => /\ Owns(q, s)' <=> Owns(q, s)
                                  /\ Busy(q, s)' <=> Busy(q, s)
                                  /\ answer'[q] = answer[q]
                                  /\ LockedBy(q)' = LockedBy(q)
    BY <1>2, UntouchedKeeps DEF Untouched
  <2>2. CalmRow(s) /\ Tally(s)
    BY DEF CalmInv
  <2>3. CASE s = r
    <3>1. \A q \in Procs : ~Owns(q, s)'
      BY <1>4, <1>5, <2>1, <2>3
    <3>2. \A q \in Procs : s \notin LockedBy(q)'
      BY <1>1, <1>4, <2>1, <2>2, <2>3 DEF CalmRow
    <3>3. CalmRow(s)'
      BY <1>1, <2>3, <3>1, <3>2 DEF CalmRow
    <3>4. Tally(s)'
      BY <1>1, <2>3, <3>1 DEF Tally
    <3>. QED
      BY <3>3, <3>4
  <2>4. CASE s # r
    <3>1. \A q \in Procs : /\ Owns(q, s)' <=> Owns(q, s)
                           /\ Busy(q, s)' <=> Busy(q, s)
                           /\ Busy(q, s) => answer'[q] = answer[q]
                           /\ s \in LockedBy(q)' => s \in LockedBy(q)
      BY <1>4, <2>1, <2>4
    <3>. QED
      BY <1>1, <2>2, <2>4, <3>1, CalmRowKept, TallyKept
  <2>. QED
    BY <2>3, <2>4
<1>. QED
  BY <1>6, <1>7 DEF CalmInv

\* What an owner knows of the row it holds.
LEMMA HeldTally ==
  ASSUME CalmInv, NEW p \in Procs, NEW r \in held[p]
  PROVE  /\ r \in Requests /\ row[r] \in Row /\ mem[p][r] = row[r]
         /\ row[r].attempt \in Nat /\ row[r].attempt < MaxAttempts
         /\ failures[r] = row[r].attempt + (IF Busy(p, r) /\ ~answer[p].ok THEN 1 ELSE 0)
         /\ delivered[r] = IF Busy(p, r) /\ answer[p].ok THEN 1 ELSE 0
<1>1. r \in Requests /\ row[r] \in Row /\ mem[p][r] = row[r] /\ Owns(p, r)
  BY DEF CalmInv, CalmProc, WellFormed, TypeOK, Owns
<1>2. row[r].status = "dispatching" /\ row[r].attempt \in Nat
  BY <1>1 DEF CalmInv, CalmRow, Row
<1>. QED
  BY <1>1, <1>2 DEF CalmInv, Tally

LEMMA CalmSimulate ==
  ASSUME Calm, CalmInv, WellFormed', NEW p \in Procs, NEW r \in Requests, Simulate(p, r)
  PROVE  CalmInv'
<1>. DEFINE new == [mem[p][r] EXCEPT !.status = "sent", !.lease = "none"]
<1>1. /\ r \in held[p] /\ pc[p] = "work" /\ WriteBack(p, r, new)
      /\ UNCHANGED <<delivered, failures>>
  BY DEF Simulate, channels
<1>2. \A s : ~Busy(p, s)
  BY <1>1 DEF Busy
<1>3. /\ mem[p][r] \in Row /\ mem[p][r].attempt \in Nat /\ mem[p][r].attempt < MaxAttempts
      /\ failures[r] = mem[p][r].attempt /\ delivered[r] = 0
  BY <1>1, <1>2, HeldTally
<1>4. new \in Row /\ new.status = "sent" /\ new.attempt = mem[p][r].attempt
  BY <1>3 DEF Row, Statuses
<1>5. new.attempt <= MaxAttempts
  BY <1>3, <1>4, ConstantsAssumption
<1>. HIDE DEF new
<1>. QED
  BY <1>1, <1>2, <1>3, <1>4, <1>5, CalmWriteBack

LEMMA CalmFinish ==
  ASSUME Calm, CalmInv, WellFormed', NEW p \in Procs,
         FinishSent(p) \/ FinishRetry(p) \/ FinishFailed(p)
  PROVE  CalmInv'
<1>. DEFINE r == answer[p].id
            copy == mem[p][r]
<1>1. /\ pc[p] = "answered" /\ r \in held[p] /\ UNCHANGED <<delivered, failures>>
  BY FinishEffect DEF FinishSent, Accepted, FinishRetry, FinishFailed, CalmInv, channels
<1>2. Busy(p, r) /\ \A s : Busy(p, s) => s = r
  BY <1>1 DEF Busy
<1>3. /\ r \in Requests /\ copy \in Row /\ copy.attempt \in Nat /\ copy.attempt < MaxAttempts
      /\ failures[r] = copy.attempt + (IF answer[p].ok THEN 0 ELSE 1)
      /\ delivered[r] = IF answer[p].ok THEN 1 ELSE 0
  BY <1>1, <1>2, HeldTally
<1>4. CASE FinishSent(p)
  <2>. DEFINE new == [copy EXCEPT !.status = "sent", !.lease = "none"]
  <2>1. WriteBack(p, r, new) /\ answer[p].ok
    BY <1>4 DEF FinishSent, Accepted
  <2>2. new \in Row /\ new.status = "sent" /\ new.attempt = copy.attempt
    BY <1>3 DEF Row, Statuses
  <2>3. new.attempt <= MaxAttempts /\ failures[r] = new.attempt /\ delivered[r] = 1
    BY <1>3, <2>1, <2>2, ConstantsAssumption
  <2>. HIDE DEF new, copy, r
  <2>. QED
    BY <1>1, <1>2, <2>1, <2>2, <2>3, CalmWriteBack
<1>5. CASE FinishRetry(p)
  <2>. DEFINE new == [copy EXCEPT !.status = "queued", !.lease = "none", !.attempt = @ + 1]
  <2>1. WriteBack(p, r, new) /\ ~answer[p].ok /\ ~Spent(copy.attempt + 1)
    BY <1>5 DEF FinishRetry
  <2>2. copy.attempt + 1 \in Nat
    BY <1>3
  <2>3. new \in Row /\ new.status = "queued" /\ new.attempt = copy.attempt + 1
    BY <1>3, <2>2 DEF Row, Statuses
  <2>4. /\ new.attempt <= MaxAttempts /\ new.attempt < MaxAttempts
        /\ failures[r] = new.attempt /\ delivered[r] = 0
    BY <1>3, <2>1, <2>3, ConstantsAssumption DEF Spent
  <2>. HIDE DEF new, copy, r
  <2>. QED
    BY <1>1, <1>2, <2>1, <2>3, <2>4, CalmWriteBack
<1>6. CASE FinishFailed(p)
  <2>. DEFINE new == [copy EXCEPT !.status = "failed", !.lease = "none", !.attempt = @ + 1]
  <2>1. WriteBack(p, r, new) /\ ~answer[p].ok
    BY <1>6 DEF FinishFailed
  <2>2. copy.attempt + 1 \in Nat
    BY <1>3
  <2>3. new \in Row /\ new.status = "failed" /\ new.attempt = copy.attempt + 1
    BY <1>3, <2>2 DEF Row, Statuses
  <2>4. new.attempt <= MaxAttempts /\ failures[r] = new.attempt /\ delivered[r] = 0
    BY <1>3, <2>1, <2>3, ConstantsAssumption
  <2>. HIDE DEF new, copy, r
  <2>. QED
    BY <1>1, <1>2, <2>1, <2>3, <2>4, CalmWriteBack
<1>. QED
  BY <1>4, <1>5, <1>6

\* The owner of a row, and nobody else, calls the provider for it, once per claim.
LEMMA CalmSend ==
  ASSUME Calm, CalmInv, WellFormed', NEW p \in Procs, NEW r \in Requests, NEW ok \in BOOLEAN,
         Send(p, r, ok)
  PROVE  CalmInv'
<1>1. /\ pc[p] = "work" /\ r \in held[p]
      /\ UNCHANGED <<row, cands, claimed, held, mem>>
  BY DEF Send
<1>2. /\ pc'[p] = "answered" /\ answer'[p].id = r /\ answer'[p].ok = ok
      /\ \A q \in Procs : q # p => Untouched(q)
  BY DEF Send, Untouched, CalmInv, WellFormed, TypeOK
<1>3. /\ failures'[r] = failures[r] + (IF ok THEN 0 ELSE 1)
      /\ delivered'[r] = delivered[r] + (IF ok THEN 1 ELSE 0)
      /\ \A s \in Requests : s # r => failures'[s] = failures[s] /\ delivered'[s] = delivered[s]
  <2>1. failures[r] \in Nat /\ delivered[r] \in Nat
    BY DEF CalmInv, WellFormed, TypeOK
  <2>2. CASE ok
    BY <2>1, <2>2 DEF Send, CalmInv, WellFormed, TypeOK
  <2>3. CASE ~ok
    BY <2>1, <2>3 DEF Send, CalmInv, WellFormed, TypeOK
  <2>. QED
    BY <2>2, <2>3
<1>4. \A s : Owns(p, s)' <=> Owns(p, s)
  BY <1>1, <1>2 DEF Owns
<1>5. (\A s : ~Busy(p, s)) /\ \A s : Busy(p, s)' <=> s = r
  BY <1>1, <1>2 DEF Busy
<1>6. LockedBy(p)' = {}
  BY <1>2 DEF LockedBy
<1>7. CalmProc(p)'
  BY <1>1, <1>2 DEF CalmProc, CalmInv
<1>8. \A q \in Procs : CalmProc(q)'
  BY <1>1, <1>2, <1>7, CalmProcKept DEF CalmInv
<1>9. ASSUME NEW s \in Requests
      PROVE  CalmRow(s)' /\ Tally(s)'
  <2>1. \A q \in Procs : q # p => /\ Busy(q, s)' <=> Busy(q, s)
                                  /\ answer'[q] = answer[q]
                                  /\ LockedBy(q)' = LockedBy(q)
    BY <1>2, UntouchedKeeps DEF Untouched
  <2>2. \A q \in Procs : Owns(q, s)' <=> Owns(q, s)
    BY <1>2, <1>4, UntouchedKeeps
  <2>3. CalmRow(s)'
    BY <1>1, <1>6, <2>1, <2>2, CalmRowKept DEF CalmInv
  <2>4. CASE s = r
    <3>1. Owns(p, s)
      BY <1>1, <2>4 DEF Owns
    <3>2. row[s].status = "dispatching" /\ \A q \in Procs : Owns(q, s) => q = p
      BY <3>1 DEF CalmInv, CalmRow
    <3>3. /\ row[s].attempt \in Nat /\ row[s].attempt < MaxAttempts
          /\ failures[s] = row[s].attempt /\ delivered[s] = 0
      BY <1>1, <1>5, <2>4, HeldTally
    <3>4. row'[s] = row[s] /\ row[s].attempt <= MaxAttempts
      BY <1>1, <3>3, ConstantsAssumption
    <3>5. Busy(p, s)' /\ answer'[p].ok = ok
      BY <1>2, <1>5, <2>4
    <3>6. /\ failures'[s] = row'[s].attempt + (IF Busy(p, s)' /\ ~answer'[p].ok THEN 1 ELSE 0)
          /\ delivered'[s] = IF Busy(p, s)' /\ answer'[p].ok THEN 1 ELSE 0
      BY <1>3, <2>4, <3>3, <3>4, <3>5
    <3>. QED
      BY <2>2, <2>3, <3>2, <3>3, <3>4, <3>6 DEF Tally
  <2>5. CASE s # r
    <3>1. \A q \in Procs : /\ Busy(q, s)' <=> Busy(q, s)
                           /\ Busy(q, s) => answer'[q] = answer[q]
      BY <1>5, <2>1, <2>5
    <3>. QED
      BY <1>1, <1>3, <2>2, <2>3, <2>5, <3>1, TallyKept DEF CalmInv
  <2>. QED
    BY <2>4, <2>5
<1>. QED
  BY <1>8, <1>9 DEF CalmInv

\* A new request, or a backoff that ends, concerns a row that nobody has in hand.
LEMMA CalmOutside ==
  ASSUME CalmInv, WellFormed', NEW r \in Requests,
         UNCHANGED <<delivered, failures, pc, cands, claimed, held, mem, answer>>,
         \A s \in Requests : s # r => row'[s] = row[s],
         row[r].status # "dispatching",
         row'[r].attempt = row[r].attempt,
         \/ row'[r].status = row[r].status
         \/ row[r].status = "absent" /\ row'[r].status \in {"pending", "approved", "denied"}
  PROVE  CalmInv'
<1>1. \A q \in Procs : Untouched(q) /\ held[q] \subseteq Requests
  BY DEF Untouched, CalmInv, WellFormed, TypeOK
<1>2. \A q \in Procs : ~Owns(q, r)
  BY DEF CalmInv, CalmRow
<1>3. \A q \in Procs : CalmProc(q)'
  <2>1. \A q \in Procs : \A s \in held[q] : row'[s] = row[s]
    BY <1>1, <1>2 DEF Owns
  <2>. QED
    BY <1>1, <2>1, CalmProcKept DEF CalmInv
<1>4. ASSUME NEW s \in Requests
      PROVE  CalmRow(s)' /\ Tally(s)'
  <2>1. \A q \in Procs : /\ Owns(q, s)' <=> Owns(q, s)
                         /\ Busy(q, s)' <=> Busy(q, s)
                         /\ answer'[q] = answer[q]
                         /\ LockedBy(q)' = LockedBy(q)
    BY <1>1, UntouchedKeeps
  <2>2. CalmRow(s) /\ Tally(s)
    BY DEF CalmInv
  <2>3. CASE s = r
    <3>1. CalmRow(s)'
      BY <1>2, <2>1, <2>2, <2>3 DEF CalmRow
    <3>2. Tally(s)'
      BY <1>2, <2>1, <2>2, <2>3 DEF Tally
    <3>. QED
      BY <3>1, <3>2
  <2>4. CASE s # r
    BY <2>1, <2>2, <2>4, CalmRowKept, TallyKept
  <2>. QED
    BY <2>3, <2>4
<1>. QED
  BY <1>3, <1>4 DEF CalmInv

LEMMA CalmCreate ==
  ASSUME CalmInv, WellFormed', NEW r \in Requests, NEW d \in {"ALLOW", "REVIEW", "DENY"},
         Create(r, d)
  PROVE  CalmInv'
<1>1. /\ row[r].status = "absent" /\ row[r] \in Row
      /\ UNCHANGED <<delivered, failures, pc, cands, claimed, held, mem, answer>>
      /\ row' = [row EXCEPT ![r] = [row[r] EXCEPT !.status = InitialStatus(d)]]
  BY DEF Create, channels, CalmInv, WellFormed, TypeOK
<1>2. InitialStatus(d) \in {"pending", "approved", "denied"}
  BY DEF InitialStatus
<1>3. /\ row'[r].status = InitialStatus(d) /\ row'[r].attempt = row[r].attempt
      /\ \A s \in Requests : s # r => row'[s] = row[s]
  BY <1>1 DEF CalmInv, WellFormed, TypeOK, Row
<1>. QED
  BY <1>1, <1>2, <1>3, CalmOutside

LEMMA CalmBackoff ==
  ASSUME CalmInv, WellFormed', NEW r \in Requests, BackoffElapse(r)
  PROVE  CalmInv'
<1>1. /\ row[r].status = "queued" /\ row[r] \in Row
      /\ UNCHANGED <<delivered, failures, pc, cands, claimed, held, mem, answer>>
      /\ row' = [row EXCEPT ![r] = [row[r] EXCEPT !.gate = "open"]]
  BY DEF BackoffElapse, channels, CalmInv, WellFormed, TypeOK
<1>2. /\ row'[r].status = row[r].status /\ row'[r].attempt = row[r].attempt
      /\ \A s \in Requests : s # r => row'[s] = row[s]
  BY <1>1 DEF CalmInv, WellFormed, TypeOK, Row
<1>. QED
  BY <1>1, <1>2, CalmOutside

\* Nobody dies and no lease runs out under its holder, so none runs out.
LEMMA NoFault ==
  ASSUME Calm, CalmInv
  PROVE  /\ \A p \in Procs : ~Crash(p)
         /\ \A r \in Requests : ~LeaseExpire(r)
<1>1. crashes = 0 /\ overruns = 0 /\ MaxCrashes = 0 /\ MaxOverruns = 0
  BY DEF Calm, CalmInv, WellFormed, TypeOK
<1>2. \A r \in Requests : row[r].status = "dispatching" => Owned(r)
  BY DEF CalmInv, CalmRow, Owns, Owned
<1>. QED
  BY <1>1, <1>2 DEF Crash, LeaseExpire

LEMMA CalmInit == Init => CalmInv
<1>. SUFFICES ASSUME Init PROVE CalmInv
  OBVIOUS
<1>1. WellFormed
  BY InitType, InitShape DEF WellFormed
<1>2. \A p \in Procs : CalmProc(p)
  BY DEF Init, CalmProc
<1>3. \A p \in Procs, r \in Requests : ~Owns(p, r) /\ r \notin LockedBy(p)
  BY DEF Init, Owns, LockedBy
<1>4. \A r \in Requests : /\ row[r].status = IF r \in Backlog THEN "queued" ELSE "absent"
                          /\ row[r].attempt = 0 /\ failures[r] = 0 /\ delivered[r] = 0
  BY DEF Init, NewRow
<1>5. \A r \in Requests : CalmRow(r)
  BY <1>3, <1>4 DEF CalmRow
<1>6. \A r \in Requests : Tally(r)
  BY <1>3, <1>4, ConstantsAssumption DEF Tally
<1>. QED
  BY <1>1, <1>2, <1>5, <1>6 DEF CalmInv

LEMMA CalmNext ==
  ASSUME Calm, CalmInv, [Next]_vars
  PROVE  CalmInv'
<1>0. WellFormed' /\ Sessions = {}
  BY StepOK DEF CalmInv, Calm
<1>1. ASSUME NEW r \in Requests, NEW d \in {"ALLOW", "REVIEW", "DENY"}, Create(r, d)
      PROVE  CalmInv'
  BY <1>0, <1>1, CalmCreate
<1>2. ASSUME NEW p \in Procs, Claim(p)
      PROVE  CalmInv'
  BY <1>0, <1>2, CalmSelect, CalmUpdate, CalmCommit, CalmClaimEnds, CalmLoad DEF Claim
<1>3. ASSUME NEW p \in Procs, Process(p)
      PROVE  CalmInv'
  BY <1>0, <1>3, CalmSimulate, CalmSend, CalmFinish DEF Process
<1>4. ASSUME NEW r \in Requests, BackoffElapse(r)
      PROVE  CalmInv'
  BY <1>0, <1>4, CalmBackoff
<1>5. CASE UNCHANGED vars
  <2>1. \A q \in Procs : Untouched(q)
    BY <1>5 DEF vars, Untouched
  <2>2. \A r \in Requests : CalmRow(r)' /\ Tally(r)'
    BY <1>5, <2>1, UntouchedKeeps DEF CalmInv, CalmRow, Tally, vars
  <2>3. \A q \in Procs : CalmProc(q)'
    BY <1>5, <2>1, CalmProcKept DEF CalmInv, vars
  <2>. QED
    BY <1>0, <2>2, <2>3 DEF CalmInv
<1>. QED
  BY <1>0, <1>1, <1>2, <1>3, <1>4, <1>5, NoFault DEF Next

-----------------------------------------------------------------------------
\* Without crashes and overrun leases no two workers ever hold the same request, however
\* many workers poll and however their claims overlap.
THEOREM OneOwner ==
  ASSUME Calm
  PROVE  Spec => []SingleOwner
<1>1. CalmInv => SingleOwner
  BY DEF CalmInv, CalmRow, SingleOwner, Owns
<1>2. Init => CalmInv
  BY CalmInit
<1>3. CalmInv /\ [Next]_vars => CalmInv'
  BY CalmNext
<1>. QED
  BY <1>1, <1>2, <1>3, PTL DEF Spec

\* Without crashes and overrun leases no claim is ever stuck: a claimed row has its lease.
THEOREM ClaimsCarryLeases ==
  ASSUME Calm
  PROVE  Spec => []NoStuckClaim
<1>1. CalmInv => NoStuckClaim
  BY DEF CalmInv, CalmRow, NoStuckClaim
<1>2. Init => CalmInv
  BY CalmInit
<1>3. CalmInv /\ [Next]_vars => CalmInv'
  BY CalmNext
<1>. QED
  BY <1>1, <1>2, <1>3, PTL DEF Spec

\* Without crashes and overrun leases the outcome in a row is what happened at the provider:
\* one delivery at most, at most worker_max_attempts errors, no delivered message dead.
THEOREM OutcomeHolds ==
  ASSUME Calm
  PROVE  Spec => []OutcomeIsTrue
<1>1. CalmInv => OutcomeIsTrue
  <2>. SUFFICES ASSUME CalmInv, NEW r \in Requests
                PROVE  /\ failures[r] <= MaxAttempts
                       /\ delivered[r] <= 1
                       /\ row[r].status = "failed" => delivered[r] = 0
                       /\ row[r].status = "queued" =>
                            delivered[r] = 0 /\ failures[r] = row[r].attempt
    BY DEF OutcomeIsTrue
  <2>1. CalmRow(r) /\ Tally(r) /\ row[r].attempt \in Nat
    BY DEF CalmInv, WellFormed, TypeOK, Row
  <2>2. CASE row[r].status = "dispatching"
    <3>1. PICK p \in Procs : Owns(p, r)
      BY <2>1, <2>2 DEF CalmRow
    <3>. QED
      BY <2>1, <2>2, <3>1, ConstantsAssumption DEF Tally
  <2>3. CASE row[r].status # "dispatching"
    BY <2>1, <2>3 DEF Tally
  <2>. QED
    BY <2>2, <2>3
<1>2. Init => CalmInv
  BY CalmInit
<1>3. CalmInv /\ [Next]_vars => CalmInv'
  BY CalmNext
<1>. QED
  BY <1>1, <1>2, <1>3, PTL DEF Spec

-----------------------------------------------------------------------------
(* The engine implements the promise: every request queued at the start, and every worker *)
(* configured to send.                                                                    *)

AllSend == Backlog = Requests /\ Live = Procs
Engine == Calm /\ AllSend

\* What an answer in somebody's hands means for the mapping.
LEMMA AnsweredIsBusy ==
  ASSUME Hands, NEW r \in Requests, NEW ok \in BOOLEAN
  PROVE  Answered(r, ok) <=> \E p \in Procs : Busy(p, r) /\ answer[p].ok = ok
<1>1. ASSUME NEW p \in Procs, answer[p] = [id |-> r, ok |-> ok]
      PROVE  Busy(p, r) /\ answer[p].ok = ok
  <2>1. answer[p] \in Answer
    BY <1>1 DEF Answer
  <2>2. pc[p] = "answered"
    BY <2>1, ConstantsAssumption DEF Hands
  <2>. QED
    BY <1>1, <2>2 DEF Busy
<1>2. ASSUME NEW p \in Procs, Busy(p, r), answer[p].ok = ok
      PROVE  answer[p] = [id |-> r, ok |-> ok]
  BY <1>2 DEF Busy, Hands, WellFormed, Shape, Answer
<1>. QED
  BY <1>1, <1>2 DEF Answered

\* Who has an answer about a request holds it, and nobody else does.
LEMMA BusyHolds ==
  ASSUME Hands, NEW p \in Procs, NEW r, Busy(p, r)
  PROVE  r \in Requests /\ r \in held[p] /\ \A q \in Procs : r \in held[q] => q = p
BY DEF Hands, WellFormed, TypeOK, Shape, Busy

\* The three abstract variables, request by request.
LEMMA StateView ==
  /\ DOMAIN DeliveryState = Requests
  /\ \A r \in Requests :
       /\ row[r].status = "queued" => DeliveryState[r] = "waiting"
       /\ row[r].status = "dispatching" => DeliveryState[r] = "working"
       /\ row[r].status = "sent" => DeliveryState[r] = "done"
       /\ row[r].status = "failed" => DeliveryState[r] = "dead"
BY DEF DeliveryState

LEMMA OutcomeView ==
  ASSUME Hands, NEW r \in Requests
  PROVE  /\ (\A p \in Procs : ~Busy(p, r)) => DeliveryOutcome[r] = "none"
         /\ \A p \in Procs : Busy(p, r) =>
              DeliveryOutcome[r] = IF answer[p].ok THEN "ok" ELSE "error"
<1>1. (\A p \in Procs : ~Busy(p, r)) => DeliveryOutcome[r] = "none"
  BY AnsweredIsBusy DEF DeliveryOutcome
<1>2. ASSUME NEW p \in Procs, Busy(p, r)
      PROVE  DeliveryOutcome[r] = IF answer[p].ok THEN "ok" ELSE "error"
  <2>1. \A q \in Procs : Busy(q, r) => q = p
    BY <1>2, BusyHolds
  <2>2. answer[p].ok \in BOOLEAN
    BY <1>2 DEF Busy, Hands, WellFormed, Shape, Answer
  <2>3. CASE answer[p].ok = TRUE
    BY <1>2, <2>3, AnsweredIsBusy DEF DeliveryOutcome
  <2>4. CASE answer[p].ok = FALSE
    <3>1. ~Answered(r, TRUE) /\ Answered(r, FALSE)
      BY <1>2, <2>1, <2>4, AnsweredIsBusy
    <3>. QED
      BY <2>4, <3>1 DEF DeliveryOutcome
  <2>. QED
    BY <2>2, <2>3, <2>4
<1>. QED
  BY <1>1, <1>2

\* A step that keeps answers, and every status but for one batch, keeps the rest of the view.
LEMMA ViewKept ==
  ASSUME UNCHANGED <<answer, delivered, failures>>,
         \A r \in Requests : /\ row'[r].status = row[r].status
                             /\ row'[r].attempt = row[r].attempt
  PROVE  UNCHANGED Promise!vars
BY DEF Promise!vars, DeliveryState, DeliveryOutcome, Answered

LEMMA PromiseInit ==
  ASSUME AllSend, Init
  PROVE  Promise!Init
<1>1. \A r \in Requests : row[r].status = "queued" /\ row[r].attempt = 0
  BY DEF AllSend, Init, NewRow
<1>2. DeliveryState = [r \in Requests |-> "waiting"]
  BY <1>1 DEF DeliveryState
<1>3. \A r \in Requests, ok \in BOOLEAN : ~Answered(r, ok)
  BY ConstantsAssumption DEF Init, Answered, Answer
<1>4. DeliveryOutcome = [r \in Requests |-> "none"]
  BY <1>3 DEF DeliveryOutcome
<1>. QED
  BY <1>1, <1>2, <1>4 DEF Init, Promise!Init

\* The commit of a claim is the start of its batch.
LEMMA CommitStarts ==
  ASSUME Engine, CalmInv, NEW p \in Procs, ClaimCommit(p)
  PROVE  Promise!Start(LockedBy(p))
<1>1. /\ pc[p] = "update" /\ claimed[p] # <<>>
      /\ UNCHANGED <<delivered, failures, answer>>
  BY DEF ClaimCommit, channels
<1>2. LockedBy(p) = Range(claimed[p]) /\ LockedBy(p) \subseteq Requests
  BY <1>1, LockedRequests DEF LockedBy, CalmInv, WellFormed
<1>3. LockedBy(p) # {}
  <2>1. 1 \in DOMAIN claimed[p]
    BY <1>1 DEF CalmInv, WellFormed, TypeOK
  <2>. QED
    BY <1>2, <2>1 DEF Range
<1>4. \A r \in LockedBy(p) : DeliveryState[r] = "waiting"
  BY <1>2, StateView DEF CalmInv, CalmRow
<1>5. \A r \in Requests : /\ r \in LockedBy(p) => /\ row'[r].status = "dispatching"
                                                  /\ row'[r].attempt = row[r].attempt
                          /\ r \notin LockedBy(p) => row'[r] = row[r]
  <2>1. \A r \in Requests : row'[r] = IF r \in LockedBy(p) THEN Taken(row[r]) ELSE row[r]
    BY <1>2 DEF ClaimCommit
  <2>2. \A r \in Requests : /\ Taken(row[r]).status = "dispatching"
                            /\ Taken(row[r]).attempt = row[r].attempt
    BY DEF Taken, CalmInv, WellFormed, TypeOK, Row
  <2>. QED
    BY <2>1, <2>2
<1>6. DeliveryState' = [r \in Requests |-> IF r \in LockedBy(p) THEN "working"
                                                                ELSE DeliveryState[r]]
  BY <1>5 DEF DeliveryState
<1>7. UNCHANGED DeliveryOutcome
  BY <1>1 DEF DeliveryOutcome, Answered
<1>8. UNCHANGED [r \in Requests |-> row[r].attempt]
  BY <1>5
<1>. QED
  BY <1>1, <1>3, <1>4, <1>6, <1>7, <1>8 DEF Promise!Start

\* A provider call is a delivery or a failure of the request its owner holds.
LEMMA SendDelivers ==
  ASSUME Hands, NEW p \in Procs, NEW r \in Requests, NEW ok \in BOOLEAN,
         Send(p, r, ok)
  PROVE  Promise!Deliver(r) \/ Promise!Fail(r)
<1>1. pc[p] = "work" /\ r \in held[p] /\ UNCHANGED row
  BY DEF Send
<1>2. /\ pc'[p] = "answered" /\ answer'[p].id = r /\ answer'[p].ok = ok
      /\ \A q \in Procs : q # p => Untouched(q)
  BY DEF Send, Untouched, Hands, WellFormed, TypeOK
<1>3. row[r].status = "dispatching"
  BY <1>1 DEF Hands
<1>4. \A q \in Procs : ~Busy(q, r)
  <2>1. ~Busy(p, r)
    BY <1>1 DEF Busy
  <2>. QED
    BY <1>1, <2>1, BusyHolds
<1>5. DeliveryState[r] = "working" /\ DeliveryOutcome[r] = "none"
  BY <1>3, <1>4, StateView, OutcomeView
<1>6. UNCHANGED <<DeliveryState, [s \in Requests |-> row[s].attempt]>>
  BY <1>1 DEF DeliveryState
<1>7. DeliveryOutcome' = [DeliveryOutcome EXCEPT ![r] = IF ok THEN "ok" ELSE "error"]
  <2>1. answer[p] = NoAnswer
    BY <1>1 DEF Hands
  <2>2. \A s \in Requests, o \in BOOLEAN : answer[p] # [id |-> s, ok |-> o]
    BY <2>1, ConstantsAssumption DEF Answer
  <2>3. \A s \in Requests, o \in BOOLEAN :
          answer'[p] = [id |-> s, ok |-> o] <=> s = r /\ o = ok
    <3>1. answer'[p] = [id |-> r, ok |-> ok]
      BY DEF Send, Hands, WellFormed, TypeOK
    <3>. QED
      BY <3>1
  <2>4. \A s \in Requests, o \in BOOLEAN :
          Answered(s, o)' <=> Answered(s, o) \/ (s = r /\ o = ok)
    <3>. SUFFICES ASSUME NEW s \in Requests, NEW o \in BOOLEAN
                  PROVE  Answered(s, o)' <=> Answered(s, o) \/ (s = r /\ o = ok)
      OBVIOUS
    <3>1. \A q \in Procs : q # p => answer'[q] = answer[q]
      BY <1>2 DEF Untouched
    <3>2. Answered(s, o)' => Answered(s, o) \/ (s = r /\ o = ok)
      BY <2>3, <3>1 DEF Answered
    <3>3. Answered(s, o) => Answered(s, o)'
      BY <2>2, <3>1 DEF Answered
    <3>4. s = r /\ o = ok => Answered(s, o)'
      BY <2>3 DEF Answered
    <3>. QED
      BY <3>2, <3>3, <3>4
  <2>5. \A o \in BOOLEAN : ~Answered(r, o)
    BY <1>4, AnsweredIsBusy
  <2>6. DeliveryOutcome'[r] = IF ok THEN "ok" ELSE "error"
    <3>1. CASE ok
      BY <2>4, <3>1 DEF DeliveryOutcome
    <3>2. CASE ~ok
      BY <2>4, <2>5, <3>2 DEF DeliveryOutcome
    <3>. QED
      BY <3>1, <3>2
  <2>7. ASSUME NEW s \in Requests, s # r PROVE DeliveryOutcome'[s] = DeliveryOutcome[s]
    BY <2>4, <2>7 DEF DeliveryOutcome
  <2>. QED
    BY <2>6, <2>7 DEF DeliveryOutcome
<1>8. CASE ok
  BY <1>5, <1>6, <1>7, <1>8 DEF Send, Promise!Deliver
<1>9. CASE ~ok
  BY <1>5, <1>6, <1>7, <1>9 DEF Send, Promise!Fail
<1>. QED
  BY <1>8, <1>9

\* The answer that is written back is in no hands any more, and nobody else's has changed.
LEMMA WriteBackAnswer ==
  ASSUME Hands, NEW p \in Procs, NEW r \in held[p], NEW new, WriteBack(p, r, new)
  PROVE  (\A q \in Procs : q # p => Untouched(q)) /\ answer'[p] = NoAnswer
<1>1. CASE held[p] = {r}
  BY <1>1 DEF WriteBack, EndSession, Untouched, Hands, WellFormed, TypeOK
<1>2. CASE held[p] # {r}
  BY <1>2 DEF WriteBack, Untouched, Hands, WellFormed, TypeOK
<1>. QED
  BY <1>1, <1>2

\* Once it is gone, the request has no outcome any more.
LEMMA AnswerGone ==
  ASSUME Hands, NEW p \in Procs, NEW r \in Requests, Busy(p, r), answer'[p] = NoAnswer,
         \A q \in Procs : q # p => answer'[q] = answer[q]
  PROVE  DeliveryOutcome' = [DeliveryOutcome EXCEPT ![r] = "none"]
<1>1. \A s \in Requests, o \in BOOLEAN : Answered(s, o)' <=> Answered(s, o) /\ s # r
  <2>1. \A s \in Requests, o \in BOOLEAN : answer'[p] # [id |-> s, ok |-> o]
    BY ConstantsAssumption DEF Answer
  <2>2. \A q \in Procs, o \in BOOLEAN : q # p => answer[q] # [id |-> r, ok |-> o]
    <3>. SUFFICES ASSUME NEW q \in Procs, NEW o \in BOOLEAN, q # p,
                         answer[q] = [id |-> r, ok |-> o]
                  PROVE  FALSE
      OBVIOUS
    <3>1. answer[q] \in Answer /\ answer[q].id = r
      BY DEF Answer
    <3>2. Busy(q, r)
      BY <3>1, ConstantsAssumption DEF Busy, Hands
    <3>. QED
      BY <3>2, BusyHolds
  <2>3. \A s \in Requests, o \in BOOLEAN : s # r => answer[p] # [id |-> s, ok |-> o]
    BY DEF Busy
  <2>. QED
    BY <2>1, <2>2, <2>3 DEF Answered
<1>. QED
  BY <1>1 DEF DeliveryOutcome

\* An answer that is written back settles its request.
LEMMA FinishSettles ==
  ASSUME Hands, NEW p \in Procs, NEW r \in Requests, answer[p].id = r,
         FinishSent(p) \/ FinishRetry(p) \/ FinishFailed(p)
  PROVE  Promise!Settle(r)
<1>. DEFINE copy == mem[p][r]
<1>1. pc[p] = "answered" /\ r \in held[p] /\ UNCHANGED <<delivered, failures>>
  BY FinishEffect DEF FinishSent, Accepted, FinishRetry, FinishFailed, Hands, channels
<1>2. /\ Busy(p, r) /\ \A q \in Procs : r \in held[q] => q = p
      /\ copy = row[r] /\ copy \in Row /\ copy.attempt + 1 \in Nat
  <2>1. Busy(p, r)
    BY <1>1 DEF Busy
  <2>2. copy = row[r] /\ copy \in Row
    BY <1>1 DEF Hands, WellFormed, TypeOK
  <2>. QED
    BY <2>1, <2>2, BusyHolds DEF Row
<1>3. row[r].status = "dispatching" /\ DeliveryState[r] = "working"
  BY <1>1, StateView DEF Hands
<1>4. DeliveryOutcome[r] = IF answer[p].ok THEN "ok" ELSE "error"
  BY <1>2, OutcomeView
<1>5. PICK new \in Row :
        /\ WriteBack(p, r, new)
        /\ \/ answer[p].ok /\ new.status = "sent" /\ new.attempt = copy.attempt
           \/ /\ ~answer[p].ok /\ new.attempt = copy.attempt + 1
              /\ new.status = IF copy.attempt + 1 < MaxAttempts THEN "queued" ELSE "failed"
  <2>1. CASE FinishSent(p)
    <3>1. /\ [copy EXCEPT !.status = "sent", !.lease = "none"] \in Row
          /\ [copy EXCEPT !.status = "sent", !.lease = "none"].status = "sent"
          /\ [copy EXCEPT !.status = "sent", !.lease = "none"].attempt = copy.attempt
      BY <1>2 DEF Row, Statuses
    <3>2. /\ WriteBack(p, r, [copy EXCEPT !.status = "sent", !.lease = "none"])
          /\ answer[p].ok
      BY <2>1 DEF FinishSent, Accepted
    <3>. QED
      BY <3>1, <3>2
  <2>2. CASE FinishRetry(p)
    <3>. DEFINE new == [copy EXCEPT !.status = "queued", !.lease = "none", !.attempt = @ + 1]
    <3>1. new \in Row /\ new.status = "queued" /\ new.attempt = copy.attempt + 1
      BY <1>2 DEF Row, Statuses
    <3>2. WriteBack(p, r, new) /\ ~answer[p].ok /\ copy.attempt + 1 < MaxAttempts
      BY <1>2, <2>2, ConstantsAssumption DEF FinishRetry, Spent
    <3>. HIDE DEF new
    <3>. QED
      BY <3>1, <3>2
  <2>3. CASE FinishFailed(p)
    <3>. DEFINE new == [copy EXCEPT !.status = "failed", !.lease = "none", !.attempt = @ + 1]
    <3>1. new \in Row /\ new.status = "failed" /\ new.attempt = copy.attempt + 1
      BY <1>2 DEF Row, Statuses
    <3>2. WriteBack(p, r, new) /\ ~answer[p].ok /\ ~(copy.attempt + 1 < MaxAttempts)
      BY <1>2, <2>3, ConstantsAssumption DEF FinishFailed, Spent
    <3>. HIDE DEF new
    <3>. QED
      BY <3>1, <3>2
  <2>. QED
    BY <2>1, <2>2, <2>3
<1>6. new.status \in {"sent", "queued", "failed"}
  BY <1>5
<1>7. /\ \A s \in Requests : s # r => row'[s] = row[s]
      /\ row'[r].status = new.status /\ row'[r].attempt = new.attempt
  BY <1>1, <1>5, <1>6, WriteBackRow
<1>8. (\A q \in Procs : q # p => Untouched(q)) /\ answer'[p] = NoAnswer
  BY <1>1, <1>5, WriteBackAnswer
<1>9. DeliveryOutcome' = [DeliveryOutcome EXCEPT ![r] = "none"]
  <2>1. \A q \in Procs : q # p => answer'[q] = answer[q]
    BY <1>8 DEF Untouched
  <2>. QED
    BY <1>2, <1>8, <2>1, AnswerGone
<1>10. CASE answer[p].ok
  <2>1. row'[r].status = "sent" /\ row'[r].attempt = row[r].attempt
    BY <1>2, <1>5, <1>7, <1>10
  <2>2. DeliveryState' = [DeliveryState EXCEPT ![r] = "done"]
    BY <1>2, <1>7, <2>1 DEF DeliveryState
  <2>3. UNCHANGED [s \in Requests |-> row[s].attempt]
    BY <1>7, <2>1
  <2>. QED
    <3>1. DeliveryOutcome[r] = "ok" /\ DeliveryOutcome[r] # "none"
      BY <1>4, <1>10
    <3>. QED
      BY <1>1, <1>3, <1>9, <2>2, <2>3, <3>1 DEF Promise!Settle
<1>11. CASE ~answer[p].ok
  <2>1. /\ row'[r].status = IF row[r].attempt + 1 < MaxAttempts THEN "queued" ELSE "failed"
        /\ row'[r].attempt = row[r].attempt + 1
    BY <1>2, <1>5, <1>7, <1>11
  <2>2. DeliveryState' = [DeliveryState EXCEPT ![r] =
                            IF row[r].attempt + 1 < MaxAttempts THEN "waiting" ELSE "dead"]
    BY <1>2, <1>7, <2>1 DEF DeliveryState
  <2>3. [s \in Requests |-> row[s].attempt]' =
          [[s \in Requests |-> row[s].attempt] EXCEPT ![r] = @ + 1]
    BY <1>2, <1>7, <2>1
  <2>4. [s \in Requests |-> row[s].attempt][r] = row[r].attempt
    BY <1>2
  <2>. QED
    <3>1. DeliveryOutcome[r] = "error" /\ DeliveryOutcome[r] # "none"
      BY <1>4, <1>11
    <3>. QED
      BY <1>1, <1>3, <1>9, <2>2, <2>3, <2>4, <3>1 DEF Promise!Settle
<1>. QED
  BY <1>10, <1>11

\* Every step of the engine is a step of the promise, or one it cannot see.
LEMMA PromiseNext ==
  ASSUME Engine, CalmInv, [Next]_vars
  PROVE  [Promise!Next]_(Promise!vars)
<1>0. Calm /\ Sessions = {} /\ \A r \in Requests : row[r].status # "absent"
  BY DEF Engine, AllSend, Calm, CalmInv, CalmRow
<1>1. ASSUME NEW p \in Procs, Claim(p)
      PROVE  [Promise!Next]_(Promise!vars)
  <2>1. CASE ClaimCommit(p)
    <3>1. LockedBy(p) \in SUBSET Requests
      BY LockedRequests DEF CalmInv, WellFormed
    <3>2. PICK S \in SUBSET Requests : S = LockedBy(p)
      BY <3>1
    <3>3. Promise!Start(S)
      BY <2>1, <3>2, CommitStarts DEF Promise!Start
    <3>. QED
      BY <3>3 DEF Promise!Next
  <2>2. CASE ClaimSelect(p) \/ ClaimUpdate(p) \/ ClaimLoad(p)
    <3>1. UNCHANGED <<row, delivered, failures>>
      BY <2>2 DEF ClaimSelect, ClaimUpdate, ClaimLoad, channels
    <3>2. UNCHANGED answer
      <4>1. target[p] = NoRequest /\ p \notin Sessions
        BY <1>0 DEF Procs, CalmInv, WellFormed, Shape
      <4>. QED
        BY <1>0, <2>2, <4>1 DEF ClaimSelect, ClaimUpdate, ClaimLoad
    <3>. QED
      BY <3>1, <3>2, ViewKept
  <2>3. CASE ClaimNothing(p) \/ DeadlockVictim(p)
    <3>1. UNCHANGED <<row, delivered, failures>> /\ EndSession(p) /\ pc[p] = "update"
      BY <2>3 DEF ClaimNothing, DeadlockVictim, WaitsFor, channels
    <3>2. UNCHANGED answer
      BY <3>1 DEF EndSession, CalmInv, CalmProc, WellFormed, TypeOK
    <3>. QED
      BY <3>1, <3>2, ViewKept
  <2>. QED
    BY <1>1, <2>1, <2>2, <2>3 DEF Claim
<1>2. ASSUME NEW p \in Procs, Process(p)
      PROVE  [Promise!Next]_(Promise!vars)
  <2>1. ASSUME NEW r \in Requests, Simulate(p, r)
        PROVE  FALSE
    BY <2>1 DEF Simulate, Engine, AllSend
  <2>2. ASSUME NEW r \in Requests, NEW ok \in BOOLEAN, Send(p, r, ok)
        PROVE  [Promise!Next]_(Promise!vars)
    <3>1. Promise!Deliver(r) \/ Promise!Fail(r)
      BY <2>2, SendDelivers, CalmHands
    <3>. QED
      BY <3>1 DEF Promise!Next
  <2>3. CASE FinishSent(p) \/ FinishRetry(p) \/ FinishFailed(p)
    <3>1. answer[p].id \in Requests
      BY <2>3, AnsweredRow DEF FinishSent, Accepted, FinishRetry, FinishFailed, CalmInv
    <3>2. PICK r \in Requests : answer[p].id = r
      BY <3>1
    <3>3. Promise!Settle(r)
      BY <2>3, <3>2, FinishSettles, CalmHands
    <3>. QED
      BY <3>3 DEF Promise!Next
  <2>. QED
    BY <1>2, <2>1, <2>2, <2>3 DEF Process
<1>3. ASSUME NEW r \in Requests, BackoffElapse(r)
      PROVE  [Promise!Next]_(Promise!vars)
  <2>1. UNCHANGED <<answer, delivered, failures>>
    BY <1>3 DEF BackoffElapse, channels
  <2>2. \A s \in Requests : row'[s].status = row[s].status /\ row'[s].attempt = row[s].attempt
    BY <1>3 DEF BackoffElapse, CalmInv, WellFormed, TypeOK, Row
  <2>. QED
    BY <2>1, <2>2, ViewKept
<1>4. CASE UNCHANGED vars
  <2>1. UNCHANGED <<row, answer, delivered, failures>>
    BY <1>4 DEF vars
  <2>. QED
    BY <2>1, ViewKept
<1>5. \A r \in Requests, d \in {"ALLOW", "REVIEW", "DENY"} : ~Create(r, d)
  BY <1>0 DEF Create
<1>. QED
  BY <1>0, <1>1, <1>2, <1>3, <1>4, <1>5, NoFault DEF Next

\* The engine keeps the promise of Delivery whenever nothing goes wrong: for any number of
\* requests and workers, any batch size and any maximum of attempts, each of its steps takes
\* a batch, calls the provider once, settles a request, or is not seen outside.
THEOREM EngineImplementsDelivery ==
  ASSUME Engine
  PROVE  Spec => ImplementsDelivery
<1>1. Init => Promise!Init
  BY PromiseInit DEF Engine
<1>2. CalmInv /\ [Next]_vars => [Promise!Next]_(Promise!vars)
  BY PromiseNext
<1>3. Init => CalmInv
  BY CalmInit
<1>4. CalmInv /\ [Next]_vars => CalmInv'
  BY CalmNext DEF Engine
<1>. QED
  BY <1>1, <1>2, <1>3, <1>4, PTL DEF Spec, ImplementsDelivery, Promise!Spec
-----------------------------------------------------------------------------
(* One worker that may die: leases expire, but only those of the dead. *)

\* A single worker, no API call and no lease that runs out under its holder.  It may die
\* anywhere, MaxCrashes times, and start again.
Lone == Sessions = {} /\ MaxOverruns = 0 /\ \A p, q \in Procs : p = q

\* What the worker has claimed and not processed is being dispatched under a live lease, and
\* its copies are the rows; what it is claiming is queued, or was left by a death.
LoneProc(p) ==
  /\ pc[p] \in {"idle", "update", "load", "work", "answered"}
  /\ pc[p] \notin {"update", "load"} => claimed[p] = <<>>
  /\ pc[p] # "answered" => answer[p] = NoAnswer
  /\ \A r \in LockedBy(p) : row[r].status \in {"queued", "dispatching"}
  /\ \A r \in Requests : Owns(p, r) => row[r].status = "dispatching" /\ row[r].lease = "live"
  /\ \A r \in held[p] : mem[p][r] = row[r]

LoneRow(r) ==
  /\ r \in Backlog => row[r].status # "absent"
  /\ row[r].status = "dispatching" => row[r].lease # "none"

LoneInv == /\ WellFormed
           /\ \A p \in Procs : LoneProc(p)
           /\ \A r \in Requests : LoneRow(r)

LEMMA LoneHands == ASSUME Lone, LoneInv PROVE Hands
<1>1. \A p \in Procs : \A r \in held[p] : r \in Requests /\ Owns(p, r)
  BY DEF LoneInv, WellFormed, TypeOK, Owns
<1>. QED
  BY <1>1 DEF Lone, LoneInv, LoneProc, Hands

\* Where the worker has nothing in hand.
LEMMA LoneEmptyHands ==
  ASSUME LoneInv, NEW p \in Procs, pc[p] \in {"idle", "update", "load"}
  PROVE  held[p] = {} /\ answer[p] = NoAnswer /\ \A r : Owns(p, r) => pc[p] = "load"
BY DEF LoneInv, LoneProc, WellFormed, Shape, Owns

\* A step that writes no row is judged by what it does to the worker.
LEMMA LoneQuiet ==
  ASSUME Lone, LoneInv, WellFormed', NEW p \in Procs, UNCHANGED row, LoneProc(p)'
  PROVE  LoneInv'
<1>1. \A q \in Procs : q = p
  BY DEF Lone
<1>2. \A r \in Requests : LoneRow(r)'
  BY DEF LoneInv, LoneRow
<1>. QED
  BY <1>1, <1>2 DEF LoneInv

LEMMA LoneEnd ==
  ASSUME Lone, LoneInv, WellFormed', NEW p \in Procs, UNCHANGED row, EndSession(p)
  PROVE  LoneInv'
<1>1. /\ pc'[p] = "idle" /\ claimed'[p] = <<>> /\ held'[p] = {} /\ answer'[p] = NoAnswer
  BY DEF EndSession, LoneInv, WellFormed, TypeOK
<1>2. LockedBy(p)' = {} /\ \A r : ~Owns(p, r)'
  BY <1>1 DEF LockedBy, Owns
<1>3. LoneProc(p)'
  BY <1>1, <1>2 DEF LoneProc
<1>. QED
  BY <1>3, LoneQuiet

LEMMA LoneSelect ==
  ASSUME Lone, LoneInv, WellFormed', NEW p \in Procs, ClaimSelect(p)
  PROVE  LoneInv'
<1>1. pc[p] = "idle" /\ UNCHANGED <<row, claimed, held, mem, answer>>
  BY DEF ClaimSelect, Lone, channels
<1>2. pc'[p] = "update"
  BY DEF ClaimSelect, LoneInv, WellFormed, TypeOK
<1>3. held[p] = {} /\ answer[p] = NoAnswer /\ claimed[p] = <<>>
  BY <1>1, LoneEmptyHands DEF LoneInv, LoneProc
<1>4. LockedBy(p)' = {} /\ \A r : ~Owns(p, r)'
  BY <1>1, <1>2, <1>3 DEF LockedBy, Owns, Range
<1>5. LoneProc(p)'
  BY <1>1, <1>2, <1>3, <1>4 DEF LoneProc
<1>. QED
  BY <1>1, <1>5, LoneQuiet

LEMMA LoneUpdate ==
  ASSUME Lone, LoneInv, WellFormed', NEW p \in Procs, ClaimUpdate(p)
  PROVE  LoneInv'
<1>. DEFINE c == Head(cands[p])
<1>1. /\ pc[p] = "update" /\ cands[p] # <<>>
      /\ UNCHANGED <<row, pc, held, answer>>
  BY DEF ClaimUpdate, channels
<1>2. c.id \in Requests /\ c.status \in {"queued", "dispatching"}
  BY <1>1, HeadCandidate DEF LoneInv, WellFormed, Candidate
<1>3. claimed'[p] = IF Matches(c) THEN Append(claimed[p], c.id) ELSE claimed[p]
  BY DEF ClaimUpdate, LoneInv, WellFormed, TypeOK
<1>4. LockedBy(p)' = IF Matches(c) THEN LockedBy(p) \cup {c.id} ELSE LockedBy(p)
  <2>1. claimed[p] \in Seq(Requests) /\ c.id \in Requests
    BY <1>2 DEF LoneInv, WellFormed, TypeOK
  <2>2. Range(Append(claimed[p], c.id)) = Range(claimed[p]) \cup {c.id}
    BY <2>1, RangeOfAppend
  <2>. QED
    BY <1>1, <1>3, <2>2 DEF LockedBy
<1>5. \A r \in LockedBy(p)' : row'[r].status \in {"queued", "dispatching"}
  BY <1>1, <1>2, <1>4 DEF Matches, LoneInv, LoneProc
<1>6. held[p] = {} /\ answer[p] = NoAnswer /\ \A r : ~Owns(p, r)'
  BY <1>1, LoneEmptyHands DEF Owns
<1>7. LoneProc(p)'
  BY <1>1, <1>5, <1>6 DEF LoneProc
<1>. QED
  BY <1>1, <1>7, LoneQuiet

\* The rows a commit takes: queued, or left by a death.
LEMMA CommitTakes ==
  ASSUME WellFormed, NEW p \in Procs, ClaimCommit(p)
  PROVE  /\ pc[p] = "update" /\ LockedBy(p) = Range(claimed[p]) /\ LockedBy(p) \subseteq Requests
         /\ \A r \in Requests :
              /\ r \in LockedBy(p) => /\ row'[r].status = "dispatching" /\ row'[r].lease = "live"
                                      /\ row'[r].attempt = row[r].attempt
              /\ r \notin LockedBy(p) => row'[r] = row[r]
<1>1. pc[p] = "update"
  BY DEF ClaimCommit
<1>2. LockedBy(p) = Range(claimed[p]) /\ LockedBy(p) \subseteq Requests
  BY <1>1, LockedRequests DEF LockedBy, WellFormed
<1>3. \A r \in Requests : row'[r] = IF r \in LockedBy(p) THEN Taken(row[r]) ELSE row[r]
  BY <1>2 DEF ClaimCommit
<1>4. \A r \in Requests : /\ Taken(row[r]).status = "dispatching" /\ Taken(row[r]).lease = "live"
                          /\ Taken(row[r]).attempt = row[r].attempt
  BY DEF Taken, WellFormed, TypeOK, Row
<1>. QED
  BY <1>1, <1>2, <1>3, <1>4

LEMMA LoneCommit ==
  ASSUME Lone, LoneInv, WellFormed', NEW p \in Procs, ClaimCommit(p)
  PROVE  LoneInv'
<1>1. /\ pc[p] = "update" /\ LockedBy(p) = Range(claimed[p]) /\ LockedBy(p) \subseteq Requests
      /\ \A r \in Requests :
           /\ r \in LockedBy(p) => row'[r].status = "dispatching" /\ row'[r].lease = "live"
           /\ r \notin LockedBy(p) => row'[r] = row[r]
  BY CommitTakes DEF LoneInv
<1>2. pc'[p] = "load" /\ UNCHANGED <<claimed, held, mem, answer>>
  BY DEF ClaimCommit, LoneInv, WellFormed, TypeOK
<1>3. held[p] = {} /\ answer[p] = NoAnswer
  BY <1>1, LoneEmptyHands
<1>4. LockedBy(p)' = {} /\ \A r : Owns(p, r)' <=> r \in LockedBy(p)
  BY <1>1, <1>2, <1>3 DEF LockedBy, Owns
<1>5. LoneProc(p)'
  BY <1>1, <1>2, <1>3, <1>4 DEF LoneProc
<1>6. \A r \in Requests : LoneRow(r)'
  BY <1>1 DEF LoneInv, LoneRow
<1>7. \A q \in Procs : q = p
  BY DEF Lone
<1>. QED
  BY <1>5, <1>6, <1>7 DEF LoneInv

LEMMA LoneLoad ==
  ASSUME Lone, LoneInv, WellFormed', NEW p \in Procs, ClaimLoad(p)
  PROVE  LoneInv'
<1>1. p \in Workers /\ target[p] = NoRequest /\ Range(claimed[p]) \subseteq Requests
  BY LockedRequests DEF Lone, Procs, LoneInv, WellFormed, Shape
<1>2. /\ pc[p] = "load" /\ UNCHANGED <<row, answer>>
      /\ held' = [held EXCEPT ![p] = Range(claimed[p])]
      /\ mem' = Loaded(p, Range(claimed[p]))
      /\ claimed' = [claimed EXCEPT ![p] = <<>>]
      /\ pc' = [pc EXCEPT ![p] = "work"]
  BY <1>1, ConstantsAssumption DEF ClaimLoad, Lone, channels
<1>3. /\ pc'[p] = "work" /\ held'[p] = Range(claimed[p]) /\ claimed'[p] = <<>>
      /\ \A r \in held'[p] : mem'[p][r] = row'[r]
  BY <1>1, <1>2 DEF Loaded, LoneInv, WellFormed, TypeOK
<1>4. \A r : Owns(p, r)' => Owns(p, r)
  BY <1>2, <1>3 DEF Owns
<1>5. LockedBy(p)' = {} /\ answer'[p] = NoAnswer
  BY <1>2, <1>3, LoneEmptyHands DEF LockedBy
<1>6. \A r \in Requests : Owns(p, r)' => row'[r].status = "dispatching" /\ row'[r].lease = "live"
  BY <1>2, <1>4 DEF LoneInv, LoneProc
<1>7. LoneProc(p)'
  BY <1>3, <1>5, <1>6 DEF LoneProc
<1>. QED
  BY <1>2, <1>7, LoneQuiet

LEMMA LoneSend ==
  ASSUME Lone, LoneInv, WellFormed', NEW p \in Procs, NEW r \in Requests, NEW ok \in BOOLEAN,
         Send(p, r, ok)
  PROVE  LoneInv'
<1>1. pc[p] = "work" /\ UNCHANGED <<row, claimed, held, mem>>
  BY DEF Send
<1>2. pc'[p] = "answered" /\ LockedBy(p)' = {}
  BY DEF Send, LockedBy, LoneInv, WellFormed, TypeOK
<1>3. \A s : Owns(p, s)' <=> Owns(p, s)
  BY <1>1, <1>2 DEF Owns
<1>4. LoneProc(p)'
  BY <1>1, <1>2, <1>3 DEF LoneProc, LoneInv
<1>. QED
  BY <1>1, <1>4, LoneQuiet

\* A write-back settles the row, or sends it back to the queue, and leaves the others.
LEMMA LoneWriteBack ==
  ASSUME Lone, LoneInv, WellFormed', NEW p \in Procs, NEW r \in held[p], NEW new \in Row,
         WriteBack(p, r, new), new.status \in {"sent", "queued", "failed"}
  PROVE  LoneInv'
<1>1. /\ \A s \in Requests : s # r => row'[s] = row[s]
      /\ row'[r].status = new.status
  BY LoneHands, WriteBackRow
<1>2. /\ pc[p] \in {"work", "answered"} /\ claimed[p] = <<>> /\ held[p] \subseteq Requests
  BY DEF LoneInv, LoneProc, WellFormed, TypeOK, Shape
<1>3. /\ pc'[p] \in {"idle", "work"} /\ claimed'[p] = <<>> /\ answer'[p] = NoAnswer
      /\ held'[p] = held[p] \ {r} /\ \A s \in held'[p] : mem'[p][s] = mem[p][s]
  <2>1. CASE held[p] = {r}
    BY <1>2, <2>1 DEF WriteBack, EndSession, LoneInv, WellFormed, TypeOK
  <2>2. CASE held[p] # {r}
    <3>1. /\ held' = [held EXCEPT ![p] = @ \ {r}]
          /\ mem' = [mem EXCEPT ![p][r] = NoRow]
          /\ answer' = [answer EXCEPT ![p] = NoAnswer]
          /\ pc' = [pc EXCEPT ![p] = "work"]
          /\ claimed' = claimed
      BY <2>2 DEF WriteBack
    <3>2. held'[p] = held[p] \ {r} /\ pc'[p] = "work" /\ answer'[p] = NoAnswer
      BY <3>1 DEF LoneInv, WellFormed, TypeOK
    <3>3. \A s \in held'[p] : mem'[p][s] = mem[p][s]
      BY <1>2, <3>1, <3>2 DEF LoneInv, WellFormed, TypeOK
    <3>. QED
      BY <1>2, <3>1, <3>2, <3>3
  <2>. QED
    BY <2>1, <2>2
<1>4. LockedBy(p)' = {} /\ \A s : Owns(p, s)' => s \in held'[p]
  BY <1>3 DEF LockedBy, Owns
<1>5. \A s \in held'[p] : /\ mem'[p][s] = row'[s]
                          /\ row'[s].status = "dispatching" /\ row'[s].lease = "live"
  <2>1. \A s \in held'[p] : s \in Requests /\ s # r /\ Owns(p, s)
    BY <1>2, <1>3 DEF Owns
  <2>. QED
    BY <1>1, <1>3, <2>1 DEF LoneInv, LoneProc
<1>6. LoneProc(p)'
  BY <1>3, <1>4, <1>5 DEF LoneProc
<1>7. \A s \in Requests : LoneRow(s)'
  BY <1>1 DEF LoneInv, LoneRow
<1>8. \A q \in Procs : q = p
  BY DEF Lone
<1>. QED
  BY <1>6, <1>7, <1>8 DEF LoneInv

LEMMA LoneProcess ==
  ASSUME Lone, LoneInv, WellFormed', NEW p \in Procs, Process(p)
  PROVE  LoneInv'
<1>1. ASSUME NEW r \in Requests, Simulate(p, r)
      PROVE  LoneInv'
  <2>. DEFINE new == [mem[p][r] EXCEPT !.status = "sent", !.lease = "none"]
  <2>1. r \in held[p] /\ WriteBack(p, r, new)
    BY <1>1 DEF Simulate
  <2>2. mem[p][r] \in Row
    BY <2>1 DEF LoneInv, WellFormed, Shape
  <2>3. new \in Row /\ new.status = "sent"
    BY <2>2 DEF Row, Statuses
  <2>. HIDE DEF new
  <2>. QED
    BY <2>1, <2>3, LoneWriteBack
<1>2. CASE FinishSent(p) \/ FinishRetry(p) \/ FinishFailed(p)
  <2>1. PICK new \in Row : /\ new.status \in {"queued", "sent", "failed"}
                           /\ WriteBack(p, answer[p].id, new)
    BY <1>2, FinishEffect DEF LoneInv
  <2>2. answer[p].id \in held[p]
    BY <1>2, FinishEffect DEF LoneInv
  <2>. QED
    BY <2>1, <2>2, LoneWriteBack
<1>. QED
  BY <1>1, <1>2, LoneSend DEF Process

\* What changes a row from outside: it is in nobody's hands.
LEMMA LoneOutside ==
  ASSUME Lone, LoneInv, WellFormed', NEW r \in Requests,
         UNCHANGED <<pc, claimed, held, mem, answer>>,
         \A s \in Requests : s # r => row'[s] = row[s],
         \A q \in Procs : ~Owns(q, r),
         row[r].status \in {"queued", "dispatching"} => row'[r].status = row[r].status,
         row'[r].status # "absent",
         row'[r].status = "dispatching" => row'[r].lease # "none"
  PROVE  LoneInv'
<1>1. ASSUME NEW q \in Procs
      PROVE  LoneProc(q)'
  <2>1. LockedBy(q)' = LockedBy(q) /\ LockedBy(q) \subseteq Requests
    BY LockedRequests DEF LockedBy, LoneInv, WellFormed
  <2>2. \A s : Owns(q, s)' <=> Owns(q, s)
    BY DEF Owns
  <2>3. LoneProc(q) /\ held[q] \subseteq Requests
    BY DEF LoneInv, WellFormed, TypeOK
  <2>4. \A s \in LockedBy(q) : row'[s].status \in {"queued", "dispatching"}
    BY <2>1, <2>3 DEF LoneProc
  <2>5. \A s \in held[q] : mem'[q][s] = row'[s]
    BY <2>3 DEF LoneProc, Owns
  <2>6. \A s \in Requests : Owns(q, s) => row'[s].status = "dispatching" /\ row'[s].lease = "live"
    BY <2>3 DEF LoneProc
  <2>. QED
    BY <2>1, <2>2, <2>3, <2>4, <2>5, <2>6 DEF LoneProc
<1>2. \A s \in Requests : LoneRow(s)'
  BY DEF LoneInv, LoneRow
<1>. QED
  BY <1>1, <1>2 DEF LoneInv

LEMMA LoneClock ==
  ASSUME Lone, LoneInv, WellFormed', NEW r \in Requests, LeaseExpire(r) \/ BackoffElapse(r)
  PROVE  LoneInv'
<1>1. UNCHANGED <<pc, claimed, held, mem, answer>>
  BY DEF LeaseExpire, BackoffElapse
<1>2. CASE LeaseExpire(r)
  <2>1. ~Owned(r)
    BY <1>2 DEF LeaseExpire, Lone, LoneInv, WellFormed, TypeOK
  <2>2. \A q \in Procs : ~Owns(q, r)
    BY <2>1 DEF Owned, Owns
  <2>3. /\ row[r].status = "dispatching"
        /\ row' = [row EXCEPT ![r] = [row[r] EXCEPT !.lease = "expired"]]
    BY <1>2 DEF LeaseExpire
  <2>4. /\ row'[r].status = row[r].status /\ row'[r].lease = "expired"
        /\ \A s \in Requests : s # r => row'[s] = row[s]
    BY <2>3 DEF LoneInv, WellFormed, TypeOK, Row
  <2>. QED
    BY <1>1, <2>2, <2>3, <2>4, LoneOutside
<1>3. CASE BackoffElapse(r)
  <2>1. /\ row[r].status = "queued"
        /\ row' = [row EXCEPT ![r] = [row[r] EXCEPT !.gate = "open"]]
    BY <1>3 DEF BackoffElapse
  <2>2. \A q \in Procs : ~Owns(q, r)
    BY <2>1 DEF LoneInv, LoneProc
  <2>3. /\ row'[r].status = row[r].status
        /\ \A s \in Requests : s # r => row'[s] = row[s]
    BY <2>1 DEF LoneInv, WellFormed, TypeOK, Row
  <2>. QED
    BY <1>1, <2>1, <2>2, <2>3, LoneOutside
<1>. QED
  BY <1>2, <1>3

LEMMA LoneCreate ==
  ASSUME Lone, LoneInv, WellFormed', NEW r \in Requests, NEW d \in {"ALLOW", "REVIEW", "DENY"},
         Create(r, d)
  PROVE  LoneInv'
<1>1. /\ row[r].status = "absent"
      /\ UNCHANGED <<pc, claimed, held, mem, answer>>
      /\ row' = [row EXCEPT ![r] = [row[r] EXCEPT !.status = InitialStatus(d)]]
  BY DEF Create
<1>2. InitialStatus(d) \in {"pending", "approved", "denied"}
  BY DEF InitialStatus
<1>3. /\ row'[r].status = InitialStatus(d)
      /\ \A s \in Requests : s # r => row'[s] = row[s]
  BY <1>1 DEF LoneInv, WellFormed, TypeOK, Row
<1>4. \A q \in Procs : ~Owns(q, r)
  BY <1>1 DEF LoneInv, LoneProc
<1>. QED
  BY <1>1, <1>2, <1>3, <1>4, LoneOutside

LEMMA LoneInit == Init => LoneInv
<1>. SUFFICES ASSUME Init PROVE LoneInv
  OBVIOUS
<1>1. WellFormed
  BY InitType, InitShape DEF WellFormed
<1>2. \A p \in Procs : LoneProc(p)
  BY DEF Init, LoneProc, LockedBy, Owns
<1>3. \A r \in Requests : LoneRow(r)
  BY DEF Init, NewRow, LoneRow
<1>. QED
  BY <1>1, <1>2, <1>3 DEF LoneInv

LEMMA LoneNext ==
  ASSUME Lone, LoneInv, [Next]_vars
  PROVE  LoneInv'
<1>0. WellFormed' /\ Sessions = {}
  BY StepOK DEF LoneInv, Lone
<1>1. ASSUME NEW p \in Procs, Claim(p)
      PROVE  LoneInv'
  <2>1. CASE ClaimNothing(p) \/ DeadlockVictim(p)
    BY <1>0, <2>1, LoneEnd DEF ClaimNothing, DeadlockVictim
  <2>. QED
    BY <1>0, <1>1, <2>1, LoneSelect, LoneUpdate, LoneCommit, LoneLoad DEF Claim
<1>2. ASSUME NEW p \in Procs, Crash(p)
      PROVE  LoneInv'
  BY <1>0, <1>2, LoneEnd DEF Crash
<1>3. CASE UNCHANGED vars
  <2>1. \A q \in Procs : /\ Untouched(q)
                         /\ LockedBy(q)' = LockedBy(q) /\ \A r : Owns(q, r)' <=> Owns(q, r)
    BY <1>3 DEF vars, Untouched, LockedBy, Owns
  <2>. QED
    BY <1>0, <1>3, <2>1 DEF vars, LoneInv, LoneProc, LoneRow
<1>. QED
  BY <1>0, <1>1, <1>2, <1>3, LoneProcess, LoneCreate, LoneClock DEF Next

\* With one worker that may die at any point, no claim is ever stuck: what it left has the
\* lease it was claimed with, live or expired, and some later poll finds it (claim_requests
\* looks for lease_until IS NOT NULL).
THEOREM LoneClaimsCarryLeases ==
  ASSUME Lone
  PROVE  Spec => []NoStuckClaim
<1>1. LoneInv => NoStuckClaim
  BY DEF LoneInv, LoneRow, NoStuckClaim
<1>2. Init => LoneInv
  BY LoneInit
<1>3. LoneInv /\ [Next]_vars => LoneInv'
  BY LoneNext
<1>. QED
  BY <1>1, <1>2, <1>3, PTL DEF Spec

-----------------------------------------------------------------------------
(* The promise with loss. *)

\* The commit of a claim is the start of what was queued; what a death left is at work already.
LEMMA LoneCommitStarts ==
  ASSUME Lone, LoneInv, NEW p \in Procs, ClaimCommit(p)
  PROVE  [Promise!Next]_(Promise!vars)
<1>. DEFINE S == {r \in LockedBy(p) : row[r].status = "queued"}
<1>1. /\ LockedBy(p) \subseteq Requests
      /\ \A r \in Requests :
           /\ r \in LockedBy(p) => /\ row'[r].status = "dispatching"
                                   /\ row'[r].attempt = row[r].attempt
           /\ r \notin LockedBy(p) => row'[r] = row[r]
  BY CommitTakes DEF LoneInv
<1>2. \A r \in LockedBy(p) : r \notin S => row[r].status = "dispatching"
  BY DEF LoneInv, LoneProc
<1>3. UNCHANGED <<delivered, failures, answer>>
  BY DEF ClaimCommit, channels
<1>4. \A r \in Requests : /\ r \in S => row'[r].status = "dispatching"
                          /\ r \notin S => row'[r].status = row[r].status
                          /\ row'[r].attempt = row[r].attempt
  BY <1>1, <1>2
<1>5. CASE S = {}
  BY <1>3, <1>4, <1>5, ViewKept
<1>6. CASE S # {}
  <2>1. S \in SUBSET Requests /\ \A r \in S : DeliveryState[r] = "waiting"
    BY <1>1, StateView
  <2>2. DeliveryState' = [r \in Requests |-> IF r \in S THEN "working" ELSE DeliveryState[r]]
    BY <1>4 DEF DeliveryState
  <2>3. UNCHANGED DeliveryOutcome
    BY <1>3 DEF DeliveryOutcome, Answered
  <2>4. UNCHANGED [r \in Requests |-> row[r].attempt]
    BY <1>4
  <2>. HIDE DEF S
  <2>5. Promise!Start(S)
    BY <1>3, <1>6, <2>1, <2>2, <2>3, <2>4 DEF Promise!Start
  <2>. QED
    BY <2>1, <2>5 DEF Promise!Next
<1>. QED
  BY <1>5, <1>6

\* A worker that dies between the call and its commit forgets the outcome; one that dies
\* elsewhere, or a session that ends, loses nothing that the promise speaks about.
LEMMA EndForgets ==
  ASSUME Lone, LoneInv, Lossy = TRUE, NEW p \in Procs, EndSession(p),
         UNCHANGED <<row, delivered, failures>>
  PROVE  [Promise!Next]_(Promise!vars)
<1>1. answer'[p] = NoAnswer /\ \A q \in Procs : q # p => answer'[q] = answer[q]
  BY DEF EndSession, LoneInv, WellFormed, TypeOK
<1>2. UNCHANGED <<DeliveryState, [r \in Requests |-> row[r].attempt]>>
  BY DEF DeliveryState
<1>3. CASE pc[p] = "answered"
  <2>1. PICK r \in Requests : answer[p].id = r /\ r \in held[p]
    BY <1>3 DEF LoneInv, WellFormed, TypeOK, Shape
  <2>2. Busy(p, r) /\ row[r].status = "dispatching"
    BY <1>3, <2>1, LoneHands DEF Busy, Hands
  <2>3. DeliveryState[r] = "working" /\ DeliveryOutcome[r] # "none"
    BY <2>2, LoneHands, StateView, OutcomeView
  <2>4. DeliveryOutcome' = [DeliveryOutcome EXCEPT ![r] = "none"]
    BY <1>1, <2>2, LoneHands, AnswerGone
  <2>5. Promise!Forget(r)
    BY <1>2, <2>3, <2>4 DEF Promise!Forget
  <2>. QED
    BY <2>5 DEF Promise!Next
<1>4. CASE pc[p] # "answered"
  <2>1. answer[p] = NoAnswer
    BY <1>4 DEF LoneInv, LoneProc
  <2>2. UNCHANGED answer
    BY <2>1 DEF EndSession, LoneInv, WellFormed, TypeOK
  <2>. QED
    BY <2>2, ViewKept
<1>. QED
  BY <1>3, <1>4

LEMMA LonePromiseNext ==
  ASSUME Lone, AllSend, Lossy = TRUE, LoneInv, [Next]_vars
  PROVE  [Promise!Next]_(Promise!vars)
<1>0. Sessions = {} /\ \A r \in Requests : row[r].status # "absent"
  BY DEF Lone, AllSend, LoneInv, LoneRow
<1>1. ASSUME NEW p \in Procs, Claim(p)
      PROVE  [Promise!Next]_(Promise!vars)
  <2>1. CASE ClaimSelect(p) \/ ClaimUpdate(p) \/ ClaimLoad(p)
    <3>1. UNCHANGED <<row, delivered, failures>>
      BY <2>1 DEF ClaimSelect, ClaimUpdate, ClaimLoad, channels
    <3>2. UNCHANGED answer
      <4>1. target[p] = NoRequest /\ p \notin Sessions
        BY <1>0 DEF Procs, LoneInv, WellFormed, Shape
      <4>. QED
        BY <1>0, <2>1, <4>1 DEF ClaimSelect, ClaimUpdate, ClaimLoad
    <3>. QED
      BY <3>1, <3>2, ViewKept
  <2>2. CASE ClaimNothing(p) \/ DeadlockVictim(p)
    BY <2>2, EndForgets DEF ClaimNothing, DeadlockVictim, channels
  <2>. QED
    BY <1>1, <2>1, <2>2, LoneCommitStarts DEF Claim
<1>2. ASSUME NEW p \in Procs, Process(p)
      PROVE  [Promise!Next]_(Promise!vars)
  <2>1. ASSUME NEW r \in Requests, Simulate(p, r)
        PROVE  FALSE
    BY <2>1 DEF Simulate, AllSend
  <2>2. ASSUME NEW r \in Requests, NEW ok \in BOOLEAN, Send(p, r, ok)
        PROVE  [Promise!Next]_(Promise!vars)
    <3>1. Promise!Deliver(r) \/ Promise!Fail(r)
      BY <2>2, SendDelivers, LoneHands
    <3>. QED
      BY <3>1 DEF Promise!Next
  <2>3. CASE FinishSent(p) \/ FinishRetry(p) \/ FinishFailed(p)
    <3>1. answer[p].id \in Requests
      BY <2>3, AnsweredRow DEF FinishSent, Accepted, FinishRetry, FinishFailed, LoneInv
    <3>2. PICK r \in Requests : answer[p].id = r
      BY <3>1
    <3>3. Promise!Settle(r)
      BY <2>3, <3>2, FinishSettles, LoneHands
    <3>. QED
      BY <3>3 DEF Promise!Next
  <2>. QED
    BY <1>2, <2>1, <2>2, <2>3 DEF Process
<1>3. ASSUME NEW p \in Procs, Crash(p)
      PROVE  [Promise!Next]_(Promise!vars)
  BY <1>3, EndForgets DEF Crash, channels
<1>4. ASSUME NEW r \in Requests, LeaseExpire(r) \/ BackoffElapse(r)
      PROVE  [Promise!Next]_(Promise!vars)
  <2>1. UNCHANGED <<answer, delivered, failures>>
    BY <1>4 DEF LeaseExpire, BackoffElapse, channels
  <2>2. \/ row' = [row EXCEPT ![r] = [row[r] EXCEPT !.lease = "expired"]]
        \/ row' = [row EXCEPT ![r] = [row[r] EXCEPT !.gate = "open"]]
    BY <1>4 DEF LeaseExpire, BackoffElapse
  <2>3. \A s \in Requests : row'[s].status = row[s].status /\ row'[s].attempt = row[s].attempt
    <3>1. row \in [Requests -> Row] /\ row[r] \in Row
      BY DEF LoneInv, WellFormed, TypeOK
    <3>2. CASE row' = [row EXCEPT ![r] = [row[r] EXCEPT !.lease = "expired"]]
      BY <3>1, <3>2 DEF Row
    <3>3. CASE row' = [row EXCEPT ![r] = [row[r] EXCEPT !.gate = "open"]]
      BY <3>1, <3>3 DEF Row
    <3>. QED
      BY <2>2, <3>2, <3>3
  <2>. QED
    BY <2>1, <2>3, ViewKept
<1>5. CASE UNCHANGED vars
  <2>1. UNCHANGED <<row, answer, delivered, failures>>
    BY <1>5 DEF vars
  <2>. QED
    BY <2>1, ViewKept
<1>6. \A r \in Requests, d \in {"ALLOW", "REVIEW", "DENY"} : ~Create(r, d)
  BY <1>0 DEF Create
<1>. QED
  BY <1>0, <1>1, <1>2, <1>3, <1>4, <1>5, <1>6 DEF Next

\* One worker keeps the promise with loss, wherever and however often it dies: a death between
\* a call and its commit forgets one outcome, and nothing else is ever lost or made up.  For
\* any number of requests and attempts and any batch size.
THEOREM LoneEngineImplementsDelivery ==
  ASSUME Lone, AllSend, Lossy = TRUE
  PROVE  Spec => ImplementsDelivery
<1>1. Init => Promise!Init
  BY PromiseInit
<1>2. LoneInv /\ [Next]_vars => [Promise!Next]_(Promise!vars)
  BY LonePromiseNext
<1>3. Init => LoneInv
  BY LoneInit
<1>4. LoneInv /\ [Next]_vars => LoneInv'
  BY LoneNext
<1>. QED
  BY <1>1, <1>2, <1>3, <1>4, PTL DEF Spec, ImplementsDelivery, Promise!Spec
=============================================================================
