-------------------------- MODULE DiscoveryProofs --------------------------
(***************************************************************************)
(* Machine-checked proofs about Discovery, for any sets of jobs, sources,  *)
(* contents, workers and sessions and any bounds.                          *)
(***************************************************************************)
EXTENDS Discovery, TLAPS

-----------------------------------------------------------------------------
(* The inductive invariants. *)

Walking == {"walk", "extract", "ingest", "detect"}
Places == {"idle", "claim", "load", "job"} \cup Walking \cup {"patch"}

\* Who is where, and what it has loaded by then.
Placed(p) ==
  /\ pc[p] \in {"claim", "load", "job", "walk", "detect"} => p \in Workers
  /\ pc[p] \in {"idle", "claim"} => held[p] = {}
  /\ pc[p] \in {"job"} \cup Walking => \A j \in held[p] : mem[p][j] \in JobRow
  /\ pc[p] \in Walking /\ p \in Workers => cur[p] \in held[p]
  /\ pc[p] = "patch" => cur[p] \in Jobs /\ mem[p][cur[p]] \in JobRow
  /\ pc[p] \in {"extract", "ingest", "detect"} => page[p] \in Sources

AllPlaced == \A p \in Procs : Placed(p)

\* A job that is held or about to be claimed is past its draft; a walk still has before it
\* every source that was pending when it started.
Queued(j) == job[j].status \notin {"absent", "draft"}
Walked(p) ==
  /\ \A c \in cands[p] : Queued(c.id)
  /\ \A j \in held[p] : Queued(j)
  /\ pc[p] \in Walking /\ p \in Workers
       => \A j \in Jobs : j = cur[p] => Pending(j) \subseteq todo[p] \cup late
  /\ pc[p] = "patch" => mem[p][cur[p]].status \notin {"absent", "draft", "done"}

AllWalked == DoneMeansWalked /\ \A p \in Procs : Walked(p)

\* No counter, in the database or in a copy, is ahead of the faults that happened.
Counted(p) ==
  /\ pc[p] \in {"job"} \cup Walking => \A j \in held[p] : mem[p][j].attempt <= faults[j]
  /\ pc[p] = "patch" => mem[p][cur[p]].status # "failed"

AllCounted == /\ NoEarlyFailure
              /\ \A j \in Jobs : job[j].attempt <= faults[j]
              /\ \A p \in Procs : Counted(p)

\* What a process in the middle of the chain relies on.
Founded(p) ==
  /\ pc[p] \in {"extract", "ingest"} => doc[Body[page[p]]] # NoSource
  /\ pc[p] = "ingest" /\ found[p] => companies > 0
  /\ pc[p] = "detect" => evidence[page[p]] > 0

AllFounded == Provenance /\ \A p \in Procs : Founded(p)

-----------------------------------------------------------------------------
(* Facts about the operators the actions are built from. *)

\* The rows the actions write.
LEMMA RowTypes ==
  ASSUME NEW x \in JobRow
  PROVE  /\ Taken(x) \in JobRow
         /\ \A s \in JobStatuses : [x EXCEPT !.status = s] \in JobRow
         /\ \A l \in {"none", "live", "expired"} : [x EXCEPT !.lease = l] \in JobRow
         /\ [x EXCEPT !.gate = "open"] \in JobRow
         /\ [x EXCEPT !.status = "done", !.lease = "none"] \in JobRow
         /\ \A s \in {"failed", "queued"}, n \in Nat :
              [x EXCEPT !.status = s, !.lease = "none", !.attempt = n] \in JobRow
<1>1. \A s \in JobStatuses : [x EXCEPT !.status = s] \in JobRow
  BY DEF JobRow
<1>2. \A l \in {"none", "live", "expired"} : [x EXCEPT !.lease = l] \in JobRow
  BY DEF JobRow
<1>3. [x EXCEPT !.gate = "open"] \in JobRow
  BY DEF JobRow
<1>4. \A s \in JobStatuses, l \in {"none", "live", "expired"} :
        [x EXCEPT !.status = s, !.lease = l] \in JobRow
  BY DEF JobRow
<1>5. \A s \in JobStatuses, l \in {"none", "live", "expired"}, n \in Nat :
        [x EXCEPT !.status = s, !.lease = l, !.attempt = n] \in JobRow
  BY DEF JobRow
<1>. QED
  BY <1>1, <1>2, <1>3, <1>4, <1>5 DEF Taken, JobStatuses

LEMMA OrmFlushType ==
  ASSUME NEW db \in JobRow, NEW loaded \in JobRow, NEW new \in JobRow
  PROVE  OrmFlush(db, loaded, new) \in JobRow
BY DEF OrmFlush, Column, JobRow

LEMMA TransitionsType == ASSUME NEW s PROVE Transitions(s) \subseteq JobStatuses \ {"absent", "draft"}
BY DEF Transitions, JobStatuses

LEMMA LoadedType ==
  ASSUME TypeOK, NEW p \in Procs, NEW J
  PROVE  Loaded(p, J) \in [Procs -> [Jobs -> JobRow \cup {NoCopy}]]
BY DEF Loaded, TypeOK

\* The types of the session variables, and of everything else, on their own.
SessionOK ==
  /\ pc \in [Procs -> Places]
  /\ cands \in [Procs -> SUBSET [id : Jobs, status : {"queued", "running"}]]
  /\ held \in [Procs -> SUBSET Jobs]
  /\ cur \in [Procs -> Jobs \cup {NoJob}]
  /\ todo \in [Procs -> SUBSET Sources]
  /\ page \in [Procs -> Sources \cup {NoSource}]
  /\ found \in [Procs -> BOOLEAN]
  /\ mem \in [Procs -> [Jobs -> JobRow \cup {NoCopy}]]
WorldOK ==
  /\ job \in [Jobs -> JobRow]
  /\ src \in [Sources -> {"absent", "pending", "fetched", "rejected", "failed"}]
  /\ late \subseteq Sources
  /\ doc \in [Contents -> Sources \cup {NoSource}]
  /\ companies \in Nat
  /\ evidence \in [Sources -> Nat]
  /\ signal \in [Contents -> {"none", "live", "deleted"}]
  /\ faults \in [Jobs -> Nat]
BudgetOK ==
  /\ crashes \in 0..MaxCrashes /\ upsets \in 0..MaxUpsets
  /\ overruns \in 0..MaxOverruns /\ ops \in 0..MaxOps

LEMMA TypeParts == TypeOK <=> SessionOK /\ WorldOK /\ BudgetOK
BY DEF TypeOK, SessionOK, WorldOK, BudgetOK, Places, Walking

\* A process whose session does not change stays well placed.
LEMMA PlacedSame ==
  ASSUME NEW q \in Procs, Placed(q), pc'[q] = pc[q], held'[q] = held[q], mem'[q] = mem[q],
         cur'[q] = cur[q], page'[q] = page[q]
  PROVE  Placed(q)'
BY DEF Placed

LEMMA SessionUnchanged ==
  ASSUME SessionOK, AllPlaced, UNCHANGED session
  PROVE  SessionOK' /\ AllPlaced'
BY PlacedSame DEF SessionOK, AllPlaced, session

\* Closing a session.
LEMMA EndSessionPlaced ==
  ASSUME SessionOK, AllPlaced, NEW p \in Procs, EndSession(p)
  PROVE  SessionOK' /\ AllPlaced'
<1>1. SessionOK'
  BY DEF EndSession, SessionOK, Places
<1>2. ASSUME NEW q \in Procs PROVE Placed(q)'
  <2>1. CASE q = p
    <3>1. pc'[q] = "idle" /\ held'[q] = {}
      BY <2>1 DEF EndSession, SessionOK
    <3>. QED
      BY <3>1 DEF Placed, Walking
  <2>2. CASE q # p
    <3>1. Placed(q)
      BY DEF AllPlaced
    <3>. QED
      BY <2>2, <3>1, PlacedSame DEF EndSession, SessionOK
  <2>. QED
    BY <2>1, <2>2
<1>. QED
  BY <1>1, <1>2 DEF AllPlaced

\* What Goto does, apart from the lookup's answer.
Moves(p, place, s) ==
  /\ pc' = [pc EXCEPT ![p] = place] /\ page' = [page EXCEPT ![p] = s]
  /\ found' \in [Procs -> BOOLEAN]
  /\ UNCHANGED <<cands, held, cur, mem>>

MayMove(p, place, s) ==
  /\ \/ pc[p] \in Walking
     \/ pc[p] = "idle" /\ p \in Sessions /\ held[p] = {}
  /\ place \in {"walk", "detect"} => p \in Workers
  /\ place # "walk" => s \in Sources

\* Moving on within the walk, or within a call of the API.
LEMMA GotoPlaced ==
  ASSUME SessionOK, AllPlaced, NEW p \in Procs, NEW place \in Walking,
         NEW s \in Sources \cup {NoSource}, Moves(p, place, s),
         todo' \in [Procs -> SUBSET Sources],
         MayMove(p, place, s)
  PROVE  SessionOK' /\ AllPlaced'
<1>1. SessionOK'
  BY DEF Moves, SessionOK, Places
<1>2. ASSUME NEW q \in Procs PROVE Placed(q)'
  <2>0. Placed(q)
    BY DEF AllPlaced
  <2>1. CASE q = p
    <3>1. pc'[q] = place /\ page'[q] = s
      BY <2>1 DEF Moves, SessionOK
    <3>2. held'[q] = held[q] /\ mem'[q] = mem[q] /\ cur'[q] = cur[q]
      BY DEF Moves
    <3>3. p \in Sessions => p \notin Workers
      BY ConstantsAssumption
    <3>. QED
      BY <2>0, <2>1, <3>1, <3>2, <3>3 DEF Placed, MayMove, Walking
  <2>2. CASE q # p
    BY <2>0, <2>2, PlacedSame DEF Moves, SessionOK
  <2>. QED
    BY <2>1, <2>2
<1>. QED
  BY <1>1, <1>2 DEF AllPlaced

\* Turning to the next job of the batch.
LEMMA LeavePlaced ==
  ASSUME SessionOK, AllPlaced, NEW p \in Workers, pc[p] \in Walking, Leave(p)
  PROVE  SessionOK' /\ AllPlaced'
<1>0. p \in Procs
  BY DEF Procs
<1>1. CASE held[p] = {cur[p]}
  BY <1>0, <1>1, EndSessionPlaced DEF Leave
<1>2. CASE held[p] # {cur[p]}
  <2>a. held' = [held EXCEPT ![p] = @ \ {cur[p]}] /\ cur' = [cur EXCEPT ![p] = NoJob]
        /\ pc' = [pc EXCEPT ![p] = "job"] /\ UNCHANGED <<cands, mem>>
    BY <1>2 DEF Leave
  <2>b. todo' = [todo EXCEPT ![p] = {}] /\ page' = [page EXCEPT ![p] = NoSource]
        /\ found' = [found EXCEPT ![p] = FALSE]
    BY <1>2 DEF Leave
  <2>1. SessionOK'
    <3>1. held' \in [Procs -> SUBSET Jobs] /\ cur' \in [Procs -> Jobs \cup {NoJob}]
          /\ pc' \in [Procs -> Places]
      BY <1>0, <2>a DEF SessionOK, Places
    <3>2. todo' \in [Procs -> SUBSET Sources] /\ page' \in [Procs -> Sources \cup {NoSource}]
          /\ found' \in [Procs -> BOOLEAN]
      BY <1>0, <2>b DEF SessionOK
    <3>. QED
      BY <2>a, <3>1, <3>2 DEF SessionOK
  <2>2. ASSUME NEW q \in Procs PROVE Placed(q)'
    <3>0. Placed(q)
      BY DEF AllPlaced
    <3>1. CASE q = p
      <4>1. pc'[q] = "job" /\ held'[q] = held[q] \ {cur[p]} /\ mem'[q] = mem[q]
        BY <1>2, <3>1 DEF Leave, SessionOK
      <4>. QED
        BY <3>0, <3>1, <4>1 DEF Placed, Walking
    <3>2. CASE q # p
      BY <1>2, <3>0, <3>2, PlacedSame DEF Leave, SessionOK
    <3>. QED
      BY <3>1, <3>2
  <2>. QED
    BY <2>1, <2>2 DEF AllPlaced
<1>. QED
  BY <1>1, <1>2

-----------------------------------------------------------------------------
(* Type correctness, action by action. *)

Typed == SessionOK /\ WorldOK /\ BudgetOK /\ AllPlaced

LEMMA WorldUnchanged ==
  ASSUME WorldOK, UNCHANGED <<job, src, faults, world>>
  PROVE  WorldOK'
BY DEF WorldOK, world

LEMMA BudgetUnchanged == ASSUME BudgetOK, UNCHANGED budget PROVE BudgetOK'
BY DEF BudgetOK, budget

\* One unit of one bound is used up.
LEMMA Spending ==
  ASSUME BudgetOK
  PROVE  /\ Call => BudgetOK'
         /\ (crashes < MaxCrashes /\ crashes' = crashes + 1
               /\ UNCHANGED <<upsets, overruns, ops>>) => BudgetOK'
         /\ (upsets < MaxUpsets /\ upsets' = upsets + 1
               /\ UNCHANGED <<crashes, overruns, ops>>) => BudgetOK'
         /\ (overruns < MaxOverruns /\ overruns' = overruns + 1
               /\ UNCHANGED <<crashes, upsets, ops>>) => BudgetOK'
BY ConstantsAssumption DEF BudgetOK, Call

LEMMA InitTyped == Init => Typed
<1>. SUFFICES ASSUME Init PROVE Typed
  OBVIOUS
<1>1. \A s \in JobStatuses : NewJob(s) \in JobRow
  BY DEF NewJob, JobRow
<1>2. job \in [Jobs -> JobRow]
  BY <1>1 DEF Init, JobStatuses
<1>3. SessionOK
  BY DEF Init, SessionOK, Places
<1>4. WorldOK
  BY <1>2 DEF Init, WorldOK
<1>5. BudgetOK
  BY ConstantsAssumption DEF Init, BudgetOK
<1>6. AllPlaced
  BY DEF Init, AllPlaced, Placed, Walking
<1>. QED
  BY <1>3, <1>4, <1>5, <1>6 DEF Typed

LEMMA ClaimSelectTyped ==
  ASSUME Typed, NEW p \in Procs, ClaimSelect(p)
  PROVE  Typed'
<1>1. PICK J \in SUBSET Due :
        cands' = [cands EXCEPT ![p] = {[id |-> j, status |-> job[j].status] : j \in J}]
  BY DEF ClaimSelect
<1>2. {[id |-> j, status |-> job[j].status] : j \in J}
        \in SUBSET [id : Jobs, status : {"queued", "running"}]
  BY DEF Due
<1>3. pc' = [pc EXCEPT ![p] = "claim"] /\ p \in Workers
      /\ UNCHANGED <<held, cur, todo, page, found, mem>>
  BY DEF ClaimSelect
<1>4. SessionOK'
  BY <1>1, <1>2, <1>3 DEF Typed, SessionOK, Places
<1>5. ASSUME NEW q \in Procs PROVE Placed(q)'
  <2>1. Placed(q)
    BY DEF Typed, AllPlaced
  <2>2. CASE q = p
    <3>1. pc'[q] = "claim" /\ pc[q] = "idle"
      BY <1>3, <2>2 DEF ClaimSelect, Typed, SessionOK
    <3>. QED
      BY <1>3, <2>1, <2>2, <3>1 DEF Placed, Walking
  <2>3. CASE q # p
    BY <1>3, <2>1, <2>3, PlacedSame DEF Typed, SessionOK
  <2>. QED
    BY <2>2, <2>3
<1>6. WorldOK' /\ BudgetOK'
  BY WorldUnchanged, BudgetUnchanged DEF Typed, ClaimSelect
<1>. QED
  BY <1>4, <1>5, <1>6 DEF Typed, AllPlaced

LEMMA WonType == ASSUME SessionOK, NEW p \in Procs PROVE Won(p) \subseteq Jobs
BY DEF Won, SessionOK

LEMMA ClaimCommitTyped ==
  ASSUME Typed, NEW p \in Procs, ClaimCommit(p)
  PROVE  Typed'
<1>1. job' \in [Jobs -> JobRow]
  BY RowTypes DEF ClaimCommit, Typed, WorldOK
<1>2. WorldOK' /\ BudgetOK'
  BY <1>1, BudgetUnchanged DEF ClaimCommit, Typed, WorldOK, world
<1>3. CASE Won(p) = {}
  <2>1. EndSession(p)
    BY <1>3 DEF ClaimCommit
  <2>. QED
    BY <1>2, <2>1, EndSessionPlaced DEF Typed
<1>4. CASE Won(p) # {}
  <2>1. /\ pc' = [pc EXCEPT ![p] = "load"] /\ held' = [held EXCEPT ![p] = Won(p)]
        /\ cands' = [cands EXCEPT ![p] = {}] /\ UNCHANGED <<cur, todo, page, found, mem>>
    BY <1>4 DEF ClaimCommit
  <2>2. SessionOK'
    <3>1. Won(p) \subseteq Jobs
      BY WonType DEF Typed
    <3>2. held' \in [Procs -> SUBSET Jobs] /\ pc' \in [Procs -> Places]
      BY <2>1, <3>1 DEF Typed, SessionOK, Places
    <3>3. cands' \in [Procs -> SUBSET [id : Jobs, status : {"queued", "running"}]]
      BY <2>1 DEF Typed, SessionOK
    <3>. QED
      BY <2>1, <3>2, <3>3 DEF Typed, SessionOK
  <2>3. ASSUME NEW q \in Procs PROVE Placed(q)'
    <3>1. Placed(q)
      BY DEF Typed, AllPlaced
    <3>2. CASE q = p
      <4>1. pc'[q] = "load"
        BY <2>1, <3>2 DEF Typed, SessionOK
      <4>2. q \in Workers
        BY <3>1, <3>2 DEF ClaimCommit, Placed
      <4>. QED
        BY <4>1, <4>2 DEF Placed, Walking
    <3>3. CASE q # p
      BY <2>1, <3>1, <3>3, PlacedSame DEF Typed, SessionOK
    <3>. QED
      BY <3>2, <3>3
  <2>. QED
    BY <1>2, <2>2, <2>3 DEF Typed, AllPlaced
<1>. QED
  BY <1>3, <1>4

LEMMA ClaimLoadTyped ==
  ASSUME Typed, NEW p \in Procs, ClaimLoad(p)
  PROVE  Typed'
<1>1. /\ pc[p] = "load" /\ pc' = [pc EXCEPT ![p] = "job"] /\ mem' = Loaded(p, held[p])
      /\ UNCHANGED <<cands, held, cur, todo, page, found>>
  BY DEF ClaimLoad
<1>2. mem' \in [Procs -> [Jobs -> JobRow \cup {NoCopy}]]
  BY <1>1 DEF Loaded, Typed, SessionOK, WorldOK
<1>3. SessionOK'
  BY <1>1, <1>2 DEF Typed, SessionOK, Places
<1>4. ASSUME NEW q \in Procs PROVE Placed(q)'
  <2>1. Placed(q)
    BY DEF Typed, AllPlaced
  <2>2. CASE q = p
    <3>1. pc'[q] = "job"
      BY <1>1, <2>2 DEF Typed, SessionOK
    <3>2. \A j \in held[q] : mem'[q][j] \in JobRow
      BY <1>1, <2>2 DEF Loaded, Typed, SessionOK, WorldOK
    <3>3. q \in Workers
      BY <1>1, <2>1, <2>2 DEF Placed
    <3>. QED
      BY <1>1, <3>1, <3>2, <3>3 DEF Placed, Walking
  <2>3. CASE q # p
    <3>1. mem'[q] = mem[q]
      BY <1>1, <2>3 DEF Loaded, Typed, SessionOK
    <3>. QED
      BY <1>1, <2>1, <2>3, <3>1, PlacedSame DEF Typed, SessionOK
  <2>. QED
    BY <2>2, <2>3
<1>5. WorldOK' /\ BudgetOK'
  BY WorldUnchanged, BudgetUnchanged DEF Typed, ClaimLoad
<1>. QED
  BY <1>3, <1>4, <1>5 DEF Typed, AllPlaced

LEMMA StartJobTyped ==
  ASSUME Typed, NEW p \in Procs, NEW j \in Jobs, StartJob(p, j)
  PROVE  Typed'
<1>1. /\ pc[p] = "job" /\ j \in held[p]
      /\ pc' = [pc EXCEPT ![p] = "walk"] /\ cur' = [cur EXCEPT ![p] = j]
      /\ todo' = [todo EXCEPT ![p] = Pending(j)]
      /\ UNCHANGED <<cands, held, page, found, mem>>
  BY DEF StartJob
<1>2. Pending(j) \subseteq Sources
  BY DEF Pending
<1>3. SessionOK'
  <2>1. cur' \in [Procs -> Jobs \cup {NoJob}] /\ pc' \in [Procs -> Places]
    BY <1>1 DEF Typed, SessionOK, Places, Walking
  <2>2. todo' \in [Procs -> SUBSET Sources]
    BY <1>1, <1>2 DEF Typed, SessionOK
  <2>. QED
    BY <1>1, <2>1, <2>2 DEF Typed, SessionOK
<1>4. ASSUME NEW q \in Procs PROVE Placed(q)'
  <2>1. Placed(q)
    BY DEF Typed, AllPlaced
  <2>2. CASE q = p
    <3>1. pc'[q] = "walk" /\ cur'[q] = j
      BY <1>1, <2>2 DEF Typed, SessionOK
    <3>. QED
      BY <1>1, <2>1, <2>2, <3>1 DEF Placed, Walking
  <2>3. CASE q # p
    BY <1>1, <2>1, <2>3, PlacedSame DEF Typed, SessionOK
  <2>. QED
    BY <2>2, <2>3
<1>5. WorldOK' /\ BudgetOK'
  BY WorldUnchanged, BudgetUnchanged DEF Typed, StartJob
<1>. QED
  BY <1>3, <1>4, <1>5 DEF Typed, AllPlaced

\* The outcome of a fetch.
LEMMA OutcomeWorld ==
  ASSUME WorldOK, NEW s \in Sources, NEW outcome, Outcome(s, outcome),
         UNCHANGED <<job, faults, late, companies, evidence, signal>>
  PROVE  WorldOK'
<1>1. Body[s] \in Contents
  BY ConstantsAssumption
<1>2. src' \in [Sources -> {"absent", "pending", "fetched", "rejected", "failed"}]
  BY DEF Outcome, WorldOK
<1>3. doc' \in [Contents -> Sources \cup {NoSource}]
  BY <1>1 DEF Outcome, Store, WorldOK
<1>. QED
  BY <1>2, <1>3 DEF WorldOK

LEMMA FetchTyped ==
  ASSUME Typed, NEW p \in Procs, NEW s \in Sources,
         NEW outcome \in {"fetched", "rejected", "failed"}, Fetch(p, s, outcome)
  PROVE  Typed'
<1>1. /\ pc[p] = "walk" /\ todo' = [todo EXCEPT ![p] = @ \ {s}]
      /\ Outcome(s, outcome)
      /\ UNCHANGED <<job, faults, late, companies, evidence, signal>> /\ UNCHANGED budget
  BY DEF Fetch
<1>0. SessionOK /\ AllPlaced
  BY DEF Typed
<1>2. p \in Workers
  BY <1>1 DEF Typed, AllPlaced, Placed
<1>3. todo' \in [Procs -> SUBSET Sources]
  BY <1>1 DEF Typed, SessionOK
<1>4. SessionOK' /\ AllPlaced'
  <2>1. CASE Proceeds(outcome)
    <3>1. Moves(p, "extract", s)
      BY <1>0, <2>1 DEF Fetch, Goto, Moves, SessionOK
    <3>2. "extract" \in Walking /\ MayMove(p, "extract", s)
      BY <1>1 DEF Walking, MayMove
    <3>. QED
      BY <1>0, <1>3, <3>1, <3>2, GotoPlaced
  <2>2. CASE ~Proceeds(outcome)
    <3>1. Moves(p, "walk", NoSource)
      BY <1>0, <2>2 DEF Fetch, Goto, Moves, SessionOK
    <3>2. "walk" \in Walking /\ MayMove(p, "walk", NoSource)
      BY <1>1, <1>2 DEF Walking, MayMove
    <3>. QED
      BY <1>0, <1>3, <3>1, <3>2, GotoPlaced
  <2>. QED
    BY <2>1, <2>2
<1>5. WorldOK' /\ BudgetOK'
  BY <1>1, OutcomeWorld, BudgetUnchanged DEF Typed
<1>. QED
  BY <1>4, <1>5 DEF Typed

\* Where a process goes on from extraction or detection.
LEMMA ContinuePlaced ==
  ASSUME SessionOK, AllPlaced, NEW p \in Procs, pc[p] \in Walking, Continue(p)
  PROVE  SessionOK' /\ AllPlaced'
<1>1. CASE p \in Workers
  <2>1. Moves(p, "walk", NoSource) /\ UNCHANGED todo
    BY <1>1 DEF Continue, Goto, Moves, SessionOK
  <2>2. todo' \in [Procs -> SUBSET Sources]
    BY <2>1 DEF SessionOK
  <2>3. "walk" \in Walking /\ MayMove(p, "walk", NoSource)
    BY <1>1 DEF Walking, MayMove
  <2>. QED
    BY <2>1, <2>2, <2>3, GotoPlaced
<1>2. CASE p \notin Workers
  BY <1>2, EndSessionPlaced DEF Continue
<1>. QED
  BY <1>1, <1>2

LEMMA UnsupportedTyped ==
  ASSUME Typed, NEW p \in Procs, Unsupported(p)
  PROVE  Typed'
<1>1. pc[p] \in Walking
  BY DEF Unsupported, Walking
<1>. QED
  BY <1>1, ContinuePlaced, WorldUnchanged, BudgetUnchanged DEF Typed, Unsupported

LEMMA FindCompanyTyped ==
  ASSUME Typed, NEW p \in Procs, FindCompany(p)
  PROVE  Typed'
<1>1. pc[p] = "extract" /\ Moves(p, "ingest", page[p]) /\ UNCHANGED todo
  BY DEF FindCompany, Goto, Moves, Typed, SessionOK
<1>2. page[p] \in Sources
  BY <1>1 DEF Typed, AllPlaced, Placed
<1>3. todo' \in [Procs -> SUBSET Sources]
  BY <1>1 DEF Typed, SessionOK
<1>4. SessionOK /\ AllPlaced /\ "ingest" \in Walking /\ MayMove(p, "ingest", page[p])
  BY <1>1, <1>2 DEF Typed, Walking, MayMove
<1>5. SessionOK' /\ AllPlaced'
  BY <1>1, <1>2, <1>3, <1>4, GotoPlaced
<1>. QED
  BY <1>5, WorldUnchanged, BudgetUnchanged DEF Typed, FindCompany

LEMMA IngestTyped ==
  ASSUME Typed, NEW p \in Procs, Ingest(p)
  PROVE  Typed'
<1>1. pc[p] = "ingest" /\ UNCHANGED <<job, src, faults, late, doc, signal>> /\ UNCHANGED budget
  BY DEF Ingest
<1>2. page[p] \in Sources
  BY <1>1 DEF Typed, AllPlaced, Placed
<1>3. companies' \in Nat /\ evidence' \in [Sources -> Nat]
  <2>1. companies \in Nat /\ evidence \in [Sources -> Nat]
    BY DEF Typed, WorldOK
  <2>2. evidence' = [evidence EXCEPT ![page[p]] = @ + 1]
    BY DEF Ingest
  <2>3. companies' = companies \/ companies' = companies + 1
    BY DEF Ingest
  <2>4. evidence' \in [Sources -> Nat]
    BY <1>2, <2>1, <2>2
  <2>5. companies' \in Nat
    BY <2>1, <2>3
  <2>. QED
    BY <2>4, <2>5
<1>4. CASE p \in Workers
  <2>a. found \in [Procs -> BOOLEAN]
    BY DEF Typed, SessionOK
  <2>b. pc' = [pc EXCEPT ![p] = "detect"] /\ page' = [page EXCEPT ![p] = page[p]]
        /\ found' = [found EXCEPT ![p] = FALSE] /\ UNCHANGED <<cands, held, cur, mem, todo>>
    BY <1>4 DEF Ingest, Goto
  <2>1. Moves(p, "detect", page[p]) /\ UNCHANGED todo
    BY <2>a, <2>b DEF Moves
  <2>2. todo' \in [Procs -> SUBSET Sources]
    BY <2>1 DEF Typed, SessionOK
  <2>4. SessionOK /\ AllPlaced /\ "detect" \in Walking /\ MayMove(p, "detect", page[p])
    BY <1>1, <1>2, <1>4 DEF Typed, Walking, MayMove
  <2>3. SessionOK' /\ AllPlaced'
    BY <1>2, <1>4, <2>1, <2>2, <2>4, GotoPlaced
  <2>. QED
    BY <1>1, <1>3, <2>3, BudgetUnchanged DEF Typed, WorldOK
<1>5. CASE p \notin Workers
  <2>1. SessionOK' /\ AllPlaced'
    BY <1>5, EndSessionPlaced DEF Ingest, Typed
  <2>. QED
    BY <1>1, <1>3, <2>1, BudgetUnchanged DEF Typed, WorldOK
<1>. QED
  BY <1>4, <1>5

LEMMA SignalledType ==
  ASSUME WorldOK, NEW c, Signalled(c)
  PROVE  signal' \in [Contents -> {"none", "live", "deleted"}]
BY DEF Signalled, WorldOK

LEMMA DetectTyped ==
  ASSUME Typed, NEW p \in Procs, Detect(p)
  PROVE  Typed'
<1>1. /\ pc[p] = "detect" /\ UNCHANGED <<job, src, faults, late, doc, companies, evidence>>
      /\ UNCHANGED budget
  BY DEF Detect
<1>2. pc[p] \in Walking
  BY <1>1 DEF Walking
<1>3. SessionOK' /\ AllPlaced'
  BY <1>2, ContinuePlaced, EndSessionPlaced DEF Detect, Typed
<1>4. signal' \in [Contents -> {"none", "live", "deleted"}]
  BY SignalledType DEF Detect, Typed, WorldOK
<1>. QED
  BY <1>1, <1>3, <1>4, BudgetUnchanged DEF Typed, WorldOK

-----------------------------------------------------------------------------

\* Finishing a job, or giving it back.
LEMMA FinishJobTyped ==
  ASSUME Typed, NEW p \in Procs, FinishJob(p)
  PROVE  Typed'
<1>1. pc[p] = "walk" /\ UNCHANGED <<src, faults, world>> /\ UNCHANGED budget
  BY DEF FinishJob
<1>2. p \in Workers /\ pc[p] \in Walking /\ SessionOK /\ AllPlaced
  BY <1>1 DEF Typed, AllPlaced, Placed, Walking
<1>3. BudgetOK'
  BY <1>1, BudgetUnchanged DEF Typed
<1>4. CASE "fetched" \in Transitions(mem[p][cur[p]].status)
  <2>1. Leave(p) /\ job' = [job EXCEPT ![cur[p]] =
                              OrmFlush(@, mem[p][cur[p]],
                                [mem[p][cur[p]] EXCEPT !.status = "done", !.lease = "none"])]
    BY <1>4 DEF FinishJob
  <2>2. SessionOK' /\ AllPlaced'
    BY <1>2, <2>1, LeavePlaced
  <2>3. mem[p][cur[p]] \in JobRow
    BY <1>2 DEF AllPlaced, Placed
  <2>4. job' \in [Jobs -> JobRow]
    BY <2>1, <2>3, RowTypes, OrmFlushType DEF Typed, WorldOK
  <2>. QED
    BY <1>1, <1>3, <2>2, <2>4 DEF Typed, WorldOK, world
<1>5. CASE "fetched" \notin Transitions(mem[p][cur[p]].status)
  <2>1. EndSession(p) /\ UNCHANGED job
    BY <1>5 DEF FinishJob
  <2>. QED
    BY <1>1, <1>2, <1>3, <2>1, EndSessionPlaced, WorldUnchanged DEF Typed
<1>. QED
  BY <1>4, <1>5

LEMMA MarkRetryTyped ==
  ASSUME Typed, NEW p \in Workers, pc[p] \in Walking, MarkRetry(p),
         UNCHANGED <<src, late, doc, evidence, signal>>
  PROVE  SessionOK' /\ AllPlaced' /\ WorldOK'
<1>1. SessionOK /\ AllPlaced /\ p \in Procs
  BY DEF Typed, Procs
<1>2. SessionOK' /\ AllPlaced'
  BY <1>1, LeavePlaced DEF MarkRetry
<1>3. cur[p] \in Jobs /\ mem[p][cur[p]] \in JobRow
  BY <1>1 DEF AllPlaced, Placed, SessionOK
<1>4. mem[p][cur[p]].attempt + 1 \in Nat
  BY <1>3 DEF JobRow
<1>5. job' \in [Jobs -> JobRow]
  <2>. DEFINE m == mem[p][cur[p]]
              n == m.attempt + 1
              s == IF Spent(n) THEN "failed" ELSE "queued"
              new == [m EXCEPT !.status = s, !.lease = "none", !.attempt = n]
  <2>1. job' = [job EXCEPT ![cur[p]] = OrmFlush(@, m, new)]
    BY DEF MarkRetry
  <2>2. m \in JobRow /\ n \in Nat /\ s \in {"failed", "queued"}
    BY <1>3, <1>4
  <2>3. new \in JobRow
    <3>. HIDE DEF m, n, s
    <3>. QED
      BY <2>2, RowTypes
  <2>4. \A x \in JobRow : OrmFlush(x, m, new) \in JobRow
    <3>. HIDE DEF m, new
    <3>. QED
      BY <2>2, <2>3, OrmFlushType
  <2>. HIDE DEF m, new
  <2>. QED
    BY <2>1, <2>4 DEF Typed, WorldOK
<1>6. faults' \in [Jobs -> Nat] /\ companies' \in Nat
  <2>1. faults' = [faults EXCEPT ![cur[p]] = @ + 1]
        /\ companies' \in {companies, companies + 1}
    BY DEF MarkRetry
  <2>. QED
    BY <1>3, <2>1 DEF Typed, WorldOK
<1>. QED
  BY <1>2, <1>5, <1>6 DEF Typed, WorldOK

LEMMA UpsetTyped ==
  ASSUME Typed, NEW p \in Procs, Upset(p)
  PROVE  Typed'
<1>1. p \in Workers /\ pc[p] \in Walking /\ MarkRetry(p)
      /\ UNCHANGED <<src, late, doc, evidence, signal>>
  BY DEF Upset, Walking
<1>2. BudgetOK'
  BY Spending DEF Upset, Typed
<1>. QED
  BY <1>1, <1>2, MarkRetryTyped DEF Typed

LEMMA TwoCompaniesTyped ==
  ASSUME Typed, NEW p \in Procs, TwoCompanies(p)
  PROVE  Typed'
<1>1. pc[p] \in Walking /\ UNCHANGED <<src, late, doc, evidence, signal>> /\ UNCHANGED budget
  BY DEF TwoCompanies, Walking
<1>2. BudgetOK'
  BY <1>1, BudgetUnchanged DEF Typed
<1>3. CASE p \in Workers
  BY <1>1, <1>2, <1>3, MarkRetryTyped DEF TwoCompanies, Typed
<1>4. CASE p \notin Workers
  <2>1. EndSession(p) /\ UNCHANGED <<job, faults, companies>>
    BY <1>4 DEF TwoCompanies
  <2>. QED
    BY <1>1, <1>2, <2>1, EndSessionPlaced DEF Typed, WorldOK
<1>. QED
  BY <1>3, <1>4

LEMMA CrashTyped ==
  ASSUME Typed, NEW p \in Procs, Crash(p)
  PROVE  Typed'
<1>1. BudgetOK'
  BY Spending DEF Crash, Typed
<1>2. SessionOK' /\ AllPlaced'
  BY EndSessionPlaced DEF Crash, Typed
<1>3. WorldOK'
  BY WorldUnchanged DEF Crash, Typed
<1>. QED
  BY <1>1, <1>2, <1>3 DEF Typed

-----------------------------------------------------------------------------
(* The API. *)

LEMMA CreateJobTyped ==
  ASSUME Typed, NEW j \in Jobs, CreateJob(j)
  PROVE  Typed'
<1>1. job' = [job EXCEPT ![j] = [job[j] EXCEPT !.status = "draft"]]
  BY DEF CreateJob
<1>2. \A x \in JobRow : [x EXCEPT !.status = "draft"] \in JobRow
  BY RowTypes DEF JobStatuses
<1>3. job' \in [Jobs -> JobRow]
  BY <1>1, <1>2 DEF Typed, WorldOK
<1>4. SessionOK' /\ AllPlaced' /\ BudgetOK'
  BY SessionUnchanged, Spending DEF CreateJob, Typed
<1>. QED
  BY <1>3, <1>4 DEF CreateJob, Typed, WorldOK, world

LEMMA AddSourceTyped ==
  ASSUME Typed, NEW s \in Sources, AddSource(s)
  PROVE  Typed'
<1>1. src' = [src EXCEPT ![s] = "pending"] /\ late' \subseteq late \cup {s}
      /\ UNCHANGED <<job, faults, doc, companies, evidence, signal>>
  BY DEF AddSource
<1>2. WorldOK'
  BY <1>1 DEF Typed, WorldOK
<1>3. SessionOK' /\ AllPlaced' /\ BudgetOK'
  BY SessionUnchanged, Spending DEF AddSource, Typed
<1>. QED
  BY <1>2, <1>3 DEF Typed

LEMMA PatchReadTyped ==
  ASSUME Typed, NEW p \in Procs, NEW j \in Jobs, NEW target \in JobStatuses,
         PatchRead(p, j, target)
  PROVE  Typed'
<1>0. SessionOK /\ AllPlaced /\ job[j] \in JobRow
  BY DEF Typed, WorldOK
<1>1. /\ p \in Sessions /\ pc' = [pc EXCEPT ![p] = "patch"] /\ cur' = [cur EXCEPT ![p] = j]
      /\ mem' = [mem EXCEPT ![p][j] = [job[j] EXCEPT !.status = target]]
      /\ UNCHANGED <<cands, held, todo, page, found>>
  BY DEF PatchRead
<1>2. [job[j] EXCEPT !.status = target] \in JobRow
  BY <1>0, RowTypes
<1>3. PICK x \in JobRow : mem' = [mem EXCEPT ![p][j] = x]
  BY <1>1, <1>2
<1>4. SessionOK'
  <2>1. mem' \in [Procs -> [Jobs -> JobRow \cup {NoCopy}]]
    BY <1>0, <1>3 DEF SessionOK
  <2>2. pc' \in [Procs -> Places] /\ cur' \in [Procs -> Jobs \cup {NoJob}]
    BY <1>0, <1>1 DEF SessionOK, Places
  <2>. QED
    BY <1>0, <1>1, <2>1, <2>2 DEF SessionOK
<1>5. ASSUME NEW q \in Procs PROVE Placed(q)'
  <2>1. Placed(q)
    BY <1>0 DEF AllPlaced
  <2>2. CASE q = p
    <3>1. pc'[q] = "patch" /\ cur'[q] = j
      BY <1>0, <1>1, <2>2 DEF SessionOK
    <3>2. mem'[q] = [mem[q] EXCEPT ![j] = x] /\ mem[q] \in [Jobs -> JobRow \cup {NoCopy}]
      BY <1>0, <1>3, <2>2 DEF SessionOK
    <3>3. mem'[q][j] \in JobRow
      BY <1>3, <3>2
    <3>4. held'[q] = {}
      BY <1>0, <1>1, <2>1, <2>2 DEF PatchRead, Placed
    <3>. QED
      BY <3>1, <3>3, <3>4 DEF Placed, Walking
  <2>3. CASE q # p
    BY <1>0, <1>1, <2>1, <2>3, PlacedSame DEF SessionOK
  <2>. QED
    BY <2>2, <2>3
<1>6. WorldOK' /\ BudgetOK'
  BY WorldUnchanged, Spending DEF PatchRead, Typed
<1>. QED
  BY <1>4, <1>5, <1>6 DEF Typed, AllPlaced

LEMMA PatchWriteTyped ==
  ASSUME Typed, NEW p \in Procs, PatchWrite(p)
  PROVE  Typed'
<1>0. SessionOK /\ AllPlaced /\ WorldOK /\ BudgetOK
  BY DEF Typed
<1>1. cur[p] \in Jobs /\ mem[p][cur[p]] \in JobRow
  BY <1>0 DEF PatchWrite, AllPlaced, Placed
<1>2. mem[p][cur[p]].status \in JobStatuses
  BY <1>1 DEF JobRow
<1>3. PICK s \in JobStatuses : job' = [job EXCEPT ![cur[p]] = [job[cur[p]] EXCEPT !.status = s]]
  BY <1>2 DEF PatchWrite
<1>4. \A x \in JobRow : [x EXCEPT !.status = s] \in JobRow
  BY RowTypes
<1>5. job' \in [Jobs -> JobRow]
  BY <1>0, <1>1, <1>3, <1>4 DEF WorldOK
<1>6. SessionOK' /\ AllPlaced' /\ BudgetOK'
  BY <1>0, EndSessionPlaced, BudgetUnchanged DEF PatchWrite
<1>7. UNCHANGED <<src, faults, world>>
  BY DEF PatchWrite
<1>8. WorldOK'
  BY <1>0, <1>5, <1>7 DEF WorldOK, world
<1>. QED
  BY <1>6, <1>8 DEF Typed

LEMMA ApiFetchTyped ==
  ASSUME Typed, NEW s \in Sources, NEW outcome \in {"fetched", "rejected", "failed"},
         ApiFetch(s, outcome)
  PROVE  Typed'
<1>1. WorldOK'
  BY OutcomeWorld DEF ApiFetch, Typed
<1>. QED
  BY <1>1, SessionUnchanged, Spending DEF ApiFetch, Typed

LEMMA ApiStoreTyped ==
  ASSUME Typed, NEW s \in Sources, ApiStore(s)
  PROVE  Typed'
<1>1. doc' \in [Contents -> Sources \cup {NoSource}]
  BY ConstantsAssumption DEF ApiStore, Store, Typed, WorldOK
<1>2. WorldOK'
  BY <1>1 DEF ApiStore, Typed, WorldOK
<1>. QED
  BY <1>2, SessionUnchanged, Spending DEF ApiStore, Typed

LEMMA ApiExtractTyped ==
  ASSUME Typed, NEW p \in Procs, NEW s \in Sources, ApiExtract(p, s)
  PROVE  Typed'
<1>1. p \in Sessions /\ pc[p] = "idle" /\ UNCHANGED todo
  BY DEF ApiExtract
<1>a. held[p] = {}
  BY <1>1 DEF Typed, AllPlaced, Placed
<1>2. Moves(p, "extract", s)
  BY DEF ApiExtract, Goto, Moves, Typed, SessionOK
<1>3. "extract" \in Walking /\ MayMove(p, "extract", s)
  BY <1>1, <1>a DEF Walking, MayMove
<1>4. SessionOK /\ AllPlaced /\ todo' \in [Procs -> SUBSET Sources]
  BY <1>1 DEF Typed, SessionOK
<1>5. SessionOK' /\ AllPlaced'
  BY <1>2, <1>3, <1>4, GotoPlaced
<1>6. WorldOK' /\ BudgetOK'
  BY WorldUnchanged, Spending DEF ApiExtract, Typed
<1>. QED
  BY <1>5, <1>6 DEF Typed

LEMMA ApiDetectTyped ==
  ASSUME Typed, NEW s \in Sources, ApiDetect(s)
  PROVE  Typed'
<1>1. signal' \in [Contents -> {"none", "live", "deleted"}]
  BY SignalledType DEF ApiDetect, Typed
<1>2. WorldOK'
  BY <1>1 DEF ApiDetect, Typed, WorldOK
<1>. QED
  BY <1>2, SessionUnchanged, Spending DEF ApiDetect, Typed

LEMMA DeleteSignalTyped ==
  ASSUME Typed, NEW c \in Contents, DeleteSignal(c)
  PROVE  Typed'
<1>1. WorldOK'
  BY DEF DeleteSignal, Typed, WorldOK
<1>. QED
  BY <1>1, SessionUnchanged, Spending DEF DeleteSignal, Typed

-----------------------------------------------------------------------------
(* Time, and the theorem. *)

LEMMA LeaseExpireTyped ==
  ASSUME Typed, NEW j \in Jobs, LeaseExpire(j)
  PROVE  Typed'
<1>1. job' = [job EXCEPT ![j] = [job[j] EXCEPT !.lease = "expired"]]
  BY DEF LeaseExpire
<1>2. \A x \in JobRow : [x EXCEPT !.lease = "expired"] \in JobRow
  BY RowTypes
<1>3. job' \in [Jobs -> JobRow]
  BY <1>1, <1>2 DEF Typed, WorldOK
<1>4. BudgetOK'
  <2>1. CASE \E p \in Procs : j \in held[p]
    BY <2>1, Spending DEF LeaseExpire, Typed
  <2>2. CASE ~\E p \in Procs : j \in held[p]
    BY <2>2, BudgetUnchanged DEF LeaseExpire, Typed, budget
  <2>. QED
    BY <2>1, <2>2
<1>. QED
  BY <1>3, <1>4, SessionUnchanged DEF LeaseExpire, Typed, WorldOK, world

LEMMA BackoffElapseTyped ==
  ASSUME Typed, NEW j \in Jobs, BackoffElapse(j)
  PROVE  Typed'
<1>1. job' = [job EXCEPT ![j] = [job[j] EXCEPT !.gate = "open"]]
  BY DEF BackoffElapse
<1>2. \A x \in JobRow : [x EXCEPT !.gate = "open"] \in JobRow
  BY RowTypes
<1>3. job' \in [Jobs -> JobRow]
  BY <1>1, <1>2 DEF Typed, WorldOK
<1>. QED
  BY <1>3, BudgetUnchanged, SessionUnchanged DEF BackoffElapse, Typed, WorldOK, world

LEMMA StutterTyped == ASSUME Typed, UNCHANGED vars PROVE Typed'
BY SessionUnchanged, WorldUnchanged, BudgetUnchanged DEF Typed, vars

LEMMA NextTyped ==
  ASSUME Typed, [Next]_vars
  PROVE  Typed'
<1>1. ASSUME NEW p \in Procs, Claim(p) PROVE Typed'
  BY <1>1, ClaimSelectTyped, ClaimCommitTyped, ClaimLoadTyped DEF Claim
<1>2. ASSUME NEW p \in Procs, Work(p) PROVE Typed'
  <2>1. ASSUME NEW j \in Jobs, StartJob(p, j) PROVE Typed'
    BY <2>1, StartJobTyped
  <2>2. ASSUME NEW s \in Sources, NEW outcome \in {"fetched", "rejected", "failed"},
               Fetch(p, s, outcome)
        PROVE  Typed'
    BY <2>2, FetchTyped
  <2>3. ASSUME Extract(p) PROVE Typed'
    BY <2>3, UnsupportedTyped, FindCompanyTyped, TwoCompaniesTyped, IngestTyped DEF Extract
  <2>. QED
    BY <1>2, <2>1, <2>2, <2>3, DetectTyped, FinishJobTyped DEF Work
<1>3. ASSUME NEW p \in Procs, Upset(p) PROVE Typed'
  BY <1>3, UpsetTyped
<1>4. ASSUME NEW p \in Procs, Crash(p) PROVE Typed'
  BY <1>4, CrashTyped
<1>5. ASSUME Api PROVE Typed'
  <2>1. ASSUME NEW j \in Jobs, CreateJob(j) PROVE Typed'
    BY <2>1, CreateJobTyped
  <2>2. ASSUME NEW s \in Sources, AddSource(s) \/ ApiStore(s) \/ ApiDetect(s) PROVE Typed'
    BY <2>2, AddSourceTyped, ApiStoreTyped, ApiDetectTyped
  <2>3. ASSUME NEW s \in Sources, NEW outcome \in {"fetched", "rejected", "failed"},
               ApiFetch(s, outcome)
        PROVE  Typed'
    BY <2>3, ApiFetchTyped
  <2>4. ASSUME NEW p \in Sessions, NEW j \in Jobs, NEW target \in JobStatuses,
               PatchRead(p, j, target)
        PROVE  Typed'
    BY <2>4, PatchReadTyped DEF Procs
  <2>5. ASSUME NEW p \in Sessions, NEW s \in Sources, ApiExtract(p, s) PROVE Typed'
    BY <2>5, ApiExtractTyped DEF Procs
  <2>6. ASSUME NEW p \in Sessions, PatchWrite(p) PROVE Typed'
    BY <2>6, PatchWriteTyped DEF Procs
  <2>7. ASSUME NEW c \in Contents, DeleteSignal(c) PROVE Typed'
    BY <2>7, DeleteSignalTyped
  <2>. QED
    BY <1>5, <2>1, <2>2, <2>3, <2>4, <2>5, <2>6, <2>7 DEF Api
<1>6. ASSUME NEW j \in Jobs, LeaseExpire(j) \/ BackoffElapse(j) PROVE Typed'
  BY <1>6, LeaseExpireTyped, BackoffElapseTyped
<1>7. ASSUME UNCHANGED vars PROVE Typed'
  BY <1>7, StutterTyped
<1>. QED
  BY <1>1, <1>2, <1>3, <1>4, <1>5, <1>6, <1>7 DEF Next

\* The inductive invariant: every variable has its type, and every process is where its
\* copies and its current job say (services/discovery_worker.py, api/v1/discovery.py).
THEOREM WellPlaced == Spec => []Typed
<1>1. Init => Typed
  BY InitTyped
<1>2. Typed /\ [Next]_vars => Typed'
  BY NextTyped
<1>. QED
  BY <1>1, <1>2, PTL DEF Spec

\* Every reachable state of the discovery pipeline is well typed.
THEOREM TypeCorrectness == Spec => []TypeOK
<1>1. Typed => TypeOK
  BY TypeParts DEF Typed
<1>. QED
  BY <1>1, WellPlaced, PTL

-----------------------------------------------------------------------------
(* A done job was walked. *)

\* What a step does to jobs and sources, seen from the walks of the others.
Calm ==
  /\ late \subseteq late'
  /\ \A j \in Jobs : Queued(j) => Queued(j)' /\ Pending(j)' \subseteq Pending(j) \cup late'
  /\ \A j \in Jobs : job'[j].status = "done"
                       => job[j].status = "done" \/ Pending(j)' \subseteq late'
SameSession(q) ==
  /\ pc'[q] = pc[q] /\ cands'[q] = cands[q] /\ held'[q] = held[q]
  /\ cur'[q] = cur[q] /\ todo'[q] = todo[q] /\ mem'[q] = mem[q]

LEMMA CalmWhenSame ==
  ASSUME \A j \in Jobs : job'[j].status = job[j].status, UNCHANGED <<src, late>>
  PROVE  Calm
BY DEF Calm, Queued, Pending

LEMMA DoneStaysWalked ==
  ASSUME AllWalked, Calm
  PROVE  DoneMeansWalked'
<1>1. SUFFICES ASSUME NEW s \in Sources, job'[JobOf[s]].status = "done", src'[s] = "pending"
               PROVE  s \in late'
  BY DEF DoneMeansWalked
<1>2. PICK j \in Jobs : j = JobOf[s]
  BY ConstantsAssumption
<1>3. s \in Pending(j)'
  BY <1>1, <1>2 DEF Pending
<1>4. CASE Pending(j)' \subseteq late'
  BY <1>3, <1>4
<1>5. CASE job[j].status = "done"
  <2>1. s \in Pending(j) \cup late'
    BY <1>3, <1>5 DEF Calm, Queued
  <2>2. s \in Pending(j) => s \in late
    BY <1>2, <1>5 DEF AllWalked, DoneMeansWalked, Pending
  <2>. QED
    BY <2>1, <2>2 DEF Calm
<1>. QED
  BY <1>1, <1>2, <1>4, <1>5 DEF Calm

LEMMA WalkedSame ==
  ASSUME Typed, AllWalked, Calm, NEW q \in Procs, SameSession(q)
  PROVE  Walked(q)'
<1>1. Walked(q) /\ Placed(q)
  BY DEF AllWalked, Typed, AllPlaced
<1>2. cands[q] \subseteq [id : Jobs, status : {"queued", "running"}] /\ held[q] \subseteq Jobs
  BY DEF Typed, SessionOK
<1>3. \A c \in cands[q] : c.id \in Jobs
  BY <1>2
<1>4. (\A c \in cands'[q] : Queued(c.id)') /\ (\A j \in held'[q] : Queued(j)')
  BY <1>1, <1>2, <1>3 DEF Walked, SameSession, Calm
<1>5. ASSUME pc'[q] \in Walking, q \in Workers, NEW j \in Jobs, j = cur'[q]
      PROVE  Pending(j)' \subseteq todo'[q] \cup late'
  <2>1. j \in held[q] /\ j = cur[q] /\ pc[q] \in Walking /\ todo'[q] = todo[q]
    BY <1>1, <1>5 DEF SameSession, Placed
  <2>2. Pending(j)' \subseteq Pending(j) \cup late' /\ late \subseteq late'
    BY <1>1, <2>1 DEF Walked, Calm
  <2>3. Pending(j) \subseteq todo[q] \cup late
    BY <1>1, <1>5, <2>1 DEF Walked
  <2>. QED
    BY <2>1, <2>2, <2>3
<1>6. pc'[q] = "patch" => mem'[q][cur'[q]].status \notin {"absent", "draft", "done"}
  BY <1>1 DEF Walked, SameSession
<1>. QED
  BY <1>4, <1>5, <1>6 DEF Walked

LEMMA WalkedStep ==
  ASSUME Typed, AllWalked, Calm, NEW p \in Procs, Walked(p)',
         \A q \in Procs \ {p} : SameSession(q)
  PROVE  AllWalked'
BY DoneStaysWalked, WalkedSame DEF AllWalked

LEMMA WalkedUnchanged ==
  ASSUME Typed, AllWalked, Calm, UNCHANGED session
  PROVE  AllWalked'
<1>1. \A q \in Procs : SameSession(q)
  BY DEF SameSession, session
<1>. QED
  BY <1>1, DoneStaysWalked, WalkedSame DEF AllWalked

\* The ways a process moves on.
LEMMA WalkedEnd ==
  ASSUME Typed, AllWalked, Calm, NEW p \in Procs, EndSession(p)
  PROVE  AllWalked'
<1>1. pc'[p] = "idle" /\ cands'[p] = {} /\ held'[p] = {}
  BY DEF EndSession, Typed, SessionOK
<1>2. Walked(p)'
  BY <1>1 DEF Walked, Walking
<1>3. ASSUME NEW q \in Procs \ {p} PROVE SameSession(q)
  BY DEF SameSession, EndSession, Typed, SessionOK
<1>. QED
  BY <1>2, <1>3, WalkedStep

LEMMA WalkedMove ==
  ASSUME Typed, AllWalked, Calm, NEW p \in Procs, NEW place \in Walking, NEW s,
         Moves(p, place, s), \A q \in Procs \ {p} : todo'[q] = todo[q],
         p \in Workers => pc[p] \in Walking,
         \A r \in Sources : r \in todo[p] \ todo'[p] => src'[r] # "pending"
  PROVE  AllWalked'
<1>1. pc'[p] = place /\ cands'[p] = cands[p] /\ held'[p] = held[p] /\ cur'[p] = cur[p]
      /\ mem'[p] = mem[p]
  BY DEF Moves, Typed, SessionOK
<1>2. Walked(p) /\ Placed(p)
  BY DEF AllWalked, Typed, AllPlaced
<1>3. cands[p] \subseteq [id : Jobs, status : {"queued", "running"}] /\ held[p] \subseteq Jobs
  BY DEF Typed, SessionOK
<1>4. \A c \in cands[p] : c.id \in Jobs
  BY <1>3
<1>5. (\A c \in cands'[p] : Queued(c.id)') /\ (\A j \in held'[p] : Queued(j)')
  BY <1>1, <1>2, <1>3, <1>4 DEF Walked, Calm
<1>6. ASSUME p \in Workers, NEW j \in Jobs, j = cur'[p]
      PROVE  Pending(j)' \subseteq todo'[p] \cup late'
  <2>1. j \in held[p] /\ j = cur[p] /\ pc[p] \in Walking
    BY <1>1, <1>2, <1>6 DEF Placed
  <2>2. Pending(j)' \subseteq Pending(j) \cup late' /\ late \subseteq late'
    BY <1>2, <2>1 DEF Walked, Calm
  <2>3. Pending(j) \subseteq todo[p] \cup late
    BY <1>2, <1>6, <2>1 DEF Walked
  <2>4. \A r \in Pending(j)' : r \in Sources /\ src'[r] = "pending"
    BY DEF Pending
  <2>. QED
    BY <2>2, <2>3, <2>4
<1>7. pc'[p] # "patch"
  BY <1>1 DEF Walking
<1>8. Walked(p)'
  BY <1>5, <1>6, <1>7 DEF Walked
<1>9. ASSUME NEW q \in Procs \ {p} PROVE SameSession(q)
  BY DEF SameSession, Moves, Typed, SessionOK
<1>. QED
  BY <1>8, <1>9, WalkedStep

LEMMA WalkedLeave ==
  ASSUME Typed, AllWalked, Calm, NEW p \in Procs, Leave(p)
  PROVE  AllWalked'
<1>1. CASE held[p] = {cur[p]}
  BY <1>1, WalkedEnd DEF Leave
<1>2. CASE held[p] # {cur[p]}
  <2>1. /\ pc' = [pc EXCEPT ![p] = "job"] /\ held' = [held EXCEPT ![p] = @ \ {cur[p]}]
        /\ cur' = [cur EXCEPT ![p] = NoJob] /\ todo' = [todo EXCEPT ![p] = {}]
        /\ UNCHANGED <<cands, mem>>
    BY <1>2 DEF Leave
  <2>2. pc'[p] = "job" /\ held'[p] \subseteq held[p] /\ cands'[p] = cands[p]
    BY <2>1 DEF Typed, SessionOK
  <2>3. Walked(p) /\ held[p] \subseteq Jobs
        /\ cands[p] \subseteq [id : Jobs, status : {"queued", "running"}]
    BY DEF AllWalked, Typed, SessionOK
  <2>4. \A c \in cands[p] : c.id \in Jobs
    BY <2>3
  <2>5. Walked(p)'
    BY <2>2, <2>3, <2>4 DEF Walked, Calm, Walking
  <2>6. ASSUME NEW q \in Procs \ {p} PROVE SameSession(q)
    BY <2>1 DEF SameSession, Typed, SessionOK
  <2>. QED
    BY <2>5, <2>6, WalkedStep
<1>. QED
  BY <1>1, <1>2

-----------------------------------------------------------------------------
(* The same, action by action. *)

LEMMA ClaimWalked ==
  ASSUME Typed, AllWalked, NEW p \in Procs, Claim(p)
  PROVE  AllWalked'
<1>0. held[p] \subseteq Jobs /\ Walked(p)
      /\ cands[p] \subseteq [id : Jobs, status : {"queued", "running"}]
  BY DEF Typed, SessionOK, AllWalked
<1>1. CASE ClaimSelect(p)
  <2>1. PICK J \in SUBSET Due :
          cands' = [cands EXCEPT ![p] = {[id |-> j, status |-> job[j].status] : j \in J}]
    BY <1>1 DEF ClaimSelect
  <2>2. pc' = [pc EXCEPT ![p] = "claim"] /\ UNCHANGED <<held, cur, todo, page, found, mem>>
    BY <1>1 DEF ClaimSelect
  <2>3. Calm
    BY <1>1, CalmWhenSame DEF ClaimSelect, world
  <2>4. cands'[p] = {[id |-> j, status |-> job[j].status] : j \in J} /\ pc'[p] = "claim"
    BY <2>1, <2>2 DEF Typed, SessionOK
  <2>5. \A c \in cands'[p] : Queued(c.id)'
    BY <2>4, <1>1 DEF Due, Queued, ClaimSelect
  <2>6. Walked(p)'
    BY <1>0, <2>2, <2>3, <2>4, <2>5 DEF Walked, Walking, Calm
  <2>7. ASSUME NEW q \in Procs \ {p} PROVE SameSession(q)
    BY <2>1, <2>2 DEF SameSession, Typed, SessionOK
  <2>. QED
    BY <2>3, <2>6, <2>7, WalkedStep
<1>2. CASE ClaimCommit(p)
  <2>1. \A j \in Jobs : job'[j] = IF j \in Won(p) THEN Taken(job[j]) ELSE job[j]
    BY <1>2 DEF ClaimCommit
  <2>2. \A j \in Jobs : j \in Won(p) => job'[j].status = "running"
    BY <2>1, ZenonT(60) DEF Taken, Typed, WorldOK, JobRow
  <2>3. UNCHANGED <<src, late>>
    BY <1>2 DEF ClaimCommit, world
  <2>4. Calm
    <3>1. ASSUME NEW j \in Jobs PROVE job'[j].status \in {"running", job[j].status}
      BY <2>1, <2>2
    <3>. QED
      BY <2>3, <3>1 DEF Calm, Queued, Pending
  <2>5. CASE Won(p) = {}
    BY <1>2, <2>4, <2>5, WalkedEnd DEF ClaimCommit
  <2>6. CASE Won(p) # {}
    <3>1. /\ pc' = [pc EXCEPT ![p] = "load"] /\ held' = [held EXCEPT ![p] = Won(p)]
          /\ cands' = [cands EXCEPT ![p] = {}] /\ UNCHANGED <<cur, todo, page, found, mem>>
      BY <1>2, <2>6 DEF ClaimCommit
    <3>2. pc'[p] = "load" /\ held'[p] = Won(p) /\ cands'[p] = {}
      BY <3>1 DEF Typed, SessionOK
    <3>3. Won(p) \subseteq Jobs
      BY WonType DEF Typed
    <3>4. \A j \in held'[p] : Queued(j)'
      BY <2>2, <3>2, <3>3 DEF Queued
    <3>5. Walked(p)'
      BY <3>2, <3>4 DEF Walked, Walking
    <3>6. ASSUME NEW q \in Procs \ {p} PROVE SameSession(q)
      BY <3>1 DEF SameSession, Typed, SessionOK
    <3>. QED
      BY <2>4, <3>5, <3>6, WalkedStep
  <2>. QED
    BY <2>5, <2>6
<1>3. CASE ClaimLoad(p)
  <2>1. /\ pc' = [pc EXCEPT ![p] = "job"] /\ mem' = Loaded(p, held[p])
        /\ UNCHANGED <<cands, held, cur, todo, page, found>>
    BY <1>3 DEF ClaimLoad
  <2>2. Calm
    BY <1>3, CalmWhenSame DEF ClaimLoad, world
  <2>3. pc'[p] = "job"
    BY <2>1 DEF Typed, SessionOK
  <2>a. \A c \in cands[p] : c.id \in Jobs
    BY <1>0
  <2>4. Walked(p)'
    BY <1>0, <2>1, <2>2, <2>3, <2>a DEF Walked, Walking, Calm
  <2>5. ASSUME NEW q \in Procs \ {p} PROVE SameSession(q)
    BY <2>1 DEF SameSession, Loaded, Typed, SessionOK
  <2>. QED
    BY <2>2, <2>4, <2>5, WalkedStep
<1>. QED
  BY <1>1, <1>2, <1>3 DEF Claim

LEMMA StartJobWalked ==
  ASSUME Typed, AllWalked, NEW p \in Procs, NEW j \in Jobs, StartJob(p, j)
  PROVE  AllWalked'
<1>1. /\ pc' = [pc EXCEPT ![p] = "walk"] /\ cur' = [cur EXCEPT ![p] = j]
      /\ todo' = [todo EXCEPT ![p] = Pending(j)]
      /\ UNCHANGED <<cands, held, page, found, mem>> /\ UNCHANGED <<job, src, late>>
  BY DEF StartJob, world
<1>2. Calm
  BY <1>1, CalmWhenSame
<1>3. pc'[p] = "walk" /\ cur'[p] = j /\ todo'[p] = Pending(j)
  BY <1>1 DEF Typed, SessionOK
<1>4. Walked(p) /\ Pending(j)' = Pending(j)
  BY <1>1 DEF AllWalked, Pending
<1>5. Walked(p)'
  BY <1>1, <1>3, <1>4 DEF Walked, Queued
<1>6. ASSUME NEW q \in Procs \ {p} PROVE SameSession(q)
  BY <1>1 DEF SameSession, Typed, SessionOK
<1>. QED
  BY <1>2, <1>5, <1>6, WalkedStep

\* An outcome only ever takes a source out of the pending ones.
LEMMA OutcomeCalm ==
  ASSUME NEW s \in Sources, NEW outcome \in {"fetched", "rejected", "failed"},
         Outcome(s, outcome), WorldOK, UNCHANGED <<job, late>>
  PROVE  Calm /\ src'[s] # "pending"
<1>1. src' = [src EXCEPT ![s] = outcome]
  BY DEF Outcome
<1>. QED
  BY <1>1 DEF WorldOK, Calm, Queued, Pending

LEMMA FetchWalked ==
  ASSUME Typed, AllWalked, NEW p \in Procs, NEW s \in Sources,
         NEW outcome \in {"fetched", "rejected", "failed"}, Fetch(p, s, outcome)
  PROVE  AllWalked'
<1>1. pc[p] = "walk" /\ todo' = [todo EXCEPT ![p] = @ \ {s}] /\ Outcome(s, outcome)
      /\ UNCHANGED <<job, late>>
  BY DEF Fetch
<1>2. Calm /\ src'[s] # "pending"
  BY <1>1, OutcomeCalm DEF Typed
<1>3. \A r \in Sources : r \in todo[p] \ todo'[p] => src'[r] # "pending"
  BY <1>1, <1>2 DEF Typed, SessionOK
<1>4. (\A q \in Procs \ {p} : todo'[q] = todo[q]) /\ pc[p] \in Walking
  BY <1>1 DEF Typed, SessionOK, Walking
<1>5. PICK place \in {"extract", "walk"}, r \in Sources \cup {NoSource} : Moves(p, place, r)
  BY ZenonT(60) DEF Fetch, Goto, Moves, Typed, SessionOK
<1>6. place \in Walking
  BY DEF Walking
<1>. QED
  BY <1>2, <1>3, <1>4, <1>5, <1>6, WalkedMove

\* A step along the chain that touches neither jobs nor sources.
LEMMA ChainWalked ==
  ASSUME Typed, AllWalked, NEW p \in Procs, pc[p] \in Walking, NEW place \in Walking, NEW s,
         Moves(p, place, s), UNCHANGED <<job, src, late, todo>>
  PROVE  AllWalked'
<1>1. Calm
  BY CalmWhenSame
<1>. QED
  BY <1>1, WalkedMove

LEMMA CalmEndWalked ==
  ASSUME Typed, AllWalked, NEW p \in Procs, EndSession(p), UNCHANGED <<job, src, late>>
  PROVE  AllWalked'
BY CalmWhenSame, WalkedEnd

LEMMA ContinueWalked ==
  ASSUME Typed, AllWalked, NEW p \in Procs, pc[p] \in Walking, Continue(p),
         UNCHANGED <<job, src, late>>
  PROVE  AllWalked'
<1>1. CASE p \in Workers
  <2>1. Moves(p, "walk", NoSource) /\ UNCHANGED todo
    BY <1>1 DEF Continue, Goto, Moves, Typed, SessionOK
  <2>2. "walk" \in Walking
    BY DEF Walking
  <2>. QED
    BY <2>1, <2>2, ChainWalked
<1>2. CASE p \notin Workers
  BY <1>2, CalmEndWalked DEF Continue
<1>. QED
  BY <1>1, <1>2

LEMMA ExtractDetectWalked ==
  ASSUME Typed, AllWalked, NEW p \in Procs,
         Unsupported(p) \/ FindCompany(p) \/ Ingest(p) \/ Detect(p)
  PROVE  AllWalked'
<1>1. pc[p] \in Walking /\ UNCHANGED <<job, src, late>>
  BY DEF Unsupported, FindCompany, Ingest, Detect, Walking, world
<1>2. CASE Unsupported(p)
  BY <1>1, <1>2, ContinueWalked DEF Unsupported
<1>3. CASE FindCompany(p)
  <2>1. Moves(p, "ingest", page[p]) /\ UNCHANGED todo /\ "ingest" \in Walking
    BY <1>3 DEF FindCompany, Goto, Moves, Typed, SessionOK, Walking
  <2>. QED
    BY <1>1, <2>1, ChainWalked
<1>4. CASE Ingest(p)
  <2>1. CASE p \in Workers
    <3>a. found \in [Procs -> BOOLEAN]
      BY DEF Typed, SessionOK
    <3>b. pc' = [pc EXCEPT ![p] = "detect"] /\ page' = [page EXCEPT ![p] = page[p]]
          /\ found' = [found EXCEPT ![p] = FALSE] /\ UNCHANGED <<cands, held, cur, mem, todo>>
      BY <1>4, <2>1 DEF Ingest, Goto
    <3>1. Moves(p, "detect", page[p]) /\ UNCHANGED todo /\ "detect" \in Walking
      BY <3>a, <3>b DEF Moves, Walking
    <3>. QED
      BY <1>1, <3>1, ChainWalked
  <2>2. CASE p \notin Workers
    BY <1>1, <1>4, <2>2, CalmEndWalked DEF Ingest
  <2>. QED
    BY <2>1, <2>2
<1>5. CASE Detect(p)
  BY <1>1, <1>5, ContinueWalked, CalmEndWalked DEF Detect
<1>. QED
  BY <1>2, <1>3, <1>4, <1>5

LEMMA FinishJobWalked ==
  ASSUME Typed, AllWalked, NEW p \in Procs, FinishJob(p)
  PROVE  AllWalked'
<1>1. pc[p] = "walk" /\ todo[p] = {} /\ UNCHANGED <<src, late>>
  BY DEF FinishJob, world
<1>2. Walked(p) /\ Placed(p) /\ p \in Workers /\ pc[p] \in Walking
  BY <1>1 DEF AllWalked, Typed, AllPlaced, Placed, Walking
<1>3. PICK j \in Jobs : j = cur[p]
  BY <1>2 DEF Placed, Typed, SessionOK
<1>4. CASE "fetched" \in Transitions(mem[p][j].status)
  <2>1. Leave(p) /\ job' = [job EXCEPT ![j] =
                              OrmFlush(@, mem[p][j],
                                [mem[p][j] EXCEPT !.status = "done", !.lease = "none"])]
    BY <1>3, <1>4 DEF FinishJob
  <2>2. mem[p][j] \in JobRow
    BY <1>2, <1>3 DEF Placed
  <2>3. mem[p][j].status = "running"
    BY <1>4, <2>2 DEF Transitions
  <2>4. [mem[p][j] EXCEPT !.status = "done", !.lease = "none"].status = "done"
    BY <2>2 DEF JobRow
  <2>5. job'[j].status = "done"
    BY <2>1, <2>3, <2>4 DEF OrmFlush, Column, Typed, WorldOK
  <2>6. \A k \in Jobs \ {j} : job'[k] = job[k]
    BY <2>1 DEF Typed, WorldOK
  <2>7. Pending(j)' \subseteq late'
    <3>1. Pending(j) \subseteq late
      BY <1>1, <1>2, <1>3 DEF Walked
    <3>. QED
      BY <1>1, <3>1 DEF Pending
  <2>8. Calm
    BY <1>1, <2>5, <2>6, <2>7 DEF Calm, Queued, Pending
  <2>. QED
    BY <2>1, <2>8, WalkedLeave
<1>5. CASE "fetched" \notin Transitions(mem[p][j].status)
  BY <1>1, <1>3, <1>5, CalmEndWalked DEF FinishJob
<1>. QED
  BY <1>4, <1>5

LEMMA MarkRetryWalked ==
  ASSUME Typed, AllWalked, NEW p \in Workers, pc[p] \in Walking, MarkRetry(p),
         UNCHANGED <<src, late>>
  PROVE  AllWalked'
<1>1. p \in Procs /\ Placed(p) /\ Walked(p)
  BY DEF Procs, Typed, AllPlaced, AllWalked
<1>2. PICK j \in Jobs : j = cur[p]
  BY <1>1 DEF Placed, Typed, SessionOK
<1>3. mem[p][j] \in JobRow
  BY <1>1, <1>2 DEF Placed
<1>4. PICK n, st : /\ n = mem[p][j].attempt + 1
                   /\ st = IF Spent(n) THEN "failed" ELSE "queued"
  OBVIOUS
<1>5. PICK new : new = [mem[p][j] EXCEPT !.status = st, !.lease = "none", !.attempt = n]
  OBVIOUS
<1>6. new.status \in {"failed", "queued"}
  BY <1>3, <1>4, <1>5 DEF JobRow
<1>7. job' = [job EXCEPT ![j] = OrmFlush(@, mem[p][j], new)]
  BY <1>2, <1>4, <1>5 DEF MarkRetry
<1>8. job'[j].status \in {"failed", "queued", job[j].status}
  BY <1>6, <1>7 DEF OrmFlush, Column, Typed, WorldOK
<1>9. \A k \in Jobs \ {j} : job'[k] = job[k]
  BY <1>7 DEF Typed, WorldOK
<1>10. Calm
  BY <1>8, <1>9 DEF Calm, Queued, Pending
<1>. QED
  BY <1>1, <1>10, WalkedLeave DEF MarkRetry

LEMMA FaultWalked ==
  ASSUME Typed, AllWalked, NEW p \in Procs, Upset(p) \/ TwoCompanies(p) \/ Crash(p)
  PROVE  AllWalked'
<1>1. CASE Upset(p)
  <2>1. p \in Workers /\ pc[p] \in Walking /\ MarkRetry(p) /\ UNCHANGED <<src, late>>
    BY <1>1 DEF Upset, Walking
  <2>. QED
    BY <2>1, MarkRetryWalked
<1>2. CASE TwoCompanies(p)
  <2>1. pc[p] \in Walking /\ UNCHANGED <<src, late>>
    BY <1>2 DEF TwoCompanies, Walking
  <2>2. CASE p \in Workers
    BY <1>2, <2>1, <2>2, MarkRetryWalked DEF TwoCompanies
  <2>3. CASE p \notin Workers
    BY <1>2, <2>1, <2>3, CalmEndWalked DEF TwoCompanies
  <2>. QED
    BY <2>2, <2>3
<1>3. CASE Crash(p)
  BY <1>3, CalmEndWalked DEF Crash, world
<1>. QED
  BY <1>1, <1>2, <1>3

LEMMA CreateAddWalked ==
  ASSUME Typed, AllWalked,
         (\E j \in Jobs : CreateJob(j)) \/ (\E s \in Sources : AddSource(s))
  PROVE  AllWalked'
<1>1. ASSUME NEW j \in Jobs, CreateJob(j) PROVE AllWalked'
  <2>1. job[j].status = "absent" /\ UNCHANGED <<src, late>> /\ UNCHANGED session
        /\ job' = [job EXCEPT ![j] = [job[j] EXCEPT !.status = "draft"]]
    BY <1>1 DEF CreateJob, world
  <2>2. job'[j].status = "draft" /\ \A k \in Jobs \ {j} : job'[k] = job[k]
    BY <2>1 DEF Typed, WorldOK, JobRow
  <2>3. Calm
    BY <2>1, <2>2 DEF Calm, Queued, Pending
  <2>. QED
    BY <2>1, <2>3, WalkedUnchanged
<1>2. ASSUME NEW s \in Sources, AddSource(s) PROVE AllWalked'
  <2>1. src' = [src EXCEPT ![s] = "pending"] /\ job' = job
    BY <1>2 DEF AddSource
  <2>2. UNCHANGED session
    BY <1>2 DEF AddSource
  <2>3. /\ late \subseteq late'
        /\ job[JobOf[s]].status \notin {"absent", "draft"} => s \in late'
    <3>1. CASE job[JobOf[s]].status = "draft"
      BY <1>2, <3>1 DEF AddSource
    <3>2. CASE job[JobOf[s]].status # "draft"
      BY <1>2, <3>2 DEF AddSource
    <3>. QED
      BY <3>1, <3>2
  <2>4. \A r \in Sources \ {s} : src'[r] = src[r]
    BY <2>1 DEF Typed, WorldOK
  <2>5. ASSUME NEW j \in Jobs, Queued(j)
        PROVE  Queued(j)' /\ Pending(j)' \subseteq Pending(j) \cup late'
    <3>1. ASSUME NEW r \in Pending(j)' PROVE r \in Pending(j) \cup late'
      <4>1. r \in Sources /\ JobOf[r] = j /\ src'[r] = "pending"
        BY <3>1 DEF Pending
      <4>2. CASE r = s
        BY <2>3, <2>5, <4>1, <4>2 DEF Queued
      <4>3. CASE r # s
        BY <2>4, <4>1, <4>3 DEF Pending
      <4>. QED
        BY <4>2, <4>3
    <3>2. Queued(j)'
      BY <2>1, <2>5 DEF Queued
    <3>. QED
      BY <3>1, <3>2
  <2>6. Calm
    BY <2>1, <2>3, <2>5 DEF Calm
  <2>. QED
    BY <2>2, <2>6, WalkedUnchanged
<1>. QED
  BY <1>1, <1>2

LEMMA PatchWalked ==
  ASSUME Typed, AllWalked, "done" \notin Targets, NEW p \in Procs,
         PatchWrite(p) \/ \E j \in Jobs, target \in JobStatuses : PatchRead(p, j, target)
  PROVE  AllWalked'
<1>0. Walked(p) /\ Placed(p) /\ SessionOK
  BY DEF AllWalked, Typed, AllPlaced
<1>1. ASSUME NEW j \in Jobs, NEW target \in JobStatuses, PatchRead(p, j, target)
      PROVE  AllWalked'
  <2>1. /\ pc[p] = "idle" /\ target \notin {"absent", "draft", "done"}
        /\ pc' = [pc EXCEPT ![p] = "patch"] /\ cur' = [cur EXCEPT ![p] = j]
        /\ mem' = [mem EXCEPT ![p][j] = [job[j] EXCEPT !.status = target]]
        /\ UNCHANGED <<cands, held, todo, page, found>> /\ UNCHANGED <<job, src, late>>
    BY <1>1, TransitionsType DEF PatchRead, world
  <2>2. Calm
    BY <2>1, CalmWhenSame
  <2>3. pc'[p] = "patch" /\ cur'[p] = j /\ held[p] = {}
    BY <1>0, <2>1 DEF SessionOK, Placed
  <2>4. mem'[p][j].status = target
    <3>1. PICK x : x = [job[j] EXCEPT !.status = target]
      OBVIOUS
    <3>2. x.status = target
      BY <3>1 DEF Typed, WorldOK, JobRow
    <3>3. mem'[p] = [mem[p] EXCEPT ![j] = x]
      BY <1>0, <2>1, <3>1 DEF SessionOK
    <3>4. mem[p] \in [Jobs -> JobRow \cup {NoCopy}]
      BY <1>0 DEF SessionOK
    <3>. QED
      BY <3>2, <3>3, <3>4
  <2>5. (\A c \in cands'[p] : Queued(c.id)') /\ held'[p] = {}
    <3>1. cands[p] \subseteq [id : Jobs, status : {"queued", "running"}]
      BY <1>0 DEF SessionOK
    <3>2. \A c \in cands[p] : c.id \in Jobs
      BY <3>1
    <3>. QED
      BY <1>0, <2>1, <2>2, <2>3, <3>2 DEF Walked, Calm
  <2>6. Walked(p)'
    BY <2>1, <2>3, <2>4, <2>5 DEF Walked, Walking
  <2>7. ASSUME NEW q \in Procs \ {p} PROVE SameSession(q)
    BY <1>0, <2>1 DEF SameSession, SessionOK
  <2>. QED
    BY <2>2, <2>6, <2>7, WalkedStep
<1>2. CASE PatchWrite(p)
  <2>1. pc[p] = "patch" /\ EndSession(p) /\ UNCHANGED <<src, late>>
        /\ job' = [job EXCEPT ![cur[p]] = [job[cur[p]] EXCEPT !.status = mem[p][cur[p]].status]]
    BY <1>2 DEF PatchWrite, world
  <2>2. PICK j \in Jobs : j = cur[p]
    BY <1>0, <2>1 DEF Placed
  <2>3. mem[p][j].status \notin {"absent", "draft", "done"}
    BY <1>0, <2>1, <2>2 DEF Walked
  <2>4. job'[j].status = mem[p][j].status /\ \A k \in Jobs \ {j} : job'[k] = job[k]
    BY <2>1, <2>2 DEF Typed, WorldOK, JobRow
  <2>5. Calm
    BY <2>1, <2>3, <2>4 DEF Calm, Queued, Pending
  <2>. QED
    BY <2>1, <2>5, WalkedEnd
<1>. QED
  BY <1>1, <1>2

LEMMA ApiWalked ==
  ASSUME Typed, AllWalked, "done" \notin Targets, Api
  PROVE  AllWalked'
<1>1. ASSUME NEW s \in Sources, NEW outcome \in {"fetched", "rejected", "failed"},
             ApiFetch(s, outcome)
      PROVE  AllWalked'
  <2>1. Outcome(s, outcome) /\ UNCHANGED <<job, late>> /\ UNCHANGED session
    BY <1>1 DEF ApiFetch
  <2>. QED
    BY <2>1, OutcomeCalm, WalkedUnchanged DEF Typed
<1>2. ASSUME \/ \E s \in Sources : ApiStore(s) \/ ApiDetect(s)
             \/ \E c \in Contents : DeleteSignal(c)
      PROVE  AllWalked'
  <2>1. UNCHANGED <<job, src, late>> /\ UNCHANGED session
    BY <1>2 DEF ApiStore, ApiDetect, DeleteSignal
  <2>2. Calm
    BY <2>1, CalmWhenSame
  <2>. QED
    BY <2>1, <2>2, WalkedUnchanged
<1>3. ASSUME NEW p \in Sessions, NEW s \in Sources, ApiExtract(p, s) PROVE AllWalked'
  <2>1. p \in Procs /\ p \notin Workers /\ UNCHANGED <<job, src, late>> /\ UNCHANGED todo
    BY <1>3, ConstantsAssumption DEF ApiExtract, Procs, world
  <2>2. Moves(p, "extract", s) /\ "extract" \in Walking
    BY <1>3, <2>1 DEF ApiExtract, Goto, Moves, Typed, SessionOK, Walking
  <2>3. Calm
    BY <2>1, CalmWhenSame
  <2>. QED
    BY <2>1, <2>2, <2>3, WalkedMove
<1>4. \A p \in Sessions : p \in Procs
  BY DEF Procs
<1>. QED
  BY <1>1, <1>2, <1>3, <1>4, CreateAddWalked, PatchWalked DEF Api

LEMMA ClockWalked ==
  ASSUME Typed, AllWalked, NEW j \in Jobs, LeaseExpire(j) \/ BackoffElapse(j)
  PROVE  AllWalked'
<1>1. UNCHANGED <<src, late>> /\ UNCHANGED session
  BY DEF LeaseExpire, BackoffElapse, world
<1>2. ASSUME LeaseExpire(j) PROVE \A k \in Jobs : job'[k].status = job[k].status
  <2>1. job' = [job EXCEPT ![j] = [job[j] EXCEPT !.lease = "expired"]]
    BY <1>2 DEF LeaseExpire
  <2>. QED
    BY <2>1 DEF Typed, WorldOK, JobRow
<1>3. ASSUME BackoffElapse(j) PROVE \A k \in Jobs : job'[k].status = job[k].status
  <2>1. job' = [job EXCEPT ![j] = [job[j] EXCEPT !.gate = "open"]]
    BY <1>3 DEF BackoffElapse
  <2>. QED
    BY <2>1 DEF Typed, WorldOK, JobRow
<1>4. Calm
  BY <1>1, <1>2, <1>3, CalmWhenSame
<1>. QED
  BY <1>1, <1>4, WalkedUnchanged

LEMMA NextWalked ==
  ASSUME Typed, AllWalked, "done" \notin Targets, [Next]_vars
  PROVE  AllWalked'
<1>1. ASSUME NEW p \in Procs, Work(p) PROVE AllWalked'
  BY <1>1, StartJobWalked, FetchWalked, ExtractDetectWalked, FaultWalked, FinishJobWalked
  DEF Work, Extract
<1>2. ASSUME UNCHANGED vars PROVE AllWalked'
  <2>1. UNCHANGED <<job, src, late>> /\ UNCHANGED session
    BY <1>2 DEF vars, world
  <2>2. Calm
    BY <2>1, CalmWhenSame
  <2>. QED
    BY <2>1, <2>2, WalkedUnchanged
<1>. QED
  BY <1>1, <1>2, ClaimWalked, FaultWalked, ApiWalked, ClockWalked DEF Next

\* However workers race, die, overrun their leases or retry, and whatever is asked through
\* the API except setting a job to done by hand (PATCH /discovery/jobs), no job is marked
\* done over a source that was pending when it was queued.
THEOREM DoneWasWalked ==
  ASSUME "done" \notin Targets
  PROVE  Spec => []DoneMeansWalked
<1>1. Init => AllWalked
  <2>1. ASSUME Init, NEW j \in Jobs PROVE job[j].status # "done"
    BY <2>1 DEF Init, NewJob
  <2>2. ASSUME Init, NEW p \in Procs PROVE Walked(p)
    BY <2>2 DEF Init, Walked, Walking
  <2>. QED
    BY <2>1, <2>2, ConstantsAssumption DEF AllWalked, DoneMeansWalked
<1>2. Typed /\ AllWalked /\ [Next]_vars => AllWalked'
  BY NextWalked
<1>3. AllWalked => DoneMeansWalked
  BY DEF AllWalked
<1>. QED
  BY <1>1, <1>2, <1>3, WellPlaced, PTL DEF Spec

-----------------------------------------------------------------------------
(* Nothing is stored without what it was found in. *)

\* What a step does to documents, companies, evidence and signals: nothing that is relied
\* upon goes away, and what is added has its foundation.
Grounded(c) == \E s \in Sources : Body[s] = c /\ evidence[s] > 0
Grows ==
  /\ \A c \in Contents : doc[c] # NoSource => doc'[c] # NoSource
  /\ companies > 0 => companies' > 0
  /\ \A s \in Sources : /\ evidence[s] > 0 => evidence'[s] > 0
                        /\ evidence'[s] > 0 => \/ evidence[s] > 0
                                               \/ doc[Body[s]] # NoSource /\ companies' > 0
  /\ \A c \in Contents : signal'[c] # "none" => signal[c] # "none" \/ Grounded(c)
SamePlace(q) == pc'[q] = pc[q] /\ page'[q] = page[q] /\ found'[q] = found[q]
Chain == {"extract", "ingest", "detect"}

LEMMA GrowsWhenSame ==
  ASSUME UNCHANGED <<doc, evidence, signal>>, companies > 0 => companies' > 0
  PROVE  Grows
BY DEF Grows

LEMMA ProvenanceGrows == ASSUME AllFounded, Grows PROVE Provenance'
<1>1. \A s \in Sources : Body[s] \in Contents
  BY ConstantsAssumption
<1>2. ASSUME NEW s \in Sources, evidence'[s] > 0
      PROVE  doc'[Body[s]] # NoSource /\ companies' > 0
  BY <1>1, <1>2 DEF Grows, AllFounded, Provenance
<1>3. ASSUME NEW c \in Contents, signal'[c] # "none"
      PROVE  \E s \in Sources : Body[s] = c /\ evidence'[s] > 0
  <2>1. Grounded(c)
    BY <1>3 DEF Grows, AllFounded, Provenance, Grounded
  <2>. QED
    BY <2>1 DEF Grounded, Grows
<1>. QED
  BY <1>2, <1>3 DEF Provenance

LEMMA FoundedSame ==
  ASSUME Typed, AllFounded, Grows, NEW q \in Procs, SamePlace(q)
  PROVE  Founded(q)'
<1>1. Founded(q) /\ Placed(q)
  BY DEF AllFounded, Typed, AllPlaced
<1>2. pc[q] \in Chain => page[q] \in Sources /\ Body[page[q]] \in Contents
  BY <1>1, ConstantsAssumption DEF Placed, Chain
<1>. QED
  BY <1>1, <1>2 DEF Founded, SamePlace, Grows, Chain

LEMMA FoundedStep ==
  ASSUME Typed, AllFounded, Grows, NEW p \in Procs, Founded(p)',
         \A q \in Procs \ {p} : SamePlace(q)
  PROVE  AllFounded'
BY ProvenanceGrows, FoundedSame DEF AllFounded

LEMMA FoundedUnchanged ==
  ASSUME Typed, AllFounded, Grows, UNCHANGED session
  PROVE  AllFounded'
<1>1. \A q \in Procs : SamePlace(q)
  BY DEF SamePlace, session
<1>. QED
  BY <1>1, ProvenanceGrows, FoundedSame DEF AllFounded

\* A process that ends up outside the chain relies on nothing.
LEMMA FoundedAway ==
  ASSUME Typed, AllFounded, Grows, NEW p \in Procs, NEW place \in Places \ Chain,
         pc' = [pc EXCEPT ![p] = place],
         \A q \in Procs \ {p} : page'[q] = page[q] /\ found'[q] = found[q]
  PROVE  AllFounded'
<1>1. pc'[p] = place /\ \A q \in Procs \ {p} : SamePlace(q)
  BY DEF Typed, SessionOK, SamePlace
<1>2. Founded(p)'
  BY <1>1 DEF Founded, Chain
<1>. QED
  BY <1>1, <1>2, FoundedStep

LEMMA FoundedEnd ==
  ASSUME Typed, AllFounded, Grows, NEW p \in Procs, EndSession(p)
  PROVE  AllFounded'
<1>1. pc' = [pc EXCEPT ![p] = "idle"] /\ "idle" \in Places \ Chain
  BY DEF EndSession, Places, Chain
<1>2. \A q \in Procs \ {p} : page'[q] = page[q] /\ found'[q] = found[q]
  BY DEF EndSession, Typed, SessionOK
<1>. QED
  BY <1>1, <1>2, FoundedAway

LEMMA FoundedLeave ==
  ASSUME Typed, AllFounded, Grows, NEW p \in Procs, Leave(p)
  PROVE  AllFounded'
<1>1. CASE held[p] = {cur[p]}
  BY <1>1, FoundedEnd DEF Leave
<1>2. CASE held[p] # {cur[p]}
  <2>1. pc' = [pc EXCEPT ![p] = "job"] /\ "job" \in Places \ Chain
    BY <1>2 DEF Leave, Places, Chain
  <2>2. \A q \in Procs \ {p} : page'[q] = page[q] /\ found'[q] = found[q]
    BY <1>2 DEF Leave, Typed, SessionOK
  <2>. QED
    BY <2>1, <2>2, FoundedAway
<1>. QED
  BY <1>1, <1>2

\* Back to the walk, or out of the session, once extraction or detection is done.
LEMMA FoundedContinue ==
  ASSUME Typed, AllFounded, Grows, NEW p \in Procs, Continue(p)
  PROVE  AllFounded'
<1>1. CASE p \in Workers
  <2>1. pc' = [pc EXCEPT ![p] = "walk"] /\ "walk" \in Places \ Chain
    BY <1>1 DEF Continue, Goto, Places, Walking, Chain
  <2>2. page' = [page EXCEPT ![p] = NoSource] /\ found' = [found EXCEPT ![p] = FALSE]
    BY <1>1 DEF Continue, Goto
  <2>3. \A q \in Procs \ {p} : page'[q] = page[q] /\ found'[q] = found[q]
    BY <2>2 DEF Typed, SessionOK
  <2>. QED
    BY <2>1, <2>3, FoundedAway
<1>2. CASE p \notin Workers
  BY <1>2, FoundedEnd DEF Continue
<1>. QED
  BY <1>1, <1>2

-----------------------------------------------------------------------------
(* The same, action by action. *)

LEMMA ClaimFounded ==
  ASSUME Typed, AllFounded, NEW p \in Procs, Claim(p) \/ \E j \in Jobs : StartJob(p, j)
  PROVE  AllFounded'
<1>1. Grows
  BY GrowsWhenSame DEF Claim, ClaimSelect, ClaimCommit, ClaimLoad, StartJob, world
<1>2. CASE EndSession(p)
  BY <1>1, <1>2, FoundedEnd
<1>3. CASE ~EndSession(p)
  <2>1. UNCHANGED <<page, found>>
    BY <1>3 DEF Claim, ClaimSelect, ClaimCommit, ClaimLoad, StartJob
  <2>2. PICK place \in {"claim", "load", "job", "walk"} : pc' = [pc EXCEPT ![p] = place]
    BY <1>3 DEF Claim, ClaimSelect, ClaimCommit, ClaimLoad, StartJob
  <2>3. place \in Places \ Chain
    BY DEF Places, Walking, Chain
  <2>. QED
    BY <1>1, <2>1, <2>2, <2>3, FoundedAway
<1>. QED
  BY <1>2, <1>3

\* Storing a body.
LEMMA StoreGrows ==
  ASSUME Typed, NEW s \in Sources, Store(s), UNCHANGED <<companies, evidence, signal>>
  PROVE  Grows /\ doc'[Body[s]] # NoSource
<1>1. Body[s] \in Contents /\ s # NoSource /\ doc \in [Contents -> Sources \cup {NoSource}]
  BY ConstantsAssumption DEF Typed, WorldOK
<1>2. doc' = [doc EXCEPT ![Body[s]] = IF @ = NoSource THEN s ELSE @]
  BY DEF Store
<1>3. doc'[Body[s]] = IF doc[Body[s]] = NoSource THEN s ELSE doc[Body[s]]
  BY <1>1, <1>2
<1>4. \A c \in Contents : c # Body[s] => doc'[c] = doc[c]
  BY <1>1, <1>2
<1>. QED
  BY <1>1, <1>3, <1>4 DEF Grows

LEMMA OutcomeGrows ==
  ASSUME Typed, NEW s \in Sources, NEW outcome, Outcome(s, outcome),
         UNCHANGED <<companies, evidence, signal>>
  PROVE  Grows /\ (outcome = "fetched" => doc'[Body[s]] # NoSource)
<1>1. CASE outcome = "fetched"
  BY <1>1, StoreGrows DEF Outcome
<1>2. CASE outcome # "fetched"
  BY <1>2, GrowsWhenSame DEF Outcome
<1>. QED
  BY <1>1, <1>2

LEMMA FetchFounded ==
  ASSUME Typed, AllFounded, NEW p \in Procs, NEW s \in Sources, NEW outcome,
         Fetch(p, s, outcome)
  PROVE  AllFounded'
<1>1. Grows /\ (outcome = "fetched" => doc'[Body[s]] # NoSource)
  BY OutcomeGrows DEF Fetch
<1>2. CASE outcome = "fetched"
  <2>1. /\ pc' = [pc EXCEPT ![p] = "extract"] /\ page' = [page EXCEPT ![p] = s]
        /\ found' = [found EXCEPT ![p] = FALSE]
    BY <1>2 DEF Fetch, Proceeds, Goto
  <2>2. pc'[p] = "extract" /\ page'[p] = s
    BY <2>1 DEF Typed, SessionOK
  <2>3. Founded(p)'
    BY <1>1, <1>2, <2>2 DEF Founded
  <2>4. \A q \in Procs \ {p} : SamePlace(q)
    BY <2>1 DEF SamePlace, Typed, SessionOK
  <2>. QED
    BY <1>1, <2>3, <2>4, FoundedStep
<1>3. CASE outcome # "fetched"
  <2>1. /\ pc' = [pc EXCEPT ![p] = "walk"] /\ page' = [page EXCEPT ![p] = NoSource]
        /\ found' = [found EXCEPT ![p] = FALSE] /\ "walk" \in Places \ Chain
    BY <1>3 DEF Fetch, Proceeds, Goto, Places, Walking, Chain
  <2>2. \A q \in Procs \ {p} : page'[q] = page[q] /\ found'[q] = found[q]
    BY <2>1 DEF Typed, SessionOK
  <2>. QED
    BY <1>1, <2>1, <2>2, FoundedAway
<1>. QED
  BY <1>2, <1>3

LEMMA FindCompanyFounded ==
  ASSUME Typed, AllFounded, NEW p \in Procs, FindCompany(p)
  PROVE  AllFounded'
<1>1. Grows
  BY GrowsWhenSame DEF FindCompany, world
<1>2. found \in [Procs -> BOOLEAN] /\ companies \in Nat
  BY DEF Typed, SessionOK, WorldOK
<1>3. /\ pc' = [pc EXCEPT ![p] = "ingest"] /\ page' = [page EXCEPT ![p] = page[p]]
      /\ found' = [found EXCEPT ![p] = (companies = 1)] /\ pc[p] = "extract"
      /\ UNCHANGED <<doc, companies>>
  BY DEF FindCompany, Goto, world
<1>4. pc'[p] = "ingest" /\ page'[p] = page[p]
  BY <1>3 DEF Typed, SessionOK
<1>5. found'[p] => companies' > 0
  <2>1. found'[p] <=> companies = 1
    BY <1>2, <1>3, Zenon
  <2>. QED
    BY <1>3, <2>1
<1>6. Founded(p)'
  BY <1>3, <1>4, <1>5 DEF Founded, AllFounded
<1>7. \A q \in Procs \ {p} : SamePlace(q)
  BY <1>3 DEF SamePlace, Typed, SessionOK
<1>. QED
  BY <1>1, <1>6, <1>7, FoundedStep

LEMMA IngestFounded ==
  ASSUME Typed, AllFounded, NEW p \in Procs, Ingest(p)
  PROVE  AllFounded'
<1>1. /\ pc[p] = "ingest" /\ UNCHANGED <<doc, signal>>
      /\ evidence' = [evidence EXCEPT ![page[p]] = @ + 1]
  BY DEF Ingest
<1>2. Founded(p) /\ page[p] \in Sources
  BY <1>1 DEF AllFounded, Typed, AllPlaced, Placed
<1>3. companies' > 0
  <2>1. companies \in Nat /\ (found[p] => companies > 0)
    BY <1>1, <1>2 DEF Founded, Typed, WorldOK
  <2>2. CASE found[p]
    BY <2>1, <2>2 DEF Ingest
  <2>3. CASE ~found[p]
    BY <2>1, <2>3 DEF Ingest
  <2>. QED
    BY <2>2, <2>3
<1>4. evidence \in [Sources -> Nat]
  BY DEF Typed, WorldOK
<1>5. evidence'[page[p]] > 0 /\ \A s \in Sources \ {page[p]} : evidence'[s] = evidence[s]
  BY <1>1, <1>2, <1>4
<1>6. Grows
  BY <1>1, <1>2, <1>3, <1>5 DEF Grows, Founded
<1>7. CASE p \in Workers
  <2>1. /\ pc' = [pc EXCEPT ![p] = "detect"] /\ page' = [page EXCEPT ![p] = page[p]]
        /\ found' = [found EXCEPT ![p] = FALSE]
    BY <1>7 DEF Ingest, Goto
  <2>2. pc'[p] = "detect" /\ page'[p] = page[p]
    BY <2>1 DEF Typed, SessionOK
  <2>3. Founded(p)'
    BY <1>5, <2>2 DEF Founded
  <2>4. \A q \in Procs \ {p} : SamePlace(q)
    BY <2>1 DEF SamePlace, Typed, SessionOK
  <2>. QED
    BY <1>6, <2>3, <2>4, FoundedStep
<1>8. CASE p \notin Workers
  BY <1>6, <1>8, FoundedEnd DEF Ingest
<1>. QED
  BY <1>7, <1>8

\* A signal is taken from evidence with the same body.
LEMMA SignalledGrows ==
  ASSUME Typed, NEW s \in Sources, evidence[s] > 0, Signalled(Body[s]),
         UNCHANGED <<doc, companies, evidence>>
  PROVE  Grows
<1>1. Grounded(Body[s])
  BY DEF Grounded
<1>2. \A c \in Contents : c # Body[s] => signal'[c] = signal[c]
  BY DEF Signalled, Typed, WorldOK
<1>. QED
  BY <1>1, <1>2 DEF Grows

LEMMA DetectFounded ==
  ASSUME Typed, AllFounded, NEW p \in Procs, Detect(p)
  PROVE  AllFounded'
<1>1. pc[p] = "detect" /\ UNCHANGED <<doc, companies, evidence>>
  BY DEF Detect
<1>2. page[p] \in Sources /\ evidence[page[p]] > 0
  BY <1>1 DEF AllFounded, Founded, Typed, AllPlaced, Placed
<1>3. CASE Reinserts(Body[page[p]])
  <2>1. Grows
    BY <1>1, <1>3, GrowsWhenSame DEF Detect
  <2>. QED
    BY <1>3, <2>1, FoundedEnd DEF Detect
<1>4. CASE ~Reinserts(Body[page[p]])
  <2>1. Grows
    BY <1>1, <1>2, <1>4, SignalledGrows DEF Detect
  <2>. QED
    BY <1>4, <2>1, FoundedContinue DEF Detect
<1>. QED
  BY <1>3, <1>4

\* Unsupported pages, finished and failed jobs, crashes.
LEMMA EndingFounded ==
  ASSUME Typed, AllFounded, NEW p \in Procs,
         Unsupported(p) \/ FinishJob(p) \/ Upset(p) \/ TwoCompanies(p) \/ Crash(p)
  PROVE  AllFounded'
<1>1. UNCHANGED <<doc, evidence, signal>>
  BY DEF Unsupported, FinishJob, Upset, TwoCompanies, Crash, world
<1>2. ASSUME MarkRetry(p) PROVE companies > 0 => companies' > 0
  <2>1. companies' = companies \/ companies' = companies + 1
    BY <1>2 DEF MarkRetry
  <2>. QED
    BY <2>1 DEF Typed, WorldOK
<1>3. companies > 0 => companies' > 0
  BY <1>2 DEF Unsupported, FinishJob, Upset, TwoCompanies, Crash, world
<1>4. Grows
  BY <1>1, <1>3, GrowsWhenSame
<1>5. Continue(p) \/ Leave(p) \/ EndSession(p)
  BY DEF Unsupported, FinishJob, Upset, TwoCompanies, Crash, MarkRetry
<1>. QED
  BY <1>4, <1>5, FoundedContinue, FoundedLeave, FoundedEnd

LEMMA ApiFounded ==
  ASSUME Typed, AllFounded, Api
  PROVE  AllFounded'
<1>1. ASSUME \/ \E j \in Jobs : CreateJob(j)
             \/ \E s \in Sources : AddSource(s)
      PROVE  AllFounded'
  <2>1. UNCHANGED <<doc, companies, evidence, signal>> /\ UNCHANGED session
    BY <1>1 DEF CreateJob, AddSource, world
  <2>. QED
    BY <2>1, GrowsWhenSame, FoundedUnchanged
<1>2. ASSUME NEW s \in Sources, ApiStore(s) PROVE AllFounded'
  BY <1>2, StoreGrows, FoundedUnchanged DEF ApiStore
<1>3. ASSUME NEW s \in Sources, NEW outcome, ApiFetch(s, outcome) PROVE AllFounded'
  BY <1>3, OutcomeGrows, FoundedUnchanged DEF ApiFetch
<1>4. ASSUME NEW s \in Sources, ApiDetect(s) PROVE AllFounded'
  BY <1>4, SignalledGrows, FoundedUnchanged DEF ApiDetect
<1>5. ASSUME NEW c \in Contents, DeleteSignal(c) PROVE AllFounded'
  <2>1. Grows
    BY <1>5 DEF DeleteSignal, Grows, Typed, WorldOK
  <2>. QED
    BY <1>5, <2>1, FoundedUnchanged DEF DeleteSignal
<1>6. ASSUME NEW p \in Sessions, NEW s \in Sources, ApiExtract(p, s) PROVE AllFounded'
  <2>1. p \in Procs /\ s # NoSource /\ doc[Body[s]] = s /\ UNCHANGED world
    BY <1>6, ConstantsAssumption DEF ApiExtract, Procs
  <2>2. /\ pc' = [pc EXCEPT ![p] = "extract"] /\ page' = [page EXCEPT ![p] = s]
        /\ found' = [found EXCEPT ![p] = FALSE]
    BY <1>6 DEF ApiExtract, Goto
  <2>3. Grows
    BY <2>1, GrowsWhenSame DEF world
  <2>4. pc'[p] = "extract" /\ page'[p] = s
    BY <2>1, <2>2 DEF Typed, SessionOK
  <2>5. Founded(p)'
    BY <2>1, <2>4 DEF Founded, world
  <2>6. \A q \in Procs \ {p} : SamePlace(q)
    BY <2>2 DEF SamePlace, Typed, SessionOK
  <2>. QED
    BY <2>1, <2>3, <2>5, <2>6, FoundedStep
<1>7. ASSUME NEW p \in Sessions, NEW j \in Jobs, NEW target, PatchRead(p, j, target)
      PROVE  AllFounded'
  <2>1. p \in Procs /\ UNCHANGED world /\ UNCHANGED <<page, found>>
        /\ pc' = [pc EXCEPT ![p] = "patch"] /\ "patch" \in Places \ Chain
    BY <1>7 DEF PatchRead, Procs, Places, Chain
  <2>2. Grows
    BY <2>1, GrowsWhenSame DEF world
  <2>. QED
    BY <2>1, <2>2, FoundedAway
<1>8. ASSUME NEW p \in Sessions, PatchWrite(p) PROVE AllFounded'
  <2>1. p \in Procs /\ UNCHANGED world /\ EndSession(p)
    BY <1>8 DEF PatchWrite, Procs
  <2>2. Grows
    BY <2>1, GrowsWhenSame DEF world
  <2>. QED
    BY <2>1, <2>2, FoundedEnd
<1>. QED
  BY <1>1, <1>2, <1>3, <1>4, <1>5, <1>6, <1>7, <1>8 DEF Api

LEMMA NextFounded ==
  ASSUME Typed, AllFounded, [Next]_vars
  PROVE  AllFounded'
<1>1. ASSUME NEW p \in Procs, Claim(p) \/ Work(p) \/ Upset(p) \/ Crash(p)
      PROVE  AllFounded'
  <2>1. ASSUME Work(p) PROVE AllFounded'
    BY <2>1, ClaimFounded, FetchFounded, FindCompanyFounded, IngestFounded, DetectFounded,
       EndingFounded
    DEF Work, Extract
  <2>. QED
    BY <1>1, <2>1, ClaimFounded, EndingFounded
<1>2. ASSUME (\E j \in Jobs : LeaseExpire(j) \/ BackoffElapse(j)) \/ UNCHANGED vars
      PROVE  AllFounded'
  <2>1. UNCHANGED world /\ UNCHANGED session
    BY <1>2 DEF LeaseExpire, BackoffElapse, vars
  <2>2. Grows
    BY <2>1, GrowsWhenSame DEF world
  <2>. QED
    BY <2>1, <2>2, FoundedUnchanged
<1>. QED
  BY <1>1, <1>2, ApiFounded DEF Next

\* No evidence without the raw document it was extracted from and a company to belong to,
\* and no signal without evidence, whatever fails or races along the chain (services/
\* extraction.py, services/signal_detection.py).
THEOREM ProvenanceHolds == Spec => []Provenance
<1>1. Init => AllFounded
  BY DEF Init, AllFounded, Provenance, Founded
<1>2. Typed /\ AllFounded /\ [Next]_vars => AllFounded'
  BY NextFounded
<1>3. AllFounded => Provenance
  BY DEF AllFounded
<1>. QED
  BY <1>1, <1>2, <1>3, WellPlaced, PTL DEF Spec

-----------------------------------------------------------------------------
(* No job fails early. *)

\* What a step does to the counters in the database, and to the copies of a process.
Tally ==
  \A j \in Jobs : /\ faults'[j] \in Nat /\ faults[j] <= faults'[j]
                  /\ job'[j].attempt <= faults'[j]
                  /\ job'[j].status = "failed"
                       => job[j].status = "failed" \/ faults'[j] >= MaxAttempts
Kept(q) ==
  /\ pc'[q] = "patch" => pc[q] = "patch" /\ cur'[q] = cur[q] /\ mem'[q] = mem[q]
  /\ pc'[q] \in {"job"} \cup Walking
       => \/ held'[q] = {}
          \/ /\ pc[q] \in {"job"} \cup Walking
             /\ held'[q] \subseteq held[q] /\ mem'[q] = mem[q]

LEMMA TallyWhenSame ==
  ASSUME AllCounted, WorldOK, UNCHANGED faults,
         \A j \in Jobs : /\ job'[j].attempt = job[j].attempt
                         /\ job'[j].status = "failed" => job[j].status = "failed"
  PROVE  Tally
BY DEF Tally, AllCounted, WorldOK

LEMMA TallySame ==
  ASSUME AllCounted, WorldOK, UNCHANGED <<job, faults>>
  PROVE  Tally
BY TallyWhenSame

LEMMA NoEarlyFailureKept == ASSUME Typed, AllCounted, Tally PROVE NoEarlyFailure'
<1>1. \A j \in Jobs : faults[j] \in Nat
  BY DEF Typed, WorldOK
<1>2. ASSUME NEW j \in Jobs, job'[j].status = "failed" PROVE faults'[j] >= MaxAttempts
  <2>1. CASE job[j].status = "failed"
    <3>1. faults[j] >= MaxAttempts /\ faults[j] <= faults'[j]
      BY <2>1 DEF AllCounted, NoEarlyFailure, Tally
    <3>. QED
      BY <1>1, <3>1, ConstantsAssumption DEF Tally
  <2>. QED
    BY <1>2, <2>1 DEF Tally
<1>. QED
  BY <1>2 DEF NoEarlyFailure

LEMMA CountedKept ==
  ASSUME Typed, AllCounted, Tally, NEW q \in Procs, Kept(q)
  PROVE  Counted(q)'
<1>1. Counted(q) /\ Placed(q) /\ held[q] \subseteq Jobs
  BY DEF AllCounted, Typed, SessionOK, AllPlaced
<1>2. ASSUME pc'[q] \in {"job"} \cup Walking, NEW j \in held'[q]
      PROVE  mem'[q][j].attempt <= faults'[j]
  <2>1. /\ pc[q] \in {"job"} \cup Walking /\ j \in held[q] /\ j \in Jobs
        /\ mem'[q] = mem[q]
    BY <1>1, <1>2 DEF Kept
  <2>2. mem[q][j].attempt <= faults[j] /\ mem[q][j] \in JobRow
    BY <1>1, <2>1 DEF Counted, Placed
  <2>3. mem[q][j].attempt \in Nat /\ faults[j] \in Nat
    BY <2>1, <2>2 DEF JobRow, Typed, WorldOK
  <2>. QED
    BY <2>1, <2>2, <2>3 DEF Tally
<1>3. pc'[q] = "patch" => mem'[q][cur'[q]].status # "failed"
  BY <1>1 DEF Counted, Kept
<1>. QED
  BY <1>2, <1>3 DEF Counted

LEMMA CountedStep ==
  ASSUME Typed, AllCounted, Tally, NEW p \in Procs, Counted(p)',
         \A q \in Procs \ {p} : Kept(q)
  PROVE  AllCounted'
BY CountedKept, NoEarlyFailureKept DEF AllCounted, Tally

LEMMA CountedAll ==
  ASSUME Typed, AllCounted, Tally, \A q \in Procs : Kept(q)
  PROVE  AllCounted'
BY CountedKept, NoEarlyFailureKept DEF AllCounted, Tally

LEMMA KeptUnchanged == ASSUME UNCHANGED session PROVE \A q \in Procs : Kept(q)
BY DEF Kept, session

LEMMA KeptEnd ==
  ASSUME Typed, NEW p \in Procs, EndSession(p)
  PROVE  \A q \in Procs : Kept(q)
<1>1. pc'[p] = "idle"
  BY DEF EndSession, Typed, SessionOK
<1>2. Kept(p)
  BY <1>1 DEF Kept, Walking
<1>3. \A q \in Procs \ {p} : Kept(q)
  BY DEF Kept, EndSession, Typed, SessionOK
<1>. QED
  BY <1>2, <1>3

LEMMA KeptMove ==
  ASSUME Typed, NEW p \in Procs, NEW place \in Walking, pc' = [pc EXCEPT ![p] = place],
         UNCHANGED <<held, cur, mem>>, pc[p] \in {"job"} \cup Walking \/ held[p] = {}
  PROVE  \A q \in Procs : Kept(q)
<1>1. pc'[p] = place /\ place # "patch"
  BY DEF Typed, SessionOK, Walking
<1>2. Kept(p)
  BY <1>1 DEF Kept
<1>3. \A q \in Procs \ {p} : Kept(q)
  BY DEF Kept, Typed, SessionOK
<1>. QED
  BY <1>2, <1>3

LEMMA KeptLeave ==
  ASSUME Typed, NEW p \in Procs, pc[p] \in Walking, Leave(p)
  PROVE  \A q \in Procs : Kept(q)
<1>1. CASE held[p] = {cur[p]}
  BY <1>1, KeptEnd DEF Leave
<1>2. CASE held[p] # {cur[p]}
  <2>1. /\ pc' = [pc EXCEPT ![p] = "job"] /\ held' = [held EXCEPT ![p] = @ \ {cur[p]}]
        /\ cur' = [cur EXCEPT ![p] = NoJob] /\ UNCHANGED mem
    BY <1>2 DEF Leave
  <2>2. pc'[p] = "job" /\ held'[p] \subseteq held[p]
    BY <2>1 DEF Typed, SessionOK
  <2>3. Kept(p)
    BY <2>1, <2>2 DEF Kept
  <2>4. \A q \in Procs \ {p} : Kept(q)
    BY <2>1 DEF Kept, Typed, SessionOK
  <2>. QED
    BY <2>3, <2>4
<1>. QED
  BY <1>1, <1>2

LEMMA KeptContinue ==
  ASSUME Typed, NEW p \in Procs, pc[p] \in Walking, Continue(p)
  PROVE  \A q \in Procs : Kept(q)
<1>1. CASE p \in Workers
  <2>1. pc' = [pc EXCEPT ![p] = "walk"] /\ UNCHANGED <<held, cur, mem>> /\ "walk" \in Walking
    BY <1>1 DEF Continue, Goto, Walking
  <2>. QED
    BY <2>1, KeptMove
<1>2. CASE p \notin Workers
  BY <1>2, KeptEnd DEF Continue
<1>. QED
  BY <1>1, <1>2

-----------------------------------------------------------------------------
(* The same, action by action. *)

LEMMA ClaimCounted ==
  ASSUME Typed, AllCounted, NEW p \in Procs, Claim(p)
  PROVE  AllCounted'
<1>1. CASE ClaimSelect(p)
  <2>1. /\ pc' = [pc EXCEPT ![p] = "claim"] /\ UNCHANGED <<held, cur, mem>>
        /\ UNCHANGED <<job, faults>>
    BY <1>1 DEF ClaimSelect
  <2>2. \A q \in Procs : Kept(q)
    BY <2>1 DEF Kept, Typed, SessionOK, Walking
  <2>. QED
    BY <2>1, <2>2, TallySame, CountedAll DEF Typed
<1>2. CASE ClaimCommit(p)
  <2>1. \A j \in Jobs : job'[j] = IF j \in Won(p) THEN Taken(job[j]) ELSE job[j]
    BY <1>2 DEF ClaimCommit
  <2>2. Tally
    <3>1. ASSUME NEW j \in Jobs
          PROVE  /\ job'[j].attempt = job[j].attempt
                 /\ job'[j].status = "failed" => job[j].status = "failed"
      <4>1. job[j] \in JobRow
        BY DEF Typed, WorldOK
      <4>2. Taken(job[j]).attempt = job[j].attempt /\ Taken(job[j]).status = "running"
        BY <4>1 DEF Taken, JobRow
      <4>. QED
        BY <2>1, <4>2
    <3>2. UNCHANGED faults
      BY <1>2 DEF ClaimCommit
    <3>. QED
      BY <3>1, <3>2, TallyWhenSame DEF Typed
  <2>3. CASE Won(p) = {}
    BY <1>2, <2>2, <2>3, KeptEnd, CountedAll DEF ClaimCommit
  <2>4. CASE Won(p) # {}
    <3>1. pc' = [pc EXCEPT ![p] = "load"] /\ held' = [held EXCEPT ![p] = Won(p)]
          /\ UNCHANGED <<cur, mem>>
      BY <1>2, <2>4 DEF ClaimCommit
    <3>2. \A q \in Procs : Kept(q)
      BY <3>1 DEF Kept, Typed, SessionOK, Walking
    <3>. QED
      BY <2>2, <3>2, CountedAll
  <2>. QED
    BY <2>3, <2>4
<1>3. CASE ClaimLoad(p)
  <2>1. /\ pc' = [pc EXCEPT ![p] = "job"] /\ mem' = Loaded(p, held[p])
        /\ UNCHANGED <<held, cur>> /\ UNCHANGED <<job, faults>>
    BY <1>3 DEF ClaimLoad
  <2>2. Tally
    BY <2>1, TallySame DEF Typed
  <2>3. pc'[p] = "job" /\ held[p] \subseteq Jobs
    BY <2>1 DEF Typed, SessionOK
  <2>4. \A j \in held[p] : mem'[p][j] = job[j]
    BY <2>1, <2>3 DEF Loaded, Typed, SessionOK
  <2>5. Counted(p)'
    BY <2>1, <2>3, <2>4 DEF Counted, AllCounted
  <2>6. \A q \in Procs \ {p} : Kept(q)
    BY <2>1 DEF Kept, Loaded, Typed, SessionOK
  <2>. QED
    BY <2>2, <2>5, <2>6, CountedStep
<1>. QED
  BY <1>1, <1>2, <1>3 DEF Claim

LEMMA StartJobCounted ==
  ASSUME Typed, AllCounted, NEW p \in Procs, NEW j \in Jobs, StartJob(p, j)
  PROVE  AllCounted'
<1>1. /\ pc' = [pc EXCEPT ![p] = "walk"] /\ cur' = [cur EXCEPT ![p] = j]
      /\ UNCHANGED <<held, mem>> /\ UNCHANGED <<job, faults>> /\ pc[p] = "job"
  BY DEF StartJob
<1>2. pc'[p] = "walk" /\ "walk" \in Walking
  BY <1>1 DEF Typed, SessionOK, Walking
<1>3. Kept(p)
  BY <1>1, <1>2 DEF Kept
<1>4. \A q \in Procs \ {p} : Kept(q)
  BY <1>1 DEF Kept, Typed, SessionOK
<1>5. Tally
  BY <1>1, TallySame DEF Typed
<1>. QED
  BY <1>3, <1>4, <1>5, CountedAll

\* The steps of a walk that write neither jobs nor faults.
LEMMA WalkCounted ==
  ASSUME Typed, AllCounted, NEW p \in Procs,
         \/ Unsupported(p) \/ FindCompany(p) \/ Ingest(p) \/ Detect(p) \/ Crash(p)
         \/ \E s \in Sources, outcome \in {"fetched", "rejected", "failed"} :
              Fetch(p, s, outcome)
  PROVE  AllCounted'
<1>1. Tally
  <2>1. UNCHANGED <<job, faults>>
    BY DEF Unsupported, FindCompany, Ingest, Detect, Crash, Fetch
  <2>. QED
    BY <2>1, TallySame DEF Typed
<1>2. ASSUME EndSession(p) PROVE AllCounted'
  BY <1>1, <1>2, KeptEnd, CountedAll
<1>3. ASSUME pc[p] \in Walking, Continue(p) PROVE AllCounted'
  BY <1>1, <1>3, KeptContinue, CountedAll
<1>4. ASSUME pc[p] \in Walking, NEW place \in Walking, pc' = [pc EXCEPT ![p] = place],
             UNCHANGED <<held, cur, mem>>
      PROVE  AllCounted'
  BY <1>1, <1>4, KeptMove, CountedAll
<1>5. CASE Unsupported(p) \/ Detect(p)
  <2>1. pc[p] \in Walking
    BY <1>5 DEF Unsupported, Detect, Walking
  <2>. QED
    BY <1>2, <1>3, <1>5, <2>1 DEF Unsupported, Detect
<1>6. CASE FindCompany(p)
  <2>1. /\ pc[p] \in Walking /\ "ingest" \in Walking /\ pc' = [pc EXCEPT ![p] = "ingest"]
        /\ UNCHANGED <<held, cur, mem>>
    BY <1>6 DEF FindCompany, Goto, Walking
  <2>. QED
    BY <1>4, <2>1
<1>7. CASE Ingest(p)
  <2>1. CASE p \in Workers
    <3>1. /\ pc[p] \in Walking /\ "detect" \in Walking /\ pc' = [pc EXCEPT ![p] = "detect"]
          /\ UNCHANGED <<held, cur, mem>>
      BY <1>7, <2>1 DEF Ingest, Goto, Walking
    <3>. QED
      BY <1>4, <3>1
  <2>2. CASE p \notin Workers
    BY <1>2, <1>7, <2>2 DEF Ingest
  <2>. QED
    BY <2>1, <2>2
<1>8. ASSUME NEW s, NEW outcome, Fetch(p, s, outcome) PROVE AllCounted'
  <2>1. PICK place \in {"extract", "walk"} : /\ pc' = [pc EXCEPT ![p] = place]
                                             /\ UNCHANGED <<held, cur, mem>>
    BY <1>8 DEF Fetch, Goto
  <2>2. pc[p] \in Walking /\ place \in Walking
    BY <1>8 DEF Fetch, Walking
  <2>. QED
    BY <1>4, <2>1, <2>2
<1>9. CASE Crash(p)
  BY <1>2, <1>9 DEF Crash
<1>. QED
  BY <1>5, <1>6, <1>7, <1>8, <1>9

LEMMA FinishJobCounted ==
  ASSUME Typed, AllCounted, NEW p \in Procs, FinishJob(p)
  PROVE  AllCounted'
<1>1. pc[p] = "walk" /\ UNCHANGED faults /\ Placed(p) /\ pc[p] \in Walking
  BY DEF FinishJob, Typed, AllPlaced, Walking
<1>2. p \in Workers /\ cur[p] \in Jobs /\ mem[p][cur[p]] \in JobRow
  BY <1>1 DEF Placed, Typed, SessionOK
<1>3. PICK j \in Jobs : j = cur[p]
  BY <1>2
<1>4. CASE "fetched" \in Transitions(mem[p][j].status)
  <2>1. PICK new : new = [mem[p][j] EXCEPT !.status = "done", !.lease = "none"]
    OBVIOUS
  <2>2. new.status = "done" /\ new.attempt = mem[p][j].attempt
    BY <1>2, <1>3, <2>1 DEF JobRow
  <2>3. Leave(p) /\ job' = [job EXCEPT ![j] = OrmFlush(@, mem[p][j], new)]
    BY <1>3, <1>4, <2>1 DEF FinishJob
  <2>4. job'[j] = OrmFlush(job[j], mem[p][j], new) /\ \A k \in Jobs \ {j} : job'[k] = job[k]
    BY <2>3 DEF Typed, WorldOK
  <2>5. job'[j].attempt = job[j].attempt /\ (job'[j].status = "failed" => job[j].status = "failed")
    BY <2>2, <2>4 DEF OrmFlush, Column
  <2>6. Tally
    BY <1>1, <2>4, <2>5, TallyWhenSame DEF Typed
  <2>. QED
    BY <1>1, <2>3, <2>6, KeptLeave, CountedAll
<1>5. CASE "fetched" \notin Transitions(mem[p][j].status)
  <2>1. EndSession(p) /\ UNCHANGED job
    BY <1>3, <1>5 DEF FinishJob
  <2>2. Tally
    BY <1>1, <2>1, TallySame DEF Typed
  <2>. QED
    BY <2>1, <2>2, KeptEnd, CountedAll
<1>. QED
  BY <1>4, <1>5

LEMMA MarkRetryCounted ==
  ASSUME Typed, AllCounted, NEW p \in Workers, pc[p] \in Walking, MarkRetry(p)
  PROVE  AllCounted'
<1>1. p \in Procs /\ Placed(p) /\ Counted(p)
  BY DEF Procs, Typed, AllPlaced, AllCounted
<1>2. PICK j \in Jobs : j = cur[p] /\ j \in held[p]
  BY <1>1 DEF Placed, Typed, SessionOK
<1>3. mem[p][j] \in JobRow /\ mem[p][j].attempt <= faults[j]
  BY <1>1, <1>2 DEF Placed, Counted
<1>4. PICK n, st : /\ n = mem[p][j].attempt + 1
                   /\ st = IF Spent(n) THEN "failed" ELSE "queued"
  OBVIOUS
<1>5. PICK new : new = [mem[p][j] EXCEPT !.status = st, !.lease = "none", !.attempt = n]
  OBVIOUS
<1>6. new.status = st /\ new.attempt = n
  BY <1>3, <1>5 DEF JobRow
<1>7. job' = [job EXCEPT ![j] = OrmFlush(@, mem[p][j], new)]
  BY <1>2, <1>4, <1>5 DEF MarkRetry
<1>8. /\ job'[j] = OrmFlush(job[j], mem[p][j], new) /\ \A k \in Jobs \ {j} : job'[k] = job[k]
      /\ faults'[j] = faults[j] + 1 /\ \A k \in Jobs \ {j} : faults'[k] = faults[k]
  BY <1>2, <1>7 DEF MarkRetry, Typed, WorldOK
<1>9. faults[j] \in Nat /\ mem[p][j].attempt \in Nat /\ job[j].attempt \in Nat
      /\ job[j].attempt <= faults[j]
  BY <1>3 DEF Typed, WorldOK, JobRow, AllCounted
<1>10. job'[j].attempt <= faults'[j]
  <2>1. job'[j].attempt \in {job[j].attempt, n}
    BY <1>6, <1>8 DEF OrmFlush, Column
  <2>. QED
    BY <1>3, <1>4, <1>8, <1>9, <2>1
<1>11. job'[j].status = "failed" => job[j].status = "failed" \/ faults'[j] >= MaxAttempts
  <2>1. job'[j].status \in {job[j].status, st}
    BY <1>6, <1>8 DEF OrmFlush, Column
  <2>2. st = "failed" => n >= MaxAttempts
    BY <1>4 DEF Spent
  <2>3. n >= MaxAttempts => faults'[j] >= MaxAttempts
    BY <1>3, <1>4, <1>8, <1>9, ConstantsAssumption
  <2>. QED
    BY <2>1, <2>2, <2>3
<1>12. Tally
  <2>1. \A k \in Jobs : faults[k] \in Nat /\ job[k].attempt \in Nat /\ job[k].attempt <= faults[k]
    BY DEF Typed, WorldOK, JobRow, AllCounted
  <2>. QED
    BY <1>8, <1>10, <1>11, <2>1 DEF Tally
<1>. QED
  BY <1>1, <1>12, KeptLeave, CountedAll DEF MarkRetry

LEMMA FaultCounted ==
  ASSUME Typed, AllCounted, NEW p \in Procs, Upset(p) \/ TwoCompanies(p)
  PROVE  AllCounted'
<1>1. pc[p] \in Walking
  BY DEF Upset, TwoCompanies, Walking
<1>2. CASE p \in Workers /\ MarkRetry(p)
  BY <1>1, <1>2, MarkRetryCounted
<1>3. CASE EndSession(p) /\ UNCHANGED <<job, faults>>
  <2>1. Tally
    BY <1>3, TallySame DEF Typed
  <2>. QED
    BY <1>3, <2>1, KeptEnd, CountedAll
<1>. QED
  BY <1>2, <1>3 DEF Upset, TwoCompanies

LEMMA ApiCounted ==
  ASSUME Typed, AllCounted, "failed" \notin Targets, Api
  PROVE  AllCounted'
<1>0. \A p \in Sessions : p \in Procs
  BY DEF Procs
<1>1. ASSUME NEW j \in Jobs, CreateJob(j) PROVE AllCounted'
  <2>1. /\ UNCHANGED faults /\ UNCHANGED session
        /\ job' = [job EXCEPT ![j] = [job[j] EXCEPT !.status = "draft"]]
    BY <1>1 DEF CreateJob
  <2>2. ASSUME NEW k \in Jobs
        PROVE  /\ job'[k].attempt = job[k].attempt
               /\ job'[k].status = "failed" => job[k].status = "failed"
    BY <2>1 DEF Typed, WorldOK, JobRow
  <2>3. Tally
    BY <2>1, <2>2, TallyWhenSame DEF Typed
  <2>. QED
    BY <2>1, <2>3, KeptUnchanged, CountedAll
<1>2. ASSUME \/ \E s \in Sources : AddSource(s) \/ ApiStore(s) \/ ApiDetect(s)
             \/ \E s \in Sources, outcome \in {"fetched", "rejected", "failed"} :
                  ApiFetch(s, outcome)
             \/ \E c \in Contents : DeleteSignal(c)
      PROVE  AllCounted'
  <2>1. UNCHANGED <<job, faults>> /\ UNCHANGED session
    BY <1>2 DEF AddSource, ApiStore, ApiDetect, ApiFetch, DeleteSignal
  <2>2. Tally
    BY <2>1, TallySame DEF Typed
  <2>. QED
    BY <2>1, <2>2, KeptUnchanged, CountedAll
<1>3. ASSUME NEW p \in Sessions, NEW s \in Sources, ApiExtract(p, s) PROVE AllCounted'
  <2>1. /\ pc' = [pc EXCEPT ![p] = "extract"] /\ UNCHANGED <<held, cur, mem>>
        /\ UNCHANGED <<job, faults>> /\ pc[p] = "idle"
    BY <1>3 DEF ApiExtract, Goto
  <2>2. held[p] = {} /\ "extract" \in Walking
    BY <1>0, <2>1 DEF Typed, AllPlaced, Placed, Walking
  <2>3. Tally
    BY <2>1, TallySame DEF Typed
  <2>. QED
    BY <1>0, <2>1, <2>2, <2>3, KeptMove, CountedAll
<1>4. ASSUME NEW p \in Sessions, NEW j \in Jobs, NEW target, PatchRead(p, j, target)
      PROVE  AllCounted'
  <2>1. /\ target # "failed" /\ pc' = [pc EXCEPT ![p] = "patch"]
        /\ cur' = [cur EXCEPT ![p] = j] /\ UNCHANGED held /\ UNCHANGED <<job, faults>>
        /\ mem' = [mem EXCEPT ![p][j] = [job[j] EXCEPT !.status = target]]
    BY <1>4 DEF PatchRead
  <2>2. pc'[p] = "patch" /\ cur'[p] = j
    BY <1>0, <2>1 DEF Typed, SessionOK
  <2>3. mem'[p][j].status = target
    <3>1. PICK x : x = [job[j] EXCEPT !.status = target]
      OBVIOUS
    <3>2. x.status = target
      BY <3>1 DEF Typed, WorldOK, JobRow
    <3>3. mem'[p] = [mem[p] EXCEPT ![j] = x] /\ mem[p] \in [Jobs -> JobRow \cup {NoCopy}]
      BY <1>0, <2>1, <3>1 DEF Typed, SessionOK
    <3>. QED
      BY <3>2, <3>3
  <2>4. Counted(p)'
    BY <2>1, <2>2, <2>3 DEF Counted, Walking
  <2>5. \A q \in Procs \ {p} : Kept(q)
    BY <2>1 DEF Kept, Typed, SessionOK
  <2>6. Tally
    BY <2>1, TallySame DEF Typed
  <2>. QED
    BY <1>0, <2>4, <2>5, <2>6, CountedStep
<1>5. ASSUME NEW p \in Sessions, PatchWrite(p) PROVE AllCounted'
  <2>1. /\ pc[p] = "patch" /\ EndSession(p) /\ UNCHANGED faults
        /\ job' = [job EXCEPT ![cur[p]] = [job[cur[p]] EXCEPT !.status = mem[p][cur[p]].status]]
    BY <1>5 DEF PatchWrite
  <2>2. PICK j \in Jobs : j = cur[p]
    BY <1>0, <2>1 DEF Typed, AllPlaced, Placed
  <2>3. mem[p][j].status # "failed"
    BY <1>0, <2>1, <2>2 DEF AllCounted, Counted
  <2>4. PICK st : st = mem[p][j].status
    OBVIOUS
  <2>5. job' = [job EXCEPT ![j] = [job[j] EXCEPT !.status = st]]
    BY <2>1, <2>2, <2>4
  <2>6. ASSUME NEW k \in Jobs
        PROVE  /\ job'[k].attempt = job[k].attempt
               /\ job'[k].status = "failed" => job[k].status = "failed"
    BY <2>3, <2>4, <2>5 DEF Typed, WorldOK, JobRow
  <2>7. Tally
    BY <2>1, <2>6, TallyWhenSame DEF Typed
  <2>. QED
    BY <1>0, <2>1, <2>7, KeptEnd, CountedAll
<1>. QED
  BY <1>1, <1>2, <1>3, <1>4, <1>5 DEF Api

LEMMA ClockCounted ==
  ASSUME Typed, AllCounted, NEW j \in Jobs, LeaseExpire(j) \/ BackoffElapse(j)
  PROVE  AllCounted'
<1>1. UNCHANGED faults /\ UNCHANGED session
  BY DEF LeaseExpire, BackoffElapse
<1>2. \/ job' = [job EXCEPT ![j] = [job[j] EXCEPT !.lease = "expired"]]
      \/ job' = [job EXCEPT ![j] = [job[j] EXCEPT !.gate = "open"]]
  BY DEF LeaseExpire, BackoffElapse
<1>3. ASSUME NEW k \in Jobs
      PROVE  job'[k].attempt = job[k].attempt /\ job'[k].status = job[k].status
  BY <1>2 DEF Typed, WorldOK, JobRow
<1>4. Tally
  BY <1>1, <1>3, TallyWhenSame DEF Typed
<1>. QED
  BY <1>1, <1>4, KeptUnchanged, CountedAll

LEMMA NextCounted ==
  ASSUME Typed, AllCounted, "failed" \notin Targets, [Next]_vars
  PROVE  AllCounted'
<1>1. ASSUME NEW p \in Procs, Work(p) PROVE AllCounted'
  BY <1>1, StartJobCounted, WalkCounted, FinishJobCounted, FaultCounted DEF Work, Extract
<1>2. ASSUME UNCHANGED vars PROVE AllCounted'
  <2>1. UNCHANGED <<job, faults>> /\ UNCHANGED session
    BY <1>2 DEF vars
  <2>2. Tally
    BY <2>1, TallySame DEF Typed
  <2>. QED
    BY <2>1, <2>2, KeptUnchanged, CountedAll
<1>. QED
  BY <1>1, <1>2, ClaimCounted, WalkCounted, FaultCounted, ApiCounted, ClockCounted DEF Next

\* Whichever copy of attempt_count a worker writes back, and however often a job is claimed
\* again, it is given up only after worker_max_attempts faults of its own, unless it is set
\* to failed by hand (PATCH /discovery/jobs).
THEOREM FailureWasEarned ==
  ASSUME "failed" \notin Targets
  PROVE  Spec => []NoEarlyFailure
<1>1. Init => AllCounted
  <2>1. ASSUME Init, NEW j \in Jobs
        PROVE  job[j].status # "failed" /\ job[j].attempt = 0 /\ faults[j] = 0
    BY <2>1 DEF Init, NewJob
  <2>2. ASSUME Init, NEW p \in Procs PROVE Counted(p)
    BY <2>2 DEF Init, Counted, Walking
  <2>. QED
    BY <2>1, <2>2 DEF AllCounted, NoEarlyFailure
<1>2. Typed /\ AllCounted /\ [Next]_vars => AllCounted'
  BY NextCounted
<1>3. AllCounted => NoEarlyFailure
  BY DEF AllCounted
<1>. QED
  BY <1>1, <1>2, <1>3, WellPlaced, PTL DEF Spec
-----------------------------------------------------------------------------
(* Cancellation. *)

\* A job nobody holds, walks or patches, and that is cancelled.
Rests(j) == job[j].status = "cancelled" /\ \A p \in Procs : j \notin held[p] /\ cur[p] # j

\* A claim wins only candidates that were queued or running when selected, and still are.
LEMMA WonIsNotCancelled ==
  ASSUME SessionOK, NEW p \in Procs, NEW j \in Won(p)
  PROVE  job[j].status # "cancelled"
<1>1. PICK c \in cands[p] : c.id = j /\ job[j].status = c.status
  BY DEF Won
<1>2. c.status \in {"queued", "running"}
  BY DEF SessionOK
<1>. QED
  BY <1>1, <1>2

\* What ends a job's walk, or writes a patch, is about the process's current job.
LEMMA WritesItsOwn ==
  ASSUME Typed, NEW p \in Procs, NEW j \in Jobs, cur[p] # j,
         FinishJob(p) \/ MarkRetry(p) \/ PatchWrite(p)
  PROVE  job'[j] = job[j]
<1>. job \in [Jobs -> JobRow]
  BY DEF Typed, WorldOK
<1>1. CASE FinishJob(p)
  BY <1>1 DEF FinishJob
<1>2. CASE MarkRetry(p)
  BY <1>2 DEF MarkRetry
<1>3. CASE PatchWrite(p)
  BY <1>3 DEF PatchWrite
<1>. QED
  BY <1>1, <1>2, <1>3

LEMMA CancelledStays ==
  ASSUME Typed, NEW j \in Jobs, Rests(j), [Next]_vars
  PROVE  job'[j].status = "cancelled"
<1>. job \in [Jobs -> JobRow] /\ job[j].status = "cancelled"
  BY DEF Typed, WorldOK, Rests
<1>0. SUFFICES ASSUME job' # job PROVE job'[j].status = "cancelled"
  OBVIOUS
<1>1. ASSUME NEW p \in Procs, Claim(p) \/ Work(p) \/ Upset(p) \/ Crash(p)
      PROVE  job'[j].status = "cancelled"
  <2>1. cur[p] # j
    BY DEF Rests
  <2>2. CASE Claim(p)
    <3>1. ClaimCommit(p)
      BY <1>0, <2>2 DEF Claim, ClaimSelect, ClaimLoad
    <3>2. j \notin Won(p)
      BY WonIsNotCancelled DEF Typed
    <3>. QED
      BY <3>1, <3>2 DEF ClaimCommit
  <2>3. CASE Work(p)
    <3>1. FinishJob(p) \/ TwoCompanies(p)
      BY <1>0, <2>3
      DEF Work, Extract, StartJob, Fetch, Unsupported, FindCompany, Ingest, Detect
    <3>2. FinishJob(p) \/ MarkRetry(p)
      BY <1>0, <3>1 DEF TwoCompanies
    <3>. QED
      BY <2>1, <3>2, WritesItsOwn
  <2>4. CASE Upset(p)
    BY <2>1, <2>4, WritesItsOwn DEF Upset
  <2>5. CASE Crash(p)
    BY <1>0, <2>5 DEF Crash
  <2>. QED
    BY <1>1, <2>2, <2>3, <2>4, <2>5
<1>2. CASE Api
  <2>1. (\E i \in Jobs : CreateJob(i)) \/ (\E p \in Sessions : PatchWrite(p))
    BY <1>0, <1>2 DEF Api, AddSource, ApiStore, ApiDetect, ApiFetch, PatchRead, ApiExtract, DeleteSignal
  <2>2. ASSUME NEW i \in Jobs, CreateJob(i) PROVE job'[j].status = "cancelled"
    BY <2>2 DEF CreateJob
  <2>3. ASSUME NEW p \in Sessions, PatchWrite(p) PROVE job'[j].status = "cancelled"
    BY <2>3, WritesItsOwn DEF Procs, Rests
  <2>. QED
    BY <2>1, <2>2, <2>3
<1>3. ASSUME NEW i \in Jobs, LeaseExpire(i) \/ BackoffElapse(i)
      PROVE  job'[j].status = "cancelled"
  <2>1. i # j
    BY <1>3 DEF LeaseExpire, BackoffElapse
  <2>. QED
    BY <1>3, <2>1 DEF LeaseExpire, BackoffElapse
<1>4. CASE UNCHANGED vars
  BY <1>0, <1>4 DEF vars
<1>. QED
  BY <1>1, <1>2, <1>3, <1>4 DEF Next

\* A cancelled job that nobody is working on stays cancelled, whatever a claim selected before
\* the cancellation (claim_jobs re-checks the status) and whoever else crashes, retries or
\* patches another job.
THEOREM CancellationHolds == Spec => CancelHolds
<1>1. Typed /\ [Next]_vars
        => [\A j \in Jobs :
              job[j].status = "cancelled" /\ (\A p \in Procs : j \notin held[p] /\ cur[p] # j)
                => job'[j].status = "cancelled"]_vars
  BY CancelledStays DEF Rests
<1>. QED
  BY <1>1, WellPlaced, PTL DEF Spec, CancelHolds
=============================================================================
