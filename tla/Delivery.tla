------------------------------ MODULE Delivery ------------------------------
(***************************************************************************)
(* What the outbox engine promises about one queue of requests, with no    *)
(* workers, sessions, rows or leases: a request waits, is worked on, one   *)
(* provider call is made for it, and its outcome settles the request or    *)
(* sends it back to wait.  If Lossy, the outcome of a call may be          *)
(* forgotten, and the call made again: delivery is then at least once.     *)
(***************************************************************************)
EXTENDS Naturals

CONSTANTS Requests, MaxAttempts, Lossy

VARIABLES
  state,      \* "waiting", "working", "done" or "dead"
  outcome,    \* of the last call for a request being worked on: "none", "ok" or "error"
  attempts,   \* calls known to have ended in an error
  delivered,  \* calls that ended well
  failures    \* calls that ended in an error

vars == <<state, outcome, attempts, delivered, failures>>

Init ==
  /\ state = [r \in Requests |-> "waiting"]
  /\ outcome = [r \in Requests |-> "none"]
  /\ attempts = [r \in Requests |-> 0]
  /\ delivered = [r \in Requests |-> 0]
  /\ failures = [r \in Requests |-> 0]

\* A batch of waiting requests is taken up.
Start(S) ==
  /\ S # {} /\ \A r \in S : state[r] = "waiting"
  /\ state' = [r \in Requests |-> IF r \in S THEN "working" ELSE state[r]]
  /\ UNCHANGED <<outcome, attempts, delivered, failures>>

Deliver(r) ==
  /\ state[r] = "working" /\ outcome[r] = "none"
  /\ outcome' = [outcome EXCEPT ![r] = "ok"]
  /\ delivered' = [delivered EXCEPT ![r] = @ + 1]
  /\ UNCHANGED <<state, attempts, failures>>

Fail(r) ==
  /\ state[r] = "working" /\ outcome[r] = "none"
  /\ outcome' = [outcome EXCEPT ![r] = "error"]
  /\ failures' = [failures EXCEPT ![r] = @ + 1]
  /\ UNCHANGED <<state, attempts, delivered>>

\* The outcome is recorded.
Settle(r) ==
  /\ state[r] = "working" /\ outcome[r] # "none"
  /\ outcome' = [outcome EXCEPT ![r] = "none"]
  /\ \/ /\ outcome[r] = "ok"
        /\ state' = [state EXCEPT ![r] = "done"]
        /\ UNCHANGED attempts
     \/ /\ outcome[r] = "error"
        /\ attempts' = [attempts EXCEPT ![r] = @ + 1]
        /\ state' = [state EXCEPT ![r] = IF attempts[r] + 1 < MaxAttempts
                                         THEN "waiting" ELSE "dead"]
  /\ UNCHANGED <<delivered, failures>>

\* The worker died before recording it.
Forget(r) ==
  /\ Lossy /\ state[r] = "working" /\ outcome[r] # "none"
  /\ outcome' = [outcome EXCEPT ![r] = "none"]
  /\ UNCHANGED <<state, attempts, delivered, failures>>

Next ==
  \/ \E S \in SUBSET Requests : Start(S)
  \/ \E r \in Requests : Deliver(r) \/ Fail(r) \/ Settle(r) \/ Forget(r)

Spec == Init /\ [][Next]_vars

-----------------------------------------------------------------------------
\* What the promise is worth: without loss every request is delivered at most once, is
\* done exactly when it was delivered, and dies only after MaxAttempts errors.
ExactlyOnce ==
  ~Lossy => \A r \in Requests :
              /\ delivered[r] = (IF state[r] = "done" \/ outcome[r] = "ok" THEN 1 ELSE 0)
              /\ state[r] = "dead" => failures[r] = MaxAttempts
=============================================================================
