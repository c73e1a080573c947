--------------------------- MODULE DeliveryProofs ---------------------------
(***************************************************************************)
(* What the abstract promise is worth, for every set of requests and every *)
(* maximum of attempts.                                                    *)
(***************************************************************************)
EXTENDS Delivery, TLAPS

TypeOK ==
  /\ state \in [Requests -> {"waiting", "working", "done", "dead"}]
  /\ outcome \in [Requests -> {"none", "ok", "error"}]
  /\ attempts \in [Requests -> Nat]
  /\ delivered \in [Requests -> Nat]
  /\ failures \in [Requests -> Nat]

\* What each state of one request says about its calls.
Consistent(r) ==
  /\ state[r] # "working" => outcome[r] = "none"
  /\ delivered[r] = (IF state[r] = "done" \/ outcome[r] = "ok" THEN 1 ELSE 0)
  /\ failures[r] = (IF outcome[r] = "error" THEN attempts[r] + 1 ELSE attempts[r])
  /\ state[r] \in {"waiting", "working"} => attempts[r] < MaxAttempts
  /\ state[r] = "dead" => attempts[r] = MaxAttempts

IInv == TypeOK /\ \A r \in Requests : Consistent(r)

\* Without loss a request is delivered exactly once if it is done, never otherwise, and
\* dies after exactly MaxAttempts errors: what process_request and _mark_retry are for.
THEOREM DeliveredExactlyOnce ==
  ASSUME MaxAttempts \in Nat \ {0}, Lossy = FALSE
  PROVE  Spec => []ExactlyOnce
<1>1. Init => IInv
  BY DEF Init, IInv, TypeOK, Consistent
<1>2. IInv /\ [Next]_vars => IInv'
  <2> SUFFICES ASSUME IInv, [Next]_vars PROVE IInv'
    OBVIOUS
  <2>1. ASSUME NEW S \in SUBSET Requests, Start(S) PROVE IInv'
    BY <2>1 DEF Start, IInv, TypeOK, Consistent
  <2>2. ASSUME NEW r \in Requests, Deliver(r) PROVE IInv'
    BY <2>2 DEF Deliver, IInv, TypeOK, Consistent
  <2>3. ASSUME NEW r \in Requests, Fail(r) PROVE IInv'
    BY <2>3 DEF Fail, IInv, TypeOK, Consistent
  <2>4. ASSUME NEW r \in Requests, Settle(r) PROVE IInv'
    <3>1. CASE outcome[r] = "ok"
      BY <2>4, <3>1 DEF Settle, IInv, TypeOK, Consistent
    <3>2. CASE outcome[r] = "error"
      BY <2>4, <3>2 DEF Settle, IInv, TypeOK, Consistent
    <3> QED BY <2>4, <3>1, <3>2 DEF Settle
  <2>5. ASSUME NEW r \in Requests, Forget(r) PROVE IInv'
    BY <2>5 DEF Forget
  <2>6. CASE UNCHANGED vars
    BY <2>6 DEF vars, IInv, TypeOK, Consistent
  <2> QED BY <2>1, <2>2, <2>3, <2>4, <2>5, <2>6 DEF Next
<1>3. IInv => ExactlyOnce
  BY DEF IInv, TypeOK, Consistent, ExactlyOnce
<1> QED BY <1>1, <1>2, <1>3, PTL DEF Spec
=============================================================================
