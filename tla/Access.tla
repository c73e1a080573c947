-------------------------------- MODULE Access --------------------------------
(***************************************************************************)
(* The way in: the rate limiter of core/limits.py in front of the routes   *)
(* of api/v1/auth.py that create tenants and users.                        *)
(*                                                                         *)
(* The counter of a client is one key of Redis.  INCR and EXPIRE are two   *)
(* round trips: either may fail, applied or not, and the process may die   *)
(* between them.  A registration is one transaction of PostgreSQL: its     *)
(* rows are drafts, which only it sees, until it commits; inserting what   *)
(* another draft already holds waits for that one's end.                   *)
(***************************************************************************)
EXTENDS Naturals, FiniteSets

CONSTANTS
  Clients,       \* hosts; the limiter knows a caller by nothing else
  Limit,         \* settings.rate_limit_burst
  Slugs, Names, Emails,
  Registrations, \* calls of POST /auth/register: slug, name and email
  Joins,         \* calls of POST /auth/users: slug of the tenant, email, role
  Callers,       \* sessions of the API
  MaxCalls,      \* bound: calls
  MaxOutages,    \* bound: failures of Redis, deaths of a handler
  Nobody         \* model value: no session, no row

Author == Callers \cup {Nobody}
TenantRow == [name : Names, by : Author]
Roles == {"owner"} \cup {j.role : j \in Joins}
UserRow == [slug : Slugs, role : Roles, by : Author]

ASSUME AccessConstants ==
  /\ Limit \in Nat \ {0} /\ MaxCalls \in Nat /\ MaxOutages \in Nat /\ IsFiniteSet(Callers)
  /\ Registrations \subseteq [slug : Slugs, name : Names, email : Emails]
  /\ Joins \subseteq [slug : Slugs, email : Emails, role : STRING]
  /\ Nobody \notin Slugs \cup Emails \cup Callers \cup Clients \cup Registrations \cup Joins
  /\ Nobody \notin TenantRow /\ Nobody \notin UserRow

VARIABLES
  count, ttl,    \* the key of each client: its number and whether it will expire
  leaked,        \* history: the clients whose key was left without an expiry by a failure
  window,        \* history: how many windows of each client are over
  served,        \* history: calls admitted by the count, by client and window
  tenant, user,  \* rows by their unique column, with the session whose draft they are
  place,         \* where each session is
  client, got, counted, form,   \* its client, its count and in which window, its input
  calls, outages

keys == <<count, ttl, leaked, window>>
rows == <<tenant, user>>
caller == <<client, got, counted, form>>
accessVars == <<keys, served, rows, place, caller, calls, outages>>

-----------------------------------------------------------------------------

At(a, p) == place' = [place EXCEPT ![a] = p]

Leave(a) ==
  /\ At(a, "idle")
  /\ client' = [client EXCEPT ![a] = Nobody]
  /\ got' = [got EXCEPT ![a] = 0]
  /\ counted' = [counted EXCEPT ![a] = 0]
  /\ form' = [form EXCEPT ![a] = Nobody]

Call(a, p) == place[a] = "idle" /\ calls < MaxCalls /\ calls' = calls + 1 /\ At(a, p)

Fault == outages < MaxOutages /\ outages' = outages + 1

\* A failure left the key of k with this count and no expiry.
Leaks(k, n) == leaked' = IF n = 1 THEN leaked \cup {k} ELSE leaked

-----------------------------------------------------------------------------
(* The limiter: RateLimiter.__call__. *)

LimitedCall(a, k) ==
  /\ Call(a, "count")
  /\ client' = [client EXCEPT ![a] = k]
  /\ UNCHANGED <<keys, served, rows, got, counted, form, outages>>

\* Mutant: the last call of the window starts the clock.
StartsClockLate(n) == n = Limit + 1

StartsClock(n) == n = 1

Count(a) ==
  LET k == client[a]
      n == count[k] + 1
  IN  /\ place[a] = "count"
      /\ count' = [count EXCEPT ![k] = n]
      /\ got' = [got EXCEPT ![a] = n]
      /\ counted' = [counted EXCEPT ![a] = window[k]]
      /\ At(a, IF StartsClock(n) THEN "expire" ELSE "judge")
      /\ UNCHANGED <<ttl, leaked, window, served, rows, client, form, calls, outages>>

\* Redis fails, having counted or not: the call is let through.
CountFails(a) ==
  LET k == client[a]
  IN  /\ place[a] = "count" /\ Fault
      /\ \/ UNCHANGED keys
         \/ /\ count' = [count EXCEPT ![k] = @ + 1]
            /\ Leaks(k, count[k] + 1)
            /\ UNCHANGED <<ttl, window>>
      /\ At(a, "admitted")
      /\ UNCHANGED <<served, rows, caller, calls>>

SetExpiry(a) ==
  /\ place[a] = "expire"
  /\ ttl' = [ttl EXCEPT ![client[a]] = TRUE]
  /\ At(a, "judge")
  /\ UNCHANGED <<count, leaked, window, served, rows, caller, calls, outages>>

ExpiryFails(a) ==
  LET k == client[a]
  IN  /\ place[a] = "expire" /\ Fault
      /\ \/ ttl' = [ttl EXCEPT ![k] = TRUE] /\ UNCHANGED leaked
         \/ Leaks(k, 1) /\ UNCHANGED ttl
      /\ At(a, "admitted")
      /\ UNCHANGED <<count, window, served, rows, caller, calls>>

\* Mutant: one call more.
ExceedsByOne(n) == n > Limit + 1

Exceeds(n) == n > Limit

Judge(a) ==
  /\ place[a] = "judge"
  /\ IF Exceeds(got[a])
     THEN Leave(a) /\ UNCHANGED served
     ELSE /\ At(a, "admitted")
          /\ served' = [served EXCEPT ![client[a]][counted[a]] = @ + 1]
          /\ UNCHANGED caller
  /\ UNCHANGED <<keys, rows, calls, outages>>

\* The key expires.
WindowEnds(k) ==
  /\ ttl[k]
  /\ count' = [count EXCEPT ![k] = 0]
  /\ ttl' = [ttl EXCEPT ![k] = FALSE]
  /\ window' = [window EXCEPT ![k] = @ + 1]
  /\ UNCHANGED <<leaked, served, rows, place, caller, calls, outages>>

-----------------------------------------------------------------------------
(* Tenants and users: register, create_user_in_tenant. *)

Final(row) == row # Nobody /\ row.by = Nobody

\* An admitted login or refresh changes nothing.
LogIn(a) == place[a] = "admitted" /\ Leave(a) /\ UNCHANGED <<keys, served, rows, calls, outages>>

\* register looks the slug up, then the email.
Register(a, r) ==
  /\ place[a] = "admitted" /\ ~Final(tenant[r.slug])
  /\ form' = [form EXCEPT ![a] = r]
  /\ At(a, "email")
  /\ UNCHANGED <<keys, served, rows, client, got, counted, calls, outages>>

\* create_user_in_tenant asks the limiter nothing; it looks the tenant up, then the email.
Join(a, j) ==
  /\ Final(tenant[j.slug])
  /\ Call(a, "email")
  /\ form' = [form EXCEPT ![a] = j]
  /\ UNCHANGED <<keys, served, rows, client, got, counted, outages>>

Joining(a) == form[a] \in Joins

CheckEmail(a) ==
  /\ place[a] = "email"
  /\ IF Final(user[form[a].email])
     THEN Leave(a)
     ELSE At(a, IF Joining(a) THEN "user" ELSE "tenant") /\ UNCHANGED caller
  /\ UNCHANGED <<keys, served, rows, calls, outages>>

\* Mutant: the tenant is committed with its own insert.
OwnTransaction(a) == Nobody

Draft(a) == a

\* The tenant and its default workspace; slug and name are unique.
AddTenant(a) ==
  LET s == form[a].slug
      n == form[a].name
      Taken(t) == tenant[t] # Nobody /\ (t = s \/ tenant[t].name = n)
  IN  /\ place[a] = "tenant" /\ \A t \in Slugs : ~Taken(t)
      /\ tenant' = [tenant EXCEPT ![s] = [name |-> n, by |-> Draft(a)]]
      /\ At(a, "user")
      /\ UNCHANGED <<keys, served, user, caller, calls, outages>>

\* The user and its membership; the email is unique.
AddUser(a) ==
  LET f == form[a]
  IN  /\ place[a] = "user" /\ user[f.email] = Nobody
      /\ user' = [user EXCEPT ![f.email] =
                    [slug |-> f.slug, role |-> IF Joining(a) THEN f.role ELSE "owner", by |-> a]]
      /\ At(a, "commit")
      /\ UNCHANGED <<keys, served, tenant, caller, calls, outages>>

Settle(a, row) == IF row # Nobody /\ row.by = a THEN [row EXCEPT !.by = Nobody] ELSE row
Discard(a, row) == IF row # Nobody /\ row.by = a THEN Nobody ELSE row

Commit(a) ==
  /\ place[a] = "commit"
  /\ tenant' = [s \in Slugs |-> Settle(a, tenant[s])]
  /\ user' = [e \in Emails |-> Settle(a, user[e])]
  /\ Leave(a)
  /\ UNCHANGED <<keys, served, calls, outages>>

Rollback(a) ==
  /\ tenant' = [s \in Slugs |-> Discard(a, tenant[s])]
  /\ user' = [e \in Emails |-> Discard(a, user[e])]
  /\ Leave(a)

\* The unique index refuses a slug, a name or an email committed since it was looked up.
Conflict(a) ==
  /\ \/ /\ place[a] = "tenant"
        /\ \E t \in Slugs : Final(tenant[t]) /\ (t = form[a].slug \/ tenant[t].name = form[a].name)
     \/ place[a] = "user" /\ Final(user[form[a].email])
  /\ Rollback(a)
  /\ UNCHANGED <<keys, served, calls, outages>>

\* The process dies: between INCR and EXPIRE, the key stays for good.
HandlerDies(a) ==
  /\ place[a] # "idle" /\ Fault
  /\ Rollback(a)
  /\ leaked' = IF place[a] = "expire" THEN leaked \cup {client[a]} ELSE leaked
  /\ UNCHANGED <<count, ttl, window, served, calls>>

-----------------------------------------------------------------------------

AccessInit ==
  /\ count = [k \in Clients |-> 0] /\ ttl = [k \in Clients |-> FALSE]
  /\ leaked = {} /\ window = [k \in Clients |-> 0]
  /\ served = [k \in Clients |-> [w \in 0..MaxCalls |-> 0]]
  /\ tenant = [s \in Slugs |-> Nobody] /\ user = [e \in Emails |-> Nobody]
  /\ place = [a \in Callers |-> "idle"] /\ client = [a \in Callers |-> Nobody]
  /\ got = [a \in Callers |-> 0] /\ counted = [a \in Callers |-> 0]
  /\ form = [a \in Callers |-> Nobody]
  /\ calls = 0 /\ outages = 0

LimiterStep(a) == Count(a) \/ CountFails(a) \/ SetExpiry(a) \/ ExpiryFails(a) \/ Judge(a)
RouteStep(a) == LogIn(a) \/ CheckEmail(a) \/ AddTenant(a) \/ AddUser(a) \/ Commit(a) \/ Conflict(a)

AccessNext ==
  \/ \E k \in Clients : WindowEnds(k)
  \/ \E a \in Callers :
       \/ \E k \in Clients : LimitedCall(a, k)
       \/ LimiterStep(a)
       \/ \E r \in Registrations : Register(a, r)
       \/ \E j \in Joins : Join(a, j)
       \/ RouteStep(a)
       \/ HandlerDies(a)

AccessSpec == AccessInit /\ [][AccessNext]_accessVars

-----------------------------------------------------------------------------
(* Properties. *)

CallPlaces == {"idle", "count", "expire", "judge", "admitted", "email", "tenant", "user", "commit"}

\* The shape of the state, and what each session holds at the place it is at.
AccessTypeOK ==
  /\ count \in [Clients -> Nat] /\ ttl \in [Clients -> BOOLEAN] /\ leaked \subseteq Clients
  /\ window \in [Clients -> Nat] /\ served \in [Clients -> [0..MaxCalls -> Nat]]
  /\ \A s \in Slugs : tenant[s] = Nobody \/ tenant[s] \in TenantRow
  /\ \A e \in Emails : user[e] = Nobody \/ user[e] \in UserRow
  /\ place \in [Callers -> CallPlaces]
  /\ got \in [Callers -> Nat] /\ counted \in [Callers -> Nat]
  /\ calls \in 0..MaxCalls /\ outages \in 0..MaxOutages
  /\ \A a \in Callers :
       /\ place[a] \in {"count", "expire", "judge"} => client[a] \in Clients
       /\ place[a] \in {"email", "user", "commit"} => form[a] \in Registrations \cup Joins
       /\ place[a] = "tenant" => form[a] \in Registrations

\* However calls interleave with each other, with the end of a window and with failures, no
\* window admits more than Limit calls by its count (INCR is what makes it so: the reply
\* is used after any number of other calls, even in the next window).
WindowLimit == \A k \in Clients, w \in 0..MaxCalls : served[k][w] <= Limit

\* A counter that has no expiry is about to get one, or a failure or a death between INCR
\* and EXPIRE has left it so (limits.py: if current == 1).
CountersExpire ==
  \A k \in Clients : count[k] > 0 /\ ~ttl[k] =>
    k \in leaked \/ \E a \in Callers : place[a] = "expire" /\ client[a] = k

\* A tenant that is there has an owner, a user belongs to a tenant, and no name is taken
\* twice: registrations commit whole or not at all, whichever of slug, name and email they
\* fight over, and whenever they die (register, create_user_in_tenant, get_db).
TenantsAreWhole ==
  /\ \A s \in Slugs : Final(tenant[s]) =>
       \E e \in Emails : Final(user[e]) /\ user[e].slug = s /\ user[e].role = "owner"
  /\ \A e \in Emails : Final(user[e]) => Final(tenant[user[e].slug])
  /\ \A s, t \in Slugs : s # t /\ tenant[s] # Nobody /\ tenant[t] # Nobody =>
       tenant[s].name # tenant[t].name
=============================================================================
