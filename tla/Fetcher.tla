------------------------------- MODULE Fetcher -------------------------------
(***************************************************************************)
(* How the page of a source is fetched and stored: secure_fetch            *)
(* (services/secure_fetcher.py) with its loop over redirects, and          *)
(* fetch_source and store_raw_document (services/discovery.py) around it.  *)
(*                                                                         *)
(* Names are resolved anew on every hop and answers may differ each time;  *)
(* the connection is made to an address of the hop's answer.  Several      *)
(* fetches, of one source even, run at once, each in a session that keeps  *)
(* the source as it loaded it and writes the columns that differ.          *)
(***************************************************************************)
EXTENDS Naturals, Sequences, Functions, FiniteSets

CONSTANTS
  Sources,
  Urls,
  UrlOf,         \* the URL of each source
  Malformed,     \* URLs that validate_url_syntax refuses
  Addresses,
  Unsafe,        \* addresses that classify_ip has a reason against
  Answers,       \* what a resolver may answer: sequences of addresses
  Bodies,
  MaxRedirects,  \* settings.discovery_fetch_max_redirects
  TotalTimeout,  \* settings.discovery_fetch_total_timeout
  HopTime,       \* bound: what a hop takes at most
  Fetchers,      \* sessions of the API or of a worker that may fetch or store at once
  MaxFetches,    \* bound: fetches and documents entered by hand
  Nothing        \* model value: no row, no session, NULL

\* DISCOVERY_SOURCE_STATUSES names two more, which nothing ever writes.
SourceStatuses == {"pending", "fetched", "rejected", "failed"}
SourceRow == [status : SourceStatuses, hash : Bodies \cup {Nothing}]

ASSUME FetcherConstants ==
  /\ UrlOf \in [Sources -> Urls] /\ Malformed \subseteq Urls /\ Unsafe \subseteq Addresses
  /\ Answers \subseteq Seq(Addresses) /\ <<>> \notin Answers
  /\ MaxRedirects \in Nat /\ TotalTimeout \in Nat /\ HopTime \in Nat /\ MaxFetches \in Nat
  /\ Nothing \notin Sources \cup Bodies \cup Urls \cup SourceRow

VARIABLES
  source,      \* status and content_hash of each source
  document,    \* the source each body is stored under; bodies are unique per tenant
  fat,         \* where each session is
  target,      \* its source
  loaded,      \* the source as it loaded it, or Nothing when it only stores a document
  url, hop, elapsed,   \* the loop of secure_fetch
  answer,      \* the addresses of this hop
  body,        \* what it is about to store
  connections, \* history: each connection of each session's fetch, with what it knew
  fetches

fetcherRows == <<source, document>>
loop == <<url, hop, elapsed, answer, connections>>
fetcherVars == <<fetcherRows, fat, target, loaded, loop, body, fetches>>

-----------------------------------------------------------------------------

Goto(h, place) == fat' = [fat EXCEPT ![h] = place]

StartFetch(h, s) ==
  /\ fat[h] = "idle" /\ fetches < MaxFetches
  /\ fetches' = fetches + 1
  /\ Goto(h, "hop")
  /\ target' = [target EXCEPT ![h] = s]
  /\ loaded' = [loaded EXCEPT ![h] = source[s]]
  /\ url' = [url EXCEPT ![h] = UrlOf[s]]
  /\ UNCHANGED <<fetcherRows, hop, elapsed, answer, body, connections>>

\* POST /discovery/raw: a body somebody has, stored without a fetch.
StoreByHand(h, s, b) ==
  /\ fat[h] = "idle" /\ fetches < MaxFetches
  /\ fetches' = fetches + 1
  /\ Goto(h, "store")
  /\ target' = [target EXCEPT ![h] = s]
  /\ body' = [body EXCEPT ![h] = b]
  /\ UNCHANGED <<fetcherRows, loaded, loop>>

\* The session is closed.
Close(h) ==
  /\ Goto(h, "idle")
  /\ target' = [target EXCEPT ![h] = Nothing]
  /\ loaded' = [loaded EXCEPT ![h] = Nothing]
  /\ url' = [url EXCEPT ![h] = Nothing]
  /\ hop' = [hop EXCEPT ![h] = 0]
  /\ elapsed' = [elapsed EXCEPT ![h] = 0]
  /\ answer' = [answer EXCEPT ![h] = <<>>]
  /\ body' = [body EXCEPT ![h] = Nothing]
  /\ connections' = [connections EXCEPT ![h] = {}]
  /\ UNCHANGED fetches

Differs(old, new, now) == IF new = old THEN now ELSE new

\* A SecureFetchError: rejected if something about the target was refused, else failed.
MarkSource(h, status) ==
  /\ source' = [source EXCEPT ![target[h]].status = Differs(loaded[h].status, status, @)]
  /\ Close(h)
  /\ UNCHANGED document

\* An error that is no SecureFetchError (the transport's, the database's), or the end of
\* the process: what was not committed is rolled back.
Abandon(h) ==
  /\ fat[h] # "idle"
  /\ Close(h)
  /\ UNCHANGED fetcherRows

-----------------------------------------------------------------------------
(* A hop. *)

\* Time is kept up to the first moment that is too late.
Later(h, t) == [elapsed EXCEPT ![h] = IF @ + t > TotalTimeout THEN TotalTimeout + 1 ELSE @ + t]

\* Mutant: the unsafe addresses of an answer are only skipped.
SafeOnes(ips) == {i \in DOMAIN ips : ips[i] \notin Unsafe}
SelectAnySafe(ips) == IF SafeOnes(ips) = {} THEN {} ELSE {ips[CHOOSE i \in SafeOnes(ips) : TRUE]}

\* _select_safe_ip: the first, if all are safe.
SelectSafeIp(ips) == IF Range(ips) \cap Unsafe = {} THEN {ips[1]} ELSE {}

\* The time is looked at here and nowhere else.
RefuseHop(h) ==
  /\ fat[h] = "hop"
  /\ \/ elapsed[h] > TotalTimeout /\ MarkSource(h, "failed")
     \/ elapsed[h] <= TotalTimeout /\ url[h] \in Malformed /\ MarkSource(h, "rejected")

Resolve(h) ==
  /\ fat[h] = "hop" /\ elapsed[h] <= TotalTimeout /\ url[h] \notin Malformed
  /\ \/ MarkSource(h, "failed")
     \/ \E ips \in Answers, t \in 0..HopTime :
          IF SelectSafeIp(ips) = {}
          THEN MarkSource(h, "rejected")
          ELSE /\ Goto(h, "connect")
               /\ answer' = [answer EXCEPT ![h] = ips]
               /\ elapsed' = Later(h, t)
               /\ UNCHANGED <<fetcherRows, target, loaded, url, hop, body, connections, fetches>>

\* Mutant: one redirect more.
FollowsOneMore(h) == hop[h] <= MaxRedirects

Follows(h) == hop[h] < MaxRedirects

\* The exchange on one connection, and what the loop makes of the response: too large, a
\* redirect without a location or one too many, a type that is not allowed, a redirect
\* that is followed, or a page.
Exchange(h) ==
  /\ fat[h] = "connect"
  /\ \/ MarkSource(h, "failed")
     \/ MarkSource(h, "rejected")
     \/ \E ip \in SelectSafeIp(answer[h]), t \in 0..HopTime :
          /\ connections' = [connections EXCEPT ![h] = @ \cup
                {[hop |-> hop[h], url |-> url[h], ip |-> ip, answer |-> answer[h]]}]
          /\ elapsed' = Later(h, t)
          /\ \/ \E u \in Urls : /\ Follows(h)
                                /\ Goto(h, "hop")
                                /\ url' = [url EXCEPT ![h] = u]
                                /\ hop' = [hop EXCEPT ![h] = @ + 1]
                                /\ answer' = [answer EXCEPT ![h] = <<>>]
                                /\ UNCHANGED body
             \/ \E b \in Bodies : /\ Goto(h, "store")
                                  /\ body' = [body EXCEPT ![h] = b]
                                  /\ UNCHANGED <<url, hop, answer>>
          /\ UNCHANGED <<fetcherRows, target, loaded, fetches>>

-----------------------------------------------------------------------------
(* Storing. *)

\* Mutant: the lookup finds the body whether it is there or not.
StoredAlways(b) == TRUE

Stored(b) == document[b] # Nothing

MarkFetched(h) ==
  source' = IF loaded[h] = Nothing THEN source
            ELSE [source EXCEPT ![target[h]] =
                    [status |-> Differs(loaded[h].status, "fetched", @.status),
                     hash |-> Differs(loaded[h].hash, body[h], @.hash)]]

\* store_raw_document finds the body, and the source is marked in the same transaction.
Reuse(h) ==
  /\ fat[h] = "store" /\ Stored(body[h])
  /\ MarkFetched(h)
  /\ Close(h)
  /\ UNCHANGED document

Miss(h) ==
  /\ fat[h] = "store" /\ ~Stored(body[h])
  /\ Goto(h, "insert")
  /\ UNCHANGED <<fetcherRows, target, loaded, loop, body, fetches>>

\* The unique index refuses what another session has stored since the lookup: IntegrityError,
\* a case of Abandon.
Insert(h) ==
  /\ fat[h] = "insert" /\ document[body[h]] = Nothing
  /\ document' = [document EXCEPT ![body[h]] = target[h]]
  /\ MarkFetched(h)
  /\ Close(h)

-----------------------------------------------------------------------------

FetcherInit ==
  /\ source = [s \in Sources |-> [status |-> "pending", hash |-> Nothing]]
  /\ document = [b \in Bodies |-> Nothing]
  /\ fat = [h \in Fetchers |-> "idle"]
  /\ target = [h \in Fetchers |-> Nothing]
  /\ loaded = [h \in Fetchers |-> Nothing]
  /\ url = [h \in Fetchers |-> Nothing]
  /\ hop = [h \in Fetchers |-> 0]
  /\ elapsed = [h \in Fetchers |-> 0]
  /\ answer = [h \in Fetchers |-> <<>>]
  /\ body = [h \in Fetchers |-> Nothing]
  /\ connections = [h \in Fetchers |-> {}]
  /\ fetches = 0

FetcherStep(h) == RefuseHop(h) \/ Resolve(h) \/ Exchange(h) \/ Reuse(h) \/ Miss(h) \/ Insert(h)

FetcherNext ==
  \E h \in Fetchers :
    \/ \E s \in Sources : StartFetch(h, s) \/ \E b \in Bodies : StoreByHand(h, s, b)
    \/ FetcherStep(h)
    \/ Abandon(h)

FetcherSpec == FetcherInit /\ [][FetcherNext]_fetcherVars

-----------------------------------------------------------------------------
(* Properties. *)

Places == {"idle", "hop", "connect", "store", "insert"}

\* The shape of the state, and what each session holds at the place it is at.
FetcherTypeOK ==
  /\ source \in [Sources -> SourceRow]
  /\ document \in [Bodies -> Sources \cup {Nothing}]
  /\ fat \in [Fetchers -> Places]
  /\ elapsed \in [Fetchers -> 0..TotalTimeout + 1]
  /\ hop \in [Fetchers -> 0..MaxRedirects]
  /\ fetches \in Nat
  /\ \A h \in Fetchers :
       /\ target[h] \in (IF fat[h] = "idle" THEN {Nothing} ELSE Sources)
       /\ loaded[h] \in SourceRow \cup {Nothing}
       /\ fat[h] \in {"hop", "connect"} => loaded[h] # Nothing /\ url[h] \in Urls
       /\ fat[h] = "connect" => answer[h] \in Answers
       /\ fat[h] \in {"store", "insert"} => body[h] \in Bodies

\* Whatever a name resolves to from hop to hop, a connection goes to an address of the
\* answer of that very hop, no address of the answer is unsafe, and the URL it is made for
\* has passed the syntax check, redirected or not (_select_safe_ip, secure_fetch).
ConnectsToVetted ==
  \A h \in Fetchers : \A c \in connections[h] :
    /\ c.ip \in Range(c.answer) /\ Range(c.answer) \cap Unsafe = {}
    /\ c.url \notin Malformed

\* A chain of redirects, circular or not, makes one connection per hop and one more than
\* the redirects allowed at most (secure_fetch: for hop in range(max_redirects + 1)).
WithinBudget ==
  \A h \in Fetchers :
    /\ Cardinality(connections[h]) <= MaxRedirects + 1
    /\ \A c \in connections[h] : c.hop <= hop[h]
    /\ \A c, d \in connections[h] : c.hop = d.hop => c = d
    /\ fat[h] = "connect" => \A c \in connections[h] : c.hop < hop[h]

\* A source that is marked fetched has the hash of a document that is stored, however many
\* fetches of one source overlap, succeed, fail and write through stale copies
\* (fetch_source, store_raw_document).
FetchedHasDocument ==
  \A s \in Sources : source[s].status = "fetched" =>
    source[s].hash # Nothing /\ document[source[s].hash] # Nothing
=============================================================================
