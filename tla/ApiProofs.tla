------------------------------- MODULE ApiProofs -------------------------------
(***************************************************************************)
(* Machine-checked proofs about the four parts of Api: any sources, URLs   *)
(* and answers, any clients and forms, any rows, pages and contacts, any   *)
(* number of sessions of each, and any bounds.                             *)
(***************************************************************************)
EXTENDS Api, FiniteSetTheorems, TLAPS

-----------------------------------------------------------------------------
(* Fetching. *)

ConnectionRow == [hop : 0..MaxRedirects, url : Urls, ip : Addresses, answer : Answers]

\* The functions of the state, with their ranges.
FetcherShape ==
  /\ target \in [Fetchers -> Sources \cup {Nothing}]
  /\ loaded \in [Fetchers -> SourceRow \cup {Nothing}]
  /\ url \in [Fetchers -> Urls \cup {Nothing}]
  /\ answer \in [Fetchers -> Answers \cup {<<>>}]
  /\ body \in [Fetchers -> Bodies \cup {Nothing}]
  /\ connections \in [Fetchers -> SUBSET ConnectionRow]

FetcherInv == FetcherTypeOK /\ FetcherShape

\* Where a session is about to connect, its URL has passed the syntax check and its answer
\* has been vetted; so had those of the connections it has made.
Vetted(h) ==
  /\ fat[h] = "connect" => url[h] \notin Malformed /\ Range(answer[h]) \cap Unsafe = {}
  /\ \A c \in connections[h] : /\ c.ip \in Range(c.answer) /\ Range(c.answer) \cap Unsafe = {}
                               /\ c.url \notin Malformed

\* A session has made one connection for each hop that is over, and none when it is idle.
Counted(h) ==
  LET made == connections[h]
      over == IF fat[h] \in {"store", "insert"} THEN hop[h] + 1 ELSE hop[h]
  IN  /\ fat[h] = "idle" => hop[h] = 0 /\ made = {}
      /\ IsFiniteSet(made) /\ Cardinality(made) <= over
      /\ \A c \in made : c.hop < over
      /\ \A c, d \in made : c.hop = d.hop => c = d

\* A hash, once a source has one, is of a stored document and is never taken away, so that
\* the copy of a session cannot know a hash where the source has none.
HashesStay ==
  /\ \A s \in Sources : source[s].hash # Nothing => document[source[s].hash] # Nothing
  /\ \A s \in Sources : source[s].status = "fetched" => source[s].hash # Nothing
  /\ \A h \in Fetchers : loaded[h] # Nothing =>
       /\ target[h] \in Sources
       /\ loaded[h].hash # Nothing => source[target[h]].hash # Nothing

-----------------------------------------------------------------------------
(* Types. *)

LEMMA FetcherInitType == FetcherInit => FetcherInv
BY FetcherConstants DEF FetcherInit, FetcherInv, FetcherTypeOK, FetcherShape, SourceRow, SourceStatuses, Places

\* Closing a session leaves the rest of the state well typed.
LEMMA CloseType ==
  ASSUME FetcherInv, NEW h \in Fetchers, Close(h),
         source' \in [Sources -> SourceRow], document' \in [Bodies -> Sources \cup {Nothing}]
  PROVE  FetcherInv'
BY FetcherConstants DEF FetcherInv, FetcherTypeOK, FetcherShape, Close, Goto, Places

LEMMA MarkSourceType ==
  ASSUME FetcherInv, NEW h \in Fetchers, fat[h] \in {"hop", "connect"},
         NEW status \in {"rejected", "failed"}, MarkSource(h, status)
  PROVE  FetcherInv'
<1>1. loaded[h] \in SourceRow /\ target[h] \in Sources
  BY DEF FetcherInv, FetcherTypeOK
<1>2. source' \in [Sources -> SourceRow]
  BY <1>1 DEF MarkSource, Differs, FetcherInv, FetcherTypeOK, SourceRow, SourceStatuses
<1>. QED
  BY <1>2, CloseType DEF MarkSource, FetcherInv, FetcherTypeOK

LEMMA MarkFetchedType ==
  ASSUME FetcherInv, NEW h \in Fetchers, fat[h] \in {"store", "insert"}, MarkFetched(h)
  PROVE  source' \in [Sources -> SourceRow]
<1>1. target[h] \in Sources /\ body[h] \in Bodies /\ loaded[h] \in SourceRow \cup {Nothing}
  BY DEF FetcherInv, FetcherTypeOK
<1>. QED
  BY <1>1 DEF MarkFetched, Differs, FetcherInv, FetcherTypeOK, SourceRow, SourceStatuses

LEMMA FetcherStepType == FetcherInv /\ [FetcherNext]_fetcherVars => FetcherInv'
<1> SUFFICES ASSUME FetcherInv, [FetcherNext]_fetcherVars PROVE FetcherInv'
  OBVIOUS
<1>. USE FetcherConstants
<1>1. ASSUME NEW h \in Fetchers, NEW s \in Sources, StartFetch(h, s)
      PROVE  FetcherInv'
  <2>1. source[s] \in SourceRow
    BY DEF FetcherInv, FetcherTypeOK
  <2>. QED
    BY <1>1, <2>1 DEF StartFetch, Goto, FetcherInv, FetcherTypeOK, FetcherShape, Places, fetcherRows
<1>2. ASSUME NEW h \in Fetchers, NEW s \in Sources, NEW b \in Bodies, StoreByHand(h, s, b)
      PROVE  FetcherInv'
  BY <1>2 DEF StoreByHand, Goto, FetcherInv, FetcherTypeOK, FetcherShape, Places, fetcherRows, loop
<1>3. ASSUME NEW h \in Fetchers, RefuseHop(h)
      PROVE  FetcherInv'
  BY <1>3, MarkSourceType DEF RefuseHop
<1>4. ASSUME NEW h \in Fetchers, Resolve(h)
      PROVE  FetcherInv'
  <2>1. CASE MarkSource(h, "failed") \/ MarkSource(h, "rejected")
    BY <1>4, <2>1, MarkSourceType DEF Resolve
  <2>2. ASSUME NEW ips \in Answers, NEW t \in 0..HopTime,
               /\ Goto(h, "connect")
               /\ answer' = [answer EXCEPT ![h] = ips]
               /\ elapsed' = Later(h, t)
               /\ UNCHANGED <<fetcherRows, target, loaded, url, hop, body, connections, fetches>>
        PROVE  FetcherInv'
    <3>1. elapsed' \in [Fetchers -> 0..TotalTimeout + 1]
      BY <2>2 DEF Later, FetcherInv, FetcherTypeOK
    <3>. QED
      BY <1>4, <2>2, <3>1 DEF Resolve, Goto, FetcherInv, FetcherTypeOK, FetcherShape, Places, fetcherRows
  <2>. QED
    BY <1>4, <2>1, <2>2 DEF Resolve
<1>5. ASSUME NEW h \in Fetchers, Exchange(h)
      PROVE  FetcherInv'
  <2>1. CASE MarkSource(h, "failed") \/ MarkSource(h, "rejected")
    BY <1>5, <2>1, MarkSourceType DEF Exchange
  <2>2. ASSUME NEW ip \in SelectSafeIp(answer[h]), NEW t \in 0..HopTime,
               connections' = [connections EXCEPT ![h] = @ \cup
                 {[hop |-> hop[h], url |-> url[h], ip |-> ip, answer |-> answer[h]]}],
               elapsed' = Later(h, t),
               UNCHANGED <<fetcherRows, target, loaded, fetches>>,
               \/ \E u \in Urls : /\ Follows(h)
                                  /\ Goto(h, "hop")
                                  /\ url' = [url EXCEPT ![h] = u]
                                  /\ hop' = [hop EXCEPT ![h] = @ + 1]
                                  /\ answer' = [answer EXCEPT ![h] = <<>>]
                                  /\ UNCHANGED body
               \/ \E b \in Bodies : /\ Goto(h, "store")
                                    /\ body' = [body EXCEPT ![h] = b]
                                    /\ UNCHANGED <<url, hop, answer>>
        PROVE  FetcherInv'
    <3>1. elapsed' \in [Fetchers -> 0..TotalTimeout + 1]
      BY <2>2 DEF Later, FetcherInv, FetcherTypeOK
    <3>2. answer[h] \in Answers /\ url[h] \in Urls /\ hop[h] \in 0..MaxRedirects
      BY <1>5 DEF Exchange, FetcherInv, FetcherTypeOK
    <3>3. ip \in Addresses
      BY <2>2, <3>2 DEF SelectSafeIp
    <3>4. connections' \in [Fetchers -> SUBSET ConnectionRow]
      BY <2>2, <3>2, <3>3 DEF FetcherInv, FetcherShape, ConnectionRow
    <3>5. ASSUME NEW u \in Urls, Follows(h), Goto(h, "hop"),
                 url' = [url EXCEPT ![h] = u], hop' = [hop EXCEPT ![h] = @ + 1],
                 answer' = [answer EXCEPT ![h] = <<>>], UNCHANGED body
          PROVE  FetcherInv'
      <4>1. hop[h] + 1 \in 0..MaxRedirects
        BY <3>2, <3>5 DEF Follows
      <4>2. hop' \in [Fetchers -> 0..MaxRedirects]
        BY <3>5, <4>1 DEF FetcherInv, FetcherTypeOK
      <4>. QED
        BY <1>5, <2>2, <3>1, <3>4, <3>5, <4>2
           DEF Exchange, Goto, FetcherInv, FetcherTypeOK, FetcherShape, Places, fetcherRows
    <3>6. ASSUME NEW b \in Bodies, Goto(h, "store"), body' = [body EXCEPT ![h] = b],
                 UNCHANGED <<url, hop, answer>>
          PROVE  FetcherInv'
      BY <1>5, <2>2, <3>1, <3>4, <3>6
         DEF Exchange, Goto, FetcherInv, FetcherTypeOK, FetcherShape, Places, fetcherRows
    <3>. QED
      BY <2>2, <3>5, <3>6
  <2>. QED
    BY <1>5, <2>1, <2>2 DEF Exchange
<1>6. ASSUME NEW h \in Fetchers, Reuse(h)
      PROVE  FetcherInv'
  BY <1>6, MarkFetchedType, CloseType DEF Reuse, FetcherInv, FetcherTypeOK
<1>7. ASSUME NEW h \in Fetchers, Miss(h)
      PROVE  FetcherInv'
  BY <1>7 DEF Miss, Goto, FetcherInv, FetcherTypeOK, FetcherShape, Places, fetcherRows, loop
<1>8. ASSUME NEW h \in Fetchers, Insert(h)
      PROVE  FetcherInv'
  <2>1. document' \in [Bodies -> Sources \cup {Nothing}]
    BY <1>8 DEF Insert, FetcherInv, FetcherTypeOK
  <2>. QED
    BY <1>8, <2>1, MarkFetchedType, CloseType DEF Insert
<1>9. ASSUME NEW h \in Fetchers, Abandon(h)
      PROVE  FetcherInv'
  BY <1>9, CloseType DEF Abandon, fetcherRows, FetcherInv, FetcherTypeOK
<1>10. CASE UNCHANGED fetcherVars
  BY <1>10 DEF fetcherVars, fetcherRows, loop, FetcherInv, FetcherTypeOK, FetcherShape
<1>. QED
  BY <1>1, <1>2, <1>3, <1>4, <1>5, <1>6, <1>7, <1>8, <1>9, <1>10 DEF FetcherNext, FetcherStep

LEMMA FetcherInvariance == FetcherSpec => []FetcherInv
BY FetcherInitType, FetcherStepType, PTL DEF FetcherSpec

\* Every reachable state of the fetcher is well typed, and each session holds at each place
\* what the code goes on with from there.
THEOREM FetcherTypes == FetcherSpec => []FetcherTypeOK
BY FetcherInvariance, PTL DEF FetcherInv

-----------------------------------------------------------------------------
(* Connections. *)

local(h) == <<fat[h], url[h], hop[h], answer[h], connections[h]>>

LEMMA LocalStays ==
  ASSUME NEW h \in Fetchers, Vetted(h), Counted(h), UNCHANGED local(h)
  PROVE  Vetted(h)' /\ Counted(h)'
BY DEF local, Vetted, Counted

LEMMA CloseLocal ==
  ASSUME FetcherInv, NEW h \in Fetchers, Close(h)
  PROVE  /\ Vetted(h)' /\ Counted(h)'
         /\ \A g \in Fetchers \ {h} : UNCHANGED local(g)
<1>1. fat'[h] = "idle" /\ hop'[h] = 0 /\ connections'[h] = {}
  BY DEF Close, Goto, FetcherInv, FetcherTypeOK, FetcherShape
<1>2. Vetted(h)' /\ Counted(h)'
  BY <1>1, FS_EmptySet DEF Vetted, Counted
<1>. QED
  BY <1>2 DEF Close, Goto, local, FetcherInv, FetcherTypeOK, FetcherShape

LEMMA ConnectLocal ==
  ASSUME FetcherInv, FetcherInv', NEW h \in Fetchers, Vetted(h), Counted(h), Exchange(h), fat'[h] # "idle"
  PROVE  /\ Vetted(h)' /\ Counted(h)'
         /\ \A g \in Fetchers \ {h} : UNCHANGED local(g)
<1>. USE FetcherConstants
<1>1. ~Close(h)
  BY DEF Close, Goto, FetcherInv, FetcherTypeOK
<1>2. PICK ip \in SelectSafeIp(answer[h]) :
        /\ connections' = [connections EXCEPT ![h] = @ \cup
             {[hop |-> hop[h], url |-> url[h], ip |-> ip, answer |-> answer[h]]}]
        /\ \/ \E u \in Urls : /\ Goto(h, "hop")
                              /\ url' = [url EXCEPT ![h] = u]
                              /\ hop' = [hop EXCEPT ![h] = @ + 1]
                              /\ answer' = [answer EXCEPT ![h] = <<>>]
           \/ Goto(h, "store") /\ UNCHANGED <<url, hop, answer>>
  BY <1>1 DEF Exchange, MarkSource
<1> DEFINE c == [hop |-> hop[h], url |-> url[h], ip |-> ip, answer |-> answer[h]]
           old == connections[h]
           new == old \cup {c}
<1>3. /\ fat[h] = "connect" /\ hop[h] \in Nat /\ answer[h] \in Seq(Addresses) /\ answer[h] # <<>>
      /\ connections'[h] = new
  BY <1>2 DEF Exchange, FetcherInv, FetcherTypeOK, FetcherShape
<1>4. c.ip \in Range(c.answer) /\ Range(c.answer) \cap Unsafe = {} /\ c.url \notin Malformed
  <2>1. ip = answer[h][1] /\ 1 \in DOMAIN answer[h]
    BY <1>2, <1>3 DEF SelectSafeIp
  <2>. QED
    BY <1>3, <2>1 DEF Vetted, Range
<1>5. \/ fat'[h] = "hop" /\ hop'[h] = hop[h] + 1
      \/ fat'[h] = "store" /\ hop'[h] = hop[h]
  BY <1>2 DEF Goto, FetcherInv, FetcherTypeOK
<1>6. Vetted(h)'
  BY <1>3, <1>4, <1>5 DEF Vetted
<1>7. /\ IsFiniteSet(new) /\ Cardinality(new) <= hop[h] + 1
      /\ \A d \in new : d.hop < hop[h] + 1
      /\ \A d, e \in new : d.hop = e.hop => d = e
  <2>1. /\ IsFiniteSet(old) /\ Cardinality(old) <= hop[h] /\ Cardinality(old) \in Nat
        /\ \A d \in old : d.hop < hop[h]
        /\ \A d, e \in old : d.hop = e.hop => d = e
    BY <1>3, FS_CardinalityType DEF Counted
  <2>2. c.hop = hop[h]
    OBVIOUS
  <2>3. \A d \in old : d.hop \in Nat
    BY DEF FetcherInv, FetcherShape, ConnectionRow
  <2>. HIDE DEF c, old
  <2>4. IsFiniteSet(old \cup {c}) /\ Cardinality(old \cup {c}) <= hop[h] + 1
    <3>1. Cardinality(old \cup {c}) = IF c \in old THEN Cardinality(old) ELSE Cardinality(old) + 1
      BY <2>1, FS_AddElement
    <3>2. IsFiniteSet(old \cup {c})
      BY <2>1, FS_AddElement
    <3>. QED
      BY <1>3, <2>1, <3>1, <3>2
  <2>. QED
    BY <1>3, <2>1, <2>2, <2>3, <2>4
<1>8. Counted(h)'
  BY <1>3, <1>5, <1>7 DEF Counted
<1>. QED
  BY <1>2, <1>6, <1>8 DEF Goto, local, FetcherInv, FetcherTypeOK, FetcherShape

LEMMA LocalStep ==
  ASSUME FetcherInv, FetcherInv', \A h \in Fetchers : Vetted(h) /\ Counted(h), [FetcherNext]_fetcherVars
  PROVE  \A h \in Fetchers : Vetted(h)' /\ Counted(h)'
<1>. USE FetcherConstants
<1>1. CASE UNCHANGED fetcherVars
  BY <1>1, LocalStays DEF fetcherVars, loop, local
<1>2. ASSUME NEW h \in Fetchers,
             \/ \E s \in Sources : StartFetch(h, s) \/ \E b \in Bodies : StoreByHand(h, s, b)
             \/ FetcherStep(h)
             \/ Abandon(h)
      PROVE  /\ Vetted(h)' /\ Counted(h)'
             /\ \A g \in Fetchers \ {h} : UNCHANGED local(g)
  <2>1. CASE Close(h)
    BY <2>1, CloseLocal
  <2>2. CASE \E s \in Sources : StartFetch(h, s)
    <3>1. fat[h] = "idle" /\ fat'[h] = "hop" /\ UNCHANGED <<hop, answer, connections>>
      BY <2>2 DEF StartFetch, Goto, FetcherInv, FetcherTypeOK
    <3>2. Vetted(h)' /\ Counted(h)'
      BY <3>1 DEF Vetted, Counted
    <3>. QED
      BY <2>2, <3>2 DEF StartFetch, Goto, local, FetcherInv, FetcherTypeOK, FetcherShape
  <2>3. CASE \E s \in Sources, b \in Bodies : StoreByHand(h, s, b)
    <3>1. fat[h] = "idle" /\ fat'[h] = "store" /\ UNCHANGED loop
      BY <2>3 DEF StoreByHand, Goto, FetcherInv, FetcherTypeOK
    <3>2. connections[h] = {} /\ hop[h] = 0
      BY <1>2, <3>1 DEF Counted
    <3>3. Vetted(h)' /\ Counted(h)'
      BY <3>1, <3>2, FS_EmptySet DEF Vetted, Counted, loop
    <3>. QED
      BY <2>3, <3>3 DEF StoreByHand, Goto, local, loop, FetcherInv, FetcherTypeOK
  <2>4. CASE Resolve(h) /\ ~Close(h)
    <3>1. PICK ips \in Answers : /\ SelectSafeIp(ips) # {} /\ answer' = [answer EXCEPT ![h] = ips]
                                 /\ Goto(h, "connect") /\ UNCHANGED <<url, hop, connections>>
      BY <2>4 DEF Resolve, MarkSource
    <3>2. fat[h] = "hop" /\ fat'[h] = "connect" /\ answer'[h] = ips /\ url[h] \notin Malformed
      BY <2>4, <3>1 DEF Resolve, Goto, FetcherInv, FetcherTypeOK, FetcherShape
    <3>3. Range(ips) \cap Unsafe = {}
      BY <3>1 DEF SelectSafeIp
    <3>4. Vetted(h)' /\ Counted(h)'
      BY <3>1, <3>2, <3>3 DEF Vetted, Counted
    <3>. QED
      BY <3>1, <3>4 DEF Goto, local, FetcherInv, FetcherTypeOK, FetcherShape
  <2>5. CASE Exchange(h) /\ ~Close(h)
    <3>1. fat'[h] # "idle"
      BY <2>5 DEF Exchange, MarkSource, Goto, FetcherInv, FetcherTypeOK
    <3>. QED
      BY <2>5, <3>1, ConnectLocal
  <2>6. CASE Miss(h)
    <3>1. fat[h] = "store" /\ fat'[h] = "insert" /\ UNCHANGED loop
      BY <2>6 DEF Miss, Goto, FetcherInv, FetcherTypeOK
    <3>2. Vetted(h)' /\ Counted(h)'
      BY <3>1 DEF Vetted, Counted, loop
    <3>. QED
      BY <2>6, <3>2 DEF Miss, Goto, local, loop, FetcherInv, FetcherTypeOK
  <2>. QED
    BY <1>2, <2>1, <2>2, <2>3, <2>4, <2>5, <2>6
       DEF FetcherStep, RefuseHop, MarkSource, Reuse, Insert, Abandon
<1>. QED
  BY <1>1, <1>2, LocalStays DEF FetcherNext

AllLocal == \A h \in Fetchers : Vetted(h) /\ Counted(h)

LEMMA LocalInvariance == FetcherSpec => [](FetcherInv /\ AllLocal)
<1>1. FetcherInit => AllLocal
  BY FS_EmptySet, FetcherConstants DEF FetcherInit, AllLocal, Vetted, Counted
<1>2. FetcherInv /\ FetcherInv' /\ AllLocal /\ [FetcherNext]_fetcherVars => AllLocal'
  BY LocalStep DEF AllLocal
<1>. QED
  BY FetcherInitType, FetcherStepType, <1>1, <1>2, PTL DEF FetcherSpec

\* Whatever names resolve to and wherever redirects lead, every connection goes to an
\* address of its own hop's answer, all of which are safe, for a URL of accepted syntax.
THEOREM OnlyVettedConnections == FetcherSpec => []ConnectsToVetted
<1>1. AllLocal => ConnectsToVetted
  BY DEF AllLocal, Vetted, ConnectsToVetted
<1>. QED
  BY <1>1, LocalInvariance, PTL

\* Whatever the servers answer, a fetch makes one connection per hop and, in all, one more
\* than the redirects allowed.
THEOREM RedirectsEnd == FetcherSpec => []WithinBudget
<1>1. FetcherInv /\ AllLocal => WithinBudget
  <2>. SUFFICES ASSUME FetcherInv, AllLocal PROVE WithinBudget
    OBVIOUS
  <2>1. SUFFICES ASSUME NEW h \in Fetchers
                 PROVE  /\ Cardinality(connections[h]) <= MaxRedirects + 1
                        /\ \A c \in connections[h] : c.hop <= hop[h]
                        /\ \A c, d \in connections[h] : c.hop = d.hop => c = d
                        /\ fat[h] = "connect" => \A c \in connections[h] : c.hop < hop[h]
    BY DEF WithinBudget
  <2>2. hop[h] \in 0..MaxRedirects /\ \A c \in connections[h] : c.hop \in Nat
    BY DEF FetcherInv, FetcherTypeOK, FetcherShape, ConnectionRow
  <2>3. Cardinality(connections[h]) \in Nat
    BY FS_CardinalityType DEF AllLocal, Counted
  <2>. QED
    BY <2>2, <2>3, FetcherConstants DEF AllLocal, Counted
<1>. QED
  BY <1>1, LocalInvariance, PTL

-----------------------------------------------------------------------------
(* Documents. *)

LEMMA KeepsHashes ==
  ASSUME FetcherInv, HashesStay, NEW h \in Fetchers, Close(h),
         \A b \in Bodies : document[b] # Nothing => document'[b] # Nothing,
         \A s \in Sources : /\ source[s].hash # Nothing => source'[s].hash # Nothing
                            /\ source'[s].hash # Nothing => document'[source'[s].hash] # Nothing
                            /\ source'[s].status = "fetched" => source'[s].hash # Nothing
  PROVE  HashesStay'
BY DEF HashesStay, Close, FetcherInv, FetcherTypeOK, FetcherShape

LEMMA MarkSourceHashes ==
  ASSUME FetcherInv, HashesStay, NEW h \in Fetchers, fat[h] \in {"hop", "connect"},
         NEW status \in {"rejected", "failed"}, MarkSource(h, status)
  PROVE  HashesStay'
<1>1. ASSUME NEW s \in Sources
      PROVE  source'[s].hash = source[s].hash /\ (source'[s].status = "fetched" => source[s].status = "fetched")
  BY DEF MarkSource, Differs, FetcherInv, FetcherTypeOK, SourceRow
<1>. QED
  BY <1>1, KeepsHashes DEF MarkSource, HashesStay

LEMMA MarkFetchedHashes ==
  ASSUME FetcherInv, HashesStay, NEW h \in Fetchers, fat[h] \in {"store", "insert"}, MarkFetched(h), Close(h),
         \A b \in Bodies : document[b] # Nothing => document'[b] # Nothing,
         document'[body[h]] # Nothing
  PROVE  HashesStay'
<1>1. target[h] \in Sources /\ body[h] \in Bodies \ {Nothing} /\ loaded[h] \in SourceRow \cup {Nothing}
  BY FetcherConstants DEF FetcherInv, FetcherTypeOK
<1>2. ASSUME NEW s \in Sources, s # target[h] \/ loaded[h] = Nothing
      PROVE  source'[s] = source[s]
  BY <1>2 DEF MarkFetched, FetcherInv, FetcherTypeOK
<1>3. ASSUME loaded[h] # Nothing
      PROVE  LET s == target[h] IN
             /\ source'[s].hash \in {body[h], source[s].hash}
             /\ source'[s].hash = Nothing => source[s].hash = Nothing /\ loaded[h].hash = body[h]
             /\ loaded[h].hash # Nothing => source[s].hash # Nothing
  BY <1>1, <1>3 DEF MarkFetched, Differs, FetcherInv, FetcherTypeOK, SourceRow, HashesStay
<1>4. ASSUME NEW s \in Sources
      PROVE  /\ source[s].hash # Nothing => source'[s].hash # Nothing
             /\ source'[s].hash # Nothing => document'[source'[s].hash] # Nothing
             /\ source'[s].status = "fetched" => source'[s].hash # Nothing
  <2>1. source[s].hash \in Bodies \cup {Nothing}
    BY DEF FetcherInv, FetcherTypeOK, SourceRow
  <2>2. CASE s # target[h] \/ loaded[h] = Nothing
    BY <1>2, <2>1, <2>2 DEF HashesStay
  <2>3. CASE s = target[h] /\ loaded[h] # Nothing
    BY <1>1, <1>3, <2>1, <2>3 DEF HashesStay
  <2>. QED
    BY <2>2, <2>3
<1>. QED
  BY <1>4, KeepsHashes

LEMMA HashesStep ==
  ASSUME FetcherInv, HashesStay, [FetcherNext]_fetcherVars
  PROVE  HashesStay'
<1>1. ASSUME NEW h \in Fetchers, NEW s \in Sources, StartFetch(h, s)
      PROVE  HashesStay'
  BY <1>1 DEF StartFetch, HashesStay, fetcherRows, FetcherInv, FetcherTypeOK, FetcherShape
<1>2. ASSUME NEW h \in Fetchers, NEW s \in Sources, NEW b \in Bodies, StoreByHand(h, s, b)
      PROVE  HashesStay'
  <2>1. loaded[h] = Nothing
    BY <1>2, FetcherConstants DEF StoreByHand, HashesStay, FetcherInv, FetcherTypeOK
  <2>. QED
    BY <1>2, <2>1 DEF StoreByHand, HashesStay, fetcherRows, FetcherInv, FetcherTypeOK, FetcherShape
<1>3. ASSUME NEW h \in Fetchers, RefuseHop(h) \/ Resolve(h) \/ Exchange(h)
      PROVE  HashesStay'
  <2>1. fat[h] \in {"hop", "connect"}
    BY <1>3 DEF RefuseHop, Resolve, Exchange
  <2>2. CASE \E status \in {"rejected", "failed"} : MarkSource(h, status)
    BY <2>1, <2>2, MarkSourceHashes
  <2>3. CASE UNCHANGED <<fetcherRows, target, loaded>>
    BY <2>3 DEF HashesStay, fetcherRows
  <2>. QED
    BY <1>3, <2>2, <2>3 DEF RefuseHop, Resolve, Exchange
<1>4. ASSUME NEW h \in Fetchers, Reuse(h)
      PROVE  HashesStay'
  BY <1>4, MarkFetchedHashes DEF Reuse, Stored
<1>5. ASSUME NEW h \in Fetchers, Insert(h)
      PROVE  HashesStay'
  <2>1. /\ document' \in [Bodies -> Sources \cup {Nothing}] /\ document'[body[h]] # Nothing
        /\ \A b \in Bodies : document[b] # Nothing => document'[b] # Nothing
    BY <1>5, FetcherConstants DEF Insert, FetcherInv, FetcherTypeOK
  <2>. QED
    BY <1>5, <2>1, MarkFetchedHashes DEF Insert
<1>6. ASSUME NEW h \in Fetchers, Miss(h)
      PROVE  HashesStay'
  BY <1>6 DEF Miss, HashesStay, fetcherRows
<1>7. ASSUME NEW h \in Fetchers, Abandon(h)
      PROVE  HashesStay'
  BY <1>7, KeepsHashes DEF Abandon, HashesStay, fetcherRows
<1>8. CASE UNCHANGED fetcherVars
  BY <1>8 DEF fetcherVars, fetcherRows, HashesStay
<1>. QED
  BY <1>1, <1>2, <1>3, <1>4, <1>5, <1>6, <1>7, <1>8 DEF FetcherNext, FetcherStep

\* A source marked fetched has the hash of a stored document, however many fetches of it
\* overlap, fail and write through stale copies.
THEOREM FetchedIsStored == FetcherSpec => []FetchedHasDocument
<1>1. FetcherInit => HashesStay
  BY DEF FetcherInit, HashesStay
<1>2. HashesStay => FetchedHasDocument
  BY DEF HashesStay, FetchedHasDocument
<1>. QED
  BY <1>1, <1>2, HashesStep, FetcherInvariance, PTL DEF FetcherSpec

-----------------------------------------------------------------------------
(* The way in. *)

Forms == Registrations \cup Joins

\* The functions of the state, with their ranges.
AccessShape ==
  /\ client \in [Callers -> Clients \cup {Nobody}]
  /\ form \in [Callers -> Forms \cup {Nobody}]
  /\ tenant \in [Slugs -> TenantRow \cup {Nobody}]
  /\ user \in [Emails -> UserRow \cup {Nobody}]

AccessInv == AccessTypeOK /\ AccessShape

LEMMA FormFields ==
  /\ \A f \in Forms : f.slug \in Slugs /\ f.email \in Emails
  /\ \A r \in Registrations : r.name \in Names
  /\ Registrations \cap Joins = {}
BY AccessConstants DEF Forms

LEMMA Incremented ==
  ASSUME NEW S, NEW f \in [S -> Nat], NEW x
  PROVE  [f EXCEPT ![x] = f[x] + 1] \in [S -> Nat]
<1>1. CASE x \in S
  <2>1. f[x] + 1 \in Nat
    BY <1>1
  <2>. QED
    BY <2>1
<1>2. CASE x \notin S
  BY <1>2
<1>. QED
  BY <1>1, <1>2

-----------------------------------------------------------------------------
(* Types. *)

LEMMA AccessInitType == AccessInit => AccessInv
BY AccessConstants DEF AccessInit, AccessInv, AccessTypeOK, AccessShape, CallPlaces

LEMMA LeaveType ==
  ASSUME AccessInv, NEW a \in Callers, Leave(a),
         /\ count' \in [Clients -> Nat] /\ ttl' \in [Clients -> BOOLEAN] /\ leaked' \subseteq Clients
         /\ window' \in [Clients -> Nat] /\ served' \in [Clients -> [0..MaxCalls -> Nat]]
         /\ tenant' \in [Slugs -> TenantRow \cup {Nobody}] /\ user' \in [Emails -> UserRow \cup {Nobody}]
         /\ calls' \in 0..MaxCalls /\ outages' \in 0..MaxOutages
  PROVE  AccessInv'
BY DEF AccessInv, AccessTypeOK, AccessShape, Leave, At, CallPlaces

LEMMA SettleType ==
  ASSUME AccessInv, NEW a \in Callers
  PROVE  /\ \A s \in Slugs : /\ Settle(a, tenant[s]) \in TenantRow \cup {Nobody}
                             /\ Discard(a, tenant[s]) \in TenantRow \cup {Nobody}
         /\ \A e \in Emails : /\ Settle(a, user[e]) \in UserRow \cup {Nobody}
                              /\ Discard(a, user[e]) \in UserRow \cup {Nobody}
BY DEF AccessInv, AccessShape, Settle, Discard, TenantRow, UserRow, Author

LEMMA AccessStepType == AccessInv /\ [AccessNext]_accessVars => AccessInv'
<1> SUFFICES ASSUME AccessInv, [AccessNext]_accessVars PROVE AccessInv'
  OBVIOUS
<1>. USE AccessConstants DEF keys, rows, caller
<1>1. ASSUME NEW k \in Clients, WindowEnds(k)
      PROVE  AccessInv'
  BY <1>1 DEF WindowEnds, AccessInv, AccessTypeOK, AccessShape
<1>2. ASSUME NEW a \in Callers, NEW k \in Clients, LimitedCall(a, k)
      PROVE  AccessInv'
  BY <1>2 DEF LimitedCall, Call, At, AccessInv, AccessTypeOK, AccessShape, CallPlaces
<1>3. ASSUME NEW a \in Callers, Count(a)
      PROVE  AccessInv'
  <2>1. client[a] \in Clients
    BY <1>3 DEF Count, AccessInv, AccessTypeOK
  <2>2. count[client[a]] + 1 \in Nat /\ window[client[a]] \in Nat
    BY <2>1 DEF AccessInv, AccessTypeOK
  <2>3. count' \in [Clients -> Nat] /\ got' \in [Callers -> Nat] /\ counted' \in [Callers -> Nat]
    BY <1>3, <2>1, <2>2 DEF Count, AccessInv, AccessTypeOK
  <2>4. place' = [place EXCEPT ![a] = "expire"] \/ place' = [place EXCEPT ![a] = "judge"]
    BY <1>3 DEF Count, At
  <2>5. UNCHANGED <<ttl, leaked, window, served, rows, client, form, calls, outages>>
    BY <1>3 DEF Count
  <2>. QED
    BY <2>1, <2>3, <2>4, <2>5, ZenonT(60) DEF AccessInv, AccessTypeOK, AccessShape, CallPlaces
<1>4. ASSUME NEW a \in Callers, CountFails(a)
      PROVE  AccessInv'
  <2>1. client[a] \in Clients
    BY <1>4 DEF CountFails, AccessInv, AccessTypeOK
  <2>2. count' \in [Clients -> Nat]
    <3>1. count' = count \/ count' = [count EXCEPT ![client[a]] = count[client[a]] + 1]
      BY <1>4 DEF CountFails, keys
    <3>2. count \in [Clients -> Nat]
      BY DEF AccessInv, AccessTypeOK
    <3>. QED
      BY <3>1, <3>2, Incremented
  <2>3. leaked' \subseteq Clients
    BY <1>4, <2>1 DEF CountFails, Leaks, AccessInv, AccessTypeOK
  <2>. QED
    BY <1>4, <2>2, <2>3 DEF CountFails, Fault, At, AccessInv, AccessTypeOK, AccessShape, CallPlaces
<1>5. ASSUME NEW a \in Callers, SetExpiry(a)
      PROVE  AccessInv'
  BY <1>5 DEF SetExpiry, At, AccessInv, AccessTypeOK, AccessShape, CallPlaces
<1>6. ASSUME NEW a \in Callers, ExpiryFails(a)
      PROVE  AccessInv'
  <2>1. client[a] \in Clients
    BY <1>6 DEF ExpiryFails, AccessInv, AccessTypeOK
  <2>2. ttl' \in [Clients -> BOOLEAN] /\ leaked' \subseteq Clients
    BY <1>6, <2>1 DEF ExpiryFails, Leaks, AccessInv, AccessTypeOK
  <2>. QED
    BY <1>6, <2>2 DEF ExpiryFails, Fault, At, AccessInv, AccessTypeOK, AccessShape, CallPlaces
<1>7. ASSUME NEW a \in Callers, Judge(a)
      PROVE  AccessInv'
  <2>1. CASE Exceeds(got[a])
    BY <1>7, <2>1, LeaveType DEF Judge, AccessInv, AccessTypeOK, AccessShape
  <2>2. CASE ~Exceeds(got[a])
    <3>1. served' \in [Clients -> [0..MaxCalls -> Nat]]
      <4>1. client[a] \in Clients
        BY <1>7 DEF Judge, AccessInv, AccessTypeOK
      <4>2. [served[client[a]] EXCEPT ![counted[a]] = @ + 1] \in [0..MaxCalls -> Nat]
        BY <4>1, Incremented DEF AccessInv, AccessTypeOK
      <4>3. served' = [served EXCEPT ![client[a]] = [served[client[a]] EXCEPT ![counted[a]] = @ + 1]]
        BY <1>7, <2>2, <4>1 DEF Judge, AccessInv, AccessTypeOK
      <4>. QED
        BY <4>1, <4>2, <4>3 DEF AccessInv, AccessTypeOK
    <3>. QED
      BY <1>7, <2>2, <3>1, ZenonT(60) DEF Judge, At, AccessInv, AccessTypeOK, AccessShape, CallPlaces
  <2>. QED
    BY <2>1, <2>2
<1>8. ASSUME NEW a \in Callers, NEW r \in Registrations, Register(a, r)
      PROVE  AccessInv'
  BY <1>8 DEF Register, At, AccessInv, AccessTypeOK, AccessShape, CallPlaces, Forms
<1>9. ASSUME NEW a \in Callers, NEW j \in Joins, Join(a, j)
      PROVE  AccessInv'
  BY <1>9 DEF Join, Call, At, AccessInv, AccessTypeOK, AccessShape, CallPlaces, Forms
<1>10. ASSUME NEW a \in Callers, LogIn(a)
      PROVE  AccessInv'
  BY <1>10, LeaveType DEF LogIn, AccessInv, AccessTypeOK, AccessShape
<1>11. ASSUME NEW a \in Callers, CheckEmail(a)
      PROVE  AccessInv'
  <2>1. CASE Final(user[form[a].email])
    BY <1>11, <2>1, LeaveType DEF CheckEmail, AccessInv, AccessTypeOK, AccessShape
  <2>2. CASE ~Final(user[form[a].email])
    BY <1>11, <2>2, ZenonT(60) DEF CheckEmail, Joining, At, AccessInv, AccessTypeOK, AccessShape, CallPlaces
  <2>. QED
    BY <2>1, <2>2
<1>12. ASSUME NEW a \in Callers, AddTenant(a)
      PROVE  AccessInv'
  <2>1. form[a] \in Registrations /\ form[a] \in Forms
    BY <1>12 DEF AddTenant, AccessInv, AccessTypeOK, Forms
  <2>2. [name |-> form[a].name, by |-> a] \in TenantRow /\ form[a].slug \in Slugs
    BY <2>1, FormFields DEF TenantRow, Author
  <2>3. tenant' \in [Slugs -> TenantRow \cup {Nobody}]
    BY <1>12, <2>2 DEF AddTenant, Draft, AccessInv, AccessShape
  <2>. QED
    BY <1>12, <2>1, <2>3 DEF AddTenant, At, AccessInv, AccessTypeOK, AccessShape, CallPlaces
<1>13. ASSUME NEW a \in Callers, AddUser(a)
      PROVE  AccessInv'
  <2>1. form[a] \in Forms
    BY <1>13 DEF AddUser, AccessInv, AccessTypeOK, Forms
  <2>2. (IF Joining(a) THEN form[a].role ELSE "owner") \in Roles
    BY DEF Joining, Roles
  <2>4. [slug |-> form[a].slug, role |-> IF Joining(a) THEN form[a].role ELSE "owner", by |-> a] \in UserRow
    BY <2>1, <2>2, FormFields DEF UserRow, Author
  <2>3. user' \in [Emails -> UserRow \cup {Nobody}]
    BY <1>13, <2>1, <2>4, FormFields DEF AddUser, AccessInv, AccessShape
  <2>. QED
    BY <1>13, <2>1, <2>3 DEF AddUser, At, AccessInv, AccessTypeOK, AccessShape, CallPlaces
<1>14. ASSUME NEW a \in Callers, Commit(a)
      PROVE  AccessInv'
  BY <1>14, SettleType, LeaveType DEF Commit, AccessInv, AccessTypeOK
<1>15. ASSUME NEW a \in Callers, Conflict(a)
      PROVE  AccessInv'
  BY <1>15, SettleType, LeaveType DEF Conflict, Rollback, AccessInv, AccessTypeOK
<1>16. ASSUME NEW a \in Callers, HandlerDies(a)
      PROVE  AccessInv'
  <2>1. leaked' \subseteq Clients /\ outages' \in 0..MaxOutages
    BY <1>16 DEF HandlerDies, Fault, AccessInv, AccessTypeOK
  <2>. QED
    BY <1>16, <2>1, SettleType, LeaveType DEF HandlerDies, Rollback, AccessInv, AccessTypeOK
<1>17. CASE UNCHANGED accessVars
  BY <1>17 DEF accessVars, AccessInv, AccessTypeOK, AccessShape
<1>. QED
  BY <1>1, <1>2, <1>3, <1>4, <1>5, <1>6, <1>7, <1>8, <1>9, <1>10, <1>11, <1>12, <1>13, <1>14,
     <1>15, <1>16, <1>17
     DEF AccessNext, LimiterStep, RouteStep

LEMMA AccessInvariance == AccessSpec => []AccessInv
BY AccessInitType, AccessStepType, PTL DEF AccessSpec

\* Every reachable state of the way in is well typed, and each session holds at each place
\* the client or the form it goes on with from there.
THEOREM AccessTypes == AccessSpec => []AccessTypeOK
BY AccessInvariance, PTL DEF AccessInv

-----------------------------------------------------------------------------
(* The counters. *)

LEMMA CountersExpireStep == AccessInv /\ CountersExpire /\ [AccessNext]_accessVars => CountersExpire'
<1> SUFFICES ASSUME AccessInv, CountersExpire, [AccessNext]_accessVars,
                    NEW k \in Clients, count'[k] > 0, ~ttl'[k], k \notin leaked'
             PROVE  \E a \in Callers : place'[a] = "expire" /\ client'[a] = k
  BY DEF CountersExpire
<1>. USE DEF keys, rows, caller
<1>1. ASSUME NEW l \in Clients, WindowEnds(l)
      PROVE  \E a \in Callers : place'[a] = "expire" /\ client'[a] = k
  BY <1>1 DEF WindowEnds, CountersExpire, AccessInv, AccessTypeOK
<1>2. ASSUME NEW b \in Callers, Count(b)
      PROVE  \E a \in Callers : place'[a] = "expire" /\ client'[a] = k
  <2>1. CASE client[b] = k /\ count[k] = 0
    <3>1. StartsClock(count[k] + 1)
      BY <2>1 DEF StartsClock
    <3>. QED
      BY <1>2, <2>1, <3>1 DEF Count, At, AccessInv, AccessTypeOK
  <2>2. CASE ~(client[b] = k /\ count[k] = 0)
    <3>1. count[k] > 0
      BY <1>2, <2>2 DEF Count, AccessInv, AccessTypeOK
    <3>2. PICK a \in Callers : place[a] = "expire" /\ client[a] = k
      BY <1>2, <3>1 DEF Count, CountersExpire
    <3>3. a # b
      BY <1>2, <3>2 DEF Count
    <3>. QED
      BY <1>2, <3>2, <3>3 DEF Count, At, AccessInv, AccessTypeOK
  <2>. QED
    BY <2>1, <2>2
<1>3. ASSUME NEW b \in Callers, CountFails(b)
      PROVE  \E a \in Callers : place'[a] = "expire" /\ client'[a] = k
  <2>1. count[k] > 0 /\ ~ttl[k] /\ k \notin leaked
    BY <1>3 DEF CountFails, Leaks, AccessInv, AccessTypeOK
  <2>2. PICK a \in Callers : place[a] = "expire" /\ client[a] = k
    BY <2>1 DEF CountersExpire
  <2>. QED
    BY <1>3, <2>2 DEF CountFails, At, AccessInv, AccessTypeOK
<1>4. ASSUME NEW b \in Callers, SetExpiry(b) \/ ExpiryFails(b)
      PROVE  \E a \in Callers : place'[a] = "expire" /\ client'[a] = k
  <2>0. client[b] \in Clients
    BY <1>4 DEF SetExpiry, ExpiryFails, AccessInv, AccessTypeOK
  <2>1. count[k] > 0 /\ ~ttl[k] /\ k \notin leaked
    BY <1>4, <2>0 DEF SetExpiry, ExpiryFails, Leaks, AccessInv, AccessTypeOK
  <2>2. PICK a \in Callers : place[a] = "expire" /\ client[a] = k
    BY <2>1 DEF CountersExpire
  <2>3. client[b] # k
    BY <1>4, <2>0 DEF SetExpiry, ExpiryFails, Leaks, AccessInv, AccessTypeOK
  <2>. QED
    BY <1>4, <2>2, <2>3 DEF SetExpiry, ExpiryFails, At, AccessInv, AccessTypeOK
<1>5. ASSUME NEW b \in Callers, HandlerDies(b)
      PROVE  \E a \in Callers : place'[a] = "expire" /\ client'[a] = k
  <2>1. PICK a \in Callers : place[a] = "expire" /\ client[a] = k
    BY <1>5 DEF HandlerDies, CountersExpire
  <2>2. a # b
    BY <1>5, <2>1 DEF HandlerDies
  <2>. QED
    BY <1>5, <2>1, <2>2 DEF HandlerDies, Rollback, Leave, At, AccessInv, AccessTypeOK, AccessShape
<1>6. ASSUME NEW b \in Callers, UNCHANGED <<count, ttl, leaked>>, place[b] # "expire",
             /\ place' = [place EXCEPT ![b] = place'[b]]
             /\ client' = [client EXCEPT ![b] = client'[b]]
      PROVE  \E a \in Callers : place'[a] = "expire" /\ client'[a] = k
  <2>1. PICK a \in Callers : place[a] = "expire" /\ client[a] = k
    BY <1>6 DEF CountersExpire
  <2>2. a # b
    BY <1>6, <2>1
  <2>. QED
    BY <1>6, <2>1, <2>2 DEF AccessInv, AccessTypeOK, AccessShape
<1>7. ASSUME NEW b \in Callers,
             \/ \E l \in Clients : LimitedCall(b, l)
             \/ Judge(b) \/ RouteStep(b)
             \/ \E r \in Registrations : Register(b, r)
             \/ \E j \in Joins : Join(b, j)
      PROVE  \E a \in Callers : place'[a] = "expire" /\ client'[a] = k
  <2>1. UNCHANGED <<count, ttl, leaked>>
    BY <1>7 DEF LimitedCall, Judge, Register, Join, RouteStep, LogIn, CheckEmail, AddTenant,
                AddUser, Commit, Conflict, Rollback
  <2>2. place[b] # "expire"
    BY <1>7 DEF LimitedCall, Call, Judge, Register, Join, RouteStep, LogIn, CheckEmail,
                AddTenant, AddUser, Commit, Conflict
  <2>3. /\ place' = [place EXCEPT ![b] = place'[b]]
        /\ client' = [client EXCEPT ![b] = client'[b]]
    BY <1>7 DEF LimitedCall, Call, Judge, Register, Join, RouteStep, LogIn, CheckEmail,
                AddTenant, AddUser, Commit, Conflict, Rollback, Leave, At,
                AccessInv, AccessTypeOK, AccessShape
  <2>. QED
    BY <2>1, <2>2, <2>3, <1>6
<1>8. CASE UNCHANGED accessVars
  BY <1>8 DEF accessVars, CountersExpire
<1>. QED
  BY <1>1, <1>2, <1>3, <1>4, <1>5, <1>7, <1>8 DEF AccessNext, LimiterStep

\* A counter without an expiry is about to get one, or a failure or a death between INCR
\* and EXPIRE left it so: no interleaving of calls, with each other or with the end of a
\* window, leaks one.
THEOREM CountersExpireEventually == AccessSpec => []CountersExpire
<1>1. AccessInit => CountersExpire
  BY DEF AccessInit, CountersExpire
<1>. QED
  BY <1>1, CountersExpireStep, AccessInvariance, PTL DEF AccessSpec

-----------------------------------------------------------------------------
(* The limit.  What a window admits and what it has yet to judge are within the limit
   together, and within its counter: that is what INCR, being atomic, gives. *)

Waiting(k, w) ==
  {a \in Callers : place[a] \in {"expire", "judge"} /\ client[a] = k /\ counted[a] = w /\ got[a] <= Limit}

LimitInv ==
  /\ \A k \in Clients, w \in 0..MaxCalls : served[k][w] + Cardinality(Waiting(k, w)) <= Limit
  /\ \A k \in Clients, w \in 0..MaxCalls :
       w = window[k] => served[k][w] + Cardinality(Waiting(k, w)) <= count[k]
  /\ \A a \in Callers : place[a] \in {"expire", "judge"} => counted[a] <= window[client[a]]
  /\ \A k \in Clients, w \in 0..MaxCalls : w > window[k] => served[k][w] = 0

LEMMA WaitingFinite ==
  ASSUME NEW k, NEW w
  PROVE  IsFiniteSet(Waiting(k, w)) /\ Cardinality(Waiting(k, w)) \in Nat
<1>1. Waiting(k, w) \subseteq Callers
  BY DEF Waiting
<1>. QED
  BY <1>1, AccessConstants, FS_Subset, FS_CardinalityType

LEMMA SmallerSet ==
  ASSUME NEW S, NEW T, IsFiniteSet(T), S \subseteq T
  PROVE  IsFiniteSet(S) /\ Cardinality(S) <= Cardinality(T)
BY FS_Subset

LEMMA LimitQuiet ==
  ASSUME AccessInv, LimitInv, served' = served, window' = window,
         \A k \in Clients : count'[k] \in Nat /\ count'[k] >= count[k],
         \A b \in Callers : \/ place'[b] \notin {"expire", "judge"}
                            \/ /\ place[b] \in {"expire", "judge"}
                               /\ client'[b] = client[b] /\ counted'[b] = counted[b] /\ got'[b] = got[b]
  PROVE  LimitInv'
<1>1. \A k \in Clients : \A w \in 0..MaxCalls :
        /\ Cardinality(Waiting(k, w)') <= Cardinality(Waiting(k, w))
        /\ Cardinality(Waiting(k, w)') \in Nat /\ Cardinality(Waiting(k, w)) \in Nat
  <2> SUFFICES ASSUME NEW k \in Clients, NEW w \in 0..MaxCalls
               PROVE  /\ Cardinality(Waiting(k, w)') <= Cardinality(Waiting(k, w))
                      /\ Cardinality(Waiting(k, w)') \in Nat /\ Cardinality(Waiting(k, w)) \in Nat
    OBVIOUS
  <2>1. Waiting(k, w)' \subseteq Waiting(k, w)
    BY DEF Waiting
  <2>2. IsFiniteSet(Waiting(k, w)) /\ Cardinality(Waiting(k, w)) \in Nat
    BY WaitingFinite
  <2>. QED
    BY <2>1, <2>2, SmallerSet, FS_CardinalityType
<1>2. \A k \in Clients : \A w \in 0..MaxCalls : served[k][w] \in Nat
  BY DEF AccessInv, AccessTypeOK
<1>3. \A k \in Clients : window[k] \in Nat /\ count[k] \in Nat
  BY DEF AccessInv, AccessTypeOK
<1>4. \A k \in Clients : \A w \in 0..MaxCalls : served'[k][w] + Cardinality(Waiting(k, w)') <= Limit
  BY <1>1, <1>2, AccessConstants DEF LimitInv
<1>5. \A k \in Clients : \A w \in 0..MaxCalls :
        w = window'[k] => served'[k][w] + Cardinality(Waiting(k, w)') <= count'[k]
  BY <1>1, <1>2, <1>3 DEF LimitInv
<1>6. \A a \in Callers : place'[a] \in {"expire", "judge"} => counted'[a] <= window'[client'[a]]
  BY DEF LimitInv
<1>7. \A k \in Clients : \A w \in 0..MaxCalls : w > window'[k] => served'[k][w] = 0
  BY DEF LimitInv
<1>. QED
  BY <1>4, <1>5, <1>6, <1>7 DEF LimitInv

LEMMA LimitCount == ASSUME AccessInv, LimitInv, NEW a \in Callers, Count(a) PROVE LimitInv'
<1> DEFINE k0 == client[a]
           w0 == window[k0]
           n == count[k0] + 1
<1>. USE DEF keys, rows, caller
<1>0. /\ place[a] = "count" /\ k0 \in Clients
      /\ \A k \in Clients : count[k] \in Nat /\ window[k] \in Nat
      /\ \A k \in Clients : \A w \in 0..MaxCalls : served[k][w] \in Nat
  BY DEF Count, AccessInv, AccessTypeOK
<1>1. w0 \in Nat /\ n \in Nat
  BY <1>0
<1>2. /\ count' = [count EXCEPT ![k0] = n]
      /\ got' = [got EXCEPT ![a] = n]
      /\ counted' = [counted EXCEPT ![a] = w0]
      /\ UNCHANGED <<window, served, client>>
      /\ place'[a] \in {"expire", "judge"}
      /\ \A b \in Callers : b # a => place'[b] = place[b]
  BY DEF Count, At, AccessInv, AccessTypeOK
<1>3. /\ got'[a] = n /\ counted'[a] = w0 /\ client'[a] = k0
      /\ \A b \in Callers : b # a =>
           got'[b] = got[b] /\ counted'[b] = counted[b] /\ client'[b] = client[b]
      /\ count'[k0] = n /\ \A k \in Clients : k # k0 => count'[k] = count[k]
  BY <1>0, <1>1, <1>2 DEF AccessInv, AccessTypeOK
<1>4. \A k \in Clients : \A w \in 0..MaxCalls :
        IsFiniteSet(Waiting(k, w)) /\ Cardinality(Waiting(k, w)) \in Nat
  BY WaitingFinite
<1>5. \A k \in Clients : \A w \in 0..MaxCalls :
        ~(k = k0 /\ w = w0 /\ n <= Limit) => Waiting(k, w)' = Waiting(k, w)
  BY <1>0, <1>1, <1>2, <1>3 DEF Waiting
<1>6. ASSUME NEW k \in Clients, NEW w \in 0..MaxCalls, k = k0, w = w0, n <= Limit
      PROVE  Cardinality(Waiting(k, w)') = Cardinality(Waiting(k, w)) + 1
  <2>1. Waiting(k, w)' = Waiting(k, w) \cup {a} /\ a \notin Waiting(k, w)
    BY <1>0, <1>1, <1>2, <1>3, <1>6 DEF Waiting
  <2>. QED
    BY <1>0, <1>1, <1>4, <1>6, <2>1, FS_AddElement, ZenonT(60)
<1>7. \A k \in Clients : \A w \in 0..MaxCalls : served'[k][w] + Cardinality(Waiting(k, w)') <= Limit
  <2> SUFFICES ASSUME NEW k \in Clients, NEW w \in 0..MaxCalls
               PROVE  served'[k][w] + Cardinality(Waiting(k, w)') <= Limit
    OBVIOUS
  <2>1. CASE k = k0 /\ w = w0 /\ n <= Limit
    <3>1. served[k][w] + Cardinality(Waiting(k, w)) <= count[k]
      BY <1>0, <1>1, <2>1 DEF LimitInv
    <3>. QED
      BY <1>0, <1>1, <1>2, <1>4, <1>6, <2>1, <3>1, AccessConstants
  <2>2. CASE ~(k = k0 /\ w = w0 /\ n <= Limit)
    BY <1>2, <1>5, <2>2 DEF LimitInv
  <2>. QED
    BY <2>1, <2>2
<1>8. \A k \in Clients : \A w \in 0..MaxCalls :
        w = window'[k] => served'[k][w] + Cardinality(Waiting(k, w)') <= count'[k]
  <2> SUFFICES ASSUME NEW k \in Clients, NEW w \in 0..MaxCalls, w = window[k]
               PROVE  served[k][w] + Cardinality(Waiting(k, w)') <= count'[k]
    BY <1>2
  <2>0. served[k][w] + Cardinality(Waiting(k, w)) <= count[k]
    BY DEF LimitInv
  <2>1. CASE k = k0 /\ n <= Limit
    <3>1. Cardinality(Waiting(k, w)') = Cardinality(Waiting(k, w)) + 1
      BY <1>6, <2>1
    <3>. QED
      BY <1>0, <1>1, <1>3, <1>4, <2>0, <2>1, <3>1
  <2>2. CASE ~(k = k0 /\ n <= Limit)
    <3>1. Cardinality(Waiting(k, w)') = Cardinality(Waiting(k, w))
      BY <1>5, <2>2
    <3>2. count'[k] >= count[k]
      BY <1>0, <1>1, <1>3
    <3>. QED
      BY <1>0, <1>1, <1>3, <1>4, <2>0, <3>1, <3>2
  <2>. QED
    BY <2>1, <2>2
<1>9. \A b \in Callers : place'[b] \in {"expire", "judge"} => counted'[b] <= window'[client'[b]]
  BY <1>0, <1>1, <1>2, <1>3 DEF LimitInv
<1>10. \A k \in Clients : \A w \in 0..MaxCalls : w > window'[k] => served'[k][w] = 0
  BY <1>2 DEF LimitInv
<1>. QED
  BY <1>7, <1>8, <1>9, <1>10 DEF LimitInv

LEMMA LimitJudge ==
  ASSUME AccessInv, LimitInv, NEW a \in Callers, Judge(a), ~Exceeds(got[a]) PROVE LimitInv'
<1> DEFINE k0 == client[a]
           w0 == counted[a]
<1>. USE DEF keys, rows, caller
<1>. place[a] = "judge"
  BY DEF Judge
<1>0. /\ place[a] = "judge" /\ k0 \in Clients /\ w0 \in Nat /\ got[a] \in Nat
      /\ \A k \in Clients : count[k] \in Nat /\ window[k] \in Nat
      /\ \A k \in Clients : \A w \in 0..MaxCalls : served[k][w] \in Nat
  BY DEF AccessInv, AccessTypeOK
<1>1. got[a] <= Limit /\ w0 <= window[k0]
  BY <1>0, AccessConstants DEF Exceeds, LimitInv
<1>2. /\ UNCHANGED <<count, window, client, got, counted>>
      /\ place'[a] = "admitted"
      /\ \A b \in Callers : b # a => place'[b] = place[b]
      /\ served' = [served EXCEPT ![k0] = [served[k0] EXCEPT ![w0] = @ + 1]]
  BY <1>0, <1>1 DEF Judge, At, AccessInv, AccessTypeOK
<1>3. \A k \in Clients : \A w \in 0..MaxCalls :
        served'[k][w] = IF k = k0 /\ w = w0 THEN served[k][w] + 1 ELSE served[k][w]
  <2> SUFFICES ASSUME NEW k \in Clients, NEW w \in 0..MaxCalls
               PROVE  served'[k][w] = IF k = k0 /\ w = w0 THEN served[k][w] + 1 ELSE served[k][w]
    OBVIOUS
  <2>1. CASE k # k0
    BY <1>0, <1>1, <1>2, <2>1 DEF AccessInv, AccessTypeOK
  <2>2. CASE k = k0
    <3>1. served'[k] = [served[k0] EXCEPT ![w0] = @ + 1] /\ served[k0] \in [0..MaxCalls -> Nat]
      BY <1>0, <1>1, <1>2, <2>2 DEF AccessInv, AccessTypeOK
    <3>. QED
      BY <2>2, <3>1
  <2>. QED
    BY <2>1, <2>2
<1>4. \A k \in Clients : \A w \in 0..MaxCalls :
        IsFiniteSet(Waiting(k, w)) /\ Cardinality(Waiting(k, w)) \in Nat
  BY WaitingFinite
<1>5. \A k \in Clients : \A w \in 0..MaxCalls : ~(k = k0 /\ w = w0) => Waiting(k, w)' = Waiting(k, w)
  BY <1>0, <1>1, <1>2 DEF Waiting
<1>6. ASSUME NEW k \in Clients, NEW w \in 0..MaxCalls, k = k0, w = w0
      PROVE  Cardinality(Waiting(k, w)') = Cardinality(Waiting(k, w)) - 1
  <2>1. a \in Waiting(k, w)
    BY <1>0, <1>1, <1>6 DEF Waiting
  <2>2. Waiting(k, w)' = Waiting(k, w) \ {a}
    BY <1>2 DEF Waiting
  <2>. QED
    BY <1>4, <2>1, <2>2, FS_RemoveElement
<1>11. \A k \in Clients : \A w \in 0..MaxCalls :
         served'[k][w] + Cardinality(Waiting(k, w)') = served[k][w] + Cardinality(Waiting(k, w))
  BY <1>0, <1>1, <1>3, <1>4, <1>5, <1>6
<1>7. \A k \in Clients : \A w \in 0..MaxCalls : served'[k][w] + Cardinality(Waiting(k, w)') <= Limit
  BY <1>0, <1>11 DEF LimitInv
<1>8. \A k \in Clients : \A w \in 0..MaxCalls :
        w = window'[k] => served'[k][w] + Cardinality(Waiting(k, w)') <= count'[k]
  BY <1>2, <1>11 DEF LimitInv
<1>9. \A b \in Callers : place'[b] \in {"expire", "judge"} => counted'[b] <= window'[client'[b]]
  BY <1>0, <1>1, <1>2 DEF LimitInv
<1>10. \A k \in Clients : \A w \in 0..MaxCalls : w > window'[k] => served'[k][w] = 0
  BY <1>0, <1>1, <1>2, <1>3 DEF LimitInv
<1>. QED
  BY <1>7, <1>8, <1>9, <1>10 DEF LimitInv

LEMMA LimitWindowEnds == ASSUME AccessInv, LimitInv, NEW k0 \in Clients, WindowEnds(k0) PROVE LimitInv'
<1>. USE DEF keys, rows, caller
<1>1. /\ \A k \in Clients : count[k] \in Nat /\ window[k] \in Nat
      /\ \A k \in Clients : \A w \in 0..MaxCalls : served[k][w] \in Nat
      /\ \A b \in Callers : counted[b] \in Nat
      /\ \A b \in Callers : place[b] \in {"expire", "judge"} => client[b] \in Clients
  BY DEF AccessInv, AccessTypeOK
<1>2. UNCHANGED <<served, place, client, got, counted>>
  BY DEF WindowEnds
<1>3. /\ window'[k0] = window[k0] + 1 /\ count'[k0] = 0
      /\ \A k \in Clients : k # k0 => window'[k] = window[k] /\ count'[k] = count[k]
  BY DEF WindowEnds, AccessInv, AccessTypeOK
<1>4. \A k \in Clients : \A w \in 0..MaxCalls : Waiting(k, w)' = Waiting(k, w)
  BY <1>2 DEF Waiting
<1>5. ASSUME NEW w \in 0..MaxCalls, w = window[k0] + 1
      PROVE  served[k0][w] + Cardinality(Waiting(k0, w)) <= 0
  <2>1. served[k0][w] = 0
    BY <1>1, <1>5 DEF LimitInv
  <2>2. Waiting(k0, w) = {}
    BY <1>1, <1>5 DEF Waiting, LimitInv
  <2>. QED
    BY <2>1, <2>2, FS_EmptySet
<1>6. \A k \in Clients : \A w \in 0..MaxCalls : served'[k][w] + Cardinality(Waiting(k, w)') <= Limit
  BY <1>2, <1>4 DEF LimitInv
<1>7. \A k \in Clients : \A w \in 0..MaxCalls :
        w = window'[k] => served'[k][w] + Cardinality(Waiting(k, w)') <= count'[k]
  BY <1>2, <1>3, <1>4, <1>5 DEF LimitInv
<1>8. \A b \in Callers : place'[b] \in {"expire", "judge"} => counted'[b] <= window'[client'[b]]
  <2> SUFFICES ASSUME NEW b \in Callers, place[b] \in {"expire", "judge"}
               PROVE  counted[b] <= window'[client[b]]
    BY <1>2
  <2>1. client[b] \in Clients /\ counted[b] <= window[client[b]]
    BY <1>1 DEF LimitInv
  <2>2. window'[client[b]] >= window[client[b]] /\ window'[client[b]] \in Nat
    BY <1>1, <1>3, <2>1
  <2>. QED
    BY <1>1, <2>1, <2>2
<1>9. \A k \in Clients : \A w \in 0..MaxCalls : w > window'[k] => served'[k][w] = 0
  <2> SUFFICES ASSUME NEW k \in Clients, NEW w \in 0..MaxCalls, w > window'[k]
               PROVE  served[k][w] = 0
    BY <1>2
  <2>1. w > window[k]
    BY <1>1, <1>3
  <2>. QED
    BY <2>1 DEF LimitInv
<1>. QED
  BY <1>6, <1>7, <1>8, <1>9 DEF LimitInv

LEMMA LimitStep == AccessInv /\ LimitInv /\ [AccessNext]_accessVars => LimitInv'
<1> SUFFICES ASSUME AccessInv, LimitInv, [AccessNext]_accessVars PROVE LimitInv'
  OBVIOUS
<1>. USE DEF keys, rows, caller
<1>1. ASSUME NEW k \in Clients, WindowEnds(k) PROVE LimitInv'
  BY <1>1, LimitWindowEnds
<1>2. ASSUME NEW a \in Callers, Count(a) PROVE LimitInv'
  BY <1>2, LimitCount
<1>3. ASSUME NEW a \in Callers, Judge(a), ~Exceeds(got[a]) PROVE LimitInv'
  BY <1>3, LimitJudge
<1>4. ASSUME NEW a \in Callers,
             \/ \E k \in Clients : LimitedCall(a, k)
             \/ CountFails(a) \/ SetExpiry(a) \/ ExpiryFails(a)
             \/ Judge(a) /\ Exceeds(got[a])
             \/ \E r \in Registrations : Register(a, r)
             \/ \E j \in Joins : Join(a, j)
             \/ RouteStep(a) \/ HandlerDies(a)
      PROVE  LimitInv'
  <2>1. UNCHANGED <<served, window>>
    BY <1>4 DEF LimitedCall, CountFails, SetExpiry, ExpiryFails, Judge, Register, Join, RouteStep,
                LogIn, CheckEmail, AddTenant, AddUser, Commit, Conflict, HandlerDies
  <2>2. \A k \in Clients : count'[k] \in Nat /\ count'[k] >= count[k]
    <3>0. \A k \in Clients : count[k] \in Nat
      BY DEF AccessInv, AccessTypeOK
    <3>1. UNCHANGED count \/ count' = [count EXCEPT ![client[a]] = @ + 1]
      BY <1>4 DEF LimitedCall, CountFails, SetExpiry, ExpiryFails, Judge, Register, Join,
                  RouteStep, LogIn, CheckEmail, AddTenant, AddUser, Commit, Conflict, HandlerDies
    <3>2. count \in [Clients -> Nat]
      BY DEF AccessInv, AccessTypeOK
    <3>3. \A k \in Clients : count'[k] = count[k] \/ count'[k] = count[k] + 1
      BY <3>1, <3>2
    <3>. QED
      BY <3>0, <3>3
  <2>3. \A b \in Callers : b # a =>
          place'[b] = place[b] /\ client'[b] = client[b] /\ counted'[b] = counted[b] /\ got'[b] = got[b]
    BY <1>4 DEF LimitedCall, Call, CountFails, SetExpiry, ExpiryFails, Judge, Register, Join,
                RouteStep, LogIn, CheckEmail, AddTenant, AddUser, Commit, Conflict, HandlerDies,
                Rollback, Leave, At, AccessInv, AccessTypeOK, AccessShape
  <2>4. \/ place'[a] \notin {"expire", "judge"}
        \/ /\ place[a] \in {"expire", "judge"}
           /\ client'[a] = client[a] /\ counted'[a] = counted[a] /\ got'[a] = got[a]
    BY <1>4 DEF LimitedCall, Call, CountFails, SetExpiry, ExpiryFails, Judge, Register, Join,
                RouteStep, LogIn, CheckEmail, AddTenant, AddUser, Commit, Conflict, HandlerDies,
                Rollback, Leave, At, AccessInv, AccessTypeOK, AccessShape
  <2>. QED
    BY <2>1, <2>2, <2>3, <2>4, LimitQuiet
<1>5. CASE UNCHANGED accessVars
  <2>1. UNCHANGED <<served, window, count, place, client, counted, got>>
    BY <1>5 DEF accessVars
  <2>. QED
    BY <2>1 DEF LimitInv, Waiting
<1>. QED
  BY <1>1, <1>2, <1>3, <1>4, <1>5 DEF AccessNext, LimiterStep

\* No window of a client admits more than Limit calls by its count, however calls interleave
\* with each other, with the end of the window they were counted in and with failures.
THEOREM LimitHolds == AccessSpec => []WindowLimit
<1>1. AccessInit => LimitInv
  <2> SUFFICES ASSUME AccessInit PROVE LimitInv
    OBVIOUS
  <2>1. \A k \in Clients : \A w \in 0..MaxCalls :
          Waiting(k, w) = {} /\ served[k][w] = 0 /\ count[k] = 0
    BY DEF AccessInit, Waiting
  <2>2. \A a \in Callers : place[a] = "idle"
    BY DEF AccessInit
  <2>3. \A k \in Clients : \A w \in 0..MaxCalls :
          served[k][w] + Cardinality(Waiting(k, w)) = 0 /\ count[k] = 0
    BY <2>1, FS_EmptySet
  <2>4. Limit \in Nat
    BY AccessConstants
  <2>. QED
    BY <2>1, <2>2, <2>3, <2>4 DEF LimitInv
<1>2. AccessInv /\ LimitInv => WindowLimit
  <2> SUFFICES ASSUME AccessInv, LimitInv, NEW k \in Clients, NEW w \in 0..MaxCalls
               PROVE  served[k][w] <= Limit
    BY DEF WindowLimit
  <2>1. served[k][w] \in Nat /\ Cardinality(Waiting(k, w)) \in Nat
    BY WaitingFinite DEF AccessInv, AccessTypeOK
  <2>2. served[k][w] + Cardinality(Waiting(k, w)) <= Limit
    BY DEF LimitInv
  <2>. QED
    BY <2>1, <2>2, AccessConstants
<1>3. AccessSpec => []LimitInv
  BY <1>1, LimitStep, AccessInvariance, PTL DEF AccessSpec
<1>. QED
  BY <1>2, <1>3, AccessInvariance, PTL

-----------------------------------------------------------------------------
(* The tenants.  A draft belongs to the session that is about to commit it, with the form
   it was made from; a session about to commit has made every row its form asks for. *)

DraftsHaveAuthors ==
  /\ \A s \in Slugs : tenant[s] # Nobody /\ tenant[s].by # Nobody =>
       LET a == tenant[s].by
       IN  a \in Callers /\ place[a] \in {"user", "commit"} /\ form[a] \in Registrations /\ form[a].slug = s
  /\ \A e \in Emails : user[e] # Nobody /\ user[e].by # Nobody =>
       LET a == user[e].by
       IN  a \in Callers /\ place[a] = "commit" /\ form[a] \in Forms /\ form[a].email = e

AuthorsHaveDrafts ==
  \A a \in Callers :
    /\ place[a] = "commit" =>
         LET u == user[form[a].email]
         IN  u # Nobody /\ u.by = a /\ u.slug = form[a].slug /\ (form[a] \in Registrations => u.role = "owner")
    /\ place[a] \in {"user", "commit"} /\ form[a] \in Registrations =>
         tenant[form[a].slug] # Nobody /\ tenant[form[a].slug].by = a
    /\ place[a] \in {"email", "user", "commit"} /\ form[a] \in Joins => Final(tenant[form[a].slug])

WholeInv == DraftsHaveAuthors /\ AuthorsHaveDrafts /\ TenantsAreWhole

LEMMA SettleFacts ==
  ASSUME AccessInv, NEW a \in Callers
  PROVE  /\ \A s \in Slugs : LET r == tenant[s] IN
              /\ Final(Settle(a, r)) <=> Final(r) \/ (r # Nobody /\ r.by = a)
              /\ Settle(a, r) # Nobody <=> r # Nobody
              /\ r # Nobody => Settle(a, r).name = r.name
              /\ Settle(a, r) # Nobody /\ Settle(a, r).by # Nobody => Settle(a, r) = r /\ r.by # a
              /\ (r = Nobody \/ r.by # a) => Settle(a, r) = r
         /\ \A e \in Emails : LET r == user[e] IN
              /\ Final(Settle(a, r)) <=> Final(r) \/ (r # Nobody /\ r.by = a)
              /\ Settle(a, r) # Nobody <=> r # Nobody
              /\ r # Nobody => Settle(a, r).slug = r.slug /\ Settle(a, r).role = r.role
              /\ Settle(a, r) # Nobody /\ Settle(a, r).by # Nobody => Settle(a, r) = r /\ r.by # a
              /\ (r = Nobody \/ r.by # a) => Settle(a, r) = r
<1>0. Nobody \notin Callers /\ Nobody \notin TenantRow /\ Nobody \notin UserRow
  BY AccessConstants
<1>1. ASSUME NEW r \in TenantRow \cup {Nobody}
      PROVE  /\ Final(Settle(a, r)) <=> Final(r) \/ (r # Nobody /\ r.by = a)
             /\ Settle(a, r) # Nobody <=> r # Nobody
             /\ r # Nobody => Settle(a, r).name = r.name
             /\ Settle(a, r) # Nobody /\ Settle(a, r).by # Nobody => Settle(a, r) = r /\ r.by # a
             /\ (r = Nobody \/ r.by # a) => Settle(a, r) = r
  <2>1. CASE r # Nobody /\ r.by = a
    <3>1. /\ Settle(a, r) = [r EXCEPT !.by = Nobody] /\ [r EXCEPT !.by = Nobody] \in TenantRow
          /\ [r EXCEPT !.by = Nobody].name = r.name /\ [r EXCEPT !.by = Nobody].by = Nobody
      BY <2>1 DEF Settle, TenantRow, Author
    <3>. QED
      BY <1>0, <2>1, <3>1 DEF Final
  <2>2. CASE ~(r # Nobody /\ r.by = a)
    BY <2>2 DEF Settle
  <2>. QED
    BY <2>1, <2>2
<1>2. ASSUME NEW r \in UserRow \cup {Nobody}
      PROVE  /\ Final(Settle(a, r)) <=> Final(r) \/ (r # Nobody /\ r.by = a)
             /\ Settle(a, r) # Nobody <=> r # Nobody
             /\ r # Nobody => Settle(a, r).slug = r.slug /\ Settle(a, r).role = r.role
             /\ Settle(a, r) # Nobody /\ Settle(a, r).by # Nobody => Settle(a, r) = r /\ r.by # a
             /\ (r = Nobody \/ r.by # a) => Settle(a, r) = r
  <2>1. CASE r # Nobody /\ r.by = a
    <3>1. /\ Settle(a, r) = [r EXCEPT !.by = Nobody] /\ [r EXCEPT !.by = Nobody] \in UserRow
          /\ [r EXCEPT !.by = Nobody].slug = r.slug /\ [r EXCEPT !.by = Nobody].role = r.role
          /\ [r EXCEPT !.by = Nobody].by = Nobody
      BY <2>1 DEF Settle, UserRow, Author
    <3>. QED
      BY <1>0, <2>1, <3>1 DEF Final
  <2>2. CASE ~(r # Nobody /\ r.by = a)
    BY <2>2 DEF Settle
  <2>. QED
    BY <2>1, <2>2
<1>. QED
  BY <1>1, <1>2 DEF AccessInv, AccessShape

\* A step that leaves the rows alone, and no session where drafts are or on its way there
\* unless it was there already, or goes on with a tenant that is there.
LEMMA WholeQuiet ==
  ASSUME AccessInv, WholeInv, tenant' = tenant, user' = user,
         \A b \in Callers :
           \/ place'[b] = place[b] /\ form'[b] = form[b]
           \/ /\ place[b] \notin {"user", "commit"}
              /\ \/ place'[b] \notin {"email", "user", "commit"}
                 \/ place'[b] = "email" /\ form'[b] \in Registrations
                 \/ place'[b] \in {"email", "user"} /\ form'[b] \in Joins /\ Final(tenant[form'[b].slug])
  PROVE  WholeInv'
<1>1. DraftsHaveAuthors'
  BY DEF WholeInv, DraftsHaveAuthors
<1>2. AuthorsHaveDrafts'
  BY FormFields DEF WholeInv, AuthorsHaveDrafts, Final
<1>3. TenantsAreWhole'
  BY DEF WholeInv, TenantsAreWhole, Final
<1>. QED
  BY <1>1, <1>2, <1>3 DEF WholeInv

LEMMA WholeAddTenant == ASSUME AccessInv, WholeInv, NEW a \in Callers, AddTenant(a) PROVE WholeInv'
<1> DEFINE s == form[a].slug
<1>. USE DEF keys, rows, caller
<1>1. /\ place[a] = "tenant" /\ form[a] \in Registrations /\ form[a] \in Forms /\ form[a] \notin Joins
      /\ s \in Slugs /\ UNCHANGED <<user, form>>
      /\ tenant[s] = Nobody
      /\ \A t \in Slugs : tenant[t] # Nobody => tenant[t].name # form[a].name
  BY FormFields DEF AddTenant, AccessInv, AccessTypeOK, Forms
<1>2. /\ tenant'[s] = [name |-> form[a].name, by |-> a] /\ tenant'[s] # Nobody
      /\ \A t \in Slugs : t # s => tenant'[t] = tenant[t]
      /\ place'[a] = "user" /\ \A b \in Callers : b # a => place'[b] = place[b]
  <2>1. [name |-> form[a].name, by |-> a] \in TenantRow
    BY <1>1, FormFields DEF TenantRow, Author
  <2>. QED
    BY <1>1, <2>1, AccessConstants DEF AddTenant, Draft, At, AccessInv, AccessTypeOK, AccessShape
<1>3. tenant'[s].by = a /\ tenant'[s].name = form[a].name /\ a # Nobody
  BY <1>2, AccessConstants
<1>4. DraftsHaveAuthors'
  <2>1. \A t \in Slugs : tenant'[t] # Nobody /\ tenant'[t].by # Nobody =>
          LET b == tenant'[t].by
          IN  b \in Callers /\ place'[b] \in {"user", "commit"} /\ form'[b] \in Registrations /\ form'[b].slug = t
    BY <1>1, <1>2, <1>3 DEF WholeInv, DraftsHaveAuthors
  <2>2. \A e \in Emails : user'[e] # Nobody /\ user'[e].by # Nobody =>
          LET b == user'[e].by
          IN  b \in Callers /\ place'[b] = "commit" /\ form'[b] \in Forms /\ form'[b].email = e
    BY <1>1, <1>2 DEF WholeInv, DraftsHaveAuthors
  <2>. QED
    BY <2>1, <2>2 DEF DraftsHaveAuthors
<1>5. AuthorsHaveDrafts'
  <2> SUFFICES ASSUME NEW b \in Callers
               PROVE  /\ place'[b] = "commit" =>
                           LET u == user'[form'[b].email]
                           IN  u # Nobody /\ u.by = b /\ u.slug = form'[b].slug
                               /\ (form'[b] \in Registrations => u.role = "owner")
                      /\ place'[b] \in {"user", "commit"} /\ form'[b] \in Registrations =>
                           tenant'[form'[b].slug] # Nobody /\ tenant'[form'[b].slug].by = b
                      /\ place'[b] \in {"email", "user", "commit"} /\ form'[b] \in Joins =>
                           Final(tenant'[form'[b].slug])
    BY DEF AuthorsHaveDrafts, Final
  <2>1. CASE b = a
    BY <1>1, <1>2, <1>3, <2>1
  <2>2. CASE b # a
    <3>1. form[b] \in Forms => form[b].slug \in Slugs
      BY FormFields
    <3>. QED
      BY <1>1, <1>2, <2>2, <3>1 DEF WholeInv, AuthorsHaveDrafts, Final, Forms
  <2>. QED
    BY <2>1, <2>2
<1>6. TenantsAreWhole'
  <2>1. \A t \in Slugs : Final(tenant'[t]) <=> Final(tenant[t])
    BY <1>1, <1>2, <1>3 DEF Final
  <2>2. \A e \in Emails : Final(user[e]) => user[e].slug \in Slugs
    BY AccessConstants DEF Final, AccessInv, AccessShape, UserRow
  <2>3. \A t, u \in Slugs : t # u /\ tenant'[t] # Nobody /\ tenant'[u] # Nobody =>
          tenant'[t].name # tenant'[u].name
    BY <1>1, <1>2, <1>3 DEF WholeInv, TenantsAreWhole
  <2>4. \A t \in Slugs : Final(tenant'[t]) =>
          \E e \in Emails : Final(user'[e]) /\ user'[e].slug = t /\ user'[e].role = "owner"
    BY <1>1, <2>1 DEF WholeInv, TenantsAreWhole
  <2>5. \A e \in Emails : Final(user'[e]) => Final(tenant'[user'[e].slug])
    BY <1>1, <2>1, <2>2 DEF WholeInv, TenantsAreWhole
  <2>. QED
    BY <2>3, <2>4, <2>5 DEF TenantsAreWhole, Final
<1>. QED
  BY <1>4, <1>5, <1>6 DEF WholeInv

LEMMA WholeAddUser == ASSUME AccessInv, WholeInv, NEW a \in Callers, AddUser(a) PROVE WholeInv'
<1> DEFINE m == form[a].email
<1>. USE DEF keys, rows, caller
<1>1. /\ place[a] = "user" /\ form[a] \in Forms /\ m \in Emails /\ form[a].slug \in Slugs
      /\ user[m] = Nobody /\ UNCHANGED <<tenant, form>>
  BY FormFields DEF AddUser, AccessInv, AccessTypeOK, Forms
<1>2. /\ user'[m] = [slug |-> form[a].slug, role |-> IF Joining(a) THEN form[a].role ELSE "owner", by |-> a]
      /\ \A e \in Emails : e # m => user'[e] = user[e]
      /\ place'[a] = "commit" /\ \A b \in Callers : b # a => place'[b] = place[b]
  BY <1>1 DEF AddUser, At, AccessInv, AccessTypeOK, AccessShape
<1>3. user'[m] # Nobody /\ a # Nobody
  <2>1. [slug |-> form[a].slug, role |-> IF Joining(a) THEN form[a].role ELSE "owner", by |-> a] \in UserRow
    <3>1. (IF Joining(a) THEN form[a].role ELSE "owner") \in Roles
      BY DEF Joining, Roles
    <3>. QED
      BY <1>1, <3>1 DEF UserRow, Author
  <2>. QED
    BY <1>2, <2>1, AccessConstants
<1>4. /\ user'[m].by = a /\ user'[m].slug = form[a].slug
      /\ form[a] \in Registrations => user'[m].role = "owner"
  BY <1>2, FormFields DEF Joining
<1>5. DraftsHaveAuthors'
  <2>1. \A t \in Slugs : tenant'[t] # Nobody /\ tenant'[t].by # Nobody =>
          LET b == tenant'[t].by
          IN  b \in Callers /\ place'[b] \in {"user", "commit"} /\ form'[b] \in Registrations /\ form'[b].slug = t
    BY <1>1, <1>2 DEF WholeInv, DraftsHaveAuthors
  <2>2. \A e \in Emails : user'[e] # Nobody /\ user'[e].by # Nobody =>
          LET b == user'[e].by
          IN  b \in Callers /\ place'[b] = "commit" /\ form'[b] \in Forms /\ form'[b].email = e
    BY <1>1, <1>2, <1>4 DEF WholeInv, DraftsHaveAuthors
  <2>. QED
    BY <2>1, <2>2 DEF DraftsHaveAuthors
<1>6. AuthorsHaveDrafts'
  <2> SUFFICES ASSUME NEW b \in Callers
               PROVE  /\ place'[b] = "commit" =>
                           LET u == user'[form'[b].email]
                           IN  u # Nobody /\ u.by = b /\ u.slug = form'[b].slug
                               /\ (form'[b] \in Registrations => u.role = "owner")
                      /\ place'[b] \in {"user", "commit"} /\ form'[b] \in Registrations =>
                           tenant'[form'[b].slug] # Nobody /\ tenant'[form'[b].slug].by = b
                      /\ place'[b] \in {"email", "user", "commit"} /\ form'[b] \in Joins =>
                           Final(tenant'[form'[b].slug])
    BY DEF AuthorsHaveDrafts, Final
  <2>1. CASE b = a
    BY <1>1, <1>2, <1>3, <1>4, <2>1 DEF WholeInv, AuthorsHaveDrafts, Final
  <2>2. CASE b # a
    <3>1. place[b] = "commit" => form[b].email \in Emails
      BY FormFields DEF AccessInv, AccessTypeOK, Forms
    <3>. QED
      BY <1>1, <1>2, <2>2, <3>1 DEF WholeInv, AuthorsHaveDrafts, Final
  <2>. QED
    BY <2>1, <2>2
<1>7. TenantsAreWhole'
  <2>1. \A e \in Emails : /\ Final(user'[e]) <=> Final(user[e])
                          /\ Final(user[e]) => user'[e] = user[e]
    BY <1>1, <1>2, <1>3, <1>4 DEF Final
  <2>. QED
    BY <1>1, <2>1 DEF WholeInv, TenantsAreWhole, Final
<1>. QED
  BY <1>5, <1>6, <1>7 DEF WholeInv

LEMMA WholeCommit == ASSUME AccessInv, WholeInv, NEW a \in Callers, Commit(a) PROVE WholeInv'
<1>. USE DEF keys
<1>1. /\ place[a] = "commit" /\ form[a] \in Forms
      /\ form[a].slug \in Slugs /\ form[a].email \in Emails
  BY FormFields DEF Commit, AccessInv, AccessTypeOK, Forms
<1>2. /\ tenant' = [s \in Slugs |-> Settle(a, tenant[s])]
      /\ user' = [e \in Emails |-> Settle(a, user[e])]
      /\ place'[a] = "idle"
      /\ \A b \in Callers : b # a => place'[b] = place[b] /\ form'[b] = form[b]
  BY DEF Commit, Leave, At, AccessInv, AccessTypeOK, AccessShape
<1> DEFINE Mine(r) == r # Nobody /\ r.by = a
<1>3. \A s \in Slugs :
        /\ Final(tenant'[s]) <=> Final(tenant[s]) \/ Mine(tenant[s])
        /\ tenant'[s] # Nobody <=> tenant[s] # Nobody
        /\ tenant[s] # Nobody => tenant'[s].name = tenant[s].name
        /\ tenant'[s] # Nobody /\ tenant'[s].by # Nobody => tenant'[s] = tenant[s] /\ tenant[s].by # a
        /\ ~Mine(tenant[s]) => tenant'[s] = tenant[s]
  BY <1>2, SettleFacts
<1>4. \A e \in Emails :
        /\ Final(user'[e]) <=> Final(user[e]) \/ Mine(user[e])
        /\ user'[e] # Nobody <=> user[e] # Nobody
        /\ user[e] # Nobody => user'[e].slug = user[e].slug /\ user'[e].role = user[e].role
        /\ user'[e] # Nobody /\ user'[e].by # Nobody => user'[e] = user[e] /\ user[e].by # a
        /\ ~Mine(user[e]) => user'[e] = user[e]
  BY <1>2, SettleFacts
<1>5. a # Nobody
  BY AccessConstants
<1>6. DraftsHaveAuthors'
  <2>1. \A t \in Slugs : tenant'[t] # Nobody /\ tenant'[t].by # Nobody =>
          LET b == tenant'[t].by
          IN  b \in Callers /\ place'[b] \in {"user", "commit"} /\ form'[b] \in Registrations /\ form'[b].slug = t
    BY <1>2, <1>3 DEF WholeInv, DraftsHaveAuthors
  <2>2. \A e \in Emails : user'[e] # Nobody /\ user'[e].by # Nobody =>
          LET b == user'[e].by
          IN  b \in Callers /\ place'[b] = "commit" /\ form'[b] \in Forms /\ form'[b].email = e
    BY <1>2, <1>4 DEF WholeInv, DraftsHaveAuthors
  <2>. QED
    BY <2>1, <2>2 DEF DraftsHaveAuthors
<1>7. AuthorsHaveDrafts'
  <2> SUFFICES ASSUME NEW b \in Callers
               PROVE  /\ place'[b] = "commit" =>
                           LET u == user'[form'[b].email]
                           IN  u # Nobody /\ u.by = b /\ u.slug = form'[b].slug
                               /\ (form'[b] \in Registrations => u.role = "owner")
                      /\ place'[b] \in {"user", "commit"} /\ form'[b] \in Registrations =>
                           tenant'[form'[b].slug] # Nobody /\ tenant'[form'[b].slug].by = b
                      /\ place'[b] \in {"email", "user", "commit"} /\ form'[b] \in Joins =>
                           Final(tenant'[form'[b].slug])
    BY DEF AuthorsHaveDrafts, Final
  <2>1. CASE b = a
    BY <1>2, <2>1
  <2>2. CASE b # a
    <3>1. place[b] \in {"email", "user", "commit"} => form[b].slug \in Slugs /\ form[b].email \in Emails
      BY FormFields DEF AccessInv, AccessTypeOK, Forms
    <3>2. place[b] = "commit" =>
            LET u == user'[form[b].email]
            IN  u # Nobody /\ u.by = b /\ u.slug = form[b].slug
                /\ (form[b] \in Registrations => u.role = "owner")
      BY <1>4, <2>2, <3>1 DEF WholeInv, AuthorsHaveDrafts
    <3>3. place[b] \in {"user", "commit"} /\ form[b] \in Registrations =>
            tenant'[form[b].slug] # Nobody /\ tenant'[form[b].slug].by = b
      BY <1>3, <2>2, <3>1 DEF WholeInv, AuthorsHaveDrafts
    <3>4. place[b] \in {"email", "user", "commit"} /\ form[b] \in Joins => Final(tenant'[form[b].slug])
      BY <1>3, <2>2, <3>1 DEF WholeInv, AuthorsHaveDrafts
    <3>. QED
      BY <1>2, <2>2, <3>2, <3>3, <3>4
  <2>. QED
    BY <2>1, <2>2
<1>8. TenantsAreWhole'
  <2>1. ASSUME NEW s \in Slugs, Final(tenant'[s])
        PROVE  \E e \in Emails : Final(user'[e]) /\ user'[e].slug = s /\ user'[e].role = "owner"
    <3>1. CASE Final(tenant[s])
      <4>1. PICK e \in Emails : Final(user[e]) /\ user[e].slug = s /\ user[e].role = "owner"
        BY <3>1 DEF WholeInv, TenantsAreWhole
      <4>. QED
        BY <1>4, <4>1 DEF Final
    <3>2. CASE Mine(tenant[s])
      <4>1. form[a] \in Registrations /\ form[a].slug = s
        BY <1>5, <3>2 DEF WholeInv, DraftsHaveAuthors
      <4>2. /\ Mine(user[form[a].email])
            /\ user[form[a].email].slug = s /\ user[form[a].email].role = "owner"
        BY <1>1, <4>1 DEF WholeInv, AuthorsHaveDrafts
      <4>. QED
        BY <1>1, <1>4, <4>2
    <3>. QED
      BY <1>3, <2>1, <3>1, <3>2
  <2>2. ASSUME NEW e \in Emails, Final(user'[e])
        PROVE  Final(tenant'[user'[e].slug])
    <3>0. user[e] # Nobody /\ user[e].slug \in Slugs /\ user'[e].slug = user[e].slug
      BY <1>4, <2>2 DEF Final, AccessInv, AccessShape, UserRow
    <3>1. CASE Final(user[e])
      <4>1. Final(tenant[user[e].slug])
        BY <3>1 DEF WholeInv, TenantsAreWhole
      <4>. QED
        BY <1>3, <3>0, <4>1
    <3>2. CASE Mine(user[e])
      <4>1. user[e].slug = form[a].slug
        BY <1>1, <1>5, <3>2 DEF WholeInv, DraftsHaveAuthors, AuthorsHaveDrafts
      <4>2. CASE form[a] \in Registrations
        <5>1. Mine(tenant[form[a].slug])
          BY <1>1, <4>2 DEF WholeInv, AuthorsHaveDrafts
        <5>. QED
          BY <1>3, <3>0, <4>1, <5>1
      <4>3. CASE form[a] \in Joins
        <5>1. Final(tenant[form[a].slug])
          BY <1>1, <4>3 DEF WholeInv, AuthorsHaveDrafts
        <5>. QED
          BY <1>3, <3>0, <4>1, <5>1
      <4>. QED
        BY <1>1, <4>2, <4>3 DEF Forms
    <3>. QED
      BY <1>4, <2>2, <3>1, <3>2
  <2>3. \A t, u \in Slugs : t # u /\ tenant'[t] # Nobody /\ tenant'[u] # Nobody =>
          tenant'[t].name # tenant'[u].name
    BY <1>3 DEF WholeInv, TenantsAreWhole
  <2>. QED
    BY <2>1, <2>2, <2>3 DEF TenantsAreWhole, Final
<1>. QED
  BY <1>6, <1>7, <1>8 DEF WholeInv

LEMMA WholeRollback == ASSUME AccessInv, WholeInv, NEW a \in Callers, Rollback(a) PROVE WholeInv'
<1>1. /\ tenant' = [s \in Slugs |-> Discard(a, tenant[s])]
      /\ user' = [e \in Emails |-> Discard(a, user[e])]
      /\ place'[a] = "idle"
      /\ \A b \in Callers : b # a => place'[b] = place[b] /\ form'[b] = form[b]
  BY DEF Rollback, Leave, At, AccessInv, AccessTypeOK, AccessShape
<1>2. a # Nobody
  BY AccessConstants
<1>3. \A s \in Slugs : /\ Final(tenant'[s]) <=> Final(tenant[s])
                       /\ tenant'[s] # Nobody => tenant'[s] = tenant[s] /\ tenant[s].by # a
                       /\ tenant[s] # Nobody /\ tenant[s].by # a => tenant'[s] = tenant[s]
  BY <1>1, <1>2 DEF Discard, Final
<1>4. \A e \in Emails : /\ Final(user'[e]) <=> Final(user[e])
                        /\ user'[e] # Nobody => user'[e] = user[e] /\ user[e].by # a
                        /\ user[e] # Nobody /\ user[e].by # a => user'[e] = user[e]
  BY <1>1, <1>2 DEF Discard, Final
<1>5. DraftsHaveAuthors'
  <2>1. \A t \in Slugs : tenant'[t] # Nobody /\ tenant'[t].by # Nobody =>
          LET b == tenant'[t].by
          IN  b \in Callers /\ place'[b] \in {"user", "commit"} /\ form'[b] \in Registrations /\ form'[b].slug = t
    BY <1>1, <1>3 DEF WholeInv, DraftsHaveAuthors
  <2>2. \A e \in Emails : user'[e] # Nobody /\ user'[e].by # Nobody =>
          LET b == user'[e].by
          IN  b \in Callers /\ place'[b] = "commit" /\ form'[b] \in Forms /\ form'[b].email = e
    BY <1>1, <1>4 DEF WholeInv, DraftsHaveAuthors
  <2>. QED
    BY <2>1, <2>2 DEF DraftsHaveAuthors
<1>6. AuthorsHaveDrafts'
  <2> SUFFICES ASSUME NEW b \in Callers
               PROVE  /\ place'[b] = "commit" =>
                           LET u == user'[form'[b].email]
                           IN  u # Nobody /\ u.by = b /\ u.slug = form'[b].slug
                               /\ (form'[b] \in Registrations => u.role = "owner")
                      /\ place'[b] \in {"user", "commit"} /\ form'[b] \in Registrations =>
                           tenant'[form'[b].slug] # Nobody /\ tenant'[form'[b].slug].by = b
                      /\ place'[b] \in {"email", "user", "commit"} /\ form'[b] \in Joins =>
                           Final(tenant'[form'[b].slug])
    BY DEF AuthorsHaveDrafts, Final
  <2>1. CASE b = a
    BY <1>1, <2>1
  <2>2. CASE b # a
    <3>1. place[b] \in {"email", "user", "commit"} => form[b].slug \in Slugs /\ form[b].email \in Emails
      BY FormFields DEF AccessInv, AccessTypeOK, Forms
    <3>2. place[b] = "commit" =>
            LET u == user'[form[b].email]
            IN  u # Nobody /\ u.by = b /\ u.slug = form[b].slug
                /\ (form[b] \in Registrations => u.role = "owner")
      BY <1>4, <2>2, <3>1 DEF WholeInv, AuthorsHaveDrafts
    <3>3. place[b] \in {"user", "commit"} /\ form[b] \in Registrations =>
            tenant'[form[b].slug] # Nobody /\ tenant'[form[b].slug].by = b
      BY <1>3, <2>2, <3>1 DEF WholeInv, AuthorsHaveDrafts
    <3>4. place[b] \in {"email", "user", "commit"} /\ form[b] \in Joins => Final(tenant'[form[b].slug])
      BY <1>3, <2>2, <3>1 DEF WholeInv, AuthorsHaveDrafts
    <3>. QED
      BY <1>1, <2>2, <3>2, <3>3, <3>4
  <2>. QED
    BY <2>1, <2>2
<1>7. TenantsAreWhole'
  <2>1. \A e \in Emails : Final(user[e]) => user'[e] = user[e] /\ user[e].slug \in Slugs
    BY <1>2, <1>4 DEF Final, AccessInv, AccessShape, UserRow
  <2>2. \A s \in Slugs : Final(tenant'[s]) =>
          \E e \in Emails : Final(user'[e]) /\ user'[e].slug = s /\ user'[e].role = "owner"
    BY <1>3, <1>4, <2>1 DEF WholeInv, TenantsAreWhole
  <2>3. \A e \in Emails : Final(user'[e]) => Final(tenant'[user'[e].slug])
    BY <1>3, <1>4, <2>1 DEF WholeInv, TenantsAreWhole
  <2>4. \A t, u \in Slugs : t # u /\ tenant'[t] # Nobody /\ tenant'[u] # Nobody =>
          tenant'[t].name # tenant'[u].name
    BY <1>3 DEF WholeInv, TenantsAreWhole
  <2>. QED
    BY <2>2, <2>3, <2>4 DEF TenantsAreWhole, Final
<1>. QED
  BY <1>5, <1>6, <1>7 DEF WholeInv

LEMMA WholeStep == AccessInv /\ WholeInv /\ [AccessNext]_accessVars => WholeInv'
<1> SUFFICES ASSUME AccessInv, WholeInv, [AccessNext]_accessVars PROVE WholeInv'
  OBVIOUS
<1>. USE DEF keys, rows, caller
<1>1. ASSUME NEW k \in Clients, WindowEnds(k) PROVE WholeInv'
  BY <1>1, WholeQuiet DEF WindowEnds
<1>2. ASSUME NEW a \in Callers,
             \/ \E k \in Clients : LimitedCall(a, k)
             \/ LimiterStep(a) \/ LogIn(a)
             \/ \E r \in Registrations : Register(a, r)
      PROVE  WholeInv'
  <2>1. UNCHANGED <<tenant, user>>
    BY <1>2 DEF LimitedCall, LimiterStep, Count, CountFails, SetExpiry, ExpiryFails, Judge, LogIn, Register
  <2>2. \A b \in Callers : b # a => place'[b] = place[b] /\ form'[b] = form[b]
    BY <1>2 DEF LimitedCall, Call, LimiterStep, Count, CountFails, SetExpiry, ExpiryFails, Judge,
                LogIn, Register, Leave, At, AccessInv, AccessTypeOK, AccessShape
  <2>3. place[a] \notin {"user", "commit"}
    BY <1>2 DEF LimitedCall, Call, LimiterStep, Count, CountFails, SetExpiry, ExpiryFails, Judge,
                LogIn, Register
  <2>4. \/ place'[a] \notin {"email", "user", "commit"}
        \/ place'[a] = "email" /\ form'[a] \in Registrations
    BY <1>2 DEF LimitedCall, Call, LimiterStep, Count, CountFails, SetExpiry, ExpiryFails, Judge,
                LogIn, Register, Leave, At, AccessInv, AccessTypeOK, AccessShape
  <2>. QED
    BY <2>1, <2>2, <2>3, <2>4, WholeQuiet
<1>3. ASSUME NEW a \in Callers, NEW j \in Joins, Join(a, j) PROVE WholeInv'
  <2>1. /\ UNCHANGED <<tenant, user>> /\ place[a] = "idle" /\ place'[a] = "email"
        /\ form'[a] = j /\ Final(tenant[j.slug])
        /\ \A b \in Callers : b # a => place'[b] = place[b] /\ form'[b] = form[b]
    BY <1>3 DEF Join, Call, At, AccessInv, AccessTypeOK, AccessShape
  <2>. QED
    BY <2>1, WholeQuiet
<1>4. ASSUME NEW a \in Callers, CheckEmail(a) PROVE WholeInv'
  <2>1. /\ UNCHANGED <<tenant, user>> /\ place[a] = "email"
        /\ \A b \in Callers : b # a => place'[b] = place[b] /\ form'[b] = form[b]
        /\ \/ place'[a] \in {"idle", "tenant"}
           \/ place'[a] = "user" /\ form'[a] = form[a] /\ form[a] \in Joins
    BY <1>4 DEF CheckEmail, Joining, Leave, At, AccessInv, AccessTypeOK, AccessShape
  <2>2. form[a] \in Joins => Final(tenant[form[a].slug])
    BY <2>1 DEF WholeInv, AuthorsHaveDrafts
  <2>. QED
    BY <2>1, <2>2, WholeQuiet
<1>5. ASSUME NEW a \in Callers, AddTenant(a) \/ AddUser(a) \/ Commit(a) \/ Conflict(a) \/ HandlerDies(a)
      PROVE  WholeInv'
  BY <1>5, WholeAddTenant, WholeAddUser, WholeCommit, WholeRollback DEF Conflict, HandlerDies
<1>6. CASE UNCHANGED accessVars
  BY <1>6, WholeQuiet DEF accessVars
<1>. QED
  BY <1>1, <1>2, <1>3, <1>4, <1>5, <1>6 DEF AccessNext, RouteStep

\* Registrations commit whole or not at all: every tenant has an owner, every user a tenant,
\* and no name is taken twice, whatever the sessions that race for them and whenever they die.
THEOREM RegistrationsAreWhole == AccessSpec => []TenantsAreWhole
<1>1. AccessInit => WholeInv
  BY DEF AccessInit, WholeInv, DraftsHaveAuthors, AuthorsHaveDrafts, TenantsAreWhole, Final
<1>2. AccessSpec => []WholeInv
  BY <1>1, WholeStep, AccessInvariance, PTL DEF AccessSpec
<1>. QED
  BY <1>2, PTL DEF WholeInv

-----------------------------------------------------------------------------
(* Records edited by hand. *)

RecordsShape ==
  /\ row \in [Rows -> AnyRow \cup {Null}]
  /\ trail \in [Rows -> SUBSET AnyEntry]
  /\ clock \in [Rows -> Nat]
  /\ edit \in [Editors -> AnyEdit \cup {Null}]

\* Every session works on a copy of a row that is there and was not deleted when loaded, the
\* row as it is unless the session was overtaken; and statuses were sent to rows that are
\* there.
CopiesAreLive ==
  /\ \A h \in Editors : edit[h] # Null =>
       /\ edit[h].copy.deleted = FALSE /\ row[edit[h].id] # Null
       /\ edit[h].copy.completed => edit[h].id \in Tasks
       /\ edit[h].overtaken \/ edit[h].copy = row[edit[h].id]
  /\ \A r \in statused : row[r] # Null

RecordsInv == RecordsTypeOK /\ RecordsShape /\ CopiesAreLive

LEMMA ValuesAreValues == \A r \in Rows : Values(r) \subseteq AnyValue /\ Null \notin Values(r)
BY RecordConstants DEF Values, AnyValue

LEMMA RowTypes == \A r \in Rows : RowType(r) \subseteq AnyRow /\ Null \notin RowType(r)
BY ValuesAreValues, RecordConstants DEF RowType, AnyRow, AnyValue

-----------------------------------------------------------------------------
(* What one flush writes. *)

LEMMA FlushType ==
  ASSUME NEW r \in Rows, NEW now \in RowType(r), NEW copy \in RowType(r), NEW new \in RowType(r)
  PROVE  /\ FlushRow(now, copy, new) \in RowType(r)
         /\ FlushRow(now, copy, new).deleted \in {now.deleted, new.deleted}
         /\ new.deleted = copy.deleted => FlushRow(now, copy, new).deleted = now.deleted
         /\ FlushRow(now, copy, new).completed \in {now.completed, new.completed}
BY DEF FlushRow, Column, RowType

\* What a session writes, by its call.
Written(h) ==
  LET e == edit[h]
  IN  IF e.op = "delete" THEN [e.copy EXCEPT !.deleted = TRUE]
      ELSE IF e.id \in Tasks
      THEN [e.copy EXCEPT !.value = IF e.value = Null THEN @ ELSE e.value,
                          !.completed = Completed(e.copy, e.value)]
      ELSE [e.copy EXCEPT !.value = IF e.value = Null THEN @ ELSE e.value]

After(h) == FlushRow(row[edit[h].id], edit[h].copy, Written(h))

LEMMA NewType ==
  ASSUME RecordsInv, NEW h \in Editors, edit[h] # Null
  PROVE  /\ Written(h) \in RowType(edit[h].id)
         /\ Written(h).completed => edit[h].id \in Tasks
<1>1. /\ edit[h].id \in Rows /\ edit[h].copy \in RowType(edit[h].id)
      /\ edit[h].value \in Values(edit[h].id) \cup {Null}
      /\ edit[h].copy.completed => edit[h].id \in Tasks
  BY DEF RecordsInv, RecordsTypeOK, CopiesAreLive
<1>2. Completed(edit[h].copy, edit[h].value) \in BOOLEAN
  BY <1>1 DEF Completed, RowType
<1>. QED
  BY <1>1, <1>2 DEF Written, RowType

LEMMA EntryType ==
  ASSUME RecordsInv, NEW h \in Editors, edit[h] # Null
  PROVE  Entry(edit[h]) \in AnyEntry /\ Entry(edit[h]).at <= clock[edit[h].id]
<1>1. edit[h] \in AnyEdit /\ edit[h].at \in 0..clock[edit[h].id] /\ clock[edit[h].id] \in Nat
  BY DEF RecordsInv, RecordsShape, RecordsTypeOK
<1>2. edit[h].copy \in AnyRow /\ edit[h].value \in AnyValue /\ edit[h].at \in Nat
  BY <1>1 DEF AnyEdit
<1>. QED
  BY <1>1, <1>2 DEF Entry, AnyEntry, AnyRow

\* A write leaves the other sessions what they hold; those it overtakes know it.
LEMMA WriteEdits ==
  ASSUME RecordsInv, NEW h \in Editors, edit[h] # Null, Write(h, Written(h)),
         NEW g \in Editors, edit'[g] # Null
  PROVE  /\ g # h /\ edit[g] # Null /\ edit'[g] \in AnyEdit
         /\ edit'[g].id = edit[g].id /\ edit'[g].copy = edit[g].copy /\ edit'[g].op = edit[g].op
         /\ edit'[g].value = edit[g].value /\ edit'[g].at = edit[g].at
         /\ \/ edit'[g].overtaken
            \/ ~edit[g].overtaken /\ (edit[g].id = edit[h].id => After(h) = row[edit[h].id])
<1>1. edit'[g] = IF g = h THEN Null
                 ELSE IF edit[g] # Null /\ edit[g].id = edit[h].id /\ After(h) # row[edit[h].id]
                 THEN [edit[g] EXCEPT !.overtaken = TRUE] ELSE edit[g]
  BY DEF Write, After
<1>2. g # h /\ edit[g] # Null
  BY <1>1
<1>3. edit[g] \in AnyEdit
  BY <1>2 DEF RecordsInv, RecordsShape
<1>4. CASE edit[g].id = edit[h].id /\ After(h) # row[edit[h].id]
  BY <1>1, <1>2, <1>3, <1>4 DEF AnyEdit
<1>5. CASE ~(edit[g].id = edit[h].id /\ After(h) # row[edit[h].id])
  <2>1. edit'[g] = edit[g]
    BY <1>1, <1>2, <1>5
  <2>2. edit[g].overtaken \in BOOLEAN
    BY <1>3 DEF AnyEdit
  <2>. QED
    BY <1>2, <1>3, <1>5, <2>1, <2>2
<1>. QED
  BY <1>4, <1>5

LEMMA WriteRow ==
  ASSUME RecordsInv, NEW h \in Editors, edit[h] # Null, Write(h, Written(h))
  PROVE  /\ row' = [row EXCEPT ![edit[h].id] = After(h)]
         /\ row'[edit[h].id] = After(h) /\ \A r \in Rows : r # edit[h].id => row'[r] = row[r]
         /\ trail' = IF Audits(edit[h])
                     THEN [trail EXCEPT ![edit[h].id] = @ \cup {Entry(edit[h])}] ELSE trail
         /\ raced' = IF edit[h].overtaken THEN raced \cup {edit[h].id} ELSE raced
         /\ Audits(edit[h]) => edit[h].at # 0
         /\ UNCHANGED <<clock, edits>>
         /\ edit' \in [Editors -> AnyEdit \cup {Null}]
<1>1. edit[h].id \in Rows
  BY DEF RecordsInv, RecordsTypeOK
<1>2. row' = [row EXCEPT ![edit[h].id] = After(h)]
  BY DEF Write, After
<1>3. \A g \in Editors : edit'[g] \in AnyEdit \cup {Null}
  BY WriteEdits
<1>4. \E f : edit' = [g \in Editors |-> f[g]]
  <2>1. edit' = [g \in Editors |->
           IF g = h THEN Null
           ELSE IF edit[g] # Null /\ edit[g].id = edit[h].id /\ After(h) # row[edit[h].id]
           THEN [edit[g] EXCEPT !.overtaken = TRUE] ELSE edit[g]]
    BY DEF Write, After
  <2>2. edit' = [g \in Editors |-> edit'[g]]
    BY <2>1
  <2>. QED
    BY <2>2
<1>5. edit' \in [Editors -> AnyEdit \cup {Null}]
  BY <1>3, <1>4
<1>. QED
  BY <1>1, <1>2, <1>5 DEF Write, RecordsInv, RecordsShape

\* A write leaves the shape of the state, and every deleted row deleted.
LEMMA WriteType ==
  ASSUME RecordsInv, NEW h \in Editors, edit[h] # Null, Write(h, Written(h)),
         statused' \subseteq Tasks \cap (statused \cup {edit[h].id})
  PROVE  /\ RecordsInv'
         /\ \A r \in Rows : row[r] # Null /\ row[r].deleted => row'[r] # Null /\ row'[r].deleted
<1> DEFINE k == edit[h].id
           w == After(h)
<1>1. /\ k \in Rows /\ edit[h].copy \in RowType(k) /\ edit[h].copy.deleted = FALSE
      /\ row[k] \in RowType(k) /\ Written(h) \in RowType(k)
      /\ row[k].completed => k \in Tasks
      /\ Written(h).completed => k \in Tasks
  BY NewType DEF RecordsInv, RecordsTypeOK, CopiesAreLive
<1>13. /\ w \in RowType(k)
       /\ w.deleted \in {row[k].deleted, Written(h).deleted}
       /\ Written(h).deleted = edit[h].copy.deleted => w.deleted = row[k].deleted
       /\ w.completed \in {row[k].completed, Written(h).completed}
  BY <1>1, FlushType DEF After
<1>2. w \in RowType(k) /\ w # Null
  BY <1>1, <1>13, RowTypes
<1>3. w.completed => k \in Tasks
  BY <1>1, <1>13
<1>4. row[k].deleted => w.deleted
  BY <1>1, <1>13 DEF RowType
<1>5. /\ row' = [row EXCEPT ![k] = w] /\ raced' \subseteq raced \cup {k}
      /\ row'[k] = w /\ \A r \in Rows : r # k => row'[r] = row[r]
      /\ UNCHANGED <<clock, edits>> /\ edit' \in [Editors -> AnyEdit \cup {Null}]
  BY WriteRow
<1>. HIDE DEF w
<1>7. /\ trail' \in [Rows -> SUBSET AnyEntry]
      /\ \A r \in Rows : trail[r] # {} => trail'[r] # {}
      /\ \A r \in Rows : r # k => trail'[r] = trail[r]
      /\ \A m \in trail'[k] : m \in AnyEntry /\ m.at <= clock[k]
  <2>1. CASE trail' = trail
    BY <1>1, <2>1 DEF RecordsInv, RecordsShape, RecordsTypeOK
  <2>2. CASE trail' = [trail EXCEPT ![k] = @ \cup {Entry(edit[h])}]
    BY <1>1, <2>2, EntryType DEF RecordsInv, RecordsShape, RecordsTypeOK
  <2>. QED
    BY <2>1, <2>2, WriteRow
<1>8. RecordsShape'
  <2>1. w \in AnyRow
    BY <1>1, <1>2, RowTypes
  <2>. QED
    BY <1>1, <1>5, <1>7, <2>1 DEF RecordsInv, RecordsShape
<1>10. RecordsTypeOK'
  <2>1. ASSUME NEW r \in Rows
        PROVE  /\ row'[r] # Null => row'[r] \in RowType(r)
               /\ row'[r] # Null /\ row'[r].completed => r \in Tasks
               /\ row'[r] = Null <=> trail'[r] = {}
               /\ clock'[r] \in Nat
               /\ \A m \in trail'[r] : m \in AnyEntry /\ m.at <= clock'[r]
    <3>1. CASE r = k
      <4>1. row[k] # Null /\ trail'[k] # {}
        BY <1>1, <1>7, RowTypes DEF RecordsInv, RecordsTypeOK
      <4>. QED
        BY <1>1, <1>2, <1>3, <1>5, <1>7, <3>1, <4>1 DEF RecordsInv, RecordsTypeOK
    <3>2. CASE r # k
      BY <1>5, <1>7, <3>2 DEF RecordsInv, RecordsTypeOK
    <3>. QED
      BY <3>1, <3>2
  <2>2. ASSUME NEW g \in Editors, edit'[g] # Null
        PROVE  /\ edit'[g].id \in Rows /\ edit'[g].copy \in RowType(edit'[g].id)
               /\ edit'[g].op \in {"patch", "delete"} /\ edit'[g].value \in Values(edit'[g].id) \cup {Null}
               /\ edit'[g].at \in 0..clock'[edit'[g].id] /\ edit'[g].overtaken \in BOOLEAN
    <3>1. edit'[g].overtaken \in BOOLEAN
      BY <2>2, WriteEdits DEF AnyEdit
    <3>. QED
      BY <1>5, <2>2, <3>1, WriteEdits DEF RecordsInv, RecordsTypeOK
  <2>3. raced' \subseteq Rows /\ statused' \subseteq Tasks /\ edits' \in 0..MaxEdits
    BY <1>1, <1>5 DEF RecordsInv, RecordsTypeOK
  <2>. QED
    BY <2>1, <2>2, <2>3 DEF RecordsTypeOK, RowType, Values
<1>11. CopiesAreLive'
  <2>1. \A r \in Rows : row[r] # Null => row'[r] # Null
    BY <1>2, <1>5
  <2>2. \A r \in statused' : row'[r] # Null
    <3>1. row[k] # Null /\ statused \subseteq Rows
      BY <1>1, RowTypes DEF RecordsInv, RecordsTypeOK, Rows
    <3>. QED
      BY <1>1, <2>1, <3>1 DEF CopiesAreLive, RecordsInv
  <2>3. ASSUME NEW g \in Editors, edit'[g] # Null
        PROVE  /\ edit'[g].copy.deleted = FALSE /\ row'[edit'[g].id] # Null
               /\ edit'[g].copy.completed => edit'[g].id \in Tasks
               /\ edit'[g].overtaken \/ edit'[g].copy = row'[edit'[g].id]
    <3>1. /\ edit[g] # Null /\ edit'[g].id = edit[g].id /\ edit'[g].copy = edit[g].copy
          /\ \/ edit'[g].overtaken
             \/ ~edit[g].overtaken /\ (edit[g].id = k => w = row[k])
      BY <2>3, WriteEdits DEF w
    <3>2. edit[g].id \in Rows
      BY <3>1 DEF RecordsInv, RecordsTypeOK
    <3>. QED
      BY <1>5, <2>1, <3>1, <3>2 DEF CopiesAreLive, RecordsInv
  <2>. QED
    BY <2>2, <2>3 DEF CopiesAreLive
<1>12. \A r \in Rows : row[r] # Null /\ row[r].deleted => row'[r] # Null /\ row'[r].deleted
  BY <1>2, <1>4, <1>5
<1>. QED
  BY <1>8, <1>10, <1>11, <1>12 DEF RecordsInv

\* Every step that ends an edit, but DropEdit, is such a write.
LEMMA WritesNew ==
  ASSUME RecordsInv, NEW h \in Editors, PatchTask(h) \/ PatchOpportunity(h) \/ DeleteRow(h)
  PROVE  /\ edit[h] # Null /\ Write(h, Written(h))
         /\ statused' \subseteq Tasks \cap (statused \cup {edit[h].id})
<1>0. statused \subseteq Tasks
  BY DEF RecordsInv, RecordsTypeOK
<1>1. CASE PatchTask(h)
  BY <1>0, <1>1 DEF PatchTask, Written
<1>2. CASE PatchOpportunity(h)
  <2>1. edit[h].id \notin Tasks
    BY <1>2, RecordConstants DEF PatchOpportunity
  <2>. QED
    BY <1>0, <1>2, <2>1 DEF PatchOpportunity, Written
<1>3. CASE DeleteRow(h)
  BY <1>0, <1>3 DEF DeleteRow, Written
<1>. QED
  BY <1>1, <1>2, <1>3

-----------------------------------------------------------------------------
(* Types, and deletions. *)

LEMMA RecordsInitType == RecordsInit => RecordsInv
<1> SUFFICES ASSUME RecordsInit PROVE RecordsInv
  OBVIOUS
<1>1. \A r \in Rows : row[r] = Null /\ trail[r] = {} /\ clock[r] \in Nat
  BY DEF RecordsInit
<1>2. \A h \in Editors : edit[h] = Null
  BY DEF RecordsInit
<1>3. RecordsShape
  BY DEF RecordsInit, RecordsShape
<1>. QED
  BY <1>1, <1>2, <1>3, RecordConstants DEF RecordsInit, RecordsInv, RecordsTypeOK, CopiesAreLive

LEMMA CreateType ==
  ASSUME RecordsInv, NEW r \in Rows, NEW v \in Values(r) \cup {Null}, CreateRow(r, v)
  PROVE  RecordsInv'
<1> DEFINE new == [value |-> v, completed |-> FALSE, deleted |-> FALSE]
           x == [at |-> 1, action |-> "created", from |-> Null, to |-> v]
<1>1. v \in AnyValue
  BY ValuesAreValues DEF AnyValue
<1>2. /\ new \in RowType(r) /\ new \in AnyRow /\ new # Null
      /\ ~new.completed /\ new.deleted = FALSE /\ x \in AnyEntry /\ x.at = 1
  <2>1. new \in RowType(r)
    BY DEF RowType
  <2>2. x \in AnyEntry
    BY <1>1 DEF AnyEntry, AnyValue
  <2>. QED
    BY <2>1, <2>2, RowTypes
<1>3. /\ row' = [row EXCEPT ![r] = new] /\ row[r] = Null
      /\ trail' = [trail EXCEPT ![r] = {x}] /\ clock' = [clock EXCEPT ![r] = 1]
      /\ UNCHANGED <<edit, raced, statused>>
  BY DEF CreateRow
<1>. HIDE DEF new, x
<1>5. RecordsShape'
  BY <1>2, <1>3 DEF RecordsInv, RecordsShape
<1>6. /\ row'[r] = new /\ trail'[r] = {x} /\ clock'[r] = 1
      /\ \A s \in Rows : s # r => row'[s] = row[s] /\ trail'[s] = trail[s] /\ clock'[s] = clock[s]
  BY <1>3 DEF RecordsInv, RecordsShape
<1>7. edits' \in 0..MaxEdits
  BY RecordConstants DEF CreateRow, Edit, RecordsInv, RecordsTypeOK
<1>8. \A s \in Rows : /\ row'[s] # Null => row'[s] \in RowType(s)
                      /\ row'[s] # Null /\ row'[s].completed => s \in Tasks
                      /\ row'[s] = Null <=> trail'[s] = {}
                      /\ clock'[s] \in Nat
                      /\ \A m \in trail'[s] : m \in AnyEntry /\ m.at <= clock'[s]
  BY <1>2, <1>6 DEF RecordsInv, RecordsTypeOK
<1>9. \A g \in Editors : edit[g] # Null => edit[g].id # r
  BY <1>3 DEF RecordsInv, CopiesAreLive
<1>10. RecordsTypeOK'
  BY <1>3, <1>6, <1>7, <1>8, <1>9 DEF RecordsInv, RecordsTypeOK, RowType, Values
<1>11. CopiesAreLive'
  <2>1. statused \subseteq Rows
    BY DEF RecordsInv, RecordsTypeOK, Rows
  <2>. QED
    BY <1>2, <1>3, <1>6, <1>9, <2>1 DEF RecordsInv, RecordsTypeOK, CopiesAreLive
<1>. QED
  BY <1>5, <1>10, <1>11 DEF RecordsInv

LEMMA LoadType ==
  ASSUME RecordsInv, NEW h \in Editors, NEW r \in Rows, NEW op \in {"patch", "delete"},
         NEW v \in Values(r) \cup {Null}, Load(h, r, op, v)
  PROVE  RecordsInv'
<1> DEFINE e == [id |-> r, copy |-> row[r], op |-> op, value |-> v, at |-> 0, overtaken |-> FALSE]
<1>1. /\ row[r] \in RowType(r) /\ row[r] \in AnyRow /\ row[r].deleted = FALSE
      /\ row[r] # Null /\ (row[r].completed => r \in Tasks) /\ v \in AnyValue /\ clock[r] \in Nat
  BY RowTypes, ValuesAreValues DEF Load, Owned, RecordsInv, RecordsTypeOK, RowType, AnyValue
<1>2. e \in AnyEdit
  BY <1>1 DEF AnyEdit
<1>3. edit' = [edit EXCEPT ![h] = e] /\ UNCHANGED <<row, trail, clock, raced, statused>>
  BY DEF Load
<1>4. RecordsShape'
  BY <1>2, <1>3 DEF RecordsInv, RecordsShape
<1>5. /\ edit'[h] = e /\ \A g \in Editors : g # h => edit'[g] = edit[g]
      /\ e.id = r /\ e.copy = row[r] /\ e.op = op /\ e.value = v /\ e.at = 0 /\ e.overtaken = FALSE
  BY <1>3 DEF RecordsInv, RecordsShape
<1>. HIDE DEF e
<1>6. edits' \in 0..MaxEdits
  BY RecordConstants DEF Load, Edit, RecordsInv, RecordsTypeOK
<1>7. ASSUME NEW g \in Editors, edit'[g] # Null
      PROVE  /\ edit'[g].id \in Rows /\ edit'[g].copy \in RowType(edit'[g].id)
             /\ edit'[g].op \in {"patch", "delete"} /\ edit'[g].value \in Values(edit'[g].id) \cup {Null}
             /\ edit'[g].at \in 0..clock[edit'[g].id] /\ edit'[g].overtaken \in BOOLEAN
  <2>1. CASE g = h
    <3>1. edit'[g].id = r /\ edit'[g].at \in 0..clock[r]
      BY <1>1, <1>5, <2>1
    <3>2. edit'[g].copy \in RowType(r) /\ edit'[g].overtaken = FALSE
      BY <1>1, <1>5, <2>1
    <3>3. edit'[g].op \in {"patch", "delete"} /\ edit'[g].value \in Values(r) \cup {Null}
      BY <1>5, <2>1
    <3>. QED
      BY <3>1, <3>2, <3>3
  <2>2. CASE g # h
    BY <1>5, <1>7, <2>2 DEF RecordsInv, RecordsTypeOK
  <2>. QED
    BY <2>1, <2>2
<1>8. RecordsTypeOK'
  BY <1>3, <1>6, <1>7 DEF RecordsInv, RecordsTypeOK, RowType, Values
<1>9. CopiesAreLive'
  BY <1>1, <1>3, <1>5 DEF RecordsInv, CopiesAreLive
<1>. QED
  BY <1>4, <1>8, <1>9 DEF RecordsInv

\* The entry of an edit gets its time.
LEMMA LogFacts ==
  ASSUME RecordsInv, NEW h \in Editors, LogEdit(h)
  PROVE  /\ edit[h] # Null /\ edit[h].id \in Rows /\ clock[edit[h].id] \in Nat
         /\ edit'[h] = [edit[h] EXCEPT !.at = clock[edit[h].id] + 1] /\ edit'[h] \in AnyEdit
         /\ edit'[h].at = clock[edit[h].id] + 1
         /\ \A g \in Editors : g # h => edit'[g] = edit[g]
         /\ edit' \in [Editors -> AnyEdit \cup {Null}]
         /\ clock' \in [Rows -> Nat] /\ clock'[edit[h].id] = clock[edit[h].id] + 1
         /\ \A r \in Rows : r # edit[h].id => clock'[r] = clock[r]
         /\ UNCHANGED <<row, trail, raced, statused, edits>>
<1>1. edit[h] # Null /\ edit[h].id \in Rows /\ clock[edit[h].id] \in Nat /\ edit[h] \in AnyEdit
  BY DEF LogEdit, RecordsInv, RecordsTypeOK, RecordsShape
<1> DEFINE n == clock[edit[h].id] + 1
<1>2. [edit[h] EXCEPT !.at = n] \in AnyEdit /\ [edit[h] EXCEPT !.at = n].at = n
  BY <1>1 DEF AnyEdit
<1>3. edit' = [edit EXCEPT ![h] = [edit[h] EXCEPT !.at = n]]
  BY DEF LogEdit
<1>. HIDE DEF n
<1>4. /\ edit'[h] = [edit[h] EXCEPT !.at = n] /\ edit' \in [Editors -> AnyEdit \cup {Null}]
      /\ \A g \in Editors : g # h => edit'[g] = edit[g]
  BY <1>2, <1>3 DEF RecordsInv, RecordsShape
<1>. QED
  BY <1>1, <1>2, <1>4 DEF LogEdit, RecordsInv, RecordsShape, n

LEMMA LogType == ASSUME RecordsInv, NEW h \in Editors, LogEdit(h) PROVE RecordsInv'
<1>0. /\ edit[h] # Null /\ edit[h].id \in Rows /\ clock[edit[h].id] \in Nat
      /\ edit'[h] = [edit[h] EXCEPT !.at = clock[edit[h].id] + 1]
      /\ edit'[h].at = clock[edit[h].id] + 1 /\ clock'[edit[h].id] = clock[edit[h].id] + 1
      /\ \A g \in Editors : g # h => edit'[g] = edit[g]
      /\ edit' \in [Editors -> AnyEdit \cup {Null}] /\ clock' \in [Rows -> Nat]
      /\ \A r \in Rows : r # edit[h].id => clock'[r] = clock[r]
      /\ UNCHANGED <<row, trail, raced, statused, edits>>
  BY LogFacts
<1>1. RecordsShape'
  BY <1>0 DEF RecordsInv, RecordsShape
<1>2. \A r \in Rows : clock[r] \in Nat /\ clock'[r] \in Nat /\ clock[r] <= clock'[r]
  BY <1>0 DEF RecordsInv, RecordsShape
<1>3. ASSUME NEW g \in Editors, edit'[g] # Null
      PROVE  /\ edit[g] # Null /\ edit'[g].id = edit[g].id /\ edit'[g].copy = edit[g].copy
             /\ edit'[g].op = edit[g].op /\ edit'[g].value = edit[g].value
             /\ edit'[g].overtaken = edit[g].overtaken
             /\ edit'[g].at \in 0..clock'[edit'[g].id]
  <2>1. CASE g = h
    <3>1. edit[h] \in AnyEdit
      BY <1>0 DEF RecordsInv, RecordsShape
    <3>2. edit'[h].at \in 0..clock'[edit[h].id]
      BY <1>0
    <3>. QED
      BY <1>0, <2>1, <3>1, <3>2 DEF AnyEdit
  <2>2. CASE g # h
    <3>1. edit'[g] = edit[g]
      BY <1>0, <2>2
    <3>2. edit[g].at \in 0..clock[edit[g].id] /\ edit[g].id \in Rows
      BY <1>3, <3>1 DEF RecordsInv, RecordsTypeOK
    <3>. QED
      BY <1>2, <1>3, <3>1, <3>2
  <2>. QED
    BY <2>1, <2>2
<1>4. \A r \in Rows : \A m \in trail[r] : m \in AnyEntry /\ m.at <= clock'[r]
  BY <1>2 DEF RecordsInv, RecordsTypeOK, AnyEntry
<1>5. RecordsTypeOK'
  BY <1>0, <1>2, <1>3, <1>4 DEF RecordsInv, RecordsTypeOK, RowType, Values
<1>6. CopiesAreLive'
  BY <1>0, <1>3 DEF RecordsInv, CopiesAreLive
<1>. QED
  BY <1>1, <1>5, <1>6 DEF RecordsInv

LEMMA DropType == ASSUME RecordsInv, NEW h \in Editors, DropEdit(h) PROVE RecordsInv'
<1>1. /\ edit' = [edit EXCEPT ![h] = Null]
      /\ UNCHANGED <<row, trail, clock, raced, statused, edits>>
  BY DEF DropEdit
<1>2. \A g \in Editors : edit'[g] # Null => edit'[g] = edit[g]
  BY <1>1 DEF RecordsInv, RecordsShape
<1>3. RecordsShape'
  BY <1>1 DEF RecordsInv, RecordsShape
<1>4. RecordsTypeOK'
  BY <1>1, <1>2 DEF RecordsInv, RecordsTypeOK, RowType, Values
<1>5. CopiesAreLive'
  BY <1>1, <1>2 DEF RecordsInv, CopiesAreLive
<1>. QED
  BY <1>3, <1>4, <1>5 DEF RecordsInv

LEMMA RecordsStepType ==
  RecordsInv /\ [RecordsNext]_recordVars =>
    /\ RecordsInv'
    /\ \A r \in Rows : row[r] # Null /\ row[r].deleted => row'[r] # Null /\ row'[r].deleted
<1> DEFINE Kept == \A r \in Rows : row[r] # Null /\ row[r].deleted => row'[r] # Null /\ row'[r].deleted
<1> SUFFICES ASSUME RecordsInv, [RecordsNext]_recordVars PROVE RecordsInv' /\ Kept
  OBVIOUS
<1>1. ASSUME NEW r \in Rows, NEW v \in IF r \in Notes THEN {Null} ELSE Values(r), CreateRow(r, v)
      PROVE  RecordsInv' /\ Kept
  <2>1. v \in Values(r) \cup {Null}
    BY <1>1
  <2>2. Kept
    BY <1>1 DEF CreateRow, RecordsInv, RecordsShape
  <2>. QED
    BY <1>1, <2>1, <2>2, CreateType
<1>2. ASSUME NEW h \in Editors, NEW r \in Rows, NEW v \in Values(r) \cup {Null},
             OpenDelete(h, r) \/ OpenPatch(h, r, v)
      PROVE  RecordsInv' /\ Kept
  <2>1. Load(h, r, "delete", Null) \/ Load(h, r, "patch", v)
    BY <1>2 DEF OpenDelete, OpenPatch
  <2>2. Kept
    BY <2>1 DEF Load
  <2>. QED
    BY <2>1, <2>2, LoadType
<1>3. ASSUME NEW h \in Editors, PatchTask(h) \/ PatchOpportunity(h) \/ DeleteRow(h)
      PROVE  RecordsInv' /\ Kept
  BY <1>3, WritesNew, WriteType
<1>4. ASSUME NEW h \in Editors, DropEdit(h)
      PROVE  RecordsInv' /\ Kept
  BY <1>4, DropType DEF DropEdit
<1>5. ASSUME NEW h \in Editors, LogEdit(h)
      PROVE  RecordsInv' /\ Kept
  BY <1>5, LogType DEF LogEdit
<1>6. CASE UNCHANGED recordVars
  BY <1>6 DEF recordVars, RecordsInv, RecordsTypeOK, RecordsShape, CopiesAreLive, RowType, Values
<1>. QED
  BY <1>1, <1>2, <1>3, <1>4, <1>5, <1>6 DEF RecordsNext

LEMMA RecordsInvariance == RecordsSpec => []RecordsInv
BY RecordsInitType, RecordsStepType, PTL DEF RecordsSpec

\* Every reachable state of the records is well typed, only tasks are completed, and a row
\* has a trail exactly if it is there.
THEOREM RecordsTypes == RecordsSpec => []RecordsTypeOK
BY RecordsInvariance, PTL DEF RecordsInv

\* A deletion is final, also for an edit that loaded the row before it: what such an edit
\* writes does not differ from its copy in the column that says the row is deleted.
THEOREM DeletionsAreFinal == RecordsSpec => DeletedStaysDeleted
BY RecordsInvariance, RecordsStepType, PTL DEF RecordsSpec, DeletedStaysDeleted

-----------------------------------------------------------------------------
(* Completion. *)

Completes(r, x, st) ==
  /\ x.completed => x.value = "done"
  /\ x.value = "done" /\ ~x.completed => r \notin st

LEMMA FlushUnraced ==
  ASSUME NEW r \in Rows, NEW copy \in RowType(r), NEW new \in RowType(r)
  PROVE  FlushRow(copy, copy, new) = new
BY DEF FlushRow, Column, RowType

\* An edit that met no other writes what it makes of the row.
LEMMA WriteUnraced ==
  ASSUME RecordsInv, NEW h \in Editors, edit[h] # Null, Write(h, Written(h))
  PROVE  /\ \A r \in Rows : r # edit[h].id => row'[r] = row[r]
         /\ edit[h].id \notin raced' => row[edit[h].id] = edit[h].copy /\ row'[edit[h].id] = Written(h)
         /\ raced \subseteq raced'
<1>1. /\ edit[h].id \in Rows /\ edit[h].copy \in RowType(edit[h].id) /\ Written(h) \in RowType(edit[h].id)
      /\ edit[h].overtaken \/ edit[h].copy = row[edit[h].id]
  BY NewType DEF RecordsInv, RecordsTypeOK, CopiesAreLive
<1>2. FlushRow(edit[h].copy, edit[h].copy, Written(h)) = Written(h)
  BY <1>1, FlushUnraced
<1>. QED
  BY <1>1, <1>2, WriteRow DEF After

LEMMA DoneStep == RecordsInv /\ DoneIsCompleted /\ [RecordsNext]_recordVars => DoneIsCompleted'
<1> SUFFICES ASSUME RecordsInv, DoneIsCompleted, [RecordsNext]_recordVars,
                    NEW r \in Tasks, row'[r] # Null, r \notin raced'
             PROVE  Completes(r, row'[r], statused')
  BY DEF DoneIsCompleted, Completes
<1>0. /\ r \in Rows /\ r \notin Opportunities /\ r \notin Notes
      /\ row[r] # Null /\ r \notin raced => Completes(r, row[r], statused)
  BY RecordConstants DEF Rows, DoneIsCompleted, Completes
<1>1. ASSUME NEW s \in Rows, NEW v, CreateRow(s, v)
      PROVE  Completes(r, row'[r], statused')
  <2>1. CASE s = r
    <3>1. r \notin statused
      BY <1>1, <2>1 DEF CreateRow, RecordsInv, CopiesAreLive
    <3>. QED
      BY <1>0, <1>1, <2>1, <3>1 DEF CreateRow, RecordsInv, RecordsShape, Completes
  <2>2. CASE s # r
    BY <1>0, <1>1, <2>2 DEF CreateRow, RecordsInv, RecordsShape
  <2>. QED
    BY <2>1, <2>2
<1>2. ASSUME NEW h \in Editors, PatchTask(h) \/ PatchOpportunity(h) \/ DeleteRow(h)
      PROVE  Completes(r, row'[r], statused')
  <2>0. edit[h] # Null /\ Write(h, Written(h))
    BY <1>2, WritesNew
  <2>1. CASE edit[h].id # r
    <3>1. row'[r] = row[r] /\ r \notin raced
      BY <1>0, <2>0, <2>1, WriteUnraced
    <3>2. r \in statused' => r \in statused
      BY <1>2, <2>1 DEF PatchTask, PatchOpportunity, DeleteRow
    <3>. QED
      BY <1>0, <3>1, <3>2 DEF Completes
  <2>2. CASE edit[h].id = r
    <3>1. row[r] = edit[h].copy /\ row'[r] = Written(h) /\ r \notin raced
      BY <2>0, <2>2, WriteUnraced
    <3>2. row[r] \in RowType(r) /\ row[r] # Null /\ Completes(r, row[r], statused)
      BY <1>0, <2>0, <2>2, <3>1, RowTypes DEF RecordsInv, RecordsTypeOK
    <3>3. CASE DeleteRow(h)
      <4>1. edit[h].op = "delete" /\ statused' = statused
        BY <3>3 DEF DeleteRow
      <4>2. Written(h) = [row[r] EXCEPT !.deleted = TRUE]
        BY <3>1, <4>1 DEF Written
      <4>. QED
        BY <3>1, <3>2, <4>1, <4>2 DEF Completes, RowType
    <3>4. CASE PatchTask(h)
      <4>1. /\ edit[h].op = "patch"
            /\ statused' = IF edit[h].value = Null THEN statused ELSE statused \cup {r}
        BY <2>2, <3>4 DEF PatchTask
      <4>2. Written(h) = [row[r] EXCEPT !.value = IF edit[h].value = Null THEN @ ELSE edit[h].value,
                                    !.completed = Completed(row[r], edit[h].value)]
        BY <2>2, <3>1, <4>1 DEF Written
      <4>3. Written(h).value = (IF edit[h].value = Null THEN row[r].value ELSE edit[h].value)
        BY <3>2, <4>2 DEF RowType
      <4>4. Written(h).completed = Completed(row[r], edit[h].value)
        BY <3>2, <4>2 DEF RowType
      <4>5. CASE edit[h].value = Null
        BY <3>1, <3>2, <4>1, <4>3, <4>4, <4>5 DEF Completes, Completed
      <4>6. CASE edit[h].value # Null
        <5>1. Written(h).completed = (edit[h].value = "done") /\ Written(h).value = edit[h].value
          BY <4>3, <4>4, <4>6 DEF Completed
        <5>. QED
          BY <3>1, <5>1 DEF Completes
      <4>. QED
        BY <4>5, <4>6
    <3>5. ~PatchOpportunity(h)
      BY <1>0, <2>2 DEF PatchOpportunity
    <3>. QED
      BY <1>2, <3>3, <3>4, <3>5
  <2>. QED
    BY <2>1, <2>2
<1>3. ASSUME NEW h \in Editors,
             \/ \E s \in Rows : OpenDelete(h, s) \/ \E v \in Values(s) \cup {Null} : OpenPatch(h, s, v)
             \/ LogEdit(h) \/ DropEdit(h)
      PROVE  Completes(r, row'[r], statused')
  <2>1. UNCHANGED <<row, raced, statused>>
    BY <1>3 DEF OpenDelete, OpenPatch, Load, LogEdit, DropEdit
  <2>. QED
    BY <1>0, <2>1
<1>4. CASE UNCHANGED recordVars
  BY <1>0, <1>4 DEF recordVars
<1>. QED
  BY <1>1, <1>2, <1>3, <1>4 DEF RecordsNext

\* Unless edits of it overlapped, a task with a completion date is done, and one that is
\* done without was created so and no PATCH has sent a status since.
THEOREM CompletionHolds == RecordsSpec => []DoneIsCompleted
<1>1. RecordsInit => DoneIsCompleted
  BY DEF RecordsInit, DoneIsCompleted, Rows
<1>. QED
  BY <1>1, DoneStep, RecordsInvariance, PTL DEF RecordsSpec

-----------------------------------------------------------------------------
(* The log. *)

MovesIn(t) == {m \in t : m.action \in {"created", "stage_changed"}}

\* The log t knows the stage of the row x, and where each move came from, ...
Whole(x, t) ==
  /\ \E m \in MovesIn(t) : m.to = x.value
  /\ \A m \in MovesIn(t) : m.action = "created" \/ \E k \in MovesIn(t) : k.at < m.at /\ k.to = m.from
  /\ x.deleted <=> \E m \in t : m.action = "deleted"

\* ... and is a chain that ends at the stage.
Chain(x, t) ==
  \A k \in MovesIn(t) :
    /\ (\A m \in MovesIn(t) : m.at <= k.at) => k.to = x.value
    /\ \A m \in MovesIn(t) :
         k.at < m.at /\ (\A i \in MovesIn(t) : i.at <= k.at \/ m.at <= i.at) => m.from = k.to

Told(r) == row[r] # Null => Whole(row[r], trail[r]) /\ (r \in raced \/ Chain(row[r], trail[r]))

\* What a session saw is on record, before its own entry; that has a time of its own, later
\* than all there is unless the session was overtaken.
Placed(h) ==
  LET r == edit[h].id
  IN  edit[h] # Null /\ r \in Opportunities =>
        /\ \E k \in MovesIn(trail[r]) : k.to = edit[h].copy.value /\ (edit[h].at # 0 => k.at < edit[h].at)
        /\ edit[h].at = 0 \/ \A m \in trail[r] : m.at # edit[h].at
        /\ edit[h].at = 0 \/ edit[h].overtaken \/ r \in raced \/ \A m \in trail[r] : m.at < edit[h].at

TimesDiffer ==
  \A g, h \in Editors : edit[g] # Null /\ edit[h] # Null /\ edit[g].id = edit[h].id
                        /\ edit[g].at = edit[h].at /\ edit[g].at # 0 => g = h

LogInv == (\A r \in Opportunities : Told(r)) /\ (\A h \in Editors : Placed(h)) /\ TimesDiffer

\* The new entry of a row, if its stage is a new one.
EntersLogged(r) ==
  row'[r] # Null =>
    \/ row[r] # Null /\ row'[r].value = row[r].value
    \/ \E m \in MovesIn(trail'[r]) \ MovesIn(trail[r]) : m.to = row'[r].value

\* A move is on record that starts at a stage already known ...
LEMMA MoveIsWhole ==
  ASSUME NEW x, NEW y, NEW t, NEW e, Whole(x, t), e.action = "stage_changed",
         y.value = e.to, y.deleted = x.deleted,
         \E k \in MovesIn(t) : k.at < e.at /\ k.to = e.from
  PROVE  Whole(y, t \cup {e})
<1>1. MovesIn(t \cup {e}) = MovesIn(t) \cup {e}
  BY DEF MovesIn
<1>2. e.action # "deleted" /\ e.action # "created"
  OBVIOUS
<1>. QED
  BY <1>1, <1>2 DEF Whole

\* ... and where the chain ends, later than all of it.
LEMMA MoveIsChain ==
  ASSUME NEW x, NEW y, NEW t \in SUBSET AnyEntry, NEW e \in AnyEntry,
         Chain(x, t), e.action = "stage_changed",
         y.value = e.to, e.from = x.value, \A m \in t : m.at < e.at
  PROVE  Chain(y, t \cup {e})
<1> DEFINE u == MovesIn(t \cup {e})
<1>1. u = MovesIn(t) \cup {e} /\ MovesIn(t) \subseteq t
  BY DEF MovesIn
<1>2. e.at \in Nat /\ \A m \in t : m.at \in Nat /\ m.at < e.at
  BY DEF AnyEntry
<1>. HIDE DEF u
<1>3. ASSUME NEW k \in u, \A m \in u : m.at <= k.at
      PROVE  k.to = y.value
  BY <1>1, <1>2, <1>3
<1>4. ASSUME NEW k \in u, NEW m \in u, k.at < m.at, \A i \in u : i.at <= k.at \/ m.at <= i.at
      PROVE  m.from = k.to
  <2>1. k \in MovesIn(t)
    BY <1>1, <1>2, <1>4
  <2>2. CASE m = e
    <3>1. \A i \in MovesIn(t) : i.at <= k.at
      BY <1>1, <1>2, <1>4, <2>2
    <3>. QED
      BY <2>1, <2>2, <3>1 DEF Chain
  <2>3. CASE m # e
    BY <1>1, <1>4, <2>1, <2>3 DEF Chain
  <2>. QED
    BY <2>2, <2>3
<1>. QED
  BY <1>3, <1>4 DEF Chain, u

\* A deletion is on record, and is no move.
LEMMA DeletionTells ==
  ASSUME NEW x, NEW y, NEW t, NEW e, e.action = "deleted", y.value = x.value, y.deleted
  PROVE  /\ Whole(x, t) => Whole(y, t \cup {e})
         /\ Chain(x, t) => Chain(y, t \cup {e})
<1>1. MovesIn(t \cup {e}) = MovesIn(t)
  BY DEF MovesIn
<1>. QED
  BY <1>1 DEF Whole, Chain

LEMMA SameTells ==
  ASSUME NEW x, NEW y, NEW t, y.value = x.value, y.deleted = x.deleted
  PROVE  /\ Whole(x, t) => Whole(y, t)
         /\ Chain(x, t) => Chain(y, t)
BY DEF Whole, Chain

\* A session whose row has not changed since it loaded it, and which leaves it so, is not
\* audited.
LEMMA AuditedChanges ==
  ASSUME RecordsInv, NEW h \in Editors, edit[h] # Null, edit[h].id \in Opportunities,
         PatchOpportunity(h) \/ DeleteRow(h), ~edit[h].overtaken, After(h) = row[edit[h].id]
  PROVE  ~Audits(edit[h])
<1> DEFINE e == edit[h]
<1>1. /\ e.copy = row[e.id] /\ e.copy \in RowType(e.id) /\ e.id \in Rows /\ e.copy.deleted = FALSE
      /\ Written(h) \in RowType(e.id) /\ e.id \notin Tasks
  BY NewType, RecordConstants DEF RecordsInv, RecordsTypeOK, CopiesAreLive
<1>2. Written(h) = e.copy
  BY <1>1, FlushUnraced DEF After
<1>3. e.op # "delete"
  <2> SUFFICES ASSUME e.op = "delete" PROVE FALSE
    OBVIOUS
  <2>1. Written(h).deleted
    BY <1>1 DEF Written, RowType
  <2>. QED
    BY <1>1, <1>2, <2>1
<1>4. e.value \in {Null, e.copy.value}
  <2> SUFFICES ASSUME e.value # Null PROVE e.value = e.copy.value
    OBVIOUS
  <2>1. Written(h).value = e.value
    BY <1>1, <1>3 DEF Written, RowType
  <2>. QED
    BY <1>2, <2>1
<1>. QED
  BY <1>1, <1>3, <1>4 DEF Audits

\* What a write makes of the row and of its log.
LEMMA WriteTells ==
  ASSUME RecordsInv, LogInv, NEW h \in Editors, edit[h] # Null, Write(h, Written(h)),
         PatchOpportunity(h) \/ DeleteRow(h), NEW r \in Opportunities, r = edit[h].id
  PROVE  Told(r)' /\ EntersLogged(r)
<1> DEFINE c == edit[h].copy
           n == Written(h)
           v == edit[h].value
           e == Entry(edit[h])
<1>1. /\ r \in Rows /\ r \notin Tasks /\ c \in RowType(r) /\ row[r] \in RowType(r)
      /\ n \in RowType(r) /\ row[r] # Null /\ c.deleted = FALSE
  BY NewType, RecordConstants DEF RecordsInv, RecordsTypeOK, CopiesAreLive
<1>2. /\ row'[r] = FlushRow(row[r], c, n)
      /\ row'[r].value = Column(row[r].value, c.value, n.value)
      /\ row'[r].deleted = Column(row[r].deleted, c.deleted, n.deleted)
  BY WriteRow DEF After, FlushRow
<1>3. /\ trail'[r] = IF Audits(edit[h]) THEN trail[r] \cup {e} ELSE trail[r]
      /\ Audits(edit[h]) => edit[h].at # 0
      /\ r \in raced' \/ (r \notin raced /\ ~edit[h].overtaken /\ row[r] = c)
  BY <1>1, WriteRow DEF RecordsInv, RecordsShape, CopiesAreLive
<1>4. /\ Whole(row[r], trail[r]) /\ (r \in raced \/ Chain(row[r], trail[r]))
      /\ \E k \in MovesIn(trail[r]) : k.to = c.value /\ (edit[h].at # 0 => k.at < edit[h].at)
      /\ edit[h].at = 0 \/ \A m \in trail[r] : m.at # edit[h].at
      /\ \/ edit[h].at = 0 \/ edit[h].overtaken \/ r \in raced
         \/ \A m \in trail[r] : m.at < edit[h].at
  BY <1>1 DEF LogInv, Told, Placed
<1>5. e \in AnyEntry /\ trail[r] \in SUBSET AnyEntry
  BY <1>1, EntryType DEF RecordsInv, RecordsShape
<1>6. e.at = edit[h].at /\ e.from = c.value /\ e.to = v
  BY DEF Entry
<1>7. CASE edit[h].op = "delete"
  <2>1. e.action = "deleted" /\ Audits(edit[h])
    BY <1>7 DEF Entry, Audits
  <2>2. n.value = c.value /\ n.deleted = TRUE
    BY <1>1, <1>7 DEF Written, RowType
  <2>3. row'[r].value = row[r].value /\ row'[r].deleted
    BY <1>1, <1>2, <2>2 DEF Column
  <2>. HIDE DEF e, n, c, v
  <2>4. Whole(row'[r], trail'[r]) /\ (r \in raced' \/ Chain(row'[r], trail'[r]))
    BY <1>3, <1>4, <2>1, <2>3, DeletionTells
  <2>. QED
    BY <1>1, <2>3, <2>4 DEF Told, EntersLogged
<1>8. CASE edit[h].op # "delete"
  <2>1. n.value = (IF v = Null THEN c.value ELSE v) /\ n.deleted = c.deleted
    BY <1>1, <1>8 DEF Written, RowType
  <2>2. row'[r].deleted = row[r].deleted
    BY <1>2, <2>1 DEF Column
  <2>3. CASE v \in {Null, c.value}
    <3>1. row'[r].value = row[r].value /\ ~Audits(edit[h])
      BY <1>1, <1>2, <1>8, <2>1, <2>3 DEF Column, Audits
    <3>. HIDE DEF e, n, c, v
    <3>2. Whole(row'[r], trail'[r]) /\ (r \in raced' \/ Chain(row'[r], trail'[r]))
      BY <1>3, <1>4, <2>2, <3>1, SameTells
    <3>. QED
      BY <1>1, <3>1, <3>2 DEF Told, EntersLogged
  <2>4. CASE v \notin {Null, c.value}
    <3>1. row'[r].value = v /\ Audits(edit[h]) /\ e.action = "stage_changed"
      BY <1>1, <1>2, <1>8, <2>1, <2>4 DEF Column, Audits, Entry
    <3>2. /\ trail'[r] = trail[r] \cup {e} /\ edit[h].at # 0
          /\ \E k \in MovesIn(trail[r]) : k.at < e.at /\ k.to = e.from
      BY <1>3, <1>4, <1>6, <3>1
    <3>. HIDE DEF e, n, c, v
    <3>3. Whole(row'[r], trail'[r])
      BY <1>4, <1>6, <2>2, <3>1, <3>2, MoveIsWhole
    <3>4. r \in raced' \/ Chain(row'[r], trail'[r])
      <4> SUFFICES ASSUME r \notin raced' PROVE Chain(row'[r], trail'[r])
        OBVIOUS
      <4>1. Chain(row[r], trail[r]) /\ row[r].value = e.from /\ \A m \in trail[r] : m.at < e.at
        BY <1>3, <1>4, <1>6, <3>2
      <4>. QED
        BY <1>5, <1>6, <3>1, <3>2, <4>1, MoveIsChain
    <3>5. e \in MovesIn(trail'[r]) \ MovesIn(trail[r])
      BY <1>4, <1>6, <3>1, <3>2 DEF MovesIn
    <3>. QED
      BY <1>1, <1>6, <3>1, <3>3, <3>4, <3>5 DEF Told, EntersLogged
  <2>. QED
    BY <2>3, <2>4
<1>. QED
  BY <1>7, <1>8

\* The sessions that a write leaves behind are where they were.
LEMMA WritePlaced ==
  ASSUME RecordsInv, LogInv, NEW h \in Editors, edit[h] # Null, Write(h, Written(h)),
         PatchTask(h) \/ PatchOpportunity(h) \/ DeleteRow(h)
  PROVE  (\A g \in Editors : Placed(g)') /\ TimesDiffer'
<1>1. TimesDiffer'
  <2>1. \A g \in Editors : edit'[g] # Null =>
          edit[g] # Null /\ edit'[g].id = edit[g].id /\ edit'[g].at = edit[g].at
    BY WriteEdits
  <2>. QED
    BY <2>1 DEF TimesDiffer, LogInv
<1>2. ASSUME NEW g \in Editors, edit'[g] # Null, edit'[g].id \in Opportunities
      PROVE  Placed(g)'
  <2> DEFINE r == edit[g].id
             e == Entry(edit[h])
  <2>1. /\ g # h /\ edit[g] # Null /\ edit'[g].id = r /\ edit'[g].copy = edit[g].copy
        /\ edit'[g].at = edit[g].at /\ r \in Opportunities /\ r \in Rows
        /\ \/ edit'[g].overtaken
           \/ ~edit[g].overtaken /\ (r = edit[h].id => After(h) = row[r])
    BY <1>2, WriteEdits DEF Rows
  <2>2. Placed(g)
    BY DEF LogInv
  <2>3. /\ \E k \in MovesIn(trail[r]) : k.to = edit[g].copy.value /\ (edit[g].at # 0 => k.at < edit[g].at)
        /\ edit[g].at = 0 \/ \A m \in trail[r] : m.at # edit[g].at
        /\ \/ edit[g].at = 0 \/ edit[g].overtaken \/ r \in raced
           \/ \A m \in trail[r] : m.at < edit[g].at
    BY <2>1, <2>2 DEF Placed
  <2>4. raced \subseteq raced' /\ trail \in [Rows -> SUBSET AnyEntry] /\ edit[h].id \in Rows
    BY WriteRow DEF RecordsInv, RecordsShape, RecordsTypeOK
  <2>5. CASE r # edit[h].id \/ ~Audits(edit[h])
    <3>1. trail'[r] = trail[r]
      BY <2>1, <2>4, <2>5, WriteRow
    <3>. QED
      BY <2>1, <2>3, <2>4, <3>1 DEF Placed
  <2>6. CASE r = edit[h].id /\ Audits(edit[h])
    <3>1. trail'[r] = trail[r] \cup {e} /\ e.at = edit[h].at /\ edit[h].at # 0
      BY <2>1, <2>4, <2>6, WriteRow DEF Entry
    <3>2. edit[g].at # e.at \/ edit[g].at = 0
      BY <2>1, <2>6, <3>1 DEF LogInv, TimesDiffer
    <3>3. edit'[g].overtaken \/ r \in raced'
      <4> SUFFICES ASSUME ~edit'[g].overtaken, r \notin raced' PROVE FALSE
        OBVIOUS
      <4>1. After(h) = row[r] /\ ~edit[h].overtaken
        BY <2>1, <2>6, WriteRow
      <4>2. PatchOpportunity(h) \/ DeleteRow(h)
        BY <2>1, <2>6, RecordConstants DEF PatchTask
      <4>. QED
        BY <2>1, <2>6, <4>1, <4>2, AuditedChanges
    <3>4. MovesIn(trail[r]) \subseteq MovesIn(trail'[r])
      BY <3>1 DEF MovesIn
    <3>. HIDE DEF e
    <3>. QED
      BY <2>1, <2>3, <3>1, <3>2, <3>3, <3>4 DEF Placed
  <2>. QED
    BY <2>5, <2>6
<1>3. ASSUME NEW g \in Editors PROVE Placed(g)'
  BY <1>2 DEF Placed
<1>. QED
  BY <1>1, <1>3

LEMMA WriteLog ==
  ASSUME RecordsInv, LogInv, NEW h \in Editors, PatchTask(h) \/ PatchOpportunity(h) \/ DeleteRow(h)
  PROVE  LogInv' /\ \A r \in Opportunities : EntersLogged(r)
<1>0. edit[h] # Null /\ Write(h, Written(h))
  BY WritesNew
<1>1. ASSUME NEW r \in Opportunities
      PROVE  Told(r)' /\ EntersLogged(r)
  <2>1. CASE r # edit[h].id
    <3>1. row'[r] = row[r] /\ trail'[r] = trail[r] /\ raced \subseteq raced'
      BY <1>0, <2>1, WriteRow DEF Rows, RecordsInv, RecordsShape
    <3>. QED
      BY <3>1 DEF LogInv, Told, EntersLogged
  <2>2. CASE r = edit[h].id
    <3>1. ~PatchTask(h)
      BY <2>2, RecordConstants DEF PatchTask
    <3>. QED
      BY <1>0, <2>2, <3>1, WriteTells
  <2>. QED
    BY <2>1, <2>2
<1>. QED
  BY <1>0, <1>1, WritePlaced DEF LogInv

LEMMA CreateLog ==
  ASSUME RecordsInv, LogInv, NEW s \in Rows, NEW v, CreateRow(s, v)
  PROVE  LogInv' /\ \A r \in Opportunities : EntersLogged(r)
<1> DEFINE e == [at |-> 1, action |-> "created", from |-> Null, to |-> v]
<1>1. /\ row[s] = Null /\ trail[s] = {} /\ trail'[s] = {e} /\ row'[s].value = v /\ row'[s].deleted = FALSE
      /\ \A r \in Rows : r # s => row'[r] = row[r] /\ trail'[r] = trail[r]
      /\ raced' = raced /\ edit' = edit
  BY DEF CreateRow, RecordsInv, RecordsTypeOK, RecordsShape
<1>2. ASSUME NEW r \in Opportunities
      PROVE  Told(r)' /\ EntersLogged(r)
  <2>1. CASE r = s
    <3>1. MovesIn(trail'[r]) = {e} /\ MovesIn(trail[r]) = {}
      BY <1>1, <2>1 DEF MovesIn
    <3>2. e.to = v /\ e.action = "created" /\ e.at = 1
      OBVIOUS
    <3>. HIDE DEF e
    <3>3. Whole(row'[r], trail'[r]) /\ Chain(row'[r], trail'[r])
      BY <1>1, <2>1, <3>1, <3>2 DEF Whole, Chain
    <3>. QED
      BY <1>1, <2>1, <3>1, <3>2, <3>3 DEF Told, EntersLogged
  <2>2. CASE r # s
    <3>1. row'[r] = row[r] /\ trail'[r] = trail[r]
      BY <1>1, <2>2 DEF Rows
    <3>. QED
      BY <1>1, <3>1 DEF LogInv, Told, EntersLogged
  <2>. QED
    BY <2>1, <2>2
<1>3. ASSUME NEW g \in Editors
      PROVE  Placed(g)'
  <2>1. CASE edit[g] # Null
    <3>1. edit[g].id \in Rows /\ edit[g].id # s
      BY <1>1, <2>1 DEF RecordsInv, RecordsTypeOK, CopiesAreLive
    <3>2. trail'[edit[g].id] = trail[edit[g].id]
      BY <1>1, <3>1
    <3>. QED
      BY <1>1, <3>2 DEF LogInv, Placed
  <2>2. CASE edit[g] = Null
    BY <1>1, <2>2 DEF Placed
  <2>. QED
    BY <2>1, <2>2
<1>. QED
  BY <1>1, <1>2, <1>3 DEF LogInv, TimesDiffer

\* What leaves the rows and the log alone leaves the stages told.
LEMMA QuietLog ==
  ASSUME LogInv, UNCHANGED <<row, trail, raced>>, NEW h \in Editors,
         \A g \in Editors : g # h => edit'[g] = edit[g],
         Placed(h)', \A g \in Editors : edit'[h] # Null /\ edit'[g] # Null /\ edit'[g].id = edit'[h].id
                                        /\ edit'[g].at = edit'[h].at /\ edit'[h].at # 0 => g = h
  PROVE  LogInv' /\ \A r \in Opportunities : EntersLogged(r)
<1>1. \A r \in Opportunities : Told(r)' /\ EntersLogged(r)
  BY DEF LogInv, Told, EntersLogged
<1>2. \A g \in Editors : Placed(g)'
  <2>1. ASSUME NEW g \in Editors, g # h PROVE Placed(g)'
    <3>1. edit'[g] = edit[g] /\ Placed(g)
      BY <2>1 DEF LogInv
    <3>. QED
      BY <3>1 DEF Placed
  <2>. QED
    BY <2>1
<1>3. TimesDiffer'
  BY DEF LogInv, TimesDiffer
<1>. QED
  BY <1>1, <1>2, <1>3 DEF LogInv

LEMMA LoadLog ==
  ASSUME RecordsInv, LogInv, NEW h \in Editors, NEW r \in Rows, NEW op, NEW v, Load(h, r, op, v)
  PROVE  LogInv' /\ \A s \in Opportunities : EntersLogged(s)
<1>1. /\ edit'[h] = [id |-> r, copy |-> row[r], op |-> op, value |-> v, at |-> 0, overtaken |-> FALSE]
      /\ \A g \in Editors : g # h => edit'[g] = edit[g]
      /\ UNCHANGED <<row, trail, raced>> /\ row[r] # Null
  BY DEF Load, Owned, RecordsInv, RecordsShape
<1>2. edit'[h].id = r /\ edit'[h].copy = row[r] /\ edit'[h].at = 0
  BY <1>1
<1>3. r \in Opportunities => \E k \in MovesIn(trail[r]) : k.to = row[r].value
  BY <1>1 DEF LogInv, Told, Whole
<1>4. Placed(h)'
  BY <1>1, <1>2, <1>3 DEF Placed
<1>. QED
  BY <1>1, <1>2, <1>4, QuietLog

LEMMA DropLog ==
  ASSUME RecordsInv, LogInv, NEW h \in Editors, DropEdit(h)
  PROVE  LogInv' /\ \A s \in Opportunities : EntersLogged(s)
<1>1. /\ edit'[h] = Null /\ \A g \in Editors : g # h => edit'[g] = edit[g]
      /\ UNCHANGED <<row, trail, raced>>
  BY DEF DropEdit, RecordsInv, RecordsShape
<1>2. Placed(h)'
  BY <1>1 DEF Placed
<1>. QED
  BY <1>1, <1>2, QuietLog

LEMMA LogLog ==
  ASSUME RecordsInv, LogInv, NEW h \in Editors, LogEdit(h)
  PROVE  LogInv' /\ \A s \in Opportunities : EntersLogged(s)
<1> DEFINE r == edit[h].id
           n == clock[r] + 1
<1>1. /\ edit[h] # Null /\ r \in Rows /\ clock[r] \in Nat
      /\ edit'[h].id = r /\ edit'[h].copy = edit[h].copy /\ edit'[h].at = n
      /\ \A g \in Editors : g # h => edit'[g] = edit[g]
      /\ UNCHANGED <<row, trail, raced>>
  <2>1. edit[h] \in AnyEdit
    BY LogFacts DEF RecordsInv, RecordsShape
  <2>. QED
    BY <2>1, LogFacts DEF AnyEdit
<1>2. \A m \in trail[r] : m.at \in Nat /\ m.at < n
  BY <1>1 DEF RecordsInv, RecordsTypeOK, AnyEntry
<1>3. Placed(h)'
  <2>1. r \in Opportunities => \E k \in MovesIn(trail[r]) : k.to = edit[h].copy.value
    BY <1>1 DEF LogInv, Placed
  <2>2. MovesIn(trail[r]) \subseteq trail[r]
    BY DEF MovesIn
  <2>3. \A m \in trail[r] : m.at # n
    BY <1>1, <1>2
  <2>. HIDE DEF r, n
  <2>4. \A s : s = r => trail'[s] = trail[r]
    BY <1>1
  <2>. QED
    BY <1>1, <1>2, <2>1, <2>2, <2>3 DEF Placed
<1>4. ASSUME NEW g \in Editors, edit'[g] # Null, edit'[g].id = r, edit'[g].at = n
      PROVE  g = h
  <2> SUFFICES ASSUME g # h PROVE FALSE
    OBVIOUS
  <2>1. edit[g] # Null /\ edit[g].id = r /\ edit[g].at = n
    BY <1>1, <1>4
  <2>2. edit[g].at \in 0..clock[r]
    BY <2>1 DEF RecordsInv, RecordsTypeOK
  <2>. QED
    BY <1>1, <2>1, <2>2
<1>. HIDE DEF n, r
<1>. QED
  BY <1>1, <1>3, <1>4, QuietLog

LEMMA LogStep ==
  RecordsInv /\ LogInv /\ [RecordsNext]_recordVars =>
    LogInv' /\ \A r \in Opportunities : EntersLogged(r) \/ UNCHANGED recordVars
<1> SUFFICES ASSUME RecordsInv, LogInv, [RecordsNext]_recordVars
             PROVE  LogInv' /\ \A r \in Opportunities : EntersLogged(r) \/ UNCHANGED recordVars
  OBVIOUS
<1>1. CASE UNCHANGED recordVars
  BY <1>1 DEF recordVars, LogInv, Told, Placed, TimesDiffer
<1>2. ASSUME NEW h \in Editors, NEW r \in Rows, NEW v,
             OpenDelete(h, r) \/ OpenPatch(h, r, v)
      PROVE  LogInv' /\ \A s \in Opportunities : EntersLogged(s)
  BY <1>2, LoadLog DEF OpenDelete, OpenPatch
<1>. QED
  BY <1>1, <1>2, CreateLog, WriteLog, DropLog, LogLog DEF RecordsNext

\* Every step leaves the log of an opportunity telling its stages: however edits overlap, it
\* knows them all, and no stage is entered without an entry that says so; and unless an edit
\* was written after another that it did not know of, the log read by time is a chain that
\* ends at the stage there is.
THEOREM TrailHolds == RecordsSpec => TrailIsStage
<1>1. RecordsInit => LogInv
  BY DEF RecordsInit, LogInv, Told, Placed, TimesDiffer, Rows
<1>2. LogInv' => \A r \in Opportunities :
                   row'[r] # Null => LogIsWhole(r)' /\ (r \in raced' \/ LogIsChain(r)')
  BY DEF LogInv, Told, Whole, Chain, LogIsWhole, LogIsChain, Moves, MovesIn
<1>3. \A r \in Opportunities : EntersLogged(r) /\ row'[r] # Null =>
        \/ row[r] # Null /\ row'[r].value = row[r].value
        \/ \E m \in Moves(r)' \ Moves(r) : m.to = row'[r].value
  BY DEF EntersLogged, Moves, MovesIn
<1>4. RecordsInv /\ LogInv /\ LogInv' /\ [RecordsNext]_recordVars =>
        [\A r \in Opportunities : row'[r] # Null =>
           /\ LogIsWhole(r)'
           /\ r \in raced' \/ LogIsChain(r)'
           /\ \/ row[r] # Null /\ row'[r].value = row[r].value
              \/ \E m \in Moves(r)' \ Moves(r) : m.to = row'[r].value]_recordVars
  BY <1>2, <1>3, LogStep
<1>. QED
  BY <1>1, <1>4, LogStep, RecordsInvariance, PTL DEF RecordsSpec, TrailIsStage

-----------------------------------------------------------------------------
(* Companies and contacts. *)

DirectoryShape ==
  /\ company \in [CompanyIds -> CompanyRow \cup {None}]
  /\ contact \in [ContactIds -> ContactRow \cup {None}]
  /\ page \in [Extractors -> Pages \cup {None}]
  /\ employer \in [Extractors -> CompanyIds \cup {None}]
  /\ left \in [Extractors -> Seq(EmailsOfPages)]
  /\ enriched \in [Extractors -> [ContactIds -> Enrichment \cup {None}]]
  /\ ingests \in 0..MaxIngests

\* Whoever sees a contact, works for a company or is about to write one into a contact sees
\* that company; and a title that was known when the contact was loaded is left alone.
Linked ==
  /\ \A c \in ContactIds : contact[c] # None /\ contact[c].company # None =>
       Seen(contact[c].by, company[contact[c].company])
  /\ \A x \in Extractors : employer[x] # None => page[x] # None /\ Seen(x, company[employer[x]])
  /\ \A x \in Extractors : \A c \in ContactIds : enriched[x][c] # None =>
       /\ Seen(x, contact[c])
       /\ enriched[x][c].old.title = None \/ enriched[x][c].new.title = enriched[x][c].old.title
       /\ enriched[x][c].new.company # None => Seen(x, company[enriched[x][c].new.company])

IsDraft(r) == r # None /\ r.by # None

\* The drafts there are belong to sessions with a page, the company to the one that works
\* for it, and a session has one draft per email.
DraftsAreOwned ==
  /\ \A c \in CompanyIds : IsDraft(company[c]) =>
       page[company[c].by] # None /\ employer[company[c].by] = c
  /\ \A c \in ContactIds : IsDraft(contact[c]) => page[contact[c].by] # None
  /\ \A c, k \in ContactIds :
       IsDraft(contact[c]) /\ IsDraft(contact[k]) /\ contact[c].by = contact[k].by
         /\ contact[c].email = contact[k].email => c = k

\* What another has committed under the key of a draft, it has committed since the session
\* of the draft began.
RivalsAreNoticed ==
  /\ \A c, k \in CompanyIds :
       IsDraft(company[c]) /\ Committed(company[k]) /\ company[c].domain = company[k].domain =>
         company[c].domain \in rivals[company[c].by]
  /\ \A c, k \in ContactIds :
       IsDraft(contact[c]) /\ Committed(contact[k]) /\ contact[c].email = contact[k].email =>
         contact[c].email \in rivals[contact[c].by]

Singles ==
  /\ \A c, k \in CompanyIds :
       Committed(company[c]) /\ Committed(company[k]) /\ company[c].domain = company[k].domain =>
         c = k \/ company[c].domain \in doubled
  /\ \A c, k \in ContactIds :
       Committed(contact[c]) /\ Committed(contact[k]) /\ contact[c].email = contact[k].email =>
         c = k \/ contact[c].email \in doubled


DirectoryInv == DirectoryShape /\ Linked /\ DraftsAreOwned /\ RivalsAreNoticed /\ Singles

-----------------------------------------------------------------------------
(* What is found, and what a commit makes of a row. *)

LEMMA FoundOne ==
  ASSUME NEW found, None \notin found, NEW c \in OneOrNone(found)
  PROVE  /\ c # None => c \in found
         /\ c = None => found = {}
BY DEF OneOrNone

LEMMA SingleCardinality ==
  ASSUME NEW S, \A c, k \in S : c = k
  PROVE  Cardinality(S) <= 1
<1>1. CASE S = {}
  BY <1>1, FS_EmptySet
<1>2. ASSUME NEW c \in S PROVE Cardinality(S) <= 1
  <2>1. S = {c}
    BY <1>2
  <2>2. Cardinality({c}) = 1
    BY FS_Singleton
  <2>. QED
    BY <2>1, <2>2
<1>. QED
  BY <1>1, <1>2

LEMMA FreshRow ==
  ASSUME NEW ids, NEW table, DOMAIN table = ids, NEW new \in Fresh(table)
  PROVE  new \in ids /\ table[new] = None
BY DEF Fresh

LEMMA KeptCompany ==
  ASSUME DirectoryShape, NEW x \in Extractors, Keep(x), NEW c \in CompanyIds
  PROVE  /\ company'[c] \in CompanyRow \cup {None}
         /\ company'[c] = None <=> company[c] = None
         /\ company[c] # None => /\ company'[c].domain = company[c].domain
                                 /\ company'[c].by = (IF company[c].by = x THEN None ELSE company[c].by)
<1>1. company[c] \in CompanyRow \cup {None} /\ None \notin CompanyRow
  BY DirectoryConstants DEF DirectoryShape
<1>2. company'[c] = IF company[c] # None /\ company[c].by = x THEN [company[c] EXCEPT !.by = None]
                    ELSE company[c]
  BY DEF Keep
<1>3. CASE company[c] # None /\ company[c].by = x
  <2>1. company'[c] = [company[c] EXCEPT !.by = None] /\ company[c] \in CompanyRow
    BY <1>1, <1>2, <1>3
  <2>2. /\ [company[c] EXCEPT !.by = None] \in CompanyRow
        /\ [company[c] EXCEPT !.by = None].domain = company[c].domain
        /\ [company[c] EXCEPT !.by = None].by = None
    BY <2>1 DEF CompanyRow
  <2>. QED
    BY <1>1, <1>3, <2>1, <2>2
<1>4. CASE ~(company[c] # None /\ company[c].by = x)
  BY <1>1, <1>2, <1>4
<1>. QED
  BY <1>3, <1>4

LEMMA KeptContact ==
  ASSUME DirectoryShape, Linked, NEW x \in Extractors, Keep(x), NEW c \in ContactIds
  PROVE  /\ contact'[c] \in ContactRow \cup {None}
         /\ contact'[c] = None <=> contact[c] = None
         /\ contact[c] # None =>
              /\ contact'[c].email = contact[c].email
              /\ contact'[c].by = (IF contact[c].by = x THEN None ELSE contact[c].by)
              /\ \/ contact'[c].company = contact[c].company
                 \/ enriched[x][c] # None /\ contact'[c].company = enriched[x][c].new.company
              /\ \/ contact'[c].title = contact[c].title
                 \/ enriched[x][c] # None /\ enriched[x][c].old.title = None
<1> DEFINE r == contact[c]
           n == enriched[x][c]
<1>1. r \in ContactRow \cup {None} /\ None \notin ContactRow
  BY DirectoryConstants DEF DirectoryShape
<1>2. contact'[c] = Left(x, c)
  BY DEF Keep
<1>3. CASE r # None /\ r.by = x
  <2>1. contact'[c] = [r EXCEPT !.by = None] /\ r \in ContactRow
    BY <1>1, <1>2, <1>3 DEF Left
  <2>2. /\ [r EXCEPT !.by = None] \in ContactRow /\ [r EXCEPT !.by = None].by = None
        /\ [r EXCEPT !.by = None].email = r.email /\ [r EXCEPT !.by = None].company = r.company
        /\ [r EXCEPT !.by = None].title = r.title
    BY <2>1 DEF ContactRow
  <2>. QED
    BY <1>1, <1>3, <2>1, <2>2
<1>4. CASE ~(r # None /\ r.by = x) /\ n = None
  BY <1>1, <1>2, <1>4 DEF Left
<1>5. CASE ~(r # None /\ r.by = x) /\ n # None
  <2> DEFINE t == Changed(r.title, n.old.title, n.new.title)
             k == Changed(r.company, n.old.company, n.new.company)
             s == [r EXCEPT !.title = t, !.company = k]
  <2>1. r # None /\ r \in ContactRow /\ n \in Enrichment
    BY <1>1, <1>5 DEF Linked, Seen, DirectoryShape
  <2>2. t \in Titles \cup {None} /\ k \in CompanyIds \cup {None}
    BY <2>1 DEF ContactRow, Enrichment, Changed
  <2>3. contact'[c] = s
    BY <1>2, <1>5, <2>1 DEF Left
  <2>4. s \in ContactRow /\ s.email = r.email /\ s.by = r.by /\ s.title = t /\ s.company = k
    BY <2>1, <2>2 DEF ContactRow
  <2>5. k = r.company \/ k = n.new.company
    BY DEF Changed
  <2>6. t = r.title \/ n.old.title = None
    BY <1>5 DEF Changed, Linked
  <2>. QED
    BY <1>1, <1>5, <2>1, <2>3, <2>4, <2>5, <2>6
<1>. QED
  BY <1>3, <1>4, <1>5

\* A row that a session sees, everyone sees once that session has committed, and others
\* go on seeing what they saw.
LEMMA KeptSeen ==
  ASSUME DirectoryShape, NEW x \in Extractors, Keep(x), NEW y \in Extractors \cup {None},
         NEW c \in CompanyIds, Seen(y, company[c])
  PROVE  /\ Seen(y, company'[c])
         /\ y = x => \A z : Seen(z, company'[c])
BY KeptCompany, DirectoryConstants DEF Seen

-----------------------------------------------------------------------------
(* The steps. *)

LEMMA DirectoryInitInv == DirectoryInit => DirectoryInv
<1> SUFFICES ASSUME DirectoryInit PROVE DirectoryInv
  OBVIOUS
<1>1. DirectoryShape
  BY DirectoryConstants DEF DirectoryInit, DirectoryShape
<1>2. Linked
  BY DEF DirectoryInit, Linked
<1>3. DraftsAreOwned /\ RivalsAreNoticed /\ Singles
  BY DEF DirectoryInit, DraftsAreOwned, RivalsAreNoticed, Singles, IsDraft, Committed
<1>. QED
  BY <1>1, <1>2, <1>3 DEF DirectoryInv

LEMMA IngestInv ==
  ASSUME DirectoryInv, NEW x \in Extractors, NEW p \in Pages, Ingest(x, p) PROVE DirectoryInv'
<1>1. /\ UNCHANGED <<company, contact, employer, enriched, rivals, doubled>>
      /\ page' = [page EXCEPT ![x] = p] /\ left' = [left EXCEPT ![x] = p.emails]
      /\ page[x] = None
  BY DEF Ingest
<1>2. \A y \in Extractors : page[y] # None => page'[y] # None
  BY <1>1 DEF DirectoryInv, DirectoryShape
<1>3. DirectoryShape'
  <2>1. p.emails \in Seq(EmailsOfPages) /\ ingests' \in 0..MaxIngests
    BY DirectoryConstants DEF Ingest, DirectoryInv, DirectoryShape
  <2>. QED
    BY <1>1, <2>1 DEF DirectoryInv, DirectoryShape
<1>4. Linked'
  BY <1>1, <1>2 DEF DirectoryInv, Linked
<1>5. DraftsAreOwned'
  BY <1>1, <1>2 DEF DirectoryInv, DirectoryShape, DraftsAreOwned, IsDraft, CompanyRow, ContactRow
<1>6. RivalsAreNoticed' /\ Singles'
  BY <1>1 DEF DirectoryInv, RivalsAreNoticed, Singles
<1>. QED
  BY <1>3, <1>4, <1>5, <1>6 DEF DirectoryInv

LEMMA GetCompanyInv ==
  ASSUME DirectoryInv, NEW x \in Extractors, GetCompany(x) PROVE DirectoryInv'
<1>0. /\ page[x] \in Pages /\ page[x] # None /\ employer[x] = None
      /\ UNCHANGED <<contact, page, left, enriched, rivals, doubled, ingests>>
  BY DEF GetCompany, DirectoryInv, DirectoryShape
<1>1. PICK c \in OneOrNone(CompaniesOf(x, page[x].domain)) :
        IF c # None
        THEN employer' = [employer EXCEPT ![x] = c] /\ UNCHANGED company
        ELSE \E new \in Fresh(company) :
               /\ company' = [company EXCEPT ![new] = [domain |-> page[x].domain, by |-> x]]
               /\ employer' = [employer EXCEPT ![x] = new]
  BY DEF GetCompany
<1>2. None \notin CompaniesOf(x, page[x].domain)
  BY DirectoryConstants DEF CompaniesOf
<1>3. /\ c # None => c \in CompaniesOf(x, page[x].domain)
      /\ c = None => CompaniesOf(x, page[x].domain) = {}
  BY <1>2, FoundOne
<1>4. \A y \in Extractors : y # x => employer'[y] = employer[y]
  BY <1>1 DEF DirectoryInv, DirectoryShape
<1>5. CASE c # None
  <2>1. c \in CompanyIds /\ Seen(x, company[c])
    BY <1>3, <1>5 DEF CompaniesOf
  <2>2. employer' = [employer EXCEPT ![x] = c] /\ company' = company
    BY <1>1, <1>5
  <2>3. DirectoryShape'
    BY <1>0, <2>1, <2>2 DEF DirectoryInv, DirectoryShape
  <2>4. Linked'
    <3>1. \A y \in Extractors : employer'[y] # None => page'[y] # None /\ Seen(y, company'[employer'[y]])
      <4> SUFFICES ASSUME NEW y \in Extractors, employer'[y] # None
                   PROVE  page[y] # None /\ Seen(y, company[employer'[y]])
        BY <1>0, <2>2
      <4>1. CASE y = x
        BY <1>0, <2>1, <2>2, <4>1 DEF DirectoryInv, DirectoryShape
      <4>2. CASE y # x
        BY <1>4, <4>2 DEF DirectoryInv, Linked
      <4>. QED
        BY <4>1, <4>2
    <3>. QED
      BY <1>0, <2>2, <3>1 DEF DirectoryInv, Linked
  <2>5. DraftsAreOwned'
    <3>1. \A k \in CompanyIds : IsDraft(company[k]) => company[k].by # x
      BY <1>0, DirectoryConstants DEF DirectoryInv, DraftsAreOwned
    <3>. QED
      BY <1>0, <1>4, <2>2, <3>1 DEF DirectoryInv, DirectoryShape, DraftsAreOwned, IsDraft, CompanyRow
  <2>6. RivalsAreNoticed' /\ Singles'
    BY <1>0, <2>2 DEF DirectoryInv, RivalsAreNoticed, Singles
  <2>. QED
    BY <2>3, <2>4, <2>5, <2>6 DEF DirectoryInv
<1>6. CASE c = None
  <2> DEFINE made == [domain |-> page[x].domain, by |-> x]
  <2>1. PICK new \in Fresh(company) :
          /\ company' = [company EXCEPT ![new] = made]
          /\ employer' = [employer EXCEPT ![x] = new]
    BY <1>1, <1>6
  <2>2. new \in CompanyIds /\ company[new] = None
    BY FreshRow DEF DirectoryInv, DirectoryShape
  <2>3. /\ made \in CompanyRow /\ made # None /\ made.by = x /\ x # None
        /\ made.domain = page[x].domain
    BY <1>0, DirectoryConstants DEF CompanyRow, Domains
  <2>4. /\ company'[new] = made /\ employer'[x] = new
        /\ \A k \in CompanyIds : k # new => company'[k] = company[k]
    BY <2>1, <2>2 DEF DirectoryInv, DirectoryShape
  <2>5. \A y, k : k \in CompanyIds /\ Seen(y, company[k]) => Seen(y, company'[k])
    BY <2>2, <2>4 DEF Seen
  <2>6. DirectoryShape'
    BY <1>0, <2>1, <2>2, <2>3 DEF DirectoryInv, DirectoryShape
  <2>7. Linked'
    <3>1. \A k \in ContactIds : contact'[k] # None /\ contact'[k].company # None =>
            Seen(contact'[k].by, company'[contact'[k].company])
      BY <1>0, <2>5 DEF DirectoryInv, DirectoryShape, Linked, ContactRow
    <3>2. \A y \in Extractors : employer'[y] # None => page'[y] # None /\ Seen(y, company'[employer'[y]])
      <4> SUFFICES ASSUME NEW y \in Extractors, employer'[y] # None
                   PROVE  page[y] # None /\ Seen(y, company'[employer'[y]])
        BY <1>0
      <4>1. CASE y = x
        BY <1>0, <2>3, <2>4, <4>1 DEF Seen
      <4>2. CASE y # x
        <5>1. employer[y] # None /\ employer[y] \in CompanyIds /\ page[y] # None /\ Seen(y, company[employer[y]])
          BY <1>4, <4>2 DEF DirectoryInv, DirectoryShape, Linked
        <5>. QED
          BY <1>4, <2>5, <4>2, <5>1
      <4>. QED
        BY <4>1, <4>2
    <3>3. ASSUME NEW y \in Extractors, NEW k \in ContactIds, enriched[y][k] # None,
                 enriched[y][k].new.company # None
          PROVE  Seen(y, company'[enriched[y][k].new.company])
      <4>1. enriched[y][k].new.company \in CompanyIds /\ Seen(y, company[enriched[y][k].new.company])
        BY <3>3 DEF DirectoryInv, DirectoryShape, Linked, Enrichment, ContactRow
      <4>. QED
        BY <2>5, <4>1
    <3>. QED
      BY <1>0, <3>1, <3>2, <3>3 DEF DirectoryInv, Linked
  <2>8. DraftsAreOwned'
    <3>1. \A k \in CompanyIds : IsDraft(company[k]) => company[k].by # x
      BY <1>0, DirectoryConstants DEF DirectoryInv, DraftsAreOwned
    <3>2. \A k \in CompanyIds : IsDraft(company'[k]) =>
            page[company'[k].by] # None /\ employer'[company'[k].by] = k
      <4> SUFFICES ASSUME NEW k \in CompanyIds, IsDraft(company'[k])
                   PROVE  page[company'[k].by] # None /\ employer'[company'[k].by] = k
        OBVIOUS
      <4>1. CASE k = new
        BY <1>0, <2>3, <2>4, <4>1
      <4>2. CASE k # new
        BY <1>4, <2>4, <3>1, <4>2 DEF DirectoryInv, DirectoryShape, DraftsAreOwned, IsDraft, CompanyRow
      <4>. QED
        BY <4>1, <4>2
    <3>. QED
      BY <1>0, <3>2 DEF DirectoryInv, DraftsAreOwned
  <2>9. RivalsAreNoticed'
    <3>1. \A k \in CompanyIds : company[k] # None /\ company[k].by = None => company[k].domain # page[x].domain
      BY <1>3, <1>6 DEF CompaniesOf, Seen
    <3>2. ASSUME NEW j \in CompanyIds, NEW k \in CompanyIds, IsDraft(company'[j]), Committed(company'[k]),
                 company'[j].domain = company'[k].domain
          PROVE  company'[j].domain \in rivals[company'[j].by]
      <4>1. k # new /\ company'[k] = company[k]
        BY <2>3, <2>4, <3>2 DEF Committed
      <4>2. CASE j = new
        BY <2>3, <2>4, <3>1, <3>2, <4>1, <4>2 DEF Committed
      <4>3. CASE j # new
        BY <2>4, <3>2, <4>1, <4>3 DEF DirectoryInv, RivalsAreNoticed
      <4>. QED
        BY <4>2, <4>3
    <3>. QED
      BY <1>0, <3>2 DEF DirectoryInv, RivalsAreNoticed
  <2>10. Singles'
    <3>1. \A k \in CompanyIds : Committed(company'[k]) => company'[k] = company[k]
      BY <2>3, <2>4 DEF Committed
    <3>. QED
      BY <1>0, <3>1 DEF DirectoryInv, Singles
  <2>. QED
    BY <2>6, <2>7, <2>8, <2>9, <2>10 DEF DirectoryInv
<1>. QED
  BY <1>5, <1>6

\* The contact of the next email is found: it is only changed in the session's copy.
LEMMA EnrichInv ==
  ASSUME DirectoryInv, NEW x \in Extractors, employer[x] # None, left[x] # <<>>,
         NEW c \in ContactIds, Seen(x, contact[c]), NEW guess \in Titles \cup {None},
         UNCHANGED <<company, contact, page, employer, rivals, doubled, ingests>>,
         left' = [left EXCEPT ![x] = Tail(@)],
         LET old == AsLoaded(x, c)
             new == [old EXCEPT !.title = Enrich(@, guess), !.company = Enrich(@, employer[x])]
         IN  enriched' = [enriched EXCEPT ![x][c] =
               IF new = old THEN @ ELSE [old |-> IF @ = None THEN old ELSE @.old, new |-> new]]
  PROVE  DirectoryInv'
<1> DEFINE n == enriched[x][c]
           old == AsLoaded(x, c)
           t == Enrich(old.title, guess)
           k == Enrich(old.company, employer[x])
           new == [old EXCEPT !.title = t, !.company = k]
           m == IF new = old THEN n ELSE [old |-> IF n = None THEN old ELSE n.old, new |-> new]
<1>1. /\ contact[c] \in ContactRow /\ contact[c] # None /\ n \in Enrichment \cup {None}
      /\ employer[x] \in CompanyIds /\ Seen(x, company[employer[x]])
      /\ None \notin Enrichment
  BY DirectoryConstants DEF DirectoryInv, DirectoryShape, Linked, Seen
<1>2. /\ old \in ContactRow
      /\ old.company # None => Seen(x, company[old.company])
  <2>1. CASE n = None
    <3>1. old = contact[c]
      BY <2>1 DEF AsLoaded
    <3>2. contact[c].company # None => Seen(contact[c].by, company[contact[c].company])
      BY <1>1 DEF DirectoryInv, Linked
    <3>. QED
      BY <1>1, <3>1, <3>2, DirectoryConstants DEF Seen
  <2>2. CASE n # None
    BY <1>1, <2>2 DEF AsLoaded, Enrichment, DirectoryInv, Linked
  <2>. QED
    BY <2>1, <2>2
<1>3. t \in Titles \cup {None} /\ k \in CompanyIds \cup {None}
  BY <1>1, <1>2 DEF Enrich, ContactRow
<1>4. new \in ContactRow /\ new.title = t /\ new.company = k
  BY <1>2, <1>3 DEF ContactRow
<1>5. k # None => Seen(x, company[k])
  BY <1>1, <1>2 DEF Enrich
<1>6. m \in Enrichment \cup {None}
  BY <1>1, <1>2, <1>4 DEF Enrichment
<1>7. m # None => m.old.title = None \/ m.new.title = m.old.title
  <2>1. CASE new = old
    BY <2>1 DEF DirectoryInv, Linked
  <2>2. CASE new # old /\ n = None
    <3>1. m = [old |-> old, new |-> new]
      BY <2>2
    <3>. QED
      BY <1>4, <3>1 DEF Enrich
  <2>3. CASE new # old /\ n # None
    <3>1. m.old = n.old /\ m.new = new /\ old = n.new
      BY <2>3 DEF AsLoaded
    <3>2. n.old.title = None \/ n.new.title = n.old.title
      BY <2>3 DEF DirectoryInv, Linked
    <3>. QED
      BY <1>4, <3>1, <3>2 DEF Enrich
  <2>. QED
    BY <2>1, <2>2, <2>3
<1>8. m # None /\ m.new.company # None => Seen(x, company[m.new.company])
  BY <1>4, <1>5 DEF DirectoryInv, Linked
<1>9. /\ enriched' = [enriched EXCEPT ![x] = [enriched[x] EXCEPT ![c] = m]]
      /\ enriched[x] \in [ContactIds -> Enrichment \cup {None}]
  BY DEF DirectoryInv, DirectoryShape
<1>10. [enriched[x] EXCEPT ![c] = m] \in [ContactIds -> Enrichment \cup {None}]
  BY <1>6, <1>9
<1>11. /\ enriched'[x][c] = m
       /\ \A y \in Extractors : \A j \in ContactIds :
            ~(y = x /\ j = c) => enriched'[y][j] = enriched[y][j]
  BY <1>9 DEF DirectoryInv, DirectoryShape
<1>12. DirectoryShape'
  <2>1. Tail(left[x]) \in Seq(EmailsOfPages)
    BY DEF DirectoryInv, DirectoryShape
  <2>. QED
    BY <1>9, <1>10, <2>1 DEF DirectoryInv, DirectoryShape
<1>13. Linked'
  <2>1. ASSUME NEW y \in Extractors, NEW j \in ContactIds, enriched'[y][j] # None
        PROVE  /\ Seen(y, contact[j])
               /\ \/ enriched'[y][j].old.title = None
                  \/ enriched'[y][j].new.title = enriched'[y][j].old.title
               /\ enriched'[y][j].new.company # None => Seen(y, company[enriched'[y][j].new.company])
    <3>1. CASE y = x /\ j = c
      <4>1. enriched'[y][j] = m /\ m # None /\ y = x /\ j = c
        BY <1>11, <2>1, <3>1
      <4>2. Seen(y, contact[j])
        BY <4>1
      <4>. HIDE DEF m
      <4>. QED
        BY <1>7, <1>8, <4>1, <4>2
    <3>2. CASE ~(y = x /\ j = c)
      <4>1. enriched'[y][j] = enriched[y][j] /\ enriched[y][j] # None
        BY <1>11, <2>1, <3>2
      <4>. QED
        BY <4>1 DEF DirectoryInv, Linked
    <3>. QED
      BY <3>1, <3>2
  <2>. QED
    BY <2>1 DEF DirectoryInv, Linked
<1>14. DraftsAreOwned' /\ RivalsAreNoticed' /\ Singles'
  BY DEF DirectoryInv, DraftsAreOwned, RivalsAreNoticed, Singles
<1>. QED
  BY <1>12, <1>13, <1>14 DEF DirectoryInv

\* A contact is entered: a draft of a session that sees none with its email, or by hand.
LEMMA NewContactInv ==
  ASSUME DirectoryInv, NEW author \in Extractors \cup {None}, NEW new \in ContactIds,
         contact[new] = None, NEW r \in ContactRow, r.by = author,
         r.company # None => Seen(author, company[r.company]),
         contact' = [contact EXCEPT ![new] = r],
         UNCHANGED <<company, page, employer, enriched>>,
         left' \in [Extractors -> Seq(EmailsOfPages)], ingests' \in 0..MaxIngests,
         author # None => page[author] # None /\ ContactsOf(author, r.email) = {},
         \A y \in Extractors : rivals[y] \subseteq rivals'[y] \/ page[y] = None,
         doubled \subseteq doubled',
         author = None =>
           /\ \A y \in Extractors : page[y] # None => r.email \in rivals'[y]
           /\ \A c \in ContactIds : Committed(contact[c]) /\ contact[c].email = r.email => r.email \in doubled'
  PROVE  DirectoryInv'
<1>1. r # None /\ None \notin Extractors
  BY DirectoryConstants
<1>2. contact'[new] = r /\ \A c \in ContactIds : c # new => contact'[c] = contact[c]
  BY DEF DirectoryInv, DirectoryShape
<1>3. DirectoryShape'
  BY DEF DirectoryInv, DirectoryShape
<1>4. Linked'
  <2>1. \A c \in ContactIds : contact'[c] # None /\ contact'[c].company # None =>
          Seen(contact'[c].by, company'[contact'[c].company])
    BY <1>2 DEF DirectoryInv, Linked
  <2>2. \A y : \A c \in ContactIds : Seen(y, contact[c]) => Seen(y, contact'[c])
    BY <1>2 DEF Seen
  <2>. QED
    BY <2>1, <2>2 DEF DirectoryInv, Linked
<1>5. DraftsAreOwned'
  <2>1. \A c \in ContactIds : IsDraft(contact'[c]) => page'[contact'[c].by] # None
    BY <1>2 DEF DirectoryInv, DraftsAreOwned, IsDraft
  <2>2. ASSUME NEW c \in ContactIds, NEW k \in ContactIds, IsDraft(contact'[c]), IsDraft(contact'[k]),
               contact'[c].by = contact'[k].by, contact'[c].email = contact'[k].email
        PROVE  c = k
    <3>1. \A j \in ContactIds : author # None /\ contact[j] # None /\ contact[j].by = author =>
            contact[j].email # r.email
      BY DEF ContactsOf, Seen
    <3>2. CASE c # new /\ k # new
      BY <1>2, <2>2, <3>2 DEF DirectoryInv, DraftsAreOwned
    <3>3. CASE c = new /\ k # new
      BY <1>2, <2>2, <3>1, <3>3 DEF IsDraft
    <3>4. CASE c # new /\ k = new
      BY <1>2, <2>2, <3>1, <3>4 DEF IsDraft
    <3>. QED
      BY <3>2, <3>3, <3>4
  <2>. QED
    BY <2>1, <2>2 DEF DirectoryInv, DraftsAreOwned
<1>6. RivalsAreNoticed'
  <2>1. ASSUME NEW c \in ContactIds, NEW k \in ContactIds, IsDraft(contact'[c]), Committed(contact'[k]),
               contact'[c].email = contact'[k].email
        PROVE  contact'[c].email \in rivals'[contact'[c].by]
    <3>1. CASE c = new
      <4>1. author # None /\ k # new
        BY <1>2, <2>1, <3>1 DEF IsDraft, Committed
      <4>2. Seen(author, contact[k]) /\ contact[k].email = r.email
        BY <1>2, <2>1, <3>1, <4>1 DEF Committed, Seen
      <4>. QED
        BY <4>1, <4>2 DEF ContactsOf
    <3>2. CASE c # new
      <4>1. /\ contact'[c] = contact[c] /\ IsDraft(contact[c])
            /\ contact[c].by \in Extractors /\ page[contact[c].by] # None
        BY <1>2, <2>1, <3>2 DEF DirectoryInv, DirectoryShape, DraftsAreOwned, IsDraft, ContactRow
      <4>2. CASE k = new
        BY <1>2, <2>1, <4>1, <4>2 DEF Committed
      <4>3. CASE k # new
        BY <1>2, <2>1, <4>1, <4>3 DEF DirectoryInv, RivalsAreNoticed
      <4>. QED
        BY <4>2, <4>3
    <3>. QED
      BY <3>1, <3>2
  <2>2. ASSUME NEW c \in CompanyIds, NEW k \in CompanyIds, IsDraft(company[c]), Committed(company[k]),
               company[c].domain = company[k].domain
        PROVE  company[c].domain \in rivals'[company[c].by]
    <3>1. company[c].by \in Extractors /\ page[company[c].by] # None
      BY <2>2 DEF DirectoryInv, DirectoryShape, DraftsAreOwned, IsDraft, CompanyRow
    <3>. QED
      BY <2>2, <3>1 DEF DirectoryInv, RivalsAreNoticed
  <2>. QED
    BY <2>1, <2>2 DEF RivalsAreNoticed
<1>7. Singles'
  <2>1. ASSUME NEW c \in ContactIds, NEW k \in ContactIds, Committed(contact'[c]), Committed(contact'[k]),
               contact'[c].email = contact'[k].email, c # k
        PROVE  contact'[c].email \in doubled'
    <3>1. CASE c # new /\ k # new
      BY <1>2, <2>1, <3>1 DEF DirectoryInv, Singles
    <3>2. CASE c = new \/ k = new
      BY <1>2, <2>1, <3>2 DEF Committed
    <3>. QED
      BY <3>1, <3>2
  <2>. QED
    BY <2>1 DEF DirectoryInv, Singles
<1>. QED
  BY <1>3, <1>4, <1>5, <1>6, <1>7 DEF DirectoryInv

LEMMA GetContactInv ==
  ASSUME DirectoryInv, NEW x \in Extractors, GetContact(x) PROVE DirectoryInv'
<1> DEFINE e == Head(left[x])
           guess == Guess(x, e)
<1>1. /\ employer[x] # None /\ left[x] # <<>> /\ left' = [left EXCEPT ![x] = Tail(@)]
      /\ UNCHANGED <<company, page, employer, rivals, doubled, ingests>>
  BY DEF GetContact
<1>2. /\ page[x] \in Pages /\ page[x] # None /\ employer[x] \in CompanyIds
      /\ Seen(x, company[employer[x]]) /\ left[x] \in Seq(EmailsOfPages)
  BY <1>1 DEF DirectoryInv, DirectoryShape, Linked
<1>3. e \in EmailsOfPages /\ Tail(left[x]) \in Seq(EmailsOfPages)
  BY <1>1, <1>2
<1>4. guess \in Titles \cup {None}
  BY <1>2 DEF Guess, Titles
<1>5. PICK c \in OneOrNone(ContactsOf(x, e)) :
        IF c # None
        THEN /\ LET old == AsLoaded(x, c)
                    new == [old EXCEPT !.title = Enrich(@, guess), !.company = Enrich(@, employer[x])]
                IN  enriched' = [enriched EXCEPT ![x][c] =
                      IF new = old THEN @ ELSE [old |-> IF @ = None THEN old ELSE @.old, new |-> new]]
             /\ UNCHANGED contact
        ELSE \E new \in Fresh(contact) :
               /\ contact' = [contact EXCEPT ![new] =
                    [email |-> e, title |-> guess, company |-> employer[x], by |-> x]]
               /\ UNCHANGED enriched
  BY DEF GetContact
<1>6. None \notin ContactsOf(x, e)
  BY DirectoryConstants DEF ContactsOf
<1>7. /\ c # None => c \in ContactsOf(x, e)
      /\ c = None => ContactsOf(x, e) = {}
  BY <1>6, FoundOne
<1>8. CASE c # None
  <2>1. c \in ContactIds /\ Seen(x, contact[c])
    BY <1>7, <1>8 DEF ContactsOf
  <2>. HIDE DEF guess
  <2>. QED
    BY <1>1, <1>4, <1>5, <1>8, <2>1, EnrichInv
<1>9. CASE c = None
  <2> DEFINE r == [email |-> e, title |-> guess, company |-> employer[x], by |-> x]
  <2>1. PICK new \in Fresh(contact) : contact' = [contact EXCEPT ![new] = r] /\ UNCHANGED enriched
    BY <1>5, <1>9
  <2>2. new \in ContactIds /\ contact[new] = None
    BY FreshRow DEF DirectoryInv, DirectoryShape
  <2>3. /\ r \in ContactRow /\ r.by = x /\ r.email = e /\ r.company = employer[x]
    BY <1>2, <1>3, <1>4 DEF ContactRow
  <2>4. /\ left' \in [Extractors -> Seq(EmailsOfPages)] /\ ingests' \in 0..MaxIngests
    BY <1>1, <1>3 DEF DirectoryInv, DirectoryShape
  <2>5. x # None /\ ContactsOf(x, r.email) = {}
    BY <1>7, <1>9, <2>3, DirectoryConstants
  <2>. HIDE DEF r
  <2>. QED
    BY <1>1, <1>2, <2>1, <2>2, <2>3, <2>4, <2>5, NewContactInv
<1>. QED
  BY <1>8, <1>9

\* What is committed and what is a draft, once a session has committed.
LEMMA KeptRows ==
  ASSUME DirectoryInv, NEW x \in Extractors, Keep(x)
  PROVE  /\ \A c \in CompanyIds :
              /\ Committed(company'[c]) => Committed(company[c]) \/ (IsDraft(company[c]) /\ company[c].by = x)
              /\ IsDraft(company'[c]) => /\ IsDraft(company[c]) /\ company[c].by # x
                                         /\ company'[c].by = company[c].by
              /\ company[c] # None => company'[c].domain = company[c].domain
              /\ IsDraft(company[c]) /\ company[c].by = x => company[c].domain \in NewKeys(x)
         /\ \A c \in ContactIds :
              /\ Committed(contact'[c]) => Committed(contact[c]) \/ (IsDraft(contact[c]) /\ contact[c].by = x)
              /\ IsDraft(contact'[c]) => /\ IsDraft(contact[c]) /\ contact[c].by # x
                                         /\ contact'[c].by = contact[c].by
              /\ contact[c] # None => contact'[c].email = contact[c].email
              /\ IsDraft(contact[c]) /\ contact[c].by = x => contact[c].email \in NewKeys(x)
<1>1. x # None
  BY DirectoryConstants
<1>2. ASSUME NEW c \in CompanyIds
      PROVE  /\ Committed(company'[c]) => Committed(company[c]) \/ (IsDraft(company[c]) /\ company[c].by = x)
             /\ IsDraft(company'[c]) => /\ IsDraft(company[c]) /\ company[c].by # x
                                        /\ company'[c].by = company[c].by
             /\ company[c] # None => company'[c].domain = company[c].domain
             /\ IsDraft(company[c]) /\ company[c].by = x => company[c].domain \in NewKeys(x)
  <2>1. /\ company'[c] = None <=> company[c] = None
        /\ company[c] # None => /\ company'[c].domain = company[c].domain
                                /\ company'[c].by = (IF company[c].by = x THEN None ELSE company[c].by)
    BY KeptCompany DEF DirectoryInv
  <2>2. IsDraft(company[c]) /\ company[c].by = x => company[c].domain \in NewKeys(x)
    BY DEF IsDraft, NewKeys
  <2>. QED
    BY <1>1, <2>1, <2>2 DEF Committed, IsDraft
<1>3. ASSUME NEW c \in ContactIds
      PROVE  /\ Committed(contact'[c]) => Committed(contact[c]) \/ (IsDraft(contact[c]) /\ contact[c].by = x)
             /\ IsDraft(contact'[c]) => /\ IsDraft(contact[c]) /\ contact[c].by # x
                                        /\ contact'[c].by = contact[c].by
             /\ contact[c] # None => contact'[c].email = contact[c].email
             /\ IsDraft(contact[c]) /\ contact[c].by = x => contact[c].email \in NewKeys(x)
  <2>1. /\ contact'[c] = None <=> contact[c] = None
        /\ contact[c] # None => /\ contact'[c].email = contact[c].email
                                /\ contact'[c].by = (IF contact[c].by = x THEN None ELSE contact[c].by)
    BY KeptContact DEF DirectoryInv
  <2>2. IsDraft(contact[c]) /\ contact[c].by = x => contact[c].email \in NewKeys(x)
    BY DEF IsDraft, NewKeys
  <2>. QED
    BY <1>1, <2>1, <2>2 DEF Committed, IsDraft
<1>. QED
  BY <1>2, <1>3

LEMMA KeepInv == ASSUME DirectoryInv, NEW x \in Extractors, Keep(x) PROVE DirectoryInv'
<1>0. DirectoryShape /\ Linked /\ None \notin Extractors
  BY DirectoryConstants DEF DirectoryInv
<1>1. /\ page' = [page EXCEPT ![x] = None] /\ employer' = [employer EXCEPT ![x] = None]
      /\ left' = [left EXCEPT ![x] = <<>>]
      /\ enriched' = [enriched EXCEPT ![x] = [c \in ContactIds |-> None]]
      /\ ingests' = ingests
      /\ rivals' = [y \in Extractors |-> IF y = x \/ page[y] = None THEN {} ELSE rivals[y] \cup NewKeys(x)]
      /\ doubled' = doubled \cup (NewKeys(x) \cap rivals[x])
  BY DEF Keep, EndIngest, Noticed
<1>2. /\ page'[x] = None /\ employer'[x] = None /\ \A c \in ContactIds : enriched'[x][c] = None
      /\ \A y \in Extractors : y # x =>
           page'[y] = page[y] /\ employer'[y] = employer[y] /\ enriched'[y] = enriched[y]
  BY <1>0, <1>1 DEF DirectoryShape
<1>3. DirectoryShape'
  <2>1. company' \in [CompanyIds -> CompanyRow \cup {None}]
    <3>1. DOMAIN company' = CompanyIds /\ company' = [c \in CompanyIds |-> company'[c]]
      BY DEF Keep
    <3>2. \A c \in CompanyIds : company'[c] \in CompanyRow \cup {None}
      BY <1>0, KeptCompany
    <3>. QED
      BY <3>1, <3>2
  <2>2. contact' \in [ContactIds -> ContactRow \cup {None}]
    <3>1. contact' = [c \in ContactIds |-> contact'[c]]
      BY DEF Keep
    <3>2. \A c \in ContactIds : contact'[c] \in ContactRow \cup {None}
      BY <1>0, KeptContact
    <3>. QED
      BY <3>1, <3>2
  <2>. QED
    BY <1>0, <1>1, <2>1, <2>2 DEF DirectoryShape
<1>4. Linked'
  <2>1. ASSUME NEW c \in ContactIds, contact'[c] # None, contact'[c].company # None
        PROVE  Seen(contact'[c].by, company'[contact'[c].company])
    <3>1. /\ contact[c] # None
          /\ contact'[c].by = (IF contact[c].by = x THEN None ELSE contact[c].by)
          /\ \/ contact'[c].company = contact[c].company
             \/ enriched[x][c] # None /\ contact'[c].company = enriched[x][c].new.company
      BY <1>0, <2>1, KeptContact
    <3>2. contact[c].by \in Extractors \cup {None} /\ contact[c].company \in CompanyIds \cup {None}
      BY <1>0, <3>1 DEF DirectoryShape, ContactRow
    <3>3. CASE contact'[c].company = contact[c].company
      <4>1. Seen(contact[c].by, company[contact[c].company])
        BY <1>0, <2>1, <3>1, <3>3 DEF Linked
      <4>2. /\ Seen(contact[c].by, company'[contact[c].company])
            /\ contact[c].by = x => Seen(None, company'[contact[c].company])
        BY <1>0, <2>1, <3>2, <3>3, <4>1, KeptSeen
      <4>. QED
        BY <3>1, <3>3, <4>2
    <3>4. CASE enriched[x][c] # None /\ contact'[c].company = enriched[x][c].new.company
      <4>1. /\ enriched[x][c].new.company \in CompanyIds
            /\ Seen(x, company[enriched[x][c].new.company])
        BY <1>0, <2>1, <3>4 DEF Linked, DirectoryShape, Enrichment, ContactRow
      <4>2. \A z : Seen(z, company'[enriched[x][c].new.company])
        BY <1>0, <4>1, KeptSeen
      <4>. QED
        BY <3>4, <4>2
    <3>. QED
      BY <3>1, <3>3, <3>4
  <2>2. ASSUME NEW y \in Extractors, employer'[y] # None
        PROVE  page'[y] # None /\ Seen(y, company'[employer'[y]])
    <3>1. y # x /\ employer'[y] = employer[y] /\ page'[y] = page[y]
      BY <1>2, <2>2
    <3>2. employer[y] \in CompanyIds /\ page[y] # None /\ Seen(y, company[employer[y]])
      BY <1>0, <2>2, <3>1 DEF Linked, DirectoryShape
    <3>. QED
      BY <1>0, <3>1, <3>2, KeptSeen
  <2>3. ASSUME NEW y \in Extractors, NEW c \in ContactIds, enriched'[y][c] # None
        PROVE  /\ Seen(y, contact'[c])
               /\ \/ enriched'[y][c].old.title = None
                  \/ enriched'[y][c].new.title = enriched'[y][c].old.title
               /\ enriched'[y][c].new.company # None => Seen(y, company'[enriched'[y][c].new.company])
    <3>1. y # x /\ enriched'[y][c] = enriched[y][c]
      BY <1>2, <2>3
    <3>2. /\ Seen(y, contact[c])
          /\ \/ enriched[y][c].old.title = None
             \/ enriched[y][c].new.title = enriched[y][c].old.title
          /\ enriched[y][c].new.company # None =>
               /\ enriched[y][c].new.company \in CompanyIds
               /\ Seen(y, company[enriched[y][c].new.company])
      BY <1>0, <2>3, <3>1 DEF Linked, DirectoryShape, Enrichment, ContactRow
    <3>3. Seen(y, contact'[c])
      <4>1. /\ contact'[c] = None <=> contact[c] = None
            /\ contact[c] # None => contact'[c].by = (IF contact[c].by = x THEN None ELSE contact[c].by)
        BY <1>0, KeptContact
      <4>. QED
        BY <3>2, <4>1 DEF Seen
    <3>4. enriched[y][c].new.company # None => Seen(y, company'[enriched[y][c].new.company])
      BY <1>0, <3>2, KeptSeen
    <3>. QED
      BY <3>1, <3>2, <3>3, <3>4
  <2>. QED
    BY <2>1, <2>2, <2>3 DEF Linked
<1>5. /\ \A c \in CompanyIds : IsDraft(company[c]) => company[c].by \in Extractors
      /\ \A c \in ContactIds : IsDraft(contact[c]) => contact[c].by \in Extractors
  BY <1>0 DEF DirectoryShape, IsDraft, CompanyRow, ContactRow
<1>6. DraftsAreOwned'
  <2>1. \A c \in CompanyIds : IsDraft(company'[c]) =>
          page'[company'[c].by] # None /\ employer'[company'[c].by] = c
    BY <1>2, <1>5, KeptRows DEF DirectoryInv, DraftsAreOwned
  <2>2. \A c \in ContactIds : IsDraft(contact'[c]) => page'[contact'[c].by] # None
    BY <1>2, <1>5, KeptRows DEF DirectoryInv, DraftsAreOwned
  <2>3. \A c, k \in ContactIds :
          IsDraft(contact'[c]) /\ IsDraft(contact'[k]) /\ contact'[c].by = contact'[k].by
            /\ contact'[c].email = contact'[k].email => c = k
    BY KeptRows DEF DirectoryInv, DraftsAreOwned, IsDraft
  <2>. QED
    BY <2>1, <2>2, <2>3 DEF DraftsAreOwned
<1>7. RivalsAreNoticed'
  <2>0. \A y \in Extractors : y # x /\ page[y] # None => rivals'[y] = rivals[y] \cup NewKeys(x)
    BY <1>1
  <2>1. ASSUME NEW c \in CompanyIds, NEW k \in CompanyIds, IsDraft(company'[c]), Committed(company'[k]),
               company'[c].domain = company'[k].domain
        PROVE  company'[c].domain \in rivals'[company'[c].by]
    <3> DEFINE y == company[c].by
    <3>1. /\ IsDraft(company[c]) /\ y # x /\ company'[c].by = y /\ y \in Extractors /\ page[y] # None
          /\ company'[c].domain = company[c].domain
      BY <1>5, <2>1, KeptRows DEF DirectoryInv, DraftsAreOwned, IsDraft
    <3>2. /\ company'[k].domain = company[k].domain
          /\ Committed(company[k]) \/ company[k].domain \in NewKeys(x)
      BY <2>1, KeptRows DEF IsDraft, Committed
    <3>3. Committed(company[k]) => company[c].domain \in rivals[y]
      BY <2>1, <3>1, <3>2 DEF DirectoryInv, RivalsAreNoticed
    <3>. QED
      BY <2>0, <2>1, <3>1, <3>2, <3>3
  <2>2. ASSUME NEW c \in ContactIds, NEW k \in ContactIds, IsDraft(contact'[c]), Committed(contact'[k]),
               contact'[c].email = contact'[k].email
        PROVE  contact'[c].email \in rivals'[contact'[c].by]
    <3> DEFINE y == contact[c].by
    <3>1. /\ IsDraft(contact[c]) /\ y # x /\ contact'[c].by = y /\ y \in Extractors /\ page[y] # None
          /\ contact'[c].email = contact[c].email
      BY <1>5, <2>2, KeptRows DEF DirectoryInv, DraftsAreOwned, IsDraft
    <3>2. /\ contact'[k].email = contact[k].email
          /\ Committed(contact[k]) \/ contact[k].email \in NewKeys(x)
      BY <2>2, KeptRows DEF IsDraft, Committed
    <3>3. Committed(contact[k]) => contact[c].email \in rivals[y]
      BY <2>2, <3>1, <3>2 DEF DirectoryInv, RivalsAreNoticed
    <3>. QED
      BY <2>0, <2>2, <3>1, <3>2, <3>3
  <2>. QED
    BY <2>1, <2>2 DEF RivalsAreNoticed
<1>8. Singles'
  <2>1. ASSUME NEW c \in CompanyIds, NEW k \in CompanyIds, Committed(company'[c]), Committed(company'[k]),
               company'[c].domain = company'[k].domain
        PROVE  c = k \/ company'[c].domain \in doubled'
    <3>1. /\ company'[c].domain = company[c].domain /\ company'[k].domain = company[k].domain
          /\ Committed(company[c]) \/ (IsDraft(company[c]) /\ company[c].by = x /\ company[c].domain \in NewKeys(x))
          /\ Committed(company[k]) \/ (IsDraft(company[k]) /\ company[k].by = x /\ company[k].domain \in NewKeys(x))
      BY <2>1, KeptRows DEF IsDraft, Committed
    <3>2. CASE Committed(company[c]) /\ Committed(company[k])
      BY <1>1, <2>1, <3>1, <3>2 DEF DirectoryInv, Singles
    <3>3. CASE IsDraft(company[c]) /\ company[c].by = x /\ Committed(company[k])
      BY <1>1, <2>1, <3>1, <3>3 DEF DirectoryInv, RivalsAreNoticed, IsDraft, Committed
    <3>4. CASE IsDraft(company[k]) /\ company[k].by = x /\ Committed(company[c])
      BY <1>1, <2>1, <3>1, <3>4 DEF DirectoryInv, RivalsAreNoticed, IsDraft, Committed
    <3>5. CASE IsDraft(company[c]) /\ company[c].by = x /\ IsDraft(company[k]) /\ company[k].by = x
      BY <3>5 DEF DirectoryInv, DraftsAreOwned
    <3>. QED
      BY <3>1, <3>2, <3>3, <3>4, <3>5
  <2>2. ASSUME NEW c \in ContactIds, NEW k \in ContactIds, Committed(contact'[c]), Committed(contact'[k]),
               contact'[c].email = contact'[k].email
        PROVE  c = k \/ contact'[c].email \in doubled'
    <3>1. /\ contact'[c].email = contact[c].email /\ contact'[k].email = contact[k].email
          /\ Committed(contact[c]) \/ (IsDraft(contact[c]) /\ contact[c].by = x /\ contact[c].email \in NewKeys(x))
          /\ Committed(contact[k]) \/ (IsDraft(contact[k]) /\ contact[k].by = x /\ contact[k].email \in NewKeys(x))
      BY <2>2, KeptRows DEF IsDraft, Committed
    <3>2. CASE Committed(contact[c]) /\ Committed(contact[k])
      BY <1>1, <2>2, <3>1, <3>2 DEF DirectoryInv, Singles
    <3>3. CASE IsDraft(contact[c]) /\ contact[c].by = x /\ Committed(contact[k])
      BY <1>1, <2>2, <3>1, <3>3 DEF DirectoryInv, RivalsAreNoticed, IsDraft, Committed
    <3>4. CASE IsDraft(contact[k]) /\ contact[k].by = x /\ Committed(contact[c])
      BY <1>1, <2>2, <3>1, <3>4 DEF DirectoryInv, RivalsAreNoticed, IsDraft, Committed
    <3>5. CASE IsDraft(contact[c]) /\ contact[c].by = x /\ IsDraft(contact[k]) /\ contact[k].by = x
      BY <2>2, <3>1, <3>5 DEF DirectoryInv, DraftsAreOwned
    <3>. QED
      BY <3>1, <3>2, <3>3, <3>4, <3>5
  <2>. QED
    BY <2>1, <2>2 DEF Singles
<1>. QED
  BY <1>3, <1>4, <1>6, <1>7, <1>8 DEF DirectoryInv

LEMMA DropPageInv == ASSUME DirectoryInv, NEW x \in Extractors, DropPage(x) PROVE DirectoryInv'
<1>0. DirectoryShape /\ Linked /\ None \notin Extractors
  BY DirectoryConstants DEF DirectoryInv
<1>1. /\ page' = [page EXCEPT ![x] = None] /\ employer' = [employer EXCEPT ![x] = None]
      /\ left' = [left EXCEPT ![x] = <<>>]
      /\ enriched' = [enriched EXCEPT ![x] = [c \in ContactIds |-> None]]
      /\ ingests' = ingests /\ doubled' = doubled
      /\ rivals' = [y \in Extractors |-> IF y = x \/ page[y] = None THEN {} ELSE rivals[y] \cup {}]
  BY DEF DropPage, EndIngest, Noticed
<1>2. /\ page'[x] = None /\ employer'[x] = None /\ \A c \in ContactIds : enriched'[x][c] = None
      /\ \A y \in Extractors : y # x =>
           page'[y] = page[y] /\ employer'[y] = employer[y] /\ enriched'[y] = enriched[y]
  BY <1>0, <1>1 DEF DirectoryShape
<1>3. /\ \A c \in CompanyIds :
           company'[c] = IF company[c] # None /\ company[c].by = x THEN None ELSE company[c]
      /\ \A c \in ContactIds :
           contact'[c] = IF contact[c] # None /\ contact[c].by = x THEN None ELSE contact[c]
  BY DEF DropPage
<1>4. DirectoryShape'
  BY <1>0, <1>1 DEF DirectoryShape, DropPage
<1>5. /\ \A y : \A c \in CompanyIds : y # x /\ Seen(y, company[c]) => Seen(y, company'[c])
      /\ \A y : \A c \in ContactIds : y # x /\ Seen(y, contact[c]) => Seen(y, contact'[c])
  BY <1>0, <1>3 DEF Seen
<1>6. Linked'
  <2>1. ASSUME NEW c \in ContactIds, contact'[c] # None, contact'[c].company # None
        PROVE  Seen(contact'[c].by, company'[contact'[c].company])
    <3>1. contact'[c] = contact[c] /\ contact[c].by # x
      BY <1>3, <2>1
    <3>. QED
      BY <1>0, <1>5, <2>1, <3>1 DEF Linked, DirectoryShape, ContactRow
  <2>2. ASSUME NEW y \in Extractors, employer'[y] # None
        PROVE  page'[y] # None /\ Seen(y, company'[employer'[y]])
    <3>1. y # x /\ employer'[y] = employer[y] /\ page'[y] = page[y]
      BY <1>2, <2>2
    <3>. QED
      BY <1>0, <1>5, <2>2, <3>1 DEF Linked, DirectoryShape
  <2>3. ASSUME NEW y \in Extractors, NEW c \in ContactIds, enriched'[y][c] # None
        PROVE  /\ Seen(y, contact'[c])
               /\ \/ enriched'[y][c].old.title = None
                  \/ enriched'[y][c].new.title = enriched'[y][c].old.title
               /\ enriched'[y][c].new.company # None => Seen(y, company'[enriched'[y][c].new.company])
    <3>1. y # x /\ enriched'[y][c] = enriched[y][c]
      BY <1>2, <2>3
    <3>2. /\ Seen(y, contact[c])
          /\ \/ enriched[y][c].old.title = None
             \/ enriched[y][c].new.title = enriched[y][c].old.title
          /\ enriched[y][c].new.company # None =>
               /\ enriched[y][c].new.company \in CompanyIds
               /\ Seen(y, company[enriched[y][c].new.company])
      BY <1>0, <2>3, <3>1 DEF Linked, DirectoryShape, Enrichment, ContactRow
    <3>. QED
      BY <1>5, <3>1, <3>2
  <2>. QED
    BY <2>1, <2>2, <2>3 DEF Linked
<1>7. /\ \A c \in CompanyIds : company'[c] # None => company'[c] = company[c] /\ company[c].by # x
      /\ \A c \in ContactIds : contact'[c] # None => contact'[c] = contact[c] /\ contact[c].by # x
      /\ \A c \in CompanyIds : IsDraft(company[c]) => company[c].by \in Extractors
      /\ \A c \in ContactIds : IsDraft(contact[c]) => contact[c].by \in Extractors
  BY <1>0, <1>3 DEF DirectoryShape, IsDraft, CompanyRow, ContactRow
<1>8. DraftsAreOwned'
  BY <1>2, <1>7 DEF DirectoryInv, DraftsAreOwned, IsDraft
<1>9. RivalsAreNoticed'
  <2>1. \A y \in Extractors : y # x /\ page[y] # None => rivals'[y] = rivals[y]
    BY <1>1
  <2>2. /\ \A c \in CompanyIds : IsDraft(company[c]) => page[company[c].by] # None
        /\ \A c \in ContactIds : IsDraft(contact[c]) => page[contact[c].by] # None
    BY DEF DirectoryInv, DraftsAreOwned
  <2>. QED
    BY <1>7, <2>1, <2>2 DEF DirectoryInv, RivalsAreNoticed, IsDraft, Committed
<1>10. Singles'
  BY <1>1, <1>7 DEF DirectoryInv, Singles, Committed
<1>. QED
  BY <1>4, <1>6, <1>8, <1>9, <1>10 DEF DirectoryInv

LEMMA EnterCompanyInv == ASSUME DirectoryInv, NEW d \in Domains, EnterCompany(d) PROVE DirectoryInv'
<1>0. DirectoryShape /\ Linked /\ None \notin Extractors
  BY DirectoryConstants DEF DirectoryInv
<1> DEFINE r == [domain |-> d, by |-> None]
<1>1. PICK new \in Fresh(company) : company' = [company EXCEPT ![new] = r]
  BY DEF EnterCompany
<1>2. new \in CompanyIds /\ company[new] = None
  BY <1>0, FreshRow DEF DirectoryShape
<1>3. r \in CompanyRow /\ r # None
  BY DirectoryConstants DEF CompanyRow
<1>4. /\ company'[new] = r /\ \A c \in CompanyIds : c # new => company'[c] = company[c]
  BY <1>0, <1>1, <1>2 DEF DirectoryShape
<1>5. /\ UNCHANGED <<contact, page, employer, left, enriched>>
      /\ rivals' = [y \in Extractors |-> IF page[y] = None THEN {} ELSE rivals[y] \cup {d}]
      /\ doubled' = IF \E c \in CompanyIds : Committed(company[c]) /\ company[c].domain = d
                    THEN doubled \cup {d} ELSE doubled
  BY DEF EnterCompany, EnterKey, sessions
<1>6. DirectoryShape'
  <2>1. ingests' \in 0..MaxIngests
    BY <1>0, DirectoryConstants DEF EnterCompany, EnterKey, DirectoryShape
  <2>. QED
    BY <1>0, <1>1, <1>2, <1>3, <1>5, <2>1 DEF DirectoryShape
<1>7. \A y : \A c \in CompanyIds : Seen(y, company[c]) => Seen(y, company'[c])
  BY <1>2, <1>4 DEF Seen
<1>8. Linked'
  BY <1>0, <1>5, <1>7 DEF Linked, DirectoryShape, ContactRow, Enrichment
<1>9. \A c \in CompanyIds : IsDraft(company'[c]) => company'[c] = company[c]
  BY <1>4 DEF IsDraft
<1>10. DraftsAreOwned'
  BY <1>5, <1>9 DEF DirectoryInv, DraftsAreOwned
<1>11. RivalsAreNoticed'
  <2>1. /\ \A c \in CompanyIds : IsDraft(company[c]) => company[c].by \in Extractors /\ page[company[c].by] # None
        /\ \A c \in ContactIds : IsDraft(contact[c]) => contact[c].by \in Extractors /\ page[contact[c].by] # None
    BY <1>0 DEF DirectoryInv, DirectoryShape, DraftsAreOwned, IsDraft, CompanyRow, ContactRow
  <2>2. \A y \in Extractors : page[y] # None => rivals'[y] = rivals[y] \cup {d}
    BY <1>5
  <2>3. ASSUME NEW c \in CompanyIds, NEW k \in CompanyIds, IsDraft(company'[c]), Committed(company'[k]),
               company'[c].domain = company'[k].domain
        PROVE  company'[c].domain \in rivals'[company'[c].by]
    <3>1. company'[c] = company[c] /\ IsDraft(company[c])
      BY <1>9, <2>3
    <3>2. CASE k = new
      BY <1>4, <2>1, <2>2, <2>3, <3>1, <3>2
    <3>3. CASE k # new
      BY <1>4, <2>1, <2>2, <2>3, <3>1, <3>3 DEF DirectoryInv, RivalsAreNoticed
    <3>. QED
      BY <3>2, <3>3
  <2>. QED
    BY <1>5, <2>1, <2>2, <2>3 DEF DirectoryInv, RivalsAreNoticed
<1>12. Singles'
  <2>1. ASSUME NEW c \in CompanyIds, NEW k \in CompanyIds, Committed(company'[c]), Committed(company'[k]),
               company'[c].domain = company'[k].domain, c # k
        PROVE  company'[c].domain \in doubled'
    <3>1. CASE c # new /\ k # new
      BY <1>4, <1>5, <2>1, <3>1 DEF DirectoryInv, Singles
    <3>2. CASE c = new \/ k = new
      BY <1>4, <1>5, <2>1, <3>2
    <3>. QED
      BY <3>1, <3>2
  <2>. QED
    BY <1>5, <2>1 DEF DirectoryInv, Singles
<1>. QED
  BY <1>6, <1>8, <1>10, <1>11, <1>12 DEF DirectoryInv

LEMMA EnterContactInv ==
  ASSUME DirectoryInv, NEW i \in Inputs, NEW k \in CompanyIds \cup {None}, EnterContact(i, k)
  PROVE  DirectoryInv'
<1> DEFINE r == [email |-> i.email, title |-> i.title, company |-> k, by |-> None]
<1>0. DirectoryShape
  BY DEF DirectoryInv
<1>1. PICK new \in Fresh(contact) : contact' = [contact EXCEPT ![new] = r]
  BY DEF EnterContact
<1>2. new \in ContactIds /\ contact[new] = None
  BY <1>0, FreshRow DEF DirectoryShape
<1>3. r \in ContactRow /\ r.by = None /\ r.company = k /\ r.email = i.email
  BY DEF ContactRow, Titles
<1>4. /\ UNCHANGED <<company, page, employer, left, enriched>>
      /\ rivals' = [y \in Extractors |-> IF page[y] = None THEN {} ELSE rivals[y] \cup {i.email}]
      /\ doubled' = IF \E c \in ContactIds : Committed(contact[c]) /\ contact[c].email = i.email
                    THEN doubled \cup {i.email} ELSE doubled
  BY DEF EnterContact, EnterKey, sessions
<1>5. left' \in [Extractors -> Seq(EmailsOfPages)] /\ ingests' \in 0..MaxIngests
  BY <1>0, <1>4, DirectoryConstants DEF EnterContact, EnterKey, DirectoryShape
<1>6. /\ \A y \in Extractors : rivals[y] \subseteq rivals'[y] \/ page[y] = None
      /\ doubled \subseteq doubled'
      /\ \A y \in Extractors : page[y] # None => r.email \in rivals'[y]
      /\ \A c \in ContactIds : Committed(contact[c]) /\ contact[c].email = r.email => r.email \in doubled'
  BY <1>3, <1>4
<1>7. r.company # None => Seen(None, company[r.company])
  BY <1>3 DEF EnterContact, Committed, Seen
<1>. HIDE DEF r
<1>. QED
  BY <1>1, <1>2, <1>3, <1>4, <1>5, <1>6, <1>7, NewContactInv

LEMMA DirectoryStep == DirectoryInv /\ [DirectoryNext]_directoryVars => DirectoryInv'
<1> SUFFICES ASSUME DirectoryInv, [DirectoryNext]_directoryVars PROVE DirectoryInv'
  OBVIOUS
<1>1. CASE UNCHANGED directoryVars
  BY <1>1 DEF directoryVars, sessions, DirectoryInv, DirectoryShape, Linked, DraftsAreOwned,
              RivalsAreNoticed, Singles
<1>. QED
  BY <1>1, IngestInv, GetCompanyInv, GetContactInv, KeepInv, DropPageInv, EnterCompanyInv, EnterContactInv
     DEF DirectoryNext, CommitPage, GiveUp

LEMMA DirectoryInvariance == DirectorySpec => []DirectoryInv
BY DirectoryInitInv, DirectoryStep, PTL DEF DirectorySpec

\* Every reachable state of the companies and contacts is well typed, and whoever sees a
\* contact sees the company it works for.
THEOREM DirectoryTypes == DirectorySpec => []DirectoryTypeOK
<1>1. DirectoryInv => DirectoryTypeOK
  BY DEF DirectoryInv, DirectoryShape, Linked, DirectoryTypeOK, Seen, Committed
<1>. QED
  BY <1>1, DirectoryInvariance, PTL

\* However often pages of one site are extracted, and whatever an extraction leaves behind
\* when it fails, there is one company per domain and one contact per email, except for
\* what was entered by hand or by extractions that overlapped.
THEOREM RowsAreSingle == DirectorySpec => []OneOfEach
<1>1. DirectoryInv => OneOfEach
  <2> SUFFICES ASSUME DirectoryInv PROVE OneOfEach
    OBVIOUS
  <2>1. ASSUME NEW d \in Domains \ doubled
        PROVE  Cardinality({c \in CompanyIds : Committed(company[c]) /\ company[c].domain = d}) <= 1
    <3> DEFINE S == {c \in CompanyIds : Committed(company[c]) /\ company[c].domain = d}
    <3>1. \A c, k \in S : c = k
      BY DEF DirectoryInv, Singles
    <3>. HIDE DEF S
    <3>2. Cardinality(S) <= 1
      BY <3>1, SingleCardinality
    <3>. QED
      BY <3>2 DEF S
  <2>. QED
    BY <2>1 DEF OneOfEach, DirectoryInv, Singles
<1>. QED
  BY <1>1, DirectoryInvariance, PTL

\* A job title, once known, is never guessed over, except by an extraction that had loaded
\* the contact before the title was known.
THEOREM TitlesStand == DirectorySpec => TitleStands
<1>1. DirectoryInv /\ [DirectoryNext]_directoryVars =>
        \A c \in ContactIds : Committed(contact[c]) /\ contact[c].title # None =>
          \/ contact'[c].title = contact[c].title
          \/ \E x \in Extractors : enriched[x][c] # None /\ enriched[x][c].old.title = None
  <2> SUFFICES ASSUME DirectoryInv, [DirectoryNext]_directoryVars, NEW c \in ContactIds,
                      Committed(contact[c])
               PROVE  \/ contact'[c].title = contact[c].title
                      \/ \E x \in Extractors : enriched[x][c] # None /\ enriched[x][c].old.title = None
    OBVIOUS
  <2>0. DirectoryShape /\ Linked /\ contact[c] # None /\ contact[c].by = None /\ None \notin Extractors
    BY DirectoryConstants DEF DirectoryInv, Committed
  <2>1. ASSUME NEW x \in Extractors, Keep(x)
        PROVE  \/ contact'[c].title = contact[c].title
               \/ enriched[x][c] # None /\ enriched[x][c].old.title = None
    BY <2>0, <2>1, KeptContact
  <2>2. ASSUME NEW x \in Extractors, DropPage(x) PROVE contact'[c] = contact[c]
    BY <2>0, <2>2 DEF DropPage
  <2>3. ASSUME NEW new \in Fresh(contact), NEW r, contact' = [contact EXCEPT ![new] = r]
        PROVE  contact'[c] = contact[c]
    <3>1. c # new
      BY <2>0, <2>3, FreshRow DEF DirectoryShape
    <3>. QED
      BY <2>3, <3>1
  <2>4. ASSUME NEW x \in Extractors, GetContact(x) PROVE contact'[c] = contact[c]
    BY <2>3, <2>4 DEF GetContact
  <2>5. ASSUME NEW i \in Inputs, NEW k, EnterContact(i, k) PROVE contact'[c] = contact[c]
    BY <2>3, <2>5 DEF EnterContact
  <2>6. ASSUME \/ \E x \in Extractors : (\E p \in Pages : Ingest(x, p)) \/ GetCompany(x)
               \/ \E d \in Domains : EnterCompany(d)
               \/ UNCHANGED directoryVars
        PROVE  contact' = contact
    BY <2>6 DEF Ingest, GetCompany, EnterCompany, directoryVars
  <2>. QED
    BY <2>1, <2>2, <2>4, <2>5, <2>6 DEF DirectoryNext, CommitPage, GiveUp
<1>. QED
  BY <1>1, DirectoryInvariance, PTL DEF DirectorySpec, TitleStands

-----------------------------------------------------------------------------
(* The parts together. *)

\* A behaviour of Api is a behaviour of each part: a step of one part is a stutter of the
\* others, which is what sharing no state means.
THEOREM PartsRun == ApiSpec => FetcherSpec /\ AccessSpec /\ RecordsSpec /\ DirectorySpec
<1>1. ApiInit => FetcherInit /\ AccessInit /\ RecordsInit /\ DirectoryInit
  BY DEF ApiInit
<1>2. [ApiNext]_<<parts, part>> =>
        /\ [FetcherNext]_fetcherVars /\ [AccessNext]_accessVars
        /\ [RecordsNext]_recordVars /\ [DirectoryNext]_directoryVars
  BY DEF ApiNext, parts
<1>. QED
  BY <1>1, <1>2, PTL DEF ApiSpec, FetcherSpec, AccessSpec, RecordsSpec, DirectorySpec

\* Every part keeps the shape of its state, whichever rows, drafts and copies its sessions
\* hold.
THEOREM ApiTypes == ApiSpec => []ApiTypeOK
BY PartsRun, FetcherTypes, AccessTypes, RecordsTypes, DirectoryTypes, PTL DEF ApiTypeOK

\* What is proved of the parts holds of the behaviours that are model-checked: those of Api.
THEOREM ApiIsSafe ==
  ApiSpec => /\ [](ConnectsToVetted /\ WithinBudget /\ FetchedHasDocument)
             /\ [](WindowLimit /\ CountersExpire /\ TenantsAreWhole)
             /\ TrailIsStage /\ []DoneIsCompleted /\ DeletedStaysDeleted
             /\ []OneOfEach /\ TitleStands
BY PartsRun, OnlyVettedConnections, RedirectsEnd, FetchedIsStored, LimitHolds,
   CountersExpireEventually, RegistrationsAreWhole, TrailHolds, CompletionHolds,
   DeletionsAreFinal, RowsAreSingle, TitlesStand, PTL
=============================================================================
