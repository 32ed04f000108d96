---------------------------- MODULE WebTierProofs ----------------------------
(***************************************************************************)
(* Proofs about ResponseCache, for every number of requests, URLs and      *)
(* cache periods, and about RateLimiter, for every rate, number of         *)
(* addresses and size of its table.                                        *)
(*                                                                         *)
(* The entries of the Map say when their call was started, because an      *)
(* entry is made with its call: that is what makes an answer's age known   *)
(* to the requests that share it (Entered, Users).  And a call that has    *)
(* not failed stays in the Map for its period unless it is lost to         *)
(* eviction or to the failure of an older one (Kept): that is what makes   *)
(* a second call in the period impossible.                                 *)
(***************************************************************************)
EXTENDS ResponseCache, RateLimiter, SequenceTheorems, FiniteSetTheorems, TLAPS

Entry == [url : Url, call : Request, expires : Nat]

CacheType ==
  /\ cache \in Seq(Entry) /\ Len(cache) <= Capacity
  /\ \A i, j \in DOMAIN cache : cache[i].url = cache[j].url => i = j

RequestType ==
  /\ mode \in {"auto", "false", "true"} /\ now \in 0..MaxTime
  /\ url \in [Request -> Url] /\ at \in [Request -> 0..MaxTime]
  /\ state \in [Request -> {"unsent", "waiting", "data", "demo", "error"}]
  /\ uses \in [Request -> Request \cup {NoRequest}]
  /\ call \in [Request -> {"none", "pending", "ok", "failed"}]
  /\ readAt \in [Request -> 0..MaxTime] /\ lost \subseteq Request

\* The seconds the route of a request caches for.
Period(q) == CacheSeconds[url[q]]

\* What a request or a call has behind it lies in the past.
Times ==
  \A q \in Request :
    /\ at[q] <= now
    /\ call[q] # "none" => state[q] # "unsent"
    /\ call[q] = "ok" => at[q] <= readAt[q]

\* An entry is of its call's URL, expires a period after the call began, and its
\* call has not failed.
Entered ==
  \A i \in DOMAIN cache :
    LET p == cache[i].call
    IN  /\ cache[i].url = url[p] /\ call[p] \in {"pending", "ok"}
        /\ Period(p) > 0 /\ cache[i].expires = at[p] + Period(p)

\* A request waits for its own call, or for one of its URL that began less than
\* a period before it.
Users ==
  \A q \in Request : state[q] \in {"waiting", "data"} =>
    LET p == uses[q]
    IN  /\ p \in Request /\ url[p] = url[q]
        /\ call[p] = (IF state[q] = "data" THEN "ok" ELSE "pending")
        /\ p = q \/ at[q] < at[p] + Period(q)

\* A call that has not failed is in the Map for its period, or lost.
Kept ==
  \A p \in Request : call[p] \in {"pending", "ok"} /\ now < at[p] + Period(p) =>
    p \in lost \/ \E i \in DOMAIN cache : cache[i].call = p

Gone == lost \cup {p \in Request : call[p] = "failed"}

\* CallsAreShared, with its definition of Gone expanded.
Shared ==
  \A p, q \in {r \in Request : call[r] # "none"} :
    p # q /\ url[p] = url[q] /\ at[q] \in at[p] .. at[p] + Period(p) - 1
      => p \in Gone \/ (at[p] = at[q] /\ q \in Gone)

IInv == CacheType /\ RequestType /\ Times /\ Entered /\ Users /\ Kept /\ Shared


-----------------------------------------------------------------------------
(***************************************************************************)
(* What the operations of the Map do to its entries.                       *)
(***************************************************************************)
OneEach(c) == \A i, j \in DOMAIN c : c[i].url = c[j].url => i = j

\* A sequence without its k-th element.
LEMMA RemoveAtShape ==
  ASSUME NEW S, NEW s \in Seq(S), NEW k \in 1..Len(s)
  PROVE  /\ RemoveAt(s, k) \in Seq(S) /\ Len(RemoveAt(s, k)) = Len(s) - 1
         /\ \A j \in 1 .. Len(s) - 1 :
              RemoveAt(s, k)[j] = IF j < k THEN s[j] ELSE s[j + 1]
<1> DEFINE a == SubSeq(s, 1, k - 1)
           b == SubSeq(s, k + 1, Len(s))
<1>1. Len(s) \in Nat /\ \A i \in 1..Len(s) : s[i] \in S
  BY LenProperties, ElementOfSeq
<1>2. a \in Seq(S) /\ Len(a) = k - 1 /\ \A i \in 1 .. k - 1 : a[i] = s[i]
  BY <1>1, SubSeqProperties
<1>3. b \in Seq(S) /\ Len(b) = Len(s) - k /\ \A i \in 1 .. Len(s) - k : b[i] = s[k + i]
  BY <1>1, SubSeqProperties
<1> HIDE DEF a, b
<1>4. /\ a \o b \in Seq(S) /\ Len(a \o b) = Len(a) + Len(b)
      /\ \A i \in 1 .. Len(a) + Len(b) :
           (a \o b)[i] = IF i <= Len(a) THEN a[i] ELSE b[i - Len(a)]
  BY <1>2, <1>3, ConcatProperties
<1>5. RemoveAt(s, k) = a \o b
  BY DEF RemoveAt, a, b
<1>6. Len(a) + Len(b) = Len(s) - 1
  BY <1>1, <1>2, <1>3
<1>7. ASSUME NEW j \in 1 .. Len(s) - 1
      PROVE  (a \o b)[j] = IF j < k THEN s[j] ELSE s[j + 1]
  <2>1. CASE j < k
    BY <1>1, <1>2, <1>4, <1>6, <2>1
  <2>2. CASE ~ (j < k)
    <3>1. j - Len(a) \in 1 .. Len(s) - k /\ k + (j - Len(a)) = j + 1 /\ ~ (j <= Len(a))
      BY <1>1, <1>2, <2>2
    <3>2. (a \o b)[j] = b[j - Len(a)]
      BY <1>4, <1>6, <3>1
    <3> QED BY <1>3, <2>2, <3>1, <3>2
  <2> QED BY <2>1, <2>2
<1> QED BY <1>4, <1>5, <1>6, <1>7

\* The table once the oldest entry has made room, if it had to.
LEMMA RoomShape ==
  ASSUME CacheType
  PROVE  /\ Room \in Seq(Entry) /\ Len(Room) < Capacity /\ OneEach(Room)
         /\ \A i \in DOMAIN Room : \E j \in DOMAIN cache : Room[i] = cache[j]
<1>1. /\ cache \in Seq(Entry) /\ Len(cache) \in Nat /\ Len(cache) <= Capacity
      /\ DOMAIN cache = 1..Len(cache) /\ OneEach(cache) /\ Capacity \in Nat /\ Capacity > 0
  BY LenProperties, CacheAssumption DEF CacheType, OneEach
<1>2. CASE Len(cache) < Capacity
  <2>1. ~ (Len(cache) >= Capacity)
    BY <1>1, <1>2
  <2>2. Room = cache
    BY <2>1 DEF Room
  <2>3. \A i \in DOMAIN cache : \E j \in DOMAIN cache : cache[i] = cache[j]
    OBVIOUS
  <2> QED BY <1>1, <1>2, <2>2, <2>3
<1>3. CASE Len(cache) >= Capacity
  <2>1. Room = Tail(cache) /\ cache # <<>>
    BY <1>1, <1>3 DEF Room
  <2>2. /\ Tail(cache) \in Seq(Entry) /\ Len(Tail(cache)) = Len(cache) - 1
        /\ \A i \in 1 .. Len(Tail(cache)) : Tail(cache)[i] = cache[i + 1]
    BY <1>1, <2>1, HeadTailProperties
  <2>3. DOMAIN Room = 1 .. Len(cache) - 1
    BY <2>1, <2>2, LenProperties
  <2>4. \A i \in DOMAIN Room : i + 1 \in DOMAIN cache /\ Room[i] = cache[i + 1]
    BY <1>1, <2>1, <2>2, <2>3
  <2>5. OneEach(Room)
    BY <1>1, <2>3, <2>4 DEF OneEach
  <2> QED BY <1>1, <2>1, <2>2, <2>4, <2>5
<1> QED BY <1>1, <1>2, <1>3

\* cache.set leaves the entries of other URLs, and one for its own.
LEMMA WithShape ==
  ASSUME NEW c \in Seq(Entry), NEW e \in Entry, Len(c) < Capacity, OneEach(c)
  PROVE  /\ With(c, e) \in Seq(Entry) /\ Len(With(c, e)) <= Capacity /\ OneEach(With(c, e))
         /\ \A i \in DOMAIN With(c, e) :
              With(c, e)[i] = e \/ \E j \in DOMAIN c : With(c, e)[i] = c[j] /\ c[j].url # e.url
         /\ \E i \in DOMAIN With(c, e) : With(c, e)[i] = e
         /\ \A j \in DOMAIN c :
              c[j].url # e.url => \E i \in DOMAIN With(c, e) : With(c, e)[i] = c[j]
<1>1. /\ Len(c) \in Nat /\ DOMAIN c = 1..Len(c) /\ Capacity \in Nat
      /\ \A i \in DOMAIN c : c[i] \in Entry
  BY LenProperties, ElementOfSeq, CacheAssumption
<1>2. CASE \E i \in DOMAIN c : c[i].url = e.url
  <2> DEFINE w == [i \in DOMAIN c |-> IF c[i].url = e.url THEN e ELSE c[i]]
  <2>1. With(c, e) = w
    BY <1>2 DEF With
  <2>2. /\ DOMAIN w = DOMAIN c
        /\ \A i \in DOMAIN c : w[i] = IF c[i].url = e.url THEN e ELSE c[i]
    OBVIOUS
  <2>3. w \in Seq(Entry) /\ Len(w) = Len(c)
    <3>1. w \in [1..Len(c) -> Entry]
      BY <1>1
    <3> QED BY <1>1, <3>1, SeqDef, LenProperties
  <2> HIDE DEF w
  <2>4. \A i \in DOMAIN w : w[i].url = c[i].url
    BY <2>2
  <2>5. OneEach(w)
    BY <2>2, <2>4 DEF OneEach
  <2> QED BY <1>1, <1>2, <2>1, <2>2, <2>3, <2>5
<1>3. CASE ~ \E i \in DOMAIN c : c[i].url = e.url
  <2> DEFINE w == Append(c, e)
  <2>1. With(c, e) = w
    BY <1>3 DEF With
  <2>2. /\ w \in Seq(Entry) /\ Len(w) = Len(c) + 1
        /\ w[Len(c) + 1] = e /\ \A i \in 1..Len(c) : w[i] = c[i]
    BY <1>1, AppendProperties
  <2>3. DOMAIN w = 1 .. Len(c) + 1
    BY <2>2, LenProperties
  <2> HIDE DEF w
  <2>4. \A i \in DOMAIN w : i = Len(c) + 1 \/ (i \in DOMAIN c /\ w[i] = c[i] /\ c[i].url # e.url)
    BY <1>1, <1>3, <2>2, <2>3
  <2>5. OneEach(w)
    BY <2>2, <2>4 DEF OneEach
  <2>6. \A j \in DOMAIN c : j \in DOMAIN w /\ w[j] = c[j]
    BY <1>1, <2>2, <2>3
  <2>7. Len(c) + 1 \in DOMAIN w /\ Len(w) <= Capacity
    BY <1>1, <2>2, <2>3
  <2>8. \A i \in DOMAIN w : w[i] = e \/ \E j \in DOMAIN c : w[i] = c[j] /\ c[j].url # e.url
    BY <2>2, <2>4
  <2> QED BY <2>1, <2>2, <2>5, <2>6, <2>7, <2>8
<1> QED BY <1>2, <1>3

\* cache.delete takes the entry of the URL, and no other.
LEMMA WithoutShape ==
  ASSUME NEW c \in Seq(Entry), NEW u, OneEach(c)
  PROVE  /\ Without(c, u) \in Seq(Entry) /\ Len(Without(c, u)) <= Len(c) /\ OneEach(Without(c, u))
         /\ \A i \in DOMAIN Without(c, u) :
              \E j \in DOMAIN c : Without(c, u)[i] = c[j] /\ c[j].url # u
<1>1. Len(c) \in Nat /\ DOMAIN c = 1..Len(c)
  BY LenProperties
<1>2. CASE \E i \in DOMAIN c : c[i].url = u
  <2> DEFINE k == CHOOSE i \in DOMAIN c : c[i].url = u
             w == RemoveAt(c, k)
  <2>1. k \in DOMAIN c /\ c[k].url = u
    BY <1>2
  <2>2. Without(c, u) = w
    BY <1>2 DEF Without
  <2> HIDE DEF k
  <2>3. /\ w \in Seq(Entry) /\ Len(w) = Len(c) - 1
        /\ \A j \in 1 .. Len(c) - 1 : w[j] = IF j < k THEN c[j] ELSE c[j + 1]
    BY <1>1, <2>1, RemoveAtShape
  <2> HIDE DEF w
  <2>4. DOMAIN w = 1 .. Len(c) - 1
    BY <2>3, LenProperties
  <2>5. \A j \in DOMAIN w :
          \E i \in DOMAIN c : i = (IF j < k THEN j ELSE j + 1) /\ w[j] = c[i] /\ i # k
    BY <1>1, <2>1, <2>3, <2>4
  <2>6. OneEach(w)
    <3> SUFFICES ASSUME NEW i \in DOMAIN w, NEW j \in DOMAIN w, w[i].url = w[j].url PROVE i = j
      BY DEF OneEach
    <3>1. PICK a \in DOMAIN c : a = (IF i < k THEN i ELSE i + 1) /\ w[i] = c[a]
      BY <2>5
    <3>2. PICK b \in DOMAIN c : b = (IF j < k THEN j ELSE j + 1) /\ w[j] = c[b]
      BY <2>5
    <3>3. a = b
      BY <3>1, <3>2 DEF OneEach
    <3> QED BY <1>1, <2>1, <2>4, <3>1, <3>2, <3>3
  <2>7. \A i \in DOMAIN c : i # k => c[i].url # u
    BY <2>1 DEF OneEach
  <2> QED BY <1>1, <2>2, <2>3, <2>5, <2>6, <2>7
<1>3. CASE ~ \E i \in DOMAIN c : c[i].url = u
  <2>1. Without(c, u) = c
    BY <1>3 DEF Without
  <2> QED BY <1>1, <1>3, <2>1
<1> QED BY <1>2, <1>3

-----------------------------------------------------------------------------
(***************************************************************************)
(* The steps.                                                              *)
(***************************************************************************)
\* What the invariant says of one entry, in terms of sequences.
LEMMA EntryFacts ==
  ASSUME IInv, NEW i \in DOMAIN cache
  PROVE  /\ cache[i] \in Entry /\ cache[i].call \in Request
         /\ cache[i].url = url[cache[i].call]
         /\ call[cache[i].call] \in {"pending", "ok"}
         /\ CacheSeconds[cache[i].url] > 0
         /\ cache[i].expires = at[cache[i].call] + CacheSeconds[cache[i].url]
<1>1. cache \in Seq(Entry) /\ DOMAIN cache = 1..Len(cache)
  BY LenProperties DEF IInv, CacheType
<1>2. cache[i] \in Entry
  BY <1>1, ElementOfSeq
<1> QED BY <1>2 DEF IInv, Entered, Period, Entry

LEMMA Types ==
  ASSUME IInv
  PROVE  /\ now \in Int /\ MaxTime \in Nat /\ \A q \in Request : at[q] \in Int /\ readAt[q] \in Int
         /\ \A q \in Request : url[q] \in Url /\ Period(q) \in Nat
         /\ \A u \in Url : CacheSeconds[u] \in Nat
BY CacheAssumption DEF IInv, RequestType, Period

LEMMA InitStep == Init => IInv
<1> SUFFICES ASSUME Init PROVE IInv
  OBVIOUS
<1>1. CacheType
  <2>1. <<>> \in Seq(Entry) /\ Len(<<>>) = 0 /\ DOMAIN <<>> = {}
    OBVIOUS
  <2> QED BY <2>1, CacheAssumption DEF Init, CacheType
<1>2. RequestType
  BY CacheAssumption DEF Init, RequestType
<1>3. Times /\ Users /\ Kept /\ Shared
  BY DEF Init, Times, Users, Kept, Shared
<1>4. Entered
  BY DEF Init, Entered
<1> QED BY <1>1, <1>2, <1>3, <1>4 DEF IInv

LEMMA TickStep == IInv /\ Tick => IInv'
<1> SUFFICES ASSUME IInv, Tick PROVE IInv'
  OBVIOUS
<1>1. CacheType' /\ Entered' /\ Users' /\ Shared'
  BY DEF IInv, Tick, CacheType, Entered, Users, Shared, Gone, Period
<1>2. RequestType' /\ Times'
  BY CacheAssumption DEF IInv, Tick, RequestType, Times
<1>3. Kept'
  <2> USE Types
  <2> QED BY DEF IInv, Tick, Kept, Period
<1> QED BY <1>1, <1>2, <1>3 DEF IInv

LEMMA ServeDemoStep == ASSUME IInv, NEW q \in Request, ServeDemo(q) PROVE IInv'
<1>1. CacheType'
  BY DEF IInv, ServeDemo, CacheType
<1>2. RequestType'
  BY DEF IInv, ServeDemo, Arrive, RequestType
<1>3. call[q] = "none"
  BY DEF IInv, ServeDemo, Arrive, Times, RequestType
<1>4. Times'
  BY <1>3, Types DEF IInv, ServeDemo, Arrive, RequestType, Times
<1>5. \A p \in Request : p # q => at'[p] = at[p] /\ state'[p] = state[p]
  BY DEF IInv, ServeDemo, Arrive, RequestType
<1>6. Entered'
  BY <1>3, <1>5, EntryFacts DEF IInv, ServeDemo, Entered, Period
<1>7. Users'
  BY <1>3, <1>5 DEF IInv, ServeDemo, RequestType, Users, Period
<1>8. Kept' /\ Shared'
  BY <1>3, <1>5 DEF IInv, ServeDemo, Kept, Shared, Gone, Period
<1> QED BY <1>1, <1>2, <1>4, <1>6, <1>7, <1>8 DEF IInv

\* A hit is on a call that has not failed.
LEMMA HitOutcome ==
  ASSUME IInv, NEW i \in DOMAIN cache
  PROVE  Outcome(cache[i].call) = (IF call[cache[i].call] = "ok" THEN "data" ELSE "waiting")
BY EntryFacts DEF Outcome

LEMMA ServeHitStep == ASSUME IInv, NEW q \in Request, ServeHit(q) PROVE IInv'
<1>1. PICK i \in Hits(url[q]) :
        /\ uses' = [uses EXCEPT ![q] = cache[i].call]
        /\ state' = [state EXCEPT ![q] = Outcome(cache[i].call)]
  BY DEF ServeHit
<1> DEFINE p == cache[i].call
<1>2. i \in DOMAIN cache /\ cache[i].url = url[q] /\ cache[i].expires > now
  BY <1>1 DEF Hits, Entries
<1>3. /\ p \in Request /\ url[p] = url[q] /\ call[p] \in {"pending", "ok"}
      /\ cache[i].expires = at[p] + Period(q)
  BY <1>2, EntryFacts DEF Period
<1>4. Outcome(p) = (IF call[p] = "ok" THEN "data" ELSE "waiting")
  BY <1>2, HitOutcome
<1>5. state[q] = "unsent" /\ call[q] = "none" /\ p # q /\ at' = [at EXCEPT ![q] = now]
  BY <1>3 DEF IInv, ServeHit, Arrive, Times, RequestType
<1>6. UNCHANGED <<mode, now, cache, url, call, readAt, lost>>
  BY DEF ServeHit
<1> HIDE DEF p
<1>7. /\ state'[q] = (IF call[p] = "ok" THEN "data" ELSE "waiting")
      /\ uses'[q] = p /\ at'[q] = now
      /\ \A r \in Request : r # q => at'[r] = at[r] /\ state'[r] = state[r] /\ uses'[r] = uses[r]
  BY <1>1, <1>4, <1>5 DEF IInv, RequestType, p
<1>8. CacheType'
  BY <1>6 DEF IInv, CacheType
<1>9. RequestType'
  BY <1>1, <1>3, <1>4, <1>5, <1>6 DEF IInv, RequestType, p
<1>10. Times'
  BY <1>5, <1>6, <1>7, Types DEF IInv, Times
<1>11. Entered'
  BY <1>5, <1>6, <1>7, EntryFacts DEF IInv, Entered, Period
<1>12. Users'
  <2>1. now < at[p] + Period(q)
    BY <1>2, <1>3, Types
  <2> QED BY <1>3, <1>5, <1>6, <1>7, <2>1 DEF IInv, Users, Period
<1>13. Kept' /\ Shared'
  BY <1>5, <1>6, <1>7 DEF IInv, Kept, Shared, Gone, Period
<1> QED BY <1>8, <1>9, <1>10, <1>11, <1>12, <1>13 DEF IInv

LEMMA StartCallStep == ASSUME IInv, NEW q \in Request, StartCall(q) PROVE IInv'
<1> DEFINE s == CacheSeconds[url[q]]
           e == [url |-> url[q], call |-> q, expires |-> now + s]
<1>1. /\ Hits(url[q]) = {} /\ UNCHANGED <<mode, now, url, readAt>>
      /\ call' = [call EXCEPT ![q] = "pending"] /\ uses' = [uses EXCEPT ![q] = q]
      /\ state' = [state EXCEPT ![q] = "waiting"] /\ at' = [at EXCEPT ![q] = now]
      /\ state[q] = "unsent"
  BY DEF StartCall, Arrive
<1>2. call[q] = "none" /\ url[q] \in Url /\ s \in Nat /\ now \in 0..MaxTime
  BY <1>1, Types DEF IInv, Times, RequestType
<1>3. /\ call'[q] = "pending" /\ uses'[q] = q /\ state'[q] = "waiting" /\ at'[q] = now
      /\ \A r \in Request : r # q => /\ at'[r] = at[r] /\ state'[r] = state[r]
                                    /\ uses'[r] = uses[r] /\ call'[r] = call[r]
  BY <1>1 DEF IInv, RequestType
<1>4. CASE s = 0
  <2>1. UNCHANGED <<cache, lost>>
    BY <1>4 DEF StartCall
  <2>2. CacheType' /\ RequestType'
    BY <1>1, <1>2, <2>1 DEF IInv, CacheType, RequestType
  <2>3. Times'
    BY <1>1, <1>2, <1>3, Types DEF IInv, Times
  <2>4. Entered'
    BY <1>1, <1>2, <1>3, <2>1, EntryFacts DEF IInv, Entered, Period
  <2>5. Users'
    BY <1>1, <1>2, <1>3 DEF IInv, RequestType, Users, Period
  <2>6. Kept'
    BY <1>1, <1>2, <1>3, <1>4, <2>1 DEF IInv, Kept, Period
  <2>7. ASSUME NEW p \in Request, p # q, url[p] = url[q] PROVE Period(p) = 0
    BY <1>4, <2>7 DEF Period
  <2>8. Shared'
    <3>1. Gone \subseteq Gone'
      BY <1>2, <1>3, <2>1 DEF Gone
    <3> SUFFICES ASSUME NEW p \in Request, NEW r \in Request, call'[p] # "none", call'[r] # "none",
                        p # r, url'[p] = url'[r], at'[r] \in at'[p] .. at'[p] + Period(p)' - 1
                 PROVE  p \in Gone' \/ (at'[p] = at'[r] /\ r \in Gone')
      BY DEF Shared
    <3>2. Period(p)' = Period(p) /\ Period(p) \in Nat /\ Period(q) = 0
      BY <1>1, <1>4, Types DEF Period
    <3>3. p # q /\ r # q
      BY <1>1, <1>2, <1>3, <2>7, <3>2, Types
    <3> QED BY <1>1, <1>3, <3>1, <3>2, <3>3 DEF IInv, Shared
  <2> QED BY <2>2, <2>3, <2>4, <2>5, <2>6, <2>8 DEF IInv
<1>5. CASE s # 0
  <2>1. cache' = With(Room, e) /\ lost' = lost \cup Dropped(cache, Room)
    BY <1>5 DEF StartCall
  <2>2. e \in Entry /\ e.url = url[q] /\ e.call = q /\ e.expires = now + s
    BY <1>2 DEF Entry
  <2>3. /\ Room \in Seq(Entry) /\ Len(Room) < Capacity /\ OneEach(Room)
        /\ \A i \in DOMAIN Room : \E j \in DOMAIN cache : Room[i] = cache[j]
    BY RoomShape DEF IInv
  <2> HIDE DEF e, s
  <2>4. /\ cache' \in Seq(Entry) /\ Len(cache') <= Capacity /\ OneEach(cache')
        /\ \A i \in DOMAIN cache' : cache'[i] = e \/ \E j \in DOMAIN cache : cache'[i] = cache[j]
        /\ \E i \in DOMAIN cache' : cache'[i] = e
        /\ \A j \in DOMAIN Room : Room[j].url # e.url => \E i \in DOMAIN cache' : cache'[i] = Room[j]
    <3>1. /\ With(Room, e) \in Seq(Entry) /\ Len(With(Room, e)) <= Capacity
          /\ OneEach(With(Room, e))
          /\ \A i \in DOMAIN With(Room, e) :
               With(Room, e)[i] = e \/ \E j \in DOMAIN Room : With(Room, e)[i] = Room[j]
          /\ \E i \in DOMAIN With(Room, e) : With(Room, e)[i] = e
          /\ \A j \in DOMAIN Room :
               Room[j].url # e.url => \E i \in DOMAIN With(Room, e) : With(Room, e)[i] = Room[j]
      BY <2>2, <2>3, WithShape
    <3> HIDE DEF e
    <3>2. cache' = With(Room, e)
      BY <2>1
    <3>3. \A i \in DOMAIN cache' : cache'[i] = e \/ \E j \in DOMAIN cache : cache'[i] = cache[j]
      BY <2>3, <3>1, <3>2
    <3> QED BY <3>1, <3>2, <3>3 DEF OneEach
  <2>5. CacheType'
    BY <2>4 DEF CacheType, OneEach, Entry
  <2>6. Dropped(cache, Room) \subseteq Request
    BY EntryFacts DEF Dropped
  <2>7. RequestType'
    BY <1>1, <1>2, <2>1, <2>6 DEF IInv, RequestType
  <2>8. Times'
    BY <1>1, <1>2, <1>3, Types DEF IInv, Times
  <2>9. Users'
    BY <1>1, <1>2, <1>3 DEF IInv, RequestType, Users, Period
  <2>10. Entered'
    <3> SUFFICES ASSUME NEW i \in DOMAIN cache'
                 PROVE  LET p == cache'[i].call
                        IN  /\ cache'[i].url = url'[p] /\ call'[p] \in {"pending", "ok"}
                            /\ CacheSeconds[url'[p]] > 0 /\ cache'[i].expires = at'[p] + CacheSeconds[url'[p]]
      BY DEF Entered, Period
    <3>1. CASE cache'[i] = e
      BY <1>1, <1>2, <1>3, <1>5, <2>2, <3>1 DEF Period, s
    <3>2. CASE \E j \in DOMAIN cache : cache'[i] = cache[j]
      <4>1. PICK j \in DOMAIN cache : cache'[i] = cache[j]
        BY <3>2
      <4>2. cache[j].call \in Request /\ cache[j].call # q
        BY <1>2, EntryFacts
      <4> QED BY <1>1, <1>3, <4>1, <4>2, EntryFacts DEF Period
    <3> QED BY <2>4, <3>1, <3>2
  <2>11. ASSUME NEW p \in Request, p # q, call[p] \in {"pending", "ok"}, now < at[p] + Period(p)
         PROVE  /\ p \in lost' \/ \E i \in DOMAIN cache' : cache'[i].call = p
                /\ url[p] = url[q] => p \in lost
    <3>1. CASE p \in lost
      BY <2>1, <3>1
    <3>2. CASE p \notin lost
      <4>1. PICK j \in DOMAIN cache : cache[j].call = p
        BY <2>11, <3>2 DEF IInv, Kept
      <4>2. cache[j].url = url[p] /\ cache[j].expires = at[p] + Period(p)
        BY <4>1, EntryFacts DEF Period
      <4>3. url[p] # url[q]
        BY <1>1, <1>5, <2>11, <4>2 DEF Hits, Entries, s
      <4>4. CASE \E k \in DOMAIN Room : Room[k].call = p
        <5>1. PICK k \in DOMAIN Room : Room[k].call = p
          BY <4>4
        <5>2. Room[k].url = url[p]
          BY <2>3, <5>1, EntryFacts
        <5> QED BY <2>2, <2>4, <4>3, <5>1, <5>2
      <4>5. CASE ~ \E k \in DOMAIN Room : Room[k].call = p
        BY <2>1, <4>1, <4>3, <4>5 DEF Dropped
      <4> QED BY <4>4, <4>5
    <3> QED BY <3>1, <3>2
  <2>12. Kept'
    <3> SUFFICES ASSUME NEW p \in Request, call'[p] \in {"pending", "ok"}, now' < at'[p] + Period(p)'
                 PROVE  p \in lost' \/ \E i \in DOMAIN cache' : cache'[i].call = p
      BY DEF Kept
    <3>1. CASE p = q
      BY <2>2, <2>4, <3>1
    <3>2. CASE p # q
      BY <1>1, <1>3, <2>11, <3>2 DEF Period
    <3> QED BY <3>1, <3>2
  <2>13. Shared'
    <3>1. Gone \subseteq Gone' /\ lost \subseteq Gone'
      BY <1>2, <1>3, <2>1 DEF Gone
    <3> SUFFICES ASSUME NEW p \in Request, NEW r \in Request, call'[p] # "none", call'[r] # "none",
                        p # r, url'[p] = url'[r], at'[r] \in at'[p] .. at'[p] + Period(p)' - 1
                 PROVE  p \in Gone' \/ (at'[p] = at'[r] /\ r \in Gone')
      BY DEF Shared
    <3>2. /\ Period(p)' = Period(p) /\ Period(p) \in Nat /\ Period(r) \in Nat
          /\ url[p] = url[r] /\ Period(p) = Period(r)
      BY <1>1, Types DEF Period
    <3>3. /\ at'[p] \in Int /\ at'[r] \in Int /\ at'[p] <= now /\ at'[r] <= now
          /\ at'[p] <= at'[r] /\ at'[r] < at'[p] + Period(p)
      BY <1>2, <1>3, <3>2, Types DEF IInv, Times
    <3>4. ASSUME NEW o \in Request, o # q, call'[o] # "none", url[o] = url[q], now < at'[o] + Period(o)
          PROVE  o \in Gone'
      <4>1. call[o] = call'[o] /\ at[o] = at'[o] /\ call[o] \in {"none", "pending", "ok", "failed"}
        BY <1>3, <3>4 DEF IInv, RequestType
      <4>2. CASE call[o] = "failed"
        BY <4>1, <4>2 DEF Gone
      <4>3. CASE call[o] # "failed"
        BY <2>11, <3>1, <3>4, <4>1, <4>3
      <4> QED BY <4>2, <4>3
    <3>5. CASE r = q
      <4>1. p # q /\ now < at'[p] + Period(p)
        BY <1>3, <3>3, <3>5
      <4> QED BY <3>2, <3>4, <3>5, <4>1
    <3>6. CASE p = q
      <4>1. at'[r] = at'[p] /\ r # q /\ now < at'[r] + Period(r)
        BY <1>2, <1>3, <3>2, <3>3, <3>6
      <4> QED BY <3>2, <3>4, <3>6, <4>1
    <3>7. CASE p # q /\ r # q
      BY <1>1, <1>3, <3>1, <3>2, <3>7 DEF IInv, Shared
    <3> QED BY <3>5, <3>6, <3>7
  <2> QED BY <2>5, <2>7, <2>8, <2>9, <2>10, <2>12, <2>13 DEF IInv
<1> QED BY <1>4, <1>5

LEMMA ResolveStep == ASSUME IInv, NEW p \in Request, Resolve(p) PROVE IInv'
<1>1. PICK t \in at[p] .. now : readAt' = [readAt EXCEPT ![p] = t]
  BY DEF Resolve
<1>2. /\ call[p] = "pending" /\ call' = [call EXCEPT ![p] = "ok"]
      /\ state' = [q \in Request |-> IF q \in Waiting(p) THEN "data" ELSE state[q]]
      /\ UNCHANGED <<mode, now, cache, url, at, uses, lost>>
  BY DEF Resolve
<1>3. /\ call'[p] = "ok" /\ readAt'[p] = t /\ at[p] <= t /\ t <= now /\ t \in 0..MaxTime
      /\ \A r \in Request : r # p => call'[r] = call[r] /\ readAt'[r] = readAt[r]
  <2>1. now \in 0..MaxTime /\ at[p] \in 0..MaxTime
    BY DEF IInv, RequestType
  <2>2. t \in 0..MaxTime /\ at[p] <= t /\ t <= now
    BY <2>1, CacheAssumption
  <2> QED BY <1>1, <1>2, <2>2 DEF IInv, RequestType
<1>4. \A q \in Request :
        state'[q] = IF state[q] = "waiting" /\ uses[q] = p THEN "data" ELSE state[q]
  BY <1>2 DEF Waiting
<1>5. CacheType'
  BY <1>2 DEF IInv, CacheType
<1>6. RequestType'
  BY <1>1, <1>2, <1>3 DEF IInv, RequestType
<1>7. Times'
  BY <1>2, <1>3, <1>4, Types DEF IInv, Times
<1>8. Entered'
  BY <1>2, <1>3, EntryFacts DEF IInv, Entered, Period
<1>9. Users'
  <2> SUFFICES ASSUME NEW q \in Request, state'[q] \in {"waiting", "data"}
               PROVE  /\ uses'[q] \in Request /\ url'[uses'[q]] = url'[q]
                      /\ call'[uses'[q]] = (IF state'[q] = "data" THEN "ok" ELSE "pending")
                      /\ uses'[q] = q \/ at'[q] < at'[uses'[q]] + Period(q)'
    BY DEF Users
  <2>1. state[q] \in {"waiting", "data"}
    BY <1>4
  <2>2. /\ uses[q] \in Request /\ url[uses[q]] = url[q]
        /\ call[uses[q]] = (IF state[q] = "data" THEN "ok" ELSE "pending")
        /\ uses[q] = q \/ at[q] < at[uses[q]] + Period(q)
    BY <2>1 DEF IInv, Users
  <2> QED BY <1>2, <1>3, <1>4, <2>1, <2>2 DEF Period
<1>10. Kept'
  BY <1>2, <1>3 DEF IInv, Kept, Period
<1>11. Shared'
  BY <1>2, <1>3 DEF IInv, Shared, Gone, Period
<1> QED BY <1>5, <1>6, <1>7, <1>8, <1>9, <1>10, <1>11 DEF IInv

LEMMA RejectStep == ASSUME IInv, NEW p \in Request, Reject(p) PROVE IInv'
<1>1. /\ call[p] = "pending" /\ call' = [call EXCEPT ![p] = "failed"]
      /\ cache' = Without(cache, url[p])
      /\ lost' = lost \cup (Dropped(cache, cache') \ {p})
      /\ state' = [q \in Request |-> IF q \in Waiting(p) THEN Fallback ELSE state[q]]
      /\ UNCHANGED <<mode, now, url, at, uses, readAt>>
  BY DEF Reject, Forgotten
<1>2. Fallback \in {"error", "demo"}
  BY DEF Fallback
<1>3. /\ call'[p] = "failed" /\ \A r \in Request : r # p => call'[r] = call[r]
      /\ \A q \in Request :
           state'[q] = IF state[q] = "waiting" /\ uses[q] = p THEN Fallback ELSE state[q]
  BY <1>1 DEF IInv, RequestType, Waiting
<1>4. /\ cache \in Seq(Entry) /\ OneEach(cache) /\ Len(cache) \in Nat /\ Len(cache) <= Capacity
  BY LenProperties DEF IInv, CacheType, OneEach
<1>5. /\ cache' \in Seq(Entry) /\ Len(cache') <= Len(cache) /\ OneEach(cache')
      /\ \A i \in DOMAIN cache' : \E j \in DOMAIN cache : cache'[i] = cache[j] /\ cache[j].url # url[p]
  BY <1>1, <1>4, WithoutShape
<1>6. CacheType'
  <2>1. Len(cache') \in Nat /\ Capacity \in Nat
    BY <1>5, LenProperties, CacheAssumption
  <2> QED BY <1>4, <1>5, <2>1 DEF CacheType, OneEach, Entry
<1>7. Dropped(cache, cache') \subseteq Request
  BY EntryFacts DEF Dropped
<1>8. RequestType'
  BY <1>1, <1>2, <1>7 DEF IInv, RequestType
<1>9. Times'
  BY <1>1, <1>2, <1>3 DEF IInv, Times
<1>10. ASSUME NEW i \in DOMAIN cache'
       PROVE  LET o == cache'[i].call
              IN  /\ cache'[i].url = url'[o] /\ call'[o] \in {"pending", "ok"}
                  /\ CacheSeconds[url'[o]] > 0 /\ cache'[i].expires = at'[o] + CacheSeconds[url'[o]]
  <2>1. PICK j \in DOMAIN cache : cache'[i] = cache[j] /\ cache[j].url # url[p]
    BY <1>5
  <2>2. cache[j].call # p /\ cache[j].call \in Request
    BY <2>1, EntryFacts
  <2> QED BY <1>1, <1>3, <2>1, <2>2, EntryFacts DEF Period
<1>11. Entered'
  BY <1>10 DEF Entered, Period
<1>12. Users'
  <2> SUFFICES ASSUME NEW q \in Request, state'[q] \in {"waiting", "data"}
               PROVE  /\ uses'[q] \in Request /\ url'[uses'[q]] = url'[q]
                      /\ call'[uses'[q]] = (IF state'[q] = "data" THEN "ok" ELSE "pending")
                      /\ uses'[q] = q \/ at'[q] < at'[uses'[q]] + Period(q)'
    BY DEF Users
  <2>1. state'[q] = state[q] /\ ~ (state[q] = "waiting" /\ uses[q] = p)
    BY <1>2, <1>3
  <2>2. /\ uses[q] \in Request /\ url[uses[q]] = url[q]
        /\ call[uses[q]] = (IF state[q] = "data" THEN "ok" ELSE "pending")
        /\ uses[q] = q \/ at[q] < at[uses[q]] + Period(q)
    BY <2>1 DEF IInv, Users
  <2>3. uses[q] # p
    BY <1>1, <2>1, <2>2
  <2> QED BY <1>1, <1>3, <2>1, <2>2, <2>3 DEF Period
<1>13. Kept'
  <2> SUFFICES ASSUME NEW o \in Request, call'[o] \in {"pending", "ok"}, now' < at'[o] + Period(o)'
               PROVE  o \in lost' \/ \E i \in DOMAIN cache' : cache'[i].call = o
    BY DEF Kept
  <2>1. o # p /\ call[o] \in {"pending", "ok"} /\ now < at[o] + Period(o)
    BY <1>1, <1>3 DEF Period
  <2>2. o \in lost \/ \E i \in DOMAIN cache : cache[i].call = o
    BY <2>1 DEF IInv, Kept
  <2> QED BY <1>1, <2>1, <2>2 DEF Dropped
<1>14. Shared'
  <2>1. Gone \subseteq Gone'
    BY <1>1, <1>3 DEF Gone
  <2>2. \A r \in Request : call'[r] # "none" => call[r] # "none"
    BY <1>1, <1>3
  <2> QED BY <1>1, <2>1, <2>2 DEF IInv, Shared, Period
<1> QED BY <1>6, <1>8, <1>9, <1>11, <1>12, <1>13, <1>14 DEF IInv

LEMMA InductiveStep == IInv /\ [Next]_vars => IInv'
<1> SUFFICES ASSUME IInv, [Next]_vars PROVE IInv'
  OBVIOUS
<1>1. CASE Tick
  BY <1>1, TickStep
<1>2. ASSUME NEW q \in Request, ServeDemo(q) PROVE IInv'
  BY <1>2, ServeDemoStep
<1>3. ASSUME NEW q \in Request, ServeHit(q) PROVE IInv'
  BY <1>3, ServeHitStep
<1>4. ASSUME NEW q \in Request, StartCall(q) PROVE IInv'
  BY <1>4, StartCallStep
<1>5. ASSUME NEW q \in Request, Resolve(q) PROVE IInv'
  BY <1>5, ResolveStep
<1>6. ASSUME NEW q \in Request, Reject(q) PROVE IInv'
  BY <1>6, RejectStep
<1>7. CASE UNCHANGED vars
  BY <1>7 DEF vars, IInv, CacheType, RequestType, Times, Entered, Users, Kept, Shared, Gone, Period
<1> QED BY <1>1, <1>2, <1>3, <1>4, <1>5, <1>6, <1>7 DEF Next

-----------------------------------------------------------------------------
\* The inductive invariant holds whatever is asked, in whichever order the calls end,
\* and however few entries the Map has room for.
THEOREM CacheInvariant == Spec => []IInv
<1> QED BY InitStep, InductiveStep, PTL DEF Spec

(***************************************************************************)
(* Every variable keeps its type; the Map has one entry for a URL and      *)
(* never more entries than its capacity.                                   *)
(***************************************************************************)
THEOREM CacheTypeCorrect == Spec => []TypeOK
<1>1. ASSUME IInv PROVE TypeOK
  <2>1. \A i \in DOMAIN cache :
          cache[i].url \in Url /\ cache[i].call \in Request /\ cache[i].expires \in Nat
    BY <1>1, EntryFacts DEF Entry
  <2> QED BY <1>1, <2>1 DEF IInv, CacheType, RequestType, TypeOK
<1> QED BY <1>1, CacheInvariant, PTL

(***************************************************************************)
(* The data of an answer was read at most a caching period before the      *)
(* request came, however long the call took and whoever else waited for    *)
(* it.                                                                     *)
(***************************************************************************)
THEOREM AnswersAreFresh == Spec => []DataIsFresh
<1>1. ASSUME IInv PROVE DataIsFresh
  <2> SUFFICES ASSUME NEW q \in Request, state[q] = "data"
               PROVE  LET p == uses[q]
                          s == CacheSeconds[url[q]]
                      IN  call[p] = "ok" /\ url[p] = url[q] /\ (p = q \/ readAt[p] + s > at[q])
    BY DEF DataIsFresh
  <2> DEFINE p == uses[q]
  <2>1. p \in Request /\ url[p] = url[q] /\ call[p] = "ok" /\ (p = q \/ at[q] < at[p] + Period(q))
    BY <1>1 DEF IInv, Users
  <2>2. at[p] <= readAt[p]
    BY <1>1, <2>1 DEF IInv, Times
  <2>3. p = q \/ readAt[p] + Period(q) > at[q]
    <3> HIDE DEF p
    <3> QED BY <1>1, <2>1, <2>2, Types
  <2> QED BY <2>1, <2>3 DEF Period
<1> QED BY <1>1, CacheInvariant, PTL

(***************************************************************************)
(* A request is answered with demo data or an error only after it has      *)
(* waited for a call itself: a failure is never in the Map for a later     *)
(* one.                                                                    *)
(***************************************************************************)
THEOREM NoFailureIsCached == Spec => FailuresAreNotCached
<1>1. ASSUME IInv, [Next]_vars, NEW q \in Request, state[q] = "unsent", state'[q] \in {"demo", "error"}
      PROVE  mode = "true"
  <2>1. CASE Tick \/ UNCHANGED vars
    BY <1>1, <2>1 DEF Tick, vars
  <2>2. ASSUME NEW r \in Request, ServeDemo(r) PROVE mode = "true"
    BY <2>2 DEF ServeDemo
  <2>3. ASSUME NEW r \in Request, ServeHit(r) PROVE mode = "true"
    <3>1. PICK i \in Hits(url[r]) : state' = [state EXCEPT ![r] = Outcome(cache[i].call)]
      BY <2>3 DEF ServeHit
    <3>2. Outcome(cache[i].call) \in {"data", "waiting"}
      BY <1>1, HitOutcome DEF Hits, Entries
    <3> QED BY <1>1, <3>1, <3>2 DEF IInv, RequestType
  <2>4. ASSUME NEW r \in Request, StartCall(r) PROVE mode = "true"
    BY <1>1, <2>4 DEF StartCall, IInv, RequestType
  <2>5. ASSUME NEW r \in Request, Resolve(r) \/ Reject(r) PROVE mode = "true"
    BY <1>1, <2>5 DEF Resolve, Reject, Waiting
  <2> QED BY <1>1, <2>1, <2>2, <2>3, <2>4, <2>5 DEF Next
<1>2. IInv /\ [Next]_vars =>
        [\A q \in Request : state[q] = "unsent" => state'[q] \notin {"demo", "error"} \/ mode = "true"]_vars
  BY <1>1
<1> QED BY <1>2, CacheInvariant, PTL DEF Spec, FailuresAreNotCached

(***************************************************************************)
(* A second call of a URL is started within a caching period only after    *)
(* the first one has lost its entry or failed.                             *)
(***************************************************************************)
THEOREM OneCallPerPeriod == Spec => []CallsAreShared
<1>1. IInv => CallsAreShared
  BY DEF IInv, Shared, Gone, Period, CallsAreShared
<1> QED BY <1>1, CacheInvariant, PTL

-----------------------------------------------------------------------------
(***************************************************************************)
(* RateLimiter.  A window that has been pruned or replaced is nowhere in   *)
(* the state, but the requests it counted are in the log.  The invariant   *)
(* says that every request of the log can be given the time its window     *)
(* began (begin), such that the windows of an address do not overlap, no   *)
(* window served more than the maximum, a refused request came after more  *)
(* than the maximum in its own window, and the table has every window that *)
(* has not ended, with its count.                                          *)
(***************************************************************************)
InWindow(requests, begin, ip, b) ==
  {i \in DOMAIN requests : requests[i].ip = ip /\ begin[i] = b}

ServedIn(requests, begin, ip, b) == {i \in InWindow(requests, begin, ip, b) : requests[i].served}

Counted(requests, begin, i) ==
  {j \in InWindow(requests, begin, requests[i].ip, begin[i]) : j <= i}

LogType ==
  /\ log \in Seq([ip : Ip, time : Nat, served : BOOLEAN])
  /\ Len(log) <= MaxRequests
  /\ clock \in Nat /\ clock <= LastTick
  /\ \A i, j \in DOMAIN log : i <= j => log[i].time <= log[j].time
  /\ \A i \in DOMAIN log : log[i].time <= clock

TableType ==
  /\ DOMAIN rateWindows \subseteq Ip
  /\ \A ip \in DOMAIN rateWindows :
       /\ rateWindows[ip] \in [count : Nat \ {0}, resetAt : Nat]
       /\ Minute <= rateWindows[ip].resetAt /\ rateWindows[ip].resetAt <= clock + Minute

\* Windows hold the requests they began before, and those of an address are apart.
Apart(begin) ==
  /\ begin \in [DOMAIN log -> Int]
  /\ \A i \in DOMAIN log : begin[i] <= log[i].time /\ log[i].time < begin[i] + Minute
  /\ \A i, j \in DOMAIN log :
       log[i].ip = log[j].ip =>
         begin[i] = begin[j] \/ begin[i] + Minute <= begin[j] \/ begin[j] + Minute <= begin[i]

\* What was served and refused in a window.
Rationed(begin) ==
  /\ \A ip \in Ip, b \in Int : Cardinality(ServedIn(log, begin, ip, b)) <= Maximum
  /\ \A i \in DOMAIN log : ~ log[i].served => Cardinality(Counted(log, begin, i)) > Maximum

\* The table has the windows that have not ended.
Tabled(begin) ==
  /\ \A ip \in DOMAIN rateWindows :
       Cardinality(InWindow(log, begin, ip, rateWindows[ip].resetAt - Minute)) = rateWindows[ip].count
  /\ \A i \in DOMAIN log :
       begin[i] + Minute > clock =>
         log[i].ip \in DOMAIN rateWindows /\ rateWindows[log[i].ip].resetAt = begin[i] + Minute

Windows(begin) == Apart(begin) /\ Rationed(begin) /\ Tabled(begin)

LimiterIInv == LogType /\ TableType /\ \E begin : Windows(begin)

LEMMA LogIsFinite ==
  ASSUME LogType
  PROVE  /\ DOMAIN log = 1..Len(log) /\ Len(log) \in Nat /\ IsFiniteSet(DOMAIN log)
         /\ \A begin, ip, b : IsFiniteSet(InWindow(log, begin, ip, b))
         /\ \A begin, ip, b : IsFiniteSet(ServedIn(log, begin, ip, b))
<1>1. DOMAIN log = 1..Len(log) /\ Len(log) \in Nat
  BY DEF LogType
<1>2. IsFiniteSet(DOMAIN log)
  BY <1>1, FS_Interval
<1>3. \A begin, ip, b : InWindow(log, begin, ip, b) \in SUBSET DOMAIN log /\ ServedIn(log, begin, ip, b) \in SUBSET DOMAIN log
  BY DEF InWindow, ServedIn
<1>. QED
  BY <1>1, <1>2, <1>3, FS_Subset

LEMMA LogEntries ==
  ASSUME LogType, NEW i \in DOMAIN log
  PROVE  log[i].ip \in Ip /\ log[i].time \in Nat /\ log[i].served \in BOOLEAN
<1>1. log \in Seq([ip : Ip, time : Nat, served : BOOLEAN]) /\ i \in 1..Len(log)
  BY DEF LogType
<1>2. log[i] \in [ip : Ip, time : Nat, served : BOOLEAN]
  BY <1>1, ElementOfSeq
<1>. QED
  BY <1>2

LEMMA LimiterInitInvariant ==
  ASSUME LimiterInit
  PROVE  LimiterIInv
<1>1. LogType /\ DOMAIN log = {}
  BY LimiterAssumption DEF LimiterInit, LogType
<1>2. TableType /\ DOMAIN rateWindows = {}
  BY DEF LimiterInit, TableType
<1> DEFINE begin == [i \in DOMAIN log |-> 0]
<1>3. Apart(begin) /\ Tabled(begin)
  BY <1>1, <1>2 DEF Apart, Tabled
<1>4. ASSUME NEW ip, NEW b PROVE ServedIn(log, begin, ip, b) = {}
  BY <1>1 DEF ServedIn, InWindow
<1> HIDE DEF begin
<1>5. Rationed(begin)
  <2>1. 0 <= Maximum
    BY LimiterAssumption
  <2>2. \A ip, b : Cardinality(ServedIn(log, begin, ip, b)) = 0
    BY <1>4, FS_EmptySet
  <2>. QED
    BY <1>1, <2>1, <2>2 DEF Rationed
<1>. QED
  BY <1>1, <1>2, <1>3, <1>5 DEF LimiterIInv, Windows

LEMMA ClockKeeps ==
  ASSUME LimiterIInv, ClockTick
  PROVE  LimiterIInv'
<1>1. PICK begin : Windows(begin)
  BY DEF LimiterIInv
<1>2. clock' = clock + 1 /\ log' = log /\ rateWindows' = rateWindows /\ clock < LastTick
  BY DEF ClockTick
<1>3. LogType'
  <2>1. LogType /\ \A i \in DOMAIN log : log[i].time \in Nat
    BY LogEntries DEF LimiterIInv
  <2>. QED
    BY <1>2, <2>1, LimiterAssumption DEF LogType
<1>4. TableType'
  BY <1>2, LimiterAssumption DEF LimiterIInv, LogType, TableType
<1>5. Apart(begin)' /\ Rationed(begin)'
  BY <1>1, <1>2 DEF Windows, Apart, Rationed, ServedIn, Counted, InWindow
<1>6. Tabled(begin)'
  <2>1. \A i \in DOMAIN log : begin[i] + Minute > clock + 1 => begin[i] + Minute > clock
    BY <1>1, LimiterAssumption DEF Windows, Apart, LimiterIInv, LogType
  <2>. QED
    BY <1>1, <1>2, <2>1 DEF Windows, Tabled, InWindow
<1>. QED
  BY <1>3, <1>4, <1>5, <1>6 DEF LimiterIInv, Windows

(***************************************************************************)
(* A request, of an address ip, in a window that begins at b.              *)
(***************************************************************************)
Begin(ip) == WindowOf(ip).resetAt - Minute

Extended(begin, n, b) == [i \in 1..n |-> IF i < n THEN begin[i] ELSE b]

LEMMA WindowBegins ==
  ASSUME LogType, TableType, NEW begin, Windows(begin), NEW ip \in Ip
  PROVE  /\ WindowOf(ip).resetAt \in Nat /\ WindowOf(ip).count \in Nat
         /\ Minute <= WindowOf(ip).resetAt
         /\ Begin(ip) \in Int /\ Begin(ip) <= clock /\ clock < Begin(ip) + Minute
         /\ Begin(ip) + Minute = WindowOf(ip).resetAt
         /\ Cardinality(InWindow(log, begin, ip, Begin(ip))) = WindowOf(ip).count
         /\ \A i \in DOMAIN log :
              log[i].ip = ip => begin[i] = Begin(ip) \/ begin[i] + Minute <= Begin(ip)
                                  \/ Begin(ip) + Minute <= begin[i]
<1>1. clock \in Nat /\ Minute \in Nat \ {0}
  BY LimiterAssumption DEF LogType
<1>2. \A i \in DOMAIN log : begin[i] \in Int
  BY DEF Windows, Apart
<1>3. CASE ip \notin DOMAIN rateWindows \/ rateWindows[ip].resetAt <= clock
  <2>1. WindowOf(ip) = [count |-> 0, resetAt |-> clock + Minute]
    BY <1>3 DEF WindowOf
  <2>2. Begin(ip) = clock /\ WindowOf(ip).count = 0 /\ WindowOf(ip).resetAt = clock + Minute
    BY <1>1, <2>1 DEF Begin
  <2>3. ASSUME NEW i \in DOMAIN log, log[i].ip = ip PROVE begin[i] + Minute <= clock
    <3>1. CASE begin[i] + Minute > clock
      <4>1. ip \in DOMAIN rateWindows /\ rateWindows[ip].resetAt = begin[i] + Minute
        BY <2>3, <3>1 DEF Windows, Tabled
      <4>. QED
        BY <1>1, <1>2, <1>3, <3>1, <4>1
    <3>. QED
      BY <1>1, <1>2, <3>1
  <2>4. InWindow(log, begin, ip, clock) = {}
    <3>1. \A i \in DOMAIN log : log[i].ip = ip => begin[i] # clock
      BY <1>1, <1>2, <2>3
    <3>. QED
      BY <3>1 DEF InWindow
  <2>. QED
    BY <1>1, <2>2, <2>3, <2>4, FS_EmptySet
<1>4. CASE ip \in DOMAIN rateWindows /\ ~ (rateWindows[ip].resetAt <= clock)
  <2>1. WindowOf(ip) = rateWindows[ip]
    BY <1>4 DEF WindowOf
  <2>2. /\ rateWindows[ip].count \in Nat \ {0} /\ rateWindows[ip].resetAt \in Nat
        /\ Minute <= rateWindows[ip].resetAt /\ rateWindows[ip].resetAt <= clock + Minute
    BY <1>4 DEF TableType
  <2>3. Begin(ip) = rateWindows[ip].resetAt - Minute
    BY <2>1 DEF Begin
  <2>4. Cardinality(InWindow(log, begin, ip, Begin(ip))) = rateWindows[ip].count
    BY <1>4, <2>3 DEF Windows, Tabled
  <2>5. InWindow(log, begin, ip, Begin(ip)) # {}
    BY <2>2, <2>4, FS_EmptySet
  <2>6. PICK k \in DOMAIN log : log[k].ip = ip /\ begin[k] = Begin(ip)
    BY <2>5 DEF InWindow
  <2>7. ASSUME NEW i \in DOMAIN log, log[i].ip = ip
        PROVE  begin[i] = Begin(ip) \/ begin[i] + Minute <= Begin(ip) \/ Begin(ip) + Minute <= begin[i]
    BY <2>6, <2>7 DEF Windows, Apart
  <2>8. Begin(ip) \in Int /\ Begin(ip) <= clock /\ clock < Begin(ip) + Minute
        /\ Begin(ip) + Minute = rateWindows[ip].resetAt
    BY <1>1, <1>4, <2>2, <2>3
  <2>. QED
    BY <2>1, <2>2, <2>4, <2>7, <2>8
<1>. QED
  BY <1>3, <1>4

\* The log after a request.
LEMMA LogGrows ==
  ASSUME LogType, NEW e, log' = Append(log, e), e \in [ip : Ip, time : Nat, served : BOOLEAN]
  PROVE  /\ log' \in Seq([ip : Ip, time : Nat, served : BOOLEAN])
         /\ DOMAIN log = 1..Len(log) /\ Len(log) \in Nat
         /\ DOMAIN log' = 1..Len(log) + 1
         /\ \A i \in DOMAIN log : i \in DOMAIN log' /\ log'[i] = log[i]
         /\ Len(log) + 1 \notin DOMAIN log
         /\ log'[Len(log) + 1] = e
         /\ \A i \in DOMAIN log' : i \in DOMAIN log \/ i = Len(log) + 1
<1>1. Len(log) \in Nat /\ DOMAIN log = 1..Len(log)
  BY DEF LogType
<1>2. log \in Seq([ip : Ip, time : Nat, served : BOOLEAN])
  BY DEF LogType
<1>3. log' \in Seq([ip : Ip, time : Nat, served : BOOLEAN]) /\ Len(log') = Len(log) + 1
      /\ \A i \in 1..Len(log) : log'[i] = log[i]
      /\ log'[Len(log) + 1] = e
  BY <1>2, AppendProperties
<1>4. DOMAIN log' = 1..Len(log')
  BY <1>3
<1>. QED
  BY <1>1, <1>3, <1>4

LEMMA HandleLog ==
  ASSUME LogType, clock' = clock, Len(log) < MaxRequests,
         NEW e \in [ip : Ip, time : Nat, served : BOOLEAN], e.time = clock, log' = Append(log, e)
  PROVE  LogType'
<1>1. LogType /\ clock \in Nat
  BY DEF LogType
<1>4. \A i \in DOMAIN log' : (i \in DOMAIN log /\ log'[i] = log[i]) \/ (i = Len(log) + 1 /\ log'[i].time = clock)
  BY <1>1, LogGrows
<1>5. DOMAIN log = 1..Len(log) /\ Len(log) \in Nat /\ DOMAIN log' = 1..Len(log) + 1
  BY <1>1, LogGrows
<1>6. \A i \in DOMAIN log' : log'[i].time \in Nat /\ log'[i].time <= clock
  <2>1. \A i \in DOMAIN log : log[i].time \in Nat /\ log[i].time <= clock
    BY <1>1, LogEntries DEF LogType
  <2>. QED
    BY <1>1, <1>4, <2>1
<1>7. ASSUME NEW i \in DOMAIN log', NEW j \in DOMAIN log', i <= j PROVE log'[i].time <= log'[j].time
  <2>1. CASE j = Len(log) + 1 /\ log'[j].time = clock
    BY <1>6, <2>1
  <2>2. CASE j \in DOMAIN log /\ log'[j] = log[j]
    <3>1. i \in DOMAIN log /\ log'[i] = log[i]
      BY <1>4, <1>5, <1>7, <2>2
    <3>. QED
      BY <1>1, <1>7, <2>2, <3>1 DEF LogType
  <2>. QED
    BY <1>4, <2>1, <2>2
<1>8. log' \in Seq([ip : Ip, time : Nat, served : BOOLEAN])
  BY <1>1, LogGrows
<1>9. Len(log') <= MaxRequests
  BY <1>5, <1>8, LimiterAssumption
<1>. QED
  BY <1>1, <1>9, <1>6, <1>7, <1>8 DEF LogType

(***************************************************************************)
(* What a request changes in the windows: its own gets one request more.   *)
(***************************************************************************)
LEMMA WindowGrows ==
  ASSUME LogType, NEW begin, NEW ip \in Ip, NEW b \in Int, NEW n, n = Len(log) + 1,
         NEW e \in [ip : Ip, time : Nat, served : BOOLEAN], e.ip = ip, log' = Append(log, e),
         NEW next, next = Extended(begin, n, b)
  PROVE  /\ InWindow(log', next, ip, b) = InWindow(log, begin, ip, b) \cup {n}
         /\ \A a, t : ~ (a = ip /\ t = b) => InWindow(log', next, a, t) = InWindow(log, begin, a, t)
         /\ e.served => ServedIn(log', next, ip, b) = ServedIn(log, begin, ip, b) \cup {n}
         /\ ~ e.served => ServedIn(log', next, ip, b) = ServedIn(log, begin, ip, b)
         /\ \A a, t : ~ (a = ip /\ t = b) => ServedIn(log', next, a, t) = ServedIn(log, begin, a, t)
         /\ n \notin DOMAIN log
<1>3. /\ DOMAIN log = 1..Len(log) /\ Len(log) \in Nat /\ DOMAIN log' = 1..n /\ n \notin DOMAIN log
  BY LogGrows
<1>4. \A i \in DOMAIN log : i \in DOMAIN log' /\ log'[i] = log[i] /\ next[i] = begin[i]
  BY <1>3, LogGrows DEF Extended
<1>5. n \in DOMAIN log' /\ log'[n].ip = ip /\ log'[n].served = e.served /\ next[n] = b
  BY <1>3, LogGrows DEF Extended
<1>6. \A i \in DOMAIN log' : i \in DOMAIN log \/ i = n
  BY <1>3
<1>7. ASSUME NEW a, NEW t
      PROVE  InWindow(log', next, a, t) = IF a = ip /\ t = b THEN InWindow(log, begin, a, t) \cup {n}
                                     ELSE InWindow(log, begin, a, t)
  <2>1. InWindow(log', next, a, t) = {i \in DOMAIN log' : log'[i].ip = a /\ next[i] = t}
    BY DEF InWindow
  <2>. QED
    BY <1>3, <1>4, <1>5, <1>6, <2>1 DEF InWindow
<1>8. ASSUME NEW a, NEW t
      PROVE  ServedIn(log', next, a, t) = IF a = ip /\ t = b /\ e.served THEN ServedIn(log, begin, a, t) \cup {n}
                                     ELSE ServedIn(log, begin, a, t)
  <2>1. ServedIn(log', next, a, t) = {i \in InWindow(log', next, a, t) : log'[i].served}
    BY DEF ServedIn
  <2>2. InWindow(log, begin, a, t) \subseteq DOMAIN log
    BY DEF InWindow
  <2>3. CASE a = ip /\ t = b
    <3>1. InWindow(log', next, a, t) = InWindow(log, begin, a, t) \cup {n}
      BY <1>7, <2>3
    <3>2. ServedIn(log', next, a, t) =
            {i \in InWindow(log, begin, a, t) : log[i].served} \cup {i \in {n} : log'[i].served}
      BY <1>4, <2>1, <2>2, <3>1
    <3>. QED
      BY <1>5, <2>3, <3>2 DEF ServedIn
  <2>4. CASE ~ (a = ip /\ t = b)
    <3>1. InWindow(log', next, a, t) = InWindow(log, begin, a, t)
      BY <1>7, <2>4
    <3>2. ServedIn(log', next, a, t) = {i \in InWindow(log, begin, a, t) : log[i].served}
      BY <1>4, <2>1, <2>2, <3>1
    <3>. QED
      BY <2>4, <3>2 DEF ServedIn
  <2>. QED
    BY <2>3, <2>4
<1>. QED
  BY <1>3, <1>7, <1>8

\* The table after a request: pruning takes ended windows only.
LEMMA TableAfter ==
  ASSUME NEW full, NEW ip, ip \in DOMAIN full, full[ip].resetAt > clock
  PROVE  /\ ip \in DOMAIN Pruned(full)
         /\ \A a \in DOMAIN Pruned(full) : a \in DOMAIN full /\ Pruned(full)[a] = full[a]
         /\ \A a \in DOMAIN full :
              full[a].resetAt > clock => a \in DOMAIN Pruned(full) /\ Pruned(full)[a] = full[a]
BY DEF Pruned

LEMMA HandleTable ==
  ASSUME LogType, TableType, NEW begin, Windows(begin), NEW ip \in Ip, Handle(ip)
  PROVE  LET window == [WindowOf(ip) EXCEPT !.count = @ + 1]
         IN  /\ window.count = WindowOf(ip).count + 1 /\ window.resetAt = WindowOf(ip).resetAt
             /\ ip \in DOMAIN rateWindows' /\ rateWindows'[ip] = window
             /\ \A a \in DOMAIN rateWindows' :
                  a = ip \/ (a \in DOMAIN rateWindows /\ rateWindows'[a] = rateWindows[a])
             /\ \A a \in DOMAIN rateWindows :
                  a # ip /\ rateWindows[a].resetAt > clock =>
                    a \in DOMAIN rateWindows' /\ rateWindows'[a] = rateWindows[a]
             /\ log' = Append(log, [ip |-> ip, time |-> clock,
                                    served |-> (WindowOf(ip).count + 1 <= Maximum)])
             /\ clock' = clock
             /\ TableType'
<1> DEFINE window == [WindowOf(ip) EXCEPT !.count = @ + 1]
           full   == [i \in DOMAIN rateWindows \cup {ip} |-> IF i = ip THEN window ELSE rateWindows[i]]
<1>1. WindowOf(ip) \in [count : Nat, resetAt : Int]
  BY LimiterAssumption DEF WindowOf, TableType, LogType
<1>2. window.count = WindowOf(ip).count + 1 /\ window.resetAt = WindowOf(ip).resetAt
  BY <1>1
<1>3. /\ rateWindows' = Pruned(full)
      /\ log' = Append(log, [ip |-> ip, time |-> clock, served |-> window.count <= Maximum])
      /\ clock' = clock
  BY DEF Handle
<1>7. /\ DOMAIN full = DOMAIN rateWindows \cup {ip} /\ full[ip] = window
      /\ \A a \in DOMAIN rateWindows : a # ip => full[a] = rateWindows[a]
  OBVIOUS
<1> HIDE DEF window, full
<1>4. window.resetAt > clock /\ window.resetAt \in Nat /\ window.count \in Nat \ {0}
      /\ Minute <= window.resetAt /\ window.resetAt <= clock + Minute
  BY <1>2, WindowBegins, LimiterAssumption DEF LogType
<1>8. window \in [count : Nat \ {0}, resetAt : Nat]
  BY <1>1, <1>2, <1>4 DEF window
<1>5. /\ ip \in DOMAIN rateWindows' /\ rateWindows'[ip] = window
      /\ \A a \in DOMAIN rateWindows' :
           a = ip \/ (a \in DOMAIN rateWindows /\ rateWindows'[a] = rateWindows[a])
      /\ \A a \in DOMAIN rateWindows :
           a # ip /\ rateWindows[a].resetAt > clock =>
             a \in DOMAIN rateWindows' /\ rateWindows'[a] = rateWindows[a]
  BY <1>3, <1>4, <1>7, TableAfter
<1>6. TableType'
  BY <1>3, <1>4, <1>5, <1>8 DEF TableType
<1>. QED
  BY <1>2, <1>3, <1>5, <1>6 DEF window

LEMMA HandleApart ==
  ASSUME LogType, TableType, NEW begin, Windows(begin), NEW ip \in Ip, NEW b, b = Begin(ip),
         NEW n, n = Len(log) + 1, clock' = clock,
         NEW e \in [ip : Ip, time : Nat, served : BOOLEAN], e.ip = ip, e.time = clock,
         log' = Append(log, e)
  PROVE  Apart(Extended(begin, n, b))'
<1> DEFINE next == Extended(begin, n, b)
<1>3. /\ DOMAIN log = 1..Len(log) /\ Len(log) \in Nat /\ DOMAIN log' = 1..n /\ n \notin DOMAIN log
      /\ \A i \in DOMAIN log : i \in DOMAIN log' /\ log'[i] = log[i]
      /\ log'[n] = e /\ \A i \in DOMAIN log' : i \in DOMAIN log \/ i = n
  BY LogGrows
<1>4. /\ \A i \in DOMAIN log : next[i] = begin[i] /\ begin[i] \in Int
      /\ next[n] = b /\ DOMAIN next = DOMAIN log'
      /\ next = [i \in DOMAIN log' |-> next[i]]
  BY <1>3 DEF Extended, Windows, Apart
<1>5. b \in Int /\ b <= clock /\ clock < b + Minute
      /\ \A i \in DOMAIN log :
           log[i].ip = ip => begin[i] = b \/ begin[i] + Minute <= b \/ b + Minute <= begin[i]
  BY WindowBegins
<1> HIDE DEF next
<1>6. next \in [DOMAIN log' -> Int]
  <2>1. ASSUME NEW i \in DOMAIN log' PROVE next[i] \in Int
    <3>1. i \in DOMAIN log \/ i = n
      BY <1>3
    <3>. QED
      BY <1>4, <1>5, <3>1
  <2>. QED
    BY <1>4, <2>1
<1>7. ASSUME NEW i \in DOMAIN log'
      PROVE  next[i] <= log'[i].time /\ log'[i].time < next[i] + Minute
  <2>1. CASE i \in DOMAIN log
    BY <1>3, <1>4, <2>1 DEF Windows, Apart
  <2>2. CASE i = n
    BY <1>3, <1>4, <1>5, <2>2
  <2>. QED
    BY <1>3, <2>1, <2>2
<1>8. ASSUME NEW i \in DOMAIN log', NEW j \in DOMAIN log', log'[i].ip = log'[j].ip
      PROVE  next[i] = next[j] \/ next[i] + Minute <= next[j] \/ next[j] + Minute <= next[i]
  <2>1. CASE i \in DOMAIN log /\ j \in DOMAIN log
    BY <1>3, <1>4, <1>8, <2>1 DEF Windows, Apart
  <2>2. CASE i = n /\ j \in DOMAIN log
    BY <1>3, <1>4, <1>5, <1>8, <2>2
  <2>3. CASE i \in DOMAIN log /\ j = n
    BY <1>3, <1>4, <1>5, <1>8, <2>3
  <2>. QED
    BY <1>3, <2>1, <2>2, <2>3
<1>. QED
  BY <1>6, <1>7, <1>8 DEF Apart, next, Extended

LEMMA SumBelow ==
  ASSUME NEW c \in Nat, NEW k \in Nat, c <= k + 1, k + 1 <= Maximum
  PROVE  c <= Maximum
BY LimiterAssumption

LEMMA HandleRationed ==
  ASSUME LogType, TableType, NEW begin, Windows(begin), NEW ip \in Ip, NEW b, b = Begin(ip),
         NEW n, n = Len(log) + 1, clock' = clock,
         NEW e \in [ip : Ip, time : Nat, served : BOOLEAN], e.ip = ip,
         e.served => WindowOf(ip).count + 1 <= Maximum,
         ~ e.served => WindowOf(ip).count + 1 > Maximum, log' = Append(log, e)
  PROVE  Rationed(Extended(begin, n, b))'
<1> DEFINE next == Extended(begin, n, b)
<1>3. /\ DOMAIN log = 1..Len(log) /\ Len(log) \in Nat /\ DOMAIN log' = 1..n /\ n \notin DOMAIN log
      /\ \A i \in DOMAIN log : i \in DOMAIN log' /\ log'[i] = log[i]
      /\ log'[n] = e /\ \A i \in DOMAIN log' : i \in DOMAIN log \/ i = n
  BY LogGrows
<1>4. (\A i \in DOMAIN log : next[i] = begin[i]) /\ next[n] = b
  BY <1>3 DEF Extended
<1>0. next = Extended(begin, n, b)
  OBVIOUS
<1> HIDE DEF next
<1>5. b \in Int /\ WindowOf(ip).count \in Nat
      /\ Cardinality(InWindow(log, begin, ip, b)) = WindowOf(ip).count
  BY WindowBegins
<1>6. /\ InWindow(log', next, ip, b) = InWindow(log, begin, ip, b) \cup {n}
      /\ \A a, t : ~ (a = ip /\ t = b) => InWindow(log', next, a, t) = InWindow(log, begin, a, t)
      /\ e.served => ServedIn(log', next, ip, b) = ServedIn(log, begin, ip, b) \cup {n}
      /\ ~ e.served => ServedIn(log', next, ip, b) = ServedIn(log, begin, ip, b)
      /\ \A a, t : ~ (a = ip /\ t = b) => ServedIn(log', next, a, t) = ServedIn(log, begin, a, t)
  BY <1>0, <1>5, WindowGrows
<1>7. IsFiniteSet(InWindow(log, begin, ip, b)) /\ n \notin InWindow(log, begin, ip, b)
      /\ ServedIn(log, begin, ip, b) \subseteq InWindow(log, begin, ip, b)
  <2>1. IsFiniteSet(InWindow(log, begin, ip, b))
    BY LogIsFinite
  <2>. QED
    BY <1>3, <2>1 DEF InWindow, ServedIn
<1>8. Cardinality(InWindow(log, begin, ip, b) \cup {n}) = WindowOf(ip).count + 1
      /\ IsFiniteSet(InWindow(log, begin, ip, b) \cup {n})
  BY <1>5, <1>7, FS_AddElement
<1>9. ASSUME NEW a \in Ip, NEW t \in Int
      PROVE  Cardinality(ServedIn(log', next, a, t)) <= Maximum
  <2>1. CASE ~ (a = ip /\ t = b) \/ ~ e.served
    BY <1>6, <2>1 DEF Windows, Rationed
  <2>2. CASE a = ip /\ t = b /\ e.served
    <3>1. ServedIn(log', next, a, t) = ServedIn(log, begin, ip, b) \cup {n}
      BY <1>6, <2>2
    <3>2. ServedIn(log, begin, ip, b) \cup {n} \in SUBSET (InWindow(log, begin, ip, b) \cup {n})
      BY <1>7
    <3>3. Cardinality(ServedIn(log, begin, ip, b) \cup {n}) <= WindowOf(ip).count + 1
          /\ Cardinality(ServedIn(log, begin, ip, b) \cup {n}) \in Nat
      BY <1>8, <3>2, FS_Subset, FS_CardinalityType
    <3>4. WindowOf(ip).count + 1 <= Maximum
      BY <2>2
    <3>. QED
      BY <1>5, <3>1, <3>3, <3>4, SumBelow
  <2>. QED
    BY <2>1, <2>2
<1>10. ASSUME NEW i \in DOMAIN log', ~ log'[i].served
       PROVE  Cardinality(Counted(log', next, i)) > Maximum
  <2>1. Counted(log', next, i) = {j \in InWindow(log', next, log'[i].ip, next[i]) : j <= i}
    BY DEF Counted
  <2>2. CASE i \in DOMAIN log
    <3>1. log'[i] = log[i] /\ next[i] = begin[i] /\ ~ (n <= i)
      BY <1>3, <1>4, <2>2
    <3>2. \/ InWindow(log', next, log[i].ip, begin[i]) = InWindow(log, begin, log[i].ip, begin[i])
          \/ InWindow(log', next, log[i].ip, begin[i]) = InWindow(log, begin, log[i].ip, begin[i]) \cup {n}
      BY <1>6
    <3>3. Counted(log', next, i) = Counted(log, begin, i)
      BY <2>1, <3>1, <3>2 DEF Counted
    <3>. QED
      BY <1>10, <2>2, <3>1, <3>3 DEF Windows, Rationed
  <2>3. CASE i = n
    <3>1. log'[i].ip = ip /\ next[i] = b /\ ~ e.served
      BY <1>3, <1>4, <1>10, <2>3
    <3>2. \A j \in InWindow(log, begin, ip, b) \cup {n} : j <= n
      BY <1>3 DEF InWindow
    <3>3. Counted(log', next, i) = InWindow(log, begin, ip, b) \cup {n}
      BY <1>6, <2>1, <2>3, <3>1, <3>2
    <3>4. WindowOf(ip).count + 1 > Maximum
      BY <3>1
    <3>. QED
      BY <1>8, <3>3, <3>4
  <2>. QED
    BY <1>3, <2>2, <2>3
<1>. QED
  BY <1>9, <1>10 DEF Rationed, next, Extended

LEMMA HandleTabled ==
  ASSUME LogType, TableType, NEW begin, Windows(begin), NEW ip \in Ip, NEW b, b = Begin(ip),
         NEW n, n = Len(log) + 1, Handle(ip),
         NEW e \in [ip : Ip, time : Nat, served : BOOLEAN], e.ip = ip, log' = Append(log, e)
  PROVE  Tabled(Extended(begin, n, b))'
<1> DEFINE next == Extended(begin, n, b)
<1>1. /\ DOMAIN log = 1..Len(log) /\ Len(log) \in Nat /\ DOMAIN log' = 1..n /\ n \notin DOMAIN log
      /\ \A i \in DOMAIN log : i \in DOMAIN log' /\ log'[i] = log[i]
      /\ log'[n] = e /\ \A i \in DOMAIN log' : i \in DOMAIN log \/ i = n
  BY LogGrows
<1>2. (\A i \in DOMAIN log : next[i] = begin[i]) /\ next[n] = b
  BY <1>1 DEF Extended
<1>3. next = Extended(begin, n, b)
  OBVIOUS
<1> HIDE DEF next
<1>4. /\ b \in Int /\ b + Minute = WindowOf(ip).resetAt /\ WindowOf(ip).resetAt - Minute = b
      /\ WindowOf(ip).count \in Nat
      /\ Cardinality(InWindow(log, begin, ip, b)) = WindowOf(ip).count
      /\ \A i \in DOMAIN log :
           log[i].ip = ip => begin[i] = b \/ begin[i] + Minute <= b \/ b + Minute <= begin[i]
      /\ b <= clock
  BY WindowBegins DEF Begin
<1>11. b \in Int
  BY <1>4
<1>12. Cardinality(InWindow(log, begin, ip, b)) = WindowOf(ip).count
  BY <1>4
<1>5. /\ InWindow(log', next, ip, b) = InWindow(log, begin, ip, b) \cup {n}
      /\ \A a, t : ~ (a = ip /\ t = b) => InWindow(log', next, a, t) = InWindow(log, begin, a, t)
  <2>1. InWindow(log', next, ip, b) = InWindow(log, begin, ip, b) \cup {n}
    BY <1>1, <1>2 DEF InWindow
  <2>2. \A a, t : ~ (a = ip /\ t = b) => InWindow(log', next, a, t) = InWindow(log, begin, a, t)
    BY <1>3, <1>11, WindowGrows
  <2>. QED
    BY <2>1, <2>2
<1>6. Cardinality(InWindow(log, begin, ip, b) \cup {n}) = WindowOf(ip).count + 1
  <2>1. IsFiniteSet(InWindow(log, begin, ip, b))
    BY LogIsFinite
  <2>2. n \notin InWindow(log, begin, ip, b)
    BY <1>1 DEF InWindow
  <2>. QED
    <3>1. Cardinality(InWindow(log, begin, ip, b) \cup {n}) = Cardinality(InWindow(log, begin, ip, b)) + 1
      BY <2>1, <2>2, FS_AddElement
    <3>. QED
      BY <1>12, <3>1
<1>7. /\ ip \in DOMAIN rateWindows' /\ rateWindows'[ip].count = WindowOf(ip).count + 1
      /\ rateWindows'[ip].resetAt = WindowOf(ip).resetAt
      /\ \A a \in DOMAIN rateWindows' :
           a = ip \/ (a \in DOMAIN rateWindows /\ rateWindows'[a] = rateWindows[a])
      /\ \A a \in DOMAIN rateWindows :
           a # ip /\ rateWindows[a].resetAt > clock =>
             a \in DOMAIN rateWindows' /\ rateWindows'[a] = rateWindows[a]
      /\ clock' = clock
  BY HandleTable
<1>8. ASSUME NEW a \in DOMAIN rateWindows'
      PROVE  Cardinality(InWindow(log', next, a, rateWindows'[a].resetAt - Minute)) = rateWindows'[a].count
  <2>1. CASE a = ip
    BY <1>4, <1>5, <1>6, <1>7, <2>1
  <2>2. CASE a # ip
    <3>1. a \in DOMAIN rateWindows /\ rateWindows'[a] = rateWindows[a]
      BY <1>7, <2>2
    <3>2. InWindow(log', next, a, rateWindows[a].resetAt - Minute)
            = InWindow(log, begin, a, rateWindows[a].resetAt - Minute)
      BY <1>5, <2>2
    <3>. QED
      BY <3>1, <3>2 DEF Windows, Tabled
  <2>. QED
    BY <2>1, <2>2
<1>9. ASSUME NEW i \in DOMAIN log', next[i] + Minute > clock
      PROVE  log'[i].ip \in DOMAIN rateWindows' /\ rateWindows'[log'[i].ip].resetAt = next[i] + Minute
  <2>1. CASE i = n
    BY <1>1, <1>2, <1>4, <1>7, <2>1
  <2>2. CASE i \in DOMAIN log
    <3>1. log'[i] = log[i] /\ next[i] = begin[i] /\ begin[i] \in Int
      BY <1>1, <1>2, <2>2 DEF Windows, Apart
    <3>2. log[i].ip \in DOMAIN rateWindows /\ rateWindows[log[i].ip].resetAt = begin[i] + Minute
      BY <1>9, <2>2, <3>1 DEF Windows, Tabled
    <3>3. CASE log[i].ip # ip
      BY <1>7, <1>9, <3>1, <3>2, <3>3
    <3>4. CASE log[i].ip = ip
      <4>1. ~ (rateWindows[ip].resetAt <= clock)
        BY <1>9, <3>1, <3>2, <3>4, LimiterAssumption DEF LogType
      <4>2. WindowOf(ip) = rateWindows[ip]
        BY <3>2, <3>4, <4>1 DEF WindowOf
      <4>. QED
        BY <1>7, <3>1, <3>2, <3>4, <4>2
    <3>. QED
      BY <3>3, <3>4
  <2>. QED
    BY <1>1, <2>1, <2>2
<1>10. Tabled(next)'
  BY <1>3, <1>7, <1>8, <1>9 DEF Tabled
<1>. QED
  BY <1>3, <1>10

LEMMA HandleKeeps ==
  ASSUME LimiterIInv, NEW ip \in Ip, Handle(ip)
  PROVE  LimiterIInv'
<1>1. LogType /\ TableType
  BY DEF LimiterIInv
<1>2. PICK begin : Windows(begin)
  BY DEF LimiterIInv
<1> DEFINE e == [ip |-> ip, time |-> clock, served |-> (WindowOf(ip).count + 1 <= Maximum)]
<1>4. e \in [ip : Ip, time : Nat, served : BOOLEAN]
  BY <1>1 DEF LogType
<1>5. e.ip = ip /\ e.time = clock
  OBVIOUS
<1>6. e.served <=> WindowOf(ip).count + 1 <= Maximum
  OBVIOUS
<1>7. log' = Append(log, e) /\ clock' = clock /\ TableType'
  BY <1>1, <1>2, HandleTable
<1> HIDE DEF e
<1>8. WindowOf(ip).count \in Nat
  BY <1>1, <1>2, WindowBegins
<1>9. /\ e.served => WindowOf(ip).count + 1 <= Maximum
      /\ ~ e.served => WindowOf(ip).count + 1 > Maximum
  BY <1>6, <1>8, LimiterAssumption
<1>10. LogType'
  BY <1>1, <1>4, <1>5, <1>7, HandleLog DEF Handle
<1>14. PICK n : n = Len(log) + 1
  OBVIOUS
<1>15. PICK b : b = Begin(ip)
  OBVIOUS
<1>11. Apart(Extended(begin, n, b))'
  BY <1>1, <1>2, <1>4, <1>5, <1>7, <1>14, <1>15, HandleApart
<1>12. Rationed(Extended(begin, n, b))'
  BY <1>1, <1>2, <1>4, <1>5, <1>7, <1>9, <1>14, <1>15, HandleRationed
<1>13. Tabled(Extended(begin, n, b))'
  BY <1>1, <1>2, <1>4, <1>5, <1>7, <1>14, <1>15, HandleTabled
<1>. QED
  BY <1>7, <1>10, <1>11, <1>12, <1>13 DEF LimiterIInv, Windows

THEOREM LimiterInvariant == LimiterSpec => []LimiterIInv
<1>1. LimiterInit => LimiterIInv
  BY LimiterInitInvariant
<1>2. LimiterIInv /\ [LimiterNext]_limiterVars => LimiterIInv'
  <2>1. CASE UNCHANGED limiterVars
    <3>1. LimiterIInv <=> LimiterIInv'
      BY <2>1 DEF limiterVars, LimiterIInv, LogType, TableType, Windows, Apart, Rationed, Tabled,
                  InWindow, ServedIn, Counted
    <3>. QED
      BY <3>1
  <2>. QED
    BY <2>1, ClockKeeps, HandleKeeps DEF LimiterNext
<1>. QED
  BY <1>1, <1>2, PTL DEF LimiterSpec

\* Requests of one minute belong to at most two windows.
LEMMA TwoWindows ==
  ASSUME NEW t \in Int, NEW m \in Nat \ {0}, NEW x \in Int, NEW y \in Int, NEW z \in Int,
         \A v \in {x, y, z} : t - m < v + m /\ v <= t,
         \A v, w \in {x, y, z} : v = w \/ v + m <= w \/ w + m <= v
  PROVE  x = y \/ x = z \/ y = z
OBVIOUS

LEMMA ServedInAMinute ==
  ASSUME LogType, NEW begin, Windows(begin), NEW ip \in Ip, NEW time \in Int
  PROVE  Cardinality({i \in Lately(ip, time) : log[i].served}) <= 2 * Maximum
<1> DEFINE L == {i \in Lately(ip, time) : log[i].served}
<1>1. /\ L \in SUBSET DOMAIN log
      /\ \A i \in L : log[i].served /\ log[i].ip = ip /\ log[i].time > time - Minute /\ log[i].time <= time
  BY DEF Lately
<1>2. \A i \in DOMAIN log : /\ begin[i] \in Int /\ log[i].time \in Nat
                            /\ begin[i] <= log[i].time /\ log[i].time < begin[i] + Minute
  BY LogEntries DEF Windows, Apart
<1> HIDE DEF L
<1>3. \A i \in L : time - Minute < begin[i] + Minute /\ begin[i] <= time /\ begin[i] \in Int
  BY <1>1, <1>2, LimiterAssumption
<1>4. \A i, j \in L : begin[i] = begin[j] \/ begin[i] + Minute <= begin[j] \/ begin[j] + Minute <= begin[i]
  BY <1>1 DEF Windows, Apart
<1>5. \A b : IsFiniteSet(ServedIn(log, begin, ip, b))
  BY LogIsFinite
<1>6. \A b \in Int : Cardinality(ServedIn(log, begin, ip, b)) <= Maximum
                     /\ Cardinality(ServedIn(log, begin, ip, b)) \in Nat
  BY <1>5, FS_CardinalityType DEF Windows, Rationed
<1>7. \A i \in L : i \in ServedIn(log, begin, ip, begin[i])
  BY <1>1 DEF ServedIn, InWindow
<1>8. CASE L = {}
  <2>1. Cardinality(L) = 0
    BY <1>8, FS_EmptySet
  <2>2. Cardinality(L) <= 2 * Maximum
    BY <2>1, LimiterAssumption
  <2>. QED
    BY <2>2 DEF L
<1>9. CASE \E i \in L : \A k \in L : begin[k] = begin[i]
  <2>1. PICK i \in L : \A k \in L : begin[k] = begin[i]
    BY <1>9
  <2>2. L \in SUBSET ServedIn(log, begin, ip, begin[i])
    BY <1>7, <2>1
  <2>3. Cardinality(L) <= Cardinality(ServedIn(log, begin, ip, begin[i])) /\ Cardinality(L) \in Nat
    BY <1>5, <2>2, FS_Subset, FS_CardinalityType
  <2>4. Cardinality(L) <= 2 * Maximum
    BY <1>3, <1>6, <2>1, <2>3, LimiterAssumption
  <2>. QED
    BY <2>4 DEF L
<1>10. CASE \E i, j \in L : begin[i] # begin[j]
  <2>1. PICK i \in L, j \in L : begin[i] # begin[j]
    BY <1>10
  <2> DEFINE S == ServedIn(log, begin, ip, begin[i])
             T == ServedIn(log, begin, ip, begin[j])
  <2>2. ASSUME NEW k \in L PROVE k \in S \cup T
    <3>1. begin[k] = begin[i] \/ begin[k] = begin[j]
      BY <1>3, <1>4, <2>1, TwoWindows, LimiterAssumption
    <3>. QED
      BY <1>7, <3>1
  <2>3. IsFiniteSet(S) /\ IsFiniteSet(T) /\ Cardinality(S) <= Maximum /\ Cardinality(T) <= Maximum
        /\ Cardinality(S) \in Nat /\ Cardinality(T) \in Nat
    BY <1>3, <1>5, <1>6
  <2> HIDE DEF S, T
  <2>4. IsFiniteSet(S \cup T) /\ IsFiniteSet(S \cap T)
        /\ Cardinality(S \cup T) = Cardinality(S) + Cardinality(T) - Cardinality(S \cap T)
    BY <2>3, FS_Union, FS_Intersection
  <2>5. Cardinality(S \cap T) \in Nat
    BY <2>4, FS_CardinalityType
  <2>6. L \in SUBSET (S \cup T)
    BY <2>2
  <2>7. Cardinality(L) <= Cardinality(S \cup T) /\ Cardinality(L) \in Nat
    BY <2>4, <2>6, FS_Subset, FS_CardinalityType
  <2>8. Cardinality(L) <= 2 * Maximum
    BY <2>3, <2>4, <2>5, <2>7, LimiterAssumption
  <2>. QED
    BY <2>8 DEF L
<1>. QED
  BY <1>8, <1>9, <1>10

LEMMA RefusedForAReason ==
  ASSUME LogType, NEW begin, Windows(begin), NEW i \in DOMAIN log, ~ log[i].served
  PROVE  Cardinality({j \in Lately(log[i].ip, log[i].time) : j <= i}) > Maximum
<1> DEFINE L == {j \in Lately(log[i].ip, log[i].time) : j <= i}
<1>1. Cardinality(Counted(log, begin, i)) > Maximum
  BY DEF Windows, Rationed
<1>2. ASSUME NEW j \in Counted(log, begin, i) PROVE j \in L
  <2>1. j \in DOMAIN log /\ log[j].ip = log[i].ip /\ begin[j] = begin[i] /\ j <= i
    BY DEF Counted, InWindow
  <2>2. /\ begin[i] \in Int /\ log[i].time \in Nat /\ log[j].time \in Nat
        /\ log[i].time < begin[i] + Minute /\ begin[j] <= log[j].time /\ log[j].time <= log[i].time
    BY <2>1, LogEntries DEF Windows, Apart, LogType
  <2>3. log[j].time > log[i].time - Minute
    BY <2>1, <2>2, LimiterAssumption
  <2>. QED
    BY <2>1, <2>2, <2>3 DEF Lately
<1>3. L \in SUBSET DOMAIN log
  BY DEF Lately
<1>4. IsFiniteSet(L)
  BY <1>3, LogIsFinite, FS_Subset
<1> HIDE DEF L
<1>5. Counted(log, begin, i) \in SUBSET L
  BY <1>2
<1>6. Cardinality(Counted(log, begin, i)) <= Cardinality(L) /\ Cardinality(L) \in Nat
      /\ Cardinality(Counted(log, begin, i)) \in Nat
  BY <1>4, <1>5, FS_Subset, FS_CardinalityType
<1>7. Cardinality(L) > Maximum
  BY <1>1, <1>6, LimiterAssumption
<1>. QED
  BY <1>7 DEF L

(***************************************************************************)
(* The limiter is well typed: it counts no more requests than were sent,   *)
(* and no window ends later than a minute from now.                        *)
(***************************************************************************)
THEOREM LimiterTypeCorrect == LimiterSpec => []LimiterTypeOK
<1>1. LimiterIInv => LimiterTypeOK
  <2>1. SUFFICES ASSUME LimiterIInv PROVE LimiterTypeOK
    OBVIOUS
  <2>2. LogType /\ TableType
    BY <2>1 DEF LimiterIInv
  <2>3. PICK begin : Windows(begin)
    BY <2>1 DEF LimiterIInv
  <2>4. \A i \in DOMAIN log : log[i].ip \in Ip /\ log[i].time \in 0..clock /\ log[i].served \in BOOLEAN
    BY <2>2, LogEntries DEF LogType
  <2>5. ASSUME NEW ip \in DOMAIN rateWindows
        PROVE  rateWindows[ip].count \in 1..MaxRequests /\ rateWindows[ip].resetAt \in Minute..clock + Minute
    <3>1. /\ rateWindows[ip].count \in Nat \ {0} /\ rateWindows[ip].resetAt \in Nat
          /\ Minute <= rateWindows[ip].resetAt /\ rateWindows[ip].resetAt <= clock + Minute
      BY <2>2 DEF TableType
    <3> DEFINE counted == InWindow(log, begin, ip, rateWindows[ip].resetAt - Minute)
    <3>2. Cardinality(counted) = rateWindows[ip].count
      BY <2>3 DEF Windows, Tabled
    <3>3. counted \in SUBSET DOMAIN log
      BY DEF InWindow
    <3> HIDE DEF counted
    <3>4. DOMAIN log = 1..Len(log) /\ Len(log) \in Nat /\ IsFiniteSet(DOMAIN log)
      BY <2>2, LogIsFinite
    <3>5. Cardinality(DOMAIN log) = Len(log)
      BY <3>4, FS_Interval
    <3>6. Cardinality(counted) <= Len(log)
      BY <3>3, <3>4, <3>5, FS_Subset
    <3>7. Len(log) <= MaxRequests
      BY <2>2 DEF LogType
    <3>. QED
      BY <2>2, <3>1, <3>2, <3>4, <3>6, <3>7, LimiterAssumption DEF LogType
  <2>. QED
    BY <2>2, <2>4, <2>5, LimiterAssumption DEF LimiterTypeOK, LogType, TableType
<1>. QED
  BY <1>1, LimiterInvariant, PTL

(***************************************************************************)
(* No minute serves an address more than twice the rate, and an address is *)
(* refused only after more than the rate within the last minute, however   *)
(* requests, addresses and the pruning of the table fall together.         *)
(***************************************************************************)
THEOREM LimitsAreFair == LimiterSpec => []LimitIsFair
<1>1. LimiterIInv => LimitIsFair
  <2>1. SUFFICES ASSUME LimiterIInv PROVE LimitIsFair
    OBVIOUS
  <2>2. LogType
    BY <2>1 DEF LimiterIInv
  <2>3. PICK begin : Windows(begin)
    BY <2>1 DEF LimiterIInv
  <2>4. \A ip \in Ip, time \in 0..LastTick :
          Cardinality({i \in Lately(ip, time) : log[i].served}) <= 2 * Maximum
    BY <2>2, <2>3, ServedInAMinute
  <2>. QED
    BY <2>2, <2>3, <2>4, RefusedForAReason DEF LimitIsFair
<1>. QED
  BY <1>1, LimiterInvariant, PTL
=============================================================================
