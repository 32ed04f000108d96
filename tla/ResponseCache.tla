---------------------------- MODULE ResponseCache ----------------------------
(***************************************************************************)
(* withData of server/index.mjs: a route's answers are cached as promises, *)
(* under the request's URL, for as many seconds as the route says; when    *)
(* the call fails the route answers with demo data or with the error,      *)
(* depending on EXPLORER_DEMO_MODE.                                        *)
(*                                                                         *)
(* A call is named by the request that started it.  A call that settles    *)
(* runs the continuations of all requests that wait for it before the      *)
(* event loop takes up another request, so settling is one step.           *)
(***************************************************************************)
EXTENDS Integers, FiniteSets, SequencesExt

CONSTANTS
  Request,     \* each is sent once
  Url,
  CacheSeconds,   \* of the URL's route; 0 is not cached
  Capacity,    \* 1,000 entries
  NoRequest,
  MaxTime      \* bound

ASSUME CacheAssumption ==
  /\ CacheSeconds \in [Url -> Nat] /\ Capacity \in Nat \ {0} /\ MaxTime \in Nat
  /\ NoRequest \notin Request

VARIABLES
  mode,        \* EXPLORER_DEMO_MODE: "auto", "false" (or live), "true" (or demo)
  now,
  cache,       \* the Map: [url, call, expires], oldest insertion first
  url,         \* of a request
  at,          \* when it arrived
  state,       \* of a request: "unsent", "waiting", "data", "demo" or "error"
  uses,        \* the call it waits for, or waited for
  call,        \* of a call: "none", "pending", "ok" or "failed"
  readAt,      \* when a call read its data
  \* for the properties: entries lost before their time, by eviction or by the
  \* failure of an older call of the same URL
  lost

vars == <<mode, now, cache, url, at, state, uses, call, readAt, lost>>

Init ==
  /\ mode \in {"auto", "false", "true"}
  /\ now = 0 /\ cache = <<>>
  /\ url \in [Request -> Url]
  /\ at = [q \in Request |-> 0]
  /\ state = [q \in Request |-> "unsent"]
  /\ uses = [q \in Request |-> NoRequest]
  /\ call = [q \in Request |-> "none"]
  /\ readAt = [q \in Request |-> 0]
  /\ lost = {}

Tick ==
  /\ now < MaxTime /\ now' = now + 1
  /\ UNCHANGED <<mode, cache, url, at, state, uses, call, readAt, lost>>

\* cache.get
Entries(u) == {i \in DOMAIN cache : cache[i].url = u}

\* Seeded fault: the answer is only shared once it is there.
HitsSettled(u) == {i \in Entries(u) : cache[i].expires > now /\ call[cache[i].call] = "ok"}

\* Seeded fault: an entry is good for one more second than the route says.
HitsTooOld(u) == {i \in Entries(u) : cache[i].expires >= now}

Hits(u) == IF CacheSeconds[u] = 0 THEN {} ELSE {i \in Entries(u) : cache[i].expires > now}

\* cache.delete; a Map has one entry for a key.
Without(c, u) ==
  IF \E i \in DOMAIN c : c[i].url = u
  THEN RemoveAt(c, CHOOSE i \in DOMAIN c : c[i].url = u)
  ELSE c

\* cache.set keeps the place of a key that is there.
With(c, e) ==
  IF \E i \in DOMAIN c : c[i].url = e.url
  THEN [i \in DOMAIN c |-> IF c[i].url = e.url THEN e ELSE c[i]]
  ELSE Append(c, e)

\* Seeded fault: room is made for one entry too many.
RoomLate == IF Len(cache) > Capacity THEN Tail(cache) ELSE cache

\* At the limit the oldest entry goes.
Room == IF Len(cache) >= Capacity THEN Tail(cache) ELSE cache

\* Calls whose entry is gone before it expired, or before the call was done.
Dropped(before, after) ==
  {before[i].call : i \in {j \in DOMAIN before :
     \A k \in DOMAIN after : after[k].call # before[j].call}}

Arrive(q) ==
  /\ state[q] = "unsent"
  /\ at' = [at EXCEPT ![q] = now]

Fallback == IF mode = "false" THEN "error" ELSE "demo"

\* What awaiting a call gives at once.
Outcome(p) ==
  CASE call[p] = "ok" -> "data" [] call[p] = "failed" -> Fallback [] OTHER -> "waiting"

\* EXPLORER_DEMO_MODE=true: nothing is asked.
ServeDemo(q) ==
  /\ mode = "true" /\ Arrive(q)
  /\ state' = [state EXCEPT ![q] = "demo"]
  /\ UNCHANGED <<mode, now, cache, url, uses, call, readAt, lost>>

\* A cached promise, settled or not.
ServeHit(q) ==
  /\ mode # "true" /\ Arrive(q)
  /\ \E i \in Hits(url[q]) :
       /\ uses' = [uses EXCEPT ![q] = cache[i].call]
       /\ state' = [state EXCEPT ![q] = Outcome(cache[i].call)]
  /\ UNCHANGED <<mode, now, cache, url, call, readAt, lost>>

StartCall(q) ==
  /\ mode # "true" /\ Arrive(q) /\ Hits(url[q]) = {}
  /\ call' = [call EXCEPT ![q] = "pending"]
  /\ uses' = [uses EXCEPT ![q] = q]
  /\ state' = [state EXCEPT ![q] = "waiting"]
  /\ LET s == CacheSeconds[url[q]]
     IN  IF s = 0 THEN UNCHANGED <<cache, lost>>
         ELSE /\ cache' = With(Room, [url |-> url[q], call |-> q, expires |-> now + s])
              /\ lost' = lost \cup Dropped(cache, Room)
  /\ UNCHANGED <<mode, now, url, readAt>>

Waiting(p) == {q \in Request : state[q] = "waiting" /\ uses[q] = p}

\* The data was read somewhere between the start and now.
Resolve(p) ==
  /\ call[p] = "pending"
  /\ call' = [call EXCEPT ![p] = "ok"]
  /\ \E t \in at[p] .. now : readAt' = [readAt EXCEPT ![p] = t]
  /\ state' = [q \in Request |-> IF q \in Waiting(p) THEN "data" ELSE state[q]]
  /\ UNCHANGED <<mode, now, cache, url, at, uses, lost>>

\* Seeded fault: the rejected promise stays.
ForgottenNot(p) == cache

\* Whichever entry is there now goes.
Forgotten(p) == Without(cache, url[p])

Reject(p) ==
  /\ call[p] = "pending"
  /\ call' = [call EXCEPT ![p] = "failed"]
  /\ cache' = Forgotten(p)
  /\ lost' = lost \cup (Dropped(cache, cache') \ {p})
  /\ state' = [q \in Request |-> IF q \in Waiting(p) THEN Fallback ELSE state[q]]
  /\ UNCHANGED <<mode, now, url, at, uses, readAt>>

Next ==
  \/ Tick
  \/ \E q \in Request : ServeDemo(q) \/ ServeHit(q) \/ StartCall(q) \/ Resolve(q) \/ Reject(q)

Spec == Init /\ [][Next]_vars

-----------------------------------------------------------------------------
TypeOK ==
  /\ mode \in {"auto", "false", "true"} /\ now \in 0..MaxTime
  /\ \A i \in DOMAIN cache :
       cache[i].url \in Url /\ cache[i].call \in Request /\ cache[i].expires \in Nat
  /\ \A i, j \in DOMAIN cache : cache[i].url = cache[j].url => i = j
  /\ Len(cache) <= Capacity
  /\ url \in [Request -> Url] /\ at \in [Request -> 0..MaxTime]
  /\ state \in [Request -> {"unsent", "waiting", "data", "demo", "error"}]
  /\ uses \in [Request -> Request \cup {NoRequest}]
  /\ call \in [Request -> {"none", "pending", "ok", "failed"}]
  /\ readAt \in [Request -> 0..MaxTime] /\ lost \subseteq Request

(***************************************************************************)
(* A request never gets data that was read longer before it than its route *)
(* caches, however long the call took and whoever else waited for it.      *)
(***************************************************************************)
DataIsFresh ==
  \A q \in Request : state[q] = "data" =>
    LET p == uses[q]
        s == CacheSeconds[url[q]]
    IN  call[p] = "ok" /\ url[p] = url[q] /\ (p = q \/ readAt[p] + s > at[q])

(***************************************************************************)
(* A failure is never cached: only requests that already waited for the    *)
(* call see it fail.                                                       *)
(***************************************************************************)
FailuresAreNotCached ==
  [][\A q \in Request : state[q] = "unsent" => state'[q] \notin {"demo", "error"} \/ mode = "true"]_vars

(***************************************************************************)
(* Requests for one URL share one call per cache period.  A second call is *)
(* started within it only when the first one's entry was lost: it was      *)
(* evicted, or an older call of the URL failed and took the newer entry    *)
(* with it, or the first one failed itself.                                *)
(***************************************************************************)
CallsAreShared ==
  LET Gone == lost \cup {p \in Request : call[p] = "failed"}
  IN  \A p, q \in {r \in Request : call[r] # "none"} :
        p # q /\ url[p] = url[q] /\ at[q] \in at[p] .. at[p] + CacheSeconds[url[p]] - 1
          => p \in Gone \/ (at[p] = at[q] /\ q \in Gone)
=============================================================================
