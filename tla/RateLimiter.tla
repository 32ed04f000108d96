----------------------------- MODULE RateLimiter -----------------------------
(***************************************************************************)
(* The rate limit of server/index.mjs: a fixed window of requests for each *)
(* address, begun by its first request, and a table of windows that is     *)
(* pruned of ended ones when it has grown too large.                       *)
(***************************************************************************)
EXTENDS Integers, Sequences, FiniteSets

CONSTANTS
  Ip,
  Maximum,       \* API_RATE_LIMIT_PER_MINUTE
  Minute,        \* the length of a window
  PruneAbove,    \* 10,000 windows
  LastTick, MaxRequests   \* bounds

ASSUME LimiterAssumption ==
  {Maximum, PruneAbove, LastTick, MaxRequests} \subseteq Nat /\ Minute \in Nat \ {0}

VARIABLES
  clock,
  rateWindows,   \* address -> [count, resetAt]
  log            \* for the properties: the requests, [ip, time, served]

limiterVars == <<clock, rateWindows, log>>

LimiterInit == clock = 0 /\ rateWindows = [ip \in {} |-> [count |-> 0, resetAt |-> 0]] /\ log = <<>>

ClockTick == clock < LastTick /\ clock' = clock + 1 /\ UNCHANGED <<rateWindows, log>>

\* The window the request falls in.
WindowOf(ip) ==
  IF ip \notin DOMAIN rateWindows \/ rateWindows[ip].resetAt <= clock
  THEN [count |-> 0, resetAt |-> clock + Minute]
  ELSE rateWindows[ip]

\* Seeded fault: the table is emptied.
PrunedAll(windows) ==
  IF Cardinality(DOMAIN windows) > PruneAbove THEN [ip \in {} |-> windows[ip]] ELSE windows

Pruned(windows) ==
  IF Cardinality(DOMAIN windows) > PruneAbove
  THEN [ip \in {i \in DOMAIN windows : windows[i].resetAt > clock} |-> windows[ip]]
  ELSE windows

Handle(ip) ==
  /\ Len(log) < MaxRequests
  /\ LET window == [WindowOf(ip) EXCEPT !.count = @ + 1]
     IN  /\ rateWindows' = Pruned([i \in DOMAIN rateWindows \cup {ip} |->
                                     IF i = ip THEN window ELSE rateWindows[i]])
         /\ log' = Append(log, [ip |-> ip, time |-> clock, served |-> window.count <= Maximum])
  /\ UNCHANGED clock

LimiterNext == ClockTick \/ \E ip \in Ip : Handle(ip)

LimiterSpec == LimiterInit /\ [][LimiterNext]_limiterVars

-----------------------------------------------------------------------------
LimiterTypeOK ==
  /\ clock \in 0..LastTick /\ Len(log) <= MaxRequests
  /\ DOMAIN rateWindows \subseteq Ip
  /\ \A ip \in DOMAIN rateWindows :
       rateWindows[ip].count \in 1..MaxRequests /\ rateWindows[ip].resetAt \in Minute .. clock + Minute
  /\ \A i \in DOMAIN log :
       log[i].ip \in Ip /\ log[i].time \in 0..clock /\ log[i].served \in BOOLEAN

\* The requests of an address in the minute that ends with time.
Lately(ip, time) ==
  {i \in DOMAIN log : log[i].ip = ip /\ log[i].time > time - Minute /\ log[i].time <= time}

(***************************************************************************)
(* No minute, wherever it begins, serves an address more than two windows' *)
(* worth, and pruning forgets no window that is still running.  On the     *)
(* other side an address is refused only if it sent more than the maximum  *)
(* within the last minute: refused requests do not keep it out for longer. *)
(***************************************************************************)
LimitIsFair ==
  /\ \A ip \in Ip, time \in 0..LastTick :
       Cardinality({i \in Lately(ip, time) : log[i].served}) <= 2 * Maximum
  /\ \A i \in DOMAIN log :
       ~ log[i].served =>
         Cardinality({j \in Lately(log[i].ip, log[i].time) : j <= i}) > Maximum
=============================================================================
