------------------------------ MODULE MCWebTier ------------------------------
(***************************************************************************)
(* ResponseCache and RateLimiter in one run.  They share no state and none *)
(* of their properties speaks of both, so a behaviour is one of a single   *)
(* part: the states of the parts add up, and are not multiplied.           *)
(***************************************************************************)
EXTENDS ResponseCache, RateLimiter, TLC

CONSTANTS q1, q2, q3, q4, short, other, long, uncached, i1, i2, i3

\* Three cached URLs and one that is not.
MCCacheSeconds == (short :> 1) @@ (other :> 1) @@ (long :> 2) @@ (uncached :> 0)

VARIABLE part

\* The part a behaviour is not about has one initial state.
WebInit ==
  /\ part \in {"cache", "limiter"}
  /\ Init /\ LimiterInit
  /\ part # "cache" => mode = "auto" /\ url = [q \in Request |-> short]

WebNext ==
  /\ part' = part
  /\ \/ part = "cache" /\ Next /\ UNCHANGED limiterVars
     \/ part = "limiter" /\ LimiterNext /\ UNCHANGED vars

WebSpec == WebInit /\ [][WebNext]_<<part, vars, limiterVars>>

Symmetry == Permutations({q1, q2, q3, q4}) \cup Permutations({i1, i2, i3})
=============================================================================
