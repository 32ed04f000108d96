------------------------------- MODULE UseApi --------------------------------
(***************************************************************************)
(* useApi of src/lib/api.ts: the hook by which a page of the browser loads *)
(* what it shows.  A render with another path, a timer and a retry button  *)
(* make React run its effect again, some time after the render; the        *)
(* effect's clean-up aborts the request before.  Answers arrive in any     *)
(* order.  A settled request runs then, catch and finally before React     *)
(* renders again.                                                          *)
(***************************************************************************)
EXTENDS Integers

CONSTANTS
  Path,
  MaxRequests   \* bound: effects run

ASSUME UseApiAssumption == Path # {} /\ MaxRequests \in Nat

VARIABLES
  mounted,
  path,       \* the path of the last render
  due,        \* the effect's dependencies changed, and it has not run yet
  sent,       \* requests sent; they are numbered
  active,     \* the request of the effect that is not cleaned up, 0 if none
  asked,      \* the path of each request
  flying,     \* requests without an answer
  data,       \* the request whose answer is shown, 0 if none
  blank,      \* that answer has no data: its body was not readable as JSON
  error,      \* the request whose failure is shown, 0 if none
  loading

hookVars == <<mounted, path, due, sent, active, asked, flying, data, blank, error, loading>>

HookInit ==
  /\ mounted = TRUE /\ path \in Path /\ due = TRUE
  /\ sent = 0 /\ active = 0 /\ asked = [n \in 1..MaxRequests |-> path] /\ flying = {}
  /\ data = 0 /\ blank = FALSE /\ error = 0 /\ loading = TRUE

\* A render of the same page with another path.
Navigate(p) ==
  /\ mounted /\ p # path
  /\ path' = p /\ due' = TRUE
  /\ UNCHANGED <<mounted, sent, active, asked, flying, data, blank, error, loading>>

\* refetch, by the timer or the retry button.
Refetch ==
  /\ mounted /\ due' = TRUE
  /\ UNCHANGED <<mounted, path, sent, active, asked, flying, data, blank, error, loading>>

\* The clean-up of the effect before, and the effect.
RunEffect ==
  /\ mounted /\ due /\ sent < MaxRequests
  /\ due' = FALSE
  /\ sent' = sent + 1 /\ active' = sent + 1
  /\ asked' = [asked EXCEPT ![sent + 1] = path]
  /\ flying' = flying \cup {sent + 1}
  /\ loading' = TRUE /\ error' = 0
  /\ UNCHANGED <<mounted, path, data, blank>>

\* Seeded fault: answers are not told apart.
ActiveAlways(n) == mounted

Active(n) == n = active

\* finally
LoadingAfter(n) == IF Active(n) THEN FALSE ELSE loading

\* An OK response.  A body that does not parse is taken for {}, which has no data.
Answer(n) ==
  /\ n \in flying /\ flying' = flying \ {n}
  /\ data' = IF Active(n) THEN n ELSE data
  /\ \E unreadable \in BOOLEAN : blank' = IF Active(n) THEN unreadable ELSE blank
  /\ loading' = LoadingAfter(n)
  /\ UNCHANGED <<mounted, path, due, sent, active, asked, error>>

\* Seeded fault: the failure is not kept.
FailureSwallowed(n) == error

Failure(n) == IF Active(n) THEN n ELSE error

\* An HTTP or network error, or the AbortError of a request cleaned up.
Fail(n) ==
  /\ n \in flying /\ flying' = flying \ {n}
  /\ error' = Failure(n)
  /\ UNCHANGED <<data, blank>> /\ loading' = LoadingAfter(n)
  /\ UNCHANGED <<mounted, path, due, sent, active, asked>>

\* Another page is shown instead.
Unmount ==
  /\ mounted /\ mounted' = FALSE /\ active' = 0
  /\ due' = FALSE /\ data' = 0 /\ blank' = FALSE /\ error' = 0 /\ loading' = FALSE
  /\ UNCHANGED <<path, sent, asked, flying>>

\* The page is shown again, with a new state.
Mount ==
  /\ ~ mounted /\ mounted' = TRUE
  /\ path' \in Path /\ due' = TRUE
  /\ data' = 0 /\ blank' = FALSE /\ error' = 0 /\ loading' = TRUE
  /\ UNCHANGED <<sent, active, asked, flying>>

HookNext ==
  \/ Refetch \/ RunEffect \/ Unmount \/ Mount
  \/ \E p \in Path : Navigate(p)
  \/ \E n \in flying : Answer(n) \/ Fail(n)

HookSpec == HookInit /\ [][HookNext]_hookVars

-----------------------------------------------------------------------------
\* What App.tsx takes for "not found" (lines 267, 291, 315 and 344).
ShowsNoData == data = 0 \/ blank

(***************************************************************************)
(* Once loading has ended the page shows the answer for its path, or the   *)
(* failure of its last request; never the answer for a path it showed      *)
(* before.  That it has neither data nor a failure to show, and says "not  *)
(* found", happens only if the answer to that very request had no data:    *)
(* an OK response whose body is no JSON, which the hook does not tell from *)
(* a missing record.  And loading does end: the page waits only for a      *)
(* request that is on its way or about to be sent.                         *)
(***************************************************************************)
SettledShowsPath ==
  /\ mounted /\ ~ loading /\ ~ due =>
       /\ active # 0 /\ active \notin flying /\ asked[active] = path
       /\ error = active \/ (error = 0 /\ data = active)
       /\ error = 0 /\ ShowsNoData => data = active /\ blank
  /\ mounted /\ loading => due \/ active \in flying

(***************************************************************************)
(* The page never goes back to an earlier answer, in whatever order the    *)
(* answers arrive.                                                         *)
(***************************************************************************)
NewestAnswerWins == [][mounted /\ mounted' => data' >= data]_hookVars
=============================================================================
