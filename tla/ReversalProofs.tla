--------------------------- MODULE ReversalProofs ----------------------------
(***************************************************************************)
(* Proofs about the reconciliation page and what serves it: the data hook  *)
(* UseApi and the page ReversalPage around it, for any paths and any       *)
(* number of requests and history entries; the dataset service, for any    *)
(* clients, files, publications and number of loads; the checks of the     *)
(* loader, the searches and the download, for any publications, rows and   *)
(* queries.  The page takes steps of the hook, so the hook's invariant is  *)
(* proved step by step and used for both.                                  *)
(***************************************************************************)
EXTENDS ReversalPage, DatasetService, ReversalDataset, SequenceTheorems, FiniteSetTheorems,
        WellFoundedInduction, TLAPS

\* What is known of the request of the current effect.
Numbered ==
  /\ {mounted, due, loading} \subseteq BOOLEAN
  /\ DOMAIN asked = 1..MaxRequests
  /\ sent \in 0..MaxRequests /\ flying \subseteq 1..sent
  /\ active \in 0..sent /\ data \in 0..active /\ error \in 0..active

\* While it is on its way the page waits for it; afterwards it shows the outcome.
Awaited ==
  mounted /\ active # 0 =>
    IF active \in flying THEN loading /\ error = 0
    ELSE ~ loading /\ (error = active \/ (error = 0 /\ data = active))

\* It was sent for the path shown, unless another effect is about to run.
ForPath == mounted /\ ~ due => active # 0 /\ asked[active] = path

\* A page that is gone left nothing behind.
Gone == ~ mounted => active = 0

HookInv == Numbered /\ Awaited /\ ForPath /\ Gone

LEMMA InvSettles == ASSUME HookInv PROVE SettledShowsPath
  BY UseApiAssumption DEF HookInv, Numbered, Awaited, ForPath, SettledShowsPath, ShowsNoData

LEMMA InvInit == ASSUME HookInit PROVE HookInv
<1>1. Numbered
  BY UseApiAssumption DEF HookInit, Numbered
<1>2. Awaited /\ ForPath /\ Gone
  BY DEF HookInit, Awaited, ForPath, Gone
<1>. QED BY <1>1, <1>2 DEF HookInv

LEMMA InvRunEffect == ASSUME HookInv, RunEffect PROVE HookInv'
<1>. USE UseApiAssumption
<1>1. sent' = sent + 1 /\ active' = sent + 1 /\ sent + 1 \in 1..MaxRequests
  BY DEF RunEffect, HookInv, Numbered
<1>2. asked'[active'] = path
  BY <1>1 DEF RunEffect, HookInv, Numbered
<1>3. Numbered'
  <2>1. {mounted, due, loading}' \subseteq BOOLEAN /\ DOMAIN asked' = 1..MaxRequests
    BY DEF RunEffect, HookInv, Numbered
  <2>2. sent' \in 0..MaxRequests /\ flying' \subseteq 1..sent'
    BY <1>1 DEF RunEffect, HookInv, Numbered
  <2>3. active' \in 0..sent' /\ data' \in 0..active' /\ error' \in 0..active'
    BY <1>1 DEF RunEffect, HookInv, Numbered
  <2>. QED BY <2>1, <2>2, <2>3 DEF Numbered
<1>4. Awaited' /\ ForPath' /\ Gone'
  BY <1>1, <1>2 DEF RunEffect, HookInv, Numbered, Awaited, ForPath, Gone
<1>. QED BY <1>3, <1>4 DEF HookInv

\* An answer or a failure leaves everything that numbers requests alone.
LEMMA InvNumbers ==
  ASSUME HookInv, NEW n \in flying, Answer(n) \/ Fail(n)
  PROVE  /\ {mounted, due, loading}' \subseteq BOOLEAN
         /\ DOMAIN asked' = 1..MaxRequests
         /\ sent' \in 0..MaxRequests /\ flying' \subseteq 1..sent'
         /\ active' \in 0..sent'
<1>1. mounted \in BOOLEAN /\ due \in BOOLEAN /\ loading \in BOOLEAN
  BY DEF HookInv, Numbered
<1>2. /\ mounted' = mounted /\ due' = due /\ loading' = LoadingAfter(n)
      /\ asked' = asked /\ sent' = sent /\ active' = active /\ flying' = flying \ {n}
  BY DEF Answer, Fail
<1>3. LoadingAfter(n) \in BOOLEAN
  BY <1>1 DEF LoadingAfter
<1>4. {mounted, due, loading}' \subseteq BOOLEAN
  BY <1>1, <1>2, <1>3
<1>5. /\ DOMAIN asked = 1..MaxRequests
      /\ sent \in 0..MaxRequests /\ flying \subseteq 1..sent /\ active \in 0..sent
  BY DEF HookInv, Numbered
<1>. QED BY <1>2, <1>4, <1>5

LEMMA InvAnswer == ASSUME HookInv, NEW n \in flying, Answer(n) PROVE HookInv'
<1>1. /\ n \in 1..sent /\ sent \in Nat /\ active \in 0..sent
      /\ data \in 0..active /\ error \in 0..active
  BY UseApiAssumption DEF HookInv, Numbered
<1>2. /\ active' = active /\ error' = error /\ flying' = flying \ {n}
      /\ data' = IF n = active THEN n ELSE data
  BY DEF Answer, Active
<1>3. data' \in 0..active' /\ error' \in 0..active'
  BY <1>1, <1>2
<1>4. Numbered'
  BY <1>3, InvNumbers DEF Numbered
<1>5. Awaited' /\ ForPath' /\ Gone'
  BY <1>1 DEF HookInv, Awaited, ForPath, Gone, Answer, Active, LoadingAfter
<1>. QED BY <1>4, <1>5 DEF HookInv

LEMMA InvFail == ASSUME HookInv, NEW n \in flying, Fail(n) PROVE HookInv'
<1>1. /\ n \in 1..sent /\ sent \in Nat /\ active \in 0..sent
      /\ data \in 0..active /\ error \in 0..active
  BY UseApiAssumption DEF HookInv, Numbered
<1>2. /\ active' = active /\ data' = data /\ flying' = flying \ {n}
      /\ error' = IF n = active THEN n ELSE error
  BY DEF Fail, Failure, Active
<1>3. data' \in 0..active' /\ error' \in 0..active'
  BY <1>1, <1>2
<1>4. Numbered'
  BY <1>3, InvNumbers DEF Numbered
<1>5. Awaited' /\ ForPath' /\ Gone'
  BY <1>1 DEF HookInv, Awaited, ForPath, Gone, Fail, Failure, Active, LoadingAfter
<1>. QED BY <1>4, <1>5 DEF HookInv

LEMMA InvNavigate == ASSUME HookInv, NEW p, Navigate(p) PROVE HookInv'
  BY DEF HookInv, Numbered, Awaited, ForPath, Gone, Navigate

LEMMA InvRefetch == ASSUME HookInv, Refetch PROVE HookInv'
  BY DEF HookInv, Numbered, Awaited, ForPath, Gone, Refetch

LEMMA InvUnmount == ASSUME HookInv, Unmount PROVE HookInv'
<1>1. {mounted, due, loading}' \subseteq BOOLEAN
  BY DEF Unmount
<1>2. /\ (DOMAIN asked = 1..MaxRequests /\ sent \in 0..MaxRequests /\ flying \subseteq 1..sent)'
      /\ (active \in 0..sent /\ data \in 0..active /\ error \in 0..active)'
  BY UseApiAssumption DEF HookInv, Numbered, Unmount
<1>3. Awaited' /\ ForPath' /\ Gone'
  BY DEF Awaited, ForPath, Gone, Unmount
<1>. QED BY <1>1, <1>2, <1>3 DEF HookInv, Numbered

LEMMA InvMount == ASSUME HookInv, Mount PROVE HookInv'
  BY DEF HookInv, Numbered, Awaited, ForPath, Gone, Mount

LEMMA InvStutter == ASSUME HookInv, UNCHANGED hookVars PROVE HookInv'
  BY DEF HookInv, Numbered, Awaited, ForPath, Gone, hookVars

LEMMA InvHookNext == ASSUME HookInv, HookNext PROVE HookInv'
  BY InvRunEffect, InvAnswer, InvFail, InvNavigate, InvRefetch, InvUnmount, InvMount DEF HookNext

(***************************************************************************)
(* A page whose loading has ended shows the answer for its path, or the    *)
(* failure of its last request, in whatever order requests are answered;   *)
(* it has neither data nor failure only if that answer had no data.        *)
(***************************************************************************)
THEOREM HookSettles == HookSpec => []SettledShowsPath
<1>1. HookInit => HookInv
  BY InvInit
<1>2. HookInv /\ [HookNext]_hookVars => HookInv'
  BY InvHookNext, InvStutter
<1>3. HookInv => SettledShowsPath
  BY InvSettles
<1>. QED BY <1>1, <1>2, <1>3, PTL DEF HookSpec

\* The request of the current effect is the newest that can still be shown.
LEMMA DataOnlyGrows ==
  ASSUME HookInv, [HookNext]_hookVars
  PROVE  mounted /\ mounted' => data' >= data
<1>1. data \in 0..active /\ active \in 0..sent /\ sent \in Nat
  BY UseApiAssumption DEF HookInv, Numbered
<1>2. ASSUME NEW n \in flying, Answer(n) PROVE data' >= data
  BY <1>1, <1>2 DEF Answer, Active
<1>3. ASSUME NEW n \in flying, Fail(n) PROVE data' >= data
  BY <1>1, <1>3 DEF Fail
<1>4. CASE RunEffect \/ Refetch \/ (\E p \in Path : Navigate(p)) \/ UNCHANGED hookVars
  BY <1>1, <1>4 DEF RunEffect, Refetch, Navigate, hookVars
<1>5. CASE Unmount \/ Mount
  BY <1>5 DEF Unmount, Mount
<1>. QED BY <1>2, <1>3, <1>4, <1>5 DEF HookNext

(***************************************************************************)
(* The answer on the page is never replaced by that of an earlier request. *)
(***************************************************************************)
THEOREM NewestAnswersWin == HookSpec => NewestAnswerWins
<1>1. HookInit => HookInv
  BY InvInit
<1>2. HookInv /\ [HookNext]_hookVars => HookInv'
  BY InvHookNext, InvStutter
<1>3. HookInv /\ [HookNext]_hookVars => [mounted /\ mounted' => data' >= data]_hookVars
  BY DataOnlyGrows
<1>. QED BY <1>1, <1>2, <1>3, PTL DEF HookSpec, NewestAnswerWins

-----------------------------------------------------------------------------
\* The page's own state: the address bar repeats it, and the hook has its query.
Repeats ==
  mounted => Location = Address(filters, offset) /\ path = Location

\* The history of a tab: each entry names filters and an offset.
IsAddress(l) == l = Address(l.filters, l.offset)

History ==
  /\ \E S : (\A l \in S : IsAddress(l)) /\ entries \in Seq(S)
  /\ at \in 1..Len(entries)

PageInv == HookInv /\ History /\ Repeats

LEMMA AddressIsAddress == ASSUME NEW f, NEW o PROVE IsAddress(Address(f, o))
  BY DEF IsAddress, Address

\* A push shows what it pushed, and cuts off the entries ahead.
LEMMA PushShows ==
  ASSUME History, NEW l, IsAddress(l), Push(l)
  PROVE  History' /\ Location' = l
<1>1. PICK S : (\A k \in S : IsAddress(k)) /\ entries \in Seq(S)
  BY DEF History
<1>. DEFINE T == S \cup {l}
            kept == SubSeq(entries, 1, at)
<1>2. at \in 1..Len(entries) /\ Len(entries) \in Nat
  BY <1>1, LenProperties DEF History
<1>3. entries \in Seq(T)
  <2>1. \A i \in 1..Len(entries) : entries[i] \in T
    BY <1>1, ElementOfSeq
  <2>. QED BY <1>1, <2>1, SeqDef, LenProperties
<1>4. kept \in Seq(T) /\ Len(kept) = at
  BY <1>2, <1>3, SubSeqProperties
<1>5. entries' = Append(kept, l) /\ at' = at + 1
  BY DEF Push
<1>6. /\ Append(kept, l) \in Seq(T) /\ Len(Append(kept, l)) = at + 1
      /\ Append(kept, l)[at + 1] = l
  BY <1>4, AppendProperties
<1>7. Location' = l
  BY <1>5, <1>6 DEF Location
<1>8. History'
  <2>1. \A k \in T : IsAddress(k)
    BY <1>1
  <2>2. entries' \in Seq(T) /\ at' \in 1..Len(entries')
    BY <1>2, <1>5, <1>6
  <2>. QED BY <2>1, <2>2 DEF History
<1>. QED BY <1>7, <1>8

LEMMA RendersQuery ==
  ASSUME HookInv, NEW query, Renders(query)
  PROVE  HookInv' /\ path' = query /\ mounted' = mounted
<1>1. CASE query = path
  BY <1>1, InvStutter DEF Renders, hookVars
<1>2. CASE query # path
  BY <1>2, InvNavigate DEF Renders, Navigate
<1>. QED BY <1>1, <1>2

LEMMA InvShows ==
  ASSUME PageInv, mounted, NEW f, NEW o, Shows(f, o, f)
  PROVE  PageInv'
<1>1. History' /\ Location' = Address(f, o)
  BY AddressIsAddress, PushShows DEF PageInv, Shows
<1>2. HookInv' /\ path' = Address(f, o)
  BY RendersQuery DEF PageInv, Shows
<1>. QED BY <1>1, <1>2 DEF PageInv, Repeats, Shows

LEMMA InvHookStep == ASSUME PageInv, HookStep PROVE PageInv'
<1>1. HookInv' /\ path' = path /\ mounted' = mounted
  <2>1. HookInv'
    BY InvRunEffect, InvRefetch, InvAnswer, InvFail DEF PageInv, HookStep
  <2>. QED BY <2>1 DEF HookStep, RunEffect, Refetch, Answer, Fail
<1>. QED BY <1>1 DEF PageInv, HookStep, pageVars, History, Repeats, Location

LEMMA InvLeave == ASSUME PageInv, Leave PROVE PageInv'
<1>1. HookInv' /\ ~ mounted'
  BY InvUnmount DEF PageInv, Leave, Unmount
<1>2. History'
  BY PushShows, AddressIsAddress DEF PageInv, Leave, OtherPage, Address
<1>. QED BY <1>1, <1>2 DEF PageInv, Repeats

LEMMA InvPopState == ASSUME PageInv, PopState PROVE PageInv'
<1>1. PICK i \in DOMAIN entries \ {at} :
        entries' = entries /\ (OnPopState(i) \/ PopAway(i) \/ PopBack(i))
  BY DEF PopState
<1>2. at' = i
  BY <1>1 DEF OnPopState, PopAway, PopBack
<1>3. History'
  <2>1. i \in 1..Len(entries)
    BY <1>1, LenProperties DEF PageInv, History
  <2>. QED BY <1>1, <1>2, <2>1 DEF PageInv, History
<1>4. IsAddress(Location')
  <2>1. PICK S : (\A l \in S : IsAddress(l)) /\ entries' \in Seq(S) /\ at' \in 1..Len(entries')
    BY <1>3 DEF History
  <2>2. entries'[at'] \in S
    BY <2>1, ElementOfSeq
  <2>. QED BY <2>1, <2>2 DEF Location
<1>5. CASE OnPopState(i)
  BY <1>3, <1>4, <1>5, RendersQuery
     DEF PageInv, Repeats, OnPopState, TakesLocation, IsAddress
<1>6. CASE PopAway(i)
  BY <1>3, <1>6, InvUnmount DEF PageInv, Repeats, PopAway, Unmount
<1>7. CASE PopBack(i)
  BY <1>3, <1>4, <1>7, InvMount DEF PageInv, Repeats, PopBack, TakesLocation, IsAddress
<1>. QED BY <1>1, <1>5, <1>6, <1>7

LEMMA InvPageNext == ASSUME PageInv, [PageNext]_<<hookVars, pageVars>> PROVE PageInv'
<1>1. ASSUME NEW text \in Text, Type(text) PROVE PageInv'
  BY <1>1, InvStutter DEF PageInv, Type, hookVars, History, Repeats, Location
<1>2. CASE Submit
  BY <1>2, InvShows DEF Submit, HasRows
<1>3. CASE Reset
  BY <1>3, InvShows DEF Reset, HasRows
<1>4. CASE PreviousPage
  BY <1>4, InvShows DEF PreviousPage, HasRows, ChangePage
<1>5. CASE NextPage
  BY <1>5, InvShows DEF NextPage, HasRows, ChangePage
<1>6. CASE UNCHANGED <<hookVars, pageVars>>
  BY <1>6, InvStutter DEF PageInv, hookVars, pageVars, History, Repeats, Location
<1>. QED BY <1>1, <1>2, <1>3, <1>4, <1>5, <1>6, InvLeave, InvPopState, InvHookStep DEF PageNext

(***************************************************************************)
(* The address bar always names the filters and the offset of the page and *)
(* the rows it shows once loading has ended, for any number of requests    *)
(* and of history entries: a copied link and every entry one goes back to  *)
(* show what was shown there.                                              *)
(***************************************************************************)
THEOREM LocationFollowed == PageSpec => []PageFollowsLocation
<1>1. PageInit => PageInv
  <2>1. ASSUME PageInit PROVE HookInv /\ path \in Path
    BY <2>1, InvInit DEF PageInit, HookInit
  <2>2. ASSUME PageInit PROVE IsAddress(path)
    BY <2>1, <2>2, ReversalPageAssumption DEF IsAddress, Address
  <2>3. ASSUME PageInit PROVE History
    <3>1. entries \in Seq({path}) /\ Len(entries) = 1
      BY <2>3 DEF PageInit
    <3>2. at \in 1..Len(entries)
      BY <2>3, <3>1 DEF PageInit
    <3>. QED BY <2>2, <2>3, <3>1, <3>2 DEF History
  <2>4. ASSUME PageInit PROVE Repeats
    BY <2>2, <2>4 DEF PageInit, Repeats, Location, IsAddress
  <2>. QED BY <2>1, <2>3, <2>4 DEF PageInv
<1>2. PageInv /\ [PageNext]_<<hookVars, pageVars>> => PageInv'
  BY InvPageNext
<1>3. PageInv => PageFollowsLocation
  BY InvSettles, UseApiAssumption
     DEF PageInv, HookInv, Repeats, PageFollowsLocation, SettledShowsPath
<1>. QED BY <1>1, <1>2, <1>3, PTL DEF PageSpec

-----------------------------------------------------------------------------
(***************************************************************************)
(* DatasetService.  What was checked once is what every request gets,      *)
(* because a load that succeeded is never repeated.                        *)
(***************************************************************************)
\* A dataset that was accepted passed the comparison with its metadata.
AcceptedAgrees ==
  memo = "resolved" =>
    \A f \in DataFiles :
      HasDigest(dataset[Metadata], f) =>
        TextOf(dataset, f) = Manifest[dataset[Metadata]][f].sha256

\* It is the only dataset that was ever handed out.
OnlyAccepted ==
  /\ DOMAIN answer = Clients /\ answer = [c \in Clients |-> answer[c]]
  /\ \A c \in Clients :
       answer[c] = NoDataset \/ (memo = "resolved" /\ answer[c] = dataset)

ServiceInv == AcceptedAgrees /\ OnlyAccepted

LEMMA InvIsOne == ASSUME ServiceInv PROVE DatasetIsOnePublication
<1>1. ASSUME NEW one \in Answers, NEW other \in Answers
      PROVE  /\ one = other /\ one = dataset
             /\ \A f \in DataFiles :
                  HasDigest(one[Metadata], f) => TextOf(one, f) = Manifest[one[Metadata]][f].sha256
  BY DEF ServiceInv, AcceptedAgrees, OnlyAccepted, Answers
<1>. QED BY <1>1 DEF DatasetIsOnePublication, Complete

LEMMA InvServiceInit == ASSUME ServiceInit PROVE ServiceInv
  BY DEF ServiceInit, ServiceInv, AcceptedAgrees, OnlyAccepted

\* A step that hands nothing out, before or after the one load that succeeds.
LEMMA InvKept ==
  ASSUME ServiceInv, UNCHANGED <<dataset, answer>>,
         memo' = memo \/ (memo # "resolved" /\ memo' # "resolved")
  PROVE  ServiceInv'
  BY DEF ServiceInv, AcceptedAgrees, OnlyAccepted

LEMMA InvRead ==
  ASSUME ServiceInv, NEW f \in Published, Publish(f) \/ ReadFile(f) \/ ReadError(f)
  PROVE  ServiceInv'
  BY InvKept DEF Publish, ReadFile, ReadError, FailLoad

LEMMA InvRequest == ASSUME ServiceInv, NEW c \in Clients, Request(c) PROVE ServiceInv'
  BY InvKept DEF Request, NeedsLoad

LEMMA InvReject == ASSUME ServiceInv, Reject PROVE ServiceInv'
  BY InvKept DEF Reject, AllRead, FailLoad

LEMMA InvAccept == ASSUME ServiceInv, Accept PROVE ServiceInv'
<1>1. AcceptedAgrees'
  BY DEF Accept, DigestAgrees, AcceptedAgrees, HasDigest, TextOf
<1>2. \A c \in Clients : answer[c] = NoDataset
  BY DEF ServiceInv, OnlyAccepted, Accept, AllRead
<1>3. OnlyAccepted'
  BY <1>2 DEF ServiceInv, OnlyAccepted, Accept
<1>. QED BY <1>1, <1>3 DEF ServiceInv

LEMMA InvRespond == ASSUME ServiceInv, NEW c \in Clients, Respond(c) PROVE ServiceInv'
<1>1. AcceptedAgrees'
  BY DEF ServiceInv, AcceptedAgrees, Respond
<1>2. OnlyAccepted'
  BY DEF ServiceInv, OnlyAccepted, Respond
<1>. QED BY <1>1, <1>2 DEF ServiceInv

(***************************************************************************)
(* Every answer of the service is from the same four files; a file whose   *)
(* digest the metadata gives is the text with that digest, and where the   *)
(* metadata of a publication gives all of them these are the texts of that *)
(* publication, however many clients ask and in whatever order the files   *)
(* are replaced.                                                           *)
(***************************************************************************)
THEOREM OnePublicationServed == ServiceSpec => []DatasetIsOnePublication
<1>1. ServiceInit => ServiceInv
  BY InvServiceInit
<1>2. ServiceInv /\ [ServiceNext]_serviceVars => ServiceInv'
  <2>1. CASE UNCHANGED serviceVars
    BY <2>1, InvKept DEF serviceVars
  <2>. QED
    BY <2>1, InvRead, InvRequest, InvRespond, InvAccept, InvReject DEF ServiceNext
<1>3. ServiceInv => DatasetIsOnePublication
  BY InvIsOne
<1>. QED BY <1>1, <1>2, <1>3, PTL DEF ServiceSpec

-----------------------------------------------------------------------------
\* The loader of the dataset.

\* What the five maps know: the rows before, each of them once, and nothing else.
Recalls ==
  /\ \A n \in 1..next - 1 :
       LET row == files.spends[n]
       IN  /\ row.origin \in DOMAIN spenderOf /\ spenderOf[row.origin] = Spender(row)
           /\ ChildInput(row) \in DOMAIN originOf /\ originOf[ChildInput(row)] = row.origin
           /\ row.by \in DOMAIN heightOf /\ heightOf[row.by] = row.height
           /\ ChildOutput(row) \in DOMAIN paidBy /\ paidBy[ChildOutput(row)] = Paid(row)
           /\ PathOf(row) \in paths
  /\ \A k \in DOMAIN spenderOf : \E n \in 1..next - 1 : files.spends[n].origin = k
  /\ \A k \in DOMAIN originOf : \E n \in 1..next - 1 : ChildInput(files.spends[n]) = k
  /\ \A k \in DOMAIN heightOf : \E n \in 1..next - 1 : files.spends[n].by = k
  /\ \A k \in DOMAIN paidBy : \E n \in 1..next - 1 : ChildOutput(files.spends[n]) = k
  /\ \A k \in paths : \E n \in 1..next - 1 : PathOf(files.spends[n]) = k

\* No path among them occurs twice, and each fits the transactions it meets.
CheckedRows ==
  /\ \A i, j \in 1..next - 1 : PathOf(files.spends[i]) = PathOf(files.spends[j]) => i = j
  /\ \A n \in 1..next - 1 : OriginSound(files.spends[n]) /\ ChildSound(files.spends[n])

Progress ==
  /\ Len(files.spends) \in Nat /\ DOMAIN files.spends = 1..Len(files.spends)
  /\ next \in 1..Len(files.spends) + 1
  /\ phase = "serving" => next = Len(files.spends) + 1

LoaderIInv ==
  /\ Progress /\ Recalls /\ CheckedRows
  /\ phase = "rejected" /\ (\A name \in DOMAIN files : Readable(name)) /\ SummariesSound =>
       ~ (PathsAgree /\ SpelledAlike /\ PathsFit)

\* What is known of a publication does not change while it is served.
LEMMA SameFiles ==
  ASSUME UNCHANGED files
  PROVE  /\ \A row : (OriginSound(row)' <=> OriginSound(row)) /\ (ChildSound(row)' <=> ChildSound(row))
         /\ \A name : Readable(name)' <=> Readable(name)
         /\ SummariesSound' <=> SummariesSound
         /\ PathsAgree' <=> PathsAgree
         /\ SpelledAlike' <=> SpelledAlike
         /\ PathsFit' <=> PathsFit
<1>1. \A row : (OriginSound(row)' <=> OriginSound(row)) /\ (ChildSound(row)' <=> ChildSound(row))
  BY DEF OriginSound, ChildSound, Confirmed, OutputsOf, InputsOf, Rows
<1>2. \A name : Readable(name)' <=> Readable(name)
  BY DEF Readable, Rows
<1>3. SummariesSound' <=> SummariesSound
  BY DEF SummariesSound, ConfirmedSound, Known, OutputsOf, InputsOf, Rows
<1>4. (PathsAgree' <=> PathsAgree) /\ (SpelledAlike' <=> SpelledAlike)
  BY DEF PathsAgree, SpelledAlike, Rows
<1>5. PathsFit' <=> PathsFit
  BY <1>1 DEF PathsFit, Rows
<1>. QED
  BY <1>1, <1>2, <1>3, <1>4, <1>5

LEMMA LoaderInitInvariant == LoaderInit => LoaderIInv
BY DatasetAssumption DEF LoaderInit, LoaderIInv, Progress, Recalls, CheckedRows, EmptyMap

\* Steps that check no row, and reject only what is not readable or not sound.
LEMMA LoaderQuiet ==
  ASSUME LoaderIInv, UNCHANGED <<files, checks>>,
         phase' = "serving" => next = Len(files.spends) + 1,
         phase' = "rejected" /\ phase # "rejected" =>
           ~ (\A name \in DOMAIN files : Readable(name)) \/ ~ SummariesSound
  PROVE  LoaderIInv'
<1>1. Progress' /\ Recalls'
  BY DEF LoaderIInv, Progress, Recalls, checks
<1>2. CheckedRows'
  BY SameFiles DEF LoaderIInv, CheckedRows, checks
<1>3. phase' = "rejected" /\ (\A name \in DOMAIN files : Readable(name)) /\ SummariesSound =>
        ~ (PathsAgree /\ SpelledAlike /\ PathsFit)
  BY DEF LoaderIInv
<1>. QED
  BY <1>1, <1>2, <1>3, SameFiles DEF LoaderIInv

\* A row that does not agree with the maps does not agree with a row before it.
LEMMA DisagreesWithOne ==
  ASSUME LoaderIInv, next <= Len(files.spends), ~ RowAgrees(files.spends[next])
  PROVE  ~ (PathsAgree /\ SpelledAlike)
<1>. DEFINE row == files.spends[next]
            earlier(n) == files.spends[n]
<1>1. SUFFICES ASSUME PathsAgree, SpelledAlike PROVE RowAgrees(row)
  OBVIOUS
<1>2. \A n \in 1..next - 1 : n \in DOMAIN files.spends /\ n # next
  BY DEF LoaderIInv, Progress
<1>3. next \in DOMAIN files.spends
  BY DEF LoaderIInv, Progress
<1>4. \A n \in 1..next - 1 :
        /\ earlier(n).origin = row.origin => Spender(earlier(n)) = Spender(row)
        /\ ChildInput(earlier(n)) = ChildInput(row) => earlier(n).origin = row.origin
        /\ earlier(n).by = row.by => earlier(n).height = row.height
        /\ ChildOutput(earlier(n)) = ChildOutput(row) => Paid(earlier(n)) = Paid(row)
        /\ PathOf(earlier(n)) # PathOf(row)
  BY <1>1, <1>2, <1>3 DEF PathsAgree, SpelledAlike, Rows, Paid
<1>. HIDE DEF row
<1>5. AgreesWith(spenderOf, row.origin, Spender(row))
  <2>1. SUFFICES ASSUME row.origin \in DOMAIN spenderOf PROVE spenderOf[row.origin] = Spender(row)
    BY DEF AgreesWith
  <2>2. PICK n \in 1..next - 1 : earlier(n).origin = row.origin
    BY <2>1 DEF LoaderIInv, Recalls
  <2>3. spenderOf[earlier(n).origin] = Spender(earlier(n))
    BY DEF LoaderIInv, Recalls
  <2>. QED
    BY <1>4, <2>2, <2>3
<1>6. AgreesWith(originOf, ChildInput(row), row.origin)
  BY <1>4 DEF LoaderIInv, Recalls, AgreesWith
<1>7. AgreesWith(heightOf, row.by, row.height)
  <2>1. SUFFICES ASSUME row.by \in DOMAIN heightOf PROVE heightOf[row.by] = row.height
    BY DEF AgreesWith
  <2>2. PICK n \in 1..next - 1 : earlier(n).by = row.by
    BY <2>1 DEF LoaderIInv, Recalls
  <2>3. heightOf[earlier(n).by] = earlier(n).height
    BY DEF LoaderIInv, Recalls
  <2>. QED
    BY <1>4, <2>2, <2>3
<1>8. AgreesWith(paidBy, ChildOutput(row), Paid(row))
  BY <1>4 DEF LoaderIInv, Recalls, AgreesWith
<1>9. PathOf(row) \notin paths
  BY <1>4 DEF LoaderIInv, Recalls
<1>. QED
  BY <1>5, <1>6, <1>7, <1>8, <1>9 DEF RowAgrees

\* A row that agrees is remembered.
LEMMA CheckedRow ==
  ASSUME LoaderIInv, phase = "spends", next <= Len(files.spends),
         OriginSound(files.spends[next]), RowAgrees(files.spends[next]),
         ChildSound(files.spends[next]),
         spenderOf' = Put(spenderOf, files.spends[next].origin, Spender(files.spends[next])),
         originOf' = Put(originOf, ChildInput(files.spends[next]), files.spends[next].origin),
         heightOf' = Put(heightOf, files.spends[next].by, files.spends[next].height),
         paidBy' = Put(paidBy, ChildOutput(files.spends[next]), Paid(files.spends[next])),
         paths' = paths \cup {PathOf(files.spends[next])},
         next' = next + 1, phase' = phase, files' = files
  PROVE  LoaderIInv'
<1>. DEFINE row == files.spends[next]
            earlier(n) == files.spends[n]
<1>1. /\ next \in 1..Len(files.spends) /\ Len(files.spends) \in Nat
      /\ DOMAIN files.spends = 1..Len(files.spends)
  BY DEF LoaderIInv, Progress
<1>2. \A n : n \in 1..next' - 1 <=> n \in 1..next - 1 \/ n = next
  BY <1>1
<1>3. Progress'
  BY <1>1 DEF Progress
<1>4. /\ AgreesWith(spenderOf, row.origin, Spender(row))
      /\ AgreesWith(originOf, ChildInput(row), row.origin)
      /\ AgreesWith(heightOf, row.by, row.height)
      /\ AgreesWith(paidBy, ChildOutput(row), Paid(row))
      /\ PathOf(row) \notin paths
  BY DEF RowAgrees
<1>a. /\ spenderOf' = Put(spenderOf, row.origin, Spender(row))
      /\ originOf' = Put(originOf, ChildInput(row), row.origin)
      /\ heightOf' = Put(heightOf, row.by, row.height)
      /\ paidBy' = Put(paidBy, ChildOutput(row), Paid(row))
  OBVIOUS
<1>. HIDE DEF row
<1>5. /\ DOMAIN spenderOf' = DOMAIN spenderOf \cup {row.origin}
      /\ spenderOf'[row.origin] = Spender(row)
      /\ \A k \in DOMAIN spenderOf : spenderOf'[k] = spenderOf[k]
  <2>. DEFINE key   == row.origin
              value == Spender(row)
  <2>1. spenderOf' = Put(spenderOf, key, value) /\ AgreesWith(spenderOf, key, value)
    BY <1>a, <1>4
  <2>. HIDE DEF key, value
  <2>2. /\ DOMAIN spenderOf' = DOMAIN spenderOf \cup {key}
        /\ spenderOf'[key] = value
        /\ \A k \in DOMAIN spenderOf : spenderOf'[k] = spenderOf[k]
    BY <2>1 DEF AgreesWith, Put
  <2>. QED
    BY <2>2 DEF key, value
<1>6. /\ DOMAIN originOf' = DOMAIN originOf \cup {ChildInput(row)}
      /\ originOf'[ChildInput(row)] = row.origin
      /\ \A k \in DOMAIN originOf : originOf'[k] = originOf[k]
  BY <1>a, <1>4 DEF AgreesWith, Put
<1>7. /\ DOMAIN heightOf' = DOMAIN heightOf \cup {row.by}
      /\ heightOf'[row.by] = row.height
      /\ \A k \in DOMAIN heightOf : heightOf'[k] = heightOf[k]
  BY <1>a, <1>4 DEF AgreesWith, Put
<1>8. /\ DOMAIN paidBy' = DOMAIN paidBy \cup {ChildOutput(row)}
      /\ paidBy'[ChildOutput(row)] = Paid(row)
      /\ \A k \in DOMAIN paidBy : paidBy'[k] = paidBy[k]
  BY <1>a, <1>4 DEF AgreesWith, Put
<1>9. paths' = paths \cup {PathOf(row)} /\ earlier(next) = row
  BY DEF row
<1>10. ASSUME NEW n \in 1..next - 1
       PROVE  /\ earlier(n).origin \in DOMAIN spenderOf'
              /\ spenderOf'[earlier(n).origin] = Spender(earlier(n))
              /\ ChildInput(earlier(n)) \in DOMAIN originOf'
              /\ originOf'[ChildInput(earlier(n))] = earlier(n).origin
              /\ earlier(n).by \in DOMAIN heightOf'
              /\ heightOf'[earlier(n).by] = earlier(n).height
              /\ ChildOutput(earlier(n)) \in DOMAIN paidBy'
              /\ paidBy'[ChildOutput(earlier(n))] = Paid(earlier(n))
              /\ PathOf(earlier(n)) \in paths'
  <2>1. /\ earlier(n).origin \in DOMAIN spenderOf
        /\ spenderOf[earlier(n).origin] = Spender(earlier(n))
        /\ ChildInput(earlier(n)) \in DOMAIN originOf
        /\ originOf[ChildInput(earlier(n))] = earlier(n).origin
        /\ earlier(n).by \in DOMAIN heightOf /\ heightOf[earlier(n).by] = earlier(n).height
        /\ ChildOutput(earlier(n)) \in DOMAIN paidBy
        /\ paidBy[ChildOutput(earlier(n))] = Paid(earlier(n))
        /\ PathOf(earlier(n)) \in paths
    BY DEF LoaderIInv, Recalls
  <2>. QED
    BY <1>5, <1>6, <1>7, <1>8, <1>9, <2>1
<1>11. Recalls'
  <2>1. \A n \in 1..next' - 1 :
          /\ earlier(n).origin \in DOMAIN spenderOf'
          /\ spenderOf'[earlier(n).origin] = Spender(earlier(n))
          /\ ChildInput(earlier(n)) \in DOMAIN originOf'
          /\ originOf'[ChildInput(earlier(n))] = earlier(n).origin
          /\ earlier(n).by \in DOMAIN heightOf' /\ heightOf'[earlier(n).by] = earlier(n).height
          /\ ChildOutput(earlier(n)) \in DOMAIN paidBy'
          /\ paidBy'[ChildOutput(earlier(n))] = Paid(earlier(n))
          /\ PathOf(earlier(n)) \in paths'
    BY <1>2, <1>5, <1>6, <1>7, <1>8, <1>9, <1>10
  <2>2. /\ \A k \in DOMAIN spenderOf' : \E n \in 1..next' - 1 : earlier(n).origin = k
        /\ \A k \in DOMAIN originOf' : \E n \in 1..next' - 1 : ChildInput(earlier(n)) = k
    BY <1>2, <1>5, <1>6, <1>9 DEF LoaderIInv, Recalls
  <2>3. /\ \A k \in DOMAIN heightOf' : \E n \in 1..next' - 1 : earlier(n).by = k
        /\ \A k \in DOMAIN paidBy' : \E n \in 1..next' - 1 : ChildOutput(earlier(n)) = k
        /\ \A k \in paths' : \E n \in 1..next' - 1 : PathOf(earlier(n)) = k
    BY <1>2, <1>7, <1>8, <1>9 DEF LoaderIInv, Recalls
  <2>. QED
    BY <2>1, <2>2, <2>3 DEF Recalls
<1>12. CheckedRows'
  <2>1. \A n \in 1..next - 1 : PathOf(earlier(n)) # PathOf(row)
    BY <1>4 DEF LoaderIInv, Recalls
  <2>2. \A i, j \in 1..next' - 1 : PathOf(earlier(i)) = PathOf(earlier(j)) => i = j
    BY <1>2, <1>9, <2>1 DEF LoaderIInv, CheckedRows
  <2>3. OriginSound(row) /\ ChildSound(row)
    BY DEF row
  <2>4. \A n \in 1..next' - 1 : OriginSound(earlier(n)) /\ ChildSound(earlier(n))
    BY <1>2, <1>9, <2>3 DEF LoaderIInv, CheckedRows
  <2>5. \A n \in 1..next' - 1 : OriginSound(earlier(n))' /\ ChildSound(earlier(n))'
    BY <2>4, SameFiles
  <2>. QED
    BY <2>2, <2>5 DEF CheckedRows
<1>. QED
  BY <1>3, <1>11, <1>12 DEF LoaderIInv

LEMMA CheckSpendStep == ASSUME LoaderIInv, CheckSpend PROVE LoaderIInv'
<1>. DEFINE row == files.spends[next]
<1>1. phase = "spends" /\ next <= Len(files.spends) /\ files' = files
  BY DEF CheckSpend
<1>2. CASE OriginSound(row) /\ RowAgrees(row) /\ ChildSound(row)
  BY <1>1, <1>2, CheckedRow DEF CheckSpend
<1>3. CASE ~ (OriginSound(row) /\ RowAgrees(row) /\ ChildSound(row))
  <2>1. phase' = "rejected" /\ UNCHANGED checks
    BY <1>3 DEF CheckSpend
  <2>2. row \in Rows(files.spends)
    BY <1>1 DEF LoaderIInv, Progress, Rows
  <2>3. ~ (PathsAgree /\ SpelledAlike /\ PathsFit)
    BY <1>1, <1>3, <2>2, DisagreesWithOne DEF PathsFit
  <2>4. Progress' /\ Recalls'
    BY <1>1, <2>1 DEF LoaderIInv, Progress, Recalls, checks
  <2>5. CheckedRows'
    BY <1>1, <2>1, SameFiles DEF LoaderIInv, CheckedRows, checks
  <2>. QED
    BY <1>1, <2>3, <2>4, <2>5, SameFiles DEF LoaderIInv
<1>. QED
  BY <1>2, <1>3

LEMMA LoaderStep == ASSUME LoaderIInv, [LoaderNext]_loaderVars PROVE LoaderIInv'
<1>1. CASE CheckSpend
  BY <1>1, CheckSpendStep
<1>2. CASE \/ Normalize \/ Summarize \/ Serve \/ SearchOn \/ UNCHANGED loaderVars
           \/ \E query \in Queries : Search(query)
  <2>1. UNCHANGED <<files, checks>>
    BY <1>2 DEF Normalize, Summarize, Serve, SearchOn, Search, loaderVars
  <2>2. phase' = "serving" => next = Len(files.spends) + 1
    BY <1>2
    DEF Normalize, Summarize, Serve, SearchOn, Search, loaderVars, LoaderIInv, Progress
  <2>3. phase' = "rejected" /\ phase # "rejected" =>
          ~ (\A name \in DOMAIN files : Readable(name)) \/ ~ SummariesSound
    BY <1>2 DEF Normalize, Summarize, Serve, SearchOn, Search, loaderVars
  <2>. QED
    BY <2>1, <2>2, <2>3, LoaderQuiet
<1>. QED
  BY <1>1, <1>2 DEF LoaderNext

(***************************************************************************)
(* A publication is served only if its paths are evidence, each pair of    *)
(* them and each with the inputs and outputs it meets; and one that is     *)
(* readable and whose summaries are sound is rejected only if they are     *)
(* not, or write one amount in two ways.  The loop of loadDataset looks at *)
(* each row once, with five maps, for any publications.                    *)
(***************************************************************************)
THEOREM EvidenceIsExact == LoaderSpec => []EvidenceIsChecked
<1>1. LoaderIInv /\ [LoaderNext]_loaderVars => LoaderIInv'
  BY LoaderStep
<1>2. LoaderIInv => EvidenceIsChecked
  <2>1. SUFFICES ASSUME LoaderIInv, phase = "serving"
                 PROVE  PathsAgree /\ SpelledAlike /\ PathsFit
    BY DEF EvidenceIsChecked, LoaderIInv
  <2>2. DOMAIN files.spends = 1..next - 1
    BY <2>1 DEF LoaderIInv, Progress
  <2>3. PathsFit
    BY <2>1, <2>2 DEF PathsFit, Rows, LoaderIInv, CheckedRows
  <2>4. ASSUME NEW i \in DOMAIN files.spends, NEW j \in DOMAIN files.spends
        PROVE  LET one == files.spends[i]
                   two == files.spends[j]
               IN  /\ one.origin = two.origin => Spender(one) = Spender(two)
                   /\ ChildInput(one) = ChildInput(two) => one.origin = two.origin
                   /\ one.by = two.by => one.height = two.height
                   /\ ChildOutput(one) = ChildOutput(two) => Paid(one) = Paid(two)
                   /\ PathOf(one) = PathOf(two) => i = j
    <3>. DEFINE one == files.spends[i]
                two == files.spends[j]
    <3>1. i \in 1..next - 1 /\ j \in 1..next - 1
      BY <2>2
    <3>2. /\ spenderOf[one.origin] = Spender(one) /\ spenderOf[two.origin] = Spender(two)
          /\ originOf[ChildInput(one)] = one.origin /\ originOf[ChildInput(two)] = two.origin
          /\ heightOf[one.by] = one.height /\ heightOf[two.by] = two.height
          /\ paidBy[ChildOutput(one)] = Paid(one) /\ paidBy[ChildOutput(two)] = Paid(two)
      BY <2>1, <3>1 DEF LoaderIInv, Recalls
    <3>3. PathOf(one) = PathOf(two) => i = j
      BY <2>1, <3>1 DEF LoaderIInv, CheckedRows
    <3>. HIDE DEF one, two
    <3>4. /\ one.origin = two.origin => Spender(one) = Spender(two)
          /\ ChildInput(one) = ChildInput(two) => one.origin = two.origin
          /\ one.by = two.by => one.height = two.height
          /\ ChildOutput(one) = ChildOutput(two) => Paid(one) = Paid(two)
      BY <3>2
    <3>. QED
      BY <3>3, <3>4 DEF one, two
  <2>5. PathsAgree
    BY <2>4 DEF PathsAgree, Paid
  <2>6. SpelledAlike
    <3>1. SUFFICES ASSUME NEW one \in Rows(files.spends), NEW two \in Rows(files.spends),
                          ChildOutput(one) = ChildOutput(two)
                   PROVE  one.spelling = two.spelling
      BY DEF SpelledAlike
    <3>2. PICK i, j \in DOMAIN files.spends : one = files.spends[i] /\ two = files.spends[j]
      BY DEF Rows
    <3>3. Paid(one) = Paid(two)
      BY <2>4, <3>1, <3>2
    <3>. QED BY <3>3 DEF Paid
  <2>. QED
    BY <2>3, <2>5, <2>6
<1>. QED
  BY LoaderInitInvariant, <1>1, <1>2, PTL DEF LoaderSpec

-----------------------------------------------------------------------------
\* A set of naturals has a least element.
LEMMA LeastOf ==
  ASSUME NEW T, T \subseteq Nat, T # {}
  PROVE  \E x \in T : \A y \in T : x <= y
<1>. DEFINE R == OpToRel(<, Nat)
<1>1. IsWellFoundedOn(R, Nat)
  BY NatLessThanWellFounded
<1>. HIDE DEF R
<1>2. PICK x \in T : \A y \in T : <<y, x>> \notin R
  BY <1>1, WFMin
<1>3. \A y \in T : ~ (y < x)
  BY <1>2 DEF R, OpToRel
<1>. HIDE <1>2
<1>. QED BY <1>3

\* The numbers in order.
Increasing(order, numbers) ==
  /\ order \in [1..Cardinality(numbers) -> numbers]
  /\ \A i, j \in 1..Cardinality(numbers) : i < j => order[i] < order[j]

\* Row numbers can be put in order, by induction on the highest of them: no n is
\* the first for which it fails.
LEMMA OrderExists ==
  ASSUME NEW n \in Nat, NEW numbers \in SUBSET (1..n)
  PROVE  \E order : Increasing(order, numbers)
<1>. DEFINE Ordered(m) == \A T \in SUBSET (1..m) : \E order : Increasing(order, T)
            fails      == {m \in Nat : ~ Ordered(m)}
<1>1. SUFFICES fails = {}
  OBVIOUS
<1>2. SUFFICES ASSUME fails # {} PROVE FALSE
  OBVIOUS
<1>3. PICK m \in fails : \A k \in fails : m <= k
  BY <1>2, LeastOf
<1>4. PICK T \in SUBSET (1..m) : ~ \E order : Increasing(order, T)
  BY <1>3
<1>5. m \in Nat /\ IsFiniteSet(T) /\ Cardinality(T) \in Nat
  <2>1. m \in Nat
    BY <1>3
  <2>2. IsFiniteSet(1..m)
    BY <2>1, FS_Interval
  <2>3. IsFiniteSet(T)
    BY <1>4, <2>2, FS_Subset
  <2>. QED BY <2>1, <2>3, FS_CardinalityType
<1>6. CASE m \notin T
  <2>1. CASE m = 0
    <3>. HIDE DEF Ordered, fails
    <3>0. 1..m = {}
      BY <2>1
    <3>1. T = {} /\ Cardinality({}) = 0
      BY <1>4, <3>0, FS_EmptySet
    <3>2. Increasing([i \in 1..0 |-> 0], T)
      BY <3>1 DEF Increasing
    <3>. QED BY <1>4, <3>2
  <2>2. CASE m # 0
    <3>1. m - 1 \in Nat /\ m - 1 \notin fails
      BY <1>3, <1>5, <2>2
    <3>2. T \in SUBSET (1 .. m - 1)
      BY <1>4, <1>5, <1>6
    <3>. QED BY <1>4, <3>1, <3>2
  <2>. QED BY <2>1, <2>2
<1>7. CASE m \in T
  <2>. DEFINE rest == T \ {m}
              c    == Cardinality(rest)
  <2>0. m \in 1..m
    BY <1>4, <1>7
  <2>1. m - 1 \in Nat /\ m - 1 \notin fails
    <3>1. m - 1 \in Nat /\ ~ (m <= m - 1)
      BY <1>5, <2>0
    <3>. HIDE DEF fails
    <3>. QED BY <1>3, <3>1
  <2>2. rest \in SUBSET (1 .. m - 1)
    BY <1>4, <1>5 DEF rest
  <2>3. PICK f : Increasing(f, rest)
    BY <2>1, <2>2
  <2>4. IsFiniteSet(rest) /\ c \in Nat /\ Cardinality(T) = c + 1
    <3>1. IsFiniteSet(rest)
      BY <1>5, FS_Subset
    <3>2. Cardinality(rest) = Cardinality(T) - 1
      BY <1>5, <1>7, FS_RemoveElement
    <3>. QED BY <1>5, <3>1, <3>2, FS_CardinalityType
  <2>. DEFINE g == [i \in 1 .. c + 1 |-> IF i = c + 1 THEN m ELSE f[i]]
  <2>5. \A i \in 1..c : f[i] \in rest /\ f[i] \in T /\ f[i] < m
    <3>1. f \in [1..c -> rest]
      BY <2>3 DEF Increasing
    <3>2. \A x \in rest : x \in T /\ x < m
      BY <1>5, <2>2
    <3>. HIDE DEF rest, c
    <3>. QED BY <3>1, <3>2
  <2>6. \A i, j \in 1..c : i < j => f[i] < f[j]
    BY <2>3 DEF Increasing
  <2>. HIDE DEF c
  <2>7. g \in [1..Cardinality(T) -> T]
    BY <1>7, <2>4, <2>5
  <2>8. \A i, j \in 1 .. c + 1 : i < j => g[i] < g[j]
    BY <2>4, <2>5, <2>6
  <2>9. Increasing(g, T)
    BY <2>4, <2>7, <2>8 DEF Increasing
  <2>. QED BY <1>4, <2>9
<1>. QED BY <1>6, <1>7

\* The order of filterDataset is one.
LEMMA InOrderOrders ==
  ASSUME NEW n \in Nat, NEW numbers \in SUBSET (1..n)
  PROVE  Increasing(InOrder(numbers), numbers) /\ Cardinality(numbers) \in Nat
<1>1. Increasing(InOrder(numbers), numbers)
  <2>1. \E order : Increasing(order, numbers)
    BY OrderExists
  <2>2. \E order \in [1..Cardinality(numbers) -> numbers] :
          \A i, j \in 1..Cardinality(numbers) : i < j => order[i] < order[j]
    BY <2>1 DEF Increasing
  <2>. QED BY <2>2 DEF InOrder, Increasing
<1>2. IsFiniteSet(numbers)
  <2>1. IsFiniteSet(1..n)
    BY FS_Interval
  <2>. QED BY <2>1, FS_Subset
<1>. QED BY <1>1, <1>2, FS_CardinalityType

-----------------------------------------------------------------------------
\* The summaries are a sequence.
Summaries ==
  Len(files.summaries) \in Nat /\ DOMAIN files.summaries = 1..Len(files.summaries)

\* The search finds rows that match, as a sequence.
LEMMA FilterFinds ==
  ASSUME Summaries, NEW query
  PROVE  /\ filterDataset(query) \in Seq(Rows(files.summaries))
         /\ \A n \in DOMAIN filterDataset(query) :
              /\ filterDataset(query)[n] \in Rows(files.summaries)
              /\ rowMatches(filterDataset(query)[n], query)
<1>. DEFINE matching == {n \in DOMAIN files.summaries : rowMatches(files.summaries[n], query)}
<1>1. matching \in SUBSET (1..Len(files.summaries)) /\ Len(files.summaries) \in Nat
  BY DEF Summaries
<1>2. Increasing(InOrder(matching), matching) /\ Cardinality(matching) \in Nat
  BY <1>1, InOrderOrders
<1>3. \A k \in 1..Cardinality(matching) : InOrder(matching)[k] \in matching
  BY <1>2 DEF Increasing
<1>4. filterDataset(query) = [k \in 1..Cardinality(matching) |-> files.summaries[InOrder(matching)[k]]]
  BY DEF filterDataset
<1>5. \A k \in 1..Cardinality(matching) :
        /\ files.summaries[InOrder(matching)[k]] \in Rows(files.summaries)
        /\ rowMatches(files.summaries[InOrder(matching)[k]], query)
  BY <1>3 DEF Rows
<1>. HIDE DEF matching
<1>6. filterDataset(query) \in Seq(Rows(files.summaries))
  BY <1>2, <1>4, <1>5
<1>. QED BY <1>4, <1>5, <1>6

\* An order of numbers leaves none out.
LEMMA OrderIsComplete ==
  ASSUME NEW numbers, IsFiniteSet(numbers), NEW order, Increasing(order, numbers),
         numbers \subseteq Nat, NEW x \in numbers
  PROVE  \E k \in 1..Cardinality(numbers) : order[k] = x
<1>. DEFINE c    == Cardinality(numbers)
            rest == numbers \ {x}
<1>1. SUFFICES ASSUME \A k \in 1..c : order[k] # x PROVE FALSE
  OBVIOUS
<1>2. c \in Nat /\ IsFiniteSet(rest) /\ Cardinality(rest) = c - 1
  BY FS_CardinalityType, FS_RemoveElement
<1>3. IsFiniteSet(1..c) /\ Cardinality(1..c) = c
  <2>. HIDE DEF c
  <2>1. IsFiniteSet(1..c) /\ Cardinality(1..c) = IF 1 > c THEN 0 ELSE c - 1 + 1
    BY <1>2, FS_Interval
  <2>. QED BY <1>2, <2>1
<1>4. order \in [1..c -> rest]
  BY <1>1 DEF Increasing
<1>5. \A i, j \in 1..c : i # j => order[i] # order[j]
  <2>1. \A i, j \in 1..c : i < j => order[i] < order[j]
    BY DEF Increasing
  <2>2. \A i \in 1..c : order[i] \in Nat
    BY <1>4
  <2>. HIDE DEF c
  <2>. QED BY <1>2, <2>1, <2>2
<1>6. \E i, j \in 1..c : i # j /\ order[i] = order[j]
  <2>. DEFINE S == 1..c
  <2>1. IsFiniteSet(S) /\ IsFiniteSet(rest) /\ Cardinality(rest) < Cardinality(S)
    BY <1>2, <1>3
  <2>2. order \in [S -> rest]
    BY <1>4
  <2>. HIDE DEF S, rest
  <2>3. \E i, j \in S : i # j /\ order[i] = order[j]
    BY <2>1, <2>2, FS_PigeonHole
  <2>. QED BY <2>3 DEF S
<1>. QED BY <1>5, <1>6

\* It finds all of them.
LEMMA FilterFindsAll ==
  ASSUME Summaries, NEW query, NEW summary \in Rows(files.summaries), rowMatches(summary, query)
  PROVE  \E k \in DOMAIN filterDataset(query) : filterDataset(query)[k] = summary
<1>. DEFINE matching == {n \in DOMAIN files.summaries : rowMatches(files.summaries[n], query)}
<1>1. PICK n \in DOMAIN files.summaries : files.summaries[n] = summary
  BY DEF Rows
<1>2. n \in matching /\ matching \in SUBSET (1..Len(files.summaries)) /\ Len(files.summaries) \in Nat
  BY <1>1 DEF Summaries
<1>3. Increasing(InOrder(matching), matching)
  BY <1>2, InOrderOrders
<1>4. IsFiniteSet(matching) /\ matching \subseteq Nat
  <2>. DEFINE length  == Len(files.summaries)
              numbers == 1..length
  <2>0. length \in Nat /\ matching \subseteq numbers
    BY <1>2
  <2>. HIDE DEF length, matching
  <2>1. IsFiniteSet(numbers) /\ numbers \subseteq Nat
    BY <2>0, FS_Interval
  <2>. HIDE DEF numbers
  <2>2. matching \subseteq numbers
    BY <2>0
  <2>. QED BY <2>1, <2>2, FS_Subset
<1>5. filterDataset(query) = [k \in 1..Cardinality(matching) |-> files.summaries[InOrder(matching)[k]]]
  BY DEF filterDataset
<1>. HIDE DEF matching
<1>6. PICK k \in 1..Cardinality(matching) : InOrder(matching)[k] = n
  BY <1>2, <1>3, <1>4, OrderIsComplete
<1>. QED BY <1>1, <1>5, <1>6

-----------------------------------------------------------------------------
LEMMA LimitIsPositive ==
  ASSUME NEW query \in Queries
  PROVE  LimitOf(query) \in Nat \ {0}
<1>1. query.limit \in Int \cup {Empty}
  BY DatasetAssumption
<1>2. ASSUME NEW k \in Int PROVE Max({1, k}) \in Nat \ {0}
  <2>1. \E x \in {1, k} : \A y \in {1, k} : x >= y
    BY <1>2
  <2>2. Max({1, k}) \in {1, k} /\ \A y \in {1, k} : Max({1, k}) >= y
    BY <2>1 DEF Max
  <2>. QED BY <1>2, <2>2
<1>3. ASSUME NEW k \in Nat \ {0} PROVE Min({MaxLimit, k}) \in Nat \ {0}
  <2>1. \E x \in {500, k} : \A y \in {500, k} : x <= y
    BY <1>3
  <2>2. Min({500, k}) \in {500, k}
    BY <2>1 DEF Min
  <2>. QED BY <1>3, <2>2 DEF MaxLimit
<1>4. ASSUME query.limit \in Int
      PROVE  Min({MaxLimit, Max({1, query.limit})}) \in Nat \ {0}
  BY <1>2, <1>3, <1>4
<1>. QED BY <1>1, <1>4 DEF LimitOf, Given

LEMMA MinOfTwo ==
  ASSUME NEW i \in Int, NEW j \in Int
  PROVE  Min({i, j}) = IF i <= j THEN i ELSE j
<1>1. \E x \in {i, j} : \A y \in {i, j} : x <= y
  OBVIOUS
<1>2. Min({i, j}) \in {i, j} /\ \A y \in {i, j} : Min({i, j}) <= y
  BY <1>1 DEF Min
<1>. QED BY <1>2

\* The download lists what the search finds, each with its explanation.
LEMMA DownloadIs ==
  ASSUME Summaries, NEW query
  PROVE  /\ download(query) \in Seq({enrichSummary(row, query) : row \in Rows(files.summaries)})
         /\ Len(download(query)) = Len(filterDataset(query)) /\ Len(filterDataset(query)) \in Nat
         /\ \A n \in 1..Len(filterDataset(query)) :
              download(query)[n] = enrichSummary(filterDataset(query)[n], query)
<1>. DEFINE found == filterDataset(query)
            answers == {enrichSummary(row, query) : row \in Rows(files.summaries)}
<1>1. found \in Seq(Rows(files.summaries))
  BY FilterFinds
<1>2. Len(found) \in Nat /\ DOMAIN found = 1..Len(found)
  BY <1>1, LenProperties
<1>3. \A n \in 1..Len(found) : found[n] \in Rows(files.summaries)
  BY <1>2, FilterFinds
<1>4. download(query) = [n \in 1..Len(found) |-> enrichSummary(found[n], query)]
  BY <1>2 DEF download, Enriched
<1>5. \A n \in 1..Len(found) : enrichSummary(found[n], query) \in answers
  BY <1>3
<1>. HIDE DEF found, answers
<1>6. download(query) \in [1..Len(found) -> answers]
  BY <1>4, <1>5
<1>7. download(query) \in Seq(answers) /\ Len(download(query)) = Len(found)
  BY <1>2, <1>6
<1>. QED BY <1>2, <1>4, <1>7 DEF found, answers

\* A stretch of a sequence, element by element.
LEMMA Stretch ==
  ASSUME NEW S, NEW s \in Seq(S), NEW a \in Nat, NEW b \in a..Len(s)
  PROVE  /\ SubSeq(s, a + 1, b) \in Seq(S)
         /\ DOMAIN SubSeq(s, a + 1, b) = 1 .. b - a
         /\ \A i \in 1 .. b - a : SubSeq(s, a + 1, b)[i] = s[a + i]
<1>1. b \in Int /\ a + 1 \in Int /\ Len(s) \in Nat
  BY LenProperties
<1>2. \A i \in a + 1..b : s[i] \in S
  <2>1. \A i \in a + 1..b : i \in 1..Len(s)
    BY <1>1
  <2>. QED BY <2>1, LenProperties
<1>. DEFINE m == a + 1
            t == SubSeq(s, m, b)
<1>3. m \in Int /\ \A i \in m..b : s[i] \in S
  BY <1>1, <1>2
<1>. HIDE DEF m
<1>4. /\ t \in Seq(S) /\ Len(t) = IF m <= b THEN b - m + 1 ELSE 0
      /\ \A i \in 1 .. b - m + 1 : t[i] = s[m + i - 1]
  BY <1>1, <1>3, SubSeqProperties
<1>5. DOMAIN t = 1..Len(t)
  BY <1>4, LenProperties
<1>. HIDE DEF t
<1>6. Len(t) = b - a /\ b - m + 1 = b - a
  BY <1>1, <1>4 DEF m
<1>7. \A i \in 1 .. b - a : t[i] = s[a + i]
  <2>1. \A i \in 1 .. b - a : m + i - 1 = a + i
    BY <1>1 DEF m
  <2>. QED BY <1>4, <1>6, <2>1
<1>. QED BY <1>4, <1>5, <1>6, <1>7 DEF t, m

\* A page is a stretch of the download.
LEMMA PageIs ==
  ASSUME Summaries, NEW query \in Queries, NEW start \in Nat,
         start < Len(download(query)) \/ start = 0,
         NEW last, last = Min({start + LimitOf(query), Len(download(query))})
  PROVE  /\ last \in start..Len(download(query))
         /\ Page(query, start).items = SubSeq(download(query), start + 1, last)
         /\ Page(query, start).more = (last < Len(download(query)))
<1>. DEFINE found == filterDataset(query)
            all   == download(query)
            items == Enriched(SubSeq(found, start + 1, last), query)
            answers == {enrichSummary(row, query) : row \in Rows(files.summaries)}
<1>1. /\ all \in Seq(answers) /\ Len(all) = Len(found) /\ Len(found) \in Nat
      /\ \A n \in 1..Len(found) : all[n] = enrichSummary(found[n], query)
  BY DownloadIs
<1>2. found \in Seq(Rows(files.summaries))
  BY FilterFinds
<1>3. LimitOf(query) \in Nat \ {0}
  BY LimitIsPositive
<1>4. last = IF start + LimitOf(query) <= Len(all) THEN start + LimitOf(query) ELSE Len(all)
  BY <1>1, <1>3, MinOfTwo
<1>5. last \in start..Len(all)
  BY <1>1, <1>3, <1>4
<1>6. Page(query, start).items = items /\ Page(query, start).more = (last < Len(all))
  BY <1>1 DEF Page
<1>. DEFINE k == last - start
<1>7. last \in start..Len(found)
  BY <1>1, <1>5
<1>9. /\ DOMAIN SubSeq(found, start + 1, last) = 1..k
      /\ \A i \in 1..k : SubSeq(found, start + 1, last)[i] = found[start + i]
  <2>. DEFINE rows == Rows(files.summaries)
  <2>1. found \in Seq(rows)
    BY <1>2
  <2>. HIDE DEF found, rows, items, all, answers
  <2>2. DOMAIN SubSeq(found, start + 1, last) = 1 .. last - start
    BY <2>1, <1>7, Stretch
  <2>3. \A i \in 1 .. last - start : SubSeq(found, start + 1, last)[i] = found[start + i]
    BY <2>1, <1>7, Stretch
  <2>. QED BY <2>2, <2>3
<1>10. SubSeq(all, start + 1, last) = [i \in 1..k |-> all[start + i]]
  <2>1. all \in Seq(answers) /\ last \in start..Len(all)
    BY <1>1, <1>5
  <2>. HIDE DEF all, answers, found, items
  <2>. DEFINE page == SubSeq(all, start + 1, last)
  <2>2. page \in Seq(answers) /\ DOMAIN page = 1 .. last - start
    BY <2>1, Stretch
  <2>3. \A i \in 1 .. last - start : page[i] = all[start + i]
    BY <2>1, Stretch
  <2>. HIDE DEF page
  <2>4. page = [i \in 1 .. last - start |-> page[i]]
    BY <2>2, LenProperties
  <2>. QED BY <2>3, <2>4 DEF page
<1>11. \A i \in 1..k : start + i \in 1..Len(found)
  BY <1>1, <1>5
<1>12. items = [i \in 1..k |-> enrichSummary(found[start + i], query)]
  <2>2. items = [i \in 1..k |-> enrichSummary(SubSeq(found, start + 1, last)[i], query)]
    BY <1>9 DEF Enriched
  <2>. HIDE DEF items, found, k
  <2>. QED BY <1>9, <2>2
<1>13. SubSeq(all, start + 1, last) = [i \in 1..k |-> enrichSummary(found[start + i], query)]
  <2>1. \A i \in 1..k : all[start + i] = enrichSummary(found[start + i], query)
    BY <1>1, <1>11
  <2>. HIDE DEF all, answers, found, k
  <2>. QED BY <1>10, <2>1
<1>. QED BY <1>5, <1>6, <1>12, <1>13

\* A client that has come as far as an offset.
WalkAt(query, start) ==
  [query |-> query, offset |-> start,
   shown |-> SubSeq(download(query), 1, Min({start, Len(download(query))})),
   more  |-> start < Len(download(query))]

\* A client is not on a walk, or on one over a publication that is served.
Walk ==
  \/ \E query : walk = [NoWalk EXCEPT !.query = query]
  \/ phase = "serving" /\ \E query \in Queries : \E start \in Nat \ {0} : walk = WalkAt(query, start)

SearchInv ==
  /\ LoaderIInv /\ Summaries /\ Walk
  /\ phase \in {"spends", "serving"} => SummariesSound

\* What is answered does not change while a publication is served.
LEMMA SameAnswers ==
  ASSUME UNCHANGED files
  PROVE  \A query : download(query)' = download(query)
<1>1. \A query, row : /\ rowMatches(row, query)' <=> rowMatches(row, query)
                      /\ enrichSummary(row, query)' = enrichSummary(row, query)
  BY DEF rowMatches, hasDestination, hasOnwardDestination, enrichSummary, OnwardOf, SpendsOf,
         OutputsOf, InputsOf, Rows
<1>2. \A query : filterDataset(query)' = filterDataset(query)
  BY <1>1 DEF filterDataset
<1>. QED BY <1>1, <1>2 DEF download, Enriched

\* The first page opens a walk and the next one continues it.
LEMMA PageOpens ==
  ASSUME Summaries, NEW query \in Queries
  PROVE  LET page == Page(query, 0)
         IN  [query |-> query, offset |-> LimitOf(query), shown |-> page.items, more |-> page.more]
               = WalkAt(query, LimitOf(query))
<1>. DEFINE all   == download(query)
            limit == LimitOf(query)
            last  == Min({0 + limit, Len(all)})
<1>1. limit \in Nat \ {0} /\ Len(all) \in Nat
  BY LimitIsPositive, DownloadIs
<1>2. 0 + limit = limit
  BY <1>1
<1>3. /\ Page(query, 0).items = SubSeq(all, 0 + 1, last)
      /\ Page(query, 0).more = (last < Len(all))
  BY PageIs
<1>4. last = (IF limit <= Len(all) THEN limit ELSE Len(all)) /\ last = Min({limit, Len(all)})
  BY <1>1, <1>2, MinOfTwo
<1>. HIDE DEF all, limit, last
<1>5. (last < Len(all)) = (limit < Len(all))
  BY <1>1, <1>4
<1>6. /\ Page(query, 0).items = SubSeq(all, 1, last)
      /\ Page(query, 0).more = (limit < Len(all))
  BY <1>3, <1>5
<1>7. WalkAt(query, limit) = [query |-> query, offset |-> limit, shown |-> SubSeq(all, 1, last),
                              more |-> limit < Len(all)]
  BY <1>4 DEF WalkAt, all
<1>. QED BY <1>6, <1>7 DEF limit

LEMMA PageContinues ==
  ASSUME Summaries, NEW query \in Queries, NEW start \in Nat \ {0}, start < Len(download(query))
  PROVE  LET page == Page(query, start)
         IN  [WalkAt(query, start) EXCEPT !.offset = @ + LimitOf(query),
                                          !.shown = @ \o page.items, !.more = page.more]
               = WalkAt(query, start + LimitOf(query))
<1>. DEFINE all   == download(query)
            next1 == start + LimitOf(query)
            last  == Min({next1, Len(all)})
            answers == {enrichSummary(row, query) : row \in Rows(files.summaries)}
<1>1. LimitOf(query) \in Nat \ {0} /\ Len(all) \in Nat /\ all \in Seq(answers)
  BY LimitIsPositive, DownloadIs
<1>2. /\ last \in start..Len(all)
      /\ Page(query, start).items = SubSeq(all, start + 1, last)
      /\ Page(query, start).more = (last < Len(all))
  BY PageIs
<1>3. last = (IF next1 <= Len(all) THEN next1 ELSE Len(all))
  BY <1>1, MinOfTwo
<1>4. Min({start, Len(all)}) = start
  BY <1>1, MinOfTwo
<1>. HIDE DEF all, last, answers
<1>5. SubSeq(all, 1, start) \o SubSeq(all, start + 1, last) = SubSeq(all, 1, last)
  <2>1. /\ 1 \in 1 .. Len(all) + 1 /\ start \in 1 - 1 .. Len(all) /\ last \in start..Len(all)
    BY <1>1, <1>2 DEF all
  <2>. QED BY <1>1, <2>1, ConcatAdjacentSubSeq
<1>6. (last < Len(all)) = (next1 < Len(all))
  BY <1>1, <1>3
<1>7. WalkAt(query, start) = [query |-> query, offset |-> start, shown |-> SubSeq(all, 1, start),
                              more |-> start < Len(all)]
  BY <1>4 DEF WalkAt, all
<1>8. WalkAt(query, next1) = [query |-> query, offset |-> next1, shown |-> SubSeq(all, 1, last),
                              more |-> next1 < Len(all)]
  BY DEF WalkAt, all, last
<1>. DEFINE sofar == SubSeq(all, 1, start)
            page   == SubSeq(all, start + 1, last)
<1>9. [WalkAt(query, start) EXCEPT !.offset = @ + LimitOf(query), !.shown = @ \o page,
                                   !.more = (last < Len(all))]
        = WalkAt(query, next1)
  <2>. DEFINE old == WalkAt(query, start)
  <2>1. PICK before : before = (start < Len(all))
    OBVIOUS
  <2>2. PICK after : after = (last < Len(all))
    OBVIOUS
  <2>3. old = [query |-> query, offset |-> start, shown |-> sofar, more |-> before]
    BY <1>7, <2>1
  <2>4. WalkAt(query, next1) = [query |-> query, offset |-> next1, shown |-> SubSeq(all, 1, last),
                                more |-> after]
    BY <1>6, <1>8, <2>2
  <2>5. sofar \o page = SubSeq(all, 1, last)
    BY <1>5
  <2>. HIDE DEF old, page, sofar
  <2>6. old.offset = start /\ old.shown = sofar
    BY <2>3
  <2>7. [old EXCEPT !.offset = next1, !.shown = sofar \o page, !.more = after]
          = [query |-> query, offset |-> next1, shown |-> sofar \o page, more |-> after]
    <3>. DEFINE joined == sofar \o page
    <3>. HIDE DEF joined, next1, all
    <3>. DEFINE new == [old EXCEPT !.offset = next1, !.shown = joined, !.more = after]
    <3>1. /\ new.offset = next1 /\ new.shown = joined /\ new.more = after /\ new.query = query
          /\ DOMAIN new = {"query", "offset", "shown", "more"}
      BY <2>3
    <3>2. new = [field \in DOMAIN new |-> new[field]]
      OBVIOUS
    <3>. HIDE DEF new
    <3>3. new = [query |-> new.query, offset |-> new.offset, shown |-> new.shown, more |-> new.more]
      BY <3>1, <3>2
    <3>. QED BY <3>1, <3>3 DEF joined, new
  <2>8. [old EXCEPT !.offset = old.offset + LimitOf(query), !.shown = old.shown \o page,
                    !.more = after]
          = [query |-> query, offset |-> next1, shown |-> sofar \o page, more |-> after]
    BY <2>6, <2>7
  <2>. QED BY <2>2, <2>4, <2>5, <2>8 DEF old
<1>. QED BY <1>2, <1>9

LEMMA InvSearch ==
  ASSUME SearchInv, NEW query \in Queries, Search(query)
  PROVE  Walk'
<1>1. phase = "serving" /\ phase' = phase /\ UNCHANGED files /\ Summaries
  BY DEF Search, SearchInv
<1>2. CASE QueryAccepted(query)
  <2>1. walk' = WalkAt(query, LimitOf(query))
    BY <1>1, <1>2, PageOpens DEF Search
  <2>2. WalkAt(query, LimitOf(query))' = WalkAt(query, LimitOf(query))
    BY <1>1, SameAnswers DEF WalkAt, LimitOf
  <2>3. LimitOf(query) \in Nat \ {0}
    BY LimitIsPositive
  <2>4. PICK start \in Nat \ {0} : start = LimitOf(query)
    BY <2>3
  <2>5. walk' = WalkAt(query, start)'
    BY <1>1, <2>1, <2>4, SameAnswers DEF WalkAt
  <2>. QED BY <1>1, <2>5 DEF Walk
<1>3. CASE ~ QueryAccepted(query)
  BY <1>3 DEF Search, Walk, NoWalk
<1>. QED BY <1>2, <1>3

LEMMA InvSearchOn ==
  ASSUME SearchInv, SearchOn
  PROVE  Walk'
<1>1. walk.more /\ phase' = phase /\ UNCHANGED files /\ Summaries
  BY DEF SearchOn, SearchInv
<1>2. PICK query \in Queries, start \in Nat \ {0} : walk = WalkAt(query, start)
  <2>1. ASSUME NEW query, walk = [NoWalk EXCEPT !.query = query] PROVE FALSE
    BY <1>1, <2>1 DEF NoWalk
  <2>. QED BY <2>1 DEF SearchInv, Walk
<1>3. walk.query = query /\ walk.offset = start /\ start < Len(download(query)) /\ phase = "serving"
  <2>1. walk.query = query /\ walk.offset = start /\ start < Len(download(query))
    BY <1>1, <1>2 DEF WalkAt
  <2>2. ASSUME NEW q, walk = [NoWalk EXCEPT !.query = q] PROVE FALSE
    BY <1>1, <2>2 DEF NoWalk
  <2>. QED BY <2>1, <2>2 DEF SearchInv, Walk
<1>4. PICK further \in Nat \ {0} : further = start + LimitOf(query)
  BY LimitIsPositive
<1>5. walk' = WalkAt(query, further)
  <2>1. walk' = [walk EXCEPT !.offset = @ + LimitOf(walk.query),
                             !.shown = @ \o Page(walk.query, walk.offset).items,
                             !.more = Page(walk.query, walk.offset).more]
    BY DEF SearchOn
  <2>2. walk' = [WalkAt(query, start) EXCEPT !.offset = @ + LimitOf(query),
                             !.shown = @ \o Page(query, start).items,
                             !.more = Page(query, start).more]
    BY <1>2, <1>3, <2>1
  <2>. QED BY <1>1, <1>3, <1>4, <2>2, PageContinues
<1>6. walk' = WalkAt(query, further)'
  BY <1>1, <1>5, SameAnswers DEF WalkAt
<1>. QED BY <1>1, <1>3, <1>6 DEF Walk

\* A row matches if and only if what is shown of it explains why.
LEMMA MatchIsExplained ==
  ASSUME NEW summary, NEW query
  PROVE  Explained(enrichSummary(summary, query), query) <=> rowMatches(summary, query)
<1>. DEFINE row       == enrichSummary(summary, query)
            canonical == summary.status = "CONFIRMED"
<1>1. /\ row.txid = summary.txid /\ row.status = summary.status /\ row.reason = summary.reason
      /\ row.addresses = summary.addresses
  BY DEF enrichSummary
<1>2. ASSUME Given(query.from)
      PROVE  query.from \in row.inputAddresses <=>
               canonical /\ \E input \in InputsOf(summary.txid) : input.address = query.from
  BY <1>2 DEF enrichSummary, Addresses, Given
<1>3. ASSUME Given(query.to), canonical
      PROVE  row.matched # {} <=> hasDestination(summary, query)
  BY <1>3 DEF enrichSummary, hasDestination
<1>4. ASSUME ~ canonical
      PROVE  Contains(row.addresses, query.to) <=> hasDestination(summary, query)
  BY <1>1, <1>4 DEF hasDestination
<1>5. ASSUME Given(query.onward)
      PROVE  row.onward # {} <=> canonical /\ hasOnwardDestination(summary, query)
  BY <1>5 DEF enrichSummary, hasOnwardDestination, OnwardOf
<1>. HIDE DEF row
<1>6. Explained(row, query) <=> rowMatches(summary, query)
  BY <1>1, <1>2, <1>3, <1>4, <1>5 DEF Explained, rowMatches
<1>. QED BY <1>6 DEF row

\* The onward total of a row counts each output of a child once.
LEMMA OnwardCountsOnce ==
  ASSUME PathsAgree, NEW summary \in Rows(files.summaries), NEW query,
         rowMatches(summary, query), NEW row, row = enrichSummary(summary, query),
         Given(query.onward)
  PROVE  row.onwardRvn =
           SumOfValues({<<child, ValueOf(child)>> : child \in ChildOutputsTo(row, query)})
<1>. DEFINE onward == OnwardOf(summary, query)
<1>1. row.txid = summary.txid
  BY DEF enrichSummary
<1>2. summary.status = "CONFIRMED"
  BY DEF rowMatches
<1>3. OnwardOf(row, query) = onward
  BY <1>1 DEF OnwardOf
<1>4. row.onwardRvn = uniqueOnwardOutputTotal(onward)
  BY <1>2 DEF enrichSummary
<1>5. ASSUME NEW spend \in onward PROVE ValueOf(ChildOutput(spend)) = spend.value
  <2>1. spend \in Rows(files.spends)
    BY DEF OnwardOf, SpendsOf
  <2>. DEFINE other == CHOOSE r \in Rows(files.spends) : ChildOutput(r) = ChildOutput(spend)
  <2>2. other \in Rows(files.spends) /\ ChildOutput(other) = ChildOutput(spend)
    BY <2>1
  <2>3. ValueOf(ChildOutput(spend)) = other.value
    BY DEF ValueOf
  <2>. HIDE DEF other
  <2>4. PICK i, j \in DOMAIN files.spends : other = files.spends[i] /\ spend = files.spends[j]
    BY <2>1, <2>2 DEF Rows
  <2>. QED BY <2>2, <2>3, <2>4 DEF PathsAgree
<1>6. {<<ChildOutput(spend), spend.value>> : spend \in onward}
        = {<<child, ValueOf(child)>> : child \in {ChildOutput(spend) : spend \in onward}}
  <2>. HIDE DEF onward
  <2>. QED BY <1>5
<1>7. ChildOutputsTo(row, query) = {ChildOutput(spend) : spend \in onward}
  BY <1>3 DEF ChildOutputsTo
<1>. HIDE DEF onward
<1>. QED BY <1>4, <1>6, <1>7 DEF uniqueOnwardOutputTotal

\* The download lists the rows that can be explained.
LEMMA DownloadAnswers ==
  ASSUME Summaries, NEW query
  PROVE  Rows(download(query)) = AnswersTo(query)
<1>. DEFINE found == filterDataset(query)
            all   == download(query)
<1>1. /\ all \in Seq({enrichSummary(row, query) : row \in Rows(files.summaries)})
      /\ Len(all) = Len(found)
      /\ \A n \in 1..Len(found) : all[n] = enrichSummary(found[n], query)
  BY DownloadIs
<1>2. found \in Seq(Rows(files.summaries))
  BY FilterFinds
<1>3. DOMAIN all = 1..Len(found)
  BY <1>1
<1>4. DOMAIN found = 1..Len(found)
  <2>. HIDE DEF found
  <2>. QED BY <1>2
<1>5. ASSUME NEW row \in Rows(all) PROVE row \in AnswersTo(query)
  <2>1. PICK n \in 1..Len(found) : row = enrichSummary(found[n], query)
    BY <1>1, <1>3 DEF Rows
  <2>2. found[n] \in Rows(files.summaries) /\ rowMatches(found[n], query)
    BY <1>4, FilterFinds
  <2>. QED BY <2>1, <2>2, MatchIsExplained DEF AnswersTo
<1>6. ASSUME NEW row \in AnswersTo(query) PROVE row \in Rows(all)
  <2>1. PICK summary \in Rows(files.summaries) :
          row = enrichSummary(summary, query) /\ rowMatches(summary, query)
    BY MatchIsExplained DEF AnswersTo
  <2>2. PICK k \in DOMAIN found : found[k] = summary
    BY <2>1, FilterFindsAll
  <2>3. row = all[k] /\ k \in DOMAIN all
    BY <1>1, <1>3, <1>4, <2>1, <2>2
  <2>. HIDE DEF all
  <2>. QED BY <2>3 DEF Rows
<1>. QED BY <1>5, <1>6

LEMMA WalkIsExplained == ASSUME SearchInv, EvidenceIsChecked PROVE AnswersAreExplained
<1>1. CASE \E query : walk = [NoWalk EXCEPT !.query = query]
  BY <1>1 DEF NoWalk, AnswersAreExplained
<1>2. ASSUME NEW query \in Queries, NEW start \in Nat \ {0}, walk = WalkAt(query, start),
             phase = "serving"
      PROVE  AnswersAreExplained
  <2>. DEFINE all   == download(query)
              last  == Min({start, Len(all)})
              answers == {enrichSummary(row, query) : row \in Rows(files.summaries)}
  <2>1. PathsAgree /\ Summaries
    BY <1>2 DEF SearchInv, EvidenceIsChecked
  <2>2. all \in Seq(answers) /\ Len(all) \in Nat /\ DOMAIN all = 1..Len(all)
    <3>1. all \in Seq(answers)
      BY <2>1, DownloadIs
    <3>. HIDE DEF all, answers
    <3>. QED BY <3>1, LenProperties
  <2>3. /\ walk.query = query /\ walk.offset = start
        /\ walk.shown = SubSeq(all, 1, last)
    BY <1>2 DEF WalkAt
  <2>4. start < Len(all) => walk.more
    <3>. HIDE DEF all
    <3>1. walk.more = (start < Len(all))
      BY <1>2 DEF WalkAt, all
    <3>2. ASSUME start < Len(all) PROVE walk.more
      <4>1. (start < Len(all)) = TRUE
        BY <3>2
      <4>2. walk.more = TRUE
        BY <3>1, <4>1
      <4>. QED BY <4>2
    <3>. QED BY <3>2
  <2>5. last = (IF start <= Len(all) THEN start ELSE Len(all))
    BY <2>2, MinOfTwo
  <2>6. last \in 0..Len(all)
    BY <2>2, <2>5
  <2>. HIDE DEF last
  <2>7. /\ DOMAIN SubSeq(all, 1, last) = 1..last
        /\ \A n \in 1..last : SubSeq(all, 1, last)[n] = all[n]
    <3>. DEFINE set == answers
    <3>1. all \in Seq(set) /\ last \in 0..Len(all) /\ 0 \in Nat
      BY <2>2, <2>6
    <3>. HIDE DEF all, set
    <3>2. DOMAIN SubSeq(all, 0 + 1, last) = 1 .. last - 0
      BY <3>1, Stretch
    <3>3. \A n \in 1 .. last - 0 : SubSeq(all, 0 + 1, last)[n] = all[0 + n]
      BY <3>1, Stretch
    <3>4. last - 0 = last /\ 0 + 1 = 1 /\ \A n \in 1..last : 0 + n = n
      BY <2>6 DEF all
    <3>. QED BY <3>2, <3>3, <3>4
  <2>8. Rows(all) = AnswersTo(query)
    BY <2>1, DownloadAnswers
  <2>9. Rows(walk.shown) \subseteq Rows(all)
    <3>. HIDE DEF all
    <3>. QED BY <2>2, <2>3, <2>6, <2>7 DEF Rows
  <2>10. ASSUME NEW row \in Rows(walk.shown), Given(query.onward)
        PROVE  row.onwardRvn =
                 SumOfValues({<<child, ValueOf(child)>> : child \in ChildOutputsTo(row, query)})
    <3>1. PICK summary \in Rows(files.summaries) :
            rowMatches(summary, query) /\ row = enrichSummary(summary, query)
      BY <2>8, <2>9, MatchIsExplained DEF AnswersTo
    <3>. QED BY <2>1, <2>10, <3>1, OnwardCountsOnce
  <2>11. ASSUME ~ walk.more PROVE walk.shown = all
    <3>. DEFINE set == answers
    <3>2. all \in Seq(set)
      BY <2>2
    <3>. HIDE DEF set, all
    <3>0. ~ (start < Len(all))
      <4>. QED BY <2>11, <2>4
    <3>1. last = Len(all)
      <4>. DEFINE length == Len(all)
      <4>1. length \in Nat
        BY <2>2
      <4>2. last = (IF start <= length THEN start ELSE length)
        BY <2>5
      <4>3. ~ (start < length)
        BY <3>0
      <4>. HIDE DEF length
      <4>4. last = length
        BY <4>1, <4>2, <4>3
      <4>. QED BY <4>4 DEF length
    <3>3. SubSeq(all, 1, Len(all)) = all
      BY <3>2, SubSeqFull
    <3>. QED BY <2>3, <3>1, <3>3
  <2>12. walk.query = query /\ (~ walk.more => walk.shown = download(query))
    BY <2>3, <2>11 DEF all
  <2>. HIDE DEF all, answers
  <2>. QED BY <2>8, <2>9, <2>10, <2>11, <2>12 DEF AnswersAreExplained
<1>. QED BY <1>1, <1>2 DEF SearchInv, Walk

LEMMA InvSearchNext ==
  ASSUME SearchInv, [LoaderNext]_loaderVars, LoaderIInv'
  PROVE  SearchInv'
<1>1. UNCHANGED files
  BY DEF LoaderNext, loaderVars, Normalize, Summarize, CheckSpend, Serve, SearchOn, Search
<1>2. Summaries'
  BY <1>1 DEF SearchInv, Summaries
<1>3. Walk'
  <2>1. CASE SearchOn
    BY <2>1, InvSearchOn
  <2>2. CASE \E query \in Queries : Search(query)
    BY <2>2, InvSearch
  <2>3. CASE Normalize \/ Summarize \/ CheckSpend \/ Serve \/ UNCHANGED loaderVars
    <3>1. UNCHANGED walk /\ (phase = "serving" => phase' = "serving")
      BY <2>3 DEF Normalize, Summarize, CheckSpend, Serve, loaderVars
    <3>2. \A query, start : WalkAt(query, start)' = WalkAt(query, start)
      BY <1>1, SameAnswers DEF WalkAt
    <3>. QED BY <3>1, <3>2 DEF SearchInv, Walk
  <2>. QED BY <2>1, <2>2, <2>3 DEF LoaderNext
<1>4. phase' \in {"spends", "serving"} => SummariesSound'
  <2>1. phase' \in {"spends", "serving"} => SummariesSound
    BY DEF LoaderNext, loaderVars, Normalize, Summarize, CheckSpend, Serve, SearchOn, Search, SearchInv
  <2>. QED BY <1>1, <2>1, SameFiles
<1>. QED BY <1>2, <1>3, <1>4 DEF SearchInv

(***************************************************************************)
(* A row is shown to a client that follows hasMore to the end if and only  *)
(* if what the row shows explains why, and what it has seen then is the    *)
(* download: for any publications, queries and limits.  rowMatches and     *)
(* enrichSummary look at the rows by separate conditions; that they agree  *)
(* on the onward total rests on the checks of the loader.                  *)
(***************************************************************************)
THEOREM EveryAnswerIsExplained == LoaderSpec => []AnswersAreExplained
<1>1. LoaderInit => SearchInv
  BY LoaderInitInvariant, DatasetAssumption DEF LoaderInit, SearchInv, Summaries, Walk, NoWalk
<1>2. LoaderIInv /\ [LoaderNext]_loaderVars => LoaderIInv'
  BY LoaderStep
<1>3. SearchInv /\ [LoaderNext]_loaderVars => SearchInv'
  BY <1>2, InvSearchNext DEF SearchInv
<1>4. SearchInv /\ EvidenceIsChecked => AnswersAreExplained
  BY WalkIsExplained
<1>. QED BY <1>1, <1>3, <1>4, EvidenceIsExact, PTL DEF LoaderSpec

=============================================================================
