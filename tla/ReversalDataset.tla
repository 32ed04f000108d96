--------------------------- MODULE ReversalDataset ---------------------------
(***************************************************************************)
(* loadDataset of server/reversal-data.mjs, which accepts or rejects the   *)
(* four files of a publication, row by row where the answer depends on the *)
(* rows before, and the searches and downloads served from the result.     *)
(*                                                                         *)
(* A cell is its meaning: a transaction id in lower case, an address, a    *)
(* number, an amount in satoshis.  Malformed stands for every cell that no *)
(* conversion accepts, Empty for a cell that is read as null.  The amount  *)
(* a child pays is compared as text as well, and 1.5 and 1.50000000 are    *)
(* two texts of one amount: a path has that amount and its spelling.       *)
(***************************************************************************)
EXTENDS Integers, FiniteSets, FiniteSetsExt, Sequences, SequencesExt

CONSTANTS
  Empty, Malformed,
  Publishable,    \* the files a load may find: summaries, inputs, outputs, spends
  Queries         \* the queries a client may send

ASSUME DatasetAssumption ==
  /\ \A found \in Publishable : \A table \in {found.summaries, found.spends} :
       Len(table) \in Nat /\ DOMAIN table = 1..Len(table)
  /\ \A query \in Queries : query.limit \in Int \cup {Empty}

VARIABLES
  files, phase,
  next,           \* the row of files.spends to check
  spenderOf,      \* originSpendIdentity: output -> input and height
  originOf,       \* childInputIdentity: input of a child -> output
  heightOf,       \* childTransactionHeight
  paidBy,         \* childOutputIdentity: output of a child -> value as text, and script
  paths,          \* exactSpendRows
  walk            \* a client that follows hasMore from page to page

checks     == <<next, spenderOf, originOf, heightOf, paidBy, paths>>
loaderVars == <<files, phase, checks, walk>>

Rows(table) == {table[n] : n \in DOMAIN table}

EmptyMap == [k \in {} |-> Empty]
Put(map, key, value) == [k \in DOMAIN map \cup {key} |-> IF k = key THEN value ELSE map[k]]
AgreesWith(map, key, value) == key \in DOMAIN map => map[key] = value

NoWalk == [query |-> Empty, offset |-> 0, shown |-> <<>>, more |-> FALSE]

LoaderInit ==
  /\ files \in Publishable
  /\ phase = "normalizing" /\ next = 1
  /\ spenderOf = EmptyMap /\ originOf = EmptyMap /\ heightOf = EmptyMap /\ paidBy = EmptyMap
  /\ paths = {} /\ walk = NoWalk

-----------------------------------------------------------------------------
\* The columns whose cell may be empty.
Nullable ==
  [summaries |-> {"reason", "confirmedHeight"}, inputs |-> {"address"},
   outputs |-> {"address", "script"}, spends |-> {"originAddress", "to", "script"}]

\* assertHeaders, normalizeSummary, normalizeInput, normalizeOutput, normalizeSpend.
Readable(name) ==
  /\ files[name] # <<>>
  /\ \A row \in Rows(files[name]) : \A column \in DOMAIN row :
       /\ row[column] # Malformed
       /\ row[column] = Empty => column \in Nullable[name]

Normalize ==
  /\ phase = "normalizing"
  /\ phase' = IF \A name \in DOMAIN files : Readable(name) THEN "summarizing" ELSE "rejected"
  /\ UNCHANGED <<files, checks, walk>>

InputsOf(t)  == {row \in Rows(files.inputs) : row.txid = t}
OutputsOf(t) == {row \in Rows(files.outputs) : row.txid = t}
CountOf(table, t) == Len(SelectSeq(table, LAMBDA row : row.txid = t))

\* byTxid: the summaries by transaction id.
Known(t) == \E row \in Rows(files.summaries) : row.txid = t
Confirmed(t) == \E row \in Rows(files.summaries) : row.txid = t /\ row.status = "CONFIRMED"

Addresses(details) == {row.address : row \in details} \ {Empty}
TotalOf(outputs)     == MapThenSumSet(LAMBDA row : row.value, outputs)

\* A confirmed transaction has all its inputs and outputs, once each.
ConfirmedSound(summary) ==
  LET inputs  == InputsOf(summary.txid)
      outputs == OutputsOf(summary.txid)
  IN  /\ CountOf(files.inputs, summary.txid) = summary.nIn
      /\ CountOf(files.outputs, summary.txid) = summary.nOut
      /\ Cardinality({row.vin : row \in inputs}) = summary.nIn
      /\ Cardinality({row.vout : row \in outputs}) = summary.nOut
      /\ TotalOf(outputs) = summary.total
      /\ Cardinality(Addresses(outputs)) = Len(summary.addresses)
      /\ ToSet(summary.addresses) \subseteq Addresses(outputs)

\* The two loops over the summaries and the loop over the details between them.
SummariesSound ==
  /\ IsInjective([n \in DOMAIN files.summaries |-> files.summaries[n].txid])
  /\ \A row \in Rows(files.inputs) \cup Rows(files.outputs) : Known(row.txid)
  /\ \A summary \in Rows(files.summaries) :
       /\ summary.addresses # <<>>
       /\ IF summary.status = "CONFIRMED" THEN ConfirmedSound(summary)
          ELSE InputsOf(summary.txid) = {} /\ OutputsOf(summary.txid) = {}

Summarize ==
  /\ phase = "summarizing"
  /\ phase' = IF SummariesSound THEN "spends" ELSE "rejected"
  /\ UNCHANGED <<files, checks, walk>>

-----------------------------------------------------------------------------
\* The loop over the spends.

Spender(row)   == [by |-> row.by, vin |-> row.vin, height |-> row.height]
ChildInput(row)  == [by |-> row.by, vin |-> row.vin]
ChildOutput(row) == [by |-> row.by, vout |-> row.vout]
Paid(row)      == [value |-> row.value, spelling |-> row.spelling, script |-> row.script]
PathOf(row)      == [origin |-> row.origin, spender |-> Spender(row), vout |-> row.vout, to |-> row.to]

\* The origin is an output of a confirmed transaction, as the row says.
OriginSound(row) ==
  /\ Confirmed(row.origin.txid)
  /\ \E output \in OutputsOf(row.origin.txid) :
       /\ output.vout = row.origin.vout
       /\ output.address = row.originAddress /\ output.value = row.originValue

\* A child that is in the data itself, confirmed, has that input and that output.
ChildSound(row) ==
  Confirmed(row.by) =>
    /\ \E input \in InputsOf(row.by) : input.vin = row.vin /\ input.prev = row.origin
    /\ \E output \in OutputsOf(row.by) :
         /\ output.vout = row.vout /\ output.address = row.to
         /\ output.value = row.value /\ output.script = row.script

\* Seeded fault: the origins of a child's input are not compared.
RowAgreesOriginUnchecked(row) ==
  /\ AgreesWith(spenderOf, row.origin, Spender(row))
  /\ AgreesWith(heightOf, row.by, row.height)
  /\ AgreesWith(paidBy, ChildOutput(row), Paid(row))
  /\ PathOf(row) \notin paths

\* The row agrees with the rows before it.
RowAgrees(row) ==
  /\ AgreesWith(spenderOf, row.origin, Spender(row))
  /\ AgreesWith(originOf, ChildInput(row), row.origin)
  /\ AgreesWith(heightOf, row.by, row.height)
  /\ AgreesWith(paidBy, ChildOutput(row), Paid(row))
  /\ PathOf(row) \notin paths

CheckSpend ==
  /\ phase = "spends" /\ next <= Len(files.spends)
  /\ LET row == files.spends[next]
     IN  \/ /\ OriginSound(row) /\ RowAgrees(row) /\ ChildSound(row)
            /\ spenderOf' = Put(spenderOf, row.origin, Spender(row))
            /\ originOf' = Put(originOf, ChildInput(row), row.origin)
            /\ heightOf' = Put(heightOf, row.by, row.height)
            /\ paidBy' = Put(paidBy, ChildOutput(row), Paid(row))
            /\ paths' = paths \cup {PathOf(row)}
            /\ next' = next + 1 /\ phase' = phase
         \/ /\ ~ (OriginSound(row) /\ RowAgrees(row) /\ ChildSound(row))
            /\ phase' = "rejected" /\ UNCHANGED checks
  /\ UNCHANGED <<files, walk>>

Serve ==
  /\ phase = "spends" /\ next > Len(files.spends)
  /\ phase' = "serving"
  /\ UNCHANGED <<files, checks, walk>>

-----------------------------------------------------------------------------
\* search and download.

Given(filter) == filter # Empty

SpendsOf(t) == {row \in Rows(files.spends) : row.origin.txid = t}

\* normalizeFilters: what it refuses, and the limit it makes of the one asked for.
QueryAccepted(query) ==
  /\ Given(query.q) /\ Given(query.txid) => query.q = query.txid
  /\ Given(query.status) => \E row \in Rows(files.summaries) : row.status = query.status
  /\ Given(query.reason) => \E row \in Rows(files.summaries) : row.reason = query.reason

\* The largest page.
MaxLimit == 500

LimitOf(query) == IF Given(query.limit) THEN Min({MaxLimit, Max({1, query.limit})}) ELSE 50

TxidFilter(query) == IF Given(query.q) THEN query.q ELSE query.txid

\* Seeded fault: the path may start at any output of the transaction.
hasOnwardFromAnywhere(summary, query) ==
  \E row \in SpendsOf(summary.txid) : row.to = query.onward

hasOnwardDestination(summary, query) ==
  \E row \in SpendsOf(summary.txid) :
    /\ Given(query.to) => row.originAddress = query.to
    /\ row.to = query.onward

hasDestination(summary, query) ==
  IF summary.status = "CONFIRMED" THEN \E row \in OutputsOf(summary.txid) : row.address = query.to
  ELSE Contains(summary.addresses, query.to)

rowMatches(summary, query) ==
  LET canonical == summary.status = "CONFIRMED"
  IN  /\ Given(TxidFilter(query)) => summary.txid = TxidFilter(query)
      /\ Given(query.status) => summary.status = query.status
      /\ Given(query.reason) => summary.reason = query.reason
      /\ Given(query.from) => canonical /\ \E row \in InputsOf(summary.txid) : row.address = query.from
      /\ Given(query.to) => hasDestination(summary, query)
      /\ Given(query.onward) => canonical /\ hasOnwardDestination(summary, query)

\* The elements of a set of row numbers, in order.
InOrder(numbers) ==
  CHOOSE order \in [1..Cardinality(numbers) -> numbers] :
    \A i, j \in 1..Cardinality(numbers) : i < j => order[i] < order[j]

\* The matching summaries, in the order of the file.
filterDataset(query) ==
  LET matching == {n \in DOMAIN files.summaries : rowMatches(files.summaries[n], query)}
  IN  [k \in 1..Cardinality(matching) |-> files.summaries[InOrder(matching)[k]]]

OnwardOf(summary, query) ==
  {row \in SpendsOf(summary.txid) : /\ Given(query.to) => row.originAddress = query.to
                                    /\ Given(query.onward) => row.to = query.onward}

\* The sum of the values of a set of things, each with its value.
SumOfValues(pairs) == MapThenSumSet(LAMBDA pair : pair[2], pairs)

\* Each output of a child once, though several paths lead to it.
uniqueOnwardOutputTotal(spends) == SumOfValues({<<ChildOutput(row), row.value>> : row \in spends})

\* What a row shows as the answer to a query; Empty is null.
enrichSummary(summary, query) ==
  LET canonical == summary.status = "CONFIRMED"
      matched   == {row \in OutputsOf(summary.txid) : row.address = query.to}
      onward    == OnwardOf(summary, query)
  IN  [txid    |-> summary.txid, status |-> summary.status, reason |-> summary.reason,
       addresses |-> summary.addresses,
       inputAddresses |-> IF canonical THEN Addresses(InputsOf(summary.txid)) ELSE {},
       matched |-> IF canonical /\ Given(query.to) THEN matched ELSE {},
       matchedRvn |-> IF canonical /\ Given(query.to) THEN TotalOf(matched) ELSE Empty,
       onward  |-> IF canonical THEN onward ELSE {},
       onwardRvn |-> IF canonical /\ Given(query.onward) THEN uniqueOnwardOutputTotal(onward)
                     ELSE Empty]

Enriched(summaries, query) == [n \in DOMAIN summaries |-> enrichSummary(summaries[n], query)]

Page(query, offset) ==
  LET matching == filterDataset(query)
      last     == Min({offset + LimitOf(query), Len(matching)})
  IN  [items |-> Enriched(SubSeq(matching, offset + 1, last), query),
       more  |-> last < Len(matching)]

download(query) == Enriched(filterDataset(query), query)

Search(query) ==
  /\ phase = "serving" /\ walk = NoWalk
  /\ walk' = IF QueryAccepted(query)
             THEN LET page == Page(query, 0)
                  IN  [query |-> query, offset |-> LimitOf(query), shown |-> page.items, more |-> page.more]
             ELSE [NoWalk EXCEPT !.query = query]
  /\ UNCHANGED <<files, phase, checks>>

SearchOn ==
  /\ walk.more
  /\ LET page == Page(walk.query, walk.offset)
     IN  walk' = [walk EXCEPT !.offset = @ + LimitOf(walk.query),
                              !.shown = @ \o page.items, !.more = page.more]
  /\ UNCHANGED <<files, phase, checks>>

LoaderNext ==
  \/ Normalize \/ Summarize \/ CheckSpend \/ Serve \/ SearchOn
  \/ \E query \in Queries : Search(query)

LoaderSpec == LoaderInit /\ [][LoaderNext]_loaderVars

-----------------------------------------------------------------------------
\* The paths agree with each other, whatever their order.
PathsAgree ==
  \A i, j \in DOMAIN files.spends :
    LET one == files.spends[i]
        two == files.spends[j]
    IN  /\ one.origin = two.origin => Spender(one) = Spender(two)
        /\ ChildInput(one) = ChildInput(two) => one.origin = two.origin
        /\ one.by = two.by => one.height = two.height
        /\ ChildOutput(one) = ChildOutput(two) =>
             one.value = two.value /\ one.script = two.script
        /\ PathOf(one) = PathOf(two) => i = j

\* They write the amount of a child's output in one way.
SpelledAlike ==
  \A one, two \in Rows(files.spends) :
    ChildOutput(one) = ChildOutput(two) => one.spelling = two.spelling

\* They start at confirmed outputs and fit the inputs and outputs they meet.
PathsFit == \A row \in Rows(files.spends) : OriginSound(row) /\ ChildSound(row)

(***************************************************************************)
(* The paths of a publication that is served form a chain of evidence: an  *)
(* output has one spender, an input one origin, a transaction one height,  *)
(* an output of a child one value; and a publication of sound summaries is *)
(* rejected only if its paths do not ("the loader rejects ... broken       *)
(* direct-spend evidence", docs/operations.md), or if two of them write    *)
(* the one amount of an output in two ways, which the code takes for two   *)
(* amounts.  It compares each row with what five maps remember of the rows *)
(* before it.                                                              *)
(***************************************************************************)
EvidenceIsChecked ==
  /\ phase = "serving" => PathsAgree /\ SpelledAlike /\ PathsFit
  /\ phase = "rejected" /\ (\A name \in DOMAIN files : Readable(name)) /\ SummariesSound =>
       ~ (PathsAgree /\ SpelledAlike /\ PathsFit)

\* The outputs of the children that pay an address.
ChildOutputsTo(row, query) == {ChildOutput(spend) : spend \in OnwardOf(row, query)}

ValueOf(child) == (CHOOSE row \in Rows(files.spends) : ChildOutput(row) = child).value

\* What a row shows is what the query asks for.
Explained(row, query) ==
  /\ Given(TxidFilter(query)) => row.txid = TxidFilter(query)
  /\ Given(query.status) => row.status = query.status
  /\ Given(query.reason) => row.reason = query.reason
  /\ Given(query.from) => query.from \in row.inputAddresses
  /\ Given(query.to) => \/ row.status = "CONFIRMED" /\ row.matched # {}
                        \/ row.status # "CONFIRMED" /\ Contains(row.addresses, query.to)
  /\ Given(query.onward) => row.onward # {}

\* The rows of the file that can show why they answer a query.
AnswersTo(query) ==
  {row \in {enrichSummary(summary, query) : summary \in Rows(files.summaries)} :
     Explained(row, query)}

(***************************************************************************)
(* A row is the answer to a search if and only if it can show why: every   *)
(* row shown is explained by what it shows, outputs to the destination and *)
(* a path to the next hop that starts at one of them; and once the pages   *)
(* that hasMore leads to have been seen to the end, every row that can be  *)
(* explained was among them, in the order of the download.  The onward     *)
(* total of a row counts each output of a child once.  rowMatches decides  *)
(* and enrichSummary explains, by separate conditions.                     *)
(***************************************************************************)
AnswersAreExplained ==
  walk.offset > 0 =>
    LET query == walk.query
        shown == Rows(walk.shown)
    IN  /\ shown \subseteq AnswersTo(query)
        /\ ~ walk.more => shown = AnswersTo(query) /\ walk.shown = download(query)
        /\ \A row \in shown :
             Given(query.onward) =>
               row.onwardRvn =
                 SumOfValues({<<child, ValueOf(child)>> : child \in ChildOutputsTo(row, query)})
=============================================================================
