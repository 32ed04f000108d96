---------------------------- MODULE MCStandalone ----------------------------
(***************************************************************************)
(* The parts that interact with no other, in one run: RangePlanner,        *)
(* ReversalCsv, ReversalDataset, DatasetService, UseApi and ReversalPage.  *)
(* A behaviour is one of a single part: the states of the parts add up.    *)
(***************************************************************************)
EXTENDS RangePlanner, ReversalPage, DatasetService, ReversalDataset, TLC

CONSTANTS t1, t2, t3, x, y, c1, c2

\* Every cell of up to two characters, two of three, and some with a tab.
CsvChar == {"quote", "comma", "CR", "LF", "blank", "formula", "letter"}
CsvCell == UNION {[1..n -> CsvChar] : n \in 0..2}
             \cup { <<"quote", "comma", "quote">>, <<"blank", "LF", "formula">> }
             \cup { <<"tab">>, <<"tab", "letter">>, <<"blank", "tab", "formula">> }

\* Every text of up to five characters.
CsvForeign == UNION {[1..n -> CsvChar \ {"formula", "blank"}] : n \in 0..5}

-----------------------------------------------------------------------------
\* Two transactions; t1 is confirmed and pays x and y, t2 is its child.  t3 is
\* a child that is not in the data.

OutputId(t, n) == [txid |-> t, vout |-> n]

Summary(t, status, total, outs, addresses) ==
  [txid |-> t, status |-> status, reason |-> IF status = "CONFIRMED" THEN Empty ELSE "fork",
   total |-> total, nIn |-> 1, nOut |-> outs, addresses |-> addresses]

Input(t, prev) == [txid |-> t, vin |-> 0, prev |-> prev, address |-> x]
OutputRow(t, n, address, value) ==
  [txid |-> t, vout |-> n, address |-> address, value |-> value, script |-> "pkh"]

Details ==
  LET inputs  == <<Input(t1, OutputId(t3, 0)), Input(t2, OutputId(t1, 0))>>
      outputs == <<OutputRow(t1, 0, x, 1), OutputRow(t1, 1, y, 2), OutputRow(t2, 0, y, 1)>>
      first   == Summary(t1, "CONFIRMED", 3, 2, <<x, y>>)
  IN  { [summaries |-> <<first, Summary(t2, "CONFIRMED", 1, 1, <<y>>)>>,
         inputs |-> inputs, outputs |-> outputs],
        [summaries |-> <<first, Summary(t2, "NOT_REPLAYABLE", 1, 1, <<y, x>>)>>,
         inputs |-> <<inputs[1]>>, outputs |-> <<outputs[1], outputs[2]>>],
        [summaries |-> <<first, Summary(t2, "NOT_REPLAYABLE", 1, 1, <<y, x>>)>>,
         inputs |-> inputs, outputs |-> outputs],
        [summaries |-> <<first, Summary(t2, "CONFIRMED", 2, 1, <<y>>)>>,
         inputs |-> inputs, outputs |-> outputs],
        [summaries |-> <<first>>, inputs |-> inputs, outputs |-> outputs] }

Spend(origin, address, amount, by, vin, height, vout, to, value) ==
  [origin |-> origin, originAddress |-> address, originValue |-> amount, by |-> by,
   vin |-> vin, height |-> height, vout |-> vout, to |-> to,
   value |-> value, spelling |-> "short", script |-> "pkh"]

\* Paths of one story, and paths that differ from one of them in a cell.
Told ==
  { Spend(OutputId(t1, 0), x, 1, t2, 0, 1, 0, y, 1),
    Spend(OutputId(t1, 1), y, 2, t3, 0, 2, 0, y, 2),
    Spend(OutputId(t1, 1), y, 2, t3, 0, 2, 1, x, 1),
    Spend(OutputId(t2, 0), y, 1, t3, 1, 2, 0, y, 2),
    Spend(OutputId(t1, 0), x, 1, t3, 1, 2, 0, y, 2) }

Altered ==
  LET told == Spend(OutputId(t1, 1), y, 2, t3, 0, 2, 0, y, 2)
  IN  { [told EXCEPT !.origin = OutputId(t1, 0), !.originValue = 1, !.originAddress = x],
        [told EXCEPT !.origin = OutputId(t3, 0)], [told EXCEPT !.originAddress = x],
        [told EXCEPT !.originValue = 1], [told EXCEPT !.vin = 1], [told EXCEPT !.height = 3],
        [told EXCEPT !.to = x], [told EXCEPT !.to = Empty], [told EXCEPT !.value = 1],
        [told EXCEPT !.spelling = "padded"],
        [told EXCEPT !.script = Empty], [told EXCEPT !.script = Malformed],
        Spend(OutputId(t1, 0), x, 1, t2, 1, 1, 0, y, 1),
        Spend(OutputId(t1, 0), x, 1, t2, 0, 1, 0, y, 2) }

Unpublished == [summaries |-> <<>>, inputs |-> <<>>, outputs |-> <<>>, spends |-> <<>>]

MCPublications ==
  {Unpublished} \cup
  {[summaries |-> d.summaries, inputs |-> d.inputs, outputs |-> d.outputs, spends |-> spends] :
     d \in Details, spends \in UNION {[1..n -> Told \cup Altered] : n \in 0..3}}

MCQueries ==
  LET all == [q |-> Empty, txid |-> Empty, from |-> Empty, to |-> Empty, onward |-> Empty,
              status |-> Empty, reason |-> Empty, limit |-> Empty]
  IN  {[all EXCEPT !.to = to, !.onward = onward, !.limit = limit] :
         to \in {Empty, x, y}, onward \in {Empty, x, y}, limit \in {Empty, 0, 1}}
      \cup {[all EXCEPT !.q = t1, !.txid = t] : t \in {t1, t2, Empty}}
      \cup {[all EXCEPT !.txid = t2, !.from = x], [all EXCEPT !.reason = "fork"]}
      \cup {[all EXCEPT !.status = s, !.limit = 1] : s \in {"CONFIRMED", "PENDING"}}

-----------------------------------------------------------------------------
\* "text" finds one row, no filter finds two pages.
MCPath  == [filters : {"", "text"}, offset : 0..3]
MCTotal == [f \in Text |-> IF f = "" THEN 4 ELSE 1]

\* The paths between which the page of the part "hook" goes to and fro.
HookPath == {Address("", 0), Address("text", 0)}

\* The second publication leaves the outputs as they were.
MCContent ==
  [transactions |-> <<1, 2, 3>>, inputs |-> <<1, 2, 2>>, outputs |-> <<1, 1, 2>>]

MCBytes == <<10, 10, 20>>

\* The first metadata is complete; the second has one digest, one size and no word
\* of the outputs; the third still has the digest of the outputs before.
MCManifest ==
  LET entry(sha256, bytes) == [sha256 |-> sha256, bytes |-> bytes]
  IN  << [f \in DataFiles |-> entry(1, 10)],
         [transactions |-> entry(2, NotGiven), inputs |-> entry(NotGiven, 10)],
         [transactions |-> entry(3, 20), inputs |-> entry(2, 10), outputs |-> entry(1, NotGiven)] >>

-----------------------------------------------------------------------------
VARIABLES
  part,
  table, text, rest, field, quoted, record, records, outcome

Csv == INSTANCE ReversalCsv WITH Cell <- CsvCell, MaxRows <- 1, Foreign <- CsvForeign

csvVars     == <<table, text, rest, field, quoted, record, records, outcome>>
browserVars == <<hookVars, pageVars>>

\* The parts a behaviour is not about are at rest.
PlannerIdle ==
  /\ window = [first |-> 0, last |-> 0] /\ batchSize = 1 /\ reserved = {} /\ todo = {}
  /\ cursor = 0 /\ done = FALSE /\ found = {}

CsvIdle ==
  /\ table = <<>> /\ text = <<>> /\ rest = <<>>
  /\ field = <<>> /\ record = <<>> /\ records = <<>>
  /\ quoted = FALSE /\ outcome = "reading"

DatasetIdle ==
  /\ files = Unpublished /\ phase = "normalizing" /\ next = 1
  /\ spenderOf = EmptyMap /\ originOf = EmptyMap /\ heightOf = EmptyMap /\ paidBy = EmptyMap
  /\ paths = {} /\ walk = NoWalk

ServiceIdle == disk = NoDataset /\ ServiceInit

BrowserIdle == path = Address("", 0) /\ PageInit

\* A page around the hook with no state of its own: it is what its address says.
PlainPage ==
  /\ entries' = <<path'>> /\ at' = at
  /\ draft' = path'.filters /\ filters' = path'.filters /\ offset' = path'.offset

StandaloneInit ==
  \/ part = "planner" /\ Init /\ CsvIdle /\ DatasetIdle /\ ServiceIdle /\ BrowserIdle
  \/ part = "csv" /\ PlannerIdle /\ Csv!Init /\ DatasetIdle /\ ServiceIdle /\ BrowserIdle
  \/ part = "dataset" /\ PlannerIdle /\ CsvIdle /\ LoaderInit /\ ServiceIdle /\ BrowserIdle
  \/ part = "service" /\ PlannerIdle /\ CsvIdle /\ DatasetIdle /\ ServiceInit /\ BrowserIdle
  \/ part = "hook" /\ PlannerIdle /\ CsvIdle /\ DatasetIdle /\ ServiceIdle /\ BrowserIdle
  \/ part = "page" /\ PlannerIdle /\ CsvIdle /\ DatasetIdle /\ ServiceIdle /\ PageInit

StandaloneNext ==
  /\ part' = part
  /\ \/ part = "planner" /\ Next /\ UNCHANGED <<csvVars, loaderVars, serviceVars, browserVars>>
     \/ part = "csv" /\ Csv!Next /\ UNCHANGED <<vars, loaderVars, serviceVars, browserVars>>
     \/ part = "dataset" /\ LoaderNext /\ UNCHANGED <<vars, csvVars, serviceVars, browserVars>>
     \/ part = "service" /\ ServiceNext
          /\ UNCHANGED <<vars, csvVars, loaderVars, browserVars>>
     \/ part = "hook" /\ HookNext /\ path' \in HookPath /\ PlainPage
          /\ UNCHANGED <<vars, csvVars, loaderVars, serviceVars>>
     \/ part = "page" /\ PageNext /\ UNCHANGED <<vars, csvVars, loaderVars, serviceVars>>

StandaloneSpec ==
  /\ StandaloneInit
  /\ [][StandaloneNext]_<<part, vars, csvVars, loaderVars, serviceVars, browserVars>>

\* The property of the instance, stated in its module.
CsvIsFaithful == Csv!CsvIsFaithful
=============================================================================
