----------------------------- MODULE ReversalCsv -----------------------------
(***************************************************************************)
(* The CSV of server/reversal-data.mjs: parseCsv, one action per branch of *)
(* its loop over the characters, reading back what encodeCsvCell and       *)
(* download write.  A text is a sequence of classes of characters: quote,  *)
(* comma, CR, LF, tab, blank, formula (=, +, -, @), mark (the apostrophe   *)
(* of protectSpreadsheetCell) and letter, which is every other character.  *)
(* The byte order mark that parseCsv drops from a text is left out.        *)
(***************************************************************************)
EXTENDS Sequences, Integers, FiniteSets, Functions

CONSTANTS
  Cell,     \* cells of a table, each a sequence of characters
  MaxRows,  \* bound: data rows of a table
  Foreign   \* texts that no download wrote

VARIABLES
  table,    \* the rows that were written, the header first; none for a foreign text
  text, rest,   \* the argument of parseCsv, and what it has not read
  field, quoted, record, records,
  outcome   \* "reading", "parsed" or the name of the error

vars == <<table, text, rest, field, quoted, record, records, outcome>>

-----------------------------------------------------------------------------
\* Writing: encodeCsvCell, serializeDownloadRow and download.

Blank == {"blank", "tab", "CR", "LF"}

\* /^[\t\r\n]/ or /^\s*[=+\-@]/
Unsafe(cell) ==
  /\ cell # <<>>
  /\ \/ cell[1] \in {"tab", "CR", "LF"}
     \/ \E n \in DOMAIN cell : /\ cell[n] = "formula"
                               /\ \A m \in 1 .. n - 1 : cell[m] \in Blank

protectSpreadsheetCell(cell) == IF Unsafe(cell) THEN <<"mark">> \o cell ELSE cell

Holds(string, chars) == \E n \in DOMAIN string : string[n] \in chars

RECURSIVE Doubled(_)
\* Every quote doubled.
Doubled(string) ==
  IF string = <<>> THEN <<>>
  ELSE (IF Head(string) = "quote" THEN <<"quote", "quote">> ELSE <<Head(string)>>)
         \o Doubled(Tail(string))

Wrapped(string) == <<"quote">> \o Doubled(string) \o <<"quote">>

\* Seeded fault: a line break alone does not call for quotes.
encodeBreaksBare(cell) ==
  LET safe == protectSpreadsheetCell(cell)
  IN  IF Holds(safe, {"quote", "comma"}) THEN Wrapped(safe) ELSE safe

encodeCsvCell(cell) ==
  LET safe == protectSpreadsheetCell(cell)
  IN  IF Holds(safe, {"quote", "comma", "CR", "LF"}) THEN Wrapped(safe) ELSE safe

RECURSIVE Joined(_, _)
Joined(pieces, separator) ==
  IF Len(pieces) = 1 THEN Head(pieces)
  ELSE Head(pieces) \o separator \o Joined(Tail(pieces), separator)

serializeDownloadRow(row) == Joined([n \in DOMAIN row |-> encodeCsvCell(row[n])], <<"comma">>)

Body(rows) ==
  Joined([n \in DOMAIN rows |-> serializeDownloadRow(rows[n])], <<"CR", "LF">>) \o <<"CR", "LF">>

-----------------------------------------------------------------------------
\* Reading: parseCsv.

Headers == << <<"letter">>, <<"letter", "letter">> >>

\* The first cell of a row is a transaction id, never empty.
Init ==
  /\ \/ \E rows \in UNION {[1..n -> [1..2 -> Cell]] : n \in 0..MaxRows} :
          /\ \A n \in DOMAIN rows : rows[n][1] # <<>>
          /\ table = <<Headers>> \o rows
          /\ text = Body(table)
     \/ table = <<>> /\ text \in Foreign
  /\ rest = text
  /\ field = <<>> /\ quoted = FALSE /\ record = <<>> /\ records = <<>>
  /\ outcome = "reading"

Next1 == Head(rest)
Next2 == IF Len(rest) > 1 THEN rest[2] ELSE "end"

Skip(n) == rest' = SubSeq(rest, n + 1, Len(rest))

Reading == outcome = "reading" /\ rest # <<>> /\ UNCHANGED <<table, text>>

\* Inside quotes: a doubled quote, the closing quote, or any other character.
InQuotes ==
  /\ Reading /\ quoted
  /\ \/ Next1 = "quote" /\ Next2 = "quote" /\ Skip(2)
        /\ field' = Append(field, "quote") /\ UNCHANGED quoted
     \/ Next1 = "quote" /\ Next2 # "quote" /\ Skip(1)
        /\ quoted' = FALSE /\ UNCHANGED field
     \/ Next1 # "quote" /\ Skip(1)
        /\ field' = Append(field, Next1) /\ UNCHANGED quoted
  /\ UNCHANGED <<record, records, outcome>>

OpenQuote ==
  /\ Reading /\ ~ quoted /\ Next1 = "quote"
  /\ IF field # <<>> THEN outcome' = "quote in unquoted field" /\ UNCHANGED <<quoted, rest>>
                     ELSE quoted' = TRUE /\ Skip(1) /\ UNCHANGED outcome
  /\ UNCHANGED <<field, record, records>>

EndField ==
  /\ Reading /\ ~ quoted /\ Next1 = "comma" /\ Skip(1)
  /\ record' = Append(record, field) /\ field' = <<>>
  /\ UNCHANGED <<quoted, records, outcome>>

\* A record of empty fields only is dropped.
Kept(row) == IF \E n \in DOMAIN row : row[n] # <<>> THEN <<row>> ELSE <<>>

EndRecord ==
  /\ Reading /\ ~ quoted /\ Next1 \in {"CR", "LF"}
  /\ Skip(IF Next1 = "CR" /\ Next2 = "LF" THEN 2 ELSE 1)
  /\ records' = records \o Kept(Append(record, field))
  /\ record' = <<>> /\ field' = <<>>
  /\ UNCHANGED <<quoted, outcome>>

Plain ==
  /\ Reading /\ ~ quoted /\ Next1 \notin {"quote", "comma", "CR", "LF"} /\ Skip(1)
  /\ field' = Append(field, Next1)
  /\ UNCHANGED <<quoted, record, records, outcome>>

Trimmed(cell) == SelectSeq(cell, LAMBDA c : c \notin Blank)

\* After the loop: the last record, the headers and the width of every row.
\* Headers here hold no blank between two letters, so trimming drops them all.
Finish ==
  /\ outcome = "reading" /\ rest = <<>>
  /\ LET all  == IF field # <<>> \/ record # <<>>
                 THEN records \o Kept(Append(record, field)) ELSE records
         headers == {Trimmed(all[1][n]) : n \in DOMAIN all[1]}
     IN  /\ records' = all
         /\ outcome' = IF quoted THEN "ends in quotes"
                       ELSE IF all = <<>> THEN "empty"
                       ELSE IF Cardinality(headers) # Len(all[1]) THEN "duplicate headers"
                       ELSE IF \E n \in DOMAIN all : Len(all[n]) # Len(all[1]) THEN "row width"
                       ELSE "parsed"
  /\ UNCHANGED <<table, text, rest, field, quoted, record>>

Next == InQuotes \/ OpenQuote \/ EndField \/ EndRecord \/ Plain \/ Finish

Spec == Init /\ [][Next]_vars

-----------------------------------------------------------------------------
WriterReadsBack ==
  table # <<>> /\ outcome # "reading" =>
    /\ outcome = "parsed" /\ Len(records) = Len(table)
    /\ \A n \in DOMAIN table, m \in 1..2 :
         /\ records[n][m] = protectSpreadsheetCell(table[n][m])
         /\ \A k \in DOMAIN records[n][m] :
              records[n][m][k] = "formula" => \E j \in 1 .. k - 1 : records[n][m][j] \notin Blank

Letters(string) == Cardinality({n \in DOMAIN string : string[n] = "letter"})

NoLetterLost ==
  LET row(n) == SumFunction([m \in DOMAIN records[n] |-> Letters(records[n][m])])
  IN  outcome = "parsed" =>
        Letters(text) = SumFunction([n \in DOMAIN records |-> row(n)])

(***************************************************************************)
(* A download reads back as it was meant: parseCsv accepts it and returns  *)
(* row by row the protected cells, whatever quotes, commas, line breaks    *)
(* and formulas the cells hold, and no cell that a spreadsheet opens       *)
(* starts a formula ("CSV parser handles CRLF, escaped quotes, commas, and *)
(* quoted newlines", server/reversal-data.test.mjs).  Of a text that       *)
(* somebody else wrote, no letter is lost when it is accepted.             *)
(***************************************************************************)
CsvIsFaithful == WriterReadsBack /\ NoLetterLost
=============================================================================
