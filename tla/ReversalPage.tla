---------------------------- MODULE ReversalPage -----------------------------
(***************************************************************************)
(* src/ReconciliationPage.tsx: the search page of the reversal dataset.    *)
(* Its filters and offset are React state, which the address bar repeats;  *)
(* the browser's back and forward buttons take the state from the address  *)
(* bar.  What it shows it loads with module UseApi, whose Path is a pair   *)
(* of filters and offset.                                                  *)
(*                                                                         *)
(* The six filters are one text: none, a text, or the same text with       *)
(* blanks around it.  Offsets count rows.                                  *)
(***************************************************************************)
EXTENDS UseApi, Sequences

CONSTANTS
  PageSize,       \* PAGE_SIZE
  Total,          \* how many rows a filter finds
  FirstOffset,    \* offsets a visitor may arrive with
  MaxEntries      \* bound: entries of the browser's history

Text == {"", "text", " text "}

ASSUME ReversalPageAssumption ==
  /\ PageSize \in Nat \ {0} /\ MaxEntries \in Nat \ {0}
  /\ Total \in [Text -> Nat] /\ FirstOffset \subseteq Nat
  /\ Path \subseteq [filters : Text, offset : Nat]

VARIABLES
  draft,      \* the form
  filters, offset,
  entries,    \* the history of the tab: the addresses, or another page
  at          \* the entry shown

pageVars == <<draft, filters, offset, entries, at>>

OtherPage == [filters |-> "other page", offset |-> 0]
Address(f, o) == [filters |-> f, offset |-> o]
Location == entries[at]

\* normalizedFilters
Trimmed(f) == IF f = "" THEN "" ELSE "text"

\* readLocationState
TakesLocation(l) == draft' = l.filters /\ filters' = l.filters /\ offset' = l.offset

PageInit ==
  /\ HookInit
  /\ path.offset \in FirstOffset
  /\ entries = <<path>> /\ at = 1
  /\ draft = path.filters /\ filters = path.filters /\ offset = path.offset

-----------------------------------------------------------------------------
\* A render: useApi runs its effect again only if the query is another one.
Renders(query) == IF query = path THEN UNCHANGED hookVars ELSE Navigate(query)

\* pushState: the entries ahead are gone.
Push(location) ==
  /\ Len(entries) < MaxEntries \/ at < MaxEntries
  /\ entries' = Append(SubSeq(entries, 1, at), location) /\ at' = at + 1

\* The form and the pager are there as soon as there is an answer to show; for
\* an answer without data the page renders neither rows nor an error.
HasRows == mounted /\ data # 0 /\ ~ blank

Type(text) ==
  /\ HasRows /\ text # draft /\ draft' = text
  /\ UNCHANGED <<hookVars, filters, offset, entries, at>>

\* What submit, reset and changePage have in common: the state, a render of it,
\* and updateLocation(linked, o).
Shows(f, o, linked) ==
  /\ filters' = f /\ offset' = o
  /\ Push(Address(linked, o)) /\ Renders(Address(f, o))

Submit == HasRows /\ draft' = Trimmed(draft) /\ Shows(Trimmed(draft), 0, Trimmed(draft))

Reset == HasRows /\ draft' = "" /\ Shows("", 0, "")

\* The rows shown, those of the last answer.
ShownOffset == asked[data].offset
Found       == Total[asked[data].filters]
HasMore     == ShownOffset + PageSize < Found

\* Seeded fault: the address gets the text that has not been submitted.
ChangePageOfDraft(nextOffset) ==
  /\ ~ loading /\ draft' = draft
  /\ Shows(filters, IF nextOffset < 0 THEN 0 ELSE nextOffset, draft)

ChangePage(nextOffset) ==
  /\ ~ loading /\ draft' = draft
  /\ Shows(filters, IF nextOffset < 0 THEN 0 ELSE nextOffset, filters)

PreviousPage == HasRows /\ ShownOffset # 0 /\ ChangePage(ShownOffset - PageSize)

NextPage == HasRows /\ HasMore /\ ChangePage(ShownOffset + PageSize)

-----------------------------------------------------------------------------
\* A link to another page: navigate.
Leave == mounted /\ Push(OtherPage) /\ Unmount /\ UNCHANGED <<draft, filters, offset>>

\* The back and forward buttons, within the page.
OnPopState(i) ==
  /\ mounted /\ at' = i /\ Location' # OtherPage
  /\ TakesLocation(Location') /\ Renders(Location')

\* They leave the page, or come back to it: it is mounted with a new state.
PopAway(i) ==
  /\ mounted /\ at' = i /\ Location' = OtherPage
  /\ Unmount /\ UNCHANGED <<draft, filters, offset>>

PopBack(i) ==
  /\ at' = i /\ Location' # OtherPage
  /\ Mount /\ path' = Location' /\ TakesLocation(Location')

PopState ==
  \E i \in DOMAIN entries \ {at} :
    entries' = entries /\ (OnPopState(i) \/ PopAway(i) \/ PopBack(i))

\* The hook: its effect, the answers, and the retry button.
HookStep ==
  /\ \/ RunEffect
     \/ error # 0 /\ Refetch
     \/ \E n \in flying : Answer(n) \/ Fail(n)
  /\ UNCHANGED pageVars

PageNext ==
  \/ \E text \in Text : Type(text)
  \/ Submit \/ Reset \/ PreviousPage \/ NextPage
  \/ Leave \/ PopState \/ HookStep

PageSpec == PageInit /\ [][PageNext]_<<hookVars, pageVars>>

-----------------------------------------------------------------------------
(***************************************************************************)
(* The address bar is what the page is about: a link that is copied, and   *)
(* every entry one goes back to, shows what was shown there.  Once loading *)
(* has ended without an error the answer shown is to what the address asks *)
(* for, whatever is typed, submitted, paged and gone back to meanwhile;    *)
(* its rows, if the response was readable.                                 *)
(***************************************************************************)
PageFollowsLocation ==
  /\ mounted => Location = Address(filters, offset) /\ path = Location
  /\ mounted /\ ~ loading /\ ~ due /\ error = 0 => asked[data] = Location
=============================================================================
