------------------------------- MODULE Palette -------------------------------
(***************************************************************************)
(* CommandPalette: a search box over the catalog.  Typing starts a timer,  *)
(* the timer a request, and every answer is put on display when it comes:  *)
(* no request is cancelled, and closing the palette stops neither timer    *)
(* nor request.                                                            *)
(*                                                                         *)
(* An item is known by the query it answers and its index: the catalog     *)
(* stands still here.  What choosing an item does to the tab and to the    *)
(* selection is PaletteSelects of Registry.                                *)
(***************************************************************************)
EXTENDS Integers, Sequences, SequencesExt

CONSTANTS
  Queries,    \* what can be searched for; blank queries are one, Blank
  Blank,
  PageSize,   \* the most items of an answer, 12 in the program
  Count,      \* the number of items a query is answered with
  MaxInFlight \* bound on the requests under way

ASSUME PaletteAssumption ==
  /\ Blank \notin Queries
  /\ PageSize \in Nat \ {0} /\ Count \in [Queries -> 0 .. PageSize]
  /\ MaxInFlight \in Nat \ {0}

VARIABLES
  open,
  query,
  results,     \* what is listed, and how it came: see Answer
  activeIndex,
  loading,
  timer,       \* the query of debounceRef's timer, Blank without one
  inFlight     \* the requests under way, oldest first

paletteVars == <<open, query, results, activeIndex, loading, timer, inFlight>>

\* The history of a request: whether the query was blanked, or the palette
\* opened, after it was sent, and whether a later request was answered first.
Request == [query : Queries, orphan : BOOLEAN, overtaken : BOOLEAN]

Nothing == [query |-> Blank, orphan |-> FALSE, overtaken |-> FALSE]

Length == IF results.query = Blank THEN 0 ELSE Count[results.query]

PaletteTypeOK ==
  /\ open \in BOOLEAN /\ loading \in BOOLEAN
  /\ query \in Queries \cup {Blank} /\ timer \in Queries \cup {Blank}
  /\ results \in Request \cup [query : {Blank}, orphan : BOOLEAN, overtaken : BOOLEAN]
  /\ activeIndex \in -1 .. PageSize - 1
  /\ inFlight \in Seq(Request) /\ Len(inFlight) <= MaxInFlight

PaletteInit ==
  /\ open = FALSE /\ query = Blank /\ results = Nothing /\ activeIndex = 0
  /\ loading = FALSE /\ timer = Blank /\ inFlight = <<>>

-----------------------------------------------------------------------------
Orphaned == [i \in DOMAIN inFlight |-> [inFlight[i] EXCEPT !.orphan = TRUE]]

\* Ctrl+K.  Two renders and their effects: the old query starts a timer that
\* the reset stops again.
Open ==
  /\ ~open
  /\ open' = TRUE /\ query' = Blank /\ results' = Nothing /\ activeIndex' = 0
  /\ timer' = Blank /\ inFlight' = Orphaned
  /\ UNCHANGED loading

\* Escape, or Ctrl+K again.
Dismiss ==
  /\ open /\ open' = FALSE
  /\ UNCHANGED <<query, results, activeIndex, loading, timer, inFlight>>

\* A click outside, or the end of selectResult.
close ==
  /\ open' = FALSE /\ query' = Blank /\ results' = Nothing
  /\ UNCHANGED <<activeIndex, loading, timer, inFlight>>

ClickOutside == open /\ close

\* A plausible bug: a timer that runs is left to run.
TypeBehindTimer(q) ==
  /\ open /\ q # query /\ query' = q
  /\ timer' = IF q # Blank /\ timer # Blank THEN timer ELSE q
  /\ IF q = Blank THEN results' = Nothing /\ inFlight' = Orphaned
     ELSE UNCHANGED <<results, inFlight>>
  /\ UNCHANGED <<open, activeIndex, loading>>

\* A keystroke, and the search effect.
Type(q) ==
  /\ open /\ q # query /\ query' = q
  /\ timer' = q
  /\ IF q = Blank THEN results' = Nothing /\ inFlight' = Orphaned
     ELSE UNCHANGED <<results, inFlight>>
  /\ UNCHANGED <<open, activeIndex, loading>>

\* 200 ms later, whether the palette is open or not.
Search ==
  /\ timer # Blank /\ Len(inFlight) < MaxInFlight
  /\ timer' = Blank /\ loading' = TRUE
  /\ inFlight' = Append(inFlight, [query |-> timer, orphan |-> FALSE,
                                   overtaken |-> FALSE])
  /\ UNCHANGED <<open, query, results, activeIndex>>

\* The requests left once the i-th is answered: those before it are overtaken.
Without(i) ==
  RemoveAt([j \in DOMAIN inFlight |->
              IF j < i THEN [inFlight[j] EXCEPT !.overtaken = TRUE]
              ELSE inFlight[j]], i)

\* A plausible bug: the highlight stays where it was.
ShowUnder(found) == results' = found /\ UNCHANGED activeIndex

Show(found) == results' = found /\ activeIndex' = 0

Answer(i) ==
  /\ inFlight' = Without(i)
  /\ Show(inFlight[i])
  /\ loading' = FALSE
  /\ UNCHANGED <<open, query, timer>>

\* A failure is shown as no results.
Fail(i) ==
  /\ inFlight' = Without(i)
  /\ Show([inFlight[i] EXCEPT !.query = Blank])
  /\ loading' = FALSE
  /\ UNCHANGED <<open, query, timer>>

-----------------------------------------------------------------------------
(* Keys and mouse. *)

\* On an empty list the index becomes -1.
ArrowDown ==
  /\ open
  /\ activeIndex' = IF activeIndex + 1 < Length THEN activeIndex + 1 ELSE Length - 1
  /\ UNCHANGED <<open, query, results, loading, timer, inFlight>>

ArrowUp ==
  /\ open
  /\ activeIndex' = IF activeIndex > 0 THEN activeIndex - 1 ELSE 0
  /\ UNCHANGED <<open, query, results, loading, timer, inFlight>>

\* While a search is under way the list is not rendered.
Listed == IF open /\ ~loading THEN 0 .. Length - 1 ELSE {}

Hover(idx) ==
  /\ idx \in Listed /\ activeIndex' = idx
  /\ UNCHANGED <<open, query, results, loading, timer, inFlight>>

\* selectResult, by Enter, which asks for no list on display, or by a click.
Enter == open /\ activeIndex \in 0 .. Length - 1 /\ close

Click(idx) == idx \in Listed /\ close

-----------------------------------------------------------------------------
Indices == 0 .. PageSize - 1

User ==
  \/ Open \/ Dismiss \/ ClickOutside \/ ArrowDown \/ ArrowUp \/ Enter
  \/ \E q \in Queries \cup {Blank} : Type(q)
  \/ \E idx \in Indices : Hover(idx) \/ Click(idx)

Network == \E i \in DOMAIN inFlight : Answer(i) \/ Fail(i)

PaletteNext == User \/ Search \/ Network

PaletteSpec == PaletteInit /\ [][PaletteNext]_paletteVars

-----------------------------------------------------------------------------
(* Properties. *)

\* Once the timer and the requests are through, what is listed answers the
\* query in the box, unless a later request was answered before an earlier
\* one, whose answer then stays; or the request failed.  Under an empty box
\* nothing is listed but the answer to a request that was already under way
\* when the box was emptied or the palette opened.
ListAnswersQuery ==
  open =>
    IF query = Blank THEN results.query = Blank \/ results.orphan
    ELSE timer = Blank /\ inFlight = <<>> =>
           results.query \in {query, Blank} \/ results.overtaken

\* The highlighted item is one of the list, whatever was listed when the arrow
\* keys moved it.
HighlightListed == Length > 0 => activeIndex \in 0 .. Length - 1

(* The invariant. *)

\* Under an empty box there is no timer, and every request is from before the
\* box was emptied or the palette opened.
BlankStartsNothing ==
  open /\ query = Blank =>
    /\ timer = Blank
    /\ \A i \in DOMAIN inFlight : inFlight[i].orphan
    /\ results.query = Blank \/ results.orphan

\* The query in the box is on its way to the list, as a timer or as the latest
\* request, or was answered.
QueryIsFollowed ==
  open /\ query # Blank =>
    \/ timer = query
    \/ timer = Blank /\ inFlight # <<>> /\ Last(inFlight).query = query
    \/ /\ timer = Blank
       /\ \A i \in DOMAIN inFlight : inFlight[i].overtaken
       /\ results.query \in {query, Blank} \/ results.overtaken

PaletteInv == PaletteTypeOK /\ BlankStartsNothing /\ QueryIsFollowed /\ HighlightListed
=============================================================================
