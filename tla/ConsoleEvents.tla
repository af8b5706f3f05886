----------------------------- MODULE ConsoleEvents -----------------------------
(***************************************************************************)
(* The Events page (events/page.jsx): a table that reloads every five      *)
(* seconds, pages of older rows appended to it, filters that reload it,    *)
(* and answers that come back in any order.  Rows are abstracted to the    *)
(* view (address filter and window) they were asked for.                   *)
(***************************************************************************)
EXTENDS Naturals, FiniteSets

CONSTANTS
  View,       \* address filter and window
  Request,    \* bound: requests on their way at once
  Idle,       \* no request
  MaxOlder,   \* bound: older pages
  MaxMoves    \* bound: what the operator does

ASSUME EventsConstants ==
  {MaxOlder, MaxMoves} \subseteq Nat /\ View # {} /\ Idle \notin View

VARIABLES
  view, frozen,
  table,      \* [newest |-> view of the first page, pages |-> views of the older ones]
  cursor,     \* there is more
  older,      \* how many older pages were appended
  loading,
  asked,      \* per request: [kind, view]
  moves

eventsVars == <<view, frozen, table, cursor, older, loading, asked, moves>>

EventsTypeOK ==
  /\ view \in View /\ {frozen, cursor, loading} \subseteq BOOLEAN
  /\ table.newest \in View \cup {Idle} /\ table.pages \subseteq View
  /\ older \in 0..MaxOlder /\ moves \in 0..MaxMoves
  /\ \A r \in Request : asked[r] = Idle \/ (asked[r].kind \in {"load", "older"} /\ asked[r].view \in View)

\* The effect loads as soon as the page is there.
EventsInit ==
  /\ view \in View /\ frozen = FALSE
  /\ table = [newest |-> Idle, pages |-> {}]
  /\ cursor = FALSE /\ older = 0 /\ loading = TRUE /\ moves = 0
  /\ \E r \in Request :
       asked = [q \in Request |-> IF q = r THEN [kind |-> "load", view |-> view] ELSE Idle]

live == ~frozen /\ older = 0

AskPage(kind, v) ==
  /\ loading' = TRUE
  /\ \E r \in Request :
       /\ asked[r] = Idle
       /\ asked' = [asked EXCEPT ![r] = [kind |-> kind, view |-> v]]

Move == moves < MaxMoves /\ moves' = moves + 1

\* Mutant: the interval keeps the view it was started with.
ReloadStale ==
  /\ live
  /\ AskPage("load", IF table.newest = Idle THEN view ELSE table.newest)
  /\ UNCHANGED <<view, frozen, table, cursor, older, moves>>

\* The interval, which starts anew with every view.
Reload ==
  /\ live
  /\ AskPage("load", view)
  /\ UNCHANGED <<view, frozen, table, cursor, older, moves>>

\* An address or a window is chosen, here or through the URL; the effect loads.
SetView(v) ==
  /\ Move /\ v # view
  /\ view' = v
  /\ AskPage("load", v)
  /\ UNCHANGED <<frozen, table, cursor, older>>

\* Freezing the table, or pausing the console.
Freeze ==
  /\ Move
  /\ frozen' = ~frozen
  /\ UNCHANGED <<view, table, cursor, older, loading, asked>>

LoadOlder ==
  /\ Move /\ cursor /\ ~loading /\ older < MaxOlder
  /\ AskPage("older", view)
  /\ UNCHANGED <<view, frozen, table, cursor, older>>

\* Whatever is shown by then, the answer replaces it.
LoadArrives(r) ==
  /\ asked[r] # Idle /\ asked[r].kind = "load"
  /\ table' = [newest |-> asked[r].view, pages |-> {}]
  /\ cursor' \in BOOLEAN
  /\ older' = 0
  /\ loading' = FALSE
  /\ asked' = [asked EXCEPT ![r] = Idle]
  /\ UNCHANGED <<view, frozen, moves>>

OlderArrives(r) ==
  /\ asked[r] # Idle /\ asked[r].kind = "older"
  /\ table' = [table EXCEPT !.pages = @ \cup {asked[r].view}]
  /\ cursor' \in BOOLEAN
  /\ older' = IF older < MaxOlder THEN older + 1 ELSE older
  /\ loading' = FALSE
  /\ asked' = [asked EXCEPT ![r] = Idle]
  /\ UNCHANGED <<view, frozen, moves>>

Lost(r) ==
  /\ asked[r] # Idle /\ Move
  /\ loading' = FALSE
  /\ asked' = [asked EXCEPT ![r] = Idle]
  /\ UNCHANGED <<view, frozen, table, cursor, older>>

EventsNext ==
  \/ Reload \/ Freeze \/ LoadOlder
  \/ \E v \in View : SetView(v)
  \/ \E r \in Request : LoadArrives(r) \/ OlderArrives(r) \/ Lost(r)

\* The interval fires, and what was asked is answered or lost in the end.
EventsFairness ==
  /\ WF_eventsVars(Reload)
  /\ \A r \in Request : WF_eventsVars(LoadArrives(r)) /\ WF_eventsVars(OlderArrives(r))

EventsSpec == EventsInit /\ [][EventsNext]_eventsVars /\ EventsFairness

-----------------------------------------------------------------------------

\* However late the answers for earlier filters come in, a table that is neither
\* frozen nor paged ends up showing the filter that is set, and stays with it.
TableFollows == <>[]live => <>[](table = [newest |-> view, pages |-> {}])

\* Inductive: a table that is not paged shows the rows of one view only, in
\* whatever order the answers for that view and for others came in.
EventsInv ==
  /\ EventsTypeOK
  /\ table \in [newest : View \cup {Idle}, pages : SUBSET View]
  /\ asked = [r \in Request |-> asked[r]]
  /\ older = 0 <=> table.pages = {}
  /\ MaxOlder = 0 => \A r \in Request : asked[r] # Idle => asked[r].kind = "load"
=============================================================================
