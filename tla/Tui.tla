-------------------------------- MODULE Tui --------------------------------
(* The terminal user interface, tui/main.cpp: the main thread draws and      *)
(* handles one key per turn, a worker thread looks every 100 ms whether a    *)
(* search is wanted.  The query, the sort order and the results have a mutex *)
(* each; g_needSearch and g_run are atomic.  A section under a mutex is one  *)
(* action.  The status line and colours are left out, and with them the      *)
(* statistics the worker asks for.                                           *)
EXTENDS Integers, Sequences

CONSTANTS Letters,   \* characters that can be typed
          MaxLen,    \* BOUND: characters in a query
          MaxRows,   \* rows of the longest answer (2000 in the code)
          Heights,   \* numbers of rows the terminal may have room for
          Refused,   \* queries the daemon answers with an error
          MaxAsks    \* BOUND: keys that change what is asked for

ASSUME TuiAssumption ==
  /\ MaxLen \in Nat /\ MaxRows \in Nat /\ MaxAsks \in Nat
  /\ Heights \subseteq Nat \ {0}

VARIABLES
  g_query, g_sort, g_reverse,   \* what is asked for
  g_needSearch, g_run,          \* the atomics
  g_results,                    \* [of |-> the question, n |-> how many rows]
  g_cursor, g_scroll,           \* the selected row, the first row drawn
  ui,        \* where the main thread is: "draw" "key" "flag" "join" "done"
  rows,      \* rows there was room for at the last draw
  drawn,     \* whether g_results is what was drawn last (history)
  worker,    \* where the worker is
  asks,      \* the worker's q, sort and reverse while it has them
  refused,   \* the question of the last search that failed (history)
  link,      \* "up", or "lost" once the daemon the worker talks to has ended
  keys       \* counts the keys that changed what is asked for

question == <<g_query, g_sort, g_reverse>>
listing  == <<g_results, g_cursor, g_scroll>>
tuiVars  == <<question, g_needSearch, g_run, listing, ui, rows, drawn, worker,
              asks, refused, link, keys>>

Asked == [query |-> g_query, sort |-> g_sort, reverse |-> g_reverse]
NoQuestion == [query |-> << >>, sort |-> "Name", reverse |-> FALSE]

TuiInit ==
  /\ g_query = << >> /\ g_sort = "Name" /\ g_reverse = FALSE
  /\ g_needSearch = TRUE /\ g_run = TRUE
  /\ g_results = [of |-> NoQuestion, n |-> 0] /\ g_cursor = 0 /\ g_scroll = 0
  /\ ui = "draw" /\ rows \in Heights /\ drawn = FALSE
  /\ worker = "connect" /\ asks = NoQuestion /\ refused = << >>
  /\ link = "up" /\ keys = 0

---------------------------------------------------------------------------
(* The main thread.                                                          *)

\* A turn begins with the size of the window and ends with the wait for a key.
Draw ==
  /\ ui = "draw" /\ ui' = "key"
  /\ rows' \in Heights
  /\ g_scroll' = IF g_scroll + rows' > g_results.n /\ g_results.n > rows'
                 THEN g_results.n - rows' ELSE g_scroll
  /\ drawn' = TRUE
  /\ UNCHANGED <<question, g_needSearch, g_run, g_results, g_cursor, worker,
                 asks, refused, link, keys>>

\* No key, a key that does nothing, or KEY_RESIZE.
NoKey ==
  /\ ui = "key" /\ ui' = "draw"
  /\ UNCHANGED <<question, g_needSearch, g_run, listing, rows, drawn, worker,
                 asks, refused, link, keys>>

\* Where a key moves the selection, as <<cursor, scroll>>.
LastRow == IF g_results.n = 0 THEN 0 ELSE g_results.n - 1
Paged(c) == <<c, c>>
Moved(key) ==
  CASE key = "up" /\ g_cursor > 0 ->
         <<g_cursor - 1, IF g_cursor - 1 < g_scroll THEN g_cursor - 1 ELSE g_scroll>>
    [] key = "down" /\ g_cursor + 1 < g_results.n ->
         <<g_cursor + 1, IF g_cursor + 1 >= g_scroll + rows THEN g_scroll + 1 ELSE g_scroll>>
    [] key = "page up" -> Paged(IF g_cursor < rows THEN 0 ELSE g_cursor - rows)
    [] key = "page down" -> Paged(IF g_cursor + rows >= g_results.n THEN LastRow ELSE g_cursor + rows)
    [] key = "home" -> <<0, 0>>
    [] key = "end" /\ g_results.n > 0 -> Paged(LastRow)
    [] OTHER -> <<g_cursor, g_scroll>>

MoveKey ==
  /\ ui = "key" /\ ui' = "draw"
  /\ \E key \in {"up", "down", "page up", "page down", "home", "end"} :
       g_cursor' = Moved(key)[1] /\ g_scroll' = Moved(key)[2]
  /\ UNCHANGED <<question, g_needSearch, g_run, g_results, rows, drawn, worker,
                 asks, refused, link, keys>>

\* Enter: the row under the cursor as it is now.
OpenSelected ==
  /\ ui = "key" /\ ui' = "draw"
  /\ g_cursor < g_results.n
  /\ UNCHANGED <<question, g_needSearch, g_run, listing, rows, drawn, worker,
                 asks, refused, link, keys>>

\* A character, Backspace or Esc; the flag is set before g_qmut is released.
EditQuery ==
  /\ ui = "key" /\ ui' = "draw" /\ keys < MaxAsks /\ keys' = keys + 1
  /\ \/ \E l \in Letters : Len(g_query) < MaxLen /\ g_query' = Append(g_query, l)
     \/ g_query' = IF g_query = << >> THEN << >> ELSE SubSeq(g_query, 1, Len(g_query) - 1)
     \/ g_query' = << >>
  /\ g_needSearch' = TRUE
  /\ UNCHANGED <<g_sort, g_reverse, g_run, listing, rows, drawn, worker, asks,
                 refused, link>>

NextSort == [Name |-> "Size", Size |-> "Mtime", Mtime |-> "Path", Path |-> "Name"]

\* F6 and F7 release g_smut before they set the flag, in Flag.
EditSort ==
  /\ ui = "key" /\ ui' = "flag" /\ keys < MaxAsks /\ keys' = keys + 1
  /\ \/ g_sort' = NextSort[g_sort] /\ UNCHANGED g_reverse
     \/ g_reverse' = ~g_reverse /\ UNCHANGED g_sort
  /\ UNCHANGED <<g_query, g_needSearch, g_run, listing, rows, drawn, worker,
                 asks, refused, link>>

Flag ==
  /\ ui = "flag" /\ ui' = "draw"
  /\ g_needSearch' = TRUE
  /\ UNCHANGED <<question, g_run, listing, rows, drawn, worker, asks, refused,
                 link, keys>>

\* Ctrl+C or Ctrl+Q, then the join.
Quit ==
  /\ ui = "key" /\ ui' = "join"
  /\ g_run' = FALSE
  /\ UNCHANGED <<question, g_needSearch, listing, rows, drawn, worker, asks,
                 refused, link, keys>>

Join ==
  /\ ui = "join" /\ worker = "ended" /\ ui' = "done"
  /\ UNCHANGED <<question, g_needSearch, g_run, listing, rows, drawn, worker,
                 asks, refused, link, keys>>

---------------------------------------------------------------------------
(* The worker.                                                               *)

\* connectOrSpawn, once: without a daemon the worker returns for good.
ConnectOnce ==
  /\ worker = "connect" /\ worker' \in {"loop", "ended"}
  /\ UNCHANGED <<question, g_needSearch, g_run, listing, ui, rows, drawn, asks,
                 refused, link, keys>>

\* Faulty: a loop that does not look at g_run.
WhileTrue ==
  /\ worker = "loop" /\ worker' = "poll"
  /\ UNCHANGED <<question, g_needSearch, g_run, listing, ui, rows, drawn, asks,
                 refused, link, keys>>

WhileRun ==
  /\ worker = "loop" /\ worker' = IF g_run THEN "poll" ELSE "ended"
  /\ UNCHANGED <<question, g_needSearch, g_run, listing, ui, rows, drawn, asks,
                 refused, link, keys>>

\* g_needSearch.exchange(false)
TakeFlag ==
  /\ worker = "poll" /\ worker' = IF g_needSearch THEN "query" ELSE "loop"
  /\ g_needSearch' = FALSE
  /\ UNCHANGED <<question, g_run, listing, ui, rows, drawn, asks, refused, link, keys>>

ReadQuery ==
  /\ worker = "query" /\ asks' = [asks EXCEPT !.query = g_query]
  /\ worker' = IF g_query = << >> THEN "clear" ELSE "sort"
  /\ UNCHANGED <<question, g_needSearch, g_run, listing, ui, rows, drawn,
                 refused, link, keys>>

Clear ==
  /\ worker = "clear" /\ worker' = "loop"
  /\ g_results' = [of |-> asks, n |-> 0] /\ g_cursor' = 0 /\ g_scroll' = 0
  /\ drawn' = FALSE /\ asks' = NoQuestion
  /\ UNCHANGED <<question, g_needSearch, g_run, ui, rows, refused, link, keys>>

ReadSort ==
  /\ worker = "sort" /\ worker' = "search"
  /\ asks' = [asks EXCEPT !.sort = g_sort, !.reverse = g_reverse]
  /\ UNCHANGED <<question, g_needSearch, g_run, listing, ui, rows, drawn,
                 refused, link, keys>>

\* Faulty: the flag is reset once the search is done.
SwapInResets ==
  /\ worker = "search" /\ worker' = "loop"
  /\ link = "up" /\ asks.query \notin Refused
  /\ \E n \in 0 .. MaxRows : g_results' = [of |-> asks, n |-> n]
  /\ g_cursor' = 0 /\ g_scroll' = 0 /\ g_needSearch' = FALSE
  /\ drawn' = FALSE /\ asks' = NoQuestion
  /\ UNCHANGED <<question, g_run, ui, rows, refused, link, keys>>

\* Faulty: the first row drawn is left where it is.
SwapInUnscrolled ==
  /\ worker = "search" /\ worker' = "loop"
  /\ link = "up" /\ asks.query \notin Refused
  /\ \E n \in 0 .. MaxRows :
       /\ g_results' = [of |-> asks, n |-> n]
       /\ g_cursor' = IF g_cursor < n THEN g_cursor ELSE IF n = 0 THEN 0 ELSE n - 1
  /\ drawn' = FALSE /\ asks' = NoQuestion
  /\ UNCHANGED <<question, g_needSearch, g_run, g_scroll, ui, rows, refused, link, keys>>

\* The answer is put in place of the old rows; the cursor stays if it can.
SwapIn ==
  /\ worker = "search" /\ worker' = "loop"
  /\ link = "up" /\ asks.query \notin Refused
  /\ \E n \in 0 .. MaxRows :
       /\ g_results' = [of |-> asks, n |-> n]
       /\ g_cursor' = IF g_cursor < n THEN g_cursor ELSE IF n = 0 THEN 0 ELSE n - 1
  /\ g_scroll' = IF g_scroll > g_cursor' THEN g_cursor' ELSE g_scroll
  /\ drawn' = FALSE /\ asks' = NoQuestion
  /\ UNCHANGED <<question, g_needSearch, g_run, ui, rows, refused, link, keys>>

\* An error is only shown: the old rows stay, the connection is not made anew.
SearchFails ==
  /\ worker = "search" /\ worker' = "loop"
  /\ link = "lost" \/ asks.query \in Refused
  /\ refused' = asks /\ asks' = NoQuestion
  /\ UNCHANGED <<question, g_needSearch, g_run, listing, ui, rows, drawn, link, keys>>

LinkLost ==
  /\ link = "up" /\ link' = "lost"
  /\ UNCHANGED <<question, g_needSearch, g_run, listing, ui, rows, drawn, worker,
                 asks, refused, keys>>

Worker == ConnectOnce \/ WhileRun \/ TakeFlag \/ ReadQuery \/ Clear \/ ReadSort
            \/ SwapIn \/ SearchFails
Key == NoKey \/ MoveKey \/ OpenSelected \/ EditQuery \/ EditSort \/ Quit

TuiNext == Draw \/ Key \/ Flag \/ Join \/ Worker \/ LinkLost

\* The two threads run; nobody has to press a key, or Quit.
TuiFair == WF_tuiVars(Worker) /\ WF_tuiVars(Draw \/ Flag \/ Join)
TuiSpec == TuiInit /\ [][TuiNext]_tuiVars /\ TuiFair

---------------------------------------------------------------------------
(* Properties.                                                               *)

Questions == [query : UNION {[1 .. k -> Letters] : k \in 0 .. MaxLen},
              sort : DOMAIN NextSort, reverse : BOOLEAN]

\* Every variable has a value of its kind.
TuiTypeOK ==
  /\ Asked \in Questions /\ asks \in Questions
  /\ g_needSearch \in BOOLEAN /\ g_run \in BOOLEAN /\ drawn \in BOOLEAN
  /\ g_results \in [of : Questions, n : 0 .. MaxRows]
  /\ g_cursor \in 0 .. MaxRows /\ g_scroll \in 0 .. MaxRows
  /\ ui \in {"draw", "key", "flag", "join", "done"}
  /\ worker \in {"connect", "loop", "poll", "query", "clear", "sort", "search", "ended"}
  /\ rows \in Heights /\ link \in {"up", "lost"} /\ keys \in 0 .. MaxAsks
  /\ refused \in Questions \cup {<< >>}

\* For no query there is nothing to sort.
SameQuestion(a, b) == a = b \/ (a.query = << >> /\ b.query = << >>)

\* Once the user has stopped changing query and order, the list comes to be
\* the answer to just that and stays so, unless that search failed, there was
\* no daemon, or the program is being left.  A key during a search, or between
\* the worker's look at the flag and at the query, is not lost.
TuiCatchesUp ==
  <>[]( \/ SameQuestion(g_results.of, Asked)
        \/ refused # << >> /\ SameQuestion(refused, Asked)
        \/ worker = "ended" \/ ~g_run )

InBounds == g_cursor < g_results.n \/ g_cursor = 0
InView   == g_scroll <= g_cursor /\ g_cursor < g_scroll + rows

\* The worker puts in other rows while the user moves among them: the selected
\* row is always one of the list, and as long as the window does not shrink no
\* step of either thread takes it out of the rows that are drawn.
SelectionInView == []InBounds /\ [][InView /\ rows' >= rows => InView']_tuiVars

\* Quitting ends, whatever the worker is at.
TuiQuitEnds == (ui = "join") ~> (ui = "done")

\* Enter opens what was drawn under the cursor.  Fails: between the draw and
\* the key the worker may have put other rows in place.
OpensWhatIsDrawn == [][OpenSelected => drawn]_tuiVars

\* The selection is always drawn.  Fails once the window shrinks.
AlwaysInView == [](ui = "key" => InView)
============================================================================
