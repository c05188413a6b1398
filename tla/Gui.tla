-------------------------------- MODULE Gui --------------------------------
(* The main window, class MainWindow of gui/main.cpp: the thread of the user *)
(* interface handles one event at a time, a worker waits on cv_ for searches *)
(* and sends its results back as posted events.  A timer waits for a pause   *)
(* in typing.  Status line, tray and progress of rebuilds are left out.      *)
EXTENDS Integers, Sequences

CONSTANTS Texts,       \* what the input field may hold, "" among it
          BadTexts,    \* queries the daemon answers with an error
          MaxEvents,   \* BOUND: events of the user but for closing the window
          SpuriousWakeups \* whether a wait may end without a notify

ASSUME GuiAssumption ==
  /\ "" \in Texts /\ BadTexts \subseteq Texts \ {""}
  /\ MaxEvents \in Nat /\ SpuriousWakeups \in BOOLEAN

VARIABLES
  input_, dirsAct_, filesAct_,  \* the widgets: text, the two check boxes
  timer_,                       \* whether the pause timer runs
  query_, dirsOnly_, filesOnly_, pending_,  \* under gmut_
  running_,
  table_,    \* the question whose rows the table shows
  posted,    \* events the worker has posted: questions with their rows
  gui,       \* where the thread of the interface is
  searcher,  \* where the worker is; it holds gmut_ at "unmet"
  wants,     \* the worker's q, dirs and files
  failed,    \* whether the last search failed (history)
  guiLink,   \* "up", or "lost": the daemon the worker talks to has ended
  events     \* counts the events of the user

settings == <<query_, dirsOnly_, filesOnly_, pending_>>
widgets  == <<input_, dirsAct_, filesAct_>>
guiVars  == <<widgets, timer_, settings, running_, table_, posted, gui, searcher,
              wants, failed, guiLink, events>>

\* What the user asks for, and what the worker would take now.
Shows == [text |-> input_, dirs |-> dirsAct_, files |-> filesAct_]
Takes == [text |-> query_, dirs |-> dirsOnly_, files |-> filesOnly_]
Nothing == [text |-> "", dirs |-> FALSE, files |-> FALSE]

GuiInit ==
  /\ input_ = "" /\ dirsAct_ = FALSE /\ filesAct_ = FALSE /\ timer_ = FALSE
  /\ query_ = "" /\ dirsOnly_ = FALSE /\ filesOnly_ = FALSE /\ pending_ = FALSE
  /\ running_ = TRUE /\ table_ = Nothing /\ posted = << >>
  /\ gui = "events" /\ searcher = "connect" /\ wants = Nothing /\ failed = FALSE
  /\ guiLink = "up" /\ events = 0

\* gmut_ is held over several steps only between a predicate of cv_.wait that
\* did not hold and the wait itself.
MutexFree == searcher # "unmet"

---------------------------------------------------------------------------
(* The thread of the interface.  An event is handled to its end before the   *)
(* next; where it takes gmut_ it may have to wait, which is a step.          *)

\* textChanged starts the timer again.
Edit ==
  /\ gui = "events"
  /\ \E t \in Texts \ {input_} : input_' = t
  /\ events < MaxEvents /\ events' = events + 1
  /\ timer_' = TRUE
  /\ UNCHANGED <<dirsAct_, filesAct_, settings, running_, table_, posted, gui,
                 searcher, wants, failed, guiLink>>

\* 150 ms without a change, or the dialog of the index has been closed.
Pause ==
  /\ gui = "events" /\ gui' = "run"
  /\ timer_ /\ timer_' = FALSE
  /\ UNCHANGED <<widgets, settings, running_, table_, posted, searcher, wants,
                 failed, guiLink, events>>

CloseManage ==
  /\ gui = "events" /\ gui' = "run"
  /\ events < MaxEvents /\ events' = events + 1
  /\ UNCHANGED <<widgets, timer_, settings, running_, table_, posted,
                 searcher, wants, failed, guiLink>>

\* Checking one box unchecks the other first.
Toggle ==
  /\ gui = "events" /\ gui' = "filter"
  /\ events < MaxEvents /\ events' = events + 1
  /\ \/ dirsAct_' = ~dirsAct_ /\ filesAct_' = (filesAct_ /\ dirsAct_)
     \/ filesAct_' = ~filesAct_ /\ dirsAct_' = (dirsAct_ /\ filesAct_)
  /\ UNCHANGED <<input_, timer_, settings, running_, table_, posted, searcher,
                 wants, failed, guiLink>>

\* onFilterChanged, up to its call of runSearch
OnFilterChanged ==
  /\ gui = "filter" /\ MutexFree /\ gui' = "run"
  /\ dirsOnly_' = dirsAct_ /\ filesOnly_' = filesAct_
  /\ UNCHANGED <<widgets, timer_, query_, pending_, running_, table_, posted,
                 searcher, wants, failed, guiLink, events>>

\* Faulty: pending_ is atomic, so it is set without gmut_.
RunSearchUnlocked ==
  /\ gui = "run" /\ gui' = "notify"
  /\ query_' = input_ /\ pending_' = TRUE
  /\ UNCHANGED <<widgets, timer_, dirsOnly_, filesOnly_, running_, table_,
                 posted, searcher, wants, failed, guiLink, events>>

\* runSearch: under gmut_, and then the notification.
RunSearch ==
  /\ gui = "run" /\ MutexFree /\ gui' = "notify"
  /\ query_' = input_ /\ pending_' = TRUE
  /\ UNCHANGED <<widgets, timer_, dirsOnly_, filesOnly_, running_, table_,
                 posted, searcher, wants, failed, guiLink, events>>

Woken == IF searcher = "waiting" THEN "judge" ELSE searcher

NotifyOne ==
  /\ gui = "notify" /\ gui' = "events"
  /\ searcher' = Woken
  /\ UNCHANGED <<widgets, timer_, settings, running_, table_, posted, wants,
                 failed, guiLink, events>>

\* A posted fillTable.
FillTable ==
  /\ gui = "events" /\ posted # << >>
  /\ table_' = Head(posted) /\ posted' = Tail(posted)
  /\ UNCHANGED <<widgets, timer_, settings, running_, gui, searcher, wants,
                 failed, guiLink, events>>

\* The last window is closed or the program is quit: exec returns, and the
\* destructor runs.  notify_all is called without gmut_.
CloseWindow ==
  /\ gui = "events" /\ gui' = "destroy"
  /\ running_' = FALSE
  /\ UNCHANGED <<widgets, timer_, settings, table_, posted, searcher, wants,
                 failed, guiLink, events>>

NotifyAll ==
  /\ gui = "destroy" /\ gui' = "join"
  /\ searcher' = Woken
  /\ UNCHANGED <<widgets, timer_, settings, running_, table_, posted, wants,
                 failed, guiLink, events>>

JoinWorker ==
  /\ gui = "join" /\ searcher = "ended" /\ gui' = "done"
  /\ UNCHANGED <<widgets, timer_, settings, running_, table_, posted,
                 searcher, wants, failed, guiLink, events>>

---------------------------------------------------------------------------
(* The worker, searchLoop.                                                   *)

Connecting ==
  /\ searcher = "connect" /\ searcher' \in {"while", "ended"}
  /\ UNCHANGED <<widgets, timer_, settings, running_, table_, posted, gui,
                 wants, failed, guiLink, events>>

WhileRunning ==
  /\ searcher = "while" /\ searcher' = IF running_ THEN "judge" ELSE "ended"
  /\ UNCHANGED <<widgets, timer_, settings, running_, table_, posted, gui,
                 wants, failed, guiLink, events>>

\* With gmut_: is there something to do?  If not, the wait is still to come.
Unmet ==
  /\ searcher = "judge" /\ ~pending_ /\ running_
  /\ searcher' = "unmet"
  /\ UNCHANGED <<widgets, timer_, settings, running_, table_, posted, gui,
                 wants, failed, guiLink, events>>

Wait ==
  /\ searcher = "unmet" /\ searcher' = "waiting"
  /\ UNCHANGED <<widgets, timer_, settings, running_, table_, posted, gui,
                 wants, failed, guiLink, events>>

WakeUp ==
  /\ SpuriousWakeups /\ searcher = "waiting" /\ searcher' = "judge"
  /\ UNCHANGED <<widgets, timer_, settings, running_, table_, posted, gui,
                 wants, failed, guiLink, events>>

Stopped ==
  /\ searcher = "judge" /\ ~running_ /\ searcher' = "ended"
  /\ UNCHANGED <<widgets, timer_, settings, running_, table_, posted, gui,
                 wants, failed, guiLink, events>>

TakeRequest ==
  /\ searcher = "judge" /\ pending_ /\ running_
  /\ pending_' = FALSE /\ wants' = Takes /\ searcher' = "search"
  /\ UNCHANGED <<widgets, timer_, query_, dirsOnly_, filesOnly_, running_,
                 table_, posted, gui, failed, guiLink, events>>

\* The rows, none for an empty query, are posted.
Found ==
  /\ searcher = "search" /\ searcher' = "while"
  /\ wants.text = "" \/ (guiLink = "up" /\ wants.text \notin BadTexts)
  /\ posted' = Append(posted, wants) /\ failed' = FALSE /\ wants' = Nothing
  /\ UNCHANGED <<widgets, timer_, settings, running_, table_, gui, guiLink,
                 events>>

\* The connection is made anew, or not; the query waits for the next one.
NotFound ==
  /\ searcher = "search" /\ searcher' = "while" /\ wants.text # ""
  /\ guiLink = "lost" \/ wants.text \in BadTexts
  /\ failed' = TRUE /\ wants' = Nothing
  /\ guiLink' \in {"up", "lost"}
  /\ UNCHANGED <<widgets, timer_, settings, running_, table_, posted, gui,
                 events>>

GuiLinkLost ==
  /\ guiLink = "up" /\ guiLink' = "lost"
  /\ UNCHANGED <<widgets, timer_, settings, running_, table_, posted, gui,
                 searcher, wants, failed, events>>

Searcher == Connecting \/ WhileRunning \/ Unmet \/ Wait \/ Stopped \/ TakeRequest
              \/ Found \/ NotFound
UserEvent == Edit \/ CloseManage \/ Toggle \/ CloseWindow
MustRun  == Pause \/ OnFilterChanged \/ RunSearch \/ NotifyOne \/ NotifyAll \/ JoinWorker

GuiNext == UserEvent \/ MustRun \/ FillTable \/ Searcher \/ WakeUp \/ GuiLinkLost

\* Both threads run.  A timer fires and a posted event is handled in the end,
\* whatever other events there are: Qt takes them in turn.  Nor do wake-ups
\* without a notify come so often that runSearch never gets gmut_.
GuiFair == WF_guiVars(Searcher) /\ SF_guiVars(MustRun) /\ SF_guiVars(FillTable)
GuiSpec == GuiInit /\ [][GuiNext]_guiVars /\ GuiFair

---------------------------------------------------------------------------
(* Properties.                                                               *)

Asks == [text : Texts, dirs : BOOLEAN, files : BOOLEAN]

\* Every variable has a value of its kind.
GuiTypeOK ==
  /\ Shows \in Asks /\ Takes \in Asks /\ wants \in Asks /\ table_ \in Asks
  /\ timer_ \in BOOLEAN /\ pending_ \in BOOLEAN /\ running_ \in BOOLEAN
  /\ \A k \in DOMAIN posted : posted[k] \in Asks
  /\ gui \in {"events", "filter", "run", "notify", "destroy", "join", "done"}
  /\ searcher \in {"connect", "while", "judge", "unmet", "waiting", "search", "ended"}
  /\ failed \in BOOLEAN /\ guiLink \in {"up", "lost"}
  /\ events \in 0 .. MaxEvents

NoRows(a, b) == a.text = "" /\ b.text = ""

\* Once the user leaves text and boxes alone, the table comes to show the rows
\* for just these and keeps them, unless that search failed or the program has
\* no daemon or is being left: no notification is lost between the test of
\* pending_ and the wait, and no older answer comes after a newer one.
GuiCatchesUp ==
  <>[]( \/ table_ = Shows \/ NoRows(table_, Shows)
        \/ failed
        \/ searcher = "ended" \/ ~running_ )

\* Closing the window ends the program.  Fails: notify_all is called without
\* gmut_, between the worker's test of running_ and its wait, and join waits
\* for a worker nobody wakes.
GuiQuitEnds == (gui = "destroy") ~> (gui = "done")
============================================================================
