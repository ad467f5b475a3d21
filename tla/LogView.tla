------------------------------ MODULE LogView ------------------------------
(***************************************************************************)
(* The logger page of the desktop application: the lines the client leaves *)
(* with its handle, the store the timer drains them into, the rows of the  *)
(* page, and the cursor that says how much of the store the rows show, so  *)
(* that new lines are appended instead of all rows being made again.       *)
(*                                                                         *)
(* A line is a number, larger for a later one of the client and 0 for one  *)
(* of the window itself; a row is a line and the query it was highlighted  *)
(* with.  All but LvClientLogs runs on the event loop, one handler a step. *)
(***************************************************************************)
EXTENDS Integers, Sequences

CONSTANTS
    LvMaxLogLines,  \* MAX_LOG_LINES
    LvMaxPending,   \* MAX_PENDING
    LvLast,         \* bound: lines of the client
    LvMaxEpoch,     \* bound: the epoch in which the window still adds or clears
    LvQueries

ASSUME LvAssumption ==
    /\ LvMaxLogLines \in Nat \ {0} /\ LvMaxPending \in Nat \ {0}
    /\ LvLast \in Nat /\ LvMaxEpoch \in Nat /\ "" \in LvQueries

VARIABLES
    lvNext,         \* the next line of the client
    lvPending,      \* Inner::pending_logs
    lvStore,        \* LogStore::entries
    lvEpoch,        \* LogStore::epoch
    lvCursor,       \* the UiSyncCursor
    lvRows,         \* the rows of the page
    lvQuery,        \* the search field
    lvPage,         \* the logger page is open
    lvTurned,       \* the callback page-changed is due
    lvFlush         \* PENDING of schedule_log_flush: a flush is due

lvVars == <<lvNext, lvPending, lvStore, lvEpoch, lvCursor, lvRows, lvQuery, lvPage, lvTurned, lvFlush>>

LvStart == [epoch |-> 0, len |-> 0]

LvInit ==
    /\ lvNext = 1 /\ lvPending = <<>> /\ lvStore = <<>> /\ lvEpoch = 0
    /\ lvCursor = LvStart /\ lvRows = <<>> /\ lvQuery = ""
    /\ lvPage = FALSE /\ lvTurned = FALSE /\ lvFlush = FALSE

-----------------------------------------------------------------------------
(* The lines.                                                              *)

LvNewest(s, n) == SubSeq(s, IF Len(s) > n THEN Len(s) - n + 1 ELSE 1, Len(s))

\* enqueue_log: the oldest line goes when the queue is full.
LvClientLogs ==
    /\ lvNext <= LvLast
    /\ lvPending' = LvNewest(lvPending, LvMaxPending - 1) \o <<lvNext>> /\ lvNext' = lvNext + 1
    /\ UNCHANGED <<lvStore, lvEpoch, lvCursor, lvRows, lvQuery, lvPage, lvTurned, lvFlush>>

\* MUTANT: lines are trimmed without a new epoch.
LvPushLogsSilently(lines) ==
    /\ lvStore' = LvNewest(lvStore \o lines, LvMaxLogLines) /\ UNCHANGED lvEpoch
    /\ lvFlush' = (lvFlush \/ lvPage)

\* push_logs: push_many_raw, trim, and a flush if the page is open.
LvPushLogs(lines) ==
    /\ lvStore' = LvNewest(lvStore \o lines, LvMaxLogLines)
    /\ lvEpoch' = IF Len(lvStore \o lines) > LvMaxLogLines THEN lvEpoch + 1 ELSE lvEpoch
    /\ lvFlush' = (lvFlush \/ lvPage)

\* The timer: drain_logs and push_logs.
LvTick ==
    /\ lvPending # <<>>
    /\ LvPushLogs(lvPending) /\ lvPending' = <<>>
    /\ UNCHANGED <<lvNext, lvCursor, lvRows, lvQuery, lvPage, lvTurned>>

\* push_log from a handler of the window.
LvWindowLogs ==
    /\ lvEpoch < LvMaxEpoch /\ LvPushLogs(<<0>>)
    /\ UNCHANGED <<lvNext, lvPending, lvCursor, lvRows, lvQuery, lvPage, lvTurned>>

-----------------------------------------------------------------------------
(* The page.                                                               *)

LvRowsFor(lines, q) == [i \in DOMAIN lines |-> [line |-> lines[i], query |-> q]]
LvSynced == [epoch |-> lvEpoch, len |-> Len(lvStore)]

\* append_to_model when the cursor is of this epoch and fits the rows, to_model if not.
LvFlushLogs ==
    /\ lvRows' = IF /\ lvCursor.epoch = lvEpoch /\ Len(lvRows) = lvCursor.len
                    /\ lvCursor.len <= Len(lvStore)
                 THEN lvRows \o LvRowsFor(SubSeq(lvStore, lvCursor.len + 1, Len(lvStore)), lvQuery)
                 ELSE LvRowsFor(lvStore, lvQuery)
    /\ lvCursor' = LvSynced

\* The single-shot timer of schedule_log_flush.
LvFlushDue ==
    /\ lvFlush /\ lvFlush' = FALSE
    /\ IF lvPage THEN LvFlushLogs ELSE UNCHANGED <<lvRows, lvCursor>>
    /\ UNCHANGED <<lvNext, lvPending, lvStore, lvEpoch, lvQuery, lvPage, lvTurned>>

\* The user opens or leaves the page; the callback comes with the next turn of the loop.
LvTurnPage ==
    /\ lvPage' = ~lvPage /\ lvTurned' = TRUE
    /\ UNCHANGED <<lvNext, lvPending, lvStore, lvEpoch, lvCursor, lvRows, lvQuery, lvFlush>>

\* on_page_changed.
LvPageChanged ==
    /\ lvTurned /\ lvTurned' = FALSE
    /\ IF lvPage THEN LvFlushLogs ELSE lvRows' = <<>> /\ lvCursor' = LvStart
    /\ UNCHANGED <<lvNext, lvPending, lvStore, lvEpoch, lvQuery, lvPage, lvFlush>>

\* on_logs_clear: LogStore::clear, the cursor, and empty rows.
LvLogsClear ==
    /\ lvPage /\ lvEpoch < LvMaxEpoch
    /\ lvStore' = <<>> /\ lvEpoch' = lvEpoch + 1 /\ lvRows' = <<>>
    /\ lvCursor' = [epoch |-> lvEpoch + 1, len |-> 0]
    /\ UNCHANGED <<lvNext, lvPending, lvQuery, lvPage, lvTurned, lvFlush>>

\* on_log_query_edited: all rows again, with the new query.
LvQueryEdited(q) ==
    /\ lvPage /\ lvQuery' = q
    /\ lvRows' = LvRowsFor(lvStore, q) /\ lvCursor' = LvSynced
    /\ UNCHANGED <<lvNext, lvPending, lvStore, lvEpoch, lvPage, lvTurned, lvFlush>>

LvNextStep ==
    \/ LvClientLogs \/ LvTick \/ LvWindowLogs \/ LvFlushDue \/ LvTurnPage \/ LvPageChanged
    \/ LvLogsClear \/ \E q \in LvQueries : LvQueryEdited(q)

\* The event loop runs: its timers fire and its callbacks are called.
LvFairness == WF_lvVars(LvTick) /\ WF_lvVars(LvFlushDue) /\ WF_lvVars(LvPageChanged)

LvSpec == LvInit /\ [][LvNextStep]_lvVars /\ LvFairness

-----------------------------------------------------------------------------
(* Properties.                                                             *)

\* The types of the variables.
LvTypeOK ==
    /\ lvNext \in 1..(LvLast + 1) /\ lvEpoch \in 0..(LvMaxEpoch + LvLast)
    /\ Len(lvPending) <= LvMaxPending /\ Len(lvStore) <= LvMaxLogLines
    /\ \A i \in DOMAIN lvRows : lvRows[i].line \in 0..LvLast /\ lvRows[i].query \in LvQueries
    /\ {lvPage, lvTurned, lvFlush} \subseteq BOOLEAN

\* On the open page, with no flush and no callback due, the rows are the lines of the
\* store, each highlighted with the query in the field: appending behind the cursor
\* comes to the same as making all rows again, whatever was trimmed, cleared or
\* searched in between.
LvRowsAreStore ==
    lvPage /\ ~lvTurned /\ ~lvFlush => lvRows = LvRowsFor(lvStore, lvQuery)

\* No line of the client is stored twice or before an older one.
LvOnceInOrder ==
    LET all == lvStore \o lvPending
    IN  \A i, j \in DOMAIN all : i < j /\ all[i] > 0 /\ all[j] > 0 => all[i] < all[j]

\* A line that waits with the handle while the page is open is shown, or is pushed out
\* or cleared, or the page is left.
LvLineShown ==
    \A l \in 1..LvLast :
       lvPage /\ (\E i \in DOMAIN lvPending : lvPending[i] = l)
       ~> \/ ~lvPage \/ \E i \in DOMAIN lvRows : lvRows[i].line = l
          \/ \A i \in DOMAIN (lvPending \o lvStore) : (lvPending \o lvStore)[i] # l

\* The page shows the store, and the store has every line once and in order.
LvSound == LvTypeOK /\ LvRowsAreStore /\ LvOnceInOrder
=============================================================================
