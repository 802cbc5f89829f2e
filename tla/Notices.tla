------------------------------- MODULE Notices -------------------------------
(***************************************************************************)
(* Notices for the desk: rows of app.notifications, the event bus that      *)
(* listens to the database and passes what it hears to open streams, and    *)
(* the page that shows the list and reads it again when its stream tells it.*)
(* The list is a query of the dashboard's cache, which outlives the page: a  *)
(* page may open on a list that is thirty seconds old, or a week without a   *)
(* signal, and the query ends in an error when its attempts have failed.     *)
(*                                                                          *)
(* PostgreSQL keeps no notification for a connection that is not listening, *)
(* and the bus none for a stream that is not open: what is missed is not    *)
(* made up for, the page shows it when it next reads the list.              *)
(***************************************************************************)
EXTENDS Integers, FiniteSets

CONSTANTS
  Ids,              \* outbox commands that make a notice
  Retries,          \* failureCount < 2
  MaxBreaks         \* bound: connections and requests that fail or are lost, and retries pressed

ASSUME NoticesAssumption == Retries \in Nat /\ MaxBreaks \in Nat

VARIABLES
  listed,           \* app.notifications: rows of each command
  readAt,           \* those with read_at
  listener,         \* DashboardEventBus: no connection, one being made, one that listens
  timer,            \* reconnectTimer
  waiting,          \* the timer's callback waits for the connection
  stream,           \* the page's stream
  heard,            \* events written to the stream that the page has not had
  data, cache,      \* the query's list: none, fresh, or stale or invalidated
  fetch, snapshot,  \* its request, and what that has read
  tries,            \* attempts of the request that failed and were made again
  failed,           \* isError
  breaks

bus_vars == <<listener, timer, waiting>>
row_vars == <<listed, readAt>>
query_vars == <<data, cache, fetch, snapshot, tries, failed>>
page_vars == <<stream, heard, query_vars>>
vars == <<row_vars, bus_vars, page_vars, breaks>>

NoticesTypeOK ==
  /\ listed \in [Ids -> Nat] /\ readAt \subseteq Ids
  /\ listener \in {"none", "connecting", "listening"}
  /\ timer \in BOOLEAN /\ waiting \in BOOLEAN
  /\ stream \in {"closed", "joining", "joined", "open", "broken", "refused"}
  /\ heard \subseteq Ids /\ snapshot \subseteq Ids /\ cache \subseteq Ids
  /\ data \in {"none", "fresh", "stale"} /\ failed \in BOOLEAN
  /\ fetch \in {"none", "asked", "refused", "failed", "read"} /\ tries \in 0 .. Retries
  /\ breaks \in 0 .. MaxBreaks

Init ==
  /\ listed = [n \in Ids |-> 0] /\ readAt = {}
  /\ listener = "none" /\ timer = FALSE /\ waiting = FALSE
  /\ stream = "closed" /\ heard = {} /\ data = "none" /\ cache = {}
  /\ fetch = "none" /\ snapshot = {} /\ tries = 0 /\ failed = FALSE
  /\ breaks = 0

\* The stream is one of the bus's subscribers; "closed": there is no page.
Subscribed == stream \in {"joining", "joined", "open"}
Breaks == breaks < MaxBreaks /\ breaks' = breaks + 1

\* What the page shows: the cached list, or the error in its place.
Shown == IF stream = "closed" \/ failed THEN {} ELSE cache

-----------------------------------------------------------------------------
(* The query, as TanStack Query runs it. *)

\* A new request; an error stays while there is a list behind it.
Starts ==
  /\ fetch' = "asked" /\ snapshot' = {} /\ tries' = 0
  /\ failed' = (failed /\ data # "none")

Joins == UNCHANGED <<fetch, snapshot, tries, failed>>

\* cancelRefetch: a request under way is dropped for a new one, but only when there is a
\* list already. The first load is joined, and its success is the answer to both.
Refetch == IF fetch # "none" /\ data = "none" THEN Joins ELSE Starts

Invalidated == data' = IF data = "none" THEN "none" ELSE "stale"

\* The page comes up or the window has the focus: a list that is missing or stale is read,
\* unless it is being read.
FetchIfStale == IF data = "fresh" \/ fetch # "none" THEN Joins ELSE Starts

-----------------------------------------------------------------------------
(* Rows. *)

\* The trigger's pg_notify, of an insert, to whoever listens now.
Notifies(n) ==
  heard' = IF listed[n] = 0 /\ listener = "listening" /\ stream = "open" THEN heard \cup {n} ELSE heard

\* Mistake: the command is not looked for among the rows.
InsertAgain(n) ==
  /\ listed' = [listed EXCEPT ![n] = @ + 1]
  /\ Notifies(n)
  /\ UNCHANGED <<readAt, bus_vars, stream, query_vars, breaks>>

\* NotificationOutboxDispatcher.dispatch: one row for each command.
Insert(n) ==
  /\ listed' = [listed EXCEPT ![n] = 1]
  /\ Notifies(n)
  /\ UNCHANGED <<readAt, bus_vars, stream, query_vars, breaks>>

\* Both have the list read again when they have committed.
Reads(ns) ==
  /\ ns \ readAt # {}
  /\ readAt' = readAt \cup ns
  /\ Invalidated /\ Refetch
  /\ UNCHANGED <<listed, bus_vars, stream, heard, cache, breaks>>

MarkRead(n) == n \in Shown /\ Reads({n})

\* All there are, those the page does not show yet too.
MarkAllRead == Shown # {} /\ Reads({n \in Ids : listed[n] > 0})

-----------------------------------------------------------------------------
(* The event bus. *)

\* subscribe: waits for the connection, or makes it.
Subscribe ==
  /\ stream' = IF listener = "listening" THEN "joined" ELSE "joining"
  /\ listener' = IF listener = "none" THEN "connecting" ELSE listener

Connected ==
  /\ listener = "connecting"
  /\ listener' = "listening" /\ waiting' = FALSE
  /\ stream' = IF stream = "joining" THEN "joined" ELSE stream
  /\ UNCHANGED <<row_vars, timer, heard, query_vars, breaks>>

\* Mistake: the timer that reconnects is set once.
ConnectFailsOnce ==
  /\ listener = "connecting" /\ Breaks
  /\ listener' = "none" /\ waiting' = FALSE
  /\ stream' = IF stream = "joining" THEN "refused" ELSE stream
  /\ UNCHANGED <<row_vars, timer, heard, query_vars>>

\* Those that wait for the connection get an error, which ends an EventSource; the
\* timer's callback tries again.
ConnectFails ==
  /\ listener = "connecting" /\ Breaks
  /\ listener' = "none" /\ waiting' = FALSE
  /\ timer' = (timer \/ waiting)
  /\ stream' = IF stream = "joining" THEN "refused" ELSE stream
  /\ UNCHANGED <<row_vars, heard, query_vars>>

\* handleDisconnect: somebody who subscribes makes it come back.
Disconnected ==
  /\ listener = "listening" /\ Breaks
  /\ listener' = "none"
  /\ timer' = (timer \/ Subscribed)
  /\ UNCHANGED <<row_vars, waiting, page_vars>>

\* scheduleReconnect's callback.
Reconnect ==
  /\ timer
  /\ timer' = FALSE
  /\ IF Subscribed /\ listener # "listening"
     THEN listener' = "connecting" /\ waiting' = TRUE
     ELSE UNCHANGED <<listener, waiting>>
  /\ UNCHANGED <<row_vars, page_vars, breaks>>

-----------------------------------------------------------------------------
(* The page. *)

\* The list, unless a fresh one is there, and the stream are asked for at the same time.
OpenPage ==
  /\ stream = "closed"
  /\ Subscribe
  /\ FetchIfStale
  /\ UNCHANGED <<row_vars, timer, waiting, heard, data, cache, breaks>>

\* The reply is taken over and the stream's first lines are written.
OpenStream ==
  /\ stream = "joined"
  /\ stream' = "open"
  /\ UNCHANGED <<row_vars, bus_vars, heard, query_vars, breaks>>

\* The socket breaks: the EventSource comes back.
StreamBreaks ==
  /\ stream = "open" /\ Breaks
  /\ stream' = "broken" /\ heard' = {}
  /\ UNCHANGED <<row_vars, bus_vars, query_vars>>

Rejoin ==
  /\ stream = "broken"
  /\ Subscribe
  /\ UNCHANGED <<row_vars, timer, waiting, heard, query_vars, breaks>>

\* The heartbeat finds that the session no longer resolves.
SessionExpires ==
  /\ stream = "open" /\ Breaks
  /\ stream' = "refused" /\ heard' = {}
  /\ UNCHANGED <<row_vars, bus_vars, query_vars>>

\* Mistake: the event joins a request under way even when there is a list
\* (cancelRefetch: false).
RefreshLazily(n) ==
  /\ n \in heard
  /\ heard' = heard \ {n}
  /\ Invalidated
  /\ IF fetch # "none" THEN Joins ELSE Starts
  /\ UNCHANGED <<row_vars, bus_vars, stream, cache, breaks>>

\* The event's handler: invalidateQueries.
Refresh(n) ==
  /\ n \in heard
  /\ heard' = heard \ {n}
  /\ Invalidated /\ Refetch
  /\ UNCHANGED <<row_vars, bus_vars, stream, cache, breaks>>

Focus ==
  /\ stream # "closed" /\ fetch = "none" /\ data # "fresh"
  /\ FetchIfStale
  /\ UNCHANGED <<row_vars, bus_vars, stream, heard, data, cache, breaks>>

\* The button of the error in the list's place.
PressRetry ==
  /\ stream # "closed" /\ failed /\ Breaks
  /\ Refetch
  /\ UNCHANGED <<row_vars, bus_vars, stream, heard, data, cache>>

\* staleTime has passed.
Ages ==
  /\ data = "fresh"
  /\ data' = "stale"
  /\ UNCHANGED <<row_vars, bus_vars, stream, heard, cache, fetch, snapshot, tries, failed, breaks>>

\* DashboardNotificationService.list, and its answer in the cache.
ReadList ==
  /\ fetch = "asked"
  /\ fetch' = "read" /\ snapshot' = {n \in Ids : listed[n] > 0}
  /\ UNCHANGED <<row_vars, bus_vars, stream, heard, data, cache, tries, failed, breaks>>

ShowList ==
  /\ fetch = "read"
  /\ data' = "fresh" /\ cache' = snapshot
  /\ fetch' = "none" /\ snapshot' = {} /\ tries' = 0 /\ failed' = FALSE
  /\ UNCHANGED <<row_vars, bus_vars, stream, heard, breaks>>

\* The request is refused (an ApiError of 4xx), or fails in another way.
ReadFails ==
  /\ fetch = "asked" /\ Breaks
  /\ fetch' \in {"refused", "failed"}
  /\ UNCHANGED <<row_vars, bus_vars, stream, heard, data, cache, snapshot, tries, failed>>

\* retry: a page that is gone makes no more attempts.
MayRetry == fetch = "failed" /\ tries < Retries /\ stream # "closed"

AskAgain ==
  /\ MayRetry
  /\ fetch' = "asked" /\ tries' = tries + 1
  /\ UNCHANGED <<row_vars, bus_vars, stream, heard, data, cache, snapshot, failed, breaks>>

GiveUp ==
  /\ fetch \in {"refused", "failed"} /\ ~MayRetry
  /\ fetch' = "none" /\ tries' = 0 /\ failed' = TRUE
  /\ UNCHANGED <<row_vars, bus_vars, stream, heard, data, cache, snapshot, breaks>>

\* The effect's cleanup; the request goes on and its answer is kept.
ClosePage ==
  /\ stream # "closed"
  /\ stream' = "closed" /\ heard' = {}
  /\ UNCHANGED <<row_vars, bus_vars, query_vars, breaks>>

\* The app is loaded anew, with the list of its storage, or the user signs out: nothing
\* under way goes on, and a query in error is not stored.
Reload ==
  /\ stream' = "closed" /\ heard' = {}
  /\ \/ ~failed /\ UNCHANGED <<data, cache>>
     \/ data' = "none" /\ cache' = {}
  /\ fetch' = "none" /\ snapshot' = {} /\ tries' = 0 /\ failed' = FALSE
  /\ UNCHANGED <<row_vars, bus_vars, breaks>>

-----------------------------------------------------------------------------

BusStep == Connected \/ ConnectFails \/ Disconnected \/ Reconnect

PageStep ==
  \/ OpenPage \/ OpenStream \/ StreamBreaks \/ Rejoin \/ SessionExpires
  \/ Focus \/ PressRetry \/ Ages
  \/ ReadList \/ ShowList \/ ReadFails \/ AskAgain \/ GiveUp
  \/ ClosePage \/ Reload
  \/ MarkAllRead \/ \E n \in Ids : Refresh(n) \/ MarkRead(n)

\* The event loop and the browser go on with what they have begun.
Fairness ==
  /\ WF_vars(Connected) /\ WF_vars(Reconnect)
  /\ WF_vars(OpenStream) /\ WF_vars(Rejoin)
  /\ WF_vars(ReadList) /\ WF_vars(ShowList) /\ WF_vars(AskAgain) /\ WF_vars(GiveUp)
  /\ \A n \in Ids : WF_vars(Refresh(n))

Next == (\E n \in Ids : Insert(n)) \/ BusStep \/ PageStep

Spec == Init /\ [][Next]_vars
FairSpec == Spec /\ Fairness

-----------------------------------------------------------------------------

\* What the bus hears of while the page's stream is open and the page has a list comes on
\* the page, unless the reading ends in an error, the stream ends or the page is closed
\* (fanOut, EventSource, invalidateQueries). During the first load it may not.
HeardIsShown ==
  \A n \in Ids : n \in heard /\ data # "none" ~>
                   n \in Shown \/ stream # "open" \/ (failed /\ fetch = "none" /\ n \notin heard)

\* A stream that is open, or asks to be, gets a bus that listens, or is told that it
\* does not (subscribe, handleDisconnect, scheduleReconnect).
StreamsGetABus == Subscribed /\ listener = "none" ~> listener = "listening" \/ ~Subscribed
=============================================================================
