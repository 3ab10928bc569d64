--------------------------- MODULE NotifyListener ---------------------------
(***************************************************************************)
(* The dedicated LISTEN connection of a catalog replica and its reconnects *)
(* (PgNotifyListener in events/pg-notify-listener.ts): connect() awaits    *)
(* twice, client.end() completes later, and the handlers of a client stay  *)
(* attached after another one has taken its place.  CatalogSync sees of    *)
(* this which clients notifications reach, and how many connect() calls    *)
(* and ends are to come.                                                   *)
(*                                                                         *)
(* pg is external: a broken connection emits 'error' and then 'end'; a     *)
(* client the listener ends emits 'end' when the server has closed it.     *)
(***************************************************************************)
EXTENDS Integers, FiniteSets

CONSTANTS
    Clients,     \* pg.Client objects; one that has ended is used again
    NoClient,
    Delays,      \* the delays of the backoff, in milliseconds
    MaxBreaks,   \* bound: connections lost or refused a LISTEN
    MaxLate      \* bound: timers that fire before an ended client is closed

RECONNECT_DELAY_MS == 2000
MAX_RECONNECT_DELAY_MS == 30000
Min2(a, b) == IF a < b THEN a ELSE b

ASSUME ListenerAssumption ==
    /\ NoClient \notin Clients
    /\ MaxBreaks \in Nat /\ MaxLate \in Nat
    /\ RECONNECT_DELAY_MS \in Delays
    /\ \A d \in Delays : Min2(2 * d, MAX_RECONNECT_DELAY_MS) \in Delays

VARIABLES
    status,          \* per client: "free", "connecting", "subscribing" (LISTEN
                     \*   sent), "listening", "mute" (LISTEN refused), "closing"
                     \*   ('end' still to come)
    current,         \* this.client
    stopped,
    reconnectTimer,  \* a timer is set
    currentDelay,
    overlapped,      \* history: connect() began with a client still closing
    breaks, late     \* what has been used of the bounds

listenerVars == <<status, current, stopped, reconnectTimer, currentDelay,
                  overlapped, breaks, late>>

Open(st) == {c \in Clients : st[c] \in {"connecting", "subscribing", "listening", "mute"}}
Attached(st) == {c \in Clients : st[c] \in {"subscribing", "listening", "mute"}}
Closing == {c \in Clients : status[c] = "closing"}

\* start(): the first connect() awaits its client.
ListenerInit ==
    \E c \in Clients :
        /\ status = [d \in Clients |-> IF d = c THEN "connecting" ELSE "free"]
        /\ current = NoClient
        /\ stopped = FALSE
        /\ reconnectTimer = FALSE
        /\ currentDelay = RECONNECT_DELAY_MS
        /\ overlapped = FALSE
        /\ breaks = 0 /\ late = 0

----------------------------------------------------------------------------
\* What scheduleReconnect() makes of the clients st: it ends whichever client
\* is the current one, and sets the timer unless one is set.
EndCurrent(st) ==
    IF current \in Attached(st) THEN [st EXCEPT ![current] = "closing"] ELSE st

\* Wrong: the current client is left alone.
ScheduleReconnectBesides(st) ==
    \/ /\ stopped \/ reconnectTimer
       /\ status' = st
       /\ UNCHANGED <<current, reconnectTimer, currentDelay>>
    \/ /\ ~stopped /\ ~reconnectTimer
       /\ status' = st
       /\ current' = NoClient
       /\ reconnectTimer' = TRUE
       /\ currentDelay' = Min2(2 * currentDelay, MAX_RECONNECT_DELAY_MS)

ScheduleReconnect(st) ==
    \/ /\ stopped \/ reconnectTimer
       /\ status' = st
       /\ UNCHANGED <<current, reconnectTimer, currentDelay>>
    \/ /\ ~stopped /\ ~reconnectTimer
       /\ status' = EndCurrent(st)
       /\ current' = NoClient
       /\ reconnectTimer' = TRUE
       /\ currentDelay' = Min2(2 * currentDelay, MAX_RECONNECT_DELAY_MS)

\* `await client.connect()` returns: the client becomes the current one,
\* whether or not there is another, and whether or not stop() came meanwhile.
Connected(c) ==
    /\ status[c] = "connecting"
    /\ status' = [status EXCEPT ![c] = "subscribing"]
    /\ current' = c
    /\ UNCHANGED <<stopped, reconnectTimer, currentDelay, overlapped, breaks, late>>

\* Wrong: a connect() that fails is not retried.
ConnectFailsForGood(c) ==
    /\ status[c] = "connecting"
    /\ status' = [status EXCEPT ![c] = "free"]
    /\ UNCHANGED <<current, reconnectTimer, currentDelay, stopped, overlapped, breaks, late>>

\* It rejects: no handler is attached yet, and nobody ends the client.
ConnectFails(c) ==
    /\ status[c] = "connecting"
    /\ ScheduleReconnect([status EXCEPT ![c] = "free"])
    /\ UNCHANGED <<stopped, overlapped, breaks, late>>

\* `await client.query(LISTEN)` returns.
Listens(c) ==
    /\ status[c] = "subscribing"
    /\ status' = [status EXCEPT ![c] = "listening"]
    /\ currentDelay' = RECONNECT_DELAY_MS
    /\ UNCHANGED <<current, stopped, reconnectTimer, overlapped, breaks, late>>

\* The server refuses the LISTEN; the connection stands, and is ended only if it is
\* the current one and no timer is set.
ListenFails(c) ==
    /\ status[c] = "subscribing"
    /\ breaks < MaxBreaks /\ breaks' = breaks + 1
    /\ ScheduleReconnect([status EXCEPT ![c] = "mute"])
    /\ UNCHANGED <<stopped, overlapped, late>>

\* A connection breaks: the 'error' handler, and the catch of a LISTEN under way.
Lost(c) ==
    /\ c \in Attached(status)
    /\ breaks < MaxBreaks /\ breaks' = breaks + 1
    /\ ScheduleReconnect([status EXCEPT ![c] = "closing"])
    /\ UNCHANGED <<stopped, overlapped, late>>

\* The 'end' handler does not ask whose end it is.
Ended(c) ==
    /\ status[c] = "closing"
    /\ ScheduleReconnect([status EXCEPT ![c] = "free"])
    /\ UNCHANGED <<stopped, overlapped, breaks, late>>

\* The timer calls connect(), which returns at once when stopped.
TimerFires ==
    /\ reconnectTimer
    /\ reconnectTimer' = FALSE
    /\ \/ /\ stopped
          /\ UNCHANGED <<status, overlapped, late>>
       \/ /\ ~stopped
          /\ \/ Closing = {} /\ UNCHANGED <<overlapped, late>>
             \/ /\ Closing # {}
                /\ late < MaxLate /\ late' = late + 1
                /\ overlapped' = TRUE
          /\ \E c \in Clients \ {current} :
                /\ status[c] = "free"
                /\ status' = [status EXCEPT ![c] = "connecting"]
    /\ UNCHANGED <<current, stopped, currentDelay, breaks>>

\* stop() ends the current client.  It clears this.client when that has ended,
\* here at once: nothing reads it any more.
Stop ==
    /\ ~stopped
    /\ stopped' = TRUE
    /\ reconnectTimer' = FALSE
    /\ status' = EndCurrent(status)
    /\ current' = NoClient
    /\ UNCHANGED <<currentDelay, overlapped, breaks, late>>

ListenerNext ==
    \/ \E c \in Clients :
          \/ Connected(c) \/ ConnectFails(c)
          \/ Listens(c) \/ ListenFails(c)
          \/ Lost(c) \/ Ended(c)
    \/ TimerFires
    \/ Stop

\* PostgreSQL accepts again and again, answers a LISTEN, and closes what is
\* ended; timers fire.  That connections break, or stop() is called, is not fair.
ListenerSpec ==
    /\ ListenerInit /\ [][ListenerNext]_listenerVars
    /\ WF_listenerVars(TimerFires)
    /\ \A c \in Clients :
          /\ SF_listenerVars(Connected(c))
          /\ WF_listenerVars(Listens(c)) /\ WF_listenerVars(Ended(c))

----------------------------------------------------------------------------
ListenerTypeOK ==
    /\ status \in [Clients -> {"free", "connecting", "subscribing", "listening", "mute", "closing"}]
    /\ current \in Clients \cup {NoClient}
    /\ stopped \in BOOLEAN /\ reconnectTimer \in BOOLEAN /\ overlapped \in BOOLEAN
    /\ currentDelay \in Delays
    /\ breaks \in 0 .. MaxBreaks /\ late \in 0 .. MaxLate

\* As long as every ended client is closed before the reconnect timer fires, a
\* replica has one connection at most, and none while a reconnect is scheduled:
\* its bus gets no notification twice, and stop() reaches the client that is
\* there.  (connect() never asks whether there is one already.)
OneListener ==
    ~overlapped =>
        /\ \A c, d \in Open(status) : c = d
        /\ reconnectTimer => Open(status) = {}
        /\ ~stopped => Attached(status) \subseteq {current}

\* The listener is never given up: whatever breaks, in whatever order, the
\* replica listens again in the end, unless it is stopped.
ComesBack == <>[](stopped \/ \E c \in Clients : status[c] = "listening")

=============================================================================
