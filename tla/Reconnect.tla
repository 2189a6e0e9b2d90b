------------------------------ MODULE Reconnect ------------------------------
(* The loop that keeps one page connected to the realtime hub: connect,      *)
(* scheduleReconnect and the online listener of nodeRealtimeSync.  Every     *)
(* call of connect is an attempt of its own, with its AbortController, and   *)
(* lives on until its finally has run, also when a later call has aborted    *)
(* it.  What the frames of a connection do is RealtimeHub's subject.         *)
EXTENDS Integers

CONSTANTS Attempts,       \* bound: calls of connect that live at a time
          NoController    \* streamController is null

ASSUME ReconnectAssumption == NoController \notin Attempts

VARIABLES native,         \* a Tauri or Capacitor shell, which uses a WebSocket
          attempt,        \* where each call of connect stands
          superseded,     \* the attempts whose signal is aborted
          deaf,           \* superseded attempts that nothing will tell so
          controller,     \* whose controller streamController is
          timer,          \* reconnectTimer is set
          shown           \* isNodeRealtimeConnected

reconnectVars == <<native, attempt, superseded, deaf, controller, timer, shown>>

\* "auth": the proxy token is awaited.  "opening": the response, or the open
\* event.  "reading": frames arrive, the last of the greeting is the ready frame,
\* "ready" when it is dispatched.  Dispatching awaits nothing but promises that
\* are resolved, so that every turn ends with its frames dispatched.
Phases == {"free", "auth", "opening", "reading", "ready"}
Live(a) == attempt[a] # "free"

\* The attempts that nobody has aborted.
Trying == {a \in Attempts : Live(a) /\ a \notin superseded}

----------------------------------------------------------------------------
(* connect.                                                                  *)

\* A seeded bug: an attempt that was aborted reconnects like any other.
Schedules_Always(aborted) == TRUE

\* Whether the finally of an attempt calls scheduleReconnect.
Schedules(aborted) == ~aborted

\* The finally of connect.
Ended(a) ==
    /\ attempt' = [attempt EXCEPT ![a] = "free"]
    /\ superseded' = superseded \ {a}
    /\ deaf' = deaf \ {a}
    /\ controller' = IF controller = a THEN NoController ELSE controller
    /\ timer' = (timer \/ Schedules(a \in superseded))
    /\ shown' = FALSE

\* What abort does to the attempt before: a request or a connection ends, and
\* its finally runs in the same turn; the wait for a token is not disturbed.
Interrupted == {b \in Attempts : b = controller /\ attempt[b] # "auth"}
Unaware     == {b \in Attempts : b = controller /\ attempt[b] = "auth"}

\* A seeded bug: the new controller is in place before the old one is aborted.
Begin_AbortsItself(a, waiting) ==
    /\ attempt[a] = "free"
    /\ attempt' = [attempt EXCEPT ![a] = "auth"]
    /\ superseded' = superseded \cup {a}
    /\ controller' = a
    /\ timer' = waiting
    /\ UNCHANGED shown

\* A seeded bug: the old attempt is not aborted.
Begin_Beside(a, waiting) ==
    /\ attempt[a] = "free"
    /\ attempt' = [attempt EXCEPT ![a] = "auth"]
    /\ controller' = a
    /\ timer' = waiting
    /\ UNCHANGED <<superseded, shown>>

\* A seeded bug: only the attempt that holds the controller says it is over.
Begin_StillShown(a, waiting) ==
    /\ attempt[a] = "free"
    /\ attempt' = [b \in Attempts |-> IF b = a THEN "auth"
                                      ELSE IF b \in Interrupted THEN "free" ELSE attempt[b]]
    /\ superseded' = superseded \cup Unaware
    /\ controller' = a
    /\ timer' = (waiting \/ (Interrupted # {} /\ Schedules(TRUE)))
    /\ UNCHANGED shown

\* Up to the first await: the newest attempt supersedes the one before it.
\* The timer was waiting, or not, when connect was called.
Begin(a, waiting) ==
    /\ attempt[a] = "free"
    /\ attempt' = [b \in Attempts |-> IF b = a THEN "auth"
                                      ELSE IF b \in Interrupted THEN "free" ELSE attempt[b]]
    /\ superseded' = superseded \cup Unaware
    /\ controller' = a
    /\ timer' = (waiting \/ (Interrupted # {} /\ Schedules(TRUE)))
    /\ shown' = (shown /\ Interrupted = {})

\* The token has come.  A signal that is aborted already makes fetch reject, but
\* the WebSocket only listens for an abort still to come.
Authenticated(a) ==
    /\ attempt[a] = "auth"
    /\ \/ /\ a \in superseded /\ ~native
          /\ Ended(a)
       \/ /\ a \in superseded => native
          /\ attempt' = [attempt EXCEPT ![a] = "opening"]
          /\ deaf' = deaf \cup ({a} \cap superseded)
          /\ UNCHANGED <<superseded, controller, timer, shown>>
    /\ UNCHANGED native

Attached(a) ==
    /\ attempt[a] = "opening"
    /\ attempt' = [attempt EXCEPT ![a] = "reading"]
    /\ UNCHANGED <<native, superseded, deaf, controller, timer, shown>>

\* The ready frame is dispatched, also from a socket that nobody has closed.
DispatchReady(a) ==
    /\ attempt[a] = "reading"
    /\ attempt' = [attempt EXCEPT ![a] = "ready"]
    /\ shown' = TRUE
    /\ UNCHANGED <<native, superseded, deaf, controller, timer>>

\* No token, no answer, an answer that is not ok, or a connection that is lost.
Fails(a) ==
    /\ Live(a)
    /\ Ended(a)
    /\ UNCHANGED native

----------------------------------------------------------------------------
(* Who calls connect.                                                        *)

\* scheduleReconnect's timer, a second later; it does not look at the
\* controller.
ReconnectTimerFires ==
    /\ timer
    /\ \E a \in Attempts : Begin(a, FALSE)
    /\ UNCHANGED <<native, deaf>>

\* The online event connects at once if no attempt holds the controller, and
\* leaves the timer running.
Online ==
    /\ controller = NoController
    /\ \E a \in Attempts : Begin(a, timer)
    /\ UNCHANGED <<native, deaf>>

\* initNodeRealtimeSync has called connect.
ReconnectInit ==
    /\ native \in BOOLEAN
    /\ \E first \in Attempts :
         /\ controller = first
         /\ attempt = [a \in Attempts |-> IF a = first THEN "auth" ELSE "free"]
    /\ superseded = {} /\ deaf = {}
    /\ timer = FALSE /\ shown = FALSE

ReconnectNext ==
    \/ ReconnectTimerFires
    \/ Online
    \/ \E a \in Attempts :
         Authenticated(a) \/ Attached(a) \/ DispatchReady(a) \/ Fails(a)

ReconnectSpec == ReconnectInit /\ [][ReconnectNext]_reconnectVars

----------------------------------------------------------------------------
(* Properties.                                                               *)

ReconnectTypes ==
    /\ native \in BOOLEAN
    /\ attempt \in [Attempts -> Phases]
    /\ superseded \subseteq Attempts
    /\ deaf \subseteq superseded
    /\ controller \in Attempts \cup {NoController}
    /\ timer \in BOOLEAN /\ shown \in BOOLEAN

\* The loop never stops: an attempt that nobody has aborted is under way, or
\* the timer that starts one is set.  An aborted attempt schedules nothing, so
\* each must have a successor that does, however the timer, the online event
\* and failures follow one another.
LoopGoesOn == timer \/ Trying # {}

\* Never two attempts that would both reconnect when they end: from then on
\* they would take the connection from each other.
OneLoop == \A a, b \in Trying : a = b

\* A page that takes itself for connected, and so has stopped asking for the
\* progress of an import, has a connection that has greeted it, whichever of its
\* attempts were aborted, were told so late or never.
ShownIsReal == shown => \E a \in Attempts : attempt[a] = "ready"
=============================================================================
