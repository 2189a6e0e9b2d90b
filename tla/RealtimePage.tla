---------------------------- MODULE RealtimePage ----------------------------
(* One page and the hub: Reconnect and RealtimeDelivery together.  The page  *)
(* has a connection while the attempt that holds the controller reads; that  *)
(* attempt opens it, and when it ends, fails or is aborted the connection    *)
(* ends with it.  A WebSocket no abort reaches has a connection of its own,  *)
(* which is not followed.                                                    *)
EXTENDS RealtimeDelivery, Reconnect

CONSTANTS Page,           \* the one client
          MaxLosses,      \* bound: attempts and connections that fail by themselves
          MaxOnline       \* bound: online events

ASSUME PageAssumption ==
    Clients = {Page} /\ MaxLosses \in Nat /\ MaxOnline \in Nat

VARIABLES losses, onlines

pageVars == <<deliveryVars, reconnectVars, losses, onlines>>

PageInit == DeliveryInit /\ ReconnectInit /\ losses = 0 /\ onlines = 0

Reading == controller # NoController /\ attempt[controller] \in {"reading", "ready"}

\* The connection ends with the attempt that reads it.
Closes == Drop(Page) \/ NoticeEnd(Page)
ClosesIf(reads) == IF reads THEN Closes ELSE UNCHANGED deliveryVars

HubSteps ==
    /\ Publish \/ Restart
    /\ UNCHANGED <<reconnectVars, losses, onlines>>

PageAttached(a) ==
    /\ Attached(a)
    /\ IF a = controller THEN Open(Page) ELSE UNCHANGED deliveryVars
    /\ UNCHANGED <<losses, onlines>>

\* The next frame of the connection; the flag is set by the ready frame.
PageDispatches ==
    /\ Reading
    /\ Dispatch(Page)
    /\ IF Head(channel[Page]).kind = "ready"
       THEN DispatchReady(controller) ELSE UNCHANGED reconnectVars
    /\ UNCHANGED <<losses, onlines>>

DeafDispatches(a) ==
    /\ a \in deaf
    /\ DispatchReady(a)
    /\ UNCHANGED <<deliveryVars, losses, onlines>>

PageFails(a) ==
    /\ losses < MaxLosses
    /\ Fails(a)
    /\ ClosesIf(a = controller /\ Reading)
    /\ losses' = losses + 1
    /\ UNCHANGED onlines

\* The page notices that the server process has gone.
PageNoticesEnd ==
    /\ Reading
    /\ NoticeEnd(Page)
    /\ Fails(controller)
    /\ UNCHANGED <<losses, onlines>>

PageTimerFires ==
    /\ ReconnectTimerFires
    /\ ClosesIf(Reading)
    /\ UNCHANGED <<losses, onlines>>

PageOnline ==
    /\ onlines < MaxOnline
    /\ Online
    /\ onlines' = onlines + 1
    /\ UNCHANGED <<deliveryVars, losses>>

PageAuthenticated(a) ==
    /\ Authenticated(a)
    /\ UNCHANGED <<deliveryVars, losses, onlines>>

PageNext ==
    \/ HubSteps
    \/ PageDispatches \/ PageNoticesEnd \/ PageTimerFires \/ PageOnline
    \/ \E a \in Attempts :
         PageAuthenticated(a) \/ PageAttached(a) \/ DeafDispatches(a) \/ PageFails(a)

PageSpec == PageInit /\ [][PageNext]_pageVars

\* The timer fires, tokens and answers come or fail, frames that have arrived are
\* dispatched, and a connection whose server has gone ends.
FairPage ==
    /\ PageSpec
    /\ WF_pageVars(PageTimerFires)
    /\ WF_pageVars(PageDispatches)
    /\ WF_pageVars(PageNoticesEnd)
    /\ \A a \in Attempts :
         /\ WF_pageVars(PageAuthenticated(a))
         /\ WF_pageVars(PageAttached(a))

----------------------------------------------------------------------------
(* Properties.                                                               *)

\* Once connections are no longer lost the page ends up connected, with every
\* frame dispatched: in whatever order losses, restarts of the server, the timer
\* and online events came, the loop goes on, and its attempts do not take the
\* connection from one another for ever.
CatchesUp == <>[]Drained(Page)
=============================================================================
