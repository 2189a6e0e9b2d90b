--------------------------- MODULE RealtimeDelivery ---------------------------
(* What the hub promises its clients: "Replays missed events or requests a   *)
(* full resynchronization."  Events are numbered across restarts by the      *)
(* order of their publication, and each client remembers which it has        *)
(* dispatched or had covered by a full resynchronization.                    *)
EXTENDS RealtimeHub

CONSTANTS MaxEvents,      \* bound: events published
          MaxRestarts     \* bound: server restarts

ASSUME BoundsAssumption ==
    MaxEvents \in Nat /\ MaxRestarts \in Nat

VARIABLES published,      \* events published so far, over all processes
          seen,           \* the events each client has handled or reread
          from,           \* the event that gave each client its first cursor
          restarts

deliveryVars == <<hubVars, published, seen, from, restarts>>

NotYet == -1

DeliveryInit ==
    /\ HubInit
    /\ published = 0
    /\ seen = [c \in Clients |-> {}]
    /\ from = [c \in Clients |-> NotYet]
    /\ restarts = 0

Publish ==
    /\ published < MaxEvents
    /\ published' = published + 1
    /\ Broadcast(published + 1)
    /\ UNCHANGED <<seen, from, restarts>>

Open(c) ==
    /\ Connect(c, 0)
    /\ UNCHANGED <<published, seen, from, restarts>>

\* A full resynchronization rereads the database after the request arrived,
\* so it covers every event published until then.
SeenAfter(c, f) ==
    CASE f.kind = "event"  -> seen[c] \union {f.data}
      [] f.kind = "resync" -> 1..published
      [] OTHER             -> seen[c]

Dispatch(c) ==
    /\ Take(c)
    /\ seen' = [seen EXCEPT ![c] = SeenAfter(c, Head(channel[c]))]
    /\ from' = [from EXCEPT ![c] =
                  IF @ = NotYet /\ Head(channel[c]).kind = "event"
                  THEN Head(channel[c]).data ELSE @]
    /\ UNCHANGED <<published, restarts>>

Drop(c) ==
    /\ link[c] = "open"
    /\ Disconnect(c)
    /\ UNCHANGED <<published, seen, from, restarts>>

\* The client notices that the old process has closed its connection.
NoticeEnd(c) ==
    /\ link[c] = "ending"
    /\ Disconnect(c)
    /\ UNCHANGED <<published, seen, from, restarts>>

Restart ==
    /\ restarts < MaxRestarts
    /\ HubRestart
    /\ restarts' = restarts + 1
    /\ UNCHANGED <<published, seen, from>>

DeliveryNext ==
    \/ Publish
    \/ Restart
    \/ \E c \in Clients : Open(c) \/ Dispatch(c) \/ Drop(c) \/ NoticeEnd(c)

DeliverySpec == DeliveryInit /\ [][DeliveryNext]_deliveryVars

----------------------------------------------------------------------------
(* Properties.                                                               *)

Frames == [kind : {"event", "ready", "resync"}, id : Nat, data : Nat]

\* Every variable has its type, and the history stays within its limit
\* (history.splice in broadcast).
TypeOK ==
    /\ sequence \in Nat
    /\ history \in Seq(Frames) /\ Len(history) <= HistoryLimit
    /\ link \in [Clients -> Links]
    /\ channel \in [Clients -> Seq(Frames)]
    /\ lastEventId \in [Clients -> Nat \union {NoCursor}]
    /\ published \in Nat
    /\ seen \in [Clients -> SUBSET (1..published)]
    /\ from \in [Clients -> Nat \union {NotYet}]
    /\ restarts \in 0..MaxRestarts

\* A connected client that has dispatched everything it was sent has handled,
\* or had covered by a resync, every event since the one that gave it its
\* first cursor: replay, trimming and resync requests never skip one (the
\* promise of replayClient).  A restart of the server breaks it: the numbers start
\* again, and an old cursor passes over new events.
NothingMissed ==
    \A c \in Clients :
        Drained(c) /\ lastEventId[c] # NoCursor =>
            from[c]..published \subseteq seen[c]

\* The same promise for the life of one server process.
ReplayIsComplete == restarts = 0 => NothingMissed

\* Until it is drained a client never has to go back: every event newer than
\* its cursor is in flight to it, or lies behind a resync request that is.
\* It is stated for the life of one process.
InFlightIsComplete ==
    restarts = 0 =>
        \A c \in Clients :
            link[c] = "open" /\ lastEventId[c] # NoCursor =>
                \A id \in lastEventId[c] + 1 .. sequence :
                    \E i \in DOMAIN channel[c] :
                        \/ channel[c][i].kind = "event" /\ channel[c][i].id = id
                        \/ channel[c][i].kind = "resync" /\ channel[c][i].id >= id
=============================================================================
