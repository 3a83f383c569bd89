----------------------------- MODULE EventFeed -----------------------------
(***************************************************************************)
(* The feeds of all events that clients open over WebSocket (server/ws.rs) *)
(* and as server-sent events (server/routes.rs, events).                   *)
(*                                                                         *)
(* A WebSocket subscribes to the bus, waits a moment for a first frame     *)
(* that may name the kinds of events the client wants, and then forwards   *)
(* what matches.  The other feed forwards everything from the start.       *)
(***************************************************************************)
EXTENDS Broadcast

CONSTANTS Feeds,        \* the receivers that are feeds
          Kinds,        \* Event::event_type
          SendBuffer,   \* bound: frames between the server and a client
          MaxEvents     \* bound: events on the bus

ASSUME FeedAssumption ==
  /\ Feeds \subseteq Receivers
  /\ SendBuffer \in Nat \ {0}
  /\ MaxEvents \in Nat

VARIABLES conn,         \* how far the handler of a feed is
          frame,        \* a frame of the client the handler has not read
          filter,       \* the kinds that pass
          hand,         \* place in the log of the event being sent
          buffer,       \* places in the log of what the client has not read
          left,         \* the client has gone
          start,        \* history: length of the log when the client connected
          told,         \* history: places in the log of what was sent
          lost,         \* history: the feed has lagged
          websocket     \* the feed is a WebSocket, not server-sent events

feedVars == <<conn, frame, filter, hand, buffer, left, start, websocket, told, lost>>

vars == <<log, cursor, feedVars>>

Nothing == 0

NoFrame == [says |-> "none"]

\* Text that is not a subscription, or one that is.
Frame == [says : {"other"}] \cup [says : {"subscribe"}, kinds : SUBSET Kinds]

Open(f) == conn[f] \in {"waiting", "streaming"}

TypeOK ==
  /\ BroadcastTypeOK(Kinds)
  /\ conn \in [Feeds -> {"new", "waiting", "streaming", "closed"}]
  /\ frame \in [Feeds -> Frame \cup {NoFrame}]
  /\ filter \in [Feeds -> SUBSET Kinds]
  /\ hand \in [Feeds -> 0 .. MaxEvents]
  /\ left \in [Feeds -> BOOLEAN]
  /\ websocket \in [Feeds -> BOOLEAN]
  /\ \A f \in Feeds : Len(buffer[f]) <= SendBuffer
  /\ \A f \in Feeds : Open(f) => cursor[f] # Unsubscribed

Init ==
  /\ BroadcastInit
  /\ conn = [f \in Feeds |-> "new"]
  /\ frame = [f \in Feeds |-> NoFrame]
  /\ filter = [f \in Feeds |-> Kinds]
  /\ hand = [f \in Feeds |-> Nothing]
  /\ buffer = [f \in Feeds |-> <<>>]
  /\ left = [f \in Feeds |-> FALSE]
  /\ start = [f \in Feeds |-> 0]
  /\ websocket = [f \in Feeds |-> FALSE]
  /\ told = [f \in Feeds |-> <<>>]
  /\ lost = [f \in Feeds |-> FALSE]

-----------------------------------------------------------------------------
(* Events, and what clients do *)

EventHappens ==
  /\ Len(log) < MaxEvents
  /\ \E k \in Kinds : Send(k)
  /\ UNCHANGED <<cursor, feedVars>>

Connect(f) ==
  /\ conn[f] = "new"
  /\ Subscribe(f)
  /\ \E w \in BOOLEAN :
       /\ websocket' = [websocket EXCEPT ![f] = w]
       /\ conn' = [conn EXCEPT ![f] = IF w THEN "waiting" ELSE "streaming"]
  /\ start' = [start EXCEPT ![f] = Len(log)]
  /\ UNCHANGED <<log, frame, filter, hand, buffer, left, told, lost>>

\* Before the handler waits for the first frame, or long after.
ClientSends(f) ==
  /\ websocket[f]
  /\ Open(f) /\ ~left[f]
  /\ frame[f] = NoFrame
  /\ \E m \in Frame : frame' = [frame EXCEPT ![f] = m]
  /\ UNCHANGED <<log, cursor, conn, filter, hand, buffer, left, start, websocket, told, lost>>

ClientReads(f) ==
  /\ ~left[f]
  /\ buffer[f] # <<>>
  /\ buffer' = [buffer EXCEPT ![f] = Tail(@)]
  /\ UNCHANGED <<log, cursor, conn, frame, filter, hand, left, start, websocket, told, lost>>

ClientLeaves(f) ==
  /\ Open(f) /\ ~left[f]
  /\ left' = [left EXCEPT ![f] = TRUE]
  /\ UNCHANGED <<log, cursor, conn, frame, filter, hand, buffer, start, websocket, told, lost>>

-----------------------------------------------------------------------------
(* The handler *)

\* Mutant: the handler waits for a first frame without a limit.
FirstFrameAwaited(f) ==
  /\ conn[f] = "waiting"
  /\ \/ frame[f] # NoFrame
     \/ left[f]
  /\ filter' = [filter EXCEPT ![f] =
                  IF frame[f].says = "subscribe" THEN frame[f].kinds ELSE Kinds]
  /\ frame' = [frame EXCEPT ![f] = NoFrame]
  /\ conn' = [conn EXCEPT ![f] = "streaming"]
  /\ UNCHANGED <<log, cursor, hand, buffer, left, start, websocket, told, lost>>

\* Mutant: the bus is subscribed to only now.
FirstFrameSubscribes(f) ==
  /\ conn[f] = "waiting"
  /\ filter' = [filter EXCEPT ![f] =
                  IF frame[f].says = "subscribe" THEN frame[f].kinds ELSE Kinds]
  /\ frame' = [frame EXCEPT ![f] = NoFrame]
  /\ conn' = [conn EXCEPT ![f] = "streaming"]
  /\ Subscribe(f)
  /\ UNCHANGED <<log, hand, buffer, left, start, websocket, told, lost>>

\* The first frame, or 500 ms without one, or a client that has gone.
FirstFrame(f) ==
  /\ conn[f] = "waiting"
  /\ filter' = [filter EXCEPT ![f] =
                  IF frame[f].says = "subscribe" THEN frame[f].kinds ELSE Kinds]
  /\ frame' = [frame EXCEPT ![f] = NoFrame]
  /\ conn' = [conn EXCEPT ![f] = "streaming"]
  /\ UNCHANGED <<log, cursor, hand, buffer, left, start, websocket, told, lost>>

\* Later frames are read and ignored.
LaterFrame(f) ==
  /\ conn[f] = "streaming" /\ hand[f] = Nothing
  /\ frame[f] # NoFrame
  /\ frame' = [frame EXCEPT ![f] = NoFrame]
  /\ UNCHANGED <<log, cursor, conn, filter, hand, buffer, left, start, websocket, told, lost>>

TakeEvent(f) ==
  /\ conn[f] = "streaming" /\ hand[f] = Nothing
  /\ Recv(f)
  /\ hand' = [hand EXCEPT ![f] = IF NextEvent(f) \in filter[f] THEN cursor'[f] ELSE Nothing]
  /\ UNCHANGED <<log, conn, frame, filter, buffer, left, start, websocket, told, lost>>

SkipLost(f) ==
  /\ conn[f] = "streaming" /\ hand[f] = Nothing
  /\ RecvLagged(f)
  /\ lost' = [lost EXCEPT ![f] = TRUE]
  /\ UNCHANGED <<log, conn, frame, filter, hand, buffer, left, start, websocket, told>>

\* The send waits for room, and fails when the client has gone.
SendEvent(f) ==
  /\ conn[f] = "streaming" /\ hand[f] # Nothing
  /\ \/ /\ left[f]
        /\ conn' = [conn EXCEPT ![f] = "closed"]
        /\ UNCHANGED <<buffer, told>>
     \/ /\ ~left[f]
        /\ Len(buffer[f]) < SendBuffer
        /\ buffer' = [buffer EXCEPT ![f] = Append(@, hand[f])]
        /\ told' = [told EXCEPT ![f] = Append(@, hand[f])]
        /\ UNCHANGED conn
  /\ hand' = [hand EXCEPT ![f] = Nothing]
  /\ UNCHANGED <<log, cursor, frame, filter, left, start, websocket, lost>>

SeeClientGone(f) ==
  /\ conn[f] = "streaming" /\ hand[f] = Nothing
  /\ left[f]
  /\ conn' = [conn EXCEPT ![f] = "closed"]
  /\ UNCHANGED <<log, cursor, frame, filter, hand, buffer, left, start, websocket, told, lost>>

-----------------------------------------------------------------------------

HandlerStep(f) ==
  \/ FirstFrame(f) \/ LaterFrame(f) \/ TakeEvent(f) \/ SkipLost(f)
  \/ SendEvent(f) \/ SeeClientGone(f)

Next ==
  \/ EventHappens
  \/ \E f \in Feeds :
       \/ Connect(f) \/ ClientSends(f) \/ ClientReads(f) \/ ClientLeaves(f)
       \/ HandlerStep(f)

Spec == Init /\ [][Next]_vars

\* A handler runs on, and select! does not starve the bus for the frames of
\* the client; clients owe nothing.
Fairness ==
  \A f \in Feeds : WF_vars(HandlerStep(f)) /\ SF_vars(TakeEvent(f) \/ SkipLost(f))

FairSpec == Spec /\ Fairness

-----------------------------------------------------------------------------
(* Properties *)

InHand(f) == IF hand[f] = Nothing THEN <<>> ELSE <<hand[f]>>

Increasing(s) == \A p, q \in 1 .. Len(s) : p < q => s[p] < s[q]

\* The places "s" lists, in order, are the matching ones of the log.
Exact(f, s) ==
  /\ Increasing(s)
  /\ {s[p] : p \in 1 .. Len(s)} = {i \in start[f] + 1 .. cursor[f] : log[i] \in filter[f]}

(***************************************************************************)
(* As long as it has not lagged, an open feed has sent exactly the         *)
(* matching events since the client connected, in order, those that        *)
(* happened while a WebSocket waited for its filter included (ws.rs,       *)
(* handle_socket; routes.rs, events).                                      *)
(***************************************************************************)
FeedIsExact ==
  \A f \in Feeds :
    conn[f] = "streaming" /\ ~lost[f] => Exact(f, told[f] \o InHand(f))

\* Nothing is on its way to the client that it has not been sent.
CaughtUp(f) == cursor[f] = Len(log) /\ hand[f] = Nothing

(***************************************************************************)
(* An open feed catches up with the bus, also when the client never says   *)
(* what it wants, unless its client does not read or leaves (ws.rs,        *)
(* handle_socket).                                                         *)
(***************************************************************************)
FeedCatchesUp ==
  \A f \in Feeds :
    Open(f) ~> (CaughtUp(f) \/ Len(buffer[f]) = SendBuffer \/ left[f])

=============================================================================
