---------------------------- MODULE FeedProofs ------------------------------
(***************************************************************************)
(* Proofs about EventFeed and ToolNotifier, for any numbers of feeds,      *)
(* notifiers, kinds of events and any capacities.                          *)
(***************************************************************************)
EXTENDS ToolNotifier, SequenceTheorems, TLAPS

-----------------------------------------------------------------------------
(* The inductive invariant *)

\* What the feed f has sent or is about to send.
Sent(f) == told[f] \o InHand(f)

HistoryTypeOK ==
  /\ Len(log) <= MaxEvents
  /\ told \in [Feeds -> Seq(Nat)]
  /\ start \in [Feeds -> Nat]
  /\ lost \in [Feeds -> BOOLEAN]
  /\ buffer \in [Feeds -> Seq(Nat)]

\* A feed that does not forward yet has nothing to send, one that waits for
\* its filter is where it subscribed, and none is before that place.
FeedOnTrack(f) ==
  /\ conn[f] \in {"new", "waiting"} => told[f] = <<>> /\ hand[f] = Nothing
  /\ conn[f] = "waiting" => cursor[f] = start[f]
  /\ Open(f) => start[f] <= cursor[f]
  /\ conn[f] = "streaming" /\ ~lost[f] => Exact(f, Sent(f))

\* A notifier that has begun is not before its place, and owes no
\* notification but the one of the window it has open.
NotifierOnTrack(m) ==
  watch[m] # "new" =>
    /\ cursor[m] # Unsubscribed
    /\ begun[m] <= cursor[m]
    /\ \A i \in begun[m] + 1 .. cursor[m] :
         log[i] \in ToolKinds =>
           \/ prompted[m] >= i
           \/ i \in missed[m]
           \/ watch[m] = "window"
           \/ peerLeft[m]

NotifierInvariant ==
  /\ NotifierTypeOK
  /\ HistoryTypeOK
  /\ \A f \in Feeds : FeedOnTrack(f)
  /\ \A m \in Notifiers : NotifierOnTrack(m)

-----------------------------------------------------------------------------
(* Facts about the channel and about places *)

(***************************************************************************)
(* A receiver stays inside the log, and none but the one that receives     *)
(* moves (core/bus.rs, recv).                                              *)
(***************************************************************************)
LEMMA Receives ==
  ASSUME BroadcastTypeOK(Kinds), NEW r \in Receivers, Recv(r) \/ RecvLagged(r)
  PROVE  /\ cursor' \in [Receivers -> {Unsubscribed} \cup 0 .. Len(log)]
         /\ \A q \in Receivers \ {r} : cursor'[q] = cursor[q]
         /\ cursor[r] \in Nat /\ cursor'[r] \in Nat /\ cursor[r] < cursor'[r]
         /\ Recv(r) => cursor'[r] = cursor[r] + 1
  BY BroadcastAssumption, LenProperties
     DEF BroadcastTypeOK, Recv, RecvLagged, Waiting, Lagging, Unsubscribed

(***************************************************************************)
(* A place that lies behind all places sent so far can be sent next.       *)
(***************************************************************************)
LEMMA NextPlace ==
  ASSUME NEW s \in Seq(Nat), Increasing(s), NEW e \in Nat, \A p \in 1 .. Len(s) : s[p] < e
  PROVE  /\ Increasing(s \o <<e>>)
         /\ {(s \o <<e>>)[p] : p \in 1 .. Len(s \o <<e>>)} = {s[p] : p \in 1 .. Len(s)} \cup {e}
<1> DEFINE r == s \o <<e>>
           n == Len(s)
<1>1. n \in Nat /\ Len(r) = n + 1 /\ r[n + 1] = e
      /\ \A p \in 1 .. n : r[p] = s[p] /\ s[p] \in Nat
  BY LenProperties
<1> HIDE DEF r, n
<1>2. \A p \in 1 .. n + 1 : p \in 1 .. n \/ p = n + 1
  BY <1>1
<1>3. \A p \in 1 .. n, q \in 1 .. n : p < q => s[p] < s[q]
  BY DEF Increasing, n
<1>4. \A p, q \in 1 .. n + 1 : p < q => r[p] < r[q]
  <2> SUFFICES ASSUME NEW p \in 1 .. n + 1, NEW q \in 1 .. n + 1, p < q
               PROVE  r[p] < r[q]
    OBVIOUS
  <2>1. p \in 1 .. n
    BY <1>1
  <2>2. CASE q \in 1 .. n
    BY <1>1, <1>3, <2>1, <2>2
  <2>3. CASE q = n + 1
    BY <1>1, <2>1, <2>3 DEF n
  <2> QED
    BY <1>2, <2>2, <2>3
<1>5. {r[p] : p \in 1 .. n + 1} = {s[p] : p \in 1 .. n} \cup {e}
  <2>1. \A x \in {r[p] : p \in 1 .. n + 1} : x \in {s[p] : p \in 1 .. n} \cup {e}
    BY <1>1, <1>2
  <2>2. \A p \in 1 .. n : p \in 1 .. n + 1
    BY <1>1
  <2>3. \A x \in {s[p] : p \in 1 .. n} : x \in {r[p] : p \in 1 .. n + 1}
    BY <1>1, <2>2
  <2>4. e \in {r[p] : p \in 1 .. n + 1}
    BY <1>1
  <2> QED
    BY <2>1, <2>3, <2>4
<1> QED
  BY <1>1, <1>4, <1>5 DEF Increasing, r, n

(***************************************************************************)
(* What concerns a feed stays as it is when only the log grows or nothing  *)
(* of the feed changes.                                                    *)
(***************************************************************************)
LEMMA OtherFeed ==
  ASSUME NotifierInvariant, NEW f \in Feeds,
         log' = log \/ \E k \in Kinds : Send(k),
         conn'[f] = conn[f], cursor'[f] = cursor[f], told'[f] = told[f], hand'[f] = hand[f],
         start'[f] = start[f], lost'[f] = lost[f], filter'[f] = filter[f]
  PROVE  FeedOnTrack(f)'
<1>1. /\ log \in Seq(Kinds)
      /\ cursor[f] \in {Unsubscribed} \cup 0 .. Len(log)
      /\ start[f] \in Nat
  BY FeedAssumption DEF NotifierInvariant, NotifierTypeOK, TypeOK, BroadcastTypeOK, HistoryTypeOK
<1>2. \A i \in 1 .. Len(log) : log'[i] = log[i]
  <2>1. ASSUME NEW k \in Kinds, log' = Append(log, k)
        PROVE  \A i \in 1 .. Len(log) : log'[i] = log[i]
    BY <1>1, <2>1, AppendProperties
  <2> QED
    BY <2>1 DEF Send
<1>3. {i \in start[f] + 1 .. cursor[f] : log'[i] \in filter[f]} =
      {i \in start[f] + 1 .. cursor[f] : log[i] \in filter[f]}
  <2>1. \A i \in start[f] + 1 .. cursor[f] : i \in 1 .. Len(log)
    BY <1>1, LenProperties DEF Unsubscribed
  <2> QED
    BY <1>2, <2>1
<1>4. FeedOnTrack(f)
  BY DEF NotifierInvariant
<1>5. Sent(f)' = Sent(f)
  BY DEF Sent, InHand
<1>6. Exact(f, Sent(f)) => Exact(f, Sent(f))'
  BY <1>3, <1>5 DEF Exact
<1> QED
  BY <1>4, <1>6 DEF FeedOnTrack, Open

-----------------------------------------------------------------------------
(* The steps of the feeds *)

(***************************************************************************)
(* Every step of a feed, a client or the bus keeps the types.              *)
(***************************************************************************)
LEMMA FeedTypes ==
  ASSUME NotifierInvariant, Next
  PROVE  TypeOK' /\ HistoryTypeOK'
<1> USE DEF NotifierInvariant, NotifierTypeOK
<1>0. TypeOK /\ HistoryTypeOK /\ BroadcastTypeOK(Kinds) /\ Feeds \subseteq Receivers
      /\ Len(log) \in Nat /\ SendBuffer \in Nat \ {0} /\ MaxEvents \in Nat
  BY FeedAssumption, LenProperties DEF TypeOK, BroadcastTypeOK
<1>1. CASE EventHappens
  <2>1. PICK k \in Kinds : log' = Append(log, k)
    BY <1>1 DEF EventHappens, Send
  <2>2. log' \in Seq(Kinds) /\ Len(log') = Len(log) + 1 /\ Len(log) < MaxEvents
    BY <1>0, <1>1, <2>1 DEF EventHappens, BroadcastTypeOK
  <2>3. cursor \in [Receivers -> {Unsubscribed} \cup 0 .. Len(log')]
    BY <1>0, <2>2 DEF BroadcastTypeOK
  <2> QED
    BY <1>0, <1>1, <2>2, <2>3 DEF EventHappens, feedVars, TypeOK, BroadcastTypeOK, HistoryTypeOK, Open
<1>2. ASSUME NEW f \in Feeds, Connect(f)
      PROVE  TypeOK' /\ HistoryTypeOK'
  <2>1. cursor' \in [Receivers -> {Unsubscribed} \cup 0 .. Len(log)] /\ cursor'[f] = Len(log)
        /\ \A g \in Feeds \ {f} : cursor'[g] = cursor[g]
    BY <1>0, <1>2 DEF Connect, Subscribe, BroadcastTypeOK
  <2>2. \A g \in Feeds \ {f} : conn'[g] = conn[g]
    BY <1>0, <1>2 DEF Connect, TypeOK
  <2>3. \A g \in Feeds : Open(g)' => cursor'[g] # Unsubscribed
    <3>1. \A g \in Feeds \ {f} : Open(g)' => Open(g)
      BY <2>2 DEF Open
    <3>2. \A g \in Feeds \ {f} : Open(g)' => cursor'[g] # Unsubscribed
      BY <1>0, <2>1, <3>1 DEF TypeOK
    <3> QED
      BY <1>0, <2>1, <3>2 DEF Unsubscribed
  <2>4. conn' \in [Feeds -> {"new", "waiting", "streaming", "closed"}]
    BY <1>0, <1>2 DEF Connect, TypeOK
  <2>5. websocket' \in [Feeds -> BOOLEAN]
    BY <1>0, <1>2 DEF Connect, TypeOK
  <2>6. start' \in [Feeds -> Nat]
    BY <1>0, <1>2 DEF Connect, HistoryTypeOK
  <2> QED
    BY <1>0, <1>2, <2>1, <2>3, <2>4, <2>5, <2>6 DEF Connect, TypeOK, BroadcastTypeOK, HistoryTypeOK
<1>3. ASSUME NEW f \in Feeds, ClientSends(f)
      PROVE  TypeOK' /\ HistoryTypeOK'
  BY <1>0, <1>3 DEF ClientSends, TypeOK, BroadcastTypeOK, HistoryTypeOK, Open
<1>4. ASSUME NEW f \in Feeds, ClientReads(f)
      PROVE  TypeOK' /\ HistoryTypeOK'
  <2>1. buffer[f] \in Seq(Nat) /\ buffer[f] # <<>> /\ Len(buffer[f]) <= SendBuffer
    BY <1>0, <1>4 DEF ClientReads, HistoryTypeOK, TypeOK
  <2>2. Tail(buffer[f]) \in Seq(Nat) /\ Len(Tail(buffer[f])) <= SendBuffer
    BY <1>0, <2>1, HeadTailProperties, LenProperties
  <2>3. buffer' \in [Feeds -> Seq(Nat)] /\ \A g \in Feeds : Len(buffer'[g]) <= SendBuffer
    BY <1>0, <1>4, <2>2 DEF ClientReads, HistoryTypeOK, TypeOK
  <2> QED
    BY <1>0, <1>4, <2>3 DEF ClientReads, TypeOK, BroadcastTypeOK, HistoryTypeOK, Open
<1>5. ASSUME NEW f \in Feeds, ClientLeaves(f)
      PROVE  TypeOK' /\ HistoryTypeOK'
  BY <1>0, <1>5 DEF ClientLeaves, TypeOK, BroadcastTypeOK, HistoryTypeOK, Open
<1>6. ASSUME NEW f \in Feeds, FirstFrame(f)
      PROVE  TypeOK' /\ HistoryTypeOK'
  <2>1. frame[f] \in Frame \cup {NoFrame}
    BY <1>0 DEF TypeOK
  <2>2. (IF frame[f].says = "subscribe" THEN frame[f].kinds ELSE Kinds) \in SUBSET Kinds
    BY <2>1 DEF Frame, NoFrame
  <2>3. filter' \in [Feeds -> SUBSET Kinds]
    BY <1>0, <1>6, <2>2 DEF FirstFrame, TypeOK
  <2>4. frame' \in [Feeds -> Frame \cup {NoFrame}]
    BY <1>0, <1>6 DEF FirstFrame, TypeOK
  <2>5. conn' \in [Feeds -> {"new", "waiting", "streaming", "closed"}]
        /\ \A g \in Feeds : Open(g)' => Open(g)
    BY <1>0, <1>6 DEF FirstFrame, TypeOK, Open
  <2> QED
    BY <1>0, <1>6, <2>3, <2>4, <2>5 DEF FirstFrame, TypeOK, BroadcastTypeOK, HistoryTypeOK
<1>7. ASSUME NEW f \in Feeds, LaterFrame(f)
      PROVE  TypeOK' /\ HistoryTypeOK'
  BY <1>0, <1>7 DEF LaterFrame, TypeOK, BroadcastTypeOK, HistoryTypeOK, Open
<1>8. ASSUME NEW f \in Feeds, TakeEvent(f) \/ SkipLost(f)
      PROVE  TypeOK' /\ HistoryTypeOK'
  <2>1. /\ cursor' \in [Receivers -> {Unsubscribed} \cup 0 .. Len(log)]
        /\ \A g \in Feeds \ {f} : cursor'[g] = cursor[g]
        /\ cursor'[f] \in Nat
    BY <1>0, <1>8, Receives DEF TakeEvent, SkipLost
  <2>2. cursor'[f] \in 0 .. MaxEvents
    <3>1. f \in Receivers /\ Len(log) <= MaxEvents
      BY <1>0 DEF HistoryTypeOK
    <3>2. cursor'[f] \in {Unsubscribed} \cup 0 .. Len(log)
      BY <2>1, <3>1
    <3> QED
      BY <1>0, <2>1, <3>1, <3>2 DEF Unsubscribed
  <2>3. hand' \in [Feeds -> 0 .. MaxEvents]
    BY <1>0, <1>8, <2>2 DEF TakeEvent, SkipLost, TypeOK, Nothing
  <2>4. \A g \in Feeds : Open(g)' => cursor'[g] # Unsubscribed
    <3>1. \A g \in Feeds : Open(g)' => Open(g)
      BY <1>8 DEF TakeEvent, SkipLost, Open
    <3>2. \A g \in Feeds \ {f} : Open(g)' => cursor'[g] # Unsubscribed
      BY <1>0, <2>1, <3>1 DEF TypeOK
    <3> QED
      BY <2>1, <3>2 DEF Unsubscribed
  <2> QED
    BY <1>0, <1>8, <2>1, <2>3, <2>4 DEF TakeEvent, SkipLost, TypeOK, BroadcastTypeOK, HistoryTypeOK
<1>9. ASSUME NEW f \in Feeds, SendEvent(f)
      PROVE  TypeOK' /\ HistoryTypeOK'
  <2>1. hand' \in [Feeds -> 0 .. MaxEvents] /\ hand[f] \in Nat
    BY <1>0, <1>9 DEF SendEvent, TypeOK, Nothing
  <2>2. CASE left[f] /\ UNCHANGED <<buffer, told>> /\ conn' = [conn EXCEPT ![f] = "closed"]
    BY <1>0, <1>9, <2>1, <2>2 DEF SendEvent, TypeOK, BroadcastTypeOK, HistoryTypeOK, Open
  <2>3. CASE /\ Len(buffer[f]) < SendBuffer
             /\ buffer' = [buffer EXCEPT ![f] = Append(@, hand[f])]
             /\ told' = [told EXCEPT ![f] = Append(@, hand[f])]
             /\ UNCHANGED conn
    <3>1. buffer[f] \in Seq(Nat) /\ told[f] \in Seq(Nat)
      BY <1>0 DEF HistoryTypeOK
    <3>2. Append(buffer[f], hand[f]) \in Seq(Nat) /\ Append(told[f], hand[f]) \in Seq(Nat)
          /\ Len(Append(buffer[f], hand[f])) = Len(buffer[f]) + 1
      BY <2>1, <3>1
    <3>3. told' \in [Feeds -> Seq(Nat)] /\ buffer' \in [Feeds -> Seq(Nat)]
      BY <1>0, <2>3, <3>2 DEF HistoryTypeOK
    <3>4. \A g \in Feeds : Len(buffer'[g]) <= SendBuffer
      BY <1>0, <2>3, <3>1, <3>2, LenProperties DEF TypeOK, HistoryTypeOK
    <3> QED
      BY <1>0, <1>9, <2>1, <2>3, <3>3, <3>4 DEF SendEvent, TypeOK, BroadcastTypeOK, HistoryTypeOK, Open
  <2> QED
    BY <1>9, <2>2, <2>3 DEF SendEvent
<1>10. ASSUME NEW f \in Feeds, SeeClientGone(f)
       PROVE  TypeOK' /\ HistoryTypeOK'
  BY <1>0, <1>10 DEF SeeClientGone, TypeOK, BroadcastTypeOK, HistoryTypeOK, Open
<1> QED
  BY <1>1, <1>2, <1>3, <1>4, <1>5, <1>6, <1>7, <1>8, <1>9, <1>10 DEF Next, HandlerStep

(***************************************************************************)
(* Every step of a feed, a client or the bus keeps each feed on its track: *)
(* what it sends next lies behind all it has sent, and is the next place   *)
(* that matches (ws.rs, handle_socket).                                    *)
(***************************************************************************)
LEMMA FeedsStayOnTrack ==
  ASSUME NotifierInvariant, Next
  PROVE  \A f \in Feeds : FeedOnTrack(f)'
<1>0. /\ TypeOK /\ HistoryTypeOK /\ BroadcastTypeOK(Kinds) /\ Feeds \subseteq Receivers
      /\ Len(log) \in Nat
      /\ \A f \in Feeds : /\ cursor[f] \in {Unsubscribed} \cup 0 .. Len(log)
                          /\ told[f] \in Seq(Nat) /\ hand[f] \in Nat /\ start[f] \in Nat
  BY FeedAssumption, LenProperties
     DEF NotifierInvariant, NotifierTypeOK, TypeOK, HistoryTypeOK, BroadcastTypeOK
<1>1. CASE EventHappens
  BY <1>1, OtherFeed DEF EventHappens, feedVars
<1>2. ASSUME NEW f \in Feeds, HandlerStep(f) \/ Connect(f) \/ ClientSends(f) \/ ClientReads(f)
                               \/ ClientLeaves(f),
             NEW g \in Feeds, g # f
      PROVE  FeedOnTrack(g)'
  <2>1. cursor'[g] = cursor[g]
    <3>1. CASE Recv(f) \/ RecvLagged(f)
      BY <1>0, <1>2, <3>1, Receives
    <3>2. CASE Subscribe(f) \/ UNCHANGED cursor
      BY <1>0, <1>2, <3>2 DEF Subscribe, BroadcastTypeOK
    <3> QED
      BY <1>2, <3>1, <3>2 DEF HandlerStep, FirstFrame, LaterFrame, TakeEvent, SkipLost, SendEvent,
         SeeClientGone, Connect, ClientSends, ClientReads, ClientLeaves
  <2>2. UNCHANGED <<log, conn[g], told[g], hand[g], start[g], lost[g], filter[g]>>
    BY <1>0, <1>2 DEF HandlerStep, FirstFrame, LaterFrame, TakeEvent, SkipLost, SendEvent,
       SeeClientGone, Connect, ClientSends, ClientReads, ClientLeaves, TypeOK, HistoryTypeOK
  <2> QED
    BY <1>0, <2>1, <2>2, OtherFeed
<1>3. ASSUME NEW f \in Feeds, ClientSends(f) \/ ClientReads(f) \/ ClientLeaves(f) \/ LaterFrame(f)
      PROVE  FeedOnTrack(f)'
  <2>1. UNCHANGED <<log, conn[f], cursor[f], told[f], hand[f], start[f], lost[f], filter[f]>>
    BY <1>3 DEF ClientSends, ClientReads, ClientLeaves, LaterFrame
  <2> QED
    BY <2>1, OtherFeed
<1>4. ASSUME NEW f \in Feeds, told'[f] = <<>>, hand'[f] = Nothing, cursor'[f] = start'[f],
             start'[f] \in Nat
      PROVE  FeedOnTrack(f)'
  <2>1. Sent(f)' = <<>>
    BY <1>4 DEF Sent, InHand
  <2>2. start'[f] + 1 .. cursor'[f] = {}
    BY <1>4
  <2>3. Exact(f, Sent(f))'
    BY <2>1, <2>2 DEF Exact, Increasing
  <2> QED
    BY <1>4, <2>3 DEF FeedOnTrack
<1>5. ASSUME NEW f \in Feeds, Connect(f)
      PROVE  FeedOnTrack(f)'
  <2>1. told'[f] = <<>> /\ hand'[f] = Nothing
    BY <1>0, <1>5 DEF NotifierInvariant, Connect, FeedOnTrack
  <2>2. cursor'[f] = Len(log) /\ start'[f] = Len(log)
    BY <1>0, <1>5 DEF Connect, Subscribe, BroadcastTypeOK, HistoryTypeOK
  <2> QED
    BY <1>0, <1>4, <2>1, <2>2
<1>6. ASSUME NEW f \in Feeds, FirstFrame(f)
      PROVE  FeedOnTrack(f)'
  <2>1. told[f] = <<>> /\ hand[f] = Nothing /\ cursor[f] = start[f]
    BY <1>6 DEF NotifierInvariant, FirstFrame, FeedOnTrack
  <2> QED
    BY <1>0, <1>4, <1>6, <2>1 DEF FirstFrame
<1>7. ASSUME NEW f \in Feeds, TakeEvent(f)
      PROVE  FeedOnTrack(f)'
  <2> DEFINE c == cursor[f] + 1
  <2>1. /\ cursor[f] \in Nat /\ cursor'[f] = c /\ c \in Nat /\ c # Nothing
        /\ UNCHANGED <<log, conn, filter, start, told, lost>>
        /\ conn[f] = "streaming" /\ hand[f] = Nothing
    BY <1>0, <1>7, Receives DEF TakeEvent, Nothing
  <2>2. hand'[f] = IF log[c] \in filter[f] THEN c ELSE Nothing
    BY <1>0, <1>7, <2>1 DEF TakeEvent, TypeOK, NextEvent
  <2>3. FeedOnTrack(f) /\ start[f] <= cursor[f] /\ start[f] \in Nat
    BY <1>0, <2>1 DEF NotifierInvariant, FeedOnTrack, Open
  <2>4. Sent(f) = told[f] /\ told[f] \in Seq(Nat)
    BY <1>0, <2>1, ConcatEmptySeq DEF Sent, InHand
  <2>5. Sent(f)' = IF log[c] \in filter[f] THEN told[f] \o <<c>> ELSE told[f]
    BY <1>0, <2>1, <2>2, ConcatEmptySeq DEF Sent, InHand
  <2> DEFINE Places(s) == {s[p] : p \in 1 .. Len(s)}
             Matches(n) == {i \in start[f] + 1 .. n : log[i] \in filter[f]}
  <2>6. Matches(c) = IF log[c] \in filter[f] THEN Matches(cursor[f]) \cup {c} ELSE Matches(cursor[f])
    BY <2>1, <2>3
  <2>7. ASSUME ~lost[f]
        PROVE  Exact(f, Sent(f))'
    <3>1. Increasing(told[f]) /\ Places(told[f]) = Matches(cursor[f])
      BY <2>1, <2>3, <2>4, <2>7 DEF FeedOnTrack, Exact
    <3>2. \A p \in 1 .. Len(told[f]) : told[f][p] \in Matches(cursor[f])
      BY <3>1
    <3>3. \A p \in 1 .. Len(told[f]) : told[f][p] < c
      BY <2>1, <2>3, <3>2
    <3>4. Increasing(Sent(f)') /\ Places(Sent(f)') = Matches(c)
      <4>1. CASE log[c] \in filter[f]
        <5>1. Sent(f)' = told[f] \o <<c>>
          BY <2>5, <4>1
        <5>2. Increasing(told[f] \o <<c>>) /\ Places(told[f] \o <<c>>) = Places(told[f]) \cup {c}
          BY <2>1, <2>4, <3>1, <3>3, NextPlace
        <5> QED
          BY <2>6, <3>1, <4>1, <5>1, <5>2
      <4>2. CASE log[c] \notin filter[f]
        BY <2>5, <2>6, <3>1, <4>2
      <4> QED
        BY <4>1, <4>2
    <3> QED
      BY <2>1, <3>4 DEF Exact, Increasing
  <2> QED
    BY <2>1, <2>3, <2>7 DEF FeedOnTrack, Open
<1>8. ASSUME NEW f \in Feeds, SkipLost(f)
      PROVE  FeedOnTrack(f)'
  <2>1. cursor[f] < cursor'[f] /\ cursor[f] \in Nat /\ cursor'[f] \in Nat
    BY <1>0, <1>8, Receives DEF SkipLost
  <2>2. conn'[f] = "streaming" /\ lost'[f] /\ start'[f] = start[f]
    BY <1>0, <1>8 DEF SkipLost, TypeOK, NotifierInvariant, NotifierTypeOK, HistoryTypeOK
  <2>3. start[f] <= cursor[f]
    BY <1>8 DEF NotifierInvariant, FeedOnTrack, SkipLost, Open
  <2> QED
    BY <1>0, <2>1, <2>2, <2>3 DEF FeedOnTrack
<1>9. ASSUME NEW f \in Feeds, SendEvent(f)
      PROVE  FeedOnTrack(f)'
  <2>1. CASE left[f] /\ conn' = [conn EXCEPT ![f] = "closed"]
    BY <1>0, <2>1 DEF FeedOnTrack, TypeOK, Open
  <2>2. CASE /\ told' = [told EXCEPT ![f] = Append(@, hand[f])]
             /\ UNCHANGED conn
    <3>1. Sent(f)' = Sent(f)
      <4>1. told'[f] = Append(told[f], hand[f]) /\ hand'[f] = Nothing /\ hand[f] # Nothing
        BY <1>0, <1>9, <2>2 DEF SendEvent, TypeOK, HistoryTypeOK
      <4>2. Append(told[f], hand[f]) = told[f] \o <<hand[f]>>
            /\ Append(told[f], hand[f]) \in Seq(Nat)
        BY <1>0, AppendIsConcat, SMTT(40)
      <4> QED
        BY <4>1, <4>2, ConcatEmptySeq DEF Sent, InHand
    <3>2. conn[f] = "streaming" /\ UNCHANGED <<log, conn, cursor, start, lost, filter>>
      BY <1>9, <2>2 DEF SendEvent
    <3>3. FeedOnTrack(f)
      BY DEF NotifierInvariant
    <3>4. Exact(f, Sent(f)) => Exact(f, Sent(f))'
      BY <3>1, <3>2 DEF Exact
    <3> QED
      BY <3>2, <3>3, <3>4 DEF FeedOnTrack, Open
  <2> QED
    BY <1>9, <2>1, <2>2 DEF SendEvent
<1>10. ASSUME NEW f \in Feeds, SeeClientGone(f)
       PROVE  FeedOnTrack(f)'
  BY <1>0, <1>10 DEF SeeClientGone, FeedOnTrack, TypeOK, Open
<1> QED
  BY <1>1, <1>2, <1>3, <1>5, <1>6, <1>7, <1>8, <1>9, <1>10 DEF Next, HandlerStep

-----------------------------------------------------------------------------
(* The steps of the notifiers *)

(***************************************************************************)
(* A notifier shares nothing with the feeds but the log.                   *)
(***************************************************************************)
LEMMA NotifiersLeaveFeeds ==
  ASSUME NotifierInvariant, NEW m \in Notifiers,
         StartNotifier(m) \/ PeerLeaves(m) \/ NotifierStep(m)
  PROVE  /\ TypeOK' /\ HistoryTypeOK' /\ UNCHANGED <<log, feedVars>>
         /\ \A f \in Feeds : FeedOnTrack(f)'
         /\ \A n \in Notifiers \ {m} : cursor'[n] = cursor[n]
<1>0. /\ TypeOK /\ HistoryTypeOK /\ BroadcastTypeOK(Kinds)
      /\ Feeds \subseteq Receivers /\ m \in Receivers \ Feeds /\ Len(log) \in Nat
  BY FeedAssumption, LenProperties
     DEF NotifierInvariant, NotifierTypeOK, TypeOK, BroadcastTypeOK, Notifiers
<1>1. UNCHANGED <<log, feedVars>>
  BY DEF StartNotifier, PeerLeaves, NotifierStep, FirstChange, LagOutsideWindow, Drain, Notify
<1>2. /\ cursor' \in [Receivers -> {Unsubscribed} \cup 0 .. Len(log)]
      /\ \A r \in Receivers \ {m} : cursor'[r] = cursor[r]
  <2>1. CASE Recv(m) \/ RecvLagged(m)
    BY <1>0, <2>1, Receives
  <2>2. CASE Subscribe(m) \/ UNCHANGED cursor
    BY <1>0, <2>2 DEF Subscribe, BroadcastTypeOK
  <2> QED
    BY <2>1, <2>2 DEF StartNotifier, PeerLeaves, NotifierStep, FirstChange, LagOutsideWindow, Drain,
       Notify
<1>3. \A f \in Feeds : cursor'[f] = cursor[f]
  BY <1>0, <1>2
<1>4. TypeOK'
  BY <1>0, <1>1, <1>2, <1>3 DEF feedVars, TypeOK, BroadcastTypeOK, Open
<1>5. HistoryTypeOK'
  BY <1>0, <1>1 DEF feedVars, HistoryTypeOK
<1>6. \A f \in Feeds : FeedOnTrack(f)'
  BY <1>1, <1>3, OtherFeed DEF feedVars
<1> QED
  BY <1>0, <1>1, <1>2, <1>4, <1>5, <1>6 DEF Notifiers

(***************************************************************************)
(* The variables of the notifiers keep their types.                        *)
(***************************************************************************)
LEMMA NotifierTypes ==
  ASSUME NotifierInvariant, NEW m \in Notifiers,
         StartNotifier(m) \/ PeerLeaves(m) \/ NotifierStep(m)
  PROVE  NotifierTypeOK'
<1>0. /\ NotifierTypeOK /\ BroadcastTypeOK(Kinds) /\ m \in Receivers /\ MaxEvents \in Nat
      /\ Len(log) \in Nat /\ Len(log) <= MaxEvents
  BY FeedAssumption, LenProperties
     DEF NotifierInvariant, NotifierTypeOK, HistoryTypeOK, TypeOK, BroadcastTypeOK, Notifiers
<1>1. TypeOK'
  BY NotifiersLeaveFeeds
<1>2. CASE StartNotifier(m)
  BY <1>0, <1>1, <1>2 DEF StartNotifier, NotifierTypeOK
<1>3. CASE PeerLeaves(m)
  BY <1>0, <1>1, <1>3 DEF PeerLeaves, NotifierTypeOK
<1>4. CASE FirstChange(m)
  BY <1>0, <1>1, <1>4 DEF FirstChange, NotifierTypeOK
<1>5. CASE LagOutsideWindow(m)
  <2>1. cursor[m] \in Nat /\ cursor'[m] \in {Unsubscribed} \cup 0 .. Len(log)
    BY <1>0, <1>5, Receives DEF LagOutsideWindow
  <2>2. cursor[m] + 1 .. cursor'[m] \subseteq 1 .. MaxEvents
    BY <1>0, <2>1 DEF Unsubscribed
  <2>3. missed' \in [Notifiers -> SUBSET (1 .. MaxEvents)]
    BY <1>0, <1>5, <2>2 DEF LagOutsideWindow, NotifierTypeOK
  <2> QED
    BY <1>0, <1>1, <1>5, <2>3 DEF LagOutsideWindow, NotifierTypeOK
<1>6. CASE Drain(m)
  BY <1>0, <1>1, <1>6 DEF Drain, notifierVars, NotifierTypeOK
<1>7. CASE Notify(m)
  <2>1. cursor[m] \in 0 .. MaxEvents
    <3>1. cursor[m] # Unsubscribed
      BY <1>7 DEF NotifierInvariant, NotifierOnTrack, Notify
    <3> QED
      BY <1>0, <3>1 DEF BroadcastTypeOK, Unsubscribed
  <2>2. prompted' \in [Notifiers -> 0 .. MaxEvents]
    BY <1>0, <1>7, <2>1 DEF Notify, NotifierTypeOK
  <2>3. watch' \in [Notifiers -> {"new", "idle", "window", "ended"}]
    BY <1>0, <1>7 DEF Notify, NotifierTypeOK
  <2> QED
    BY <1>0, <1>1, <1>7, <2>2, <2>3 DEF Notify, NotifierTypeOK
<1> QED
  BY <1>2, <1>3, <1>4, <1>5, <1>6, <1>7 DEF NotifierStep

(***************************************************************************)
(* A notifier of which nothing changes stays on its track while the log    *)
(* grows.                                                                  *)
(***************************************************************************)
LEMMA OtherNotifier ==
  ASSUME NotifierInvariant, NEW m \in Notifiers,
         log' = log \/ \E k \in Kinds : Send(k),
         watch'[m] = watch[m], cursor'[m] = cursor[m], begun'[m] = begun[m],
         prompted'[m] = prompted[m], missed'[m] = missed[m],
         peerLeft[m] => peerLeft'[m]
  PROVE  NotifierOnTrack(m)'
<1>1. /\ log \in Seq(Kinds) /\ cursor[m] \in {Unsubscribed} \cup 0 .. Len(log)
      /\ begun[m] \in Nat
  BY DEF NotifierInvariant, NotifierTypeOK, TypeOK, BroadcastTypeOK, Notifiers
<1>2. \A i \in 1 .. Len(log) : log'[i] = log[i]
  <2>1. ASSUME NEW k \in Kinds, log' = Append(log, k)
        PROVE  \A i \in 1 .. Len(log) : log'[i] = log[i]
    BY <1>1, <2>1, AppendProperties
  <2> QED
    BY <2>1 DEF Send
<1>3. \A i \in begun[m] + 1 .. cursor[m] : i \in 1 .. Len(log)
  BY <1>1, LenProperties DEF Unsubscribed
<1>4. NotifierOnTrack(m)
  BY DEF NotifierInvariant
<1> QED
  BY <1>2, <1>3, <1>4 DEF NotifierOnTrack

(***************************************************************************)
(* Every step of a notifier keeps all of them on their track: what it      *)
(* passes over is no change of the tools, or opens a window, or is drained *)
(* in one, or is lost (notifier.rs, run_tool_notifier).                    *)
(***************************************************************************)
LEMMA NotifiersStayOnTrack ==
  ASSUME NotifierInvariant, NEW m \in Notifiers,
         StartNotifier(m) \/ PeerLeaves(m) \/ NotifierStep(m)
  PROVE  \A n \in Notifiers : NotifierOnTrack(n)'
<1>0. /\ NotifierTypeOK /\ BroadcastTypeOK(Kinds) /\ m \in Receivers
      /\ Len(log) \in Nat /\ begun[m] \in Nat /\ prompted[m] \in Nat
      /\ cursor[m] \in {Unsubscribed} \cup 0 .. Len(log)
      /\ NotifierOnTrack(m)
  BY LenProperties DEF NotifierInvariant, NotifierTypeOK, TypeOK, BroadcastTypeOK, Notifiers
<1>1. ASSUME NEW n \in Notifiers, n # m
      PROVE  NotifierOnTrack(n)'
  <2>1. UNCHANGED log /\ cursor'[n] = cursor[n]
    BY <1>1, NotifiersLeaveFeeds
  <2>2. UNCHANGED <<watch[n], begun[n], prompted[n], missed[n], peerLeft[n]>>
    BY <1>0, <1>1 DEF StartNotifier, PeerLeaves, NotifierStep, FirstChange, LagOutsideWindow, Drain,
       Notify, notifierVars, NotifierTypeOK
  <2> QED
    BY <2>1, <2>2, OtherNotifier
<1>2. CASE StartNotifier(m)
  <2>1. cursor'[m] = Len(log) /\ begun'[m] = Len(log)
    BY <1>0, <1>2 DEF StartNotifier, Subscribe, BroadcastTypeOK, NotifierTypeOK
  <2>2. cursor'[m] # Unsubscribed /\ begun'[m] <= cursor'[m] /\ begun'[m] + 1 .. cursor'[m] = {}
    BY <1>0, <2>1 DEF Unsubscribed
  <2>3. NotifierOnTrack(m)'
    BY <2>2 DEF NotifierOnTrack
  <2> QED
    BY <1>1, <2>3
<1>3. CASE PeerLeaves(m)
  <2>1. NotifierOnTrack(m)'
    BY <1>0, <1>3, OtherNotifier DEF PeerLeaves, NotifierTypeOK
  <2> QED
    BY <1>1, <2>1
<1>4. CASE FirstChange(m)
  <2>1. /\ cursor[m] \in Nat /\ cursor'[m] = cursor[m] + 1 /\ watch[m] = "idle"
        /\ UNCHANGED <<log, begun, prompted, missed, peerLeft>>
    BY <1>0, <1>4, Receives DEF FirstChange
  <2>2. watch'[m] = IF log[cursor[m] + 1] \in ToolKinds THEN "window" ELSE "idle"
    BY <1>0, <1>4 DEF FirstChange, NotifierTypeOK, IsToolEvent, NextEvent
  <2>3. \A i \in begun[m] + 1 .. cursor[m] + 1 : i \in begun[m] + 1 .. cursor[m] \/ i = cursor[m] + 1
    BY <1>0, <2>1
  <2>4. begun[m] <= cursor[m] + 1 /\ cursor[m] + 1 # Unsubscribed
    BY <1>0, <2>1 DEF NotifierOnTrack, Unsubscribed
  <2>5. NotifierOnTrack(m)'
    BY <1>0, <2>1, <2>2, <2>3, <2>4 DEF NotifierOnTrack
  <2> QED
    BY <1>1, <2>5
<1>5. CASE LagOutsideWindow(m)
  <2>1. /\ cursor[m] \in Nat /\ cursor'[m] \in Nat /\ cursor[m] < cursor'[m] /\ watch[m] = "idle"
        /\ UNCHANGED <<log, watch, begun, prompted, peerLeft>>
    BY <1>0, <1>5, Receives DEF LagOutsideWindow
  <2>2. missed'[m] = missed[m] \cup (cursor[m] + 1 .. cursor'[m])
    BY <1>0, <1>5 DEF LagOutsideWindow, NotifierTypeOK
  <2>3. \A i \in begun[m] + 1 .. cursor'[m] :
          i \in begun[m] + 1 .. cursor[m] \/ i \in cursor[m] + 1 .. cursor'[m]
    BY <1>0, <2>1
  <2>4. begun[m] <= cursor'[m] /\ cursor'[m] # Unsubscribed
    BY <1>0, <2>1 DEF NotifierOnTrack, Unsubscribed
  <2>5. NotifierOnTrack(m)'
    BY <1>0, <2>1, <2>2, <2>3, <2>4 DEF NotifierOnTrack
  <2> QED
    BY <1>1, <2>5
<1>6. CASE Drain(m)
  <2>1. /\ cursor[m] \in Nat /\ cursor'[m] \in Nat /\ cursor[m] < cursor'[m] /\ watch'[m] = "window"
        /\ UNCHANGED <<log, begun>> /\ watch[m] = "window"
    BY <1>0, <1>6, Receives DEF Drain, notifierVars
  <2>2. begun[m] <= cursor'[m] /\ cursor'[m] # Unsubscribed
    BY <1>0, <2>1 DEF NotifierOnTrack, Unsubscribed
  <2>3. NotifierOnTrack(m)'
    BY <2>1, <2>2 DEF NotifierOnTrack
  <2> QED
    BY <1>1, <2>3
<1>7. CASE Notify(m)
  <2>1. UNCHANGED <<log, cursor, begun, missed, peerLeft>> /\ watch[m] = "window"
    BY <1>7 DEF Notify
  <2>2. peerLeft'[m] \/ prompted'[m] = cursor'[m]
    BY <1>0, <1>7 DEF Notify, NotifierTypeOK
  <2>3. cursor'[m] # Unsubscribed /\ begun'[m] <= cursor'[m]
    BY <1>0, <2>1 DEF NotifierOnTrack
  <2>4. \A i \in begun'[m] + 1 .. cursor'[m] : peerLeft'[m] \/ prompted'[m] >= i
    BY <1>0, <2>1, <2>2, <2>3 DEF Unsubscribed
  <2>5. NotifierOnTrack(m)'
    BY <2>3, <2>4 DEF NotifierOnTrack
  <2> QED
    BY <1>1, <2>5
<1> QED
  BY <1>2, <1>3, <1>4, <1>5, <1>6, <1>7 DEF NotifierStep

(***************************************************************************)
(* The invariant holds at the start and is kept by every step.             *)
(***************************************************************************)
LEMMA InvariantHolds ==
  NotifierSpec => []NotifierInvariant
<1>1. NotifierInit => NotifierInvariant
  <2> SUFFICES ASSUME NotifierInit
               PROVE  NotifierInvariant
    OBVIOUS
  <2> USE DEF NotifierInit, Init, BroadcastInit
  <2>1. <<>> \in Seq(Kinds) /\ <<>> \in Seq(Nat) /\ Len(<<>>) = 0 /\ MaxEvents \in Nat
        /\ SendBuffer \in Nat
    BY FeedAssumption
  <2>2. TypeOK
    BY <2>1 DEF TypeOK, BroadcastTypeOK, Open, Nothing, Unsubscribed
  <2>3. HistoryTypeOK
    BY <2>1 DEF HistoryTypeOK
  <2>4. NotifierTypeOK
    BY <2>1, <2>2 DEF NotifierTypeOK
  <2>5. \A f \in Feeds : FeedOnTrack(f)
    BY DEF FeedOnTrack, Open
  <2>6. \A m \in Notifiers : NotifierOnTrack(m)
    BY DEF NotifierOnTrack
  <2> QED
    BY <2>3, <2>4, <2>5, <2>6 DEF NotifierInvariant
<1>2. NotifierInvariant /\ [NotifierNext]_allVars => NotifierInvariant'
  <2> SUFFICES ASSUME NotifierInvariant, [NotifierNext]_allVars
               PROVE  NotifierInvariant'
    OBVIOUS
  <2>1. CASE Next /\ UNCHANGED notifierVars
    <3>1. TypeOK' /\ HistoryTypeOK' /\ \A f \in Feeds : FeedOnTrack(f)'
      BY <2>1, FeedTypes, FeedsStayOnTrack
    <3>2. NotifierTypeOK'
      BY <2>1, <3>1 DEF NotifierInvariant, NotifierTypeOK, notifierVars
    <3>3. log' = log \/ \E k \in Kinds : Send(k)
      BY <2>1 DEF Next, EventHappens, HandlerStep, FirstFrame, LaterFrame, TakeEvent, SkipLost,
         SendEvent, SeeClientGone, Connect, ClientSends, ClientReads, ClientLeaves
    <3>4. ASSUME NEW m \in Notifiers
          PROVE  cursor'[m] = cursor[m]
      <4>1. BroadcastTypeOK(Kinds) /\ Feeds \subseteq Receivers /\ m \in Receivers \ Feeds
        BY FeedAssumption DEF NotifierInvariant, NotifierTypeOK, TypeOK, Notifiers
      <4>2. ASSUME NEW f \in Feeds, Recv(f) \/ RecvLagged(f)
            PROVE  cursor'[m] = cursor[m]
        BY <4>1, <4>2, Receives
      <4>3. ASSUME NEW f \in Feeds, Subscribe(f)
            PROVE  cursor'[m] = cursor[m]
        BY <4>1, <4>3 DEF Subscribe, BroadcastTypeOK
      <4> QED
        BY <2>1, <4>2, <4>3 DEF Next, EventHappens, HandlerStep, FirstFrame, LaterFrame, TakeEvent,
           SkipLost, SendEvent, SeeClientGone, Connect, ClientSends, ClientReads, ClientLeaves
    <3>5. \A m \in Notifiers : NotifierOnTrack(m)'
      BY <2>1, <3>3, <3>4, OtherNotifier DEF notifierVars
    <3> QED
      BY <3>1, <3>2, <3>5 DEF NotifierInvariant
  <2>2. ASSUME NEW m \in Notifiers, StartNotifier(m) \/ PeerLeaves(m) \/ NotifierStep(m)
        PROVE  NotifierInvariant'
    BY <2>2, NotifiersLeaveFeeds, NotifierTypes, NotifiersStayOnTrack DEF NotifierInvariant
  <2>3. CASE UNCHANGED allVars
    <3>1. NotifierTypeOK' /\ HistoryTypeOK'
      BY <2>3 DEF allVars, vars, feedVars, notifierVars, NotifierInvariant, NotifierTypeOK, TypeOK,
         BroadcastTypeOK, HistoryTypeOK, Open
    <3>2. \A f \in Feeds : FeedOnTrack(f)'
      BY <2>3, OtherFeed DEF allVars, vars, feedVars
    <3>3. \A m \in Notifiers : NotifierOnTrack(m)'
      BY <2>3, OtherNotifier DEF allVars, vars, notifierVars
    <3> QED
      BY <3>1, <3>2, <3>3 DEF NotifierInvariant
  <2> QED
    BY <2>1, <2>2, <2>3 DEF NotifierNext
<1> QED
  BY <1>1, <1>2, PTL DEF NotifierSpec

-----------------------------------------------------------------------------
(* Theorems *)

(***************************************************************************)
(* Every variable of the feeds and the notifiers keeps its type: a feed    *)
(* never has more frames on their way than the buffer holds, and an open   *)
(* one is subscribed (server/ws.rs, server/routes.rs, mcp/notifier.rs).    *)
(***************************************************************************)
THEOREM FeedTypesCorrect ==
  NotifierSpec => []NotifierTypeOK
<1>1. NotifierInvariant => NotifierTypeOK
  BY DEF NotifierInvariant
<1> QED
  BY <1>1, InvariantHolds, PTL

(***************************************************************************)
(* As long as it has not lagged, an open feed has sent exactly the         *)
(* matching events since the client connected, in order, for any number of *)
(* feeds and events (ws.rs, handle_socket; routes.rs, events).             *)
(***************************************************************************)
THEOREM FeedsAreExact ==
  NotifierSpec => []FeedIsExact
<1>1. NotifierInvariant => FeedIsExact
  BY DEF NotifierInvariant, FeedOnTrack, FeedIsExact, Sent
<1> QED
  BY <1>1, InvariantHolds, PTL

\* A change of the tools that a notifier outside a window has behind it.
PassedOver(m, i) ==
  /\ watch[m] # "new" /\ watch[m] # "window"
  /\ i \in begun[m] + 1 .. cursor[m]
  /\ log[i] \in ToolKinds

(***************************************************************************)
(* A notifier that is not in the middle of a window has told its client,   *)
(* after the fact, of every change of the tools it has behind it, except   *)
(* those it lost to a lag or if the client has gone: coalescing loses      *)
(* nothing (notifier.rs, run_tool_notifier).  This is the safety side of   *)
(* ToolChangesAreTold.                                                     *)
(***************************************************************************)
THEOREM NoChangePassesUntold ==
  NotifierSpec => [](\A m \in Notifiers : \A i \in 1 .. MaxEvents :
                       PassedOver(m, i) => prompted[m] >= i \/ i \in missed[m] \/ peerLeft[m])
<1>1. NotifierInvariant =>
        \A m \in Notifiers : \A i \in 1 .. MaxEvents :
          PassedOver(m, i) => prompted[m] >= i \/ i \in missed[m] \/ peerLeft[m]
  BY DEF NotifierInvariant, NotifierOnTrack, PassedOver
<1> QED
  BY <1>1, InvariantHolds, PTL

=============================================================================
