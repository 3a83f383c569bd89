---------------------------- MODULE StreamProofs -----------------------------
(***************************************************************************)
(* Proofs about TaskStream, for any number of streams and tasks and any    *)
(* capacity of the bus and of the channels.                                *)
(***************************************************************************)
EXTENDS TaskStream, SequenceTheorems, TLAPS

-----------------------------------------------------------------------------
(* The inductive invariant *)

IsSeq(q) == \E S : q \in Seq(S)

Shapes ==
  /\ IsSeq(log)
  /\ DOMAIN cursor = Streams /\ DOMAIN pc = Streams /\ DOMAIN held = Streams
  /\ DOMAIN pipe = Streams /\ DOMAIN view = Streams /\ DOMAIN hungUp = Streams
  /\ \A s \in Streams : IsSeq(pipe[s])

\* The loop of the stream runs.
Runs(s) == pc[s] \in {"recv", "refresh", "send"}

\* What is in the channel is in order, and newer than what the client knows.
PipeInOrder(s) ==
  /\ view[s].at \in Nat
  /\ \A i \in 1 .. Len(pipe[s]) : pipe[s][i].at \in Nat /\ view[s].at <= pipe[s][i].at
  /\ \A i, j \in 1 .. Len(pipe[s]) : i < j => pipe[s][i].at <= pipe[s][j].at

\* All that was sent or read is older than moment n.
Before(s, n) ==
  /\ n \in Nat
  /\ view[s].at <= n
  /\ \A i \in 1 .. Len(pipe[s]) : pipe[s][i].at <= n

InOrder(s) ==
  /\ PipeInOrder(s)
  /\ Runs(s) => Before(s, cursor[s]) /\ cursor[s] <= Len(log)
  /\ pc[s] \in {"refresh", "send"} => Before(s, held[s].at) /\ held[s].at <= cursor[s]
  /\ pc[s] = "fetched" => held[s].at \in Nat /\ held[s].at <= Len(log)
  /\ pc[s] \in {"idle", "fetched"} => Before(s, 0)

StreamInvariant == Shapes /\ \A s \in Streams : InOrder(s)

-----------------------------------------------------------------------------
(* Sequences whose elements may be anything *)

(***************************************************************************)
(* What appending does.                                                    *)
(***************************************************************************)
LEMMA Appending ==
  ASSUME NEW q, IsSeq(q), NEW e
  PROVE  /\ IsSeq(Append(q, e)) /\ Len(q) \in Nat /\ Len(Append(q, e)) = Len(q) + 1
         /\ \A i \in 1 .. Len(q) : Append(q, e)[i] = q[i]
         /\ Append(q, e)[Len(q) + 1] = e
<1>1. PICK S : q \in Seq(S)
  BY DEF IsSeq
<1> DEFINE T == S \cup {e}
<1>2. Len(q) \in Nat /\ q \in [1 .. Len(q) -> S]
  BY <1>1, LenProperties
<1>3. q \in [1 .. Len(q) -> T]
  BY <1>2
<1>4. q \in Seq(T)
  BY <1>2, <1>3
<1> HIDE DEF T
<1>5. e \in T
  BY DEF T
<1>6. Append(q, e) \in Seq(T) /\ Len(Append(q, e)) = Len(q) + 1
      /\ (\A i \in 1 .. Len(q) : Append(q, e)[i] = q[i]) /\ Append(q, e)[Len(q) + 1] = e
  BY <1>4, <1>5, AppendProperties
<1> QED
  BY <1>2, <1>6 DEF IsSeq

(***************************************************************************)
(* What taking the head does.                                              *)
(***************************************************************************)
LEMMA TakingTheHead ==
  ASSUME NEW q, IsSeq(q), q # <<>>
  PROVE  /\ IsSeq(Tail(q)) /\ Len(q) \in Nat \ {0} /\ Len(Tail(q)) = Len(q) - 1
         /\ \A i \in 1 .. Len(q) - 1 : Tail(q)[i] = q[i + 1]
         /\ Head(q) = q[1]
<1>1. PICK S : q \in Seq(S)
  BY DEF IsSeq
<1>2. Len(q) \in Nat /\ Len(q) # 0 /\ Head(q) = q[1]
  BY <1>1
<1>3. Tail(q) \in Seq(S) /\ Len(Tail(q)) = Len(q) - 1
      /\ \A i \in 1 .. Len(Tail(q)) : Tail(q)[i] = q[i + 1]
  BY <1>1, HeadTailProperties
<1> QED
  BY <1>2, <1>3 DEF IsSeq

(***************************************************************************)
(* The empty sequence.                                                     *)
(***************************************************************************)
LEMMA Nothing == IsSeq(<<>>) /\ Len(<<>>) = 0
<1>1. <<>> \in Seq({})
  OBVIOUS
<1> QED
  BY <1>1 DEF IsSeq

-----------------------------------------------------------------------------
(* Steps *)

(***************************************************************************)
(* A stream that a step leaves alone stays in order while the log grows.   *)
(***************************************************************************)
LEMMA OtherStreams ==
  ASSUME NEW s \in Streams, InOrder(s), Len(log) \in Nat, Len(log') \in Nat, Len(log) <= Len(log'),
         pc'[s] = pc[s], held'[s] = held[s], pipe'[s] = pipe[s], view'[s] = view[s],
         cursor'[s] = cursor[s]
  PROVE  InOrder(s)'
<1>1. PipeInOrder(s)' /\ (Runs(s)' <=> Runs(s))
  BY DEF InOrder, PipeInOrder, Runs
<1>2. \A n : Before(s, n) => Before(s, n)'
  BY DEF Before
<1>3. Runs(s) => Before(s, cursor'[s]) /\ cursor'[s] <= Len(log')
  BY DEF InOrder, Before
<1> QED
  BY <1>1, <1>3 DEF InOrder, Before

(***************************************************************************)
(* The log only grows (MessageBus::publish).                               *)
(***************************************************************************)
LEMMA LogGrows ==
  ASSUME Shapes, Next \/ UNCHANGED vars
  PROVE  /\ IsSeq(log') /\ Len(log) \in Nat /\ Len(log') \in Nat /\ Len(log) <= Len(log')
         /\ \A s \in Streams : SubmitTask(s) => Len(log') = Len(log) + 1
<1>1. /\ IsSeq(log) /\ Len(log) \in Nat
      /\ \A e : IsSeq(Append(log, e)) /\ Len(Append(log, e)) = Len(log) + 1
  BY Appending DEF Shapes
<1>2. log' = log \/ \E e : log' = Append(log, e)
  BY DEF Next, SomethingHappens, OtherEvent, Create, ChangeTask, Announced, Send, SubmitTask,
     FetchTask, OpenStream, LoopStep, TakeEvent, Refresh, SkipLost, SendMessage, Receive, HangUp,
     StreamStep, NothingHappens, vars, eventVars
<1>3. \A s \in Streams : SubmitTask(s) => \E e : log' = Append(log, e)
  BY DEF SubmitTask, Create, Announced, Send
<1>4. ASSUME NEW e, log' = Append(log, e)
      PROVE  IsSeq(log') /\ Len(log') = Len(log) + 1
  BY <1>1, <1>4
<1>5. CASE log' = log
  BY <1>1, <1>3, <1>4, <1>5
<1>6. CASE \E e : log' = Append(log, e)
  BY <1>1, <1>4, <1>6
<1> QED
  BY <1>2, <1>5, <1>6

\* A step of stream s, the handler, the loop or the client.
Step(s) ==
  SubmitTask(s) \/ FetchTask(s) \/ OpenStream(s) \/ LoopStep(s) \/ Receive(s) \/ HangUp(s)

(***************************************************************************)
(* A step of one stream leaves the others alone and all shapes intact.     *)
(***************************************************************************)
LEMMA StepsOfStreams ==
  ASSUME Shapes, NEW s \in Streams, Step(s), IsSeq(log')
  PROVE  /\ Shapes'
         /\ \A r \in Streams \ {s} : /\ pc'[r] = pc[r] /\ held'[r] = held[r] /\ pipe'[r] = pipe[r]
                                     /\ view'[r] = view[r] /\ cursor'[r] = cursor[r]
<1>1. /\ \A r \in Streams : IsSeq(pipe[r])
      /\ \A e : IsSeq(Append(pipe[s], e))
      /\ pipe[s] # <<>> => IsSeq(Tail(pipe[s]))
      /\ IsSeq(<<>>)
  BY Appending, TakingTheHead, Nothing DEF Shapes
<1>2. /\ DOMAIN cursor = Streams /\ DOMAIN pc = Streams /\ DOMAIN held = Streams
      /\ DOMAIN pipe = Streams /\ DOMAIN view = Streams /\ DOMAIN hungUp = Streams
  BY DEF Shapes
<1>3. CASE SubmitTask(s) \/ FetchTask(s)
  BY <1>1, <1>2, <1>3 DEF SubmitTask, FetchTask, Shapes
<1>4. CASE OpenStream(s)
  BY <1>1, <1>2, <1>4 DEF OpenStream, Subscribe, Shapes
<1>5. CASE TakeEvent(s)
  BY <1>1, <1>2, <1>5 DEF TakeEvent, Recv, Shapes
<1>6. CASE Refresh(s) \/ SkipLost(s)
  BY <1>1, <1>2, <1>6 DEF Refresh, SkipLost, RecvLagged, Shapes
<1>7. CASE SendMessage(s)
  <2>1. pipe' = pipe \/ pipe' = [pipe EXCEPT ![s] = Append(@, held[s])]
    BY <1>7 DEF SendMessage
  <2>2. DOMAIN pipe' = Streams /\ \A r \in Streams : IsSeq(pipe'[r])
    BY <1>1, <1>2, <2>1
  <2> QED
    BY <1>1, <1>2, <1>7, <2>2 DEF SendMessage, Shapes
<1>8. CASE Receive(s)
  BY <1>1, <1>2, <1>8 DEF Receive, Shapes
<1>9. CASE HangUp(s)
  BY <1>1, <1>2, <1>9 DEF HangUp, Shapes
<1> QED
  BY <1>3, <1>4, <1>5, <1>6, <1>7, <1>8, <1>9 DEF Step, LoopStep

(***************************************************************************)
(* The handler begins with a task that is no newer than the log.           *)
(***************************************************************************)
LEMMA HandlerInOrder ==
  ASSUME Shapes, NEW s \in Streams, InOrder(s), Len(log) \in Nat, Len(log') \in Nat,
         \/ SubmitTask(s) /\ Len(log') = Len(log) + 1
         \/ (FetchTask(s) \/ OpenStream(s)) /\ log' = log
  PROVE  InOrder(s)'
<1>0. /\ DOMAIN cursor = Streams /\ DOMAIN pc = Streams /\ DOMAIN held = Streams
      /\ DOMAIN pipe = Streams /\ DOMAIN view = Streams
  BY DEF Shapes
<1>1. CASE SubmitTask(s) /\ Len(log') = Len(log) + 1
  <2>1. /\ pc'[s] = "fetched" /\ held'[s].at = Len(log) + 1 /\ UNCHANGED <<pipe, view>>
        /\ pc[s] = "idle"
    BY <1>0, <1>1 DEF SubmitTask
  <2> QED
    BY <1>1, <2>1 DEF InOrder, PipeInOrder, Before, Runs
<1>2. CASE FetchTask(s) /\ log' = log
  <2>1. /\ pc'[s] = "fetched" /\ held'[s].at = Len(log) /\ UNCHANGED <<pipe, view>>
        /\ pc[s] = "idle"
    BY <1>0, <1>2 DEF FetchTask, TaskMessage
  <2> QED
    BY <1>2, <2>1 DEF InOrder, PipeInOrder, Before, Runs
<1>3. CASE OpenStream(s) /\ log' = log
  <2>1. /\ pc'[s] = "send" /\ cursor'[s] = Len(log) /\ UNCHANGED <<held, pipe, view>>
        /\ pc[s] = "fetched"
    BY <1>0, <1>3 DEF OpenStream, Subscribe
  <2>2. \A n \in Nat : Before(s, n)'
    BY <2>1 DEF InOrder, PipeInOrder, Before
  <2> QED
    BY <1>3, <2>1, <2>2 DEF InOrder, PipeInOrder
<1> QED
  BY <1>1, <1>2, <1>3

(***************************************************************************)
(* The loop takes events in their order, and lags only forward.            *)
(***************************************************************************)
LEMMA LoopInOrder ==
  ASSUME Shapes, NEW s \in Streams, InOrder(s), Len(log) \in Nat, log' = log,
         TakeEvent(s) \/ Refresh(s) \/ SkipLost(s)
  PROVE  InOrder(s)'
<1>0. /\ DOMAIN cursor = Streams /\ DOMAIN pc = Streams /\ DOMAIN held = Streams
      /\ Capacity \in Nat
  BY BroadcastAssumption DEF Shapes
<1>1. CASE TakeEvent(s)
  <2>1. /\ pc[s] = "recv" /\ cursor[s] < Len(log) /\ cursor'[s] = cursor[s] + 1
        /\ UNCHANGED <<pipe, view>>
        /\ \/ pc'[s] = "recv"
           \/ pc'[s] \in {"send", "refresh"} /\ held'[s].at = cursor'[s]
    BY <1>0, <1>1 DEF TakeEvent, Recv, Waiting, StatusMessage, ArtifactMessage
  <2>2. Before(s, cursor[s]) /\ PipeInOrder(s) /\ cursor[s] \in Nat
    BY <2>1 DEF InOrder, Runs, Before
  <2>3. Before(s, cursor[s] + 1)
    BY <2>2 DEF Before, PipeInOrder
  <2>4. Before(s, cursor[s])' /\ PipeInOrder(s)'
    BY <2>1, <2>2, <2>3 DEF Before, PipeInOrder
  <2>5. cursor'[s] \in Nat /\ cursor'[s] <= Len(log')
    BY <2>1, <2>2
  <2>6. CASE pc'[s] = "recv"
    BY <2>4, <2>5, <2>6 DEF InOrder, Runs
  <2>7. CASE pc'[s] \in {"send", "refresh"} /\ held'[s].at = cursor'[s]
    BY <2>4, <2>5, <2>7 DEF InOrder, Runs, Before
  <2> QED
    BY <2>1, <2>6, <2>7
<1>2. CASE Refresh(s)
  <2>1. /\ pc[s] = "refresh" /\ UNCHANGED <<cursor, pipe, view>>
        /\ pc'[s] = "recv" \/ (pc'[s] = "send" /\ held' = held)
    BY <1>0, <1>2 DEF Refresh
  <2> QED
    BY <2>1 DEF InOrder, PipeInOrder, Before, Runs
<1>3. CASE SkipLost(s)
  <2>1. /\ pc[s] = "recv" /\ Len(log) - cursor[s] > Capacity /\ cursor'[s] = Len(log) - Capacity
        /\ UNCHANGED <<pc, held, pipe, view>>
    BY <1>0, <1>3 DEF SkipLost, RecvLagged, Lagging
  <2>2. Before(s, cursor[s]) /\ PipeInOrder(s) /\ cursor[s] \in Nat
    BY <2>1 DEF InOrder, Runs, Before
  <2>3. cursor'[s] \in Nat /\ cursor[s] <= cursor'[s] /\ cursor'[s] <= Len(log)
    BY <1>0, <2>1, <2>2
  <2>4. Before(s, cursor[s])' /\ PipeInOrder(s)'
    BY <2>1, <2>2, <2>3 DEF Before, PipeInOrder
  <2> QED
    BY <2>1, <2>3, <2>4 DEF InOrder, Runs
<1> QED
  BY <1>1, <1>2, <1>3

(***************************************************************************)
(* What is sent goes to the end of the channel.                            *)
(***************************************************************************)
LEMMA SendInOrder ==
  ASSUME Shapes, NEW s \in Streams, InOrder(s), log' = log, SendMessage(s)
  PROVE  InOrder(s)'
<1> DEFINE q == pipe[s]
           n == Len(q)
<1>0. /\ DOMAIN pc = Streams /\ DOMAIN pipe = Streams /\ IsSeq(q)
  BY DEF Shapes
<1>1. /\ pc[s] = "send" /\ UNCHANGED <<cursor, view>>
      /\ \/ pc'[s] = "ended" /\ pipe' = pipe
         \/ pc'[s] = "recv" /\ pipe'[s] = Append(q, held[s])
  BY <1>0 DEF SendMessage
<1>2. /\ PipeInOrder(s) /\ Before(s, cursor[s]) /\ Before(s, held[s].at)
      /\ held[s].at <= cursor[s] /\ cursor[s] <= Len(log)
  BY <1>1 DEF InOrder, Runs
<1>3. CASE pc'[s] = "ended" /\ pipe' = pipe
  BY <1>1, <1>2, <1>3 DEF InOrder, PipeInOrder, Runs
<1>4. CASE pc'[s] = "recv" /\ pipe'[s] = Append(q, held[s])
  <2>1. /\ n \in Nat /\ Len(pipe'[s]) = n + 1
        /\ \A i \in 1 .. n : pipe'[s][i] = q[i]
        /\ pipe'[s][n + 1] = held[s]
    BY <1>0, <1>4, Appending
  <2>2. \A i : i \in 1 .. (n + 1) <=> i \in 1 .. n \/ i = n + 1
    BY <2>1
  <2>3. \A i \in 1 .. (n + 1) : /\ pipe'[s][i].at \in Nat
                                /\ view[s].at <= pipe'[s][i].at
                                /\ pipe'[s][i].at <= held[s].at
    <3>1. \A i \in 1 .. n : /\ q[i].at \in Nat /\ view[s].at <= q[i].at
                            /\ q[i].at <= held[s].at
      BY <1>2 DEF PipeInOrder, Before
    <3>2. held[s].at \in Nat /\ view[s].at <= held[s].at
      BY <1>2 DEF Before
    <3> QED
      BY <2>1, <2>2, <3>1, <3>2, SMTT(40)
  <2>4. \A i, j \in 1 .. (n + 1) : i < j => pipe'[s][i].at <= pipe'[s][j].at
    <3> SUFFICES ASSUME NEW i \in 1 .. (n + 1), NEW j \in 1 .. (n + 1), i < j
                 PROVE  pipe'[s][i].at <= pipe'[s][j].at
      OBVIOUS
    <3>1. CASE j = n + 1
      BY <2>1, <2>3, <3>1
    <3>2. CASE j \in 1 .. n
      <4>1. i \in 1 .. n
        BY <2>1, <3>2
      <4> QED
        BY <1>2, <2>1, <3>2, <4>1 DEF PipeInOrder
    <3> QED
      BY <2>2, <3>1, <3>2
  <2>5. PipeInOrder(s)' /\ Before(s, cursor[s])'
    BY <1>1, <1>2, <2>1, <2>3, <2>4 DEF PipeInOrder, Before
  <2> QED
    BY <1>1, <1>2, <1>4, <2>5 DEF InOrder, Runs
<1> QED
  BY <1>1, <1>3, <1>4

(***************************************************************************)
(* The client reads from the front, or has dropped it all.                 *)
(***************************************************************************)
LEMMA ClientInOrder ==
  ASSUME Shapes, NEW s \in Streams, InOrder(s), log' = log, Receive(s) \/ HangUp(s)
  PROVE  InOrder(s)' /\ view[s].at \in Nat /\ view'[s].at \in Nat /\ view'[s].at >= view[s].at
<1> DEFINE q == pipe[s]
           n == Len(q)
<1>0. DOMAIN view = Streams /\ DOMAIN pipe = Streams /\ IsSeq(q) /\ PipeInOrder(s)
  BY DEF Shapes, InOrder
<1>1. CASE HangUp(s)
  <2>1. UNCHANGED <<cursor, pc, held, view>> /\ pipe'[s] = <<>> /\ Len(pipe'[s]) = 0
    BY <1>0, <1>1 DEF HangUp
  <2>2. PipeInOrder(s)' /\ \A m : Before(s, m) => Before(s, m)'
    BY <1>0, <2>1 DEF PipeInOrder, Before
  <2> QED
    BY <1>0, <2>1, <2>2 DEF InOrder, Runs, PipeInOrder
<1>2. CASE Receive(s)
  <2>1. /\ UNCHANGED <<cursor, pc, held>> /\ q # <<>>
        /\ view'[s].at = Head(q).at /\ pipe'[s] = Tail(q)
    BY <1>0, <1>2 DEF Receive, Told
  <2>2. /\ n \in Nat \ {0} /\ Len(pipe'[s]) = n - 1 /\ view'[s].at = q[1].at
        /\ \A i \in 1 .. n - 1 : pipe'[s][i] = q[i + 1]
    BY <1>0, <2>1, TakingTheHead
  <2>3. view'[s].at \in Nat /\ view[s].at \in Nat /\ view'[s].at >= view[s].at
    BY <1>0, <2>2 DEF PipeInOrder
  <2>4. PipeInOrder(s)'
    <3>1. \A i \in 1 .. n - 1 : i + 1 \in 1 .. n /\ 1 < i + 1
      BY <2>2
    <3>2. \A i \in 1 .. n - 1 : /\ pipe'[s][i].at \in Nat
                                /\ view'[s].at <= pipe'[s][i].at
      BY <1>0, <2>2, <3>1 DEF PipeInOrder
    <3>3. \A i, j \in 1 .. n - 1 : i < j => pipe'[s][i].at <= pipe'[s][j].at
      <4>1. \A i, j \in 1 .. n - 1 : i < j => q[i + 1].at <= q[j + 1].at
        <5>1. \A i, j \in 1 .. n - 1 : i < j => i + 1 < j + 1
          BY <2>2
        <5> QED
          BY <1>0, <3>1, <5>1 DEF PipeInOrder
      <4> QED
        BY <2>2, <4>1
    <3> QED
      BY <2>2, <2>3, <3>2, <3>3 DEF PipeInOrder
  <2>5. \A m : Before(s, m) => Before(s, m)'
    <3>1. \A i \in 1 .. n - 1 : i + 1 \in 1 .. n
      BY <2>2
    <3> QED
      BY <2>2, <3>1 DEF Before
  <2> QED
    BY <2>1, <2>3, <2>4, <2>5 DEF InOrder, Runs
<1> QED
  BY <1>1, <1>2

(***************************************************************************)
(* A step of a stream keeps it in order, and its client's view never goes  *)
(* back.                                                                   *)
(***************************************************************************)
LEMMA StreamInOrder ==
  ASSUME Shapes, NEW s \in Streams, InOrder(s), Step(s), Next
  PROVE  InOrder(s)' /\ view'[s].at >= view[s].at
<1>1. Len(log) \in Nat /\ Len(log') \in Nat /\ (SubmitTask(s) => Len(log') = Len(log) + 1)
  BY LogGrows
<1>2. ~SubmitTask(s) => log' = log
  BY DEF Step, FetchTask, OpenStream, LoopStep, TakeEvent, Refresh, SkipLost, SendMessage, Receive,
     HangUp, StreamStep, NothingHappens
<1>3. view[s].at \in Nat
  BY DEF InOrder, PipeInOrder
<1>4. ~Receive(s) /\ ~HangUp(s) => view' = view
  BY DEF Step, SubmitTask, FetchTask, OpenStream, LoopStep, TakeEvent, Refresh, SkipLost, SendMessage
<1>5. InOrder(s)'
  BY <1>1, <1>2, HandlerInOrder, LoopInOrder, SendInOrder, ClientInOrder DEF Step, LoopStep,
     SubmitTask, Receive, HangUp, TakeEvent, Refresh, SkipLost, SendMessage
<1>6. view'[s].at >= view[s].at
  BY <1>2, <1>3, <1>4, ClientInOrder DEF SubmitTask
<1> QED
  BY <1>5, <1>6

(***************************************************************************)
(* Every step keeps the invariant, and no client's view goes back.         *)
(***************************************************************************)
LEMMA StreamStepsInOrder ==
  ASSUME StreamInvariant, Next
  PROVE  StreamInvariant' /\ \A s \in Streams : view'[s].at >= view[s].at
<1>0. /\ Shapes /\ \A s \in Streams : InOrder(s) /\ view[s].at \in Nat
      /\ IsSeq(log') /\ Len(log) \in Nat /\ Len(log') \in Nat /\ Len(log) <= Len(log')
  BY LogGrows DEF StreamInvariant, InOrder, PipeInOrder
<1>1. CASE SomethingHappens /\ UNCHANGED <<cursor, streamVars>>
  <2>1. UNCHANGED <<cursor, pc, held, pipe, view, hungUp>>
    BY <1>1 DEF streamVars
  <2>2. Shapes'
    BY <1>0, <2>1 DEF Shapes
  <2>3. \A s \in Streams : InOrder(s)' /\ view'[s].at >= view[s].at
    BY <1>0, <2>1, OtherStreams
  <2> QED
    BY <2>2, <2>3 DEF StreamInvariant
<1>2. ASSUME NEW r \in Streams, Step(r)
      PROVE  StreamInvariant' /\ \A s \in Streams : view'[s].at >= view[s].at
  <2>1. /\ Shapes'
        /\ \A s \in Streams \ {r} : /\ pc'[s] = pc[s] /\ held'[s] = held[s] /\ pipe'[s] = pipe[s]
                                    /\ view'[s] = view[s] /\ cursor'[s] = cursor[s]
    BY <1>0, <1>2, StepsOfStreams
  <2>2. \A s \in Streams \ {r} : InOrder(s)' /\ view'[s].at >= view[s].at
    BY <1>0, <2>1, OtherStreams
  <2>3. InOrder(r)' /\ view'[r].at >= view[r].at
    BY <1>0, <1>2, StreamInOrder
  <2> QED
    BY <2>1, <2>2, <2>3 DEF StreamInvariant
<1> QED
  BY <1>1, <1>2 DEF Next, Step

(***************************************************************************)
(* The invariant holds initially.                                          *)
(***************************************************************************)
LEMMA InitInOrder ==
  ASSUME Init
  PROVE  StreamInvariant
<1>1. IsSeq(log) /\ \A s \in Streams : pipe[s] = <<>> /\ IsSeq(pipe[s]) /\ Len(pipe[s]) = 0
  BY Nothing DEF Init, TaskEventsInit, BroadcastInit
<1>2. Shapes
  <2>1. DOMAIN cursor = Streams
    BY DEF Init, TaskEventsInit, BroadcastInit, Streams
  <2>2. /\ DOMAIN pc = Streams /\ DOMAIN held = Streams /\ DOMAIN pipe = Streams
        /\ DOMAIN view = Streams /\ DOMAIN hungUp = Streams
    BY DEF Init
  <2> QED
    BY <1>1, <2>1, <2>2 DEF Shapes
<1>3. \A s \in Streams : pc[s] = "idle" /\ view[s].at = 0
  BY DEF Init, Blind
<1>4. \A s \in Streams : InOrder(s)
  BY <1>1, <1>3 DEF InOrder, PipeInOrder, Before, Runs
<1> QED
  BY <1>2, <1>4 DEF StreamInvariant

(***************************************************************************)
(* The invariant holds in every reachable state.                           *)
(***************************************************************************)
LEMMA StreamIsInvariant == Spec => []StreamInvariant
<1>1. Init => StreamInvariant
  BY InitInOrder
<1>2. StreamInvariant /\ [Next]_vars => StreamInvariant'
  <2> SUFFICES ASSUME StreamInvariant, UNCHANGED vars PROVE StreamInvariant'
    BY StreamStepsInOrder
  <2>1. UNCHANGED <<log, cursor, pc, held, pipe, view, hungUp>>
    BY DEF vars, eventVars, streamVars
  <2> QED
    BY <2>1 DEF StreamInvariant, Shapes, InOrder, PipeInOrder, Before, Runs
<1> QED
  BY <1>1, <1>2, PTL DEF Spec

-----------------------------------------------------------------------------
(* The theorem *)

(***************************************************************************)
(* For any number of streams and any capacities: what a client is told     *)
(* never goes back in time (spawn_task_stream in service.rs).              *)
(***************************************************************************)
THEOREM StreamsNeverGoBack == Spec => StreamNeverGoesBack
<1>1. StreamInvariant /\ [Next]_vars => [\A s \in Streams : view'[s].at >= view[s].at]_vars
  BY StreamStepsInOrder
<1> QED
  BY <1>1, StreamIsInvariant, PTL DEF Spec, StreamNeverGoesBack

-----------------------------------------------------------------------------
(* What the log tells *)

StatusOf(e, t) == e.type = "TaskStatusChanged" /\ e.task = t

ArtifactOf(e, t) == e.type = "TaskArtifactAdded" /\ e.task = t

Relevant(e, t) == StatusOf(e, t) \/ ArtifactOf(e, t)

\* The first n events of q leave task t in a state, and with its artifacts.
TellsState(q, n, t, state) ==
  \/ state = "Submitted" /\ \A i \in 1 .. n : ~StatusOf(q[i], t)
  \/ \E i \in 1 .. n : /\ StatusOf(q[i], t) /\ q[i].new = state
                       /\ \A j \in i + 1 .. n : ~StatusOf(q[j], t)

TellsArtifacts(q, n, t, artifacts) ==
  \A x : x \in artifacts <=> \E i \in 1 .. n : ArtifactOf(q[i], t) /\ q[i].artifact = x

Tells(q, n, t, state, artifacts) ==
  TellsState(q, n, t, state) /\ TellsArtifacts(q, n, t, artifacts)

(***************************************************************************)
(* What is told stays told while nothing happens to the task.              *)
(***************************************************************************)
LEMMA StillTold ==
  ASSUME NEW q, NEW r, NEW n \in Nat, NEW m \in Nat, n <= m, NEW t, NEW state, NEW artifacts,
         \A i \in 1 .. n : r[i] = q[i], \A i \in n + 1 .. m : ~Relevant(r[i], t),
         Tells(q, n, t, state, artifacts)
  PROVE  Tells(r, m, t, state, artifacts)
<1>1. \A i \in 1 .. m : i \in 1 .. n \/ i \in n + 1 .. m
  OBVIOUS
<1>2. \A i \in 1 .. n : i \in 1 .. m
  OBVIOUS
<1>3. TellsState(r, m, t, state)
  <2>1. CASE state = "Submitted" /\ \A i \in 1 .. n : ~StatusOf(q[i], t)
    BY <1>1, <2>1 DEF TellsState, Relevant
  <2>2. CASE \E i \in 1 .. n : /\ StatusOf(q[i], t) /\ q[i].new = state
                               /\ \A j \in i + 1 .. n : ~StatusOf(q[j], t)
    <3>1. PICK i \in 1 .. n : /\ StatusOf(q[i], t) /\ q[i].new = state
                              /\ \A j \in i + 1 .. n : ~StatusOf(q[j], t)
      BY <2>2
    <3>2. \A j \in i + 1 .. m : j \in n + 1 .. m \/ (j \in i + 1 .. n /\ j \in 1 .. n)
      OBVIOUS
    <3>3. \A j \in i + 1 .. m : ~StatusOf(r[j], t)
      BY <3>1, <3>2 DEF Relevant
    <3>4. StatusOf(r[i], t) /\ r[i].new = state /\ i \in 1 .. m
      BY <1>2, <3>1
    <3> QED
      BY <3>3, <3>4 DEF TellsState
  <2> QED
    BY <2>1, <2>2 DEF Tells, TellsState
<1>4. TellsArtifacts(r, m, t, artifacts)
  BY <1>1, <1>2 DEF Tells, TellsArtifacts, Relevant
<1> QED
  BY <1>3, <1>4 DEF Tells

(***************************************************************************)
(* A change of the state is told.                                          *)
(***************************************************************************)
LEMMA StateIsTold ==
  ASSUME NEW q, NEW n \in Nat, NEW m \in Nat, n < m, NEW t, NEW state, NEW artifacts,
         Tells(q, n, t, state, artifacts), \A i \in n + 1 .. m - 1 : ~Relevant(q[i], t),
         StatusOf(q[m], t)
  PROVE  Tells(q, m, t, q[m].new, artifacts)
<1>1. TellsState(q, m, t, q[m].new)
  <2>1. m \in 1 .. m /\ \A j \in m + 1 .. m : ~StatusOf(q[j], t)
    OBVIOUS
  <2> QED
    BY <2>1 DEF TellsState
<1>2. \A i \in 1 .. m : i \in 1 .. n \/ i \in n + 1 .. m - 1 \/ i = m
  OBVIOUS
<1>3. \A i \in 1 .. n : i \in 1 .. m
  OBVIOUS
<1>4. ~ArtifactOf(q[m], t)
  BY DEF StatusOf, ArtifactOf
<1>5. TellsArtifacts(q, m, t, artifacts)
  BY <1>2, <1>3, <1>4 DEF Tells, TellsArtifacts, Relevant
<1> QED
  BY <1>1, <1>5 DEF Tells

(***************************************************************************)
(* A new artifact is told.                                                 *)
(***************************************************************************)
LEMMA ArtifactIsTold ==
  ASSUME NEW q, NEW n \in Nat, NEW m \in Nat, n < m, NEW t, NEW state, NEW artifacts,
         Tells(q, n, t, state, artifacts), \A i \in n + 1 .. m - 1 : ~Relevant(q[i], t),
         ArtifactOf(q[m], t)
  PROVE  Tells(q, m, t, state, artifacts \cup {q[m].artifact})
<1>1. m - 1 \in Nat /\ n <= m - 1 /\ m \in 1 .. m
  OBVIOUS
<1>2. Tells(q, m - 1, t, state, artifacts)
  <2> DEFINE k == m - 1
  <2>1. k \in Nat /\ n <= k /\ \A i \in n + 1 .. k : ~Relevant(q[i], t)
    BY <1>1
  <2> HIDE DEF k
  <2>2. Tells(q, k, t, state, artifacts)
    BY <2>1, StillTold
  <2> QED
    BY <2>2 DEF k
<1>3. \A i : i \in 1 .. m <=> i \in 1 .. m - 1 \/ i = m
  BY <1>1
<1>4. ~StatusOf(q[m], t)
  BY DEF StatusOf, ArtifactOf
<1>5. TellsState(q, m, t, state)
  <2>1. \A i \in 1 .. m - 1 : \A j : j \in i + 1 .. m <=> j \in i + 1 .. m - 1 \/ j = m
    OBVIOUS
  <2> QED
    BY <1>2, <1>3, <1>4, <2>1 DEF Tells, TellsState
<1>6. TellsArtifacts(q, m, t, artifacts \cup {q[m].artifact})
  BY <1>2, <1>3 DEF Tells, TellsArtifacts
<1> QED
  BY <1>5, <1>6 DEF Tells

(***************************************************************************)
(* The log tells one state and one set of artifacts.                       *)
(***************************************************************************)
LEMMA OneIsTold ==
  ASSUME NEW q, NEW n \in Nat, NEW t, NEW s1, NEW s2, NEW A1, NEW A2,
         Tells(q, n, t, s1, A1), Tells(q, n, t, s2, A2)
  PROVE  s1 = s2 /\ A1 = A2
<1>1. \A i, j \in 1 .. n : i = j \/ i \in j + 1 .. n \/ j \in i + 1 .. n
  OBVIOUS
<1>2. s1 = s2
  BY <1>1 DEF Tells, TellsState
<1>3. \A x : x \in A1 <=> x \in A2
  BY DEF Tells, TellsArtifacts
<1> QED
  BY <1>2, <1>3

-----------------------------------------------------------------------------
(* The log tells of every task what the task manager holds *)

TaskTold(q, t, task) ==
  /\ task.state = "Unborn" => \A i \in 1 .. Len(q) : ~Relevant(q[i], t)
  /\ task.state # "Unborn" => Tells(q, Len(q), t, task.state, 1 .. task.artifacts)

LogInvariant ==
  /\ IsSeq(log)
  /\ tasks \in [TaskIds -> Task \cup {NoTask}]
  /\ \A t \in TaskIds : TaskTold(log, t, tasks[t])

(***************************************************************************)
(* An event about something else leaves what is told of a task.            *)
(***************************************************************************)
LEMMA NothingNew ==
  ASSUME NEW q, IsSeq(q), NEW e, NEW t, NEW task, ~Relevant(e, t), TaskTold(q, t, task)
  PROVE  TaskTold(Append(q, e), t, task)
<1> DEFINE r == Append(q, e)
           n == Len(q)
           m == Len(r)
<1>1. /\ n \in Nat /\ m = n + 1 /\ r[n + 1] = e /\ \A i \in 1 .. n : r[i] = q[i]
  BY Appending
<1> HIDE DEF r
<1>2. m \in Nat /\ n <= m /\ \A i \in n + 1 .. m : i = n + 1
  BY <1>1
<1>3. \A i \in 1 .. m : i \in 1 .. n \/ i = n + 1
  BY <1>1
<1>4. \A i \in n + 1 .. m : ~Relevant(r[i], t)
  BY <1>1, <1>2
<1> HIDE DEF n, m
<1>5. CASE task.state = "Unborn"
  <2>1. \A i \in 1 .. n : ~Relevant(q[i], t)
    BY <1>5 DEF TaskTold, n
  <2>2. \A i \in 1 .. m : ~Relevant(r[i], t)
    BY <1>1, <1>3, <2>1
  <2> QED
    BY <1>5, <2>2 DEF TaskTold, m, r
<1>6. CASE task.state # "Unborn"
  <2>1. Tells(q, n, t, task.state, 1 .. task.artifacts)
    BY <1>6 DEF TaskTold, n
  <2>2. Tells(r, m, t, task.state, 1 .. task.artifacts)
    BY <1>1, <1>2, <1>4, <2>1, StillTold
  <2> QED
    BY <1>6, <2>2 DEF TaskTold, m, r
<1> QED
  BY <1>5, <1>6

(***************************************************************************)
(* A creation is told (create_task_with_deadline).                         *)
(***************************************************************************)
LEMMA CreationIsTold ==
  ASSUME LogInvariant, NEW t \in TaskIds, Create(t)
  PROVE  /\ LogInvariant' /\ log' = Append(log, TaskCreated(t))
         /\ tasks[t].state = "Unborn" /\ tasks'[t].state = "Submitted" /\ tasks'[t].artifacts = 0
<1> DEFINE e == TaskCreated(t)
<1>0. /\ IsSeq(log) /\ tasks \in [TaskIds -> Task \cup {NoTask}]
      /\ \A u \in TaskIds : TaskTold(log, u, tasks[u])
  BY DEF LogInvariant
<1>1. PICK c \in Contexts : CreateTask(t, c, NoAgent, NoDeadline)
  BY DEF Create
<1> DEFINE new == [state |-> "Submitted", context |-> c, assignee |-> NoAgent,
                   deadline |-> NoDeadline, artifacts |-> 0]
<1>2. tasks' = [tasks EXCEPT ![t] = new] /\ published' = {e} /\ tasks[t].state = "Unborn"
  BY <1>1 DEF CreateTask, Publish, StateOf
<1>3. log' = Append(log, e)
  BY <1>2 DEF Create, Announced, Send
<1>4. new \in Task
  BY DEF Task, TaskState, AgentRef, Deadline
<1>5. tasks' \in [TaskIds -> Task \cup {NoTask}]
  BY <1>0, <1>2, <1>4
<1>6. \A u : ~Relevant(e, u)
  BY DEF Relevant, StatusOf, ArtifactOf, TaskCreated
<1>7. IsSeq(log')
  BY <1>0, <1>3, Appending
<1>8. TaskTold(log', t, tasks'[t])
  <2>1. TaskTold(log', t, tasks[t])
    BY <1>0, <1>3, <1>6, NothingNew
  <2>2. \A i \in 1 .. Len(log') : ~Relevant(log'[i], t)
    BY <1>2, <2>1 DEF TaskTold
  <2>3. tasks'[t].state = "Submitted" /\ tasks'[t].artifacts = 0
    BY <1>0, <1>2
  <2>4. TellsState(log', Len(log'), t, "Submitted")
    BY <2>2 DEF TellsState, Relevant
  <2>5. TellsArtifacts(log', Len(log'), t, 1 .. 0)
    BY <2>2 DEF TellsArtifacts, Relevant
  <2> QED
    BY <2>3, <2>4, <2>5 DEF TaskTold, Tells
<1>9. \A u \in TaskIds \ {t} : TaskTold(log', u, tasks'[u])
  <2>1. \A u \in TaskIds \ {t} : tasks'[u] = tasks[u]
    BY <1>0, <1>2
  <2>2. \A u \in TaskIds : TaskTold(log', u, tasks[u])
    BY <1>0, <1>3, <1>6, NothingNew
  <2> QED
    BY <2>1, <2>2
<1>10. tasks'[t].state = "Submitted" /\ tasks'[t].artifacts = 0
  BY <1>0, <1>2
<1>11. LogInvariant'
  BY <1>5, <1>7, <1>8, <1>9 DEF LogInvariant
<1> QED
  BY <1>2, <1>3, <1>10, <1>11

(***************************************************************************)
(* A change is told (update_status, add_artifact).                         *)
(***************************************************************************)
LEMMA ChangesAreTold ==
  ASSUME LogInvariant, NEW t \in TaskIds, ChangeTask(t)
  PROVE  /\ LogInvariant' /\ \E e : log' = Append(log, e)
         /\ \A u \in TaskIds : tasks[u].state # "Unborn" => tasks'[u].state # "Unborn"
<1> DEFINE n == Len(log)
<1>0. /\ IsSeq(log) /\ tasks \in [TaskIds -> Task \cup {NoTask}]
      /\ \A u \in TaskIds : TaskTold(log, u, tasks[u])
  BY DEF LogInvariant
<1>1. \A e : /\ IsSeq(Append(log, e)) /\ n \in Nat /\ Len(Append(log, e)) = n + 1
             /\ (\A i \in 1 .. n : Append(log, e)[i] = log[i]) /\ Append(log, e)[n + 1] = e
  BY <1>0, Appending
<1>2. \A q, state, artifacts : (\A i \in 1 .. n : q[i] = log[i]) /\ Tells(log, n, t, state, artifacts)
                                 => Tells(q, n, t, state, artifacts)
  <2>1. \A i \in n + 1 .. n : FALSE
    BY <1>1
  <2> QED
    BY <1>1, <2>1, StillTold
<1>3. n + 1 \in Nat /\ n < n + 1 /\ \A i \in n + 1 .. (n + 1) - 1 : FALSE
  BY <1>1
<1>4. \A u \in TaskIds : tasks[u] \in Task \/ tasks[u] = NoTask
  BY <1>0
<1>5. CASE \E new \in TaskState : UpdateStatus(t, new)
  <2>1. PICK new \in TaskState : UpdateStatus(t, new)
    BY <1>5
  <2> DEFINE e == StatusChanged(t, StateOf(t), new)
  <2>2. CanTransition(tasks[t].state, new) /\ UpdateStatuses([u \in {t} |-> new])
    BY <2>1 DEF UpdateStatus, StateOf
  <2>3. {u \in DOMAIN [v \in {t} |-> new] : CanTransition(StateOf(u), [v \in {t} |-> new][u])} = {t}
    BY <2>2 DEF StateOf
  <2>4. /\ tasks' = [u \in TaskIds |-> IF u \in {t} THEN [tasks[u] EXCEPT !.state = [v \in {t} |-> new][u]]
                                       ELSE tasks[u]]
        /\ published' = {StatusChanged(u, StateOf(u), [v \in {t} |-> new][u]) : u \in {t}}
    BY <2>2, <2>3, Zenon DEF UpdateStatuses, Publish
  <2>5. /\ tasks' = [u \in TaskIds |-> IF u = t THEN [tasks[t] EXCEPT !.state = new] ELSE tasks[u]]
        /\ published' = {e}
    BY <2>4
  <2>6. log' = Append(log, e)
    BY <2>5 DEF ChangeTask, Announced, Send
  <2>7. tasks[t] \in Task /\ tasks[t].state # "Unborn"
    BY <1>4, <2>2 DEF CanTransition, Interrupted, NoTask, Task, TaskState
  <2>8. /\ tasks'[t] \in Task /\ tasks'[t].state = new /\ tasks'[t].artifacts = tasks[t].artifacts
        /\ \A u \in TaskIds \ {t} : tasks'[u] = tasks[u]
    BY <2>5, <2>7 DEF Task
  <2>9. tasks' \in [TaskIds -> Task \cup {NoTask}]
    BY <1>0, <2>5, <2>8
  <2>10. /\ StatusOf(e, t) /\ e.new = new
         /\ \A u : u # t => ~Relevant(e, u)
    BY DEF StatusOf, ArtifactOf, Relevant, StatusChanged
  <2>11. TaskTold(log', t, tasks'[t])
    <3>1. Tells(log', n, t, tasks[t].state, 1 .. tasks[t].artifacts)
      BY <1>0, <1>1, <1>2, <2>6, <2>7 DEF TaskTold
    <3>2. StatusOf(log'[n + 1], t) /\ log'[n + 1].new = new /\ Len(log') = n + 1
      BY <1>1, <2>6, <2>10
    <3>3. Tells(log', n + 1, t, log'[n + 1].new, 1 .. tasks[t].artifacts)
      BY <1>1, <1>3, <3>1, <3>2, StateIsTold
    <3>4. new # "Unborn"
      BY DEF TaskState
    <3> QED
      BY <2>8, <3>2, <3>3, <3>4 DEF TaskTold
  <2>12. \A u \in TaskIds \ {t} : TaskTold(log', u, tasks'[u])
    BY <1>0, <2>6, <2>8, <2>10, NothingNew
  <2>13. IsSeq(log')
    BY <1>1, <2>6
  <2>14. LogInvariant'
    BY <2>9, <2>11, <2>12, <2>13 DEF LogInvariant
  <2>15. \A u \in TaskIds : tasks[u].state # "Unborn" => tasks'[u].state # "Unborn"
    BY <2>8 DEF TaskState
  <2> QED
    BY <2>6, <2>14, <2>15
<1>6. CASE AddArtifact(t)
  <2> DEFINE k == tasks[t].artifacts + 1
             e == ArtifactAdded(t, k)
  <2>1. /\ tasks[t].state \in Live /\ published' = {e}
        /\ tasks' = [tasks EXCEPT ![t].artifacts = @ + 1]
    BY <1>6 DEF AddArtifact, Publish, StateOf
  <2>2. log' = Append(log, e)
    BY <2>1 DEF ChangeTask, Announced, Send
  <2>3. tasks[t] \in Task /\ tasks[t].state # "Unborn" /\ tasks[t].artifacts \in Nat
    BY <1>4, <2>1 DEF Live, NoTask, Task, TaskState
  <2>4. tasks' = [tasks EXCEPT ![t] = [tasks[t] EXCEPT !.artifacts = k]]
    BY <2>1
  <2>5. /\ tasks'[t] \in Task /\ tasks'[t].state = tasks[t].state /\ tasks'[t].artifacts = k
        /\ \A u \in TaskIds \ {t} : tasks'[u] = tasks[u]
    <3>1. k \in Nat
      BY <2>3
    <3> HIDE DEF k
    <3>2. tasks'[t] = [tasks[t] EXCEPT !.artifacts = k] /\ \A u \in TaskIds \ {t} : tasks'[u] = tasks[u]
      BY <1>0, <2>4
    <3> QED
      BY <2>3, <3>1, <3>2 DEF Task
  <2>6. tasks' \in [TaskIds -> Task \cup {NoTask}]
    BY <1>0, <2>4, <2>5
  <2>7. /\ ArtifactOf(e, t) /\ e.artifact = k
        /\ \A u : u # t => ~Relevant(e, u)
    BY DEF StatusOf, ArtifactOf, Relevant, ArtifactAdded
  <2>8. TaskTold(log', t, tasks'[t])
    <3>1. Tells(log', n, t, tasks[t].state, 1 .. tasks[t].artifacts)
      BY <1>0, <1>1, <1>2, <2>2, <2>3 DEF TaskTold
    <3>2. ArtifactOf(log'[n + 1], t) /\ log'[n + 1].artifact = k /\ Len(log') = n + 1
      BY <1>1, <2>2, <2>7
    <3>3. Tells(log', n + 1, t, tasks[t].state, (1 .. tasks[t].artifacts) \cup {log'[n + 1].artifact})
      BY <1>1, <1>3, <3>1, <3>2, ArtifactIsTold
    <3>4. (1 .. tasks[t].artifacts) \cup {k} = 1 .. k
      BY <2>3
    <3> QED
      BY <2>3, <2>5, <3>2, <3>3, <3>4 DEF TaskTold
  <2>9. \A u \in TaskIds \ {t} : TaskTold(log', u, tasks'[u])
    BY <1>0, <2>2, <2>5, <2>7, NothingNew
  <2>10. IsSeq(log')
    BY <1>1, <2>2
  <2>11. LogInvariant'
    BY <2>6, <2>8, <2>9, <2>10 DEF LogInvariant
  <2>12. \A u \in TaskIds : tasks[u].state # "Unborn" => tasks'[u].state # "Unborn"
    BY <2>3, <2>5
  <2> QED
    BY <2>2, <2>11, <2>12
<1> QED
  BY <1>5, <1>6 DEF ChangeTask

-----------------------------------------------------------------------------
(* What a stream that has lost nothing tells *)

\* The first message of a stream: task t as the first f events of q leave it.
First(q, f, t, m) ==
  /\ m.kind = "task" /\ m.at = f /\ f \in 0 .. Len(q)
  /\ Tells(q, f, t, m.state, 1 .. m.artifacts)

\* What m says is so.
Honest(q, f, t, m) ==
  \/ First(q, f, t, m)
  \/ m.kind = "status" /\ m.at \in 1 .. Len(q) /\ StatusOf(q[m.at], t) /\ q[m.at].new = m.state
  \/ m.kind = "artifact" /\ m.at \in 1 .. Len(q) /\ ArtifactOf(q[m.at], t)
       /\ q[m.at].artifact = m.number

\* A client with view v has been told all up to the moment v.at.
Informed(q, f, t, v) ==
  v.at \in f .. Len(q) /\ Tells(q, v.at, t, v.state, v.artifacts)

InHand(p) == p \in {"refresh", "send"}

\* The loop is at p with h in hand; it has taken c events, the channel is line.
Telling(q, f, t, c, p, h, line, v) ==
  /\ \A k \in 1 .. Len(line) : Honest(q, f, t, line[k])
  /\ InHand(p) => Honest(q, f, t, h)
  /\ p = "refresh" => h.kind = "artifact"
  /\ \/ Informed(q, f, t, v)
     \/ line # <<>> /\ First(q, f, t, line[1])
     \/ line = <<>> /\ InHand(p) /\ First(q, f, t, h)
  /\ \A i \in f + 1 .. c :
       Relevant(q[i], t) => \/ i <= v.at
                            \/ \E k \in 1 .. Len(line) : line[k].at = i
                            \/ InHand(p) /\ h.at = i

\* A stream from which nothing was kept so far.
Whole(s) == Runs(s) /\ ~hungUp[s] /\ ~lost[s] /\ ~MissedAtStart(s)

StreamTells(s) ==
  /\ gap[s].from \in 0 .. Len(log) /\ gap[s].to \in 0 .. Len(log)
  /\ pc[s] # "idle" => tasks[follows[s]].state # "Unborn"
  /\ pc[s] \in {"idle", "fetched"} => pipe[s] = <<>>
  /\ pc[s] = "fetched" => First(log, gap[s].from, follows[s], held[s])
  /\ Whole(s) =>
       Telling(log, gap[s].from, follows[s], cursor[s], pc[s], held[s], pipe[s], view[s])

TellsInvariant ==
  /\ StreamInvariant
  /\ LogInvariant
  /\ follows \in [Streams -> TaskIds]
  /\ gap \in [Streams -> [from : Nat, to : Nat]]
  /\ DOMAIN lost = Streams
  /\ \A s \in Streams : StreamTells(s)

(***************************************************************************)
(* What was so stays so when the log grows.                                *)
(***************************************************************************)
LEMMA TellsAlways ==
  ASSUME NEW q, NEW r, Len(q) \in Nat, Len(r) \in Nat, Len(q) <= Len(r),
         \A i \in 1 .. Len(q) : r[i] = q[i], NEW f \in Nat, NEW t
  PROVE  /\ \A m : First(q, f, t, m) => First(r, f, t, m)
         /\ \A m : Honest(q, f, t, m) => Honest(r, f, t, m)
         /\ \A v : Informed(q, f, t, v) => Informed(r, f, t, v)
         /\ \A p, h, line, v : \A c \in Nat :
              c <= Len(q) /\ Telling(q, f, t, c, p, h, line, v) => Telling(r, f, t, c, p, h, line, v)
<1>1. ASSUME NEW n \in 0 .. Len(q), NEW state, NEW artifacts, Tells(q, n, t, state, artifacts)
      PROVE  Tells(r, n, t, state, artifacts)
  <2>1. n \in Nat /\ (\A i \in 1 .. n : r[i] = q[i]) /\ \A i \in n + 1 .. n : FALSE
    OBVIOUS
  <2> QED
    BY <1>1, <2>1, StillTold
<1>2. \A n : n \in 0 .. Len(q) => n \in 0 .. Len(r)
  OBVIOUS
<1>3. \A m : First(q, f, t, m) => First(r, f, t, m)
  BY <1>1, <1>2 DEF First
<1>4. \A i : i \in 1 .. Len(q) => i \in 1 .. Len(r) /\ r[i] = q[i]
  OBVIOUS
<1>5. \A m : Honest(q, f, t, m) => Honest(r, f, t, m)
  BY <1>3, <1>4 DEF Honest
<1>6. \A v : Informed(q, f, t, v) => Informed(r, f, t, v)
  <2> SUFFICES ASSUME NEW v, Informed(q, f, t, v) PROVE Informed(r, f, t, v)
    OBVIOUS
  <2>1. v.at \in f .. Len(q) /\ v.at \in 0 .. Len(q) /\ v.at \in f .. Len(r)
    BY DEF Informed
  <2> QED
    BY <1>1, <2>1 DEF Informed
<1>7. ASSUME NEW c \in Nat, NEW p, NEW h, NEW line, NEW v, c <= Len(q),
             Telling(q, f, t, c, p, h, line, v)
      PROVE  Telling(r, f, t, c, p, h, line, v)
  <2>1. \A i \in f + 1 .. c : r[i] = q[i]
    BY <1>7
  <2>2. \A i \in f + 1 .. c :
          Relevant(r[i], t) => \/ i <= v.at
                               \/ \E k \in 1 .. Len(line) : line[k].at = i
                               \/ InHand(p) /\ h.at = i
    BY <1>7, <2>1 DEF Telling
  <2>3. /\ \A k \in 1 .. Len(line) : Honest(r, f, t, line[k])
        /\ InHand(p) => Honest(r, f, t, h)
        /\ p = "refresh" => h.kind = "artifact"
        /\ \/ Informed(r, f, t, v)
           \/ line # <<>> /\ First(r, f, t, line[1])
           \/ line = <<>> /\ InHand(p) /\ First(r, f, t, h)
    BY <1>3, <1>5, <1>6, <1>7 DEF Telling
  <2> QED
    BY <2>2, <2>3 DEF Telling
<1> QED
  BY <1>3, <1>5, <1>6, <1>7

(***************************************************************************)
(* A stream that a step leaves alone goes on telling.                      *)
(***************************************************************************)
LEMMA OthersTell ==
  ASSUME NEW s \in Streams, StreamTells(s), InOrder(s), gap[s].from \in Nat,
         Len(log) \in Nat, Len(log') \in Nat, Len(log) <= Len(log'),
         \A i \in 1 .. Len(log) : log'[i] = log[i],
         tasks[follows[s]].state # "Unborn" => tasks'[follows[s]].state # "Unborn",
         pc'[s] = pc[s], held'[s] = held[s], pipe'[s] = pipe[s], view'[s] = view[s],
         cursor'[s] = cursor[s], follows'[s] = follows[s], hungUp'[s] = hungUp[s],
         gap'[s] = gap[s], lost'[s] = lost[s]
  PROVE  StreamTells(s)'
<1> DEFINE f == gap[s].from
           t == follows[s]
<1>1. Whole(s)' => Whole(s)
  <2>1. \A i \in gap[s].from + 1 .. gap[s].to : log'[i] = log[i]
    BY DEF StreamTells
  <2> QED
    BY <2>1 DEF Whole, Runs, MissedAtStart
<1>2. Runs(s) => cursor[s] \in Nat /\ cursor[s] <= Len(log)
  BY DEF InOrder, Before
<1>3. First(log, f, t, held[s]) => First(log', f, t, held[s])
  BY TellsAlways
<1>4. Whole(s) =>
        Telling(log', f, t, cursor[s], pc[s], held[s], pipe[s], view[s])
  <2> SUFFICES ASSUME Whole(s) PROVE Telling(log', f, t, cursor[s], pc[s], held[s], pipe[s], view[s])
    OBVIOUS
  <2>1. cursor[s] \in Nat /\ cursor[s] <= Len(log)
    BY <1>2 DEF Whole
  <2>2. Telling(log, f, t, cursor[s], pc[s], held[s], pipe[s], view[s])
    BY DEF StreamTells
  <2> QED
    BY <2>1, <2>2, TellsAlways
<1>5. gap[s].from \in 0 .. Len(log') /\ gap[s].to \in 0 .. Len(log')
  BY DEF StreamTells
<1> QED
  BY <1>1, <1>3, <1>4, <1>5 DEF StreamTells

-----------------------------------------------------------------------------
(* Steps of a stream *)

\* What the lemmas about one stream assume.
Ready(s) ==
  /\ Shapes /\ InOrder(s) /\ LogInvariant /\ StreamTells(s)
  /\ follows[s] \in TaskIds
  /\ gap \in [Streams -> [from : Nat, to : Nat]] /\ DOMAIN lost = Streams

(***************************************************************************)
(* The handler begins with what the log tells (send_streaming_message,     *)
(* subscribe_to_task, spawn_task_stream).                                  *)
(***************************************************************************)
LEMMA HandlerTells ==
  ASSUME NEW s \in Streams, Ready(s), SubmitTask(s) \/ FetchTask(s) \/ OpenStream(s)
  PROVE  StreamTells(s)'
<1> DEFINE t == follows[s]
           n == Len(log)
<1>0. /\ DOMAIN cursor = Streams /\ DOMAIN pc = Streams /\ DOMAIN held = Streams
      /\ gap \in [Streams -> [from : Nat, to : Nat]] /\ IsSeq(log) /\ t \in TaskIds
  BY DEF Ready, Shapes
<1>1. n \in Nat /\ \A e : /\ Len(Append(log, e)) = n + 1
                          /\ \A i \in 1 .. n : Append(log, e)[i] = log[i]
  BY <1>0, Appending
<1>2. /\ gap[s].from \in Nat /\ gap[s].to \in Nat /\ gap[s].from <= n /\ gap[s].to <= n
      /\ pc[s] \in {"idle", "fetched"} => pipe[s] = <<>>
  BY <1>0, <1>1 DEF Ready, StreamTells
<1>3. CASE SubmitTask(s)
  <2>1. Create(t)
    BY <1>3 DEF SubmitTask
  <2>2. /\ LogInvariant' /\ log' = Append(log, TaskCreated(t)) /\ tasks'[t].state = "Submitted"
        /\ tasks'[t].artifacts = 0
    BY <1>0, <2>1, CreationIsTold DEF Ready
  <2>3. /\ pc[s] = "idle" /\ pc'[s] = "fetched" /\ pipe' = pipe /\ follows' = follows
        /\ held'[s] = [kind |-> "task", state |-> "Submitted", artifacts |-> 0, at |-> n + 1]
        /\ gap'[s].from = n + 1 /\ gap'[s].to = gap[s].to
    BY <1>0, <1>3 DEF SubmitTask
  <2>4. Len(log') = n + 1
    BY <1>1, <2>2
  <2>5. Tells(log', n + 1, t, "Submitted", 1 .. 0)
    BY <1>0, <2>2, <2>4 DEF LogInvariant, TaskTold
  <2>6. n + 1 \in 0 .. Len(log') /\ gap'[s].to \in 0 .. Len(log')
    BY <1>1, <1>2, <2>3, <2>4
  <2>7. First(log', n + 1, t, held'[s])
    BY <2>3, <2>5, <2>6 DEF First
  <2>8. pipe'[s] = <<>>
    BY <1>2, <2>3
  <2> QED
    BY <2>2, <2>3, <2>6, <2>7, <2>8 DEF StreamTells, Whole, Runs
<1>4. CASE FetchTask(s)
  <2>1. /\ pc[s] = "idle" /\ pc'[s] = "fetched" /\ pipe' = pipe /\ follows' = follows
        /\ held'[s] = TaskMessage(t, n) /\ log' = log /\ tasks' = tasks
        /\ gap'[s].from = n /\ gap'[s].to = gap[s].to /\ tasks[t].state # "Unborn"
    BY <1>0, <1>4 DEF FetchTask, StreamStep, NothingHappens, Born, StateOf
  <2>2. Tells(log, n, t, tasks[t].state, 1 .. tasks[t].artifacts)
    BY <1>0, <2>1 DEF Ready, LogInvariant, TaskTold
  <2>3. n \in 0 .. n /\ gap[s].to \in 0 .. n
    BY <1>1, <1>2
  <2>4. First(log, n, t, TaskMessage(t, n))
    BY <2>2, <2>3 DEF First, TaskMessage, StateOf
  <2>5. pipe'[s] = <<>>
    BY <1>2, <2>1
  <2>6. First(log', gap'[s].from, follows'[s], held'[s])
    BY <2>1, <2>4
  <2>7. gap'[s].from \in 0 .. Len(log') /\ gap'[s].to \in 0 .. Len(log')
    BY <2>1, <2>3
  <2> QED
    BY <2>1, <2>5, <2>6, <2>7 DEF StreamTells, Whole, Runs
<1>5. CASE OpenStream(s)
  <2>1. /\ pc[s] = "fetched" /\ pc'[s] = "send" /\ UNCHANGED <<held, pipe, follows, log, tasks, view>>
        /\ cursor'[s] = n /\ gap'[s].from = gap[s].from /\ gap'[s].to = n
    BY <1>0, <1>5 DEF OpenStream, Subscribe, StreamStep, NothingHappens
  <2>2. First(log, gap[s].from, t, held[s]) /\ tasks[t].state # "Unborn" /\ pipe[s] = <<>>
    BY <1>2, <2>1 DEF Ready, StreamTells
  <2>3. ~MissedAtStart(s)' => \A i \in gap[s].from + 1 .. n : ~Relevant(log[i], t)
    <3>1. \A e : Relevant(e, t) => IsAbout(e, t)
      BY DEF Relevant, StatusOf, ArtifactOf, IsAbout, IsTaskEvent
    <3> QED
      BY <2>1, <3>1 DEF MissedAtStart
  <2>4. Len(pipe[s]) = 0
    BY <2>2, Nothing
  <2>5. ~MissedAtStart(s)' => Telling(log, gap[s].from, t, n, "send", held[s], pipe[s], view[s])
    BY <2>2, <2>3, <2>4 DEF Telling, Honest, InHand
  <2>6. n \in 0 .. n /\ gap[s].from \in 0 .. n
    BY <1>1, <1>2
  <2>7. Whole(s)' => Telling(log', gap'[s].from, follows'[s], cursor'[s], pc'[s], held'[s], pipe'[s],
                             view'[s])
    BY <2>1, <2>5 DEF Whole
  <2> QED
    BY <2>1, <2>2, <2>6, <2>7 DEF StreamTells
<1> QED
  BY <1>3, <1>4, <1>5

(***************************************************************************)
(* The steps of the loop and of the client leave the history alone.        *)
(***************************************************************************)
LEMMA LoopFrame ==
  ASSUME NEW s \in Streams, Ready(s), LoopStep(s) \/ Receive(s) \/ HangUp(s)
  PROVE  /\ UNCHANGED <<log, tasks, follows, gap>> /\ (Runs(s) \/ Receive(s))
         /\ HangUp(s) => hungUp'[s]
         /\ ~HangUp(s) => hungUp' = hungUp
         /\ ~SkipLost(s) => lost' = lost
         /\ SkipLost(s) => lost'[s]
         /\ MissedAtStart(s)' <=> MissedAtStart(s)
<1>1. DOMAIN hungUp = Streams /\ DOMAIN lost = Streams
  BY DEF Ready, Shapes
<1>2. UNCHANGED <<log, tasks, follows, gap>>
  BY DEF LoopStep, TakeEvent, Refresh, SkipLost, SendMessage, Receive, HangUp, StreamStep,
     NothingHappens
<1>3. MissedAtStart(s)' <=> MissedAtStart(s)
  BY <1>2 DEF MissedAtStart
<1>4. Runs(s) \/ Receive(s)
  BY DEF LoopStep, TakeEvent, Refresh, SkipLost, SendMessage, HangUp, Runs
<1>5. /\ HangUp(s) => hungUp'[s]
      /\ ~HangUp(s) => hungUp' = hungUp
  BY <1>1 DEF LoopStep, TakeEvent, Refresh, SkipLost, SendMessage, Receive, HangUp
<1>6. SkipLost(s) => lost'[s]
  BY <1>1 DEF SkipLost
<1>7. ~SkipLost(s) => lost' = lost
  BY DEF LoopStep, TakeEvent, Refresh, SendMessage, Receive, HangUp
<1> QED
  BY <1>2, <1>3, <1>4, <1>5, <1>6, <1>7

(***************************************************************************)
(* What the loop takes from the bus it holds in hand (spawn_task_stream,   *)
(* task_event_to_stream_response).                                         *)
(***************************************************************************)
LEMMA TakenIsHeld ==
  ASSUME NEW s \in Streams, Ready(s), Whole(s), TakeEvent(s)
  PROVE  Telling(log, gap[s].from, follows[s], cursor'[s], pc'[s], held'[s], pipe[s], view[s])
<1> DEFINE t == follows[s]
           f == gap[s].from
           c == cursor[s]
           e == log[c + 1]
<1>0. /\ DOMAIN cursor = Streams /\ DOMAIN pc = Streams /\ DOMAIN held = Streams
      /\ f \in Nat
  BY DEF Ready, Shapes
<1>1. /\ pc[s] = "recv" /\ c < Len(log) /\ cursor'[s] = c + 1
      /\ \/ /\ ~IsAbout(e, t) /\ pc'[s] = "recv" /\ held' = held
         \/ /\ StatusOf(e, t) /\ pc'[s] = "send"
            /\ held'[s] = [kind |-> "status", state |-> e.new, at |-> c + 1]
         \/ /\ ArtifactOf(e, t) /\ pc'[s] = "refresh"
            /\ held'[s] = [kind |-> "artifact", number |-> e.artifact, at |-> c + 1]
  BY <1>0 DEF TakeEvent, Recv, Waiting, NextEvent, StatusMessage, ArtifactMessage, IsAbout,
     StatusOf, ArtifactOf
<1>2. c \in Nat /\ Len(log) \in Nat
  BY <1>1, Appending DEF Ready, InOrder, Runs, Before, LogInvariant
<1>3. Telling(log, f, t, c, "recv", held[s], pipe[s], view[s])
  BY <1>1 DEF Ready, StreamTells
<1>4. c + 1 \in 1 .. Len(log) /\ \A i \in f + 1 .. c + 1 : i \in f + 1 .. c \/ i = c + 1
  BY <1>0, <1>1, <1>2
<1>5. CASE ~IsAbout(e, t) /\ pc'[s] = "recv" /\ held' = held
  <2>1. ~Relevant(e, t)
    BY <1>5 DEF Relevant, StatusOf, ArtifactOf, IsAbout, IsTaskEvent
  <2> QED
    BY <1>1, <1>3, <1>4, <1>5, <2>1 DEF Telling, InHand
<1>6. CASE pc'[s] \in {"send", "refresh"}
  <2>1. held'[s].at = c + 1 /\ InHand(pc'[s]) /\ (pc'[s] = "refresh" => held'[s].kind = "artifact")
    BY <1>1, <1>6 DEF InHand
  <2>2. Honest(log, f, t, held'[s])
    BY <1>1, <1>4, <1>6 DEF Honest
  <2>3. Informed(log, f, t, view[s]) \/ (pipe[s] # <<>> /\ First(log, f, t, pipe[s][1]))
    BY <1>3 DEF Telling, InHand
  <2>4. \A k \in 1 .. Len(pipe[s]) : Honest(log, f, t, pipe[s][k])
    BY <1>3 DEF Telling
  <2>5. \A i \in f + 1 .. c + 1 :
          Relevant(log[i], t) => \/ i <= view[s].at
                                 \/ \E k \in 1 .. Len(pipe[s]) : pipe[s][k].at = i
                                 \/ held'[s].at = i
    BY <1>3, <1>4, <2>1 DEF Telling, InHand
  <2> QED
    BY <1>1, <2>1, <2>2, <2>3, <2>4, <2>5 DEF Telling
<1> QED
  BY <1>1, <1>5, <1>6

(***************************************************************************)
(* The artifact of an event is always found in the task: it was added      *)
(* before the event was sent, and artifacts stay (convert.rs).             *)
(***************************************************************************)
LEMMA RefreshFinds ==
  ASSUME NEW s \in Streams, Ready(s), Whole(s), Refresh(s)
  PROVE  Telling(log, gap[s].from, follows[s], cursor[s], pc'[s], held'[s], pipe[s], view[s])
<1> DEFINE t == follows[s]
           f == gap[s].from
<1>0. DOMAIN pc = Streams /\ t \in TaskIds /\ Len(log) \in Nat
  BY Appending DEF Ready, Shapes
<1>1. Telling(log, f, t, cursor[s], "refresh", held[s], pipe[s], view[s]) /\ pc[s] = "refresh"
  BY DEF Ready, StreamTells, Refresh
<1>2. ArtifactOf(log[held[s].at], t) /\ log[held[s].at].artifact = held[s].number
      /\ held[s].at \in 1 .. Len(log)
  BY <1>1 DEF Telling, InHand, Honest, First
<1>3. Tells(log, Len(log), t, tasks[t].state, 1 .. tasks[t].artifacts)
  BY <1>0, <1>1 DEF Ready, StreamTells, LogInvariant, TaskTold
<1>4. held[s].number \in 1 .. tasks[t].artifacts
  BY <1>2, <1>3 DEF Tells, TellsArtifacts
<1>5. pc'[s] = "send" /\ held' = held
  BY <1>0, <1>4 DEF Refresh
<1> QED
  BY <1>1, <1>5 DEF Telling, InHand

(***************************************************************************)
(* What is sent is in the channel.                                         *)
(***************************************************************************)
LEMMA SentIsInThePipe ==
  ASSUME NEW s \in Streams, Ready(s), Whole(s), SendMessage(s), ~hungUp[s]
  PROVE  Telling(log, gap[s].from, follows[s], cursor[s], pc'[s], held'[s], pipe'[s], view[s])
<1> DEFINE t == follows[s]
           f == gap[s].from
           q == pipe[s]
           n == Len(q)
           r == pipe'[s]
<1>0. DOMAIN pc = Streams /\ DOMAIN pipe = Streams /\ IsSeq(q)
  BY DEF Ready, Shapes
<1>1. Telling(log, f, t, cursor[s], "send", held[s], q, view[s])
  BY DEF Ready, StreamTells, SendMessage
<1>2. pc'[s] = "recv" /\ r = Append(q, held[s])
  BY <1>0 DEF SendMessage
<1>3. /\ n \in Nat /\ Len(r) = n + 1 /\ (\A k \in 1 .. n : r[k] = q[k]) /\ r[n + 1] = held[s]
      /\ IsSeq(r)
  BY <1>0, <1>2, Appending
<1>4. q = <<>> => n = 0
  BY Nothing
<1>5. q # <<>> => n # 0
  BY <1>0, TakingTheHead
<1>6. r # <<>>
  BY <1>3, Nothing
<1> HIDE DEF n, r
<1>7. \A k : k \in 1 .. Len(r) <=> k \in 1 .. n \/ k = n + 1
  BY <1>3
<1>8. \A k \in 1 .. Len(r) : Honest(log, f, t, r[k])
  BY <1>1, <1>3, <1>7 DEF Telling, InHand, n
<1>9. Informed(log, f, t, view[s]) \/ First(log, f, t, r[1])
  <2>1. CASE q = <<>>
    BY <1>1, <1>3, <1>4, <2>1 DEF Telling, InHand
  <2>2. CASE q # <<>>
    <3>1. r[1] = q[1]
      BY <1>3, <1>5, <2>2
    <3> QED
      BY <1>1, <2>2, <3>1 DEF Telling, InHand
  <2> QED
    BY <2>1, <2>2
<1>10. \A i \in f + 1 .. cursor[s] :
         Relevant(log[i], t) => i <= view[s].at \/ \E k \in 1 .. Len(r) : r[k].at = i
  <2>1. (\E k \in 1 .. Len(r) : r[k].at = held[s].at)
    BY <1>3, <1>7
  <2>2. \A i : (\E k \in 1 .. n : q[k].at = i) => \E k \in 1 .. Len(r) : r[k].at = i
    BY <1>3, <1>7
  <2> QED
    BY <1>1, <2>1, <2>2 DEF Telling, n
<1> QED
  BY <1>2, <1>6, <1>8, <1>9, <1>10 DEF Telling, InHand, r

(***************************************************************************)
(* An event that is told a second time is not news.                        *)
(***************************************************************************)
LEMMA ToldAgain ==
  ASSUME NEW q, NEW n \in Nat \ {0}, NEW t, NEW state, NEW artifacts, Tells(q, n, t, state, artifacts)
  PROVE  /\ StatusOf(q[n], t) => q[n].new = state
         /\ ArtifactOf(q[n], t) => q[n].artifact \in artifacts
<1>1. n \in 1 .. n /\ \A i \in 1 .. n : i = n \/ n \in i + 1 .. n
  OBVIOUS
<1> QED
  BY <1>1 DEF Tells, TellsState, TellsArtifacts

(***************************************************************************)
(* The client that takes an honest message, with nothing left out before   *)
(* it, is informed.                                                        *)
(***************************************************************************)
LEMMA HonestInforms ==
  ASSUME NEW q, Len(q) \in Nat, NEW f \in Nat, NEW t, NEW m, NEW v,
         Honest(q, f, t, m),
         Informed(q, f, t, v) \/ First(q, f, t, m),
         v.at \in Nat, m.at \in Nat, v.at <= m.at,
         f <= v.at => \A i \in v.at + 1 .. m.at - 1 : ~Relevant(q[i], t)
  PROVE  Informed(q, f, t, Told(v, m))
<1> DEFINE w == Told(v, m)
<1>1. w.at = m.at
  BY DEF Told
<1>2. CASE First(q, f, t, m)
  <2>1. w.state = m.state /\ w.artifacts = 1 .. m.artifacts
    BY <1>2 DEF First, Told
  <2>2. m.at \in f .. Len(q)
    BY <1>2 DEF First
  <2> QED
    BY <1>1, <1>2, <2>1, <2>2 DEF First, Informed
<1>3. CASE ~First(q, f, t, m)
  <2>1. /\ v.at \in f .. Len(q) /\ Tells(q, v.at, t, v.state, v.artifacts)
        /\ m.at \in 1 .. Len(q) /\ \A i \in v.at + 1 .. m.at - 1 : ~Relevant(q[i], t)
    BY <1>3 DEF Informed, Honest
  <2>2. m.at \in f .. Len(q)
    BY <2>1
  <2>3. CASE m.kind = "status" /\ StatusOf(q[m.at], t) /\ q[m.at].new = m.state
    <3>1. w.state = m.state
      BY <2>3 DEF Told
    <3>2. w.artifacts = v.artifacts
      <4>1. {m.number : k \in {"artifact"} \cap {m.kind}} = {}
        BY <2>3
      <4> QED
        BY <2>3, <4>1 DEF Told
    <3>3. Tells(q, m.at, t, m.state, v.artifacts)
      <4>1. CASE v.at = m.at
        <5>1. m.at \in Nat \ {0}
          BY <2>1
        <5> QED
          BY <2>1, <2>3, <4>1, <5>1, ToldAgain
      <4>2. CASE v.at < m.at
        BY <2>1, <2>3, <4>2, StateIsTold
      <4> QED
        BY <4>1, <4>2
    <3> QED
      BY <1>1, <2>2, <3>1, <3>2, <3>3 DEF Informed
  <2>4. CASE m.kind = "artifact" /\ ArtifactOf(q[m.at], t) /\ q[m.at].artifact = m.number
    <3>1. w.state = v.state
      BY <2>4 DEF Told
    <3>2. w.artifacts = v.artifacts \cup {m.number}
      <4>1. {m.number : k \in {"artifact"} \cap {m.kind}} = {m.number}
        BY <2>4
      <4> QED
        BY <2>4, <4>1 DEF Told
    <3>3. Tells(q, m.at, t, v.state, v.artifacts \cup {m.number})
      <4>1. CASE v.at = m.at
        <5>1. m.at \in Nat \ {0}
          BY <2>1
        <5>2. m.number \in v.artifacts
          BY <2>1, <2>4, <4>1, <5>1, ToldAgain
        <5>3. v.artifacts \cup {m.number} = v.artifacts
          BY <5>2
        <5> QED
          BY <2>1, <4>1, <5>3
      <4>2. CASE v.at < m.at
        BY <2>1, <2>4, <4>2, ArtifactIsTold
      <4> QED
        BY <4>1, <4>2
    <3> QED
      BY <1>1, <2>2, <3>1, <3>2, <3>3 DEF Informed
  <2> QED
    BY <1>3, <2>3, <2>4 DEF Honest
<1> QED
  BY <1>2, <1>3

(***************************************************************************)
(* The client is told what comes next.                                     *)
(***************************************************************************)
LEMMA ReceivedIsTold ==
  ASSUME NEW s \in Streams, Ready(s), Whole(s), Receive(s)
  PROVE  Telling(log, gap[s].from, follows[s], cursor[s], pc[s], held[s], pipe'[s], view'[s])
<1> DEFINE t == follows[s]
           f == gap[s].from
           q == pipe[s]
           r == pipe'[s]
           m == q[1]
           v == view[s]
<1>0. /\ DOMAIN view = Streams /\ DOMAIN pipe = Streams /\ IsSeq(q) /\ f \in Nat
      /\ Len(log) \in Nat
  BY Appending DEF Ready, Shapes
<1>1. Telling(log, f, t, cursor[s], pc[s], held[s], q, v)
  BY DEF Ready, StreamTells
<1>2. q # <<>> /\ r = Tail(q) /\ view'[s] = Told(v, Head(q))
  BY <1>0 DEF Receive
<1>3. /\ Len(q) \in Nat \ {0} /\ Len(r) = Len(q) - 1 /\ view'[s] = Told(v, m)
      /\ \A k \in 1 .. Len(q) - 1 : r[k] = q[k + 1]
  BY <1>0, <1>2, TakingTheHead
<1>4. /\ v.at \in Nat /\ m.at \in Nat /\ v.at <= m.at /\ m.at <= cursor[s] /\ cursor[s] \in Nat
      /\ \A k \in 1 .. Len(q) : q[k].at \in Nat /\ m.at <= q[k].at
      /\ InHand(pc[s]) => held[s].at \in Nat /\ m.at <= held[s].at
  <2>1. 1 \in 1 .. Len(q) /\ \A k \in 1 .. Len(q) : k = 1 \/ 1 < k
    BY <1>3
  <2>2. PipeInOrder(s) /\ Before(s, cursor[s]) /\ (InHand(pc[s]) => Before(s, held[s].at))
    BY DEF Ready, InOrder, Whole, InHand
  <2> QED
    BY <2>1, <2>2 DEF PipeInOrder, Before
<1>5. Honest(log, f, t, m) /\ (Informed(log, f, t, v) \/ First(log, f, t, m))
  BY <1>1, <1>2, <1>3 DEF Telling
<1>6. f <= v.at => \A i \in v.at + 1 .. m.at - 1 : ~Relevant(log[i], t)
  <2> SUFFICES ASSUME f <= v.at, NEW i \in v.at + 1 .. m.at - 1, Relevant(log[i], t)
               PROVE  FALSE
    OBVIOUS
  <2>0. \A a, b, c, g \in Nat : \A j \in a + 1 .. b - 1 :
          g <= a /\ b <= c => j \in g + 1 .. c /\ ~(j <= a) /\ \A h \in Nat : b <= h => h # j
    OBVIOUS
  <2>1. /\ i \in f + 1 .. cursor[s] /\ ~(i <= v.at)
        /\ \A h \in Nat : m.at <= h => h # i
    <3> HIDE DEF f, m, v
    <3> QED
      BY <1>0, <1>4, <2>0
  <2>2. (\E k \in 1 .. Len(q) : q[k].at = i) \/ (InHand(pc[s]) /\ held[s].at = i)
    BY <1>1, <2>1 DEF Telling
  <2>3. CASE \E k \in 1 .. Len(q) : q[k].at = i
    <3> HIDE DEF q, m, v
    <3> QED
      BY <1>4, <2>1, <2>3
  <2>4. CASE InHand(pc[s]) /\ held[s].at = i
    <3> HIDE DEF q, m, v
    <3> QED
      BY <1>4, <2>1, <2>4
  <2> QED
    BY <2>2, <2>3, <2>4
<1>7. Informed(log, f, t, view'[s])
  BY <1>0, <1>3, <1>4, <1>5, <1>6, HonestInforms
<1>8. view'[s].at = m.at
  BY <1>3 DEF Told
<1>9. \A k \in 1 .. Len(r) : Honest(log, f, t, r[k])
  <2>1. \A k \in 1 .. Len(r) : k \in 1 .. Len(q) - 1 /\ k + 1 \in 1 .. Len(q)
    BY <1>3
  <2> QED
    BY <1>1, <1>3, <2>1 DEF Telling
<1>10. \A i \in f + 1 .. cursor[s] :
         Relevant(log[i], t) => \/ i <= view'[s].at
                                \/ \E k \in 1 .. Len(r) : r[k].at = i
                                \/ InHand(pc[s]) /\ held[s].at = i
  <2> SUFFICES ASSUME NEW i \in f + 1 .. cursor[s], Relevant(log[i], t),
                      i <= v.at \/ \E k \in 1 .. Len(q) : q[k].at = i
               PROVE  i <= view'[s].at \/ \E k \in 1 .. Len(r) : r[k].at = i
    BY <1>1 DEF Telling
  <2>1. CASE i <= v.at
    BY <1>0, <1>4, <1>8, <2>1
  <2>2. ASSUME NEW k \in 1 .. Len(q), q[k].at = i
        PROVE  i <= view'[s].at \/ \E j \in 1 .. Len(r) : r[j].at = i
    <3>1. CASE k = 1
      BY <1>4, <1>8, <2>2, <3>1
    <3>2. CASE k # 1
      <4>0. \A n \in Nat \ {0} : \A j \in 1 .. n : j # 1 => j - 1 \in 1 .. n - 1 /\ (j - 1) + 1 = j
        OBVIOUS
      <4>1. k - 1 \in 1 .. Len(q) - 1 /\ k - 1 \in 1 .. Len(r) /\ (k - 1) + 1 = k
        <5> HIDE DEF q, r
        <5> QED
          BY <1>3, <3>2, <4>0
      <4>2. r[k - 1] = q[k]
        BY <1>3, <4>1
      <4> QED
        BY <2>2, <4>1, <4>2
    <3> QED
      BY <3>1, <3>2
  <2> QED
    BY <2>1, <2>2
<1> QED
  BY <1>1, <1>7, <1>9, <1>10 DEF Telling

(***************************************************************************)
(* The loop and the client go on telling, until something is lost or the   *)
(* client leaves.                                                          *)
(***************************************************************************)
LEMMA LoopTells ==
  ASSUME NEW s \in Streams, Ready(s), LoopStep(s) \/ Receive(s) \/ HangUp(s)
  PROVE  StreamTells(s)'
<1>0. DOMAIN pc = Streams
  BY DEF Ready, Shapes
<1>1. /\ UNCHANGED <<log, tasks, follows, gap>> /\ (Runs(s) \/ Receive(s))
      /\ HangUp(s) => hungUp'[s]
      /\ ~HangUp(s) => hungUp' = hungUp
      /\ ~SkipLost(s) => lost' = lost
      /\ SkipLost(s) => lost'[s]
      /\ MissedAtStart(s)' <=> MissedAtStart(s)
  BY LoopFrame
<1>2. pc[s] \notin {"idle", "fetched"}
  <2>1. CASE Runs(s)
    BY <2>1 DEF Runs
  <2>2. CASE Receive(s)
    BY <2>2 DEF Receive, Ready, StreamTells
  <2> QED
    BY <1>1, <2>1, <2>2
<1>3. pc'[s] \notin {"idle", "fetched"}
  BY <1>0, <1>2 DEF LoopStep, TakeEvent, Refresh, SkipLost, SendMessage, Receive, HangUp
<1>4. /\ gap'[s].from \in 0 .. Len(log') /\ gap'[s].to \in 0 .. Len(log')
      /\ tasks'[follows'[s]].state # "Unborn"
  BY <1>1, <1>2 DEF Ready, StreamTells
<1>5. ASSUME Whole(s)'
      PROVE  Telling(log', gap'[s].from, follows'[s], cursor'[s], pc'[s], held'[s], pipe'[s], view'[s])
  <2>1. ~HangUp(s) /\ ~SkipLost(s) /\ ~hungUp[s] /\ ~lost[s] /\ ~MissedAtStart(s)
    BY <1>1, <1>5 DEF Whole
  <2>2. Runs(s)
    BY <1>1, <1>5 DEF Whole, Runs, Receive
  <2>3. Whole(s)
    BY <2>1, <2>2 DEF Whole
  <2>4. CASE TakeEvent(s)
    <3>1. pipe' = pipe /\ view' = view
      BY <2>4 DEF TakeEvent
    <3> QED
      BY <1>1, <2>3, <2>4, <3>1, TakenIsHeld
  <2>5. CASE Refresh(s)
    <3>1. cursor' = cursor /\ pipe' = pipe /\ view' = view
      BY <2>5 DEF Refresh
    <3> QED
      BY <1>1, <2>3, <2>5, <3>1, RefreshFinds
  <2>6. CASE SendMessage(s)
    <3>1. cursor' = cursor /\ view' = view
      BY <2>6 DEF SendMessage
    <3> QED
      BY <1>1, <2>1, <2>3, <2>6, <3>1, SentIsInThePipe
  <2>7. CASE Receive(s)
    <3>1. cursor' = cursor /\ pc' = pc /\ held' = held
      BY <2>7 DEF Receive
    <3> QED
      BY <1>1, <2>3, <2>7, <3>1, ReceivedIsTold
  <2> QED
    BY <2>1, <2>4, <2>5, <2>6, <2>7 DEF LoopStep
<1> QED
  BY <1>3, <1>4, <1>5 DEF StreamTells

(***************************************************************************)
(* What is left of a step besides what it does to its stream.              *)
(***************************************************************************)
LEMMA StepFrame ==
  ASSUME TellsInvariant, NEW r \in Streams, Step(r)
  PROVE  /\ follows' = follows
         /\ gap' \in [Streams -> [from : Nat, to : Nat]] /\ DOMAIN lost' = Streams
         /\ \A s \in Streams \ {r} : /\ hungUp'[s] = hungUp[s] /\ gap'[s] = gap[s]
                                     /\ lost'[s] = lost[s]
<1>1. /\ DOMAIN hungUp = Streams /\ DOMAIN lost = Streams /\ IsSeq(log)
      /\ gap \in [Streams -> [from : Nat, to : Nat]]
  BY DEF TellsInvariant, StreamInvariant, Shapes
<1>2. Len(log) \in Nat /\ Len(log) + 1 \in Nat
  BY <1>1, Appending
<1>3. CASE SubmitTask(r)
  <2>1. gap' = [gap EXCEPT ![r].from = Len(log) + 1]
        /\ UNCHANGED <<follows, hungUp, lost>>
    BY <1>3 DEF SubmitTask
  <2> QED
    BY <1>1, <1>2, <2>1
<1>4. CASE FetchTask(r)
  <2>1. gap' = [gap EXCEPT ![r].from = Len(log)] /\ UNCHANGED <<follows, hungUp, lost>>
    BY <1>4 DEF FetchTask, StreamStep
  <2> QED
    BY <1>1, <1>2, <2>1
<1>5. CASE OpenStream(r)
  <2>1. gap' = [gap EXCEPT ![r].to = Len(log)] /\ UNCHANGED <<follows, hungUp, lost>>
    BY <1>5 DEF OpenStream, StreamStep
  <2> QED
    BY <1>1, <1>2, <2>1
<1>6. CASE LoopStep(r) \/ Receive(r) \/ HangUp(r)
  <2>1. UNCHANGED <<follows, gap>>
    BY <1>6 DEF LoopStep, TakeEvent, Refresh, SkipLost, SendMessage, Receive, HangUp, StreamStep
  <2>2. /\ hungUp' = hungUp \/ hungUp' = [hungUp EXCEPT ![r] = TRUE]
        /\ lost' = lost \/ lost' = [lost EXCEPT ![r] = TRUE]
    BY <1>6 DEF LoopStep, TakeEvent, Refresh, SkipLost, SendMessage, Receive, HangUp
  <2> QED
    BY <1>1, <2>1, <2>2
<1> QED
  BY <1>3, <1>4, <1>5, <1>6 DEF Step

(***************************************************************************)
(* What a step does to the log and the tasks.                              *)
(***************************************************************************)
LEMMA LogTells ==
  ASSUME TellsInvariant, Next
  PROVE  /\ LogInvariant'
         /\ Len(log) \in Nat /\ Len(log') \in Nat /\ Len(log) <= Len(log')
         /\ \A i \in 1 .. Len(log) : log'[i] = log[i]
         /\ \A t \in TaskIds : tasks[t].state # "Unborn" => tasks'[t].state # "Unborn"
<1>1. /\ IsSeq(log) /\ LogInvariant /\ follows \in [Streams -> TaskIds]
      /\ tasks \in [TaskIds -> Task \cup {NoTask}]
  BY DEF TellsInvariant, LogInvariant
<1>2. Len(log) \in Nat /\ \A e : /\ IsSeq(Append(log, e)) /\ Len(Append(log, e)) = Len(log) + 1
                                 /\ \A i \in 1 .. Len(log) : Append(log, e)[i] = log[i]
  BY <1>1, Appending
<1>3. log' = log \/ (\E e : log' = Append(log, e))
        => /\ Len(log') \in Nat /\ Len(log) <= Len(log')
           /\ \A i \in 1 .. Len(log) : log'[i] = log[i]
  BY <1>2
<1>4. CASE OtherEvent
  <2> DEFINE e == [type |-> "NewMessage"]
  <2>1. log' = Append(log, e) /\ tasks' = tasks
    BY <1>4 DEF OtherEvent, Send
  <2>2. \A t : ~Relevant(e, t)
    BY DEF Relevant, StatusOf, ArtifactOf
  <2>3. \A t \in TaskIds : TaskTold(Append(log, e), t, tasks[t])
    BY <1>1, <2>2, NothingNew DEF LogInvariant
  <2>4. LogInvariant'
    BY <1>1, <1>2, <2>1, <2>3 DEF LogInvariant
  <2> QED
    BY <1>2, <1>3, <2>1, <2>4
<1>5. ASSUME NEW t \in TaskIds, Create(t)
      PROVE  /\ LogInvariant' /\ (\E e : log' = Append(log, e))
             /\ \A u \in TaskIds : tasks[u].state # "Unborn" => tasks'[u].state # "Unborn"
  <2>1. /\ LogInvariant' /\ log' = Append(log, TaskCreated(t))
        /\ tasks[t].state = "Unborn"
    BY <1>1, <1>5, CreationIsTold
  <2>2. \A u \in TaskIds \ {t} : tasks'[u] = tasks[u]
    BY <1>1, <1>5 DEF Create, CreateTask
  <2> QED
    BY <2>1, <2>2
<1>6. CASE \E t \in TaskIds : Create(t)
  BY <1>2, <1>3, <1>5, <1>6
<1>7. CASE \E t \in TaskIds : ChangeTask(t)
  BY <1>1, <1>2, <1>3, <1>7, ChangesAreTold
<1>8. CASE \E s \in Streams : FetchTask(s) \/ OpenStream(s) \/ LoopStep(s) \/ Receive(s) \/ HangUp(s)
  <2>1. log' = log /\ tasks' = tasks
    BY <1>8 DEF FetchTask, OpenStream, LoopStep, TakeEvent, Refresh, SkipLost, SendMessage, Receive,
       HangUp, StreamStep, NothingHappens
  <2>2. LogInvariant'
    BY <1>1, <2>1 DEF LogInvariant
  <2> QED
    BY <1>2, <1>3, <2>1, <2>2
<1>9. CASE \E s \in Streams : SubmitTask(s)
  <2>1. \E t \in TaskIds : Create(t)
    BY <1>1, <1>9 DEF SubmitTask
  <2> QED
    BY <1>6, <2>1
<1> QED
  BY <1>4, <1>6, <1>7, <1>8, <1>9 DEF Next, SomethingHappens

(***************************************************************************)
(* Every step keeps the invariant.                                         *)
(***************************************************************************)
LEMMA StepsTell ==
  ASSUME TellsInvariant, Next
  PROVE  TellsInvariant'
<1>1. /\ LogInvariant'
      /\ Len(log) \in Nat /\ Len(log') \in Nat /\ Len(log) <= Len(log')
      /\ \A i \in 1 .. Len(log) : log'[i] = log[i]
      /\ \A t \in TaskIds : tasks[t].state # "Unborn" => tasks'[t].state # "Unborn"
  BY LogTells
<1>2. /\ StreamInvariant /\ Shapes /\ LogInvariant /\ follows \in [Streams -> TaskIds]
      /\ gap \in [Streams -> [from : Nat, to : Nat]] /\ DOMAIN lost = Streams
      /\ \A s \in Streams : /\ StreamTells(s) /\ InOrder(s) /\ gap[s].from \in Nat
                            /\ follows[s] \in TaskIds
  BY DEF TellsInvariant, StreamInvariant
<1>3. StreamInvariant' /\ IsSeq(log')
  BY <1>2, StreamStepsInOrder DEF StreamInvariant, Shapes
<1>4. CASE SomethingHappens /\ UNCHANGED <<cursor, streamVars>>
  <2>1. UNCHANGED <<cursor, pc, follows, held, pipe, view, hungUp, gap, lost>>
    BY <1>4 DEF streamVars
  <2>2. \A s \in Streams : StreamTells(s)'
    BY <1>1, <1>2, <2>1, OthersTell
  <2> QED
    BY <1>1, <1>2, <1>3, <2>1, <2>2 DEF TellsInvariant
<1>5. ASSUME NEW r \in Streams, Step(r)
      PROVE  TellsInvariant'
  <2>1. \A s \in Streams \ {r} : /\ pc'[s] = pc[s] /\ held'[s] = held[s] /\ pipe'[s] = pipe[s]
                                 /\ view'[s] = view[s] /\ cursor'[s] = cursor[s]
    BY <1>2, <1>3, <1>5, StepsOfStreams
  <2>2. /\ follows' = follows
        /\ gap' \in [Streams -> [from : Nat, to : Nat]] /\ DOMAIN lost' = Streams
        /\ \A s \in Streams \ {r} : /\ hungUp'[s] = hungUp[s] /\ gap'[s] = gap[s]
                                    /\ lost'[s] = lost[s]
    BY <1>5, StepFrame
  <2>3. \A s \in Streams \ {r} : StreamTells(s)'
    <3> SUFFICES ASSUME NEW s \in Streams \ {r} PROVE StreamTells(s)'
      OBVIOUS
    <3>1. follows'[s] = follows[s] /\ follows[s] \in TaskIds
      BY <1>2, <2>2
    <3>2. tasks[follows[s]].state # "Unborn" => tasks'[follows[s]].state # "Unborn"
      BY <1>1, <3>1
    <3> QED
      BY <1>1, <1>2, <2>1, <2>2, <3>1, <3>2, OthersTell
  <2>4. Ready(r)
    BY <1>2 DEF Ready
  <2>5. StreamTells(r)'
    BY <1>5, <2>4, HandlerTells, LoopTells DEF Step
  <2> QED
    BY <1>1, <1>2, <1>3, <2>2, <2>3, <2>5 DEF TellsInvariant
<1> QED
  BY <1>4, <1>5 DEF Next, Step

(***************************************************************************)
(* The invariant holds in every reachable state.                           *)
(***************************************************************************)
LEMMA StreamsTell == Spec => []TellsInvariant
<1>1. Init => TellsInvariant
  <2> SUFFICES ASSUME Init PROVE TellsInvariant
    OBVIOUS
  <2>1. log = <<>> /\ IsSeq(log) /\ Len(log) = 0
    BY Nothing DEF Init, TaskEventsInit, BroadcastInit
  <2>2. tasks = [t \in TaskIds |-> NoTask]
    BY DEF Init, TaskEventsInit, TaskInit
  <2>3. LogInvariant
    <3>1. \A t \in TaskIds : tasks[t] = NoTask /\ tasks[t].state = "Unborn"
      BY <2>2 DEF NoTask
    <3>2. \A t \in TaskIds : TaskTold(log, t, tasks[t])
      BY <2>1, <3>1 DEF TaskTold
    <3> QED
      BY <2>1, <2>2, <3>2 DEF LogInvariant
  <2>4. /\ follows \in [Streams -> TaskIds] /\ gap = [s \in Streams |-> [from |-> 0, to |-> 0]]
        /\ lost = [s \in Streams |-> FALSE]
        /\ \A s \in Streams : pc[s] = "idle" /\ pipe[s] = <<>>
    BY DEF Init
  <2>5. \A s \in Streams : StreamTells(s)
    BY <2>1, <2>4 DEF StreamTells, Whole, Runs
  <2>6. StreamInvariant
    BY InitInOrder
  <2> QED
    BY <2>3, <2>4, <2>5, <2>6 DEF TellsInvariant
<1>2. TellsInvariant /\ [Next]_vars => TellsInvariant'
  <2> SUFFICES ASSUME TellsInvariant, UNCHANGED vars PROVE TellsInvariant'
    BY StepsTell
  <2>1. UNCHANGED <<log, tasks, cursor, pc, follows, held, pipe, view, hungUp, gap, lost>>
    BY DEF vars, eventVars, streamVars
  <2>2. StreamInvariant'
    BY <2>1 DEF TellsInvariant, StreamInvariant, Shapes, InOrder, PipeInOrder, Before, Runs
  <2>3. LogInvariant'
    BY <2>1 DEF TellsInvariant, LogInvariant
  <2>4. \A s \in Streams : StreamTells(s)'
    BY <2>1 DEF TellsInvariant, StreamTells, Whole, Runs, MissedAtStart
  <2> QED
    BY <2>1, <2>2, <2>3, <2>4 DEF TellsInvariant
<1> QED
  BY <1>1, <1>2, PTL DEF Spec

(***************************************************************************)
(* For any number of streams and tasks and any capacities: a client that   *)
(* has read everything knows the state and the artifacts of its task,      *)
(* unless its receiver lagged or the task changed between the fetch and    *)
(* the subscription (spawn_task_stream in service.rs).                     *)
(***************************************************************************)
THEOREM NothingElseIsLost == Spec => []OnlyGapAndLagLose
<1>1. ASSUME TellsInvariant PROVE OnlyGapAndLagLose
  <2> SUFFICES ASSUME NEW s \in Streams, CaughtUp(s), ~MissedAtStart(s), ~lost[s]
               PROVE  Current(s)
    BY DEF OnlyGapAndLagLose
  <2> DEFINE t == follows[s]
             n == Len(log)
             v == view[s]
             f == gap[s].from
  <2>0. IsSeq(log) /\ n \in Nat /\ t \in TaskIds /\ f \in Nat
    BY <1>1, Appending DEF TellsInvariant, LogInvariant
  <2>1. /\ pc[s] = "recv" /\ cursor[s] = n /\ pipe[s] = <<>> /\ Len(pipe[s]) = 0 /\ Whole(s)
    BY Nothing DEF CaughtUp, Whole, Runs
  <2>2. Telling(log, f, t, n, "recv", held[s], <<>>, v) /\ tasks[t].state # "Unborn"
    BY <1>1, <2>1 DEF TellsInvariant, StreamTells
  <2>3. Informed(log, f, t, v)
    BY <2>2 DEF Telling, InHand
  <2>4. \A i \in f + 1 .. n : Relevant(log[i], t) => i <= v.at
    BY <2>1, <2>2 DEF Telling, InHand
  <2>5. v.at \in Nat /\ f <= v.at /\ v.at <= n
    BY <2>0, <2>3 DEF Informed
  <2>6. \A i \in v.at + 1 .. n : i \in f + 1 .. n /\ ~(i <= v.at)
    <3>1. \A a, b, c \in Nat : \A i \in a + 1 .. b : c <= a => i \in c + 1 .. b /\ ~(i <= a)
      OBVIOUS
    <3> HIDE DEF v, n, f
    <3> QED
      BY <2>0, <2>5, <3>1
  <2>7. \A i \in v.at + 1 .. n : ~Relevant(log[i], t)
    BY <2>4, <2>6
  <2>8. Tells(log, v.at, t, v.state, v.artifacts)
    BY <2>3 DEF Informed
  <2>9. Tells(log, n, t, v.state, v.artifacts)
    BY <2>0, <2>5, <2>7, <2>8, StillTold
  <2>10. Tells(log, n, t, tasks[t].state, 1 .. tasks[t].artifacts)
    BY <1>1, <2>0, <2>2 DEF TellsInvariant, LogInvariant, TaskTold
  <2> QED
    BY <2>0, <2>9, <2>10, OneIsTold DEF Current, StateOf
<1> QED
  BY <1>1, StreamsTell, PTL

=============================================================================
