---------------------------- MODULE TaskStream ------------------------------
(***************************************************************************)
(* The task streams of the gRPC service (grpc/service.rs:                  *)
(* send_streaming_message, subscribe_to_task, spawn_task_stream; the       *)
(* conversion in grpc/convert.rs) on top of the task manager and the bus.  *)
(*                                                                         *)
(* A handler obtains the task, then spawn_task_stream subscribes to the    *)
(* bus, and a spawned loop sends first the task it was given and then what *)
(* the bus tells about it, through a bounded channel, to the client.       *)
(* Submission is reduced to the creation of the task: who it is assigned   *)
(* to is the business of Nexus.                                            *)
(***************************************************************************)
EXTENDS TaskEvents

CONSTANT ChannelCapacity    \* STREAM_CHANNEL_CAPACITY

ASSUME StreamAssumption == ChannelCapacity \in Nat \ {0}

Streams == Receivers

VARIABLES pc,        \* where the handler and then the loop of a stream is
          follows,   \* the task of a stream
          held,      \* what the loop has in hand to send
          pipe,      \* the mpsc channel
          view,      \* what the client knows of the task
          hungUp,    \* the client has dropped the stream
          gap,       \* history: length of the log at the fetch and at the subscription
          lost       \* history: the receiver of the stream has lagged

streamVars == <<pc, follows, held, pipe, view, hungUp, gap, lost>>

vars == <<eventVars, cursor, streamVars>>

(***************************************************************************)
(* What travels to the client.  "at" is history: the length of the log     *)
(* whose effect the message tells.                                         *)
(***************************************************************************)
TaskMessage(t, at) ==
  [kind |-> "task", state |-> StateOf(t), artifacts |-> tasks[t].artifacts, at |-> at]

StatusMessage(e, at) == [kind |-> "status", state |-> e.new, at |-> at]

ArtifactMessage(e, at) == [kind |-> "artifact", number |-> e.artifact, at |-> at]

NoMessage == [kind |-> "none"]

\* The client's view after message m.
Told(v, m) ==
  [state     |-> IF m.kind = "artifact" THEN v.state ELSE m.state,
   artifacts |-> IF m.kind = "task" THEN 1 .. m.artifacts
                 ELSE v.artifacts \cup {m.number : k \in {"artifact"} \cap {m.kind}},
   at        |-> m.at]

Blind == [state |-> "Unborn", artifacts |-> {}, at |-> 0]

StreamAt == {"idle", "fetched", "recv", "refresh", "send", "ended"}

TypeOK ==
  /\ TaskTypeOK
  /\ cursor \in [Streams -> {Unsubscribed} \cup 0 .. Len(log)]
  /\ pc \in [Streams -> StreamAt]
  /\ follows \in [Streams -> TaskIds]
  /\ \A s \in Streams : Len(pipe[s]) <= ChannelCapacity
  /\ \A s \in Streams : cursor[s] = Unsubscribed <=> pc[s] \in {"idle", "fetched"}

Init ==
  /\ TaskEventsInit
  /\ pc = [s \in Streams |-> "idle"]
  /\ follows \in [Streams -> TaskIds]
  /\ held = [s \in Streams |-> NoMessage]
  /\ pipe = [s \in Streams |-> <<>>]
  /\ view = [s \in Streams |-> Blind]
  /\ hungUp = [s \in Streams |-> FALSE]
  /\ gap = [s \in Streams |-> [from |-> 0, to |-> 0]]
  /\ lost = [s \in Streams |-> FALSE]

-----------------------------------------------------------------------------
(* The handlers *)

\* send_streaming_message: the task is created and returned.
SubmitTask(s) ==
  LET t == follows[s]
  IN  /\ pc[s] = "idle"
      /\ Create(t)
      /\ pc' = [pc EXCEPT ![s] = "fetched"]
      /\ held' = [held EXCEPT ![s] = [kind |-> "task", state |-> "Submitted",
                                      artifacts |-> 0, at |-> Len(log) + 1]]
      /\ gap' = [gap EXCEPT ![s].from = Len(log) + 1]
      /\ UNCHANGED <<cursor, follows, pipe, view, hungUp, lost>>

StreamStep == NothingHappens /\ UNCHANGED follows

\* subscribe_to_task: the task is read.
FetchTask(s) ==
  /\ pc[s] = "idle"
  /\ follows[s] \in Born
  /\ pc' = [pc EXCEPT ![s] = "fetched"]
  /\ held' = [held EXCEPT ![s] = TaskMessage(follows[s], Len(log))]
  /\ gap' = [gap EXCEPT ![s].from = Len(log)]
  /\ StreamStep
  /\ UNCHANGED <<cursor, pipe, view, hungUp, lost>>

\* spawn_task_stream: the loop starts with the task in hand.
OpenStream(s) ==
  /\ pc[s] = "fetched"
  /\ Subscribe(s)
  /\ pc' = [pc EXCEPT ![s] = "send"]
  /\ gap' = [gap EXCEPT ![s].to = Len(log)]
  /\ StreamStep
  /\ UNCHANGED <<held, pipe, view, hungUp, lost>>

-----------------------------------------------------------------------------
(* The loop *)

\* recv, and task_event_to_stream_response where it needs nothing else.  The
\* creation of the followed task is always behind the cursor.
TakeEvent(s) ==
  LET e == NextEvent(s)
  IN  /\ pc[s] = "recv"
      /\ Recv(s)
      /\ \/ /\ ~IsAbout(e, follows[s])
            /\ UNCHANGED <<pc, held>>
         \/ /\ IsAbout(e, follows[s])
            /\ e.type = "TaskStatusChanged"
            /\ held' = [held EXCEPT ![s] = StatusMessage(e, cursor'[s])]
            /\ pc' = [pc EXCEPT ![s] = "send"]
         \/ /\ IsAbout(e, follows[s])
            /\ e.type = "TaskArtifactAdded"
            /\ held' = [held EXCEPT ![s] = ArtifactMessage(e, cursor'[s])]
            /\ pc' = [pc EXCEPT ![s] = "refresh"]
      /\ StreamStep
      /\ UNCHANGED <<pipe, view, hungUp, gap, lost>>

\* Mutant: the refreshed task is sent instead of the artifact.
RefreshSendsTask(s) ==
  /\ pc[s] = "refresh"
  /\ held' = [held EXCEPT ![s] = TaskMessage(follows[s], Len(log))]
  /\ pc' = [pc EXCEPT ![s] = "send"]
  /\ StreamStep
  /\ UNCHANGED <<cursor, pipe, view, hungUp, gap, lost>>

\* Mutant: the artifact is looked up in the task of the stream's start.
RefreshFromCache(s) ==
  /\ pc[s] = "refresh"
  /\ IF held[s].number \in view[s].artifacts
     THEN /\ pc' = [pc EXCEPT ![s] = "send"]
          /\ UNCHANGED held
     ELSE /\ pc' = [pc EXCEPT ![s] = "recv"]
          /\ held' = [held EXCEPT ![s] = NoMessage]
  /\ StreamStep
  /\ UNCHANGED <<cursor, pipe, view, hungUp, gap, lost>>

\* The body of an artifact comes from the task as it is by now.
Refresh(s) ==
  /\ pc[s] = "refresh"
  /\ IF held[s].number \in 1 .. tasks[follows[s]].artifacts
     THEN /\ pc' = [pc EXCEPT ![s] = "send"]
          /\ UNCHANGED held
     ELSE /\ pc' = [pc EXCEPT ![s] = "recv"]
          /\ held' = [held EXCEPT ![s] = NoMessage]
  /\ StreamStep
  /\ UNCHANGED <<cursor, pipe, view, hungUp, gap, lost>>

\* Mutant: the loop goes on without having moved forward.
SkipNothing(s) ==
  /\ pc[s] = "recv"
  /\ Lagging(s)
  /\ lost' = [lost EXCEPT ![s] = TRUE]
  /\ StreamStep
  /\ UNCHANGED <<cursor, pc, held, pipe, view, hungUp, gap>>

\* recv reports a lag: it is logged, and the client is told nothing.
SkipLost(s) ==
  /\ pc[s] = "recv"
  /\ RecvLagged(s)
  /\ lost' = [lost EXCEPT ![s] = TRUE]
  /\ StreamStep
  /\ UNCHANGED <<pc, held, pipe, view, hungUp, gap>>

\* tx.send waits for room, and fails when the client is gone.
SendMessage(s) ==
  /\ pc[s] = "send"
  /\ \/ /\ hungUp[s]
        /\ pc' = [pc EXCEPT ![s] = "ended"]
        /\ UNCHANGED pipe
     \/ /\ ~hungUp[s]
        /\ Len(pipe[s]) < ChannelCapacity
        /\ pipe' = [pipe EXCEPT ![s] = Append(@, held[s])]
        /\ pc' = [pc EXCEPT ![s] = "recv"]
  /\ held' = [held EXCEPT ![s] = NoMessage]
  /\ StreamStep
  /\ UNCHANGED <<cursor, view, hungUp, gap, lost>>

-----------------------------------------------------------------------------
(* The client *)

Receive(s) ==
  /\ ~hungUp[s]
  /\ pipe[s] # <<>>
  /\ view' = [view EXCEPT ![s] = Told(@, Head(pipe[s]))]
  /\ pipe' = [pipe EXCEPT ![s] = Tail(@)]
  /\ StreamStep
  /\ UNCHANGED <<cursor, pc, held, hungUp, gap, lost>>

HangUp(s) ==
  /\ pc[s] \in {"recv", "refresh", "send"}
  /\ ~hungUp[s]
  /\ hungUp' = [hungUp EXCEPT ![s] = TRUE]
  /\ pipe' = [pipe EXCEPT ![s] = <<>>]
  /\ StreamStep
  /\ UNCHANGED <<cursor, pc, held, view, gap, lost>>

-----------------------------------------------------------------------------

LoopStep(s) ==
  TakeEvent(s) \/ Refresh(s) \/ SkipLost(s) \/ SendMessage(s)

Next ==
  \/ SomethingHappens /\ UNCHANGED <<cursor, streamVars>>
  \/ \E s \in Streams :
       \/ SubmitTask(s)
       \/ FetchTask(s)
       \/ OpenStream(s)
       \/ LoopStep(s)
       \/ Receive(s)
       \/ HangUp(s)

Spec == Init /\ [][Next]_vars

\* The loop runs on, and a client that has not hung up reads.
Fairness == \A s \in Streams : WF_vars(LoopStep(s)) /\ WF_vars(Receive(s))

FairSpec == Spec /\ Fairness

-----------------------------------------------------------------------------
(* Properties *)

(***************************************************************************)
(* What a client is told never goes back in time, although the body of an  *)
(* artifact is read from a task that may have moved on since its event     *)
(* (service.rs, spawn_task_stream).                                        *)
(***************************************************************************)
StreamNeverGoesBack ==
  [][\A s \in Streams : view'[s].at >= view[s].at]_vars

\* The loop and the client of the stream have nothing left to do.
CaughtUp(s) ==
  /\ pc[s] = "recv"
  /\ cursor[s] = Len(log)
  /\ pipe[s] = <<>>
  /\ ~hungUp[s]

Current(s) ==
  /\ view[s].state = StateOf(follows[s])
  /\ view[s].artifacts = 1 .. tasks[follows[s]].artifacts

\* Something happened to the task between the fetch and the subscription.
MissedAtStart(s) ==
  \E i \in gap[s].from + 1 .. gap[s].to : IsAbout(log[i], follows[s])

(***************************************************************************)
(* A client that has read everything knows the task as it is, unless its   *)
(* receiver lagged or the task changed between the fetch and the           *)
(* subscription: those are the only two ways to lose an update (service.rs *)
(* spawn_task_stream, convert.rs task_event_to_stream_response).           *)
(***************************************************************************)
OnlyGapAndLagLose ==
  \A s \in Streams : CaughtUp(s) => Current(s) \/ MissedAtStart(s) \/ lost[s]

(***************************************************************************)
(* An open stream whose client keeps reading catches up with the bus, also *)
(* after it lagged, and one whose client left ends or waits for an event   *)
(* (service.rs, the receive loop).                                         *)
(***************************************************************************)
StreamCatchesUp ==
  \A s \in Streams :
    (pc[s] = "send") ~> (CaughtUp(s) \/ hungUp[s] \/ pc[s] = "ended")

-----------------------------------------------------------------------------
(* A claim of the source that the code does not keep *)

(***************************************************************************)
(* "Emit initial task snapshot so the client never misses state"           *)
(* (service.rs): a client whose receiver has not lagged and that has read  *)
(* everything knows the task as it is.                                     *)
(***************************************************************************)
ClientMissesNothing ==
  \A s \in Streams : CaughtUp(s) => Current(s) \/ lost[s]

=============================================================================
