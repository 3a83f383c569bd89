----------------------------- MODULE Broadcast ------------------------------
(***************************************************************************)
(* The channel behind MessageBus (core/bus.rs): tokio::sync::broadcast, as *)
(* this program uses it.  A sender never waits.  A receiver gets the       *)
(* events sent after it subscribed, in order, but the channel keeps only   *)
(* the last Capacity of them: a receiver that falls further behind is told *)
(* once that it lagged and goes on with the oldest event still kept.       *)
(***************************************************************************)
EXTENDS Integers, Sequences

CONSTANTS Receivers,
          Capacity      \* events the channel keeps

ASSUME BroadcastAssumption == Capacity \in Nat \ {0}

VARIABLES log,          \* every event ever sent, oldest first
          cursor        \* events of the log a receiver is done with

Unsubscribed == -1

BroadcastTypeOK(Events) ==
  /\ log \in Seq(Events)
  /\ cursor \in [Receivers -> {Unsubscribed} \cup 0 .. Len(log)]

BroadcastInit ==
  /\ log = <<>>
  /\ cursor = [r \in Receivers |-> Unsubscribed]

Send(e) == log' = Append(log, e)

Subscribe(r) == cursor' = [cursor EXCEPT ![r] = Len(log)]

Waiting(r) == cursor[r] # Unsubscribed /\ cursor[r] < Len(log)

Lagging(r) == cursor[r] # Unsubscribed /\ Len(log) - cursor[r] > Capacity

\* The event the next recv returns, when the receiver is not lagging.
NextEvent(r) == log[cursor[r] + 1]

Recv(r) ==
  /\ Waiting(r)
  /\ ~Lagging(r)
  /\ cursor' = [cursor EXCEPT ![r] = @ + 1]

\* recv returns Lagged(n).
RecvLagged(r) ==
  /\ Lagging(r)
  /\ cursor' = [cursor EXCEPT ![r] = Len(log) - Capacity]

=============================================================================
