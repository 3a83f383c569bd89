---------------------------- MODULE ToolNotifier ----------------------------
(***************************************************************************)
(* run_tool_notifier (mcp/notifier.rs), one for each MCP client, next to   *)
(* the other feeds of the bus: it tells its client that the list of tools  *)
(* has changed, once for a burst of changes.  The receivers that are not   *)
(* feeds are notifiers.                                                    *)
(***************************************************************************)
EXTENDS EventFeed

CONSTANT ToolKinds      \* ToolRegistered and ToolDeregistered

ASSUME NotifierAssumption == ToolKinds \subseteq Kinds

VARIABLES watch,        \* how far the notifier is
          peerLeft,     \* its MCP client has gone
          begun,        \* history: length of the log when it subscribed
          prompted,     \* history: place in the log of the last notification
          missed        \* history: places lost to a lag outside the window

notifierVars == <<watch, peerLeft, begun, prompted, missed>>

allVars == <<vars, notifierVars>>

Notifiers == Receivers \ Feeds

NotifierTypeOK ==
  /\ TypeOK
  /\ watch \in [Notifiers -> {"new", "idle", "window", "ended"}]
  /\ peerLeft \in [Notifiers -> BOOLEAN]
  /\ begun \in [Notifiers -> 0 .. MaxEvents]
  /\ prompted \in [Notifiers -> 0 .. MaxEvents]
  /\ missed \in [Notifiers -> SUBSET (1 .. MaxEvents)]

NotifierInit ==
  /\ Init
  /\ watch = [m \in Notifiers |-> "new"]
  /\ peerLeft = [m \in Notifiers |-> FALSE]
  /\ begun = [m \in Notifiers |-> 0]
  /\ prompted = [m \in Notifiers |-> 0]
  /\ missed = [m \in Notifiers |-> {}]

-----------------------------------------------------------------------------

IsToolEvent(k) == k \in ToolKinds

\* The client has initialized its session: the notifier subscribes.
StartNotifier(m) ==
  /\ watch[m] = "new"
  /\ Subscribe(m)
  /\ watch' = [watch EXCEPT ![m] = "idle"]
  /\ begun' = [begun EXCEPT ![m] = Len(log)]
  /\ UNCHANGED <<log, feedVars, peerLeft, prompted, missed>>

\* The first change opens the window; other events are passed over.
FirstChange(m) ==
  /\ watch[m] = "idle"
  /\ Recv(m)
  /\ watch' = [watch EXCEPT ![m] = IF IsToolEvent(NextEvent(m)) THEN "window" ELSE "idle"]
  /\ UNCHANGED <<log, feedVars, peerLeft, begun, prompted, missed>>

\* A lag before the first change: the loop goes on as if nothing had happened.
LagOutsideWindow(m) ==
  /\ watch[m] = "idle"
  /\ RecvLagged(m)
  /\ missed' = [missed EXCEPT ![m] = @ \cup (cursor[m] + 1 .. cursor'[m])]
  /\ UNCHANGED <<log, feedVars, watch, peerLeft, begun, prompted>>

\* Until the window has passed everything is drained, and a lag is nothing.
Drain(m) ==
  /\ watch[m] = "window"
  /\ Recv(m) \/ RecvLagged(m)
  /\ UNCHANGED <<log, feedVars, notifierVars>>

\* Mutant: the window is left without its notification when events are waiting.
NotifyIfQuiet(m) ==
  /\ watch[m] = "window"
  /\ watch' = [watch EXCEPT ![m] = IF peerLeft[m] THEN "ended" ELSE "idle"]
  /\ prompted' = IF peerLeft[m] \/ Waiting(m) THEN prompted
                 ELSE [prompted EXCEPT ![m] = cursor[m]]
  /\ UNCHANGED <<log, cursor, feedVars, peerLeft, begun, missed>>

\* The window has passed: one notification, unless the client has gone.
Notify(m) ==
  /\ watch[m] = "window"
  /\ watch' = [watch EXCEPT ![m] = IF peerLeft[m] THEN "ended" ELSE "idle"]
  /\ prompted' = IF peerLeft[m] THEN prompted ELSE [prompted EXCEPT ![m] = cursor[m]]
  /\ UNCHANGED <<log, cursor, feedVars, peerLeft, begun, missed>>

PeerLeaves(m) ==
  /\ watch[m] \in {"idle", "window"}
  /\ ~peerLeft[m]
  /\ peerLeft' = [peerLeft EXCEPT ![m] = TRUE]
  /\ UNCHANGED <<log, cursor, feedVars, watch, begun, prompted, missed>>

-----------------------------------------------------------------------------

\* What the notifier does by itself.
NotifierStep(m) == FirstChange(m) \/ LagOutsideWindow(m) \/ Drain(m) \/ Notify(m)

NotifierNext ==
  \/ Next /\ UNCHANGED notifierVars
  \/ \E m \in Notifiers : StartNotifier(m) \/ PeerLeaves(m) \/ NotifierStep(m)

NotifierSpec == NotifierInit /\ [][NotifierNext]_allVars

\* The tasks of the daemon run on, and the timer of a window fires.
NotifierFairness ==
  /\ Fairness
  /\ \A m \in Notifiers : WF_allVars(NotifierStep(m)) /\ WF_allVars(Notify(m))

FairNotifierSpec == NotifierSpec /\ NotifierFairness

-----------------------------------------------------------------------------
(* Properties *)

(***************************************************************************)
(* Every change of the tools since a client initialized is followed by a   *)
(* notification sent after it, unless the client has gone or the notifier  *)
(* lagged over the change while it waited for a first one, which it does   *)
(* not make good (notifier.rs, the two loops of run_tool_notifier).        *)
(***************************************************************************)
ToolChangesAreTold ==
  \A m \in Notifiers, i \in 1 .. MaxEvents :
    (watch[m] # "new" /\ begun[m] < i /\ i <= Len(log) /\ log[i] \in ToolKinds) ~>
    (prompted[m] >= i \/ i \in missed[m] \/ peerLeft[m])

=============================================================================
