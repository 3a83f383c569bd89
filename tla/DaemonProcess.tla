--------------------------- MODULE DaemonProcess ---------------------------
(***************************************************************************)
(* Processes of the daemon, the two files by which they are found, and the *)
(* commands that start and stop them (daemon/mod.rs, cli/start.rs,         *)
(* cli/stop.rs, cli/serve.rs, server/mod.rs).                              *)
(*                                                                         *)
(* A process id stands for the process, its socket inode and the number in *)
(* the PID file.  What a daemon holds is the set of items it acknowledged  *)
(* to clients.  A save is one step here with all its outcomes: done,       *)
(* failed, or cut short, which leaves a file that refuses the next start   *)
(* (Persistence and Boot have its steps).  The shutdown joins neither the  *)
(* snapshot timer nor a server it has given up, so a save or a request may *)
(* come after the final save, until the process is gone.                   *)
(***************************************************************************)
EXTENDS Naturals, FiniteSets

CONSTANTS Daemons,      \* process ids, each used once
          NoDaemon,
          Shells,       \* terminals, each with one command at a time
          Items,        \* what clients may store
          MaxPolls,     \* MAX_POLLS of start and of stop
          MaxServes,    \* bound: daemons started by `trumpet serve`
          MaxStops,     \* bound: `trumpet stop` commands
          MaxCrashes,   \* bound: daemons that are killed
          MaxErrors,    \* bound: I/O errors of daemons
          Noise         \* what is in a snapshot that was cut short

ASSUME DaemonAssumption ==
  /\ NoDaemon \notin Daemons
  /\ {MaxPolls, MaxServes, MaxStops, MaxCrashes, MaxErrors} \subseteq Nat
  /\ Noise \notin Items

VARIABLES phase,        \* how far serve_with_shutdown of a process has come
          cancelled,    \* its CancellationToken
          stream,       \* a client holds an event stream open
          memory,       \* what it holds
          disk,         \* snapshot.enc
          secrets,      \* token and key: none yet, whole, or one of them cut short
          socket,       \* whose socket the socket path is
          pidFile,      \* whose number the PID file holds
          shell,        \* the commands
          bound,        \* counters of the bounds
          acked,        \* history: what was acknowledged to clients
          risked,       \* history: ... and whose saving was missed or went wrong
          disturbed     \* history: daemons that met another one or its stop

\* No start can read it.
Torn == {Noise}

stored == <<disk, secrets>>

files == <<stored, socket, pidFile>>

history == <<acked, risked>>

vars == <<phase, cancelled, stream, memory, files, shell, bound, history, disturbed>>

Starting == {"boot", "cleared", "bound", "named"}

\* Of the starts that end early: bind met a socket, a file could not be
\* understood, or an operation on a file reported an error.
Gone == {"ended", "failed", "refused", "erred", "killed"}

Phase == {"unborn", "up", "draining", "saved", "unlinked"} \cup Starting \cup Gone

Alive(p) == phase[p] \notin {"unborn"} \cup Gone

Listening(p) == phase[p] \in {"bound", "named", "up"}

\* is_daemon_running: a connection to the socket path is accepted.
Running == socket # NoDaemon /\ Listening(socket)

Idle == [does |-> "nothing", target |-> NoDaemon, polls |-> 0]

Does(s, what) == shell[s].does = what

Stopping == {"kill", "await", "unname", "unlink", "forget", "discard"}

TypeOK ==
  /\ phase \in [Daemons -> Phase]
  /\ cancelled \in [Daemons -> BOOLEAN]
  /\ stream \in [Daemons -> BOOLEAN]
  /\ memory \in [Daemons -> SUBSET Items]
  /\ disk \in (SUBSET Items) \cup {Torn}
  /\ secrets \in {"none", "cut", "whole"}
  /\ {socket, pidFile} \subseteq Daemons \cup {NoDaemon}
  /\ shell \in [Shells -> [does : {"nothing", "spawn", "poll"} \cup Stopping,
                           target : Daemons \cup {NoDaemon}, polls : 0 .. MaxPolls]]
  /\ \A s \in Shells : shell[s].target # NoDaemon => shell[s].does \in Stopping
  /\ acked \subseteq Items
  /\ risked \subseteq acked
  /\ disturbed \subseteq Daemons
  /\ \A p \in Daemons : stream[p] => phase[p] \in {"up", "draining"}

Init ==
  /\ phase = [p \in Daemons |-> "unborn"]
  /\ cancelled = [p \in Daemons |-> FALSE]
  /\ stream = [p \in Daemons |-> FALSE]
  /\ memory = [p \in Daemons |-> {}]
  /\ disk = {}
  /\ secrets = "none"
  /\ socket = NoDaemon
  /\ pidFile = NoDaemon
  /\ shell = [s \in Shells |-> Idle]
  /\ bound = [serves |-> 0, stops |-> 0, crashes |-> 0, errors |-> 0]
  /\ acked = {}
  /\ risked = {}
  /\ disturbed = {}

Goes(p, to) == phase' = [phase EXCEPT ![p] = to]

IOError ==
  /\ bound.errors < MaxErrors
  /\ bound' = [bound EXCEPT !.errors = @ + 1]

\* A first start that ends here may leave its token or its key half written.
\* (auth rotate may mend the token; Boot has that.)
MayCut(p) ==
  secrets' \in IF secrets = "none" /\ phase[p] \in {"bound", "named"}
               THEN {"none", "cut"} ELSE {secrets}

Readable == disk # Torn /\ secrets # "cut"

-----------------------------------------------------------------------------
(* serve_with_shutdown: start *)

\* Mutant: nothing is removed.
ClearSocketNever(p) ==
  /\ phase[p] = "boot"
  /\ Goes(p, "cleared")
  /\ UNCHANGED <<cancelled, stream, memory, files, shell, bound, history>>

\* The file at the socket path is removed, whatever it is.
ClearSocket(p) ==
  /\ phase[p] = "boot"
  /\ Goes(p, "cleared")
  /\ socket' = NoDaemon
  /\ UNCHANGED <<cancelled, stream, memory, stored, pidFile, shell, bound, history>>

\* bind fails if there is a file at the path; from here on clients connect.
Bind(p) ==
  /\ phase[p] = "cleared"
  /\ \/ /\ socket = NoDaemon
        /\ socket' = p
        /\ Goes(p, "bound")
     \/ /\ socket # NoDaemon
        /\ Goes(p, "failed")
        /\ UNCHANGED socket
  /\ UNCHANGED <<cancelled, stream, memory, stored, pidFile, shell, bound, history>>

\* Mutant: a PID file that is there already is left alone.
WritePidIfAbsent(p) ==
  /\ phase[p] = "bound"
  /\ pidFile' = IF pidFile = NoDaemon THEN p ELSE pidFile
  /\ Goes(p, "named")
  /\ UNCHANGED <<cancelled, stream, memory, stored, socket, shell, bound, history>>

WritePid(p) ==
  /\ phase[p] = "bound"
  /\ pidFile' = p
  /\ Goes(p, "named")
  /\ UNCHANGED <<cancelled, stream, memory, stored, socket, shell, bound, history>>

\* Mutant: a signal that came before the server listens for it is lost.
LoadForgetsSignal(p) ==
  /\ phase[p] = "named"
  /\ Readable
  /\ memory' = [memory EXCEPT ![p] = disk]
  /\ cancelled' = [cancelled EXCEPT ![p] = FALSE]
  /\ secrets' = "whole"
  /\ Goes(p, "up")
  /\ UNCHANGED <<stream, disk, socket, pidFile, shell, bound, history>>

\* The snapshot is restored and the server begins to accept.
Load(p) ==
  /\ phase[p] = "named"
  /\ Readable
  /\ memory' = [memory EXCEPT ![p] = disk]
  /\ secrets' = "whole"
  /\ Goes(p, "up")
  /\ UNCHANGED <<cancelled, stream, disk, socket, pidFile, shell, bound, history>>

\* A token, a key or a snapshot that is cut short, or that another process is
\* writing at this moment: the start returns an error and cleans up nothing.
Refuse(p) ==
  /\ phase[p] \in {"bound", "named"}
  /\ secrets = "cut" \/ (phase[p] = "named" /\ disk = Torn) \/ \E q \in Daemons \ {p} : Alive(q)
  /\ Goes(p, "refused")
  /\ UNCHANGED <<cancelled, stream, memory, files, shell, bound, history>>

\* So does an I/O error, which may leave the PID file empty or written.
Err(p) ==
  /\ phase[p] \in Starting
  /\ IOError
  /\ Goes(p, "erred")
  /\ MayCut(p)
  /\ pidFile' \in IF phase[p] = "bound" THEN {pidFile, NoDaemon, p} ELSE {pidFile}
  /\ UNCHANGED <<cancelled, stream, memory, disk, socket, shell, history>>

-----------------------------------------------------------------------------
(* What clients do *)

\* A client that connected to p stores an item, also while p drains, and by a
\* server that was given up also after the final save.
Acknowledge(p) ==
  /\ phase[p] \in {"up", "draining", "saved", "unlinked"}
  /\ \E i \in Items \ acked :
       /\ memory' = [memory EXCEPT ![p] = @ \cup {i}]
       /\ acked' = acked \cup {i}
       /\ risked' = IF phase[p] \in {"up", "draining"} THEN risked ELSE risked \cup {i}
  /\ UNCHANGED <<phase, cancelled, stream, files, shell, bound>>

OpenStream(p) ==
  /\ phase[p] = "up"
  /\ socket = p
  /\ ~stream[p]
  /\ stream' = [stream EXCEPT ![p] = TRUE]
  /\ UNCHANGED <<phase, cancelled, memory, files, shell, bound, history>>

CloseStream(p) ==
  /\ stream[p]
  /\ stream' = [stream EXCEPT ![p] = FALSE]
  /\ UNCHANGED <<phase, cancelled, memory, files, shell, bound, history>>

-----------------------------------------------------------------------------
(* serve_with_shutdown: the snapshot timer and the end *)

PeriodicSave(p) ==
  /\ phase[p] \in {"up", "draining"}
  /\ \/ disk' = memory[p] /\ UNCHANGED bound
     \/ disk' \in {disk, Torn} /\ IOError
  /\ UNCHANGED <<phase, cancelled, stream, memory, secrets, socket, pidFile, shell, history>>

\* A save the timer had begun before it was aborted, of an earlier state,
\* overtakes the final one, or does not get to its end.
LateSave(p) ==
  /\ phase[p] \in {"saved", "unlinked"}
  /\ disk' \in (SUBSET memory[p]) \cup {Torn}
  /\ risked' = acked
  /\ UNCHANGED <<phase, cancelled, stream, memory, secrets, socket, pidFile, shell, bound, acked>>

\* axum drops the listener as soon as the token is cancelled.
Drain(p) ==
  /\ phase[p] = "up"
  /\ cancelled[p]
  /\ Goes(p, "draining")
  /\ UNCHANGED <<cancelled, stream, memory, files, shell, bound, history>>

\* Mutant: the state is saved when the signal comes, not when it is drained.
FinalSaveStale(p) ==
  /\ phase[p] = "draining"
  /\ ~stream[p]
  /\ Goes(p, "saved")
  /\ UNCHANGED <<cancelled, stream, memory, files, shell, bound, history>>

\* It waits until every connection has ended, without a limit, and saves.  An
\* error is logged, and the daemon goes on to its end.
FinalSave(p) ==
  /\ phase[p] = "draining"
  /\ ~stream[p]
  /\ \/ disk' = memory[p] /\ UNCHANGED <<bound, risked>>
     \/ disk' \in {disk, Torn} /\ IOError /\ risked' = acked
  /\ Goes(p, "saved")
  /\ UNCHANGED <<cancelled, stream, memory, secrets, socket, pidFile, shell, acked>>

\* The file at the socket path is removed, then the PID file, whosever, and
\* errors are ignored.
UnlinkSocket(p) ==
  /\ phase[p] = "saved"
  /\ \/ socket' = NoDaemon /\ UNCHANGED bound
     \/ IOError /\ UNCHANGED socket
  /\ Goes(p, "unlinked")
  /\ UNCHANGED <<cancelled, stream, memory, stored, pidFile, shell, history>>

UnlinkPid(p) ==
  /\ phase[p] = "unlinked"
  /\ \/ pidFile' = NoDaemon /\ UNCHANGED bound
     \/ IOError /\ UNCHANGED pidFile
  /\ Goes(p, "ended")
  /\ memory' = [memory EXCEPT ![p] = {}]
  /\ UNCHANGED <<cancelled, stream, stored, socket, shell, history>>

\* What it has not saved is lost, and the file it is writing torn.
Crash(p) ==
  /\ Alive(p)
  /\ bound.crashes < MaxCrashes
  /\ bound' = [bound EXCEPT !.crashes = @ + 1]
  /\ Goes(p, "killed")
  /\ stream' = [stream EXCEPT ![p] = FALSE]
  /\ memory' = [memory EXCEPT ![p] = {}]
  /\ MayCut(p)
  /\ IF phase[p] \in {"up", "draining"}
     THEN disk' \in {disk, Torn} /\ risked' = acked
     ELSE UNCHANGED <<disk, risked>>
  /\ UNCHANGED <<cancelled, socket, pidFile, shell, acked>>

-----------------------------------------------------------------------------
(* trumpet serve and trumpet start *)

Spawn(p) == phase[p] = "unborn" /\ Goes(p, "boot")

Serve(p) ==
  /\ bound.serves < MaxServes
  /\ bound' = [bound EXCEPT !.serves = @ + 1]
  /\ Spawn(p)
  /\ UNCHANGED <<cancelled, stream, memory, files, shell, history>>

Turns(s, to) == shell' = [shell EXCEPT ![s] = to]

Returns(s) == Turns(s, Idle)

ShellStep == UNCHANGED <<stream, memory, disk, history>>

\* run_start when nothing answers; when something does it only reports that.
StartCheck(s) ==
  /\ Does(s, "nothing")
  /\ ~Running
  /\ Turns(s, [Idle EXCEPT !.does = "spawn"])
  /\ ShellStep
  /\ UNCHANGED <<phase, cancelled, secrets, socket, pidFile, bound>>

StartSpawn(s) ==
  /\ Does(s, "spawn")
  /\ \E p \in Daemons : Spawn(p)
  /\ Turns(s, [Idle EXCEPT !.does = "poll"])
  /\ ShellStep
  /\ UNCHANGED <<cancelled, secrets, socket, pidFile, bound>>

StartPoll(s) ==
  /\ Does(s, "poll")
  /\ IF Running \/ shell[s].polls = MaxPolls
     THEN Returns(s)
     ELSE Turns(s, [shell[s] EXCEPT !.polls = @ + 1])
  /\ ShellStep
  /\ UNCHANGED <<phase, cancelled, secrets, socket, pidFile, bound>>

-----------------------------------------------------------------------------
(* trumpet stop *)

\* Without a PID file it only reports that.
StopRead(s) ==
  /\ Does(s, "nothing")
  /\ bound.stops < MaxStops
  /\ bound' = [bound EXCEPT !.stops = @ + 1]
  /\ pidFile # NoDaemon
  /\ Turns(s, [does |-> "kill", target |-> pidFile, polls |-> 0])
  /\ ShellStep
  /\ UNCHANGED <<phase, cancelled, secrets, socket, pidFile>>

(***************************************************************************)
(* SIGTERM.  A task of its own installs the handler, so a daemon that has  *)
(* just written its PID may not have it yet and is killed.  A process that *)
(* does not exist is ESRCH, and its files are removed.                     *)
(***************************************************************************)
StopKill(s) ==
  LET p == shell[s].target
  IN  /\ Does(s, "kill")
      /\ \/ /\ Alive(p)
            /\ cancelled' = [cancelled EXCEPT ![p] = TRUE]
            /\ Turns(s, [shell[s] EXCEPT !.does = "await"])
            /\ UNCHANGED <<phase, secrets>>
         \/ /\ phase[p] = "named"
            /\ Goes(p, "killed")
            /\ MayCut(p)
            /\ Turns(s, [shell[s] EXCEPT !.does = "await"])
            /\ UNCHANGED cancelled
         \/ /\ ~Alive(p)
            /\ Turns(s, [shell[s] EXCEPT !.does = "forget"])
            /\ UNCHANGED <<phase, cancelled, secrets>>
      /\ ShellStep
      /\ UNCHANGED <<socket, pidFile, bound>>

\* The wait is for the socket to refuse, not for the process to exit.
StopAwait(s) ==
  /\ Does(s, "await")
  /\ \/ /\ ~Running
        /\ Turns(s, [shell[s] EXCEPT !.does = "unname"])
     \/ /\ Running
        /\ shell[s].polls < MaxPolls
        /\ Turns(s, [shell[s] EXCEPT !.polls = @ + 1])
     \/ /\ shell[s].polls = MaxPolls
        /\ Returns(s)
  /\ ShellStep
  /\ UNCHANGED <<phase, cancelled, secrets, socket, pidFile, bound>>

\* "unname" and "unlink" after a wait, "forget" and "discard" after ESRCH.
StopRemovePid(s) ==
  /\ Does(s, "unname") \/ Does(s, "forget")
  /\ pidFile' = NoDaemon
  /\ Turns(s, [shell[s] EXCEPT !.does = IF @ = "unname" THEN "unlink" ELSE "discard"])
  /\ ShellStep
  /\ UNCHANGED <<phase, cancelled, secrets, socket, bound>>

StopRemoveSocket(s) ==
  /\ Does(s, "unlink") \/ Does(s, "discard")
  /\ socket' = NoDaemon
  /\ Returns(s)
  /\ ShellStep
  /\ UNCHANGED <<phase, cancelled, secrets, pidFile, bound>>

-----------------------------------------------------------------------------

DaemonStep(p) ==
  \/ ClearSocket(p) \/ Bind(p) \/ WritePid(p) \/ Load(p) \/ Refuse(p) \/ Err(p)
  \/ Drain(p) \/ FinalSave(p) \/ UnlinkSocket(p) \/ UnlinkPid(p)

\* What may happen to a process, and need not.
Background(p) == PeriodicSave(p) \/ LateSave(p) \/ Crash(p) \/ Serve(p)

CommandStep(s) ==
  \/ StartSpawn(s) \/ StartPoll(s)
  \/ StopKill(s) \/ StopAwait(s) \/ StopRemovePid(s) \/ StopRemoveSocket(s)

ClientStep(p) == Acknowledge(p) \/ OpenStream(p) \/ CloseStream(p)

\* Another process is alive, or a stop of another one has not returned.
Company(p) ==
  \/ \E q \in Daemons \ {p} : Alive(q)
  \/ \E s \in Shells : shell[s].does \in Stopping /\ shell[s].target # p

Witnessed ==
  disturbed' = disturbed \cup {p \in Daemons : Alive(p)' /\ Company(p)'}

Next ==
  \/ \E p \in Daemons : DaemonStep(p) /\ Witnessed
  \/ \E p \in Daemons : ClientStep(p) /\ Witnessed
  \/ \E p \in Daemons : Background(p) /\ Witnessed
  \/ \E s \in Shells : (StartCheck(s) \/ StopRead(s)) /\ Witnessed
  \/ \E s \in Shells : CommandStep(s) /\ Witnessed

Spec == Init /\ [][Next]_vars

\* A process and a command run on; clients may keep their streams.
Fairness ==
  /\ \A p \in Daemons : WF_vars(DaemonStep(p) /\ Witnessed)
  /\ \A s \in Shells : WF_vars(CommandStep(s) /\ Witnessed)

FairSpec == Spec /\ Fairness

-----------------------------------------------------------------------------
(* Properties *)

(***************************************************************************)
(* Whatever a killed daemon has left behind, a daemon that meets no other  *)
(* one is found once it serves: the socket path and the PID file are its   *)
(* own (serve_with_shutdown, write_pid_file).                              *)
(***************************************************************************)
UndisturbedIsFound ==
  \A p \in Daemons \ disturbed :
    phase[p] = "up" => socket = p /\ pidFile = p

(***************************************************************************)
(* As long as no two processes overlap, a daemon that serves holds what    *)
(* was ever acknowledged, also what an earlier one acknowledged while it   *)
(* drained, and what came after a daemon was killed.  Excepted is what was *)
(* acknowledged before a daemon was killed at work, before a final save    *)
(* that failed or was overtaken by the timer's, or after the final save    *)
(* (serve_with_shutdown).                                                  *)
(***************************************************************************)
NothingLostWithoutOverlap ==
  disturbed = {} =>
    \A p \in Daemons : phase[p] = "up" => acked \ risked \subseteq memory[p]

(***************************************************************************)
(* The socket and the PID file of a daemon that was killed, or failed, do  *)
(* not keep the next one down: one that meets no other one and finds no    *)
(* file cut short comes up, unless it is killed or gets an I/O error       *)
(* itself (serve_with_shutdown: the stale socket, bind, write_pid_file).   *)
(***************************************************************************)
UndisturbedComesUp ==
  \A p \in Daemons :
    phase[p] = "boot" /\ Readable ~>
      phase[p] \in {"up", "killed", "erred"} \/ p \in disturbed

(***************************************************************************)
(* A daemon that was told to stop ends, also when it was told before it    *)
(* served, unless a client keeps a stream open (serve_with_shutdown).      *)
(***************************************************************************)
CancelledEnds ==
  \A p \in Daemons : cancelled[p] ~> (~Alive(p) \/ stream[p])

-----------------------------------------------------------------------------
(* A claim of the documents that the code does not keep *)

(***************************************************************************)
(* The state "must survive daemon restarts" (adrs/009): when no daemon is  *)
(* killed, whichever serves holds all that was acknowledged.               *)
(***************************************************************************)
StateSurvivesRestarts ==
  (\A p \in Daemons : phase[p] # "killed") =>
    \A p \in Daemons : phase[p] = "up" => acked \subseteq memory[p]

=============================================================================
