---------------------------- MODULE DaemonProofs -----------------------------
(***************************************************************************)
(* Proofs about DaemonProcess, for any number of processes, terminals and  *)
(* items and any values of the bounds.                                     *)
(***************************************************************************)
EXTENDS DaemonProcess, TLAPS

\* Names of groups, expanded everywhere.
USE DEF Starting, Gone, stored, history

-----------------------------------------------------------------------------
(* Types *)

(***************************************************************************)
(* What a process does keeps the types.                                    *)
(***************************************************************************)
LEMMA ProcessType ==
  ASSUME TypeOK, NEW p \in Daemons, disturbed' \subseteq Daemons,
         DaemonStep(p) \/ ClientStep(p) \/ Background(p)
  PROVE  TypeOK'
<1>1. CASE DaemonStep(p)
  <2>1. /\ shell' = shell /\ acked' = acked /\ stream' = stream /\ cancelled' = cancelled
        /\ risked' \in {risked, acked}
    BY <1>1 DEF DaemonStep, ClearSocket, Bind, WritePid, Load, Drain, FinalSave, UnlinkSocket,
       UnlinkPid, Refuse, Err, IOError, MayCut, files
  <2>2. {socket', pidFile'} \subseteq Daemons \cup {NoDaemon}
    BY <1>1 DEF DaemonStep, ClearSocket, Bind, WritePid, Load, Drain, FinalSave, UnlinkSocket,
       UnlinkPid, Refuse, Err, IOError, MayCut, files, TypeOK
  <2>4. disk' \in (SUBSET Items) \cup {Torn}
    <3>1. disk' \in {disk, Torn, memory[p]}
      BY <1>1 DEF DaemonStep, ClearSocket, Bind, WritePid, Load, Drain, FinalSave, UnlinkSocket,
         UnlinkPid, Refuse, Err, files
    <3>2. memory[p] \in SUBSET Items /\ disk \in (SUBSET Items) \cup {Torn}
      BY DEF TypeOK
    <3> QED
      BY <3>1, <3>2
  <2>6. memory' \in [Daemons -> SUBSET Items]
    <3>1. CASE Load(p)
      <4>1. disk \in SUBSET Items
        BY <3>1 DEF Load, Readable, TypeOK
      <4> QED
        BY <3>1, <4>1 DEF Load, TypeOK
    <3>2. CASE ~Load(p)
      BY <1>1, <3>2 DEF DaemonStep, ClearSocket, Bind, WritePid, Drain, FinalSave, UnlinkSocket,
         UnlinkPid, Refuse, Err, TypeOK
    <3> QED
      BY <3>1, <3>2
  <2>5. secrets' \in {"none", "cut", "whole"}
    BY <1>1 DEF DaemonStep, ClearSocket, Bind, WritePid, Load, Drain, FinalSave, UnlinkSocket,
       UnlinkPid, Refuse, Err, IOError, MayCut, files, TypeOK
  <2>3. /\ phase' \in [Daemons -> Phase]
        /\ \A q \in Daemons : stream'[q] => phase'[q] \in {"up", "draining"}
    BY <1>1, <2>1 DEF DaemonStep, ClearSocket, Bind, WritePid, Load, Drain, FinalSave, UnlinkSocket,
       UnlinkPid, Refuse, Err, IOError, MayCut, Goes, Phase, TypeOK
  <2> QED
    BY <2>1, <2>2, <2>3, <2>4, <2>5, <2>6 DEF TypeOK
<1>2. CASE ClientStep(p)
  <2>1. UNCHANGED <<phase, cancelled, shell, disk, secrets, socket, pidFile>>
    BY <1>2 DEF ClientStep, Acknowledge, OpenStream, CloseStream, files
  <2>2. memory' \in [Daemons -> SUBSET Items] /\ acked' \subseteq Items
    BY <1>2 DEF ClientStep, Acknowledge, OpenStream, CloseStream, TypeOK
  <2>4. risked' \subseteq acked'
    BY <1>2 DEF ClientStep, Acknowledge, OpenStream, CloseStream, TypeOK
  <2>3. /\ stream' \in [Daemons -> BOOLEAN]
        /\ \A q \in Daemons : stream'[q] => phase[q] \in {"up", "draining"}
    BY <1>2 DEF ClientStep, Acknowledge, OpenStream, CloseStream, TypeOK
  <2> QED
    BY <2>1, <2>2, <2>3, <2>4 DEF TypeOK
<1>3. CASE Background(p)
  <2>1. /\ UNCHANGED <<cancelled, shell, acked, socket, pidFile>>
        /\ risked' \in {risked, acked}
    BY <1>3 DEF Background, PeriodicSave, LateSave, Crash, Serve, IOError, MayCut, files, TypeOK
  <2>5. memory' \in [Daemons -> SUBSET Items]
    BY <1>3 DEF Background, PeriodicSave, LateSave, Crash, Serve, IOError, MayCut, files, TypeOK
  <2>6. disk' \in (SUBSET Items) \cup {Torn}
    <3>1. disk' \in {disk, Torn} \/ disk' \subseteq memory[p]
      BY <1>3 DEF Background, PeriodicSave, LateSave, Crash, Serve, files
    <3>2. memory[p] \subseteq Items /\ disk \in (SUBSET Items) \cup {Torn}
      BY DEF TypeOK
    <3> QED
      BY <3>1, <3>2
  <2>7. secrets' \in {"none", "cut", "whole"}
    BY <1>3 DEF Background, PeriodicSave, LateSave, Crash, Serve, IOError, MayCut, files, TypeOK
  <2>2. phase' \in [Daemons -> Phase]
    BY <1>3 DEF Background, PeriodicSave, LateSave, Crash, Serve, IOError, MayCut, Spawn, Goes, Phase, TypeOK
  <2>3. stream' \in [Daemons -> BOOLEAN]
    BY <1>3 DEF Background, PeriodicSave, LateSave, Crash, Serve, IOError, MayCut, TypeOK
  <2>4. \A q \in Daemons : stream'[q] => phase'[q] \in {"up", "draining"}
    BY <1>3 DEF Background, PeriodicSave, LateSave, Crash, Serve, IOError, MayCut, Spawn, Goes, TypeOK
  <2> QED
    BY <2>1, <2>2, <2>3, <2>4, <2>5, <2>6, <2>7 DEF TypeOK
<1> QED
  BY <1>1, <1>2, <1>3

\* What one terminal may be at.
Command ==
  [does : {"nothing", "spawn", "poll"} \cup Stopping,
   target : Daemons \cup {NoDaemon}, polls : 0 .. MaxPolls]

(***************************************************************************)
(* What a terminal does keeps the types.                                   *)
(***************************************************************************)
LEMMA CommandType ==
  ASSUME TypeOK, NEW s \in Shells, disturbed' \subseteq Daemons,
         StartCheck(s) \/ StopRead(s) \/ CommandStep(s)
  PROVE  TypeOK'
<1> DEFINE Fine(c) == c \in Command /\ (c.target # NoDaemon => c.does \in Stopping)
<1>1. /\ shell \in [Shells -> Command] /\ Fine(shell[s]) /\ MaxPolls \in Nat
      /\ phase \in [Daemons -> Phase] /\ pidFile \in Daemons \cup {NoDaemon}
  BY DaemonAssumption DEF TypeOK, Command
<1>2. Fine(Idle) /\ Fine([Idle EXCEPT !.does = "spawn"]) /\ Fine([Idle EXCEPT !.does = "poll"])
  BY <1>1 DEF Idle, Command
<1>3. ASSUME NEW c, Fine(c), Turns(s, c)
      PROVE  shell' \in [Shells -> Command] /\ \A r \in Shells : Fine(shell'[r])
  BY <1>1, <1>3 DEF Turns, TypeOK, Command
<1>4. shell' \in [Shells -> Command] /\ \A r \in Shells : Fine(shell'[r])
  <2>1. CASE StartCheck(s) \/ StartSpawn(s) \/ StopRemoveSocket(s)
    BY <1>2, <1>3, <2>1 DEF StartCheck, StartSpawn, StopRemoveSocket, Returns
  <2>2. CASE StartPoll(s)
    <3>1. CASE Running \/ shell[s].polls = MaxPolls
      BY <1>2, <1>3, <2>2, <3>1 DEF StartPoll, Returns
    <3>2. CASE ~(Running \/ shell[s].polls = MaxPolls)
      <4>1. shell[s].polls + 1 \in 0 .. MaxPolls
        BY <1>1, <3>2 DEF Command
      <4>2. Fine([shell[s] EXCEPT !.polls = @ + 1])
        BY <1>1, <4>1 DEF Command
      <4> QED
        BY <1>3, <2>2, <3>2, <4>2 DEF StartPoll
    <3> QED
      BY <3>1, <3>2
  <2>3. CASE StopRead(s)
    <3>1. Fine([does |-> "kill", target |-> pidFile, polls |-> 0])
      BY <1>1 DEF Command, Stopping
    <3> QED
      BY <1>3, <2>3, <3>1 DEF StopRead
  <2>4. CASE StopKill(s)
    <3>1. Fine([shell[s] EXCEPT !.does = "await"]) /\ Fine([shell[s] EXCEPT !.does = "forget"])
      BY <1>1 DEF Command, Stopping
    <3> QED
      BY <1>3, <2>4, <3>1 DEF StopKill
  <2>5. CASE StopAwait(s)
    <3>1. Fine([shell[s] EXCEPT !.does = "unname"])
      BY <1>1 DEF Command, Stopping
    <3>2. ASSUME shell[s].polls < MaxPolls, Does(s, "await")
          PROVE  Fine([shell[s] EXCEPT !.polls = @ + 1])
      <4>1. shell[s].polls + 1 \in 0 .. MaxPolls
        BY <1>1, <3>2 DEF Command
      <4> QED
        BY <1>1, <3>2, <4>1 DEF Command, Stopping, Does
    <3> QED
      BY <1>2, <1>3, <2>5, <3>1, <3>2 DEF StopAwait, Returns
  <2>6. CASE StopRemovePid(s)
    <3>1. Fine([shell[s] EXCEPT !.does = IF @ = "unname" THEN "unlink" ELSE "discard"])
      BY <1>1 DEF Command, Stopping
    <3> QED
      BY <1>3, <2>6, <3>1 DEF StopRemovePid
  <2> QED
    BY <2>1, <2>2, <2>3, <2>4, <2>5, <2>6 DEF CommandStep
<1>5. UNCHANGED <<stream, memory, disk, acked, risked>> /\ secrets' \in {"none", "cut", "whole"}
  BY DEF StartCheck, StopRead, CommandStep, StartSpawn, StartPoll, StopKill, StopAwait,
     StopRemovePid, StopRemoveSocket, ShellStep, MayCut, TypeOK
<1>6. /\ cancelled' \in [Daemons -> BOOLEAN]
      /\ {socket', pidFile'} \subseteq Daemons \cup {NoDaemon}
  BY DEF StartCheck, StopRead, CommandStep, StartSpawn, StartPoll, StopKill, StopAwait,
     StopRemovePid, StopRemoveSocket, TypeOK
<1>7. /\ phase' \in [Daemons -> Phase]
      /\ \A q \in Daemons : phase[q] \in {"up", "draining"} => phase'[q] = phase[q]
  <2>1. CASE phase' = phase
    BY <1>1, <2>1
  <2>2. ASSUME NEW p \in Daemons, Spawn(p)
        PROVE  <1>7!1 /\ <1>7!2
    BY <1>1, <2>2 DEF Spawn, Goes, Phase
  <2>3. ASSUME NEW p, phase[p] = "named", Goes(p, "killed")
        PROVE  <1>7!1 /\ <1>7!2
    BY <1>1, <2>3 DEF Goes, Phase
  <2> QED
    BY <2>1, <2>2, <2>3 DEF StartCheck, StopRead, CommandStep, StartSpawn, StartPoll, StopKill,
       StopAwait, StopRemovePid, StopRemoveSocket
<1> QED
  BY <1>4, <1>5, <1>6, <1>7 DEF TypeOK, Command

(***************************************************************************)
(* Every step keeps the types.                                             *)
(***************************************************************************)
LEMMA StepType == TypeOK /\ [Next]_vars => TypeOK'
<1> SUFFICES ASSUME TypeOK, [Next]_vars PROVE TypeOK'
  OBVIOUS
<1>1. CASE UNCHANGED vars
  BY <1>1 DEF vars, files, TypeOK
<1>2. CASE Next
  <2>1. disturbed' \subseteq Daemons
    BY <1>2 DEF Next, Witnessed, TypeOK
  <2> QED
    BY <1>2, <2>1, ProcessType, CommandType DEF Next
<1> QED
  BY <1>1, <1>2

-----------------------------------------------------------------------------
(* The inductive invariant *)

\* The history variable has seen every meeting.
Met == \A p \in Daemons : Alive(p) /\ Company(p) => p \in disturbed

\* A process has written no PID file yet, and no stop can name it.
Early == {"unborn", "boot", "cleared", "bound"}

Named ==
  /\ \A s \in Shells : shell[s].does \in Stopping => shell[s].target \in Daemons
  /\ \A p \in Daemons : pidFile = p => phase[p] \notin Early
  /\ \A p \in Daemons, s \in Shells :
       shell[s].does \in Stopping /\ shell[s].target = p => phase[p] \notin Early

\* A daemon that meets no other one owns both files, and its own stop takes
\* them away only when it no longer listens.
OwnsItsFiles ==
  \A p \in Daemons \ disturbed :
    /\ Listening(p) => socket = p
    /\ phase[p] \in {"named", "up"} => pidFile = p
    /\ \A s \in Shells : shell[s].target = p =>
         /\ shell[s].does \in {"unname", "unlink"} => ~Listening(p)
         /\ shell[s].does \in {"forget", "discard"} => ~Alive(p)

\* The snapshot has all that is not risked; a torn one is, when all is risked.
Saved == acked \subseteq risked \/ (disk # Torn /\ acked \ risked \subseteq disk)

\* All that was acknowledged, and is not risked, is in the one process that
\* serves or drains, and on disk when there is none.
Lossless ==
  disturbed = {} =>
    /\ \A p \in Daemons : phase[p] \in {"up", "draining"} => acked \ risked \subseteq memory[p]
    /\ (\A p \in Daemons : phase[p] \notin {"up", "draining"}) => Saved

DaemonInvariant == TypeOK /\ Met /\ Named /\ OwnsItsFiles /\ Lossless

(***************************************************************************)
(* Every step looks round for company.                                     *)
(***************************************************************************)
LEMMA StepsWitness ==
  ASSUME Next
  PROVE  /\ Witnessed /\ Met' /\ disturbed \subseteq disturbed'
         /\ \/ \E p \in Daemons : DaemonStep(p) \/ ClientStep(p) \/ Background(p)
            \/ \E s \in Shells : StartCheck(s) \/ StopRead(s) \/ CommandStep(s)
<1>1. Witnessed
  BY DEF Next
<1>2. Met'
  BY <1>1 DEF Witnessed, Met
<1> QED
  BY <1>1, <1>2 DEF Next, Witnessed

(***************************************************************************)
(* What a process does changes no other one, and it is alive, or is born.  *)
(***************************************************************************)
LEMMA StepsOfProcesses ==
  ASSUME TypeOK, NEW p \in Daemons,
         DaemonStep(p) \/ ClientStep(p) \/ Background(p)
  PROVE  /\ shell' = shell
         /\ \A q \in Daemons \ {p} : phase'[q] = phase[q] /\ memory'[q] = memory[q]
         /\ Alive(p) \/ (Alive(p)' /\ phase[p] = "unborn" /\ UNCHANGED <<memory, disk, history>>)
         /\ phase[p] \notin Early => phase'[p] \notin Early
<1>1. CASE DaemonStep(p)
  BY <1>1 DEF DaemonStep, ClearSocket, Bind, WritePid, Load, Drain, FinalSave, UnlinkSocket,
     UnlinkPid, Refuse, Err, IOError, MayCut, Goes, Alive, Early, TypeOK
<1>2. CASE ClientStep(p)
  BY <1>2 DEF ClientStep, Acknowledge, OpenStream, CloseStream, Alive, TypeOK
<1>3. CASE Background(p)
  BY <1>3 DEF Background, PeriodicSave, LateSave, Crash, Serve, IOError, MayCut, files, Spawn,
     Goes, Alive, Early, TypeOK
<1> QED
  BY <1>1, <1>2, <1>3

(***************************************************************************)
(* What a terminal does to the processes: it starts one, kills one that is *)
(* not yet ready for the signal, or leaves them all as they are.           *)
(***************************************************************************)
LEMMA StepsOfCommands ==
  ASSUME TypeOK, Named, NEW s \in Shells, StartCheck(s) \/ StopRead(s) \/ CommandStep(s)
  PROVE  /\ \A r \in Shells \ {s} : shell'[r] = shell[r]
         /\ UNCHANGED <<memory, disk, acked, risked>>
         /\ \/ phase' = phase
            \/ \E p \in Daemons : /\ phase[p] = "unborn" /\ Alive(p)'
                                  /\ phase' = [phase EXCEPT ![p] = "boot"]
                                  /\ StartSpawn(s)
            \/ \E p \in Daemons : /\ phase[p] = "named"
                                  /\ phase' = [phase EXCEPT ![p] = "killed"]
                                  /\ StopKill(s)
<1>1. \A r \in Shells \ {s} : shell'[r] = shell[r]
  BY DEF StartCheck, StopRead, CommandStep, StartSpawn, StartPoll, StopKill, StopAwait,
     StopRemovePid, StopRemoveSocket, Turns, Returns, TypeOK
<1>2. UNCHANGED <<memory, disk, acked, risked>>
  BY DEF StartCheck, StopRead, CommandStep, StartSpawn, StartPoll, StopKill, StopAwait,
     StopRemovePid, StopRemoveSocket, ShellStep
<1>3. CASE StartSpawn(s)
  BY <1>1, <1>2, <1>3 DEF StartSpawn, Spawn, Goes, Alive, TypeOK
<1>4. CASE StopKill(s)
  <2>1. shell[s].target \in Daemons
    BY <1>4 DEF StopKill, Does, Named, Stopping
  <2> QED
    BY <1>1, <1>2, <1>4, <2>1 DEF StopKill, Goes
<1> QED
  BY <1>1, <1>2, <1>3, <1>4 DEF StartCheck, StopRead, CommandStep, StartPoll, StopAwait,
     StopRemovePid, StopRemoveSocket

(***************************************************************************)
(* A stop names a process that has written its PID file, and goes on to    *)
(* what its last look allows.                                              *)
(***************************************************************************)
LEMMA CommandNamed ==
  ASSUME TypeOK, Named, NEW s \in Shells, StartCheck(s) \/ StopRead(s) \/ CommandStep(s)
  PROVE  /\ shell'[s].does \in Stopping =>
              \/ shell'[s].target = shell[s].target /\ shell[s].does \in Stopping
              \/ shell'[s].target = pidFile /\ pidFile \in Daemons /\ shell'[s].does = "kill"
         /\ pidFile' = pidFile \/ pidFile' = NoDaemon
<1> DEFINE c == shell[s]
<1>0. /\ DOMAIN shell = Shells /\ c \in Command /\ pidFile \in Daemons \cup {NoDaemon}
  BY DEF TypeOK, Command, Stopping
<1>1. CASE StartCheck(s) \/ StartSpawn(s) \/ StopRemoveSocket(s)
  BY <1>0, <1>1 DEF StartCheck, StartSpawn, StopRemoveSocket, Turns, Returns, Idle, Stopping
<1>2. CASE StartPoll(s) \/ StopAwait(s)
  BY <1>0, <1>2 DEF StartPoll, StopAwait, Turns, Returns, Idle, Does, Stopping, Command
<1>3. CASE StopRead(s)
  BY <1>0, <1>3 DEF StopRead, Turns
<1>4. CASE StopKill(s) \/ StopRemovePid(s)
  BY <1>0, <1>4 DEF StopKill, StopRemovePid, Turns, Does, Stopping, Command
<1> QED
  BY <1>1, <1>2, <1>3, <1>4 DEF CommandStep

(***************************************************************************)
(* Only processes that are past their PID file are ever named.             *)
(***************************************************************************)
LEMMA StepNamed ==
  ASSUME TypeOK, Named, Next
  PROVE  Named'
<1>0. NoDaemon \notin Daemons
  BY DaemonAssumption
<1>1. ASSUME NEW p \in Daemons,
             DaemonStep(p) \/ ClientStep(p) \/ Background(p)
      PROVE  Named'
  <2>1. /\ shell' = shell
        /\ \A q \in Daemons : phase[q] \notin Early => phase'[q] \notin Early
    BY <1>1, StepsOfProcesses
  <2>2. \/ pidFile' = pidFile \/ pidFile' = NoDaemon
        \/ pidFile' = p /\ phase'[p] \in {"named", "erred"}
    BY <1>1 DEF DaemonStep, ClearSocket, Bind, WritePid, Load, Drain, FinalSave, UnlinkSocket,
       UnlinkPid, Refuse, Err, MayCut, ClientStep, Acknowledge, OpenStream, CloseStream, Background,
       PeriodicSave, LateSave, Crash, Serve, IOError,
       files, Goes, TypeOK
  <2> QED
    BY <1>0, <2>1, <2>2 DEF Named, Early
<1>2. ASSUME NEW s \in Shells, StartCheck(s) \/ StopRead(s) \/ CommandStep(s)
      PROVE  Named'
  <2>1. \A q \in Daemons : phase[q] \notin Early => phase'[q] \notin Early
    BY <1>2, StepsOfCommands DEF Early, TypeOK
  <2> QED
    BY <1>0, <1>2, <2>1, CommandNamed, StepsOfCommands DEF Named
<1> QED
  BY <1>1, <1>2, StepsWitness

(***************************************************************************)
(* A daemon that nobody meets keeps its files while it serves.             *)
(***************************************************************************)
LEMMA StepOwns ==
  ASSUME TypeOK, Met, Named, OwnsItsFiles, Next
  PROVE  OwnsItsFiles'
<1> SUFFICES ASSUME NEW p \in Daemons \ disturbed'
             PROVE  /\ Listening(p)' => socket' = p
                    /\ phase'[p] \in {"named", "up"} => pidFile' = p
                    /\ \A s \in Shells : shell'[s].target = p =>
                         /\ shell'[s].does \in {"unname", "unlink"} => ~Listening(p)'
                         /\ shell'[s].does \in {"forget", "discard"} => ~Alive(p)'
  BY DEF OwnsItsFiles
<1>0. NoDaemon \notin Daemons /\ p \in Daemons \ disturbed
  BY DaemonAssumption, StepsWitness
<1>1. /\ Listening(p) => socket = p
      /\ phase[p] \in {"named", "up"} => pidFile = p
      /\ \A s \in Shells : shell[s].target = p =>
           /\ shell[s].does \in {"unname", "unlink"} => ~Listening(p)
           /\ shell[s].does \in {"forget", "discard"} => ~Alive(p)
  BY <1>0 DEF OwnsItsFiles
<1>2. /\ Alive(p) => ~Company(p)
      /\ Alive(p)' => ~Company(p)'
  BY <1>0, StepsWitness DEF Met
<1>3. ASSUME NEW q \in Daemons, q # p,
             DaemonStep(q) \/ ClientStep(q) \/ Background(q)
      PROVE  ~Alive(p) /\ phase'[p] = phase[p] /\ shell' = shell
  BY <1>2, <1>3, StepsOfProcesses DEF Company, Alive
<1>4. ~Alive(p) => ~Listening(p) /\ phase[p] \notin {"named", "up"}
  BY DEF Alive, Listening
<1>5. ASSUME NEW q \in Daemons, q # p,
             DaemonStep(q) \/ ClientStep(q) \/ Background(q)
      PROVE  /\ ~Listening(p)' /\ phase'[p] \notin {"named", "up"}
             /\ \A s \in Shells : shell'[s].target = p /\ shell'[s].does \in {"forget", "discard"} =>
                  ~Alive(p)'
  BY <1>1, <1>3, <1>4, <1>5 DEF Alive, Listening
<1>6. ASSUME DaemonStep(p) \/ ClientStep(p) \/ Background(p)
      PROVE  /\ Listening(p)' => socket' = p
             /\ phase'[p] \in {"named", "up"} => pidFile' = p
             /\ \A s \in Shells : shell'[s].target = p =>
                  /\ shell'[s].does \in {"unname", "unlink"} => ~Listening(p)'
                  /\ shell'[s].does \in {"forget", "discard"} => ~Alive(p)'
  <2>1. Listening(p)' => socket' = p
    BY <1>1, <1>6 DEF DaemonStep, ClearSocket, Bind, WritePid, Load, Drain, FinalSave, UnlinkSocket,
       UnlinkPid, Refuse, Err, MayCut, ClientStep, Acknowledge, OpenStream, CloseStream, Background,
       PeriodicSave, LateSave, Crash, Serve, IOError,
       Spawn, files, Goes, Listening, TypeOK
  <2>2. phase'[p] \in {"named", "up"} => pidFile' = p
    BY <1>1, <1>6 DEF DaemonStep, ClearSocket, Bind, WritePid, Load, Drain, FinalSave, UnlinkSocket,
       UnlinkPid, Refuse, Err, MayCut, ClientStep, Acknowledge, OpenStream, CloseStream, Background,
       PeriodicSave, LateSave, Crash, Serve, IOError,
       Spawn, files, Goes, TypeOK
  <2>3. shell' = shell
    BY <1>0, <1>6, StepsOfProcesses
  <2>4. ASSUME NEW s \in Shells, shell[s].target = p
        PROVE  /\ shell[s].does \in {"unname", "unlink"} => ~Listening(p)'
               /\ shell[s].does \in {"forget", "discard"} => ~Alive(p)'
    <3>1. shell[s].does \in Stopping => phase[p] \notin Early
      BY <1>0, <2>4 DEF Named
    <3>2. phase[p] \notin Early /\ ~Listening(p) => ~Listening(p)'
      BY <1>6 DEF DaemonStep, ClearSocket, Bind, WritePid, Load, Drain, FinalSave, UnlinkSocket,
       UnlinkPid, Refuse, Err, MayCut, ClientStep, Acknowledge, OpenStream, CloseStream, Background,
       PeriodicSave, LateSave, Crash, Serve, IOError,
       Spawn, Goes, Listening, Early, TypeOK
    <3>3. ~Alive(p) /\ phase[p] \notin Early => ~Alive(p)'
      BY <1>0, <1>6, StepsOfProcesses DEF Early
    <3> QED
      BY <1>1, <2>4, <3>1, <3>2, <3>3 DEF Stopping
  <2> QED
    BY <2>1, <2>2, <2>3, <2>4
<1>7. ASSUME NEW s \in Shells, StartCheck(s) \/ StopRead(s) \/ CommandStep(s)
      PROVE  /\ Listening(p)' => socket' = p
             /\ phase'[p] \in {"named", "up"} => pidFile' = p
             /\ \A r \in Shells : shell'[r].target = p =>
                  /\ shell'[r].does \in {"unname", "unlink"} => ~Listening(p)'
                  /\ shell'[r].does \in {"forget", "discard"} => ~Alive(p)'
  <2>1. CASE ~Alive(p)'
    BY <2>1 DEF Alive, Listening
  <2>2. CASE Alive(p)' /\ ~Alive(p)
    <3>1. phase[p] = "unborn" /\ phase'[p] = "boot" /\ StartSpawn(s)
      BY <1>0, <1>7, <2>2, StepsOfCommands DEF Alive, TypeOK
    <3>2. \A r \in Shells : shell[r].target = p => shell[r].does \notin Stopping
      BY <1>0, <3>1 DEF Named, Early
    <3>3. shell'[s].does = "poll" /\ \A r \in Shells \ {s} : shell'[r] = shell[r]
      BY <1>7, <3>1, StepsOfCommands DEF StartSpawn, Turns, TypeOK
    <3> QED
      BY <3>1, <3>2, <3>3 DEF Listening, Stopping
  <2>3. CASE Alive(p) /\ Alive(p)'
    <3>1. phase'[p] = phase[p]
      BY <1>0, <1>7, <2>3, StepsOfCommands DEF Alive, TypeOK
    <3>2. \A r \in Shells : shell[r].does \in Stopping => shell[r].target = p
      BY <1>2, <2>3 DEF Company
    <3>3. CASE StopRemovePid(s)
      <4>1. ~Listening(p)
        BY <1>1, <2>3, <3>2, <3>3 DEF StopRemovePid, Does, Stopping
      <4>2. shell'[s].does = "unlink" \/ (shell[s].does = "forget" /\ shell[s].target = p)
        BY <3>2, <3>3 DEF StopRemovePid, Turns, Does, Stopping, TypeOK
      <4>3. phase[p] \notin {"named", "up"}
        BY <4>1 DEF Listening
      <4>4. \A r \in Shells \ {s} : shell'[r] = shell[r]
        BY <1>7, StepsOfCommands
      <4> QED
        BY <1>1, <2>3, <3>1, <4>1, <4>2, <4>3, <4>4 DEF Listening
    <3>4. CASE StopRemoveSocket(s)
      <4>1. ~Listening(p)
        BY <1>1, <2>3, <3>2, <3>4 DEF StopRemoveSocket, Does, Stopping
      <4>2. shell'[s] = Idle /\ \A r \in Shells \ {s} : shell'[r] = shell[r]
        BY <1>7, <3>4, StepsOfCommands DEF StopRemoveSocket, Returns, Turns, TypeOK
      <4> QED
        BY <1>1, <2>3, <3>1, <4>1, <4>2 DEF Listening, Idle
    <3>5. CASE StopAwait(s)
      <4>1. Listening(p) => Running
        BY <1>0, <1>1 DEF Running
      <4>2. \/ shell'[s].does = "unname" /\ ~Running
            \/ shell'[s].does \in {"await", "nothing"}
        BY <3>5 DEF StopAwait, Turns, Returns, Idle, Does, TypeOK
      <4>3. socket' = socket /\ pidFile' = pidFile /\ \A r \in Shells \ {s} : shell'[r] = shell[r]
        BY <1>7, <3>5, StepsOfCommands DEF StopAwait
      <4> QED
        BY <1>1, <3>1, <4>1, <4>2, <4>3 DEF Listening, Alive
    <3>6. CASE StopKill(s)
      <4>1. shell[s].target = p /\ shell'[s].does = "await"
        BY <2>3, <3>2, <3>6 DEF StopKill, Turns, Does, Stopping, TypeOK
      <4>2. socket' = socket /\ pidFile' = pidFile /\ \A r \in Shells \ {s} : shell'[r] = shell[r]
        BY <1>7, <3>6, StepsOfCommands DEF StopKill
      <4> QED
        BY <1>1, <3>1, <4>1, <4>2 DEF Listening, Alive
    <3>7. CASE StartCheck(s) \/ StopRead(s) \/ StartSpawn(s) \/ StartPoll(s)
      <4>1. shell'[s].does \in {"spawn", "kill", "poll", "nothing"}
        BY <3>7 DEF StartCheck, StopRead, StartSpawn, StartPoll, Turns, Returns, Idle, Does, TypeOK
      <4>2. socket' = socket /\ pidFile' = pidFile /\ \A r \in Shells \ {s} : shell'[r] = shell[r]
        BY <1>7, <3>7, StepsOfCommands DEF StartCheck, StopRead, StartSpawn, StartPoll
      <4> QED
        BY <1>1, <3>1, <4>1, <4>2 DEF Listening, Alive
    <3> QED
      BY <1>7, <3>3, <3>4, <3>5, <3>6, <3>7 DEF CommandStep
  <2> QED
    BY <2>1, <2>2, <2>3
<1> QED
  BY <1>0, <1>3, <1>5, <1>6, <1>7, StepsWitness DEF Listening

(***************************************************************************)
(* Items move from one process to the disk and on to the next one.         *)
(***************************************************************************)
LEMMA StepLossless ==
  ASSUME TypeOK, Met, Named, Lossless, Next
  PROVE  Lossless'
<1> DEFINE Held(p) ==
      IF phase[p] \in {"up", "draining"} THEN acked \ risked \subseteq memory[p] ELSE Saved
<1> SUFFICES ASSUME disturbed' = {}
             PROVE  /\ \A p \in Daemons : phase'[p] \in {"up", "draining"} =>
                         acked' \ risked' \subseteq memory'[p]
                    /\ (\A p \in Daemons : phase'[p] \notin {"up", "draining"}) => Saved'
  BY DEF Lossless
<1>1. disturbed = {} /\ Met'
  BY StepsWitness
<1>2. \A p, q \in Daemons : Alive(p) /\ Alive(q) => p = q
  BY <1>1 DEF Met, Company
<1>3. \A p, q \in Daemons : Alive(p)' /\ Alive(q)' => p = q
  BY <1>1 DEF Met, Company
<1>4. ASSUME NEW p \in Daemons,
             DaemonStep(p) \/ ClientStep(p) \/ Background(p)
      PROVE  /\ \A q \in Daemons : phase'[q] \in {"up", "draining"} =>
                  acked' \ risked' \subseteq memory'[q]
             /\ (\A q \in Daemons : phase'[q] \notin {"up", "draining"}) => Saved'
  <2>1. /\ \A q \in Daemons \ {p} : phase'[q] = phase[q] /\ memory'[q] = memory[q]
        /\ Alive(p) \/ (Alive(p)' /\ phase[p] = "unborn" /\ UNCHANGED <<memory, disk, history>>)
    BY <1>4, StepsOfProcesses
  <2>2. \A q \in Daemons \ {p} : phase[q] \notin {"up", "draining"}
    BY <1>2, <1>3, <2>1 DEF Alive
  <2>3. Held(p)
    BY <1>1, <2>2 DEF Lossless
  <2>4. Held(p)'
    <3>1. CASE ClearSocket(p) \/ Bind(p) \/ WritePid(p) \/ UnlinkSocket(p) \/ UnlinkPid(p)
      BY <2>3, <3>1 DEF ClearSocket, Bind, WritePid, UnlinkSocket, UnlinkPid, Goes,
         Saved, TypeOK
    <3>2. CASE Load(p)
      BY <2>3, <3>2 DEF Load, Goes, Saved, Readable, TypeOK
    <3>3. CASE Drain(p)
      BY <2>3, <3>3 DEF Drain, Goes, files, Saved, TypeOK
    <3>4. CASE FinalSave(p)
      <4>1. phase[p] = "draining" /\ phase'[p] = "saved" /\ acked' = acked
        BY <3>4 DEF FinalSave, Goes, TypeOK
      <4>2. memory[p] # Torn
        BY DaemonAssumption DEF TypeOK, Torn
      <4> QED
        BY <2>3, <3>4, <4>1, <4>2 DEF FinalSave, Saved
    <3>5. CASE PeriodicSave(p)
      BY <2>3, <3>5 DEF PeriodicSave, TypeOK
    <3>6. CASE LateSave(p)
      BY <3>6 DEF LateSave, Saved
    <3>7. CASE ClientStep(p)
      BY <2>3, <3>7 DEF ClientStep, Acknowledge, OpenStream, CloseStream, files,
         Saved, TypeOK
    <3>8. CASE Crash(p)
      <4>1. phase'[p] = "killed" /\ acked' = acked
        BY <3>8 DEF Crash, Goes, TypeOK
      <4> QED
        BY <2>3, <3>8, <4>1 DEF Crash, Saved
    <3>9. CASE Serve(p) \/ Refuse(p)
      BY <2>3, <3>9 DEF Serve, Spawn, Refuse, Goes, files, Saved, TypeOK
    <3>10. CASE Err(p)
      BY <2>3, <3>10 DEF Err, Goes, Saved, TypeOK
    <3> QED
      BY <1>4, <3>1, <3>2, <3>3, <3>4, <3>5, <3>6, <3>7, <3>8, <3>9, <3>10 DEF DaemonStep, Background
  <2> QED
    BY <2>1, <2>2, <2>4
<1>5. ASSUME NEW s \in Shells, StartCheck(s) \/ StopRead(s) \/ CommandStep(s)
      PROVE  /\ \A q \in Daemons : phase'[q] \in {"up", "draining"} =>
                  acked' \ risked' \subseteq memory'[q]
             /\ (\A q \in Daemons : phase'[q] \notin {"up", "draining"}) => Saved'
  <2>1. /\ \A q \in Daemons : phase'[q] \in {"up", "draining"} <=> phase[q] \in {"up", "draining"}
        /\ UNCHANGED <<memory, disk, acked, risked>>
    BY <1>5, StepsOfCommands DEF TypeOK
  <2> QED
    BY <1>1, <2>1 DEF Lossless, Saved
<1> QED
  BY <1>4, <1>5, StepsWitness

(***************************************************************************)
(* The invariant holds in every reachable state.                           *)
(***************************************************************************)
LEMMA DaemonIsInvariant == Spec => []DaemonInvariant
<1>1. Init => DaemonInvariant
  <2> SUFFICES ASSUME Init PROVE DaemonInvariant
    OBVIOUS
  <2>1. TypeOK
    <3>1. Idle \in Command /\ 0 \in 0 .. MaxPolls
      BY DaemonAssumption DEF Idle, Command
    <3> QED
      BY <3>1 DEF Init, TypeOK, Phase, Command, Idle
  <2>2. Met /\ Named /\ OwnsItsFiles /\ Lossless
    BY DaemonAssumption DEF Init, Met, Named, OwnsItsFiles, Lossless, Saved, Alive,
       Listening, Idle, Stopping
  <2> QED
    BY <2>1, <2>2 DEF DaemonInvariant
<1>2. DaemonInvariant /\ [Next]_vars => DaemonInvariant'
  <2> SUFFICES ASSUME DaemonInvariant, [Next]_vars PROVE DaemonInvariant'
    OBVIOUS
  <2>1. CASE UNCHANGED vars
    BY <2>1, StepType DEF vars, files, DaemonInvariant, Met, Named, OwnsItsFiles, Lossless, Saved,
       Alive, Company, Listening
  <2>2. CASE Next
    BY <2>2, StepType, StepsWitness, StepNamed, StepOwns, StepLossless DEF DaemonInvariant
  <2> QED
    BY <2>1, <2>2
<1> QED
  BY <1>1, <1>2, PTL DEF Spec

-----------------------------------------------------------------------------
(* The theorems *)

(***************************************************************************)
(* For any number of processes, terminals and kills: a daemon that meets   *)
(* no other one owns the socket path and the PID file while it serves      *)
(* (serve_with_shutdown, write_pid_file, cli/stop.rs).                     *)
(***************************************************************************)
THEOREM UndisturbedDaemonIsFound == Spec => []UndisturbedIsFound
<1>1. DaemonInvariant => UndisturbedIsFound
  BY DEF DaemonInvariant, OwnsItsFiles, UndisturbedIsFound, Listening
<1> QED
  BY <1>1, DaemonIsInvariant, PTL

(***************************************************************************)
(* Processes that follow one another without overlap hand on everything    *)
(* that was acknowledged, whatever periodic saves, streams and stops do in *)
(* between.  Excepted is what was acknowledged before a daemon was killed  *)
(* at work or before a final save that failed or was overtaken, and after  *)
(* a final save (serve_with_shutdown, which joins nobody and only logs a   *)
(* failed save).                                                           *)
(***************************************************************************)
THEOREM SuccessorsLoseNothing == Spec => []NothingLostWithoutOverlap
<1>1. DaemonInvariant => NothingLostWithoutOverlap
  BY DEF DaemonInvariant, Lossless, NothingLostWithoutOverlap
<1> QED
  BY <1>1, DaemonIsInvariant, PTL

=============================================================================
