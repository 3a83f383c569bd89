------------------------------ MODULE Secrets -------------------------------
(***************************************************************************)
(* The bearer token: its file (server/auth.rs), the copy in the daemon     *)
(* that requests are compared with, `trumpet auth rotate` (cli/auth.rs)    *)
(* and the SIGHUP that makes the daemon read the file again                *)
(* (server/mod.rs).  And the encryption key (state/crypto.rs), which is    *)
(* created in the same way: opened, then written.                          *)
(*                                                                         *)
(* Tokens are numbers, drawn once each.  Processes are numbered, and a     *)
(* number is not used again; the PID file holds one.                       *)
(***************************************************************************)
EXTENDS Naturals

CONSTANTS Rotators,     \* terminals in which `auth rotate` is called
          MaxTokens,    \* bound: tokens ever drawn
          NoFile,       \* no such file
          Started,      \* a file that is created, and nothing or not everything written
          Complete      \* a whole key

ASSUME SecretsAssumption ==
  /\ MaxTokens \in Nat \ {0}
  /\ NoFile \notin 0 .. MaxTokens /\ Started \notin 0 .. MaxTokens
  /\ NoFile # Started /\ Complete \notin {NoFile, Started}

VARIABLES tokenFile,    \* auth.token
          keyFile,      \* key
          slot,         \* TokenSlot of the running daemon
          pidFile,      \* process named by the PID file
          process,      \* number of the last process started
          handler,      \* its SIGHUP handler is installed
          hup,          \* a SIGHUP has been sent to it and not been handled
          rotator,      \* locals of each `auth rotate`
          drawn         \* history: tokens drawn so far

secretVars == <<tokenFile, keyFile, slot, pidFile, process, handler, hup, rotator, drawn>>

NoToken == 0
NoPid   == 0

Token == 1 .. MaxTokens

NotRotating == [at |-> "idle"]

Rotation == [at : {"pid"}, pid : Nat] \cup [at : {"renamed"}, pid : Nat, token : Token]

SecretsTypeOK ==
  /\ tokenFile \in Token \cup {NoFile, Started}
  /\ keyFile \in {NoFile, Started, Complete}
  /\ slot \in Token \cup {NoToken}
  /\ process \in Nat
  /\ pidFile \in 0 .. process
  /\ handler \in BOOLEAN
  /\ hup \in BOOLEAN
  /\ rotator \in [Rotators -> Rotation \cup {NotRotating}]
  /\ drawn \in 0 .. MaxTokens

SecretsInit ==
  /\ tokenFile = NoFile
  /\ keyFile = NoFile
  /\ slot = NoToken
  /\ pidFile = NoPid
  /\ process = 0
  /\ handler = FALSE
  /\ hup = FALSE
  /\ rotator = [r \in Rotators |-> NotRotating]
  /\ drawn = 0

-----------------------------------------------------------------------------
(* load_or_create_token and load_or_create_key *)

\* The file is there and has a token in it.
ReadToken ==
  /\ tokenFile \in Token
  /\ slot' = tokenFile
  /\ UNCHANGED <<tokenFile, keyFile, pidFile, process, handler, hup, rotator, drawn>>

\* There is none: create_new ...
OpenToken ==
  /\ tokenFile = NoFile
  /\ tokenFile' = Started
  /\ UNCHANGED <<keyFile, slot, pidFile, process, handler, hup, rotator, drawn>>

\* ... and write.  A rotation may have put its own file in the place.
WriteToken ==
  /\ drawn < MaxTokens
  /\ drawn' = drawn + 1
  /\ slot' = drawn + 1
  /\ tokenFile' = IF tokenFile = Started THEN drawn + 1 ELSE tokenFile
  /\ UNCHANGED <<keyFile, pidFile, process, handler, hup, rotator>>

OpenKey ==
  /\ keyFile = NoFile
  /\ keyFile' = Started
  /\ UNCHANGED <<tokenFile, slot, pidFile, process, handler, hup, rotator, drawn>>

WriteKey ==
  /\ keyFile' = Complete
  /\ UNCHANGED <<tokenFile, slot, pidFile, process, handler, hup, rotator, drawn>>

-----------------------------------------------------------------------------
(* The handler of SIGHUP *)

InstallHandler ==
  /\ ~handler
  /\ handler' = TRUE
  /\ UNCHANGED <<tokenFile, keyFile, slot, pidFile, process, hup, rotator, drawn>>

\* Mutant: the token read again is not put into the slot.
ReloadNothing ==
  /\ hup /\ handler
  /\ hup' = FALSE
  /\ UNCHANGED <<tokenFile, keyFile, slot, pidFile, process, handler, rotator, drawn>>

\* reload_token.  A file without a token leaves the slot as it was.
Reload ==
  /\ hup /\ handler
  /\ hup' = FALSE
  /\ slot' = IF tokenFile \in Token THEN tokenFile ELSE slot
  /\ UNCHANGED <<tokenFile, keyFile, pidFile, process, handler, rotator, drawn>>

-----------------------------------------------------------------------------
(* trumpet auth rotate *)

\* Without a PID file the command ends here.
RotateReadPid(r) ==
  /\ rotator[r] = NotRotating
  /\ pidFile # NoPid
  /\ drawn < MaxTokens
  /\ rotator' = [rotator EXCEPT ![r] = [at |-> "pid", pid |-> pidFile]]
  /\ UNCHANGED <<tokenFile, keyFile, slot, pidFile, process, handler, hup, drawn>>

\* write_token_atomic: the new token is complete before it has the name.
RotateRename(r) ==
  /\ rotator[r].at = "pid"
  /\ drawn < MaxTokens
  /\ drawn' = drawn + 1
  /\ tokenFile' = drawn + 1
  /\ rotator' = [rotator EXCEPT ![r] = [at |-> "renamed", pid |-> @.pid, token |-> drawn + 1]]
  /\ UNCHANGED <<keyFile, slot, pidFile, process, handler, hup>>

\* kill(pid, SIGHUP): an error, which is reported, when there is no such process.
RotateSignal(r, alive) ==
  /\ rotator[r].at = "renamed"
  /\ hup' = (hup \/ (alive /\ rotator[r].pid = process))
  /\ rotator' = [rotator EXCEPT ![r] = NotRotating]
  /\ UNCHANGED <<tokenFile, keyFile, slot, pidFile, process, handler, drawn>>

=============================================================================
