--------------------------- MODULE Configuration ----------------------------
(***************************************************************************)
(* How a process comes by its configuration (config/loader.rs,             *)
(* config/types.rs, config/validate.rs): the compiled defaults, the file   *)
(* of the user, the file of the project and the environment, one over the  *)
(* other, then the paths that are still the compiled ones are moved under  *)
(* the home directory, then the whole is validated.                        *)
(*                                                                         *)
(* A table is a function from sections to tables of values.  Of each       *)
(* section the keys are kept that a later step reads; WrongType is a value *)
(* of a type the key cannot have.                                          *)
(***************************************************************************)
EXTENDS Naturals

CONSTANTS WrongType,
          Compiled,      \* the compiled value of a path
          UnderHome,     \* ... and where it leads under the home directory
          Upward,        \* a path with .. in it
          NoPath, Cwd,   \* Option::None of a path, the working directory
          LayerChoices   \* bound: the layers a process may find

VARIABLES layers,        \* what the process finds: files and environment
          config         \* Config, or why there is none

Unloaded == [error |-> "Unloaded"]

\* Config::default(); a path is the compiled one or another.
Defaults ==
  [daemon     |-> [socket_path |-> Compiled, pid_file |-> Compiled],
   server     |-> [http_port |-> 7600, grpc_port |-> 7601],
   storage    |-> [path |-> Compiled, snapshot_interval_secs |-> 60],
   logging    |-> [level |-> "info", format |-> "text"],
   agents     |-> [heartbeat_interval_secs |-> 30, timeout_secs |-> 300],
   code_tools |-> [max_file_size_bytes |-> 1048576, max_files_per_page |-> 500,
                   max_search_matches |-> 1000, workspace_root |-> NoPath],
   security   |-> [auth_token_path |-> Compiled]]

Keys == UNION {{<<s, k>> : k \in DOMAIN Defaults[s]} : s \in DOMAIN Defaults}

\* The keys whose compiled value is the compiled path.
PathKeys == {<<"daemon", "socket_path">>, <<"daemon", "pid_file">>, <<"storage", "path">>,
             <<"security", "auth_token_path">>}

\* What the layers say, and what a key of a section may come to by them.
LayerTables == UNION {{l.user.table, l.project.table, l.env} : l \in LayerChoices}

Values(s) ==
  {Defaults[s][k] : k \in DOMAIN Defaults[s]} \cup
  UNION {{t[s][k] : k \in DOMAIN t[s]} : t \in {u \in LayerTables : s \in DOMAIN u /\ u[s] # WrongType}}

\* Only a path is a compiled path, and WrongType is neither a table nor a default.
OnlyPathsAreCompiled(table, s) ==
  \A k \in DOMAIN table : table[k] = Compiled => <<s, k>> \in PathKeys

ASSUME ConfigurationAssumption ==
  /\ Compiled \notin {UnderHome, Cwd}
  /\ \A s \in DOMAIN Defaults :
       /\ WrongType \notin {Defaults[s]} \cup [DOMAIN Defaults[s] -> Values(s)]
       /\ \A k \in DOMAIN Defaults[s] : Defaults[s][k] # WrongType
       /\ OnlyPathsAreCompiled(Defaults[s], s)
  /\ \A t \in LayerTables : \A s \in DOMAIN Defaults \cap DOMAIN t :
       t[s] # WrongType =>
         DOMAIN t[s] \subseteq DOMAIN Defaults[s] /\ OnlyPathsAreCompiled(t[s], s)
  /\ \A l \in LayerChoices : \A s \in DOMAIN l.env : l.env[s] # WrongType

\* A layer that is not there: a file, and an environment without variables.
NoTable == [s \in {} |-> s]
NoFile  == [read |-> "absent", table |-> NoTable]

ConfigInit == layers \in LayerChoices /\ config = Unloaded

-----------------------------------------------------------------------------
(* load_layered *)

\* read_toml_file
FileError(file) ==
  CASE file.read = "denied" -> "PermissionDenied"
    [] file.read = "failed" -> "Io"
    [] file.read = "syntax" -> "InvalidToml"
    [] OTHER -> "none"

\* One function over another.
Over(f, g) == [x \in DOMAIN f \cup DOMAIN g |-> IF x \in DOMAIN f THEN f[x] ELSE g[x]]

\* Mutant: a section of the overlay replaces the section below it.
MergeSections(base, overlay) == Over(overlay, base)

\* merge_tables: two tables are merged key by key, anything else replaces.
Merge(base, overlay) ==
  [s \in DOMAIN base \cup DOMAIN overlay |->
     IF s \notin DOMAIN overlay THEN base[s]
     ELSE IF s \in DOMAIN base /\ base[s] # WrongType /\ overlay[s] # WrongType
          THEN Over(overlay[s], base[s])
          ELSE overlay[s]]

\* The merged table deserializes into Config.
WellTyped(table) ==
  \A s \in DOMAIN Defaults : table[s] # WrongType /\ \A k \in DOMAIN Defaults[s] :
    k \in DOMAIN table[s] /\ table[s][k] # WrongType

\* apply_env_vars; a variable that is not a number or a format is an error.
EnvError(env) == \E s \in DOMAIN env : \E k \in DOMAIN env[s] : env[s][k] = WrongType

WithEnv(table, env) == [s \in DOMAIN table |-> IF s \in DOMAIN env THEN Over(env[s], table[s])
                                                ELSE table[s]]

Under(path) == IF path = Compiled THEN UnderHome ELSE path

\* resolve_paths: what was written down as the compiled path moves as well.
Resolve(c) ==
  [s \in DOMAIN c |-> [k \in DOMAIN c[s] |->
     IF <<s, k>> \in PathKeys THEN Under(c[s][k])
     ELSE IF <<s, k>> = <<"code_tools", "workspace_root">> /\ c[s][k] = NoPath THEN Cwd
     ELSE c[s][k]]]

\* validate
PortsAreGood(c) == /\ c.server.http_port # 0 /\ c.server.grpc_port # 0
                   /\ c.server.http_port # c.server.grpc_port

StorageIsGood(c) == c.storage.snapshot_interval_secs # 0 /\ c.storage.path # Upward

AgentsAreGood(c) == /\ c.agents.heartbeat_interval_secs # 0
                    /\ c.agents.timeout_secs > c.agents.heartbeat_interval_secs

CodeToolsAreGood(c) == \A k \in {"max_file_size_bytes", "max_files_per_page", "max_search_matches"} :
                         c.code_tools[k] # 0

Valid(c) == /\ PortsAreGood(c) /\ StorageIsGood(c) /\ AgentsAreGood(c)
            /\ CodeToolsAreGood(c) /\ c.logging.level # "no_filter"

Failed(kind) == [error |-> kind]

Load(l) ==
  LET merged == Merge(Merge(Defaults, l.user.table), l.project.table)
      loaded == Resolve(WithEnv(merged, l.env))
  IN  CASE ~l.home -> Failed("ValidationFailed")
        [] l.home /\ FileError(l.user) # "none" -> Failed(FileError(l.user))
        [] l.home /\ FileError(l.user) = "none" /\ FileError(l.project) # "none" ->
             Failed(FileError(l.project))
        [] OTHER ->
             IF ~WellTyped(merged) THEN Failed("InvalidToml")
             ELSE IF EnvError(l.env) THEN Failed("InvalidEnvVar")
             ELSE IF ~Valid(loaded) THEN Failed("ValidationFailed") ELSE loaded

LoadConfig ==
  /\ config = Unloaded
  /\ config' = Load(layers)
  /\ UNCHANGED layers

HasConfig == "error" \notin DOMAIN config

-----------------------------------------------------------------------------

\* The layer of the highest rank that says anything about a key.
Says(table, s, k) == s \in DOMAIN table /\ table[s] # WrongType /\ k \in DOMAIN table[s]

Highest(s, k) ==
  CASE Says(layers.env, s, k) -> layers.env[s][k]
    [] ~Says(layers.env, s, k) /\ Says(layers.project.table, s, k) -> layers.project.table[s][k]
    [] ~Says(layers.env, s, k) /\ ~Says(layers.project.table, s, k)
         /\ Says(layers.user.table, s, k) -> layers.user.table[s][k]
    [] OTHER -> Defaults[s][k]

\* A file that no merge makes into a configuration.
Misspelt(file) ==
  \/ file.read = "syntax"
  \/ \E s \in DOMAIN file.table :
       file.table[s] = WrongType \/ \E k \in DOMAIN file.table[s] : file.table[s][k] = WrongType

(***************************************************************************)
(* Key by key the highest layer that says anything wins: a layer that sets *)
(* one key of a section takes nothing away from the others, so layers are  *)
(* refused together only if one of them is misspelt, and what a            *)
(* running process uses differs from that only for the paths that are the  *)
(* compiled ones, which lead under HOME and never into a shared directory  *)
(* (config/loader.rs load_layered, resolve_paths).                         *)
(***************************************************************************)
HighestLayerWins ==
  /\ config = Failed("InvalidToml") => Misspelt(layers.user) \/ Misspelt(layers.project)
  /\ HasConfig => \A key \in Keys :
       LET value == config[key[1]][key[2]]
           said  == Highest(key[1], key[2])
       IN  /\ value # Compiled
           /\ value = said \/ (said = Compiled /\ value = UnderHome)
                           \/ (said = NoPath /\ value = Cwd)

=============================================================================
