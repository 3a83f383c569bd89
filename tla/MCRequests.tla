----------------------------- MODULE MCRequests -----------------------------
(***************************************************************************)
(* An instance of Requests for TLC.                                        *)
(***************************************************************************)
EXTENDS Requests

CONSTANTS a1, a2, n1, c1, url, upath

\* Both registrations ask for one name.
OneName  == [a \in AgentIds |-> n1]
NoSkills == [a \in AgentIds |-> {}]

Interchangeable == Permutations({a1, a2})

-----------------------------------------------------------------------------
(* Wire messages *)

CONSTANTS object, number, struct, null, uuid, hello, extras

TheJson == {object, number}
JsonOf  == [v \in {struct, null} |-> IF v = struct THEN object ELSE number]
ProtoOf == [j \in TheJson |-> IF j = object THEN struct ELSE null]

TextPart == [content |-> [kind |-> "text", value |-> hello], extras |-> extras]
Messages == {[message_id |-> uuid, role |-> "User", parts |-> <<TextPart>>, metadata |-> Absent],
             [message_id |-> Absent, role |-> "Agent", parts |-> << >>, metadata |-> struct],
             [message_id |-> Absent, role |-> "Unspecified", parts |-> << >>, metadata |-> Absent],
             [message_id |-> NotUuid, role |-> "User", parts |-> <<TextPart>>, metadata |-> Absent]}

-----------------------------------------------------------------------------
(* Layers *)

File(t) == [read |-> "ok", table |-> t]
Bad(r)  == [read |-> r, table |-> NoTable]

\* What one layer may say: one key of a section, another, or one of the wrong type.
Ports(p)    == "server" :> ("http_port" :> p)
Timeout(t)  == "agents" :> ("timeout_secs" :> t)
Socket(p)   == "daemon" :> ("socket_path" :> p)
Root0       == "code_tools" :> ("workspace_root" :> upath)
BadSection  == "server" :> WrongType

Tables == {NoTable, Ports(7601), Ports(9000), Ports(0), Timeout(60) @@ Socket(upath), Timeout(20),
           Socket(Compiled), Root0, BadSection, Ports(WrongType),
           "server" :> ("grpc_port" :> 9001), "storage" :> ("path" :> Upward)}

Files == {NoFile, Bad("denied"), Bad("failed"), Bad("syntax")} \cup {File(t) : t \in Tables}

Envs == {NoTable, Ports(9002), Ports(WrongType), Socket(upath),
         "logging" :> ("level" :> "no_filter")}

AllLayers == [home : BOOLEAN, user : Files, project : Files, env : Envs]

Bare == [home |-> TRUE, user |-> NoFile, project |-> NoFile, env |-> NoTable]

-----------------------------------------------------------------------------
(* Workspaces *)

CONSTANTS root, dir, deps, top, below, dep, link

TheNodes == {root, dir, deps, top, below, dep, link}
ParentOf == [n \in TheNodes \ {root} |-> CASE n = below -> dir [] n = dep -> deps [] OTHER -> root]
TargetOf == [n \in TheNodes |-> IF n = link THEN below ELSE n]

\* Two lines and an unterminated one over two chunks; a file that is binary late.
Bytes == [n \in TheNodes |-> CASE n = below -> <<1, 10, 10, 2>> [] n = dep -> <<10>>
                                [] n = dir -> <<0, 10>> [] OTHER -> <<1, 10, 2>>]

Full    == [n \in TheNodes |-> CASE n \in {root, dir, deps} -> "dir" [] n = link -> "link"
                                  [] OTHER -> "file"]
AllTrees == {Full, [Full EXCEPT ![dir] = "locked_dir", ![below] = "gone"],
             [Full EXCEPT ![dir] = "gone", ![below] = "gone", ![top] = "locked_file"],
             [Full EXCEPT ![dir] = "file", ![below] = "gone", ![top] = "socket"]}

=============================================================================
