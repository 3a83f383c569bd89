------------------------------ MODULE CodeScan ------------------------------
(***************************************************************************)
(* The built-in code tools (core/code_tools.rs): paths are resolved inside *)
(* the workspace, a file is read or parsed, and a directory tree is        *)
(* scanned while its files come and go under the scan.                     *)
(*                                                                         *)
(* Nodes are the places in the workspace where something may be.  The      *)
(* calls made for one entry of a directory (lstat, open, read, count) are  *)
(* one step; the entries of a directory come in any order.  A content is a *)
(* sequence of bytes of which NewLine counts; Nul makes a file binary.     *)
(* The language and the syntax of a file are wording.                      *)
(***************************************************************************)
EXTENDS Naturals, Sequences, FiniteSets, Errors

CONSTANTS Nodes, Root,     \* the places, and the root of the workspace
          Parent,          \* the directory a place is in
          SkippedDirs,     \* places whose name is hidden or in walk_skip_dirs
          Target,          \* where a symbolic link leads: a place, Outside or Missing
          Content,         \* bytes of the file at a place
          Outside,         \* a path out of the workspace
          Missing,         \* a path that leads nowhere
          NoInput,         \* an input without a path
          NewLine, Nul,
          Chunk,           \* bytes of one read of the line counter
          Probe,           \* bytes looked at for a Nul
          MaxSize,         \* max_file_size_bytes
          MaxFiles,        \* max_files_per_page
          Trees,           \* bound: what the workspace holds at first
          MaxChanges       \* bound: places that change during a scan

\* What may be at a place; "locked" is what the daemon has no rights to open.
Kind == {"dir", "locked_dir", "file", "locked_file", "link", "socket", "gone"}

\* The directories a place is in: its parent, and the parent of each of them.
Above ==
  [n \in Nodes |->
     IF n = Root THEN {}
     ELSE {d \in Nodes :
             \A S \in SUBSET Nodes :
               Parent[n] \in S /\ (\A m \in S \ {Root} : Parent[m] \in S) => d \in S}]

\* What is there is in directories that are there.
IsWhole(t) == \A n \in Nodes : t[n] # "gone" => \A d \in Above[n] : t[d] \in {"dir", "locked_dir"}

ASSUME CodeScanAssumption ==
  /\ IsFiniteSet(Nodes) /\ Root \in Nodes /\ SkippedDirs \subseteq Nodes
  /\ Parent \in [Nodes \ {Root} -> Nodes] /\ \A n \in Nodes : n \notin Above[n]
  /\ {Outside, Missing, NoInput} \cap Nodes = {}
  /\ Target \in [Nodes -> Nodes \cup {Outside, Missing}]
  /\ \A n \in Nodes : Content[n] \in Seq(Nat)
  /\ {Chunk, Probe, MaxFiles} \subseteq Nat \ {0}
  /\ \A t \in Trees : t \in [Nodes -> Kind] /\ IsWhole(t)

VARIABLES tree,      \* what is at each place
          scan,      \* a scan under way, or its result
          touched    \* places that changed since the scan began

scanVars == <<tree, scan, touched>>

NoScan == [op |-> "none"]

ScanInit == tree \in Trees /\ scan = NoScan /\ touched = {}

-----------------------------------------------------------------------------
(* Files *)

Count(s, b) == Cardinality({i \in DOMAIN s : s[i] = b})

IsBinary(s) == \E i \in DOMAIN s : i <= Probe /\ s[i] = Nul

\* count_lines
CountLines(s) ==
  IF s = <<>> THEN 0
  ELSE Count(s, NewLine) + IF s[Len(s)] = NewLine THEN 0 ELSE 1

\* Chunk by chunk, with the last byte remembered: what was read up to a byte.
ReadTo(s) ==
  LET read[at \in 0 .. Len(s)] ==
        IF at = 0 THEN [newlines |-> 0, last |-> <<>>]
        ELSE LET begin == at - ((at - 1) % Chunk) - 1
                 chunk == SubSeq(s, begin + 1, at)
             IN  [newlines |-> read[begin].newlines + Count(chunk, NewLine),
                  last     |-> <<chunk[Len(chunk)]>>]
  IN  read

\* count_lines_streaming
CountLinesStreaming(s) ==
  LET all == ReadTo(s)[Len(s)]
  IN  IF all.last = <<>> THEN 0
      ELSE IF all.last = <<NewLine>> THEN all.newlines ELSE all.newlines + 1

-----------------------------------------------------------------------------
(* Paths and single files *)

\* What is directly in a directory.
Children(d) == {n \in Nodes \ {Root} : Parent[n] = d}

Reachable(p) == p \in Nodes /\ tree[p] # "gone" /\ \A d \in Above[p] : tree[d] = "dir"

\* canonicalize: a target is never a link itself.
Canonical(p) ==
  LET end == IF Reachable(p) /\ tree[p] = "link" THEN Target[p] ELSE p
  IN  IF end = Outside \/ Reachable(end) THEN end ELSE Missing

\* resolve_safe_path, and an input that names no path.
Resolves(p) == p # NoInput /\ Canonical(p) \in Nodes

\* read_file, parse_file: a binary file is read as well.
Readable(n) == tree[n] = "file" /\ Len(Content[n]) <= MaxSize

BuiltinTools == {"code.scan_repo", "code.read_file", "code.parse_file"}

\* dispatch to a built-in tool; a scan that gets into its directory goes on below.
CodeToolOutcome(tool, p) ==
  CASE ~Resolves(p) -> "ToolInvocationFailed"
    [] Resolves(p) /\ tool = "code.scan_repo" ->
         IF tree[Canonical(p)] = "dir" THEN "Ok" ELSE "InternalUnexpected"
    [] Resolves(p) /\ tool # "code.scan_repo" ->
         IF Readable(Canonical(p)) THEN "Ok" ELSE "InternalUnexpected"

-----------------------------------------------------------------------------
(* scan_repo *)

\* A file visit_dir counts: not too large, to be opened, and no Nul up front.
Scannable(n) ==
  tree[n] = "file" /\ Len(Content[n]) <= MaxSize /\ ~IsBinary(Content[n])

\* A directory being read: what may still come, and what was there at first.
Frame(d) == [dir    |-> d,
             left   |-> Children(d),
             listed |-> {n \in Children(d) : tree[n] # "gone"}]

BeginScan(p) ==
  /\ scan = NoScan
  /\ CodeToolOutcome("code.scan_repo", p) = "Ok"
  /\ LET d == Canonical(p)
     IN  scan' = [op |-> "scanning", root |-> d, stack |-> <<Frame(d)>>,
                  files |-> <<>>, total |-> 0]
  /\ touched' = {}
  /\ UNCHANGED tree

\* Mutant: only what is listed is counted.
WithFileListed(s, n) ==
  IF Len(s.files) < MaxFiles
  THEN [s EXCEPT !.total = @ + 1,
                 !.files = Append(@, [node |-> n, lines |-> CountLinesStreaming(Content[n])])]
  ELSE s

\* The file is counted, and listed while there is room.
WithFile(s, n) ==
  [s EXCEPT !.total = @ + 1,
            !.files = IF Len(@) < MaxFiles
                      THEN Append(@, [node |-> n, lines |-> CountLinesStreaming(Content[n])])
                      ELSE @]

\* The next entry n of the directory; after is the scan without it.
TakeEntry(n) ==
  LET level == Head(scan.stack)
      after == [scan EXCEPT !.stack = <<[level EXCEPT !.left = @ \ {n}]>> \o Tail(@)]
      Skip  == scan' = after
      Abort == scan' = [scan EXCEPT !.op = "failed"]
      IsDir == tree[n] \in {"dir", "locked_dir"}
  IN  /\ n \in level.left
      /\ \/ /\ n \notin level.listed \/ tree[n] = "gone"
            /\ Skip
         \/ /\ n \in level.listed /\ tree[n] = "gone"
            /\ Abort
         \/ /\ IsDir /\ n \in SkippedDirs
            /\ Skip
         \/ /\ tree[n] = "dir" /\ n \notin SkippedDirs
            /\ scan' = [after EXCEPT !.stack = <<Frame(n)>> \o @]
         \/ /\ tree[n] = "locked_dir" /\ n \notin SkippedDirs
            /\ Abort
         \/ /\ ~IsDir /\ ~Scannable(n)
            /\ Skip
         \/ /\ Scannable(n)
            /\ scan' = WithFile(after, n)

\* The directory is read to its end, and the scan with the last one.
LeaveDir ==
  /\ Head(scan.stack).left = {}
  /\ scan' = IF Len(scan.stack) > 1
             THEN [scan EXCEPT !.stack = Tail(@)]
             ELSE [op |-> "scanned", root |-> scan.root, files |-> scan.files,
                   total |-> scan.total, truncated |-> scan.total > MaxFiles]

ScanNext ==
  /\ scan.op = "scanning"
  /\ LeaveDir \/ \E n \in Nodes : TakeEntry(n)
  /\ UNCHANGED <<tree, touched>>

\* Somebody else writes, makes or removes a place; each changes once in a scan.
ChangeTree(n, kind) ==
  /\ scan.op = "scanning"
  /\ n \notin touched \cup {Root} /\ Cardinality(touched) < MaxChanges
  /\ tree[Parent[n]] = "dir" /\ kind # tree[n]
  /\ tree' = [m \in Nodes |-> IF m = n THEN kind ELSE IF n \in Above[m] THEN "gone" ELSE tree[m]]
  /\ touched' = touched \cup {n}
  /\ UNCHANGED scan

-----------------------------------------------------------------------------
(* What a scan promises *)

Steady(n) == ({n} \cup Above[n]) \cap touched = {}

\* Below the root of the scan, by no directory that is skipped.
InScan(n) ==
  scan.root \in Above[n] /\ \A d \in Above[n] : scan.root \in Above[d] => d \notin SkippedDirs

Due == {n \in Nodes : InScan(n) /\ Scannable(n) /\ Steady(n)}

(***************************************************************************)
(* A scan that succeeds counts every text file that stays where it is, and *)
(* beyond those only places that change under it; it lists as many as it   *)
(* may, each once and with the number of lines read_file gives for it, and *)
(* says truncated exactly if some are missing.  It fails only because of a *)
(* directory it may not open or a change (core/code_tools.rs visit_dir,    *)
(* count_lines_streaming).                                                 *)
(***************************************************************************)
ScanIsExact ==
  /\ scan.op = "scanned" =>
       LET listed == {scan.files[i].node : i \in DOMAIN scan.files}
           moving == {n \in Nodes : InScan(n) /\ ~Steady(n)}
       IN  /\ Cardinality(listed) = Len(scan.files) /\ Len(scan.files) <= MaxFiles
           /\ scan.truncated <=> Len(scan.files) < scan.total
           /\ scan.total \in Cardinality(Due) .. Cardinality(Due \cup moving)
           /\ listed \subseteq Due \cup moving
           /\ ~scan.truncated => Due \subseteq listed
           /\ \A i \in DOMAIN scan.files :
                scan.files[i].lines = CountLines(Content[scan.files[i].node])
  /\ scan.op = "failed" =>
       \E n \in Nodes : InScan(n) /\ (~Steady(n) \/ (tree[n] = "locked_dir" /\ n \notin SkippedDirs))

=============================================================================
