---------------------------- MODULE SnapshotFile -----------------------------
(***************************************************************************)
(* The snapshot file (state/mod.rs) and those who write it: the snapshot   *)
(* timer and the shutdown path of server/mod.rs.                           *)
(*                                                                         *)
(* The file is overwritten in place (the storage operator has no           *)
(* atomic_write_dir), so from the moment a save opens it until the save is *)
(* complete it holds nothing that can be loaded: it is Torn.  Encoding and *)
(* encryption are lossless and left out.                                   *)
(*                                                                         *)
(* The shutdown path aborts the timer and does not join it, and an abort   *)
(* does not reach an operation a blocking thread has begun.  So a save of  *)
(* the timer may go on next to the final one and after it; how far it gets *)
(* is left open, and a save that is dropped takes no more steps.           *)
(***************************************************************************)

VARIABLES disk,         \* snapshot.enc
          save          \* the save in progress, by writer

fileVars == <<disk, save>>

Writers == {"timer", "shutdown"}

Other(w) == IF w = "timer" THEN "shutdown" ELSE "timer"

Nothing == [at |-> "nothing"]

Torn == [at |-> "torn"]

NoSaves == [w \in Writers |-> Nothing]

\* The file is open: by this writer alone so far, or by both.
Open == {"writing", "shared"}

\* One file, never two saves of one writer.
FileTypeOK(Images) ==
  /\ disk = Nothing \/ disk = Torn \/ (disk.at = "saved" /\ disk.image \in Images)
  /\ save = [w \in Writers |-> save[w]]
  /\ \A w \in Writers :
       save[w] = Nothing \/ (save[w].at \in {"taken"} \cup Open /\ save[w].image \in Images)

\* to_snapshot has copied the memory.
Takes(w, image) ==
  /\ save[w] = Nothing
  /\ save' = [save EXCEPT ![w] = [at |-> "taken", image |-> image]]
  /\ UNCHANGED disk

\* save_snapshot opens and truncates the file.
Opens(w) ==
  /\ save[w].at = "taken"
  /\ disk' = Torn
  /\ save' = [v \in Writers |->
                IF save[Other(w)].at \in Open
                THEN [save[v] EXCEPT !.at = "shared"]
                ELSE IF v = w THEN [save[v] EXCEPT !.at = "writing"] ELSE save[v]]

\* What the file may hold when w has written its last byte.  Two that write
\* at once may leave either image or a mixture.
Written(w) ==
  LET saved == [at |-> "saved", image |-> save[w].image]
  IN  IF save[w].at = "shared" THEN {saved, Torn, disk} ELSE {saved}

Completes(w) ==
  /\ save[w].at \in Open
  /\ disk' \in Written(w)
  /\ save' = [save EXCEPT ![w] = Nothing]

\* Mutant: a save that fails is tried again, and nobody waits for that.
FailsAndRepeats(w) ==
  /\ save[w] # Nothing
  /\ save' = [save EXCEPT ![w].at = "taken"]
  /\ UNCHANGED disk

\* An I/O error: the file cannot be opened, or not be written to the end.
Fails(w) ==
  /\ save[w] # Nothing
  /\ save' = [save EXCEPT ![w] = Nothing]
  /\ UNCHANGED disk

=============================================================================
