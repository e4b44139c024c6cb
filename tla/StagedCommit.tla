--------------------------- MODULE StagedCommit ---------------------------
(***************************************************************************)
(* How new audio replaces the audio of a book folder: stage it beside the  *)
(* target, raise a marker, move the old files into a backup and the new    *)
(* ones in, and lower the marker as the signal that it is done.  A crash   *)
(* or a failing file operation may cut this at any file; recovery puts the *)
(* backup back.  One target, and one writer of it at a time.               *)
(***************************************************************************)
EXTENDS Integers

CONSTANTS
  Names,                                 \* the names that audio files may have
  None,                                  \* no file
  MaxWrites, MaxCrashes, MaxFailures     \* bounds of a run

ASSUME NoneNotUsed == None \notin Nat
ASSUME MaxAssumption == {MaxWrites, MaxCrashes, MaxFailures} \subseteq Nat

VARIABLES
  disk,       \* the audio in each folder: under each name, the write it came from
  marker,     \* the file .import-commit-pending exists
  owned,      \* books.path of the imported book is this target
  pc, writer, \* where the writer of the target is, and which one it is
  protect,    \* protectTarget
  todo,       \* the names the writer has still to move or to put back
  movedIn, backedUp,   \* what commitStagedImport would have to roll back
  scratch,    \* the folders the writer has still to remove
  written,    \* how many writes there were
  kept,       \* history: the audio that the target must hold until a commit replaces it
  offered,    \* history: the audio that the last commit was to put in its place
  used        \* how many crashes and failures there were

progress == <<todo, movedIn, backedUp, scratch>>
vars == <<disk, marker, owned, pc, writer, protect, progress, written, kept, offered, used>>

-----------------------------------------------------------------------------
\* legacy is the backup folder of earlier versions, which this one only recovers from and removes
Folders == {"target", "staging", "backup", "legacy"}
Contents == [Names -> Nat \cup {None}]
Empty == [n \in Names |-> None]
Audio(f) == {n \in Names : disk[f][n] # None}

Move(from, to, n) == disk' = [disk EXCEPT ![to][n] = disk[from][n], ![from][n] = None]
Delete(f, n) == disk' = [disk EXCEPT ![f][n] = None]

Fails == used.fail < MaxFailures /\ used' = [used EXCEPT !.fail = @ + 1]

-----------------------------------------------------------------------------
(* Writers: the import of a download, the replacement by a manual import,  *)
(* and those that only recover, which is what rename, merge and the boot   *)
(* sweep do before they go on elsewhere.                                   *)

\* An import protects a target that the book already has; a replacement follows a recovery of the
\* target and finds audio of its book there
Begin(w) ==
  /\ pc = "idle"
  /\ w = "replace" => owned /\ ~marker /\ Audio("target") # {}
  /\ w # "recover" => written < MaxWrites
  /\ written' = IF w = "recover" THEN written ELSE written + 1
  /\ writer' = w /\ pc' = "prepare"
  /\ protect' = (w = "import" => owned)
  /\ UNCHANGED <<disk, marker, owned, progress, kept, offered, used>>

\* An error of the writer: its caller cleans up, and a recovery just ends
Abort == pc' = IF writer = "recover" THEN "idle" ELSE "cleanup"

-----------------------------------------------------------------------------
(* prepareImportSiblings and recoverInterruptedBackup *)

\* mutant: the scratch folder of earlier versions is left
PrepareKeepsLegacy ==
  /\ pc = "prepare"
  /\ IF marker
     THEN pc' = "enumerate" /\ UNCHANGED scratch
     ELSE pc' = "clear" /\ scratch' = {"staging", "backup"}
  /\ UNCHANGED <<disk, marker, owned, writer, protect, todo, movedIn, backedUp, written, kept,
                 offered, used>>

\* without a marker what lies beside the target is scratch
Prepare ==
  /\ pc = "prepare"
  /\ IF marker
     THEN pc' = "enumerate" /\ UNCHANGED scratch
     ELSE pc' = "clear" /\ scratch' = {"staging", "backup", "legacy"}
  /\ UNCHANGED <<disk, marker, owned, writer, protect, todo, movedIn, backedUp, written, kept,
                 offered, used>>

\* two populated backups are for the operator to sort out
Ambiguous == Audio("backup") # {} /\ Audio("legacy") # {}

Enumerate ==
  /\ pc = "enumerate"
  /\ IF Ambiguous
     THEN Abort /\ UNCHANGED todo
     ELSE pc' = "restore" /\ todo' = Audio("backup") \cup Audio("legacy")
  /\ UNCHANGED <<disk, marker, owned, writer, protect, movedIn, backedUp, scratch, written, kept,
                 offered, used>>

\* over whatever the target has under that name
Restore(n) ==
  /\ pc = "restore" /\ n \in todo
  /\ \E f \in {"backup", "legacy"} : disk[f][n] # None /\ Move(f, "target", n)
  /\ todo' = todo \ {n}
  /\ UNCHANGED <<marker, owned, pc, writer, protect, movedIn, backedUp, scratch, written, kept,
                 offered, used>>

Restored ==
  /\ pc = "restore" /\ todo = {}
  /\ pc' = "clear" /\ scratch' = {"staging", "backup", "legacy"}
  /\ UNCHANGED <<disk, marker, owned, writer, protect, todo, movedIn, backedUp, written, kept,
                 offered, used>>

\* all of them are gone: a recovery still has to remove its marker
Cleared ==
  /\ pc = "clear" /\ scratch = {}
  /\ pc' = IF marker THEN "unmark" ELSE IF writer = "recover" THEN "idle" ELSE "copy"
  /\ UNCHANGED <<disk, marker, owned, writer, protect, progress, written, kept, offered, used>>

Unmark ==
  /\ pc = "unmark"
  /\ marker' = FALSE
  /\ pc' = IF writer = "recover" THEN "idle" ELSE "copy"
  /\ UNCHANGED <<disk, owned, writer, protect, progress, written, kept, offered, used>>

\* any of these may fail, and nothing is undone: the marker stays for the next attempt
PrepareFails ==
  /\ pc \in {"prepare", "enumerate", "restore", "clear", "unmark"}
  /\ Fails
  /\ Abort
  /\ todo' = {} /\ scratch' = {}
  /\ UNCHANGED <<disk, marker, owned, writer, protect, movedIn, backedUp, written, kept, offered>>

-----------------------------------------------------------------------------
(* Removing scratch folders, one file at a time *)

Remove(f, n) ==
  /\ f \in scratch /\ disk[f][n] # None
  /\ Delete(f, n)
  /\ kept' = IF f = "target" /\ ~owned THEN [kept EXCEPT ![n] = None] ELSE kept
  /\ UNCHANGED <<marker, owned, pc, writer, protect, progress, written, offered, used>>

Removed(f) ==
  /\ f \in scratch /\ Audio(f) = {}
  /\ scratch' = scratch \ {f}
  /\ UNCHANGED <<disk, marker, owned, pc, writer, protect, todo, movedIn, backedUp, written, kept,
                 offered, used>>

\* after a commit and in a failure's cleanup a folder that cannot be removed is left
Left(f) ==
  /\ f \in scratch /\ pc \in {"tidy", "discard"}
  /\ Fails
  /\ scratch' = scratch \ {f}
  /\ UNCHANGED <<disk, marker, owned, pc, writer, protect, todo, movedIn, backedUp, written, kept,
                 offered>>

-----------------------------------------------------------------------------
(* Staging *)

Copy(n) ==
  /\ pc = "copy" /\ disk["staging"][n] = None
  /\ disk' = [disk EXCEPT !["staging"][n] = written]
  /\ UNCHANGED <<marker, owned, pc, writer, protect, progress, written, kept, offered, used>>

\* verified: what was copied has audio
Copied ==
  /\ pc = "copy" /\ Audio("staging") # {}
  /\ pc' = "list"
  /\ UNCHANGED <<disk, marker, owned, writer, protect, progress, written, kept, offered, used>>

\* so may the listing of both folders, before anything has changed in the target
CopyFails ==
  /\ pc \in {"copy", "list"}
  /\ Fails
  /\ pc' = "cleanup"
  /\ UNCHANGED <<disk, marker, owned, writer, protect, progress, written, kept, offered>>

-----------------------------------------------------------------------------
(* commitStagedImport *)

List ==
  /\ pc = "list"
  /\ kept' = disk["target"] /\ offered' = disk["staging"]
  /\ movedIn' = {} /\ backedUp' = {}
  /\ IF Audio("target") # {}
     THEN pc' = "arm" /\ todo' = Audio("target")
     ELSE pc' = "moveIn" /\ todo' = Audio("staging")
  /\ UNCHANGED <<disk, marker, owned, writer, protect, scratch, written, used>>

\* mutant: the old files move and no marker says so
ArmNothing ==
  /\ pc = "arm"
  /\ pc' = "backUp"
  /\ UNCHANGED <<disk, marker, owned, writer, protect, progress, written, kept, offered, used>>

\* the marker is on disk before the first file moves
Arm ==
  /\ pc = "arm"
  /\ marker' = TRUE
  /\ pc' = "backUp"
  /\ UNCHANGED <<disk, owned, writer, protect, progress, written, kept, offered, used>>

BackUp(n) ==
  /\ pc = "backUp" /\ n \in todo
  /\ Move("target", "backup", n)
  /\ todo' = todo \ {n} /\ backedUp' = backedUp \cup {n}
  /\ UNCHANGED <<marker, owned, pc, writer, protect, movedIn, scratch, written, kept, offered, used>>

BackedUp ==
  /\ pc = "backUp" /\ todo = {}
  /\ pc' = "moveIn" /\ todo' = Audio("staging")
  /\ UNCHANGED <<disk, marker, owned, writer, protect, movedIn, backedUp, scratch, written, kept,
                 offered, used>>

MoveIn(n) ==
  /\ pc = "moveIn" /\ n \in todo
  /\ Move("staging", "target", n)
  /\ todo' = todo \ {n} /\ movedIn' = movedIn \cup {n}
  /\ UNCHANGED <<marker, owned, pc, writer, protect, backedUp, scratch, written, kept, offered, used>>

\* the marker goes, and with it the claim of the old files; from here on the target is protected
Signal ==
  /\ pc = "moveIn" /\ todo = {}
  /\ marker' = FALSE
  /\ kept' = disk["target"]
  /\ protect' = TRUE
  /\ pc' = "tidy" /\ scratch' = {"backup", "staging"}
  /\ UNCHANGED <<disk, owned, writer, todo, movedIn, backedUp, written, offered, used>>

\* a marker whose write fails may be there or not
CommitFails ==
  /\ pc \in {"arm", "backUp", "moveIn"}
  /\ Fails
  /\ \/ UNCHANGED marker
     \/ pc = "arm" /\ marker' = TRUE
  /\ pc' = "undo"
  /\ todo' = backedUp
  /\ UNCHANGED <<disk, owned, writer, protect, movedIn, backedUp, scratch, written, kept, offered>>

\* mutant: rollback leaves what was moved in
UndoNothing(n) ==
  /\ pc = "undo" /\ n \in movedIn
  /\ movedIn' = movedIn \ {n}
  /\ UNCHANGED <<disk, marker, owned, pc, writer, protect, todo, backedUp, scratch, written, kept,
                 offered, used>>

\* rollback: new files out, old ones back, each as far as that works
Undo(n) ==
  /\ pc = "undo" /\ n \in movedIn
  /\ \/ Delete("target", n) /\ UNCHANGED used
     \/ Fails /\ UNCHANGED disk
  /\ movedIn' = movedIn \ {n}
  /\ UNCHANGED <<marker, owned, pc, writer, protect, todo, backedUp, scratch, written, kept, offered>>

PutBack(n) ==
  /\ pc = "undo" /\ movedIn = {} /\ n \in todo
  /\ \/ Move("backup", "target", n) /\ UNCHANGED used
     \/ Fails /\ UNCHANGED disk
  /\ todo' = todo \ {n}
  /\ UNCHANGED <<marker, owned, pc, writer, protect, movedIn, backedUp, scratch, written, kept, offered>>

Undone ==
  /\ pc = "undo" /\ movedIn = {} /\ todo = {}
  /\ pc' = "cleanup"
  /\ UNCHANGED <<disk, marker, owned, writer, protect, progress, written, kept, offered, used>>

-----------------------------------------------------------------------------
(* After the commit, and after a failure *)

\* best-effort removal is over: an import goes on to the row of its book, everybody else is done
Tidied ==
  /\ pc = "tidy" /\ scratch = {}
  /\ pc' = IF writer = "import" THEN "promote" ELSE "idle"
  /\ UNCHANGED <<disk, marker, owned, writer, protect, progress, written, kept, offered, used>>

Promote ==
  /\ pc = "promote"
  /\ owned' = TRUE
  /\ pc' = "enrich"
  /\ UNCHANGED <<disk, marker, writer, protect, progress, written, kept, offered, used>>

Enriched ==
  /\ pc = "enrich"
  /\ pc' = "idle"
  /\ UNCHANGED <<disk, marker, owned, writer, protect, progress, written, kept, offered, used>>

LateFailure ==
  /\ pc \in {"promote", "enrich"}
  /\ Fails
  /\ pc' = "cleanup"
  /\ UNCHANGED <<disk, marker, owned, writer, protect, progress, written, kept, offered>>

\* mutant: cleanup removes the backup whatever the marker says
CleanupAll ==
  /\ pc = "cleanup"
  /\ scratch' = {"staging", "backup"}
  /\ pc' = "discard"
  /\ UNCHANGED <<disk, marker, owned, writer, protect, todo, movedIn, backedUp, written, kept,
                 offered, used>>

\* handleImportFailure and the catch of stagedAudioReplace: the marker, or doubt about it, decides
Cleanup ==
  /\ pc = "cleanup"
  /\ \E preserve \in BOOLEAN :
       /\ \/ preserve = marker /\ UNCHANGED used
          \/ preserve /\ ~marker /\ Fails
       /\ scratch' = IF preserve THEN {"staging"}
                     ELSE {"staging", "backup"} \cup IF protect THEN {} ELSE {"target"}
  /\ pc' = "discard"
  /\ UNCHANGED <<disk, marker, owned, writer, protect, todo, movedIn, backedUp, written, kept, offered>>

Discarded ==
  /\ pc = "discard" /\ scratch = {}
  /\ pc' = "idle"
  /\ UNCHANGED <<disk, marker, owned, writer, protect, progress, written, kept, offered, used>>

-----------------------------------------------------------------------------
(* The end of the process, and the sweep of the next boot *)

Crash ==
  /\ pc # "down" /\ used.crash < MaxCrashes
  /\ used' = [used EXCEPT !.crash = @ + 1]
  /\ pc' = "down"
  /\ todo' = {} /\ movedIn' = {} /\ backedUp' = {} /\ scratch' = {}
  /\ UNCHANGED <<disk, marker, owned, writer, protect, written, kept, offered>>

\* mutant: nobody looks for markers at boot
BootWithoutSweep ==
  /\ pc = "down"
  /\ pc' = "idle"
  /\ UNCHANGED <<disk, marker, owned, writer, protect, progress, written, kept, offered, used>>

\* sweepCommitPendingMarkers: a marker that it finds is recovered before the worker drains
Boot ==
  /\ pc = "down"
  /\ IF marker
     THEN pc' = "prepare" /\ writer' = "recover" /\ protect' = TRUE
     ELSE pc' = "idle" /\ UNCHANGED <<writer, protect>>
  /\ UNCHANGED <<disk, marker, owned, progress, written, kept, offered, used>>

\* the library cannot be walked: the sweep is skipped at this boot
BootFails ==
  /\ pc = "down" /\ Fails
  /\ pc' = "idle"
  /\ UNCHANGED <<disk, marker, owned, writer, protect, progress, written, kept, offered>>

-----------------------------------------------------------------------------
\* A folder with some audio or none, scratch of an earlier version, or a commit that it left undone
Init ==
  /\ disk \in [Folders -> [Names -> {0, None}]]
  /\ Audio("staging") = {} /\ Audio("backup") = {}
  /\ marker \in BOOLEAN
  /\ marker => Audio("target") \cap Audio("legacy") = {}
  /\ kept = [n \in Names |-> IF marker /\ n \in Audio("legacy") THEN 0 ELSE disk["target"][n]]
  /\ owned \in {b \in BOOLEAN : b => kept # Empty}
  /\ offered = kept
  /\ pc = "idle" /\ writer = "recover" /\ protect = FALSE
  /\ todo = {} /\ movedIn = {} /\ backedUp = {} /\ scratch = {}
  /\ written = 0
  /\ used = [crash |-> 0, fail |-> 0]

Step ==
  \/ Prepare \/ Enumerate \/ Restored \/ Cleared \/ Unmark
  \/ Copied \/ List \/ Arm \/ BackedUp \/ Signal \/ Undone
  \/ Tidied \/ Promote \/ Enriched \/ Cleanup \/ Discarded \/ Boot
  \/ \E n \in Names : Restore(n) \/ Copy(n) \/ BackUp(n) \/ MoveIn(n) \/ Undo(n) \/ PutBack(n)
  \/ \E f \in Folders : Removed(f) \/ \E n \in Names : Remove(f, n)

Failure ==
  \/ PrepareFails \/ CopyFails \/ CommitFails \/ LateFailure \/ BootFails
  \/ \E f \in Folders : Left(f)

Next == Step \/ Failure \/ Crash \/ \E w \in {"import", "replace", "recover"} : Begin(w)

Spec == Init /\ [][Next]_vars

\* What a writer has begun it goes on with, and a process that is down is started again; nobody has
\* to begin a write, and nothing has to fail
FairSpec == Spec /\ WF_vars(Step)

-----------------------------------------------------------------------------
\* Every variable keeps its type, and files of the target are moved only under the marker.
TypeOK ==
  /\ disk \in [Folders -> Contents]
  /\ marker \in BOOLEAN /\ owned \in BOOLEAN /\ protect \in BOOLEAN
  /\ pc \in {"idle", "prepare", "enumerate", "restore", "clear", "unmark", "copy", "list", "arm",
             "backUp", "moveIn", "undo", "tidy", "promote", "enrich", "cleanup", "discard", "down"}
  /\ writer \in {"import", "replace", "recover"}
  /\ todo \subseteq Names /\ movedIn \subseteq Names /\ backedUp \subseteq Names
  /\ scratch \subseteq Folders
  /\ written \in Nat
  /\ kept \in Contents /\ offered \in Contents
  /\ used \in [crash : Nat, fail : Nat]
  /\ pc \in {"enumerate", "restore", "unmark", "backUp"} => marker

\* No audio is ever lost: through failures, failing rollbacks, failing recoveries and crashes at any
\* file, what the target held before a commit is in the target, or in a backup with the marker that
\* will bring it back, until the commit that replaces it has been signalled.  (The one exception is
\* meant: a failed import empties a target that no book has.)
NothingLost ==
  \A n \in Names : kept[n] # None =>
    \/ disk["target"][n] = kept[n]
    \/ marker /\ kept[n] \in {disk["backup"][n], disk["legacy"][n]}

\* Recovery never finds two backups to choose from: that would need an operator, and every later
\* import of the book would fail until then.
NeverAmbiguous == marker => ~Ambiguous

\* One failing file operation at any point leaves the old audio or the new and never some of both.
SwapIsAtomic ==
  used.crash = 0 /\ used.fail <= 1 /\ pc = "idle" /\ ~marker /\ owned
    => disk["target"] \in {kept, offered}

\* So does a crash.
SwapSurvivesCrash == pc = "idle" /\ ~marker /\ owned => disk["target"] \in {kept, offered}

\* A boot that no failure disturbs any more brings back what a crash has left behind a marker.
SweepConverges ==
  pc = "down" /\ marker /\ used.fail = MaxFailures ~> pc = "idle" /\ ~marker
=============================================================================
