------------------------- MODULE StagedCommitProofs -------------------------
(***************************************************************************)
(* No audio is ever lost by StagedCommit, recovery never finds two         *)
(* backups, and one failing operation never leaves some of the old audio   *)
(* and some of the new, for any set of names and any number of writes,     *)
(* crashes and failing file operations.                                    *)
(***************************************************************************)
EXTENDS StagedCommit, TLAPS

Bare(f) == \A n \in Names : disk[f][n] = None

\* While the marker is up a backup holds nothing but what the target held
Restorable ==
  marker => \A f \in {"backup", "legacy"}, n \in Names : disk[f][n] # None => disk[f][n] = kept[n]

\* What is to be removed is not needed: neither a backup under the marker nor the target of a book
Removal ==
  /\ scratch # {} => pc \in {"clear", "tidy", "discard"}
  /\ marker /\ ("backup" \in scratch \/ "legacy" \in scratch) => Bare("backup") /\ Bare("legacy")
  /\ "target" \in scratch => ~owned /\ ~marker
  /\ pc = "clear" => \A f \in {"backup", "legacy"} : f \in scratch \/ Bare(f)
  /\ pc \notin {"idle", "down"} /\ ~protect => ~owned

\* Where the audio is in each phase of a recovery ...
Recovering ==
  /\ pc = "restore" => \A n \in Names : n \in todo <=> disk["backup"][n] # None \/ disk["legacy"][n] # None
  /\ pc = "unmark" => Bare("backup") /\ Bare("legacy")

\* ... and of a commit
Committing ==
  /\ pc \in {"copy", "list", "arm"} => ~marker /\ Bare("backup")
  /\ pc \in {"copy", "list", "arm", "backUp", "moveIn", "undo"} => Bare("legacy")
  /\ pc \in {"tidy", "promote", "enrich"} => ~marker /\ protect
  /\ pc = "arm" => backedUp = {} /\ kept = disk["target"] /\ \A n \in Names : n \in todo <=> kept[n] # None
  /\ pc \in {"arm", "backUp"} => movedIn = {}
  /\ pc = "backUp" => \A n \in Names :
       /\ n \in todo => disk["target"][n] = kept[n] /\ kept[n] # None
       /\ n \notin todo /\ kept[n] # None => disk["backup"][n] = kept[n]
  /\ pc = "moveIn" => \A n \in Names : kept[n] # None => marker /\ disk["backup"][n] = kept[n]
  /\ pc \in {"backUp", "moveIn"} => \A n \in backedUp : marker /\ disk["backup"][n] # None
  /\ pc = "undo" => /\ \A n \in movedIn : kept[n] # None => marker /\ disk["backup"][n] = kept[n]
                    /\ \A n \in todo : marker /\ disk["backup"][n] # None

Safe == TypeOK /\ NothingLost /\ NeverAmbiguous /\ Restorable /\ Removal /\ Recovering /\ Committing

-----------------------------------------------------------------------------
(* What the file operations do *)

LEMMA NoAudio ==
  ASSUME TypeOK, NEW f \in Folders
  PROVE  Audio(f) = {} <=> Bare(f)
BY DEF Audio, Bare, TypeOK, Contents

LEMMA Ambiguity == NeverAmbiguous <=> (marker => Bare("backup") \/ Bare("legacy"))
BY DEF NeverAmbiguous, Ambiguous, Audio, Bare

LEMMA MoveEffect ==
  ASSUME TypeOK, NEW from \in Folders, NEW to \in Folders, NEW n \in Names,
         from # to, Move(from, to, n)
  PROVE  /\ disk' \in [Folders -> Contents]
         /\ disk'[to][n] = disk[from][n] /\ disk'[from][n] = None
         /\ \A f \in Folders, k \in Names : k # n \/ f \notin {from, to} => disk'[f][k] = disk[f][k]
<1>1. disk[to] \in Contents /\ disk[from] \in Contents /\ disk[from][n] \in Nat \cup {None}
  BY ZenonT(60) DEF TypeOK, Contents
<1>2. disk' = [disk EXCEPT ![to] = [disk[to] EXCEPT ![n] = disk[from][n]],
                           ![from] = [disk[from] EXCEPT ![n] = None]]
  BY DEF Move, TypeOK
<1>3. [disk[to] EXCEPT ![n] = disk[from][n]] \in Contents /\ [disk[from] EXCEPT ![n] = None] \in Contents
  BY <1>1 DEF Contents
<1> QED
  BY <1>1, <1>2, <1>3 DEF TypeOK, Contents

LEMMA PutEffect ==
  ASSUME TypeOK, NEW g \in Folders, NEW n \in Names, NEW v \in Nat \cup {None},
         disk' = [disk EXCEPT ![g][n] = v]
  PROVE  /\ disk' \in [Folders -> Contents]
         /\ disk'[g][n] = v
         /\ \A f \in Folders, k \in Names : k # n \/ f # g => disk'[f][k] = disk[f][k]
BY DEF TypeOK, Contents

LEMMA DeleteEffect ==
  ASSUME TypeOK, NEW g \in Folders, NEW n \in Names, Delete(g, n)
  PROVE  /\ disk' \in [Folders -> Contents]
         /\ disk'[g][n] = None
         /\ \A f \in Folders, k \in Names : k # n \/ f # g => disk'[f][k] = disk[f][k]
<1>1. disk' = [disk EXCEPT ![g][n] = None]
  BY DEF Delete
<1>2. None \in Nat \cup {None}
  OBVIOUS
<1> QED
  BY <1>1, <1>2, PutEffect

LEMMA FailTyped == ASSUME TypeOK, Fails PROVE used' \in [crash : Nat, fail : Nat]
<1>1. used = [crash |-> used.crash, fail |-> used.fail] /\ used.crash \in Nat /\ used.fail \in Nat
  BY DEF TypeOK
<1>2. used' = [crash |-> used.crash, fail |-> used.fail + 1]
  BY <1>1 DEF Fails, TypeOK
<1> QED
  BY <1>1, <1>2

-----------------------------------------------------------------------------
LEMMA InitSafe == Init => Safe
<1> SUFFICES ASSUME Init PROVE Safe
  OBVIOUS
<1>1. disk \in [Folders -> Contents] /\ [Names -> {0, None}] \subseteq Contents
  BY DEF Init, Contents
<1>2. kept \in Contents
  BY <1>1 DEF Init, Contents, Folders
<1>3. TypeOK
  BY <1>1, <1>2 DEF Init, TypeOK
<1>4. Bare("backup")
  BY <1>3, NoAudio DEF Init, Folders
<1>5. NothingLost /\ Restorable
  BY DEF Init, NothingLost, Restorable, Audio, Folders
<1> QED
  BY <1>3, <1>4, <1>5, Ambiguity DEF Init, Safe, Removal, Recovering, Committing

\* Steps that leave the disk alone, and but for two of them the marker
LEMMA BeginSafe == ASSUME Safe, NEW w \in {"import", "replace", "recover"}, Begin(w) PROVE Safe'
<1>1. TypeOK'
  BY DEF Safe, TypeOK, progress, Begin
<1>2. NothingLost' /\ NeverAmbiguous' /\ Restorable'
  BY DEF Safe, NothingLost, NeverAmbiguous, Ambiguous, Audio, Restorable, progress, Begin
<1>3. Removal'
  BY DEF Safe, Removal, progress, Begin
<1>4. Recovering' /\ Committing'
  BY DEF Safe, Recovering, Committing, progress, Begin
<1> QED
  BY <1>1, <1>2, <1>3, <1>4 DEF Safe

LEMMA PrepareSafe == ASSUME Safe, Prepare PROVE Safe'
<1>1. TypeOK'
  BY DEF Safe, TypeOK, progress, Prepare, Folders
<1>2. NothingLost' /\ NeverAmbiguous' /\ Restorable'
  BY DEF Safe, NothingLost, NeverAmbiguous, Ambiguous, Audio, Restorable, progress, Prepare
<1>3. Removal'
  BY DEF Safe, Removal, progress, Prepare
<1>4. Recovering' /\ Committing'
  BY DEF Safe, Recovering, Committing, progress, Prepare
<1> QED
  BY <1>1, <1>2, <1>3, <1>4 DEF Safe

LEMMA EnumerateSafe == ASSUME Safe, Enumerate PROVE Safe'
<1>1. TypeOK'
  BY DEF Safe, TypeOK, progress, Enumerate, Abort, Audio
<1>2. NothingLost' /\ NeverAmbiguous' /\ Restorable'
  BY DEF Safe, NothingLost, NeverAmbiguous, Ambiguous, Audio, Restorable, progress, Enumerate
<1>3. Removal'
  BY DEF Safe, Removal, progress, Enumerate, Abort
<1>4. Recovering' /\ Committing'
  BY NoAudio, Ambiguity, ZenonT(30) DEF Safe, TypeOK, Removal, Recovering, Committing, Bare, Folders,
     Audio, progress, Enumerate, Abort
<1> QED
  BY <1>1, <1>2, <1>3, <1>4 DEF Safe

LEMMA RestoredSafe == ASSUME Safe, Restored PROVE Safe'
<1>1. TypeOK'
  BY DEF Safe, TypeOK, progress, Restored, Folders
<1>2. NothingLost' /\ NeverAmbiguous' /\ Restorable'
  BY DEF Safe, NothingLost, NeverAmbiguous, Ambiguous, Audio, Restorable, progress, Restored
<1>3. Removal'
  BY DEF Safe, Removal, Recovering, Bare, progress, Restored
<1>4. Recovering' /\ Committing'
  BY DEF Safe, Recovering, Committing, progress, Restored
<1> QED
  BY <1>1, <1>2, <1>3, <1>4 DEF Safe

LEMMA ClearedSafe == ASSUME Safe, Cleared PROVE Safe'
<1>1. TypeOK'
  BY DEF Safe, TypeOK, progress, Cleared
<1>2. NothingLost' /\ NeverAmbiguous' /\ Restorable'
  BY DEF Safe, NothingLost, NeverAmbiguous, Ambiguous, Audio, Restorable, progress, Cleared
<1>3. Removal'
  BY DEF Safe, Removal, progress, Cleared
<1>4. Recovering' /\ Committing'
  BY DEF Safe, Removal, Recovering, Committing, Bare, progress, Cleared
<1> QED
  BY <1>1, <1>2, <1>3, <1>4 DEF Safe

LEMMA CopiedSafe == ASSUME Safe, Copied PROVE Safe'
<1>1. TypeOK'
  BY DEF Safe, TypeOK, progress, Copied
<1>2. NothingLost' /\ NeverAmbiguous' /\ Restorable'
  BY DEF Safe, NothingLost, NeverAmbiguous, Ambiguous, Audio, Restorable, progress, Copied
<1>3. Removal'
  BY DEF Safe, Removal, progress, Copied
<1>4. Recovering' /\ Committing'
  BY DEF Safe, Recovering, Committing, Bare, progress, Copied
<1> QED
  BY <1>1, <1>2, <1>3, <1>4 DEF Safe

LEMMA BackedUpSafe == ASSUME Safe, BackedUp PROVE Safe'
<1>1. TypeOK'
  BY DEF Safe, TypeOK, progress, BackedUp, Audio
<1>2. NothingLost' /\ NeverAmbiguous' /\ Restorable'
  BY DEF Safe, NothingLost, NeverAmbiguous, Ambiguous, Audio, Restorable, progress, BackedUp
<1>3. Removal'
  BY DEF Safe, Removal, progress, BackedUp
<1>4. Recovering' /\ Committing'
  BY DEF Safe, TypeOK, Recovering, Committing, Bare, progress, BackedUp
<1> QED
  BY <1>1, <1>2, <1>3, <1>4 DEF Safe

LEMMA UndoneSafe == ASSUME Safe, Undone PROVE Safe'
<1>1. TypeOK'
  BY DEF Safe, TypeOK, progress, Undone
<1>2. NothingLost' /\ NeverAmbiguous' /\ Restorable'
  BY DEF Safe, NothingLost, NeverAmbiguous, Ambiguous, Audio, Restorable, progress, Undone
<1>3. Removal'
  BY DEF Safe, Removal, progress, Undone
<1>4. Recovering' /\ Committing'
  BY DEF Safe, Recovering, Committing, progress, Undone
<1> QED
  BY <1>1, <1>2, <1>3, <1>4 DEF Safe

LEMMA TidiedSafe == ASSUME Safe, Tidied PROVE Safe'
<1>1. TypeOK'
  BY DEF Safe, TypeOK, progress, Tidied
<1>2. NothingLost' /\ NeverAmbiguous' /\ Restorable'
  BY DEF Safe, NothingLost, NeverAmbiguous, Ambiguous, Audio, Restorable, progress, Tidied
<1>3. Removal'
  BY DEF Safe, Removal, progress, Tidied
<1>4. Recovering' /\ Committing'
  BY DEF Safe, Recovering, Committing, progress, Tidied
<1> QED
  BY <1>1, <1>2, <1>3, <1>4 DEF Safe

LEMMA PromoteSafe == ASSUME Safe, Promote PROVE Safe'
<1>1. TypeOK'
  BY DEF Safe, TypeOK, progress, Promote
<1>2. NothingLost' /\ NeverAmbiguous' /\ Restorable'
  BY DEF Safe, NothingLost, NeverAmbiguous, Ambiguous, Audio, Restorable, progress, Promote
<1>3. Removal'
  BY DEF Safe, Removal, Committing, progress, Promote
<1>4. Recovering' /\ Committing'
  BY DEF Safe, Recovering, Committing, progress, Promote
<1> QED
  BY <1>1, <1>2, <1>3, <1>4 DEF Safe

LEMMA EnrichedSafe == ASSUME Safe, Enriched PROVE Safe'
<1>1. TypeOK'
  BY DEF Safe, TypeOK, progress, Enriched
<1>2. NothingLost' /\ NeverAmbiguous' /\ Restorable'
  BY DEF Safe, NothingLost, NeverAmbiguous, Ambiguous, Audio, Restorable, progress, Enriched
<1>3. Removal'
  BY DEF Safe, Removal, progress, Enriched
<1>4. Recovering' /\ Committing'
  BY DEF Safe, Recovering, Committing, progress, Enriched
<1> QED
  BY <1>1, <1>2, <1>3, <1>4 DEF Safe

LEMMA CleanupSafe == ASSUME Safe, Cleanup PROVE Safe'
<1>1. TypeOK'
  BY FailTyped DEF Safe, TypeOK, progress, Cleanup, Folders
<1>2. NothingLost' /\ NeverAmbiguous' /\ Restorable'
  BY DEF Safe, NothingLost, NeverAmbiguous, Ambiguous, Audio, Restorable, progress, Cleanup
<1>3. Removal'
  BY DEF Safe, Removal, progress, Cleanup
<1>4. Recovering' /\ Committing'
  BY DEF Safe, Recovering, Committing, progress, Cleanup
<1> QED
  BY <1>1, <1>2, <1>3, <1>4 DEF Safe

LEMMA DiscardedSafe == ASSUME Safe, Discarded PROVE Safe'
<1>1. TypeOK'
  BY DEF Safe, TypeOK, progress, Discarded
<1>2. NothingLost' /\ NeverAmbiguous' /\ Restorable'
  BY DEF Safe, NothingLost, NeverAmbiguous, Ambiguous, Audio, Restorable, progress, Discarded
<1>3. Removal'
  BY DEF Safe, Removal, progress, Discarded
<1>4. Recovering' /\ Committing'
  BY DEF Safe, Recovering, Committing, progress, Discarded
<1> QED
  BY <1>1, <1>2, <1>3, <1>4 DEF Safe

LEMMA BootSafe == ASSUME Safe, Boot PROVE Safe'
<1>1. TypeOK'
  BY DEF Safe, TypeOK, progress, Boot
<1>2. NothingLost' /\ NeverAmbiguous' /\ Restorable'
  BY DEF Safe, NothingLost, NeverAmbiguous, Ambiguous, Audio, Restorable, progress, Boot
<1>3. Removal'
  BY DEF Safe, Removal, progress, Boot
<1>4. Recovering' /\ Committing'
  BY DEF Safe, Recovering, Committing, progress, Boot
<1> QED
  BY <1>1, <1>2, <1>3, <1>4 DEF Safe

LEMMA CrashSafe == ASSUME Safe, Crash PROVE Safe'
<1>1. TypeOK'
  <2>1. used = [crash |-> used.crash, fail |-> used.fail] /\ used.crash \in Nat /\ used.fail \in Nat
    BY DEF Safe, TypeOK
  <2>2. used' = [crash |-> used.crash + 1, fail |-> used.fail]
    BY <2>1 DEF Crash
  <2>3. used' \in [crash : Nat, fail : Nat]
    BY <2>1, <2>2
  <2>4. UNCHANGED <<disk, marker, owned, writer, protect, written, kept, offered>> /\ pc' = "down"
        /\ todo' = {} /\ movedIn' = {} /\ backedUp' = {} /\ scratch' = {}
    BY DEF Crash
  <2> QED
    BY <2>3, <2>4 DEF Safe, TypeOK
<1>2. NothingLost' /\ NeverAmbiguous' /\ Restorable'
  BY DEF Safe, NothingLost, NeverAmbiguous, Ambiguous, Audio, Restorable, progress, Crash
<1>3. Removal'
  BY DEF Safe, Removal, progress, Crash
<1>4. Recovering' /\ Committing'
  BY DEF Safe, Recovering, Committing, progress, Crash
<1> QED
  BY <1>1, <1>2, <1>3, <1>4 DEF Safe

LEMMA PrepareFailsSafe == ASSUME Safe, PrepareFails PROVE Safe'
<1>1. TypeOK'
  BY FailTyped DEF Safe, TypeOK, progress, PrepareFails, Abort
<1>2. NothingLost' /\ NeverAmbiguous' /\ Restorable'
  BY DEF Safe, NothingLost, NeverAmbiguous, Ambiguous, Audio, Restorable, progress, PrepareFails
<1>3. Removal'
  BY DEF Safe, Removal, progress, PrepareFails, Abort
<1>4. Recovering' /\ Committing'
  BY DEF Safe, Recovering, Committing, progress, PrepareFails, Abort
<1> QED
  BY <1>1, <1>2, <1>3, <1>4 DEF Safe

LEMMA CopyFailsSafe == ASSUME Safe, CopyFails PROVE Safe'
<1>1. TypeOK'
  BY FailTyped DEF Safe, TypeOK, progress, CopyFails
<1>2. NothingLost' /\ NeverAmbiguous' /\ Restorable'
  BY DEF Safe, NothingLost, NeverAmbiguous, Ambiguous, Audio, Restorable, progress, CopyFails
<1>3. Removal'
  BY DEF Safe, Removal, progress, CopyFails
<1>4. Recovering' /\ Committing'
  BY DEF Safe, Recovering, Committing, progress, CopyFails
<1> QED
  BY <1>1, <1>2, <1>3, <1>4 DEF Safe

LEMMA LateFailureSafe == ASSUME Safe, LateFailure PROVE Safe'
<1>1. TypeOK'
  BY FailTyped DEF Safe, TypeOK, progress, LateFailure
<1>2. NothingLost' /\ NeverAmbiguous' /\ Restorable'
  BY DEF Safe, NothingLost, NeverAmbiguous, Ambiguous, Audio, Restorable, progress, LateFailure
<1>3. Removal'
  BY DEF Safe, Removal, progress, LateFailure
<1>4. Recovering' /\ Committing'
  BY DEF Safe, Recovering, Committing, progress, LateFailure
<1> QED
  BY <1>1, <1>2, <1>3, <1>4 DEF Safe

LEMMA BootFailsSafe == ASSUME Safe, BootFails PROVE Safe'
<1>1. TypeOK'
  BY FailTyped DEF Safe, TypeOK, progress, BootFails
<1>2. NothingLost' /\ NeverAmbiguous' /\ Restorable'
  BY DEF Safe, NothingLost, NeverAmbiguous, Ambiguous, Audio, Restorable, progress, BootFails
<1>3. Removal'
  BY DEF Safe, Removal, progress, BootFails
<1>4. Recovering' /\ Committing'
  BY DEF Safe, Recovering, Committing, progress, BootFails
<1> QED
  BY <1>1, <1>2, <1>3, <1>4 DEF Safe

LEMMA LeftSafe == ASSUME Safe, NEW f \in Folders, Left(f) PROVE Safe'
<1>1. TypeOK'
  BY FailTyped DEF Safe, TypeOK, progress, Left
<1>2. NothingLost' /\ NeverAmbiguous' /\ Restorable'
  BY DEF Safe, NothingLost, NeverAmbiguous, Ambiguous, Audio, Restorable, progress, Left
<1>3. Removal'
  BY DEF Safe, Removal, Bare, progress, Left
<1>4. Recovering' /\ Committing'
  BY DEF Safe, Recovering, Committing, progress, Left
<1> QED
  BY <1>1, <1>2, <1>3, <1>4 DEF Safe

LEMMA RemovedSafe == ASSUME Safe, NEW f \in Folders, Removed(f) PROVE Safe'
<1>1. TypeOK'
  BY DEF Safe, TypeOK, progress, Removed
<1>2. NothingLost' /\ NeverAmbiguous' /\ Restorable'
  BY DEF Safe, NothingLost, NeverAmbiguous, Ambiguous, Audio, Restorable, progress, Removed
<1>3. Removal'
  BY NoAudio DEF Safe, Removal, Bare, progress, Removed
<1>4. Recovering' /\ Committing'
  BY DEF Safe, Recovering, Committing, Bare, progress, Removed
<1> QED
  BY <1>1, <1>2, <1>3, <1>4 DEF Safe

\* Steps that raise or lower the marker, or start a commit
LEMMA UnmarkSafe == ASSUME Safe, Unmark PROVE Safe'
<1>1. TypeOK'
  BY DEF Safe, TypeOK, progress, Unmark
<1>2. NothingLost' /\ Restorable'
  BY DEF Safe, NothingLost, Restorable, Bare, Recovering, progress, Unmark
<1>3. (marker => Bare("backup") \/ Bare("legacy"))'
  BY DEF Safe, progress, Unmark
<1>4. NeverAmbiguous'
  BY <1>3 DEF NeverAmbiguous, Ambiguous, Audio, Bare
<1>5. Removal'
  BY DEF Safe, Removal, progress, Unmark
<1>6. Recovering' /\ Committing'
  BY DEF Safe, Recovering, Committing, Bare, progress, Unmark
<1> QED
  BY <1>1, <1>2, <1>4, <1>5, <1>6 DEF Safe

LEMMA ListSafe == ASSUME Safe, List PROVE Safe'
<1>1. TypeOK'
  BY DEF Safe, TypeOK, progress, List, Audio, Folders
<1>2. NothingLost' /\ Restorable'
  BY DEF Safe, NothingLost, Restorable, Committing, progress, List
<1>3. (marker => Bare("backup") \/ Bare("legacy"))'
  BY DEF Safe, Committing, progress, List
<1>4. NeverAmbiguous'
  BY <1>3 DEF NeverAmbiguous, Ambiguous, Audio, Bare
<1>5. Removal'
  BY DEF Safe, Removal, progress, List
<1>6. Recovering' /\ Committing'
  BY DEF Safe, TypeOK, Recovering, Committing, Bare, Audio, progress, List
<1> QED
  BY <1>1, <1>2, <1>4, <1>5, <1>6 DEF Safe

LEMMA ArmSafe == ASSUME Safe, Arm PROVE Safe'
<1>1. TypeOK'
  BY DEF Safe, TypeOK, progress, Arm
<1>2. NothingLost' /\ Restorable'
  BY DEF Safe, NothingLost, Restorable, Bare, Committing, progress, Arm
<1>3. (marker => Bare("backup") \/ Bare("legacy"))'
  BY DEF Safe, Bare, Committing, progress, Arm
<1>4. NeverAmbiguous'
  BY <1>3 DEF NeverAmbiguous, Ambiguous, Audio, Bare
<1>5. Removal'
  BY DEF Safe, Removal, progress, Arm
<1>6. Recovering' /\ Committing'
  BY DEF Safe, Recovering, Committing, Bare, progress, Arm
<1> QED
  BY <1>1, <1>2, <1>4, <1>5, <1>6 DEF Safe

LEMMA SignalSafe == ASSUME Safe, Signal PROVE Safe'
<1>1. TypeOK'
  BY DEF Safe, TypeOK, progress, Signal, Folders
<1>2. NothingLost' /\ Restorable'
  BY DEF Safe, NothingLost, Restorable, progress, Signal
<1>3. (marker => Bare("backup") \/ Bare("legacy"))'
  BY DEF Safe, progress, Signal
<1>4. NeverAmbiguous'
  BY <1>3 DEF NeverAmbiguous, Ambiguous, Audio, Bare
<1>5. Removal'
  BY DEF Safe, Removal, progress, Signal
<1>6. Recovering' /\ Committing'
  BY DEF Safe, Recovering, Committing, progress, Signal
<1> QED
  BY <1>1, <1>2, <1>4, <1>5, <1>6 DEF Safe

LEMMA CommitFailsSafe == ASSUME Safe, CommitFails PROVE Safe'
<1>1. TypeOK'
  BY FailTyped DEF Safe, TypeOK, CommitFails
<1>2. marker' = marker \/ (pc = "arm" /\ marker' = TRUE /\ ~marker)
  BY DEF CommitFails, Safe, Committing
<1>3. UNCHANGED <<disk, owned, protect, movedIn, backedUp, scratch, kept>>
      /\ pc' = "undo" /\ todo' = backedUp /\ pc \in {"arm", "backUp", "moveIn"}
  BY DEF CommitFails
<1>4. (marker' => marker) \/ (Bare("backup") /\ Bare("legacy") /\ movedIn = {} /\ backedUp = {})
  BY <1>2 DEF Safe, Committing
<1>5. marker => marker'
  BY <1>2 DEF Safe, TypeOK
<1>6. NothingLost' /\ Restorable'
  BY <1>3, <1>4, <1>5 DEF Safe, NothingLost, Restorable, Bare
<1>7. NeverAmbiguous'
  BY <1>3, <1>4 DEF Safe, NeverAmbiguous, Ambiguous, Audio, Bare
<1>8. Removal'
  BY <1>3 DEF Safe, Removal
<1>9. Recovering' /\ Committing'
  BY <1>3, <1>5 DEF Safe, TypeOK, Recovering, Committing, Bare
<1> QED
  BY <1>1, <1>6, <1>7, <1>8, <1>9 DEF Safe

\* Steps that move, copy or remove a file
LEMMA BackUpSafe == ASSUME Safe, NEW n \in Names, BackUp(n) PROVE Safe'
<1>1. /\ disk' \in [Folders -> Contents]
      /\ disk'["backup"][n] = disk["target"][n] /\ disk'["target"][n] = None
      /\ \A f \in Folders, k \in Names : k # n \/ f \notin {"target", "backup"} => disk'[f][k] = disk[f][k]
  <2>1. TypeOK /\ Move("target", "backup", n)
    BY DEF Safe, BackUp
  <2>2. "target" \in Folders /\ "backup" \in Folders /\ "target" # "backup"
    BY DEF Folders
  <2> HIDE DEF Folders
  <2> QED
    BY <2>1, <2>2, MoveEffect
<1>2. TypeOK'
  BY <1>1 DEF Safe, TypeOK, progress, BackUp
<1>3. /\ pc = "backUp" /\ pc' = pc /\ marker /\ marker' /\ n \in todo
      /\ disk["target"][n] = kept[n] /\ kept[n] # None
      /\ todo' = todo \ {n} /\ backedUp' = backedUp \cup {n}
      /\ UNCHANGED <<kept, movedIn, owned, protect, scratch>>
  BY DEF Safe, TypeOK, Committing, BackUp
<1>4. /\ disk'["backup"][n] = kept[n]
      /\ \A k \in Names : disk'["legacy"][k] = disk["legacy"][k]
      /\ \A k \in Names \ {n} : /\ disk'["target"][k] = disk["target"][k]
                               /\ disk'["backup"][k] = disk["backup"][k]
  BY <1>1, <1>3 DEF Folders
<1>5. NothingLost' /\ Restorable'
  BY <1>3, <1>4 DEF Safe, NothingLost, Restorable
<1>6. (marker => Bare("backup") \/ Bare("legacy"))'
  BY <1>1 DEF Safe, TypeOK, Bare, Removal, Recovering, Committing, Folders, progress, BackUp
<1>7. NeverAmbiguous'
  BY <1>6 DEF NeverAmbiguous, Ambiguous, Audio, Bare
<1>8. Removal'
  BY DEF Safe, Removal, progress, BackUp
<1>9. Recovering' /\ Committing'
  BY <1>3, <1>4 DEF Safe, TypeOK, Recovering, Committing, Bare
<1> QED
  BY <1>2, <1>5, <1>7, <1>8, <1>9 DEF Safe

LEMMA MoveInSafe == ASSUME Safe, NEW n \in Names, MoveIn(n) PROVE Safe'
<1>1. /\ disk' \in [Folders -> Contents]
      /\ disk'["target"][n] = disk["staging"][n] /\ disk'["staging"][n] = None
      /\ \A f \in Folders, k \in Names : k # n \/ f \notin {"staging", "target"} => disk'[f][k] = disk[f][k]
  <2>1. TypeOK /\ Move("staging", "target", n)
    BY DEF Safe, MoveIn
  <2>2. "staging" \in Folders /\ "target" \in Folders /\ "staging" # "target"
    BY DEF Folders
  <2> HIDE DEF Folders
  <2> QED
    BY <2>1, <2>2, MoveEffect
<1>2. TypeOK'
  BY <1>1 DEF Safe, TypeOK, progress, MoveIn
<1>3. NothingLost' /\ Restorable'
  BY <1>1, Ambiguity, ZenonT(60) DEF Safe, TypeOK, Contents, NothingLost, Restorable, Bare, Removal,
     Recovering, Committing, Folders, progress, MoveIn
<1>4. (marker => Bare("backup") \/ Bare("legacy"))'
  BY <1>1, Ambiguity, ZenonT(30) DEF Safe, TypeOK, Bare, Removal, Recovering, Committing, Folders,
     progress, MoveIn
<1>5. NeverAmbiguous'
  BY <1>4 DEF NeverAmbiguous, Ambiguous, Audio, Bare
<1>6. Removal'
  BY DEF Safe, Removal, progress, MoveIn
<1>7. Recovering' /\ Committing'
  BY <1>1, Ambiguity, NoAudio, ZenonT(30) DEF Safe, TypeOK, Contents, Restorable, Removal, Recovering,
     Committing, Bare, Folders, Audio, progress, MoveIn
<1> QED
  BY <1>2, <1>3, <1>5, <1>6, <1>7 DEF Safe

LEMMA RestoreSafe == ASSUME Safe, NEW n \in Names, Restore(n) PROVE Safe'
<1>1. PICK f \in {"backup", "legacy"} : disk[f][n] # None /\ Move(f, "target", n)
  BY DEF Restore
<1>2. /\ TypeOK /\ pc = "restore" /\ pc' = pc /\ marker /\ marker' /\ n \in todo /\ todo' = todo \ {n}
      /\ UNCHANGED <<owned, writer, protect, movedIn, backedUp, scratch, written, kept, offered, used>>
  BY DEF Restore, Safe, TypeOK
<1>3. f \in Folders /\ "target" \in Folders /\ f # "target"
  BY DEF Folders
<1>4. /\ disk' \in [Folders -> Contents]
      /\ disk'["target"][n] = disk[f][n] /\ disk'[f][n] = None
      /\ \A g \in Folders, k \in Names : k # n \/ g \notin {f, "target"} => disk'[g][k] = disk[g][k]
  BY <1>1, <1>2, <1>3, MoveEffect
<1>5. /\ disk[f][n] = kept[n]
      /\ \A g \in {"backup", "legacy"} : g # f => disk[g][n] = None
  BY <1>1, <1>2, Ambiguity DEF Safe, Restorable, Bare
<1>6. TypeOK'
  BY <1>2, <1>4 DEF TypeOK
<1>7. NothingLost'
  BY <1>2, <1>4, <1>5 DEF Safe, NothingLost, Folders
<1>8. Restorable' /\ Removal'
  BY <1>2, <1>4 DEF Safe, Restorable, Removal, Folders
<1>9. (marker => Bare("backup") \/ Bare("legacy"))'
  BY <1>2, <1>4, Ambiguity DEF Safe, Bare, Folders
<1>10. NeverAmbiguous'
  BY <1>9 DEF NeverAmbiguous, Ambiguous, Audio, Bare
<1>11. Recovering' /\ Committing'
  BY <1>2, <1>4, <1>5 DEF Safe, Recovering, Committing, Folders
<1> QED
  BY <1>6, <1>7, <1>8, <1>10, <1>11 DEF Safe

LEMMA CopySafe == ASSUME Safe, NEW n \in Names, Copy(n) PROVE Safe'
<1>1. /\ disk' \in [Folders -> Contents]
      /\ \A f \in Folders \ {"staging"}, k \in Names : disk'[f][k] = disk[f][k]
  <2>1. TypeOK /\ written \in Nat /\ "staging" \in Folders
    BY DEF Safe, TypeOK, Folders
  <2>2. disk' = [disk EXCEPT !["staging"][n] = written]
    BY DEF Copy
  <2> QED
    BY <2>1, <2>2, PutEffect
<1>2. /\ pc = "copy" /\ pc' = pc
      /\ UNCHANGED <<marker, owned, writer, protect, todo, movedIn, backedUp, scratch, written, kept, offered, used>>
  BY DEF Copy, progress
<1>3. TypeOK'
  BY <1>1, <1>2 DEF Safe, TypeOK
<1>4. NothingLost' /\ Restorable' /\ Removal' /\ Recovering' /\ Committing'
  BY <1>1, <1>2 DEF Safe, NothingLost, Restorable, Removal, Recovering, Committing, Bare, Folders
<1>5. NeverAmbiguous'
  BY <1>1, <1>2 DEF Safe, Committing, NeverAmbiguous
<1> QED
  BY <1>3, <1>4, <1>5 DEF Safe

LEMMA UndoSafe == ASSUME Safe, NEW n \in Names, Undo(n) PROVE Safe'
<1>1. /\ TypeOK /\ pc = "undo" /\ pc' = pc /\ n \in movedIn /\ movedIn' = movedIn \ {n}
      /\ UNCHANGED <<marker, owned, writer, protect, todo, backedUp, scratch, written, kept, offered>>
  BY DEF Undo, Safe
<1>2. /\ disk' \in [Folders -> Contents] /\ used' \in [crash : Nat, fail : Nat]
      /\ \A f \in Folders, k \in Names : f # "target" \/ k # n => disk'[f][k] = disk[f][k]
  <2>1. CASE Delete("target", n) /\ UNCHANGED used
    <3>1. Delete("target", n) /\ "target" \in Folders
      BY <2>1 DEF Folders
    <3>2. used' \in [crash : Nat, fail : Nat]
      BY <2>1, <1>1 DEF TypeOK
    <3>3. /\ disk' \in [Folders -> Contents]
          /\ \A f \in Folders, k \in Names : k # n \/ f # "target" => disk'[f][k] = disk[f][k]
      BY <1>1, <3>1, DeleteEffect
    <3> QED
      BY <3>2, <3>3
  <2>2. CASE Fails /\ UNCHANGED disk
    BY <2>2, <1>1, FailTyped DEF TypeOK
  <2> QED
    BY <2>1, <2>2 DEF Undo
<1>3. TypeOK'
  BY <1>1, <1>2 DEF TypeOK
<1>4. kept[n] # None => marker /\ disk["backup"][n] = kept[n]
  BY <1>1 DEF Safe, Committing
<1>5. NothingLost'
  BY <1>1, <1>2, <1>4 DEF Safe, NothingLost, Folders
<1>6. Restorable' /\ Removal' /\ Recovering'
  BY <1>1, <1>2 DEF Safe, Restorable, Removal, Recovering, Folders
<1>7. Committing'
  BY <1>1, <1>2 DEF Safe, TypeOK, Committing, Bare, Folders
<1>8. (marker => Bare("backup") \/ Bare("legacy"))'
  BY <1>1, <1>2, Ambiguity DEF Safe, Bare, Folders
<1>9. NeverAmbiguous'
  BY <1>8 DEF NeverAmbiguous, Ambiguous, Audio, Bare
<1> QED
  BY <1>3, <1>5, <1>9, <1>6, <1>7 DEF Safe

LEMMA PutBackSafe == ASSUME Safe, NEW n \in Names, PutBack(n) PROVE Safe'
<1>1. /\ TypeOK /\ pc = "undo" /\ pc' = pc /\ movedIn = {} /\ n \in todo /\ todo' = todo \ {n}
      /\ marker /\ marker' /\ disk["backup"][n] = kept[n]
      /\ UNCHANGED <<owned, writer, protect, movedIn, backedUp, scratch, written, kept, offered>>
  BY DEF PutBack, Safe, Committing, Restorable
<1>2. /\ disk' \in [Folders -> Contents] /\ used' \in [crash : Nat, fail : Nat]
      /\ \A f \in Folders, k \in Names : f \notin {"backup", "target"} \/ k # n => disk'[f][k] = disk[f][k]
      /\ \/ disk'["target"][n] = kept[n] /\ disk'["backup"][n] = None
         \/ disk'["target"][n] = disk["target"][n] /\ disk'["backup"][n] = disk["backup"][n]
  <2>1. CASE Move("backup", "target", n) /\ UNCHANGED used
    <3>1. "backup" \in Folders /\ "target" \in Folders /\ "backup" # "target"
      BY DEF Folders
    <3>2. used' \in [crash : Nat, fail : Nat]
      BY <2>1, <1>1 DEF TypeOK
    <3> QED
      BY <1>1, <2>1, <3>1, <3>2, MoveEffect
  <2>2. CASE Fails /\ UNCHANGED disk
    BY <2>2, <1>1, FailTyped DEF TypeOK
  <2> QED
    BY <2>1, <2>2 DEF PutBack
<1>3. TypeOK'
  BY <1>1, <1>2 DEF TypeOK
<1>4. NothingLost' /\ Restorable'
  BY <1>1, <1>2 DEF Safe, NothingLost, Restorable, Folders
<1>5. Removal' /\ Recovering'
  BY <1>1 DEF Safe, Removal, Recovering
<1>6. Committing'
  <2>1. \A k \in Names : k # n => disk'["backup"][k] = disk["backup"][k]
    BY <1>2 DEF Folders
  <2>2. \A k \in todo' : k # n /\ k \in Names /\ disk["backup"][k] # None
    BY <1>1 DEF Safe, TypeOK, Committing
  <2>3. \A k \in Names : disk'["legacy"][k] = disk["legacy"][k]
    BY <1>2 DEF Folders
  <2> QED
    BY <1>1, <2>1, <2>2, <2>3 DEF Safe, Committing, Bare
<1>7. (marker => Bare("backup") \/ Bare("legacy"))'
  BY <1>1, <1>2, Ambiguity DEF Safe, Bare, Folders
<1>8. NeverAmbiguous'
  BY <1>7 DEF NeverAmbiguous, Ambiguous, Audio, Bare
<1> QED
  BY <1>3, <1>4, <1>5, <1>8, <1>6 DEF Safe

LEMMA RemoveSafe == ASSUME Safe, NEW f \in Folders, NEW n \in Names, Remove(f, n) PROVE Safe'
<1>1. /\ TypeOK /\ f \in scratch /\ disk[f][n] # None /\ pc' = pc
      /\ kept' = IF f = "target" /\ ~owned THEN [kept EXCEPT ![n] = None] ELSE kept
      /\ UNCHANGED <<marker, owned, writer, protect, todo, movedIn, backedUp, scratch, written, offered, used>>
  BY DEF Remove, Safe, progress
<1>2. /\ disk' \in [Folders -> Contents] /\ disk'[f][n] = None
      /\ \A g \in Folders, k \in Names : g # f \/ k # n => disk'[g][k] = disk[g][k]
  <2>1. TypeOK /\ Delete(f, n)
    BY <1>1 DEF Remove
  <2> QED
    BY <2>1, DeleteEffect
<1>3. /\ pc \in {"clear", "tidy", "discard"}
      /\ f \in {"backup", "legacy"} => ~marker
      /\ f = "target" => ~owned /\ ~marker
  BY <1>1 DEF Safe, Removal, Bare
<1>4. /\ kept' \in Contents /\ (marker => kept' = kept)
      /\ \A k \in Names : kept'[k] = kept[k] \/ kept'[k] = None
      /\ f = "target" => kept'[n] = None
  BY <1>1, <1>3 DEF TypeOK, Contents
<1>5. TypeOK'
  BY <1>1, <1>2, <1>4 DEF TypeOK
<1>6. NothingLost' /\ Restorable'
  BY <1>1, <1>2, <1>3, <1>4 DEF Safe, NothingLost, Restorable, Folders
<1>7. Removal' /\ Recovering' /\ Committing'
  BY <1>1, <1>2, <1>3, <1>4, ZenonT(30) DEF Safe, Removal, Recovering, Committing, Bare, Folders
<1>8. (marker => Bare("backup") \/ Bare("legacy"))'
  BY <1>1, <1>2, Ambiguity DEF Safe, Bare, Folders
<1>9. NeverAmbiguous'
  BY <1>8 DEF NeverAmbiguous, Ambiguous, Audio, Bare
<1> QED
  BY <1>5, <1>6, <1>7, <1>9 DEF Safe

-----------------------------------------------------------------------------
LEMMA NextSafe == Safe /\ [Next]_vars => Safe'
<1> SUFFICES ASSUME Safe, [Next]_vars PROVE Safe'
  OBVIOUS
<1>1. CASE Step
  BY <1>1, PrepareSafe, EnumerateSafe, RestoredSafe, ClearedSafe, UnmarkSafe, CopiedSafe, ListSafe,
     ArmSafe, BackedUpSafe, SignalSafe, UndoneSafe, TidiedSafe, PromoteSafe, EnrichedSafe, CleanupSafe,
     DiscardedSafe, BootSafe, RestoreSafe, CopySafe, BackUpSafe, MoveInSafe, UndoSafe, PutBackSafe,
     RemovedSafe, RemoveSafe DEF Step
<1>2. CASE Failure
  BY <1>2, PrepareFailsSafe, CopyFailsSafe, CommitFailsSafe, LateFailureSafe, BootFailsSafe, LeftSafe DEF Failure
<1>3. CASE UNCHANGED vars
  <2>1. UNCHANGED <<disk, marker, owned, pc, writer, protect, todo, movedIn, backedUp, scratch, written, kept,
                    offered, used>>
    BY <1>3 DEF vars, progress
  <2>2. TypeOK' /\ NothingLost' /\ Restorable'
    BY <2>1 DEF Safe, TypeOK, NothingLost, Restorable
  <2>3. NeverAmbiguous'
    BY <2>1 DEF Safe, NeverAmbiguous, Ambiguous, Audio
  <2>4. Removal'
    BY <2>1 DEF Safe, Removal, Bare
  <2>5. Recovering' /\ Committing'
    BY <2>1 DEF Safe, Recovering, Committing, Bare
  <2> QED
    BY <2>2, <2>3, <2>4, <2>5 DEF Safe
<1> QED
  BY <1>1, <1>2, <1>3, CrashSafe, BeginSafe DEF Next

\* The inductive invariant: while the marker is up, a backup holds only what the target held, and in
\* each phase of commitStagedImport, its rollback and recoverInterruptedBackup it is known where.
THEOREM CommitSafety == Spec => []Safe
  BY InitSafe, NextSafe, PTL DEF Spec

\* Types, and no file of the target is moved without the marker.
THEOREM CommitTyped == Spec => []TypeOK
<1>1. Safe => TypeOK
  BY DEF Safe
<1> QED
  BY <1>1, CommitSafety, PTL

\* No file is lost, however often commits, rollbacks and recoveries fail or crash.
THEOREM NoAudioLost == Spec => []NothingLost
<1>1. Safe => NothingLost
  BY DEF Safe
<1> QED
  BY <1>1, CommitSafety, PTL

\* BackupAmbiguityError is never raised for what this program and its earlier versions leave.
THEOREM OneBackup == Spec => []NeverAmbiguous
<1>1. Safe => NeverAmbiguous
  BY DEF Safe
<1> QED
  BY <1>1, CommitSafety, PTL

-----------------------------------------------------------------------------
(* One failing operation: nothing but the old audio or the new *)

\* No process has died, and at most one file operation has failed
OneFailure == used.crash = 0 /\ used.fail <= 1

\* What the target has beyond what it must hold has just been moved in, and the rollback, which only
\* a failure begins, takes it out again
NothingExtra ==
  /\ pc = "undo" => used.fail >= 1
  /\ OneFailure => \A n \in Names : disk["target"][n] # None /\ kept[n] = None =>
                     pc \in {"moveIn", "undo"} /\ n \in movedIn

\* An operation that fails is counted
LEMMA FailCounts ==
  ASSUME TypeOK, Fails
  PROVE  used'.crash = used.crash /\ used'.fail = used.fail + 1 /\ used.fail \in Nat
BY DEF Fails, TypeOK

\* Outside the move and its rollback nothing may appear in the target that it need not hold
LEMMA StillExtra ==
  ASSUME TypeOK, NothingExtra, pc \notin {"moveIn", "undo"}, pc' # "undo",
         used' = used \/ Fails,
         \A n \in Names : disk'["target"][n] # None /\ kept'[n] = None =>
                            disk["target"][n] # None /\ kept[n] = None
  PROVE  NothingExtra'
<1>1. OneFailure' => OneFailure
  BY FailCounts DEF OneFailure
<1> QED
  BY <1>1 DEF NothingExtra

LEMMA InitExtra == Init => NothingExtra
  BY DEF Init, NothingExtra, Audio

\* Steps of a recovery, of staging and of what follows a commit
LEMMA AroundExtra ==
  ASSUME Safe, NothingExtra,
         \/ Prepare \/ Enumerate \/ Restored \/ Cleared \/ Unmark \/ Copied \/ Arm \/ BackedUp
         \/ Tidied \/ Promote \/ Enriched \/ Cleanup \/ Discarded \/ Boot
         \/ PrepareFails \/ CopyFails \/ LateFailure \/ BootFails
         \/ \E f \in Folders : Removed(f) \/ Left(f)
         \/ \E w \in {"import", "replace", "recover"} : Begin(w)
  PROVE  NothingExtra'
<1>1. /\ UNCHANGED <<disk, kept>> /\ (used' = used \/ Fails)
      /\ pc \notin {"moveIn", "undo"} /\ pc' # "undo"
  BY DEF Safe, Removal, Prepare, Enumerate, Restored, Cleared, Unmark, Copied, Arm, BackedUp, Tidied, Promote,
     Enriched, Cleanup, Discarded, Boot, PrepareFails, CopyFails, LateFailure, BootFails, Removed, Left,
     Begin, Abort
<1> QED
  BY <1>1, StillExtra DEF Safe

\* A file of the backup goes back to the target, which is to hold it
LEMMA RestoreExtra == ASSUME Safe, NothingExtra, NEW n \in Names, Restore(n) PROVE NothingExtra'
<1>1. PICK f \in {"backup", "legacy"} : disk[f][n] # None /\ Move(f, "target", n)
  BY DEF Restore
<1>2. TypeOK /\ marker /\ pc = "restore" /\ pc' = pc /\ UNCHANGED <<kept, used>>
  BY DEF Restore, Safe, TypeOK
<1>3. f \in Folders /\ "target" \in Folders /\ f # "target"
  BY DEF Folders
<1>4. \A k \in Names \ {n} : disk'["target"][k] = disk["target"][k]
  BY <1>1, <1>2, <1>3, MoveEffect
<1>5. kept[n] # None
  BY <1>1, <1>2 DEF Safe, Restorable
<1> QED
  BY <1>2, <1>4, <1>5, StillExtra

\* Staging is beside the target, and the commit lists what the target holds
LEMMA StageExtra ==
  ASSUME Safe, NothingExtra, List \/ \E n \in Names : Copy(n)
  PROVE  NothingExtra'
<1>1. CASE List
  BY <1>1, StillExtra DEF List, Safe
<1>2. ASSUME NEW n \in Names, Copy(n) PROVE NothingExtra'
  <2>1. TypeOK /\ written \in Nat /\ "staging" \in Folders /\ "target" \in Folders
    BY DEF Safe, TypeOK, Folders
  <2>2. disk' = [disk EXCEPT !["staging"][n] = written] /\ pc = "copy" /\ pc' = pc /\ UNCHANGED <<kept, used>>
    BY <1>2 DEF Copy
  <2>3. \A k \in Names : disk'["target"][k] = disk["target"][k]
    BY <2>1, <2>2, PutEffect
  <2> QED
    BY <2>1, <2>2, <2>3, StillExtra
<1> QED
  BY <1>1, <1>2

\* Files leave the target, and with a file that a failed import gives up its claim
LEMMA OutExtra ==
  ASSUME Safe, NothingExtra, NEW n \in Names, BackUp(n) \/ \E f \in Folders : Remove(f, n)
  PROVE  NothingExtra'
<1>1. CASE BackUp(n)
  <2>1. TypeOK /\ pc = "backUp" /\ pc' = pc /\ Move("target", "backup", n) /\ UNCHANGED <<kept, used>>
    BY <1>1 DEF BackUp, Safe
  <2>2. "target" \in Folders /\ "backup" \in Folders /\ "target" # "backup"
    BY DEF Folders
  <2>3. disk'["target"][n] = None /\ \A k \in Names \ {n} : disk'["target"][k] = disk["target"][k]
    BY <2>1, <2>2, MoveEffect
  <2> QED
    BY <2>1, <2>3, StillExtra
<1>2. ASSUME NEW f \in Folders, Remove(f, n) PROVE NothingExtra'
  <2>1. /\ TypeOK /\ Delete(f, n) /\ pc \in {"clear", "tidy", "discard"} /\ pc' = pc /\ used' = used
        /\ kept' = IF f = "target" /\ ~owned THEN [kept EXCEPT ![n] = None] ELSE kept
    BY <1>2 DEF Remove, Safe, Removal, progress
  <2>2. "target" \in Folders /\ \A k \in Names \ {n} : kept'[k] = kept[k]
    BY <2>1 DEF TypeOK, Contents, Folders
  <2>3. CASE f = "target"
    <3>1. disk'["target"][n] = None /\ \A k \in Names \ {n} : disk'["target"][k] = disk["target"][k]
      BY <2>1, <2>2, <2>3, DeleteEffect
    <3> QED
      BY <2>1, <2>2, <3>1, StillExtra
  <2>4. CASE f # "target"
    <3>1. kept' = kept /\ \A k \in Names : disk'["target"][k] = disk["target"][k]
      BY <2>1, <2>2, <2>4, DeleteEffect
    <3> QED
      BY <2>1, <3>1, StillExtra
  <2> QED
    BY <2>3, <2>4
<1> QED
  BY <1>1, <1>2

LEMMA MoveInExtra == ASSUME Safe, NothingExtra, NEW n \in Names, MoveIn(n) PROVE NothingExtra'
<1>1. /\ TypeOK /\ pc = "moveIn" /\ pc' = pc /\ Move("staging", "target", n)
      /\ movedIn' = movedIn \cup {n} /\ UNCHANGED <<kept, used>>
  BY DEF MoveIn, Safe
<1>2. "staging" \in Folders /\ "target" \in Folders /\ "staging" # "target"
  BY DEF Folders
<1>3. \A k \in Names \ {n} : disk'["target"][k] = disk["target"][k]
  BY <1>1, <1>2, MoveEffect
<1> QED
  BY <1>1, <1>3 DEF NothingExtra, OneFailure

\* From the signal on the target must hold what it has
LEMMA SignalExtra == ASSUME Safe, NothingExtra, Signal PROVE NothingExtra'
  BY DEF Signal, NothingExtra

\* The rollback: only a second failure leaves a file that was moved in
LEMMA CommitFailsExtra == ASSUME Safe, NothingExtra, CommitFails PROVE NothingExtra'
<1>1. TypeOK /\ Fails /\ pc' = "undo" /\ UNCHANGED <<disk, kept, movedIn>> /\ pc # "undo"
  BY DEF CommitFails, Safe
<1>2. used'.crash = used.crash /\ used'.fail = used.fail + 1 /\ used.fail \in Nat
  BY <1>1, FailCounts
<1> QED
  BY <1>1, <1>2 DEF NothingExtra, OneFailure

LEMMA UndoExtra == ASSUME Safe, NothingExtra, NEW n \in Names, Undo(n) PROVE NothingExtra'
<1>1. TypeOK /\ pc = "undo" /\ pc' = pc /\ movedIn' = movedIn \ {n} /\ kept' = kept /\ used.fail >= 1
  BY DEF Undo, Safe, NothingExtra
<1>2. CASE Delete("target", n) /\ UNCHANGED used
  <2>1. "target" \in Folders
    BY DEF Folders
  <2>2. disk'["target"][n] = None /\ \A k \in Names \ {n} : disk'["target"][k] = disk["target"][k]
    BY <1>1, <1>2, <2>1, DeleteEffect
  <2> QED
    BY <1>1, <1>2, <2>2 DEF NothingExtra, OneFailure
<1>3. CASE Fails /\ UNCHANGED disk
  <2>1. used'.fail = used.fail + 1 /\ used.fail \in Nat
    BY <1>1, <1>3, FailCounts
  <2> QED
    BY <1>1, <2>1 DEF NothingExtra, OneFailure
<1> QED
  BY <1>2, <1>3 DEF Undo

LEMMA PutBackExtra == ASSUME Safe, NothingExtra, NEW n \in Names, PutBack(n) PROVE NothingExtra'
<1>1. /\ TypeOK /\ pc = "undo" /\ pc' = pc /\ UNCHANGED <<kept, movedIn>> /\ used.fail >= 1
      /\ kept[n] # None
  BY DEF PutBack, Safe, NothingExtra, Committing, Restorable
<1>2. CASE Move("backup", "target", n) /\ UNCHANGED used
  <2>1. "backup" \in Folders /\ "target" \in Folders /\ "backup" # "target"
    BY DEF Folders
  <2>2. \A k \in Names \ {n} : disk'["target"][k] = disk["target"][k]
    BY <1>1, <1>2, <2>1, MoveEffect
  <2> QED
    BY <1>1, <1>2, <2>2 DEF NothingExtra, OneFailure
<1>3. CASE Fails /\ UNCHANGED disk
  <2>1. used'.fail = used.fail + 1 /\ used.fail \in Nat
    BY <1>1, <1>3, FailCounts
  <2> QED
    BY <1>1, <2>1 DEF NothingExtra, OneFailure
<1> QED
  BY <1>2, <1>3 DEF PutBack

LEMMA UndoneExtra == ASSUME Safe, NothingExtra, Undone PROVE NothingExtra'
  BY DEF Undone, progress, NothingExtra, OneFailure

LEMMA CrashExtra == ASSUME Safe, NothingExtra, Crash PROVE NothingExtra'
<1>1. used'.crash = used.crash + 1 /\ used.crash \in Nat /\ pc' = "down"
  BY DEF Crash, Safe, TypeOK
<1> QED
  BY <1>1 DEF NothingExtra, OneFailure

LEMMA NextExtra == Safe /\ NothingExtra /\ [Next]_vars => NothingExtra'
<1> SUFFICES ASSUME Safe, NothingExtra, [Next]_vars PROVE NothingExtra'
  OBVIOUS
<1>1. CASE Step
  BY <1>1, AroundExtra, RestoreExtra, StageExtra, OutExtra, MoveInExtra, SignalExtra, UndoExtra, PutBackExtra,
     UndoneExtra DEF Step
<1>2. CASE Failure
  BY <1>2, AroundExtra, CommitFailsExtra DEF Failure
<1>3. CASE UNCHANGED vars
  BY <1>3 DEF vars, progress, NothingExtra, OneFailure
<1>4. ASSUME NEW w \in {"import", "replace", "recover"}, Begin(w) PROVE NothingExtra'
  BY <1>4, AroundExtra
<1> QED
  BY <1>1, <1>2, <1>3, <1>4, CrashExtra DEF Next

\* A target without a marker holds all that it must hold, and until a second failure no more
LEMMA NothingElse == Safe /\ NothingExtra => SwapIsAtomic
<1> SUFFICES ASSUME Safe, NothingExtra, OneFailure, pc = "idle", ~marker PROVE disk["target"] = kept
  BY DEF SwapIsAtomic, OneFailure
<1>1. \A n \in Names : disk["target"][n] = kept[n]
  BY DEF Safe, NothingLost, NothingExtra
<1>2. disk["target"] \in Contents /\ kept \in Contents
  BY DEF Safe, TypeOK, Folders
<1> QED
  BY <1>1, <1>2 DEF Contents

\* commitStagedImport swaps all of a book's audio or none: after any one failing operation, of the swap,
\* of its rollback or of a recovery, the target is as the last signalled commit left it.
THEOREM AtomicSwap == Spec => []SwapIsAtomic
  BY InitSafe, NextSafe, InitExtra, NextExtra, NothingElse, PTL DEF Spec
=============================================================================
