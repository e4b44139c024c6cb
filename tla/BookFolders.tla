----------------------------- MODULE BookFolders -----------------------------
(***************************************************************************)
(* Everything that moves or deletes the folder of a book: rename, deletion *)
(* of a book, rejection as a wrong release, the re-import of a download    *)
(* with its sweep of the old folder; the binding of several books to a     *)
(* series; and the write of the library settings.  They meet in three      *)
(* places: the admission locks of the books, the claim keys of the         *)
(* folders, and the gate of the library root.                              *)
(***************************************************************************)
EXTENDS KeyedLocks

CONSTANTS
  Books, Folders, Settings,   \* the keys: book ids, canonical paths, the settings queue
  Roots, RootOf,              \* the library roots, and the one a folder lies under
  RenameTo, ImportTo,         \* where the template can place a book, for a rename and an import
  Gone,                       \* the row is deleted
  MaxCalls                    \* bound of a run: calls begun

ASSUME KeysAssumption == /\ Keys = Books \cup Folders \cup {Settings}
                         /\ Books \cap Folders = {} /\ Settings \notin Books \cup Folders
                         /\ \A b \in Books, f \in Folders : b < f
ASSUME FoldersAssumption == /\ RootOf \in [Folders -> Roots] /\ None \notin Roots
                            /\ RenameTo \in [Books -> SUBSET Folders]
                            /\ ImportTo \in [Books -> SUBSET Folders]
ASSUME GoneAssumption == Gone \notin Folders \cup {None}
ASSUME CallsAssumption == MaxCalls \in Nat

VARIABLES
  path,      \* books.path, or Gone
  content,   \* the books whose audio files a folder holds
  root,      \* the library settings: the root the templates render under
  commits,   \* commitsInFlight: the calls that hold a registration
  op,        \* the calls in progress
  begun      \* how many calls have begun

rows == <<path, content, root>>
vars == <<tail, lock, path, content, root, commits, op, begun>>

Kinds == {"rename", "delete", "reject", "import", "bind", "settings"}
Steps == {"idle", "begin", "root", "plan", "apply", "move", "unlink", "repath", "resolve", "fresh",
          "reset", "owner", "sweep", "commit", "stage", "promote", "queued", "writing",
          "bound", "widen", "end", "leave"}
Calls == [pc : Steps, kind : Kinds \cup {None}, book : Books \cup {None},
          old : Folders \cup {None}, new : Folders \cup {None}, root : Roots \cup {None}]
NoCall == [pc |-> "idle", kind |-> None, book |-> None, old |-> None, new |-> None, root |-> None]

-----------------------------------------------------------------------------
\* The call is at this step, and not waiting for a lock
At(o, pc) == op[o].pc = pc /\ Runs(o)
Goto(o, pc) == op' = [op EXCEPT ![o].pc = pc]

HasFolder(b) == path[b] \in Folders

\* findOtherPathOwner: the row of another book names the folder
OwnedByOther(f, b) == \E c \in Books \ {b} : path[c] = f

-----------------------------------------------------------------------------
(* The start of a call: its admission, and the gate of the library root *)

Entry(o) == op[o].pc = "idle" /\ begun < MaxCalls /\ begun' = begun + 1

Begin(o, kind, b) ==
  /\ Entry(o)
  /\ kind = "import" => ImportTo[b] # {}
  /\ Request(o, {b})
  /\ op' = [op EXCEPT ![o] = [NoCall EXCEPT !.pc = "begin", !.kind = kind, !.book = b]]
  /\ UNCHANGED <<rows, commits>>

\* mutant: a commit waits for the body of a settings write, not for the queue of them
GateOpen == \A o \in Ops : op[o].pc # "writing"

\* No settings write is running or queued
GateIdle == tail[Settings] = None

\* beginRootCommit, for the two whose target lies under the root
Register(o) ==
  /\ At(o, "begin") /\ op[o].kind \in {"rename", "import"}
  /\ GateIdle
  /\ commits' = commits \cup {o}
  /\ Goto(o, "root")
  /\ UNCHANGED <<lockVars, rows, begun>>

\* the library settings are read under the registration
ReadRoot(o) ==
  /\ At(o, "root")
  /\ op' = [op EXCEPT ![o].root = root, ![o].pc = "plan"]
  /\ UNCHANGED <<lockVars, rows, commits, begun>>

-----------------------------------------------------------------------------
(* Rename *)

\* mutant: only the folder the book leaves is claimed
SourceKey(f, g) == {f}

ClaimKeys(f, g) == {f, g}

Under(o, targets) == {f \in targets : RootOf[f] = op[o].root}

\* planApply: the row and the folder its template names now
Plan(o) ==
  /\ At(o, "plan") /\ op[o].kind = "rename"
  /\ LET b == op[o].book IN
     IF HasFolder(b)
     THEN \E f \in Under(o, RenameTo[b]) \cup {path[b]} :
            /\ Request(o, ClaimKeys(path[b], f))
            /\ op' = [op EXCEPT ![o].old = path[b], ![o].new = f, ![o].pc = "apply"]
     ELSE Goto(o, "leave") /\ UNCHANGED lockVars
  /\ UNCHANGED <<rows, commits, begun>>

\* Nothing is moved when the plan is stale, the folder lies outside the root, or the target belongs to
\* another book or is not empty; and where the folder stays only its files are renamed
Apply(o) ==
  /\ At(o, "apply")
  /\ LET b == op[o].book  f == op[o].old  g == op[o].new IN
     IF path[b] = f /\ RootOf[f] = op[o].root /\ g # f /\ ~OwnedByOther(g, b) /\ content[g] = {}
     THEN Goto(o, "move") ELSE Goto(o, "end")
  /\ UNCHANGED <<lockVars, rows, commits, begun>>

\* moveBookFolder: one rename(2), or between volumes a copy, which may fail half way
Move(o) ==
  /\ At(o, "move")
  /\ LET f == op[o].old  g == op[o].new IN
     \/ /\ content[g] = {}
        /\ content' = [content EXCEPT ![g] = content[f], ![f] = {}]
        /\ Goto(o, "repath")
     \/ /\ content' = [content EXCEPT ![g] = @ \cup content[f]]
        /\ Goto(o, "unlink") \/ Goto(o, "end")
     \/ UNCHANGED content /\ Goto(o, "end")
  /\ UNCHANGED <<lockVars, path, root, commits, begun>>

Unlink(o) ==
  /\ At(o, "unlink")
  /\ content' = [content EXCEPT ![op[o].old] = {}]
  /\ Goto(o, "repath")
  /\ UNCHANGED <<lockVars, path, root, commits, begun>>

\* books.path, which may fail after the files have moved
Repath(o) ==
  /\ At(o, "repath")
  /\ path' = [path EXCEPT ![op[o].book] = op[o].new] \/ UNCHANGED path
  /\ Goto(o, "end")
  /\ UNCHANGED <<lockVars, content, root, commits, begun>>

-----------------------------------------------------------------------------
(* Deletion and rejection: withFreshClaimLock around a sweep *)

\* A deletion sweeps the folder or keeps the files; a rejection needs an imported book, and gives up
\* if the release has left the row while it was blacklisted
Hydrate(o) ==
  /\ At(o, "begin") /\ op[o].kind \in {"delete", "reject"}
  /\ LET b == op[o].book  k == op[o].kind IN
       \/ path[b] # Gone /\ Goto(o, "resolve")
       \/ path[b] # Gone /\ k = "delete" /\ Goto(o, "commit")
       \/ (path[b] = Gone \/ k = "reject") /\ Goto(o, "leave")
  /\ UNCHANGED <<lockVars, rows, commits, begun>>

AfterClaim(o) == IF op[o].kind = "reject" THEN "reset" ELSE "owner"

Resolve(o) ==
  /\ At(o, "resolve")
  /\ LET b == op[o].book IN
     IF HasFolder(b)
     THEN Request(o, {path[b]}) /\ op' = [op EXCEPT ![o].old = path[b], ![o].pc = "fresh"]
     ELSE /\ Goto(o, IF op[o].kind = "reject" THEN "reset" ELSE "commit")
          /\ UNCHANGED lockVars
  /\ UNCHANGED <<rows, commits, begun>>

\* under the claim the row still has to name the folder, or it is given back and resolved again
Fresh(o) ==
  /\ At(o, "fresh")
  /\ IF path[op[o].book] = op[o].old
     THEN Goto(o, AfterClaim(o)) /\ UNCHANGED lockVars
     ELSE Release(o, {op[o].old}) /\ op' = [op EXCEPT ![o].old = None, ![o].pc = "resolve"]
  /\ UNCHANGED <<rows, commits, begun>>

\* a rejection resets the row before it sweeps
Reset(o) ==
  /\ At(o, "reset")
  /\ path' = [path EXCEPT ![op[o].book] = None]
  /\ Goto(o, IF op[o].old = None THEN "leave" ELSE "owner")
  /\ UNCHANGED <<lockVars, content, root, commits, begun>>

AfterSweep(o) == IF op[o].kind = "delete" THEN "commit" ELSE "end"

\* mutant: nobody asks whose folder it is
SweepsAny(o) == TRUE

MaySweep(o) == ~OwnedByOther(op[o].old, op[o].book)

\* a folder that another book owns is not swept
Owner(o) ==
  /\ At(o, "owner")
  /\ Goto(o, IF MaySweep(o) THEN "sweep" ELSE AfterSweep(o))
  /\ UNCHANGED <<lockVars, rows, commits, begun>>

\* the files go; or some do not, or the folder lies outside the root, and then a book is not deleted
Sweep(o) ==
  /\ At(o, "sweep")
  /\ \/ RootOf[op[o].old] = root /\ content' = [content EXCEPT ![op[o].old] = {}] /\ Goto(o, AfterSweep(o))
     \/ UNCHANGED content /\ Goto(o, "end")
  /\ UNCHANGED <<lockVars, path, root, commits, begun>>

CommitDeletion(o) ==
  /\ At(o, "commit")
  /\ path' = [path EXCEPT ![op[o].book] = Gone]
  /\ Goto(o, "end")
  /\ UNCHANGED <<lockVars, content, root, commits, begun>>

-----------------------------------------------------------------------------
(* The import of a download, which takes no claim on its target *)

Target(o) ==
  /\ At(o, "plan") /\ op[o].kind = "import"
  /\ LET b == op[o].book  fs == Under(o, ImportTo[b]) IN
     IF path[b] # Gone /\ fs # {}
     THEN \E f \in fs : op' = [op EXCEPT ![o].old = IF HasFolder(b) THEN path[b] ELSE None,
                                         ![o].new = f, ![o].pc = "stage"]
     ELSE Goto(o, "leave")
  /\ UNCHANGED <<lockVars, rows, commits, begun>>

\* the staged files replace what the target holds, or it fails, and a target that is not the book's is
\* cleaned, if it gets that far
Swap(o) ==
  /\ At(o, "stage")
  /\ LET g == op[o].new IN
     \/ content' = [content EXCEPT ![g] = {op[o].book}] /\ Goto(o, "promote")
     \/ /\ content' = [content EXCEPT ![g] = IF g = op[o].old THEN @ ELSE {}] \/ UNCHANGED content
        /\ Goto(o, "leave")
  /\ UNCHANGED <<lockVars, path, root, commits, begun>>

\* the row, and then cleanupOldBookPath under the claim of the old folder; if the row fails the files stay
Promote(o) ==
  /\ At(o, "promote")
  /\ \/ /\ path' = [path EXCEPT ![op[o].book] = op[o].new]
        /\ op[o].old \in Folders \ {op[o].new}
        /\ Request(o, {op[o].old}) /\ Goto(o, "owner")
     \/ /\ path' = [path EXCEPT ![op[o].book] = op[o].new]
        /\ op[o].old \notin Folders \ {op[o].new}
        /\ Goto(o, "leave") /\ UNCHANGED lockVars
     \/ UNCHANGED <<path, lockVars>> /\ Goto(o, "leave")
  /\ UNCHANGED <<content, root, commits, begun>>

-----------------------------------------------------------------------------
(* Series: withValidatedBindSet *)

BeginBind(o, B) ==
  /\ Entry(o)
  /\ Request(o, B)
  /\ op' = [op EXCEPT ![o] = [NoCall EXCEPT !.pc = "bound", !.kind = "bind"]]
  /\ UNCHANGED <<rows, commits>>

\* mutant: what is missing is locked without giving back what is held
WidenInPlace(o) ==
  /\ Books \ lock[o].held # {}
  /\ Request(o, Books \ lock[o].held)
  /\ UNCHANGED op

\* the set has grown: everything is given back first
Widen(o) ==
  /\ Books \ lock[o].held # {}
  /\ Release(o, lock[o].held)
  /\ Goto(o, "widen")

Bind(o) ==
  /\ At(o, "bound")
  /\ \/ Goto(o, "leave") /\ UNCHANGED lockVars
     \/ Widen(o)
  /\ UNCHANGED <<rows, commits, begun>>

Rebind(o) ==
  /\ At(o, "widen")
  /\ Request(o, Books) /\ Goto(o, "bound")
  /\ UNCHANGED <<rows, commits, begun>>

-----------------------------------------------------------------------------
(* The library settings: withLibraryRootWrite *)

\* With no write in the queue it is refused or begins in the same turn; otherwise it queues
BeginWrite(o) ==
  /\ Entry(o)
  /\ IF GateIdle
     THEN /\ commits = {} /\ Take(o, Settings)
          /\ op' = [op EXCEPT ![o] = [NoCall EXCEPT !.pc = "writing", !.kind = "settings"]]
     ELSE /\ Request(o, {Settings})
          /\ op' = [op EXCEPT ![o] = [NoCall EXCEPT !.pc = "queued", !.kind = "settings"]]
  /\ UNCHANGED <<rows, commits>>

Attempt(o) ==
  /\ At(o, "queued")
  /\ Goto(o, IF commits = {} THEN "writing" ELSE "leave")
  /\ UNCHANGED <<lockVars, rows, commits, begun>>

Write(o) ==
  /\ At(o, "writing")
  /\ \E r \in Roots : root' = r
  /\ Goto(o, "leave")
  /\ UNCHANGED <<lockVars, path, content, commits, begun>>

-----------------------------------------------------------------------------
(* The end of a call: the claims first, then the registration and the rest *)

End(o) ==
  /\ At(o, "end")
  /\ Release(o, lock[o].held \cap Folders)
  /\ Goto(o, "leave")
  /\ UNCHANGED <<rows, commits, begun>>

Leave(o) ==
  /\ At(o, "leave")
  /\ Release(o, lock[o].held)
  /\ commits' = commits \ {o}
  /\ op' = [op EXCEPT ![o] = NoCall]
  /\ UNCHANGED <<rows, begun>>

Grant(o) == Granted(o) /\ UNCHANGED <<rows, commits, op, begun>>

Init ==
  /\ LockInit
  /\ path \in [Books -> Folders \cup {None}]
  /\ \A b \in Books : path[b] \in RenameTo[b] \cup {None}
  /\ content = [f \in Folders |-> {b \in Books : path[b] = f}]
  /\ root \in Roots
  /\ commits = {} /\ op = [o \in Ops |-> NoCall] /\ begun = 0

Start(o) ==
  \/ \E b \in Books, k \in {"rename", "delete", "reject", "import"} : Begin(o, k, b)
  \/ \E B \in SUBSET Books \ {{}} : BeginBind(o, B)
  \/ BeginWrite(o)

Step(o) ==
  \/ Grant(o) \/ Register(o) \/ ReadRoot(o) \/ Plan(o) \/ Apply(o) \/ Move(o) \/ Unlink(o) \/ Repath(o)
  \/ Hydrate(o) \/ Resolve(o) \/ Fresh(o) \/ Reset(o) \/ Owner(o) \/ Sweep(o) \/ CommitDeletion(o)
  \/ Target(o) \/ Swap(o) \/ Promote(o) \/ Bind(o) \/ Rebind(o)
  \/ Attempt(o) \/ Write(o) \/ End(o) \/ Leave(o)

Next == \E o \in Ops : Start(o) \/ Step(o)

\* What a call has begun it goes on with; nobody has to begin one
Spec == Init /\ [][Next]_vars
FairSpec == Spec /\ \A o \in Ops : WF_vars(Step(o))

-----------------------------------------------------------------------------
\* Every variable keeps its type.
TypeOK ==
  /\ tail \in [Keys -> Ops \cup {None}] /\ lock \in [Ops -> LockStates]
  /\ path \in [Books -> Folders \cup {None, Gone}]
  /\ content \in [Folders -> SUBSET Books]
  /\ root \in Roots /\ commits \subseteq Ops
  /\ op \in [Ops -> Calls] /\ begun \in Nat

\* The books that a call in progress was made for
Busy == {op[o].book : o \in Ops}

\* The files of a book survive every call that is made for other books: no rename, sweep, clean-up or
\* swap takes or overwrites the files of a folder that one row names, whatever was read before which lock.
FilesStay ==
  [][\A b \in Books \ Busy :
       HasFolder(b) /\ b \in content[path[b]] /\ ~OwnedByOther(path[b], b) => b \in content'[path[b]]]_vars

\* Between the root it read and the path it commits a rename or an import is never overtaken by a
\* settings write; and a settings write that was let into the queue is not refused at its turn.
RootGate ==
  /\ \A o \in commits : op[o].root \in {None, root}
  /\ \A o \in Ops : At(o, "queued") => commits = {}

\* No order of locks, claims, queues and re-acquisitions makes two calls wait for each other: every
\* call that has begun ends.
CallsEnd == \A o \in Ops : op[o].pc # "idle" ~> op[o].pc = "idle"
=============================================================================
