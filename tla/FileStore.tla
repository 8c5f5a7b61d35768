----------------------------- MODULE FileStore -----------------------------
(***************************************************************************)
(* Documents kept in one JSON file per id: DataStorageManager over         *)
(* FileSystem, for one id, used by concurrent callers in one process.      *)
(*                                                                         *)
(* A caller waits at every await: while it sleeps before another try, and  *)
(* while the file system works for it.  The temporary file of an id is     *)
(* shared by its writers.  The process may die at any time; what it has    *)
(* not finished is gone, the files stay.                                   *)
(*                                                                         *)
(* Bounds: each caller runs one operation; beyond MaxTries, where the code *)
(* asks no more than whether it is exceeded, a count of tries alternates   *)
(* between MaxTries + 1 and MaxTries + 2, so that a try is still a step.   *)
(***************************************************************************)
EXTENDS Naturals, DocumentOps

CONSTANT MaxTries   \* FileSystem.maxTries

ASSUME FileAssumption == MaxTries \in Nat

VARIABLES
    file,       \* the data file
    tmp,        \* the temporary file
    locked,     \* lockedFiles contains the id
    pc,         \* what a caller waits for
    op,         \* its operation and arguments
    tries,      \* actualTry
    data        \* the documents it has read or writes

vars == <<file, tmp, locked, pc, op, tries, data>>
files == <<file, tmp, locked>>

(***************************************************************************)
(* Data                                                                    *)
(***************************************************************************)
\* A file is absent, holds the JSON of a list of documents, or is torn: its
\* text is not JSON.
Absent == [kind |-> "absent", docs |-> {}]
Torn == [kind |-> "torn", docs |-> {}]
Whole(D) == [kind |-> "whole", docs |-> D]

Init ==
    /\ file = Absent
    /\ tmp = Absent
    /\ locked = FALSE
    /\ pc = [c \in Callers |-> "idle"]
    /\ op \in [Callers -> Ops]
    /\ tries = [c \in Callers |-> 1]
    /\ data = [c \in Callers |-> {}]

(***************************************************************************)
(* FileSystem.read                                                         *)
(***************************************************************************)
Goto(c, place) == pc' = [pc EXCEPT ![c] = place]

\* The same call again, one try later
Again(c, place) ==
    /\ Goto(c, place)
    /\ tries' = [tries EXCEPT ![c] = IF @ > MaxTries + 1 THEN @ - 1 ELSE @ + 1]

\* FileSystem.write is called with the documents D.
StartWrite(c, D) ==
    /\ data' = [data EXCEPT ![c] = D]
    /\ Goto(c, "write")
    /\ tries' = [tries EXCEPT ![c] = 1]

\* What the operation does with the documents D it has read: load() is done,
\* the others write.
AfterRead(c, D) ==
    LET o == op[c] IN
    \/ /\ o.kind = "load"
       /\ data' = [data EXCEPT ![c] = Filter(D, TRUE, o.app, o.user)]
       /\ Goto(c, "done")
       /\ UNCHANGED tries
    \/ /\ o.kind = "store"
       /\ StartWrite(c, Stored(D, c, o))
    \/ /\ o.kind = "remove"
       /\ StartWrite(c, Filter(D, FALSE, o.app, o.user))

Begin(c) ==
    /\ pc[c] = "idle"
    /\ Goto(c, IF RemovesAll(op[c]) THEN "delete" ELSE "read")
    /\ UNCHANGED <<files, op, tries, data>>

\* One try up to its await.  The error about the maximum of tries is thrown
\* inside the try that catches it, and leads to another try.
ReadTry(c) ==
    /\ pc[c] = "read"
    /\ IF file = Absent
       THEN AfterRead(c, {})
       ELSE /\ IF tries[c] > MaxTries \/ locked
               THEN Again(c, "read")
               ELSE Goto(c, "reading") /\ UNCHANGED tries
            /\ UNCHANGED data
    /\ UNCHANGED <<files, op>>

\* readFile answers.
ReadFile(c) ==
    /\ pc[c] = "reading"
    /\ IF file.kind = "whole"
       THEN AfterRead(c, file.docs)
       ELSE Again(c, "read") /\ UNCHANGED data
    /\ UNCHANGED <<files, op>>

ReadFails(c) ==
    /\ pc[c] = "reading"
    /\ Again(c, "read")
    /\ UNCHANGED <<files, op, data>>

(***************************************************************************)
(* FileSystem.write                                                        *)
(***************************************************************************)
\* Mutant: the list of locked files is not looked at.
WriteTryUnlocked(c) ==
    /\ pc[c] = "write"
    /\ locked' = TRUE
    /\ Goto(c, "writing")
    /\ UNCHANGED <<file, tmp, op, tries, data>>

WriteTry(c) ==
    /\ pc[c] = "write"
    /\ IF tries[c] > MaxTries
       THEN Goto(c, "failed") /\ UNCHANGED <<tries, locked>>
       ELSE IF locked
       THEN Again(c, "write") /\ UNCHANGED locked
       ELSE /\ locked' = TRUE
            /\ Goto(c, "writing")
            /\ UNCHANGED tries
    /\ UNCHANGED <<file, tmp, op, data>>

\* writeFile empties the temporary file before it fills it.
TmpOpened(c) ==
    /\ pc[c] = "writing"
    /\ tmp' = Torn
    /\ Goto(c, "filling")
    /\ UNCHANGED <<file, locked, op, tries, data>>

TmpWritten(c) ==
    /\ pc[c] = "filling"
    /\ tmp' = Whole(data[c])
    /\ Goto(c, "renaming")
    /\ UNCHANGED <<file, locked, op, tries, data>>

\* rename() replaces the data file; finally the lock is removed.
Rename(c) ==
    /\ pc[c] = "renaming"
    /\ tmp # Absent
    /\ file' = tmp
    /\ tmp' = Absent
    /\ locked' = FALSE
    /\ Goto(c, "done")
    /\ UNCHANGED <<op, tries, data>>

\* Mutants: a failed write is tried again from the first try, as read() does
\* with its count; there is no finally.
WriteFailsRetries(c) ==
    /\ pc[c] \in {"writing", "filling", "renaming"}
    /\ locked' = FALSE
    /\ Goto(c, "write")
    /\ tries' = [tries EXCEPT ![c] = 1]
    /\ UNCHANGED <<file, tmp, op, data>>

WriteFailsLocked(c) ==
    /\ pc[c] \in {"writing", "filling", "renaming"}
    /\ Goto(c, "failed")
    /\ UNCHANGED <<files, op, tries, data>>

\* One of the file system's calls fails: finally, then the error.
WriteFails(c) ==
    /\ pc[c] \in {"writing", "filling", "renaming"}
    /\ locked' = FALSE
    /\ Goto(c, "failed")
    /\ UNCHANGED <<file, tmp, op, tries, data>>

(***************************************************************************)
(* FileSystem.delete                                                       *)
(***************************************************************************)
DeleteTry(c) ==
    /\ pc[c] = "delete"
    /\ IF file = Absent
       THEN Goto(c, "done") /\ UNCHANGED tries
       ELSE IF tries[c] > MaxTries
       THEN Again(c, "delete")
       ELSE Goto(c, "unlinking") /\ UNCHANGED tries
    /\ UNCHANGED <<files, op, data>>

\* unlink() answers, or fails when the file is gone by now.
Unlink(c) ==
    /\ pc[c] = "unlinking"
    /\ IF file = Absent
       THEN Again(c, "delete")
       ELSE Goto(c, "done") /\ UNCHANGED tries
    /\ file' = Absent
    /\ UNCHANGED <<tmp, locked, op, data>>

UnlinkFails(c) ==
    /\ pc[c] = "unlinking"
    /\ Again(c, "delete")
    /\ UNCHANGED <<files, op, data>>

\* The process dies and is started again: lockedFiles is empty, calls are gone.
Restart ==
    /\ locked' = FALSE
    /\ pc' = [c \in Callers |-> IF pc[c] = "idle" THEN "idle"
                                ELSE IF pc[c] \in {"done", "failed"} THEN pc[c] ELSE "lost"]
    /\ UNCHANGED <<file, tmp, op, tries, data>>

Step(c) ==
    \/ ReadTry(c) \/ ReadFile(c) \/ ReadFails(c)
    \/ WriteTry(c) \/ TmpOpened(c) \/ TmpWritten(c) \/ Rename(c) \/ WriteFails(c)
    \/ DeleteTry(c) \/ Unlink(c) \/ UnlinkFails(c)

Next ==
    \/ \E c \in Callers : Begin(c) \/ Step(c)
    \/ Restart

Spec == Init /\ [][Next]_vars

\* Timers fire and the file system answers every call.
FairSpec == Spec /\ \A c \in Callers : WF_vars(Step(c))

(***************************************************************************)
(* Properties                                                              *)
(***************************************************************************)
Contents == {Absent, Torn} \cup {Whole(D) : D \in SUBSET Docs}

TypeOK ==
    /\ file \in Contents
    /\ tmp \in Contents
    /\ locked \in BOOLEAN
    /\ pc \in [Callers -> {"idle", "read", "reading", "write", "writing", "filling",
                           "renaming", "delete", "unlinking", "done", "failed", "lost"}]
    /\ op \in [Callers -> Ops]
    /\ tries \in [Callers -> 1 .. MaxTries + 2]
    /\ data \in [Callers -> SUBSET Docs]

Writing(c) == pc[c] \in {"writing", "filling", "renaming"}

\* A reader never finds half a write, whoever writes, fails or dies meanwhile.
FileIsWhole == file # Torn

\* The lock list names the file exactly while one caller writes it: it is not
\* left behind by a failure, and two writers never share the temporary file.
LockIsWriter ==
    /\ locked <=> \E c \in Callers : Writing(c)
    /\ \A c, d \in Callers : Writing(c) /\ Writing(d) => c = d

\* Auxiliary invariant of the proofs: what a caller moves into place is what it wrote.
RenamesOwnData ==
    \A c \in Callers : pc[c] = "renaming" => tmp = Whole(data[c])

\* After remove() with an application or a user the file holds no document a
\* load() with the same arguments would find.
RemovedIsGone ==
    [][\A c \in Callers :
          op[c].kind = "remove" /\ Rename(c) =>
              Filter(file'.docs, TRUE, op[c].app, op[c].user) = {}]_vars

\* A caller that reached its write ends, whatever happens to the lock, other
\* writers and the file system.
WritesEnd == \A c \in Callers :
    pc[c] = "write" ~> pc[c] \in {"done", "failed", "lost"}

\* FileSystem.read gives up: "Max tries have been reached. Cannot read file".
ReadsEnd == \A c \in Callers :
    pc[c] = "read" ~> pc[c] \notin {"read", "reading"}
=============================================================================
