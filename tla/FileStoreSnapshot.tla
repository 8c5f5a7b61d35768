------------------------- MODULE FileStoreSnapshot -------------------------
(***************************************************************************)
(* The data storage implements SnapshotStore: whoever reads, writes, fails *)
(* or dies in between, a reader sees what one call wrote, and as a whole.  *)
(***************************************************************************)
EXTENDS FileStore

\* How far a call is, to its caller
State(place) ==
    CASE place \in {"idle", "read", "reading", "delete", "unlinking"} -> "called"
      [] place \in {"write", "writing", "filling", "renaming"} -> "changed"
      [] place = "done" -> "done"
      [] place \in {"failed", "lost"} -> "failed"

\* A torn file is no list that a call could have written.
Store == INSTANCE SnapshotStore
    WITH content <- IF FileIsWhole THEN file.docs ELSE {Torn},
         state <- [c \in Callers |-> State(pc[c])],
         result <- data

\* A call reads the documents as one other call left them, and its own list
\* takes their place in one step or not at all: neither the two halves of a
\* write, nor the temporary file that all writers share, nor a lock left behind
\* by a failure can be seen (lib/Storage/File/FileSystem.ts).
StoreSpec == Store!Spec
=============================================================================
