-------------------------- MODULE FileStoreProofs --------------------------
(***************************************************************************)
(* Proofs about FileStore for any number of callers, applications, users   *)
(* and tries: its invariants, what a removal leaves behind, and that it    *)
(* implements SnapshotStore.                                               *)
(***************************************************************************)
EXTENDS FileStoreSnapshot, TLAPS

\* The inductive invariant.  The temporary file may be torn at any time; what
\* keeps a torn file from being renamed is that its writer is alone.
IInv == TypeOK /\ FileIsWhole /\ LockIsWriter /\ RenamesOwnData

USE FileAssumption DEF FileAssumption

-----------------------------------------------------------------------------
(* Helpers *)

\* A try leaves the count of tries in its range.
LEMMA AgainTypes ==
    ASSUME TypeOK, NEW c \in Callers, NEW place, Again(c, place)
    PROVE  tries' \in [Callers -> 1 .. MaxTries + 2]
<1>1. tries[c] \in 1 .. MaxTries + 2
  BY DEF TypeOK
<1>2. CASE tries[c] > MaxTries + 1
  <2>1. tries' = [tries EXCEPT ![c] = tries[c] - 1]
    BY <1>2 DEF Again
  <2>2. tries[c] - 1 \in 1 .. MaxTries + 2
    BY <1>1, <1>2
  <2> QED
    BY <2>1, <2>2 DEF TypeOK
<1>3. CASE ~(tries[c] > MaxTries + 1)
  <2>1. tries' = [tries EXCEPT ![c] = tries[c] + 1]
    BY <1>3 DEF Again
  <2>2. tries[c] + 1 \in 1 .. MaxTries + 2
    BY <1>1, <1>3
  <2> QED
    BY <2>1, <2>2 DEF TypeOK
<1> QED
  BY <1>2, <1>3

\* filterData returns documents of its argument.
LEMMA FilterSubset ==
    ASSUME NEW D, NEW contains, NEW app, NEW user
    PROVE  Filter(D, contains, app, user) \subseteq D
BY DEF Filter

\* After a read the caller is done with what it returns, or begins to write what
\* it made of the list; it does not write yet.
LEMMA AfterReadResult ==
    ASSUME NEW c \in Callers, NEW D, AfterRead(c, D)
    PROVE  /\ data' = [data EXCEPT ![c] =
                  IF op[c].kind = "store" THEN Stored(D, c, op[c])
                  ELSE Filter(D, op[c].kind = "load", op[c].app, op[c].user)]
           /\ Goto(c, IF op[c].kind = "load" THEN "done" ELSE "write")
           /\ tries' = tries \/ tries' = [tries EXCEPT ![c] = 1]
<1>1. CASE op[c].kind = "load"
  BY <1>1 DEF AfterRead
<1>2. CASE op[c].kind = "store"
  BY <1>2 DEF AfterRead, StartWrite
<1>3. CASE op[c].kind = "remove"
  BY <1>3 DEF AfterRead, StartWrite
<1> QED
  BY <1>1, <1>2, <1>3 DEF AfterRead

\* Its documents and its count of tries keep their types.
LEMMA AfterReadTypes ==
    ASSUME TypeOK, NEW c \in Callers, NEW D \in SUBSET Docs, AfterRead(c, D)
    PROVE  /\ data' \in [Callers -> SUBSET Docs]
           /\ tries' \in [Callers -> 1 .. MaxTries + 2]
           /\ \E place \in {"done", "write"} : Goto(c, place)
           /\ \A d \in Callers \ {c} : data'[d] = data[d]
<1> DEFINE E == IF op[c].kind = "store" THEN Stored(D, c, op[c])
                ELSE Filter(D, op[c].kind = "load", op[c].app, op[c].user)
<1>1. 1 \in 1 .. MaxTries + 2
  OBVIOUS
<1>2. Stored(D, c, op[c]) \in SUBSET Docs
  BY DEF TypeOK, Ops, Docs, Stored
<1>3. E \in SUBSET Docs
  BY <1>2, FilterSubset
<1>4. data' = [data EXCEPT ![c] = E]
  BY AfterReadResult
<1> HIDE DEF E
<1>5. /\ data' \in [Callers -> SUBSET Docs]
      /\ \A d \in Callers \ {c} : data'[d] = data[d]
  BY <1>3, <1>4 DEF TypeOK
<1> QED
  BY <1>1, <1>5, AfterReadResult DEF TypeOK

\* A caller that does not write, and goes to a place where it does not write,
\* leaves the invariant alone.
LEMMA ElsewhereIInv ==
    ASSUME IInv, NEW c \in Callers, UNCHANGED files, UNCHANGED op,
           tries' \in [Callers -> 1 .. MaxTries + 2],
           data' \in [Callers -> SUBSET Docs],
           \A d \in Callers \ {c} : data'[d] = data[d],
           ~Writing(c),
           NEW place \in {"read", "reading", "write", "delete", "unlinking",
                          "done", "failed"},
           Goto(c, place)
    PROVE  IInv'
<1>1. TypeOK'
  BY DEF IInv, TypeOK, Goto, files
<1>2. \A d \in Callers : Writing(d)' <=> Writing(d)
  BY DEF IInv, TypeOK, Goto, Writing
<1>3. FileIsWhole' /\ LockIsWriter'
  BY <1>2 DEF IInv, FileIsWhole, LockIsWriter, files
<1>4. RenamesOwnData'
  BY DEF IInv, TypeOK, RenamesOwnData, Goto, files, Writing
<1> QED
  BY <1>1, <1>3, <1>4 DEF IInv

-----------------------------------------------------------------------------
(* The steps *)

\* No file, no lock, no caller at the beginning
LEMMA InitIInv == Init => IInv
<1> SUFFICES ASSUME Init PROVE IInv
  OBVIOUS
<1>1. tries \in [Callers -> 1 .. MaxTries + 2]
  <2>1. 1 \in 1 .. MaxTries + 2
    OBVIOUS
  <2> QED
    BY <2>1 DEF Init
<1>2. pc \in [Callers -> {"idle"}] /\ data \in [Callers -> SUBSET Docs]
  BY DEF Init
<1>3. file \in Contents /\ tmp \in Contents
  BY DEF Init, Contents
<1>4. TypeOK
  BY <1>1, <1>2, <1>3 DEF Init, TypeOK
<1>5. FileIsWhole
  BY DEF Init, FileIsWhole, Absent, Torn
<1>6. LockIsWriter /\ RenamesOwnData
  BY DEF Init, LockIsWriter, RenamesOwnData, Writing
<1> QED
  BY <1>4, <1>5, <1>6 DEF IInv

\* What a caller reads is a set of documents.
LEMMA WholeDocs == ASSUME TypeOK, file.kind = "whole" PROVE file.docs \in SUBSET Docs
BY DEF TypeOK, Contents, Absent, Torn, Whole

\* FileSystem.read
LEMMA ReadIInv ==
    ASSUME IInv, NEW c \in Callers, Begin(c) \/ ReadTry(c) \/ ReadFile(c) \/ ReadFails(c)
    PROVE  IInv'
<1>0. TypeOK /\ tries \in [Callers -> 1 .. MaxTries + 2] /\ data \in [Callers -> SUBSET Docs]
  BY DEF IInv, TypeOK
<1>1. CASE Begin(c)
  <2>1. /\ UNCHANGED <<files, op, tries, data>> /\ ~Writing(c)
        /\ \E place \in {"delete", "read"} : Goto(c, place)
    BY <1>1 DEF Begin, Writing
  <2> QED
    BY <1>0, <2>1, ElsewhereIInv
<1>2. CASE ReadTry(c)
  <2>1. UNCHANGED <<files, op>> /\ ~Writing(c)
    BY <1>2 DEF ReadTry, Writing
  <2>2. CASE file = Absent
    <3>1. AfterRead(c, {})
      BY <1>2, <2>2 DEF ReadTry
    <3> QED
      BY <1>0, <2>1, <3>1, AfterReadTypes, ElsewhereIInv
  <2>3. CASE file # Absent /\ (tries[c] > MaxTries \/ locked)
    <3>1. Again(c, "read") /\ UNCHANGED data
      BY <1>2, <2>3 DEF ReadTry
    <3>2. Goto(c, "read")
      BY <3>1 DEF Again
    <3> QED
      BY <1>0, <2>1, <3>1, <3>2, AgainTypes, ElsewhereIInv
  <2>4. CASE file # Absent /\ ~(tries[c] > MaxTries \/ locked)
    <3>1. Goto(c, "reading") /\ UNCHANGED <<tries, data>>
      BY <1>2, <2>4 DEF ReadTry
    <3> QED
      BY <1>0, <2>1, <3>1, ElsewhereIInv
  <2> QED
    BY <2>2, <2>3, <2>4
<1>3. CASE ReadFile(c)
  <2>1. UNCHANGED <<files, op>> /\ ~Writing(c)
    BY <1>3 DEF ReadFile, Writing
  <2>2. CASE file.kind = "whole"
    <3>1. AfterRead(c, file.docs)
      BY <1>3, <2>2 DEF ReadFile
    <3> QED
      BY <1>0, <2>1, <2>2, <3>1, WholeDocs, AfterReadTypes, ElsewhereIInv
  <2>3. CASE file.kind # "whole"
    <3>1. Again(c, "read") /\ UNCHANGED data /\ Goto(c, "read")
      BY <1>3, <2>3 DEF ReadFile, Again
    <3> QED
      BY <1>0, <2>1, <3>1, AgainTypes, ElsewhereIInv
  <2> QED
    BY <2>2, <2>3
<1>4. CASE ReadFails(c)
  <2>1. /\ UNCHANGED <<files, op, data>> /\ ~Writing(c)
        /\ Again(c, "read") /\ Goto(c, "read")
    BY <1>4 DEF ReadFails, Writing, Again
  <2> QED
    BY <1>0, <2>1, AgainTypes, ElsewhereIInv
<1> QED
  BY <1>1, <1>2, <1>3, <1>4

\* FileSystem.write
LEMMA WriteIInv ==
    ASSUME IInv, NEW c \in Callers,
           WriteTry(c) \/ TmpOpened(c) \/ TmpWritten(c) \/ Rename(c) \/ WriteFails(c)
    PROVE  IInv'
<1>0. TypeOK /\ tries \in [Callers -> 1 .. MaxTries + 2] /\ data \in [Callers -> SUBSET Docs]
  BY DEF IInv, TypeOK
<1>1. CASE WriteTry(c)
  <2>1. ~Writing(c) /\ UNCHANGED <<file, tmp, op, data>>
    BY <1>1 DEF WriteTry, Writing
  <2>2. CASE tries[c] > MaxTries
    <3>1. Goto(c, "failed") /\ UNCHANGED <<files, tries>>
      BY <1>1, <2>2 DEF WriteTry, files
    <3> QED
      BY <1>0, <2>1, <3>1, ElsewhereIInv
  <2>3. CASE ~(tries[c] > MaxTries) /\ locked
    <3>1. Again(c, "write") /\ UNCHANGED files /\ Goto(c, "write")
      BY <1>1, <2>3 DEF WriteTry, files, Again
    <3> QED
      BY <1>0, <2>1, <3>1, AgainTypes, ElsewhereIInv
  <2>4. CASE ~(tries[c] > MaxTries) /\ ~locked
    <3>1. locked' = TRUE /\ Goto(c, "writing") /\ UNCHANGED <<file, tmp, op, tries, data>>
      BY <1>1, <2>4 DEF WriteTry
    <3>2. \A d \in Callers : ~Writing(d)
      BY <2>4 DEF IInv, LockIsWriter
    <3>3. \A d \in Callers : Writing(d)' <=> d = c
      BY <3>1, <3>2 DEF IInv, TypeOK, Goto, Writing
    <3>4. TypeOK'
      BY <3>1 DEF IInv, TypeOK, Goto
    <3>5. FileIsWhole' /\ LockIsWriter'
      BY <3>1, <3>3 DEF IInv, FileIsWhole, LockIsWriter
    <3>6. RenamesOwnData'
      BY <3>1 DEF IInv, TypeOK, RenamesOwnData, Goto
    <3> QED
      BY <3>4, <3>5, <3>6 DEF IInv
  <2> QED
    BY <2>2, <2>3, <2>4
<1>2. CASE TmpOpened(c)
  <2>1. \A d \in Callers : Writing(d) => d = c
    BY <1>2 DEF TmpOpened, Writing, IInv, LockIsWriter
  <2>2. \A d \in Callers : Writing(d)' <=> Writing(d)
    BY <1>2 DEF TmpOpened, Goto, Writing, IInv, TypeOK
  <2>3. TypeOK'
    BY <1>2 DEF TmpOpened, Goto, IInv, TypeOK, Contents
  <2>4. FileIsWhole' /\ LockIsWriter'
    BY <1>2, <2>2 DEF TmpOpened, IInv, FileIsWhole, LockIsWriter
  <2>5. RenamesOwnData'
    BY <1>2, <2>1 DEF TmpOpened, Goto, Writing, RenamesOwnData, IInv, TypeOK
  <2> QED
    BY <2>3, <2>4, <2>5 DEF IInv
<1>3. CASE TmpWritten(c)
  <2>1. \A d \in Callers : Writing(d) => d = c
    BY <1>3 DEF TmpWritten, Writing, IInv, LockIsWriter
  <2>2. \A d \in Callers : Writing(d)' <=> Writing(d)
    BY <1>3 DEF TmpWritten, Goto, Writing, IInv, TypeOK
  <2>3. tmp' \in Contents
    BY <1>0, <1>3 DEF TmpWritten, Contents
  <2>4. TypeOK'
    BY <1>3, <2>3 DEF TmpWritten, Goto, IInv, TypeOK
  <2>5. FileIsWhole' /\ LockIsWriter'
    BY <1>3, <2>2 DEF TmpWritten, IInv, FileIsWhole, LockIsWriter
  <2>6. RenamesOwnData'
    BY <1>3, <2>1 DEF TmpWritten, Goto, Writing, RenamesOwnData, IInv, TypeOK
  <2> QED
    BY <2>4, <2>5, <2>6 DEF IInv
<1>4. CASE Rename(c)
  <2>1. \A d \in Callers : Writing(d) => d = c
    BY <1>4 DEF Rename, Writing, IInv, LockIsWriter
  <2>2. \A d \in Callers : ~Writing(d)'
    BY <1>4, <2>1 DEF Rename, Goto, Writing, IInv, TypeOK
  <2>3. file' = Whole(data[c])
    BY <1>4 DEF Rename, IInv, RenamesOwnData
  <2>4. TypeOK'
    BY <1>4 DEF Rename, Goto, IInv, TypeOK, Contents
  <2>5. FileIsWhole'
    BY <2>3 DEF FileIsWhole, Whole, Torn
  <2>6. LockIsWriter' /\ RenamesOwnData'
    BY <1>4, <2>2 DEF Rename, LockIsWriter, RenamesOwnData, Writing
  <2> QED
    BY <2>4, <2>5, <2>6 DEF IInv
<1>5. CASE WriteFails(c)
  <2>1. \A d \in Callers : Writing(d) => d = c
    BY <1>5 DEF WriteFails, Writing, IInv, LockIsWriter
  <2>2. \A d \in Callers : ~Writing(d)'
    BY <1>5, <2>1 DEF WriteFails, Goto, Writing, IInv, TypeOK
  <2>3. TypeOK'
    BY <1>5 DEF WriteFails, Goto, IInv, TypeOK
  <2>4. FileIsWhole' /\ LockIsWriter' /\ RenamesOwnData'
    BY <1>5, <2>2 DEF WriteFails, IInv, FileIsWhole, LockIsWriter, RenamesOwnData, Writing
  <2> QED
    BY <2>3, <2>4 DEF IInv
<1> QED
  BY <1>1, <1>2, <1>3, <1>4, <1>5

\* FileSystem.delete: it does not look at the lock, and does no harm to a writer,
\* who renames its own temporary file.
LEMMA DeleteIInv ==
    ASSUME IInv, NEW c \in Callers, DeleteTry(c) \/ Unlink(c) \/ UnlinkFails(c)
    PROVE  IInv'
<1>0. TypeOK /\ tries \in [Callers -> 1 .. MaxTries + 2] /\ data \in [Callers -> SUBSET Docs]
  BY DEF IInv, TypeOK
<1>1. CASE DeleteTry(c)
  <2>1. UNCHANGED <<files, op, data>> /\ ~Writing(c)
    BY <1>1 DEF DeleteTry, Writing
  <2>2. CASE file # Absent /\ tries[c] > MaxTries
    <3>1. Again(c, "delete") /\ Goto(c, "delete")
      BY <1>1, <2>2 DEF DeleteTry, Again
    <3> QED
      BY <1>0, <2>1, <3>1, AgainTypes, ElsewhereIInv
  <2>3. CASE ~(file # Absent /\ tries[c] > MaxTries)
    <3>1. UNCHANGED tries /\ \E place \in {"done", "unlinking"} : Goto(c, place)
      BY <1>1, <2>3 DEF DeleteTry
    <3> QED
      BY <1>0, <2>1, <3>1, ElsewhereIInv
  <2> QED
    BY <2>2, <2>3
<1>2. CASE Unlink(c)
  <2>1. /\ ~Writing(c) /\ UNCHANGED <<tmp, locked, op, data>> /\ file' = Absent
        /\ tries' \in [Callers -> 1 .. MaxTries + 2]
        /\ \E place \in {"delete", "done"} : Goto(c, place)
    <3>1. CASE file = Absent
      <4>1. Again(c, "delete")
        BY <1>2, <3>1 DEF Unlink
      <4> QED
        BY <1>0, <1>2, <4>1, AgainTypes DEF Unlink, Writing, Again
    <3>2. CASE file # Absent
      BY <1>0, <1>2, <3>2 DEF Unlink, Writing
    <3> QED
      BY <3>1, <3>2
  <2>2. \A d \in Callers : Writing(d)' <=> Writing(d)
    BY <2>1 DEF IInv, TypeOK, Goto, Writing
  <2>3. TypeOK'
    BY <2>1 DEF IInv, TypeOK, Goto, Contents
  <2>4. FileIsWhole' /\ LockIsWriter'
    BY <2>1, <2>2 DEF IInv, FileIsWhole, LockIsWriter, Absent, Torn
  <2>5. RenamesOwnData'
    BY <2>1 DEF IInv, TypeOK, RenamesOwnData, Goto, Writing
  <2> QED
    BY <2>3, <2>4, <2>5 DEF IInv
<1>3. CASE UnlinkFails(c)
  <2>1. /\ UNCHANGED <<files, op, data>> /\ ~Writing(c)
        /\ Again(c, "delete") /\ Goto(c, "delete")
    BY <1>3 DEF UnlinkFails, Writing, Again
  <2> QED
    BY <1>0, <2>1, AgainTypes, ElsewhereIInv
<1> QED
  BY <1>1, <1>2, <1>3

\* A restart ends every call, and the lock list is empty.
LEMMA RestartIInv == ASSUME IInv, Restart PROVE IInv'
<1>1. \A c \in Callers : pc'[c] \in {"idle", "done", "failed", "lost"}
  BY DEF Restart
<1>2. TypeOK'
  BY DEF Restart, IInv, TypeOK
<1>3. FileIsWhole' /\ LockIsWriter' /\ RenamesOwnData'
  BY <1>1 DEF Restart, IInv, FileIsWhole, LockIsWriter, RenamesOwnData, Writing
<1> QED
  BY <1>2, <1>3 DEF IInv

\* Every step keeps the invariant.
LEMMA NextIInv == ASSUME IInv, [Next]_vars PROVE IInv'
<1>1. ASSUME UNCHANGED vars PROVE IInv'
  BY <1>1 DEF vars, IInv, TypeOK, FileIsWhole, LockIsWriter, RenamesOwnData, Writing
<1> QED
  BY <1>1, ReadIInv, WriteIInv, DeleteIInv, RestartIInv DEF Next, Step

-----------------------------------------------------------------------------
(* What a removal leaves behind *)

\* Between its read and its end a call changes the list.
Changes(c) == pc[c] \in {"write", "writing", "filling", "renaming"}

\* A call that removes everything takes the way of delete(), the others read; and
\* what a removal is going to write is free of what it removes, whatever the
\* others have done to the file since it read it.
OpInv ==
    \A c \in Callers :
        /\ pc[c] \in {"read", "reading"} => ~RemovesAll(op[c])
        /\ pc[c] \in {"delete", "unlinking"} => RemovesAll(op[c])
        /\ Changes(c) /\ op[c].kind = "remove" =>
              Filter(data[c], TRUE, op[c].app, op[c].user) = {}

\* No document is both selected and rejected by the same arguments.
LEMMA FilterPartition ==
    ASSUME NEW D, NEW app, NEW user, app # NoArg \/ user # NoArg
    PROVE  Filter(Filter(D, FALSE, app, user), TRUE, app, user) = {}
BY DEF Filter

\* A step of one caller that leaves its operation alone concerns only its own part
\* of the invariant.
LEMMA OpInvLocal ==
    ASSUME TypeOK, OpInv, UNCHANGED op, NEW c \in Callers, NEW place, Goto(c, place),
           \A d \in Callers \ {c} : data'[d] = data[d],
           place \in {"read", "reading"} => ~RemovesAll(op[c]),
           place \in {"delete", "unlinking"} => RemovesAll(op[c]),
           place \in {"write", "writing", "filling", "renaming"} /\ op[c].kind = "remove" =>
              Filter(data'[c], TRUE, op[c].app, op[c].user) = {}
    PROVE  OpInv'
<1>1. pc'[c] = place /\ \A d \in Callers \ {c} : pc'[d] = pc[d]
  BY DEF TypeOK, Goto
<1>2. ASSUME NEW d \in Callers, d # c
      PROVE  /\ pc'[d] = pc[d] /\ data'[d] = data[d]
             /\ Changes(d)' <=> Changes(d)
  BY <1>1, <1>2 DEF Changes
<1>3. Changes(c)' => place \in {"write", "writing", "filling", "renaming"}
  BY <1>1 DEF Changes
<1> QED
  BY <1>1, <1>2, <1>3 DEF OpInv

\* No operation has begun.
LEMMA InitOpInv == Init => OpInv
BY DEF Init, OpInv, Changes

\* What the operation of a caller that has read the file leads to.
LEMMA AfterReadOpInv ==
    ASSUME TypeOK, OpInv, UNCHANGED op, NEW c \in Callers, NEW D, AfterRead(c, D),
           ~RemovesAll(op[c])
    PROVE  OpInv'
<1> DEFINE place == IF op[c].kind = "load" THEN "done" ELSE "write"
           E == IF op[c].kind = "store" THEN Stored(D, c, op[c])
                ELSE Filter(D, op[c].kind = "load", op[c].app, op[c].user)
<1>1. data' = [data EXCEPT ![c] = E] /\ Goto(c, place)
  BY AfterReadResult
<1>2. data'[c] = E /\ \A d \in Callers \ {c} : data'[d] = data[d]
  BY <1>1 DEF TypeOK
<1>3. ASSUME op[c].kind = "remove"
      PROVE  Filter(data'[c], TRUE, op[c].app, op[c].user) = {}
  <2>1. op[c].app # NoArg \/ op[c].user # NoArg
    BY <1>3 DEF RemovesAll
  <2>2. data'[c] = Filter(D, FALSE, op[c].app, op[c].user)
    BY <1>2, <1>3
  <2> QED
    BY <2>1, <2>2, FilterPartition
<1> HIDE DEF E
<1> QED
  BY <1>1, <1>2, <1>3, OpInvLocal

\* Every step keeps it.
LEMMA NextOpInv == ASSUME TypeOK, OpInv, [Next]_vars PROVE OpInv'
<1>1. CASE UNCHANGED vars
  BY <1>1 DEF vars, OpInv, Changes
<1>2. CASE Restart
  <2>1. \A c \in Callers : pc'[c] \in {"idle", "done", "failed", "lost"}
    BY <1>2 DEF Restart
  <2> QED
    BY <2>1 DEF OpInv, Changes
<1>3. ASSUME NEW c \in Callers, Begin(c) PROVE OpInv'
  BY <1>3, OpInvLocal DEF Begin
<1>4. ASSUME NEW c \in Callers, ReadTry(c) PROVE OpInv'
  <2>1. ~RemovesAll(op[c]) /\ UNCHANGED op
    BY <1>4 DEF ReadTry, OpInv
  <2>2. CASE file = Absent
    BY <1>4, <2>1, <2>2, AfterReadOpInv DEF ReadTry
  <2>3. CASE file # Absent
    <3>1. UNCHANGED data /\ \E place \in {"read", "reading"} : Goto(c, place)
      BY <1>4, <2>3 DEF ReadTry, Again
    <3> QED
      BY <2>1, <3>1, OpInvLocal
  <2> QED
    BY <2>2, <2>3
<1>5. ASSUME NEW c \in Callers, ReadFile(c) \/ ReadFails(c) PROVE OpInv'
  <2>1. ~RemovesAll(op[c]) /\ UNCHANGED op
    BY <1>5 DEF ReadFile, ReadFails, OpInv
  <2>2. CASE AfterRead(c, file.docs)
    BY <2>1, <2>2, AfterReadOpInv
  <2>3. CASE Again(c, "read") /\ UNCHANGED data
    BY <2>1, <2>3, OpInvLocal DEF Again
  <2> QED
    BY <1>5, <2>2, <2>3 DEF ReadFile, ReadFails
<1>6. ASSUME NEW c \in Callers,
             WriteTry(c) \/ TmpOpened(c) \/ TmpWritten(c) \/ Rename(c) \/ WriteFails(c)
      PROVE  OpInv'
  <2>1. Changes(c) /\ UNCHANGED <<op, data>>
    BY <1>6 DEF WriteTry, TmpOpened, TmpWritten, Rename, WriteFails, Changes
  <2>2. op[c].kind = "remove" => Filter(data'[c], TRUE, op[c].app, op[c].user) = {}
    BY <2>1 DEF OpInv
  <2>3. \E place \in {"failed", "write", "writing", "filling", "renaming", "done"} :
          Goto(c, place)
    BY <1>6 DEF WriteTry, TmpOpened, TmpWritten, Rename, WriteFails, Again
  <2> QED
    BY <2>1, <2>2, <2>3, OpInvLocal
<1>7. ASSUME NEW c \in Callers, DeleteTry(c) \/ Unlink(c) \/ UnlinkFails(c)
      PROVE  OpInv'
  <2>1. RemovesAll(op[c]) /\ UNCHANGED <<op, data>>
    BY <1>7 DEF DeleteTry, Unlink, UnlinkFails, OpInv
  <2>2. \E place \in {"delete", "unlinking", "done"} : Goto(c, place)
    BY <1>7 DEF DeleteTry, Unlink, UnlinkFails, Again
  <2> QED
    BY <2>1, <2>2, OpInvLocal
<1> QED
  BY <1>1, <1>2, <1>3, <1>4, <1>5, <1>6, <1>7 DEF Next, Step

-----------------------------------------------------------------------------
(* The refinement *)

\* The list, and how far the calls are, as SnapshotStore sees them
Content == IF FileIsWhole THEN file.docs ELSE {Torn}
States == [c \in Callers |-> State(pc[c])]

\* A caller's own step changes how far that caller is.
LEMMA GotoStates ==
    ASSUME TypeOK, NEW c \in Callers, NEW place, Goto(c, place)
    PROVE  /\ States' = [States EXCEPT ![c] = State(place)]
           /\ State(place) = State(pc[c]) => States' = States
<1>1. pc'[c] = place /\ \A d \in Callers \ {c} : pc'[d] = pc[d]
  BY DEF TypeOK, Goto
<1>2. States' = [d \in Callers |-> State(pc'[d])]
  BY DEF States
<1>3. States = [d \in Callers |-> State(pc[d])]
  BY DEF States
<1> HIDE DEF States
<1>4. \A d \in Callers : States'[d] = State(pc'[d]) /\ States[d] = State(pc[d])
  BY <1>2, <1>3
<1> QED
  BY <1>1, <1>2, <1>3, <1>4

\* What the state of a call is at each place of the code.
LEMMA StateOf ==
    /\ \A place \in {"idle", "read", "reading", "delete", "unlinking"} : State(place) = "called"
    /\ \A place \in {"write", "writing", "filling", "renaming"} : State(place) = "changed"
    /\ State("done") = "done"
    /\ State("failed") = "failed" /\ State("lost") = "failed"
BY DEF State

\* The abstract steps, with the list and the states by name
LEMMA StoreRead ==
    ASSUME NEW c \in Callers, UNCHANGED op, Content' = Content,
           States[c] = "called", ~RemovesAll(op[c]),
           States' = [States EXCEPT ![c] = IF op[c].kind = "load" THEN "done" ELSE "changed"],
           data' = [data EXCEPT ![c] =
              IF op[c].kind = "store" THEN Stored(Content, c, op[c])
              ELSE Filter(Content, op[c].kind = "load", op[c].app, op[c].user)]
    PROVE  Store!Next
<1>1. /\ Store!RemovesAll(op[c]) <=> RemovesAll(op[c])
      /\ Store!Stored(Content, c, op[c]) = Stored(Content, c, op[c])
      /\ Store!Filter(Content, op[c].kind = "load", op[c].app, op[c].user)
            = Filter(Content, op[c].kind = "load", op[c].app, op[c].user)
  BY DEF Store!RemovesAll, RemovesAll, Store!Stored, Stored, Store!Filter, Filter
<1>2. Store!Read(c)
  BY <1>1 DEF Store!Read, Content, States
<1> QED
  BY <1>2 DEF Store!Next

LEMMA StoreReplace ==
    ASSUME NEW c \in Callers, UNCHANGED <<op, data>>, States[c] = "changed",
           Content' = data[c], States' = [States EXCEPT ![c] = "done"]
    PROVE  Store!Next
<1>1. Store!Replace(c)
  BY DEF Store!Replace, Content, States
<1> QED
  BY <1>1 DEF Store!Next

LEMMA StoreClear ==
    ASSUME NEW c \in Callers, UNCHANGED <<op, data>>, States[c] = "called",
           RemovesAll(op[c]), Content' = {}, States' = [States EXCEPT ![c] = "done"]
    PROVE  Store!Next
<1>1. Store!Clear(c)
  BY DEF Store!Clear, Store!RemovesAll, RemovesAll, Content, States
<1> QED
  BY <1>1 DEF Store!Next

LEMMA StoreFail ==
    ASSUME NEW S \in (SUBSET Callers) \ {{}}, UNCHANGED <<op, data>>, Content' = Content,
           \A c \in S : States[c] \in {"called", "changed"},
           States' = [c \in Callers |-> IF c \in S THEN "failed" ELSE States[c]]
    PROVE  Store!Next
<1>1. Store!Fail(S)
  BY DEF Store!Fail, Content, States
<1> QED
  BY <1>1 DEF Store!Next

LEMMA StoreStutter ==
    ASSUME UNCHANGED <<op, data>>, Content' = Content, States' = States
    PROVE  [Store!Next]_Store!vars
BY DEF Store!vars, Content, States

\* A file that stays as it is keeps its content; a whole file contains its documents.
LEMMA ContentOf ==
    /\ UNCHANGED file => Content' = Content
    /\ file = Absent => Content = {}
    /\ file.kind = "whole" => Content = file.docs
    /\ \A D \in SUBSET Docs : file' = Whole(D) => Content' = D
    /\ file' = Absent => Content' = {}
BY DEF Content, FileIsWhole, Absent, Torn, Whole

\* A read ends where the abstract call has read.
LEMMA ReadStep ==
    ASSUME TypeOK, OpInv, NEW c \in Callers, ReadTry(c) \/ ReadFile(c) \/ ReadFails(c)
    PROVE  [Store!Next]_Store!vars
<1>1. /\ UNCHANGED op /\ Content' = Content
      /\ States[c] = "called" /\ State(pc[c]) = "called"
      /\ ~RemovesAll(op[c])
  <2>1. pc[c] \in {"read", "reading"} /\ UNCHANGED <<file, op>>
    BY DEF ReadTry, ReadFile, ReadFails, files
  <2> QED
    BY <2>1, ContentOf, StateOf DEF OpInv, States
<1>2. ASSUME AfterRead(c, Content) PROVE Store!Next
  <2>1. States' = [States EXCEPT ![c] = State(IF op[c].kind = "load" THEN "done" ELSE "write")]
    BY <1>2, AfterReadResult, GotoStates
  <2>2. State(IF op[c].kind = "load" THEN "done" ELSE "write")
           = IF op[c].kind = "load" THEN "done" ELSE "changed"
    BY StateOf
  <2> HIDE DEF States, Content
  <2> QED
    BY <1>1, <1>2, <2>1, <2>2, AfterReadResult, StoreRead
<1>3. ASSUME UNCHANGED data, \E place \in {"read", "reading"} : Goto(c, place)
      PROVE  [Store!Next]_Store!vars
  BY <1>1, <1>3, GotoStates, StateOf, StoreStutter
<1>4. \/ AfterRead(c, Content)
      \/ UNCHANGED data /\ \E place \in {"read", "reading"} : Goto(c, place)
  <2>1. CASE ReadTry(c)
    BY <2>1, ContentOf DEF ReadTry, Again
  <2>2. CASE ReadFile(c)
    BY <2>2, ContentOf DEF ReadFile, Again
  <2>3. CASE ReadFails(c)
    BY <2>3 DEF ReadFails, Again
  <2> QED
    BY <2>1, <2>2, <2>3
<1> QED
  BY <1>2, <1>3, <1>4

\* A call that ends without an effect.
LEMMA FailStep ==
    ASSUME TypeOK, NEW c \in Callers, UNCHANGED <<file, op, data>>,
           State(pc[c]) \in {"called", "changed"}, Goto(c, "failed")
    PROVE  Store!Next
<1>1. States' = [States EXCEPT ![c] = "failed"]
  BY GotoStates, StateOf
<1>2. States = [d \in Callers |-> States[d]] /\ States[c] \in {"called", "changed"}
  BY DEF States
<1>3. Content' = Content
  BY ContentOf
<1> HIDE DEF States, Content
<1>4. States' = [d \in Callers |-> IF d \in {c} THEN "failed" ELSE States[d]]
  BY <1>1, <1>2
<1> QED
  BY <1>2, <1>3, <1>4, StoreFail

\* The rename is where a write takes effect: what was renamed is the caller's own
\* list, for no other writer has touched the temporary file.
LEMMA WriteStep ==
    ASSUME IInv, NEW c \in Callers,
           WriteTry(c) \/ TmpOpened(c) \/ TmpWritten(c) \/ Rename(c) \/ WriteFails(c)
    PROVE  [Store!Next]_Store!vars
<1>1. /\ TypeOK /\ UNCHANGED <<op, data>>
      /\ State(pc[c]) = "changed" /\ States[c] = "changed"
  <2>1. pc[c] \in {"write", "writing", "filling", "renaming"}
    BY DEF WriteTry, TmpOpened, TmpWritten, Rename, WriteFails
  <2>2. UNCHANGED <<op, data>>
    BY DEF WriteTry, TmpOpened, TmpWritten, Rename, WriteFails
  <2> QED
    BY <2>1, <2>2, StateOf DEF States, IInv
<1>2. CASE Rename(c)
  <2>1. file' = Whole(data[c]) /\ data[c] \in SUBSET Docs /\ Goto(c, "done")
    BY <1>2 DEF Rename, IInv, RenamesOwnData, TypeOK
  <2>2. Content' = data[c] /\ States' = [States EXCEPT ![c] = "done"]
    BY <1>1, <2>1, ContentOf, GotoStates, StateOf
  <2> HIDE DEF States, Content
  <2> QED
    BY <1>1, <2>2, StoreReplace
<1>3. CASE UNCHANGED file /\ Goto(c, "failed")
  BY <1>1, <1>3, FailStep
<1>4. CASE UNCHANGED file /\ \E place \in {"write", "writing", "filling", "renaming"} : Goto(c, place)
  BY <1>1, <1>4, ContentOf, GotoStates, StateOf, StoreStutter
<1> QED
  BY <1>2, <1>3, <1>4 DEF WriteTry, TmpOpened, TmpWritten, WriteFails, Again

\* The file is gone: deleted now, or by another call before.
LEMMA DeleteStep ==
    ASSUME TypeOK, OpInv, NEW c \in Callers, DeleteTry(c) \/ Unlink(c) \/ UnlinkFails(c)
    PROVE  [Store!Next]_Store!vars
<1>1. /\ UNCHANGED <<op, data>> /\ RemovesAll(op[c])
      /\ State(pc[c]) = "called" /\ States[c] = "called"
  <2>1. pc[c] \in {"delete", "unlinking"} /\ UNCHANGED <<op, data>>
    BY DEF DeleteTry, Unlink, UnlinkFails
  <2> QED
    BY <2>1, StateOf DEF States, OpInv
<1>2. CASE file' = Absent /\ Goto(c, "done")
  <2>1. Content' = {} /\ States' = [States EXCEPT ![c] = "done"]
    BY <1>2, ContentOf, GotoStates, StateOf
  <2> HIDE DEF States, Content
  <2> QED
    BY <1>1, <2>1, StoreClear
<1>3. CASE UNCHANGED file /\ \E place \in {"delete", "unlinking"} : Goto(c, place)
  BY <1>1, <1>3, ContentOf, GotoStates, StateOf, StoreStutter
<1> QED
  BY <1>2, <1>3 DEF DeleteTry, Unlink, UnlinkFails, Again, files

\* When the process dies, the calls at work fail together.
LEMMA RestartStep == ASSUME TypeOK, Restart PROVE [Store!Next]_Store!vars
<1> DEFINE S == {c \in Callers : pc[c] \notin {"idle", "done", "failed", "lost"}}
<1>1. UNCHANGED <<op, data>> /\ Content' = Content
  BY ContentOf DEF Restart
<1>2. \A c \in S : State(pc[c]) \in {"called", "changed"} /\ pc'[c] = "lost"
  <2>1. SUFFICES ASSUME NEW c \in S
                 PROVE  State(pc[c]) \in {"called", "changed"} /\ pc'[c] = "lost"
    OBVIOUS
  <2>2. pc[c] \in {"read", "reading", "delete", "unlinking",
                   "write", "writing", "filling", "renaming"}
    BY DEF TypeOK
  <2> QED
    BY <2>2, StateOf DEF Restart
<1>3. \A c \in Callers \ S : pc'[c] = pc[c]
  BY DEF Restart
<1>4. States' = [c \in Callers |-> State(pc'[c])]
  BY DEF States
<1>5. States' = [c \in Callers |-> IF c \in S THEN "failed" ELSE States[c]]
  BY <1>2, <1>3, <1>4, StateOf DEF States
<1>6. \A c \in S : States[c] \in {"called", "changed"}
  BY <1>2 DEF States
<1>7. CASE S = {}
  <2>1. States' = States
    BY <1>5, <1>7 DEF States
  <2> QED
    BY <1>1, <2>1, StoreStutter
<1>8. CASE S # {}
  <2>1. S \in (SUBSET Callers) \ {{}}
    BY <1>8
  <2> HIDE DEF S, States, Content
  <2> QED
    BY <1>1, <1>5, <1>6, <2>1, StoreFail
<1> QED
  BY <1>7, <1>8

\* The first state, and every step
LEMMA InitStore == Init => Store!Init
<1> SUFFICES ASSUME Init PROVE Store!Init
  OBVIOUS
<1>1. (IF FileIsWhole THEN file.docs ELSE {Torn}) = {}
  BY DEF Init, FileIsWhole, Absent, Torn
<1>2. [c \in Callers |-> State(pc[c])] = [c \in Callers |-> "called"]
  BY StateOf DEF Init
<1> QED
  BY <1>1, <1>2 DEF Init, Store!Init, Store!Ops, Ops

LEMMA NextStore == ASSUME IInv, OpInv, [Next]_vars PROVE [Store!Next]_Store!vars
<1>0. TypeOK
  BY DEF IInv
<1>1. CASE UNCHANGED vars
  <2>1. UNCHANGED <<op, data>> /\ Content' = Content /\ States' = States
    BY <1>1, ContentOf DEF vars, States
  <2> QED
    BY <2>1, StoreStutter
<1>2. ASSUME NEW c \in Callers, Begin(c) PROVE [Store!Next]_Store!vars
  <2>1. /\ UNCHANGED <<file, op, data>> /\ State(pc[c]) = "called"
        /\ \E place \in {"delete", "read"} : Goto(c, place)
    BY <1>2, StateOf DEF Begin, files
  <2> QED
    BY <1>0, <2>1, ContentOf, GotoStates, StateOf, StoreStutter
<1> QED
  BY <1>0, <1>1, <1>2, ReadStep, WriteStep, DeleteStep, RestartStep DEF Next, Step

-----------------------------------------------------------------------------
(* Theorems *)

\* The inductive invariant of the data storage.
THEOREM Invariance == Spec => []IInv
BY InitIInv, NextIInv, PTL DEF Spec

\* The variables of the model always have their types.
THEOREM TypeCorrect == Spec => []TypeOK
<1>1. IInv => TypeOK
  BY DEF IInv
<1> QED
  BY <1>1, Invariance, PTL

\* No reader ever finds a torn data file, whoever fails or dies while writing.
THEOREM WholeFiles == Spec => []FileIsWhole
<1>1. IInv => FileIsWhole
  BY DEF IInv
<1> QED
  BY <1>1, Invariance, PTL

\* The lock list names the file exactly while one caller writes it, and that
\* caller moves its own data into place.
THEOREM OneWriter == Spec => [](LockIsWriter /\ RenamesOwnData)
<1>1. IInv => LockIsWriter /\ RenamesOwnData
  BY DEF IInv
<1> QED
  BY <1>1, Invariance, PTL

\* The invariant about the operations of the calls.
THEOREM OpInvariance == Spec => []OpInv
<1>1. IInv => TypeOK
  BY DEF IInv
<1> QED
  BY <1>1, Invariance, InitOpInv, NextOpInv, PTL DEF Spec

\* When remove() with an application or a user has replaced the file, a load() with
\* the same arguments finds nothing in it.
THEOREM RemovalsTakeEffect == Spec => RemovedIsGone
<1> DEFINE A == \A c \in Callers :
                    op[c].kind = "remove" /\ Rename(c) =>
                        Filter(file'.docs, TRUE, op[c].app, op[c].user) = {}
<1>1. ASSUME IInv, OpInv PROVE A
  <2>1. SUFFICES ASSUME NEW c \in Callers, op[c].kind = "remove", Rename(c)
                 PROVE  Filter(file'.docs, TRUE, op[c].app, op[c].user) = {}
    OBVIOUS
  <2>2. file' = Whole(data[c])
    BY <1>1, <2>1 DEF Rename, IInv, RenamesOwnData
  <2>3. Filter(data[c], TRUE, op[c].app, op[c].user) = {}
    BY <1>1, <2>1 DEF OpInv, Changes, Rename
  <2>4. file'.docs = data[c]
    BY <2>2 DEF Whole
  <2> QED
    BY <2>3, <2>4
<1>2. IInv /\ OpInv => [A]_vars
  BY <1>1
<1> HIDE DEF A
<1>3. Spec => [][A]_vars
  BY <1>2, Invariance, OpInvariance, PTL
<1> QED
  BY <1>3 DEF RemovedIsGone, A

\* The data storage implements SnapshotStore: files, locks, tries, failures and
\* restarts make a register of whole lists.
THEOREM Refinement == Spec => StoreSpec
<1>1. Spec => Store!Init /\ [][Store!Next]_Store!vars
  BY InitStore, NextStore, Invariance, OpInvariance, PTL DEF Spec
<1> QED
  BY <1>1 DEF StoreSpec, Store!Spec
=============================================================================
