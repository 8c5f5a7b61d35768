--------------------------- MODULE SnapshotStore ---------------------------
(***************************************************************************)
(* What the data storage promises, without files, locks and tries: one     *)
(* list of documents that every call reads whole and replaces whole.       *)
(*                                                                         *)
(* A call sees the list at one moment and computes from it what it returns *)
(* or writes.  What it writes replaces the list at one later moment, or    *)
(* never.  Between the two the list may change: the promise is a register, *)
(* not a transaction, and a call may undo what another one wrote.          *)
(***************************************************************************)
EXTENDS DocumentOps

VARIABLES
    content,    \* the list, as a set of documents
    op,         \* what each call does
    state,      \* how far it is
    result      \* what it returns, or is going to write

vars == <<content, op, state, result>>

Init ==
    /\ content = {}
    /\ op \in [Callers -> Ops]
    /\ state = [c \in Callers |-> "called"]
    /\ result = [c \in Callers |-> {}]

\* Call c reads the list.
Read(c) ==
    LET o == op[c] IN
    /\ state[c] = "called"
    /\ ~RemovesAll(o)
    /\ result' = [result EXCEPT ![c] =
          IF o.kind = "store" THEN Stored(content, c, o)
                              ELSE Filter(content, o.kind = "load", o.app, o.user)]
    /\ state' = [state EXCEPT ![c] = IF o.kind = "load" THEN "done" ELSE "changed"]
    /\ UNCHANGED <<content, op>>

\* What it made of the list takes the list's place.
Replace(c) ==
    /\ state[c] = "changed"
    /\ content' = result[c]
    /\ state' = [state EXCEPT ![c] = "done"]
    /\ UNCHANGED <<op, result>>

\* remove() without arguments needs not read.
Clear(c) ==
    /\ state[c] = "called"
    /\ RemovesAll(op[c])
    /\ content' = {}
    /\ state' = [state EXCEPT ![c] = "done"]
    /\ UNCHANGED <<op, result>>

\* Calls end without a further effect, many at once if the process dies.
Fail(S) ==
    /\ \A c \in S : state[c] \in {"called", "changed"}
    /\ state' = [c \in Callers |-> IF c \in S THEN "failed" ELSE state[c]]
    /\ UNCHANGED <<content, op, result>>

Next ==
    \/ \E c \in Callers : Read(c) \/ Replace(c) \/ Clear(c)
    \/ \E S \in (SUBSET Callers) \ {{}} : Fail(S)

Spec == Init /\ [][Next]_vars
=============================================================================
