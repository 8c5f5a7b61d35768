---------------------------- MODULE DocumentOps ----------------------------
(***************************************************************************)
(* The documents of one id of the data storage, and what load, store and   *)
(* remove make of the list they have read, without the files it is kept in.*)
(***************************************************************************)
CONSTANTS
    Callers,    \* concurrent calls of load, store and remove
    Apps, Users,
    NoArg       \* an application or user argument that is left out

ASSUME ArgAssumption == NoArg \notin Apps \cup Users

\* A stored document: its application, its user and the call that stored it
Docs == [app : Apps \cup {NoArg}, user : Users \cup {NoArg}, by : Callers]

\* A call and its arguments
Ops == [kind : {"load", "store", "remove"}, app : Apps \cup {NoArg}, user : Users \cup {NoArg}]

\* remove() without application and user deletes the file.
RemovesAll(o) == o.kind = "remove" /\ o.app = NoArg /\ o.user = NoArg

\* Mutant: remove() filters as load() does.
FilterAlwaysKeeps(D, contains, app, user) ==
    { d \in D : /\ app # NoArg => d.app = app
                /\ user # NoArg => d.user = user }

\* filterData(): each argument that is given selects (contains) or rejects the
\* documents that carry it.
Filter(D, contains, app, user) ==
    { d \in D : /\ app # NoArg => (d.app = app) = contains
                /\ user # NoArg => (d.user = user) = contains }

\* The list after store(): call c adds its document.
Stored(D, c, o) == D \cup {[app |-> o.app, user |-> o.user, by |-> c]}
=============================================================================
