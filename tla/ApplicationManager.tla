------------------------- MODULE ApplicationManager -------------------------
(***************************************************************************)
(* ApplicationManager over ApplicationInstallRepository: concurrent calls  *)
(* of one worker process for one application, user and sdk.  Each loads    *)
(* the install, through the cache of the repository or by a request to the *)
(* worker-api, changes it in memory and sends it back as a whole.          *)
(*                                                                         *)
(* A request has two sides: the worker-api handles it, and its answer      *)
(* arrives later or never.  The worker-api stores a document under its id; *)
(* it may refuse to, which the repository does not look at.                *)
(*                                                                         *)
(* "refresh" is a node that refreshes its OAuth token through the SDK; it  *)
(* alone keeps its object after a failed update and may send it again.     *)
(*                                                                         *)
(* History variables: missed[c], at some moment of call c no install       *)
(* matched its query; sent, the calls whose change the worker-api took;    *)
(* overlapped, two calls ran at the same time; expected, what the calls so *)
(* far amount to if each one's change is kept.                             *)
(***************************************************************************)
EXTENDS InstallDocument

CONSTANTS
    Original,   \* the install there may be at first, and its values
    Absent,     \* no install
    Uncached,   \* no answer to a query in the cache
    Unknown,    \* what a failed call leaves open
    MayFail     \* whether requests may fail or be refused

Installs == [id : Ids, doc : Documents]

\* What a document may be expected to hold
Expectations ==
    [enabled : BOOLEAN \cup {Unknown},
     plain   : [Fields -> Ids \cup {NoValue, Unknown}],
     sealed  : {NoSettings}]

ASSUME ManagerAssumption ==
    /\ Original \in Ids
    /\ Absent \notin {Unknown, Uncached} \cup Documents \cup Installs \cup Expectations
    /\ Uncached \notin Installs
    /\ Unknown \notin Expectations
    /\ MayFail \in BOOLEAN

Callers == Ids \ {Original}

VARIABLES
    stored,     \* the worker-api: id -> document
    cache,      \* the repository's cache: query -> answer
    pc, op,
    entity,     \* the install a call works on
    missed, sent, overlapped, expected

history == <<missed, sent, overlapped, expected>>
vars == <<stored, cache, pc, op, entity, history>>

Operations == Updates \cup {"install", "uninstall", "detail"}

\* The two queries in use: installs in any state, and enabled ones only.
Queries == {"any", "enabled"}

Query(o) == IF o \in {"install", "refresh"} THEN "enabled" ELSE "any"

Running(c) == pc[c] \notin {"idle", "ended", "missing"}

Goto(c, place) == pc' = [pc EXCEPT ![c] = place]

\* A call ends, with or without success, and its object goes out of use.
End(c) ==
    /\ Goto(c, "ended")
    /\ entity' = [entity EXCEPT ![c] = Absent]

\* The installs in a store that a query matches
Matching(q, store) ==
    { d \in Ids : store[d] # Absent /\ (q = "enabled" => store[d].enabled) }

Init ==
    /\ \E first \in {Absent} \cup
          [enabled : BOOLEAN, plain : {NoSettings}, sealed : {[f \in Fields |-> Original]}] :
              stored = [d \in Ids |-> IF d = Original THEN first ELSE Absent]
    /\ cache = [q \in Queries |-> Uncached]
    /\ pc = [c \in Callers |-> "idle"]
    /\ op = [c \in Callers |-> "detail"]
    /\ entity = [c \in Callers |-> Absent]
    /\ missed = [c \in Callers |-> FALSE]
    /\ sent = {}
    /\ overlapped = FALSE
    /\ expected = [d \in Ids |-> IF stored[d] = Absent THEN Absent ELSE AfterReceive(stored[d])]

(***************************************************************************)
(* What the calls amount to                                                *)
(***************************************************************************)
Sets(o) ==
    { f \in Fields : <<o, f>> \in {<<"settings", "form">>, <<"password", "password">>,
                                 <<"authorize", "redirect">>,
                                 <<"token", "token">>, <<"refresh", "token">>} }

Clears(o) == IF o = "settings" THEN {"redirect"} ELSE {}

\* The effect of a finished call on the install it found
Effect(doc, o, c) ==
    [enabled |-> IF o \in {"enable", "disable"} THEN o = "enable" ELSE doc.enabled,
     plain   |-> [f \in Fields |-> IF f \in Sets(o) THEN c
                                   ELSE IF f \in Clears(o) THEN NoValue
                                   ELSE doc.plain[f]],
     sealed  |-> NoSettings]

\* The effect of a call that may have happened or not
Blurred(doc, o) ==
    [enabled |-> IF o \in {"enable", "disable"} THEN Unknown ELSE doc.enabled,
     plain   |-> [f \in Fields |-> IF f \in Sets(o) \cup Clears(o) THEN Unknown ELSE doc.plain[f]],
     sealed  |-> NoSettings]

\* What is expected of the document of a call after it
Outcome(c, e, certain) ==
    IF overlapped THEN Unknown
    ELSE IF op[c] \in {"install", "uninstall"}
    THEN IF ~certain THEN Unknown ELSE IF op[c] = "install" THEN NewDocument ELSE Absent
    ELSE IF e \in {Absent, Unknown} THEN Unknown
    ELSE IF certain THEN Effect(e, op[c], c) ELSE Blurred(e, op[c])

Expect(c, certain) ==
    LET d == entity[c].id IN
        expected' = [expected EXCEPT ![d] = Outcome(c, @, certain)]

(***************************************************************************)
(* Loading                                                                 *)
(***************************************************************************)
Begin(c, o) ==
    /\ pc[c] = "idle"
    /\ op' = [op EXCEPT ![c] = o]
    /\ IF cache[Query(o)] = Uncached
       THEN Goto(c, "find") /\ UNCHANGED entity
       ELSE Goto(c, "loaded") /\ entity' = [entity EXCEPT ![c] = cache[Query(o)]]
    /\ missed' = [missed EXCEPT ![c] = Matching(Query(o), stored) = {}]
    /\ overlapped' = (overlapped \/ \E other \in Callers : Running(other))
    /\ expected' = IF overlapped' THEN [d \in Ids |-> Unknown] ELSE expected
    /\ UNCHANGED <<stored, cache, sent>>

\* The worker-api answers with one of the installs the query matches.
Find(c) ==
    /\ pc[c] = "find"
    /\ LET matching == Matching(Query(op[c]), stored)
           answers == { [id |-> d, doc |-> stored[d]] : d \in matching }
       IN \E i \in IF matching = {} THEN {Absent} ELSE answers :
              entity' = [entity EXCEPT ![c] = i]
    /\ Goto(c, "found")
    /\ UNCHANGED <<stored, cache, op, history>>

Opened(i) == [i EXCEPT !.doc = AfterReceive(i.doc)]

\* Mutant: an empty answer is cached, too.
ReceiveAll(c) ==
    /\ pc[c] = "found"
    /\ entity' = [entity EXCEPT ![c] = IF @ = Absent THEN @ ELSE Opened(@)]
    /\ cache' = [cache EXCEPT ![Query(op[c])] = entity'[c]]
    /\ Goto(c, "loaded")
    /\ UNCHANGED <<stored, op, history>>

\* The answer arrives; what is found is cached, that nothing is found is not.
Receive(c) ==
    /\ pc[c] = "found"
    /\ IF entity[c] # Absent
       THEN /\ entity' = [entity EXCEPT ![c] = Opened(@)]
            /\ cache' = [cache EXCEPT ![Query(op[c])] = entity'[c]]
       ELSE UNCHANGED <<entity, cache>>
    /\ Goto(c, "loaded")
    /\ UNCHANGED <<stored, op, history>>

\* An install takes a failing query for an empty answer.
FindFails(c) ==
    /\ MayFail /\ pc[c] \in {"find", "found"}
    /\ IF op[c] = "install" THEN Goto(c, "absent") /\ UNCHANGED entity ELSE End(c)
    /\ UNCHANGED <<stored, cache, op, history>>

(***************************************************************************)
(* Changing and sending                                                    *)
(***************************************************************************)
NotFound(c) ==
    /\ pc[c] = "loaded" /\ entity[c] = Absent
    /\ Goto(c, IF op[c] = "install" THEN "absent" ELSE "missing")
    /\ UNCHANGED <<stored, cache, op, entity, history>>

Loaded(c) == pc[c] = "loaded" /\ entity[c] # Absent

RefuseInstall(c) ==
    /\ Loaded(c) /\ op[c] = "install"
    /\ End(c)
    /\ UNCHANGED <<stored, cache, op, history>>

Insert(c) ==
    /\ pc[c] = "absent"
    /\ entity' = [entity EXCEPT ![c] = [id |-> c, doc |-> BeforeSend(NewDocument)]]
    /\ Goto(c, "send")
    /\ UNCHANGED <<stored, cache, op, history>>

Show(c) ==
    /\ Loaded(c) /\ op[c] = "detail"
    /\ End(c)
    /\ UNCHANGED <<stored, cache, op, history>>

AskProvider(c) ==
    /\ Loaded(c) /\ op[c] \in {"token", "refresh"}
    /\ Goto(c, "provider")
    /\ UNCHANGED <<stored, cache, op, entity, history>>

ProviderFails(c) ==
    /\ MayFail /\ pc[c] = "provider"
    /\ End(c)
    /\ UNCHANGED <<stored, cache, op, history>>

Ready(c) ==
    IF op[c] \in {"token", "refresh"} THEN pc[c] = "provider"
    ELSE Loaded(c) /\ op[c] \in Updates

\* Mutant: the cache hands out its own object, so a change shows in it.
ChangeShared(c) ==
    /\ Ready(c)
    /\ LET changed == Changed(entity[c].doc, op[c], c) IN
          /\ cache' = [q \in Queries |-> IF cache[q] = entity[c]
                                         THEN [entity[c] EXCEPT !.doc = changed]
                                         ELSE cache[q]]
          /\ entity' = [entity EXCEPT ![c] = [id |-> @.id, doc |-> BeforeSend(changed)]]
    /\ Goto(c, "send")
    /\ UNCHANGED <<stored, op, history>>

Change(c) ==
    /\ Ready(c)
    /\ entity' = [entity EXCEPT ![c] = [id |-> @.id, doc |-> BeforeSend(Changed(@.doc, op[c], c))]]
    /\ Goto(c, "send")
    /\ UNCHANGED <<stored, cache, op, history>>

Uninstall(c) ==
    /\ Loaded(c) /\ op[c] = "uninstall"
    /\ Goto(c, "send")
    /\ UNCHANGED <<stored, cache, op, entity, history>>

\* The worker-api stores or removes the document,
Handle(c) ==
    /\ pc[c] = "send"
    /\ stored' = [stored EXCEPT ![entity[c].id] =
                    IF op[c] = "uninstall" THEN Absent ELSE entity[c].doc]
    /\ missed' = [o \in Callers |-> missed[o] \/ (Running(o) /\ Matching(Query(op[o]), stored') = {})]
    /\ sent' = sent \cup {c}
    /\ Goto(c, "sent")
    /\ UNCHANGED <<cache, op, entity, overlapped, expected>>

\* or refuses to.
Refuse(c) ==
    /\ MayFail /\ pc[c] = "send"
    /\ Goto(c, "unsent")
    /\ UNCHANGED <<stored, cache, op, entity, history>>

\* Mutant: a write leaves the cache alone.
FinishKeepsCache(c) ==
    /\ pc[c] \in {"sent", "unsent"}
    /\ Expect(c, pc[c] = "sent")
    /\ End(c)
    /\ UNCHANGED <<stored, cache, op, missed, sent, overlapped>>

\* The answer arrives, whatever its status.
Finish(c) ==
    /\ pc[c] \in {"sent", "unsent"}
    /\ cache' = [q \in Queries |-> Uncached]
    /\ Expect(c, pc[c] = "sent")
    /\ End(c)
    /\ UNCHANGED <<stored, op, missed, sent, overlapped>>

\* No answer: the object stays as it was sent, the cache as it was.
SendFails(c) ==
    /\ MayFail /\ pc[c] \in {"send", "sent", "unsent"}
    /\ Expect(c, FALSE)
    /\ IF op[c] = "refresh" THEN Goto(c, "kept") /\ UNCHANGED entity ELSE End(c)
    /\ UNCHANGED <<stored, cache, op, missed, sent, overlapped>>

\* A node sends its object again, or gives up.
SendAgain(c) ==
    /\ pc[c] = "kept"
    /\ entity' = [entity EXCEPT ![c] = [id |-> @.id, doc |-> BeforeSend(@.doc)]]
    /\ Goto(c, "send")
    /\ UNCHANGED <<stored, cache, op, history>>

GiveUp(c) ==
    /\ pc[c] = "kept"
    /\ End(c)
    /\ UNCHANGED <<stored, cache, op, history>>

\* The time to live of a cached answer ends.
Expire(q) ==
    /\ cache[q] # Uncached
    /\ cache' = [cache EXCEPT ![q] = Uncached]
    /\ UNCHANGED <<stored, pc, op, entity, history>>

Next ==
    \/ \E c \in Callers :
          \/ \E o \in Operations : Begin(c, o)
          \/ Find(c) \/ Receive(c) \/ FindFails(c)
          \/ NotFound(c) \/ RefuseInstall(c) \/ Insert(c) \/ Show(c) \/ AskProvider(c) \/ ProviderFails(c)
          \/ Change(c) \/ Uninstall(c)
          \/ Handle(c) \/ Refuse(c) \/ Finish(c) \/ SendFails(c)
          \/ SendAgain(c) \/ GiveUp(c)
    \/ \E q \in Queries : Expire(q)

Spec == Init /\ [][Next]_vars

(***************************************************************************)
(* Properties                                                              *)
(***************************************************************************)
Places == {"idle", "find", "found", "absent", "loaded", "provider", "send", "sent", "unsent",
           "kept", "ended", "missing"}

\* Types; stored settings and what a call sends are encrypted, cached ones are not.
TypeOK ==
    /\ stored \in [Ids -> Documents \cup {Absent}]
    /\ cache \in [Queries -> Installs \cup {Absent, Uncached}]
    /\ pc \in [Callers -> Places]
    /\ op \in [Callers -> Operations]
    /\ entity \in [Callers -> Installs \cup {Absent}]
    /\ missed \in [Callers -> BOOLEAN]
    /\ sent \subseteq Callers
    /\ overlapped \in BOOLEAN
    /\ expected \in [Ids -> Expectations \cup {Absent, Unknown}]
    /\ \A d \in Ids : stored[d] # Absent => stored[d].plain = NoSettings
    /\ \A q \in Queries : cache[q] \in Installs => cache[q].doc.sealed = NoSettings

\* A document is what was expected, where that is known.
Fits(doc, e) ==
    \/ e = Unknown
    \/ e = Absent /\ doc = Absent
    \/ /\ e \notin {Absent, Unknown} /\ doc # Absent
       /\ e.enabled \in {Unknown, doc.enabled}
       /\ \A f \in Fields : e.plain[f] \in {Unknown, AfterReceive(doc).plain[f]}

\* As long as calls do not overlap, the change of every finished call is kept
\* although each sends the whole document, which it may have from the cache
\* (Repository.insertMany, findMany and clearCache).
SerialUpdatesSurvive ==
    (\A c \in Callers : ~Running(c)) =>
        \A d \in Ids : Fits(stored[d], expected[d])

\* "has not been found" is only said if at some moment of the call no
\* install matched: an empty answer is never cached (Repository.findMany).
MissIsFresh == \A c \in Callers : pc[c] = "missing" => missed[c]

\* A loaded object is the caller's own: nobody finds a change in the cache
\* that was never sent to the worker-api (Repository.findInCache).
UnsentIsUnseen ==
    \A q \in Queries : cache[q] \in Installs =>
        \A f \in Fields : cache[q].doc.plain[f] \in sent \cup {Original, NoValue}

\* "should not allow store .../install if application already exists"
\* (Application/__tests__/ApplicationRouter.ts:220), and the message of
\* installApplication(): there is one install, at least if calls do not overlap.
NoSecondInstall ==
    ~overlapped => \A d, e \in Ids : stored[d] # Absent /\ stored[e] # Absent => d = e
=============================================================================
