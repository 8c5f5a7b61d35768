---------------------------- MODULE RequestPool ----------------------------
(***************************************************************************)
(* The node routes of the worker and the DTO objects they share.           *)
(*                                                                         *)
(* A request posted to /connector/:name/action, /batch/:name/action or     *)
(* /custom-node/:name/process takes a reusable DTO from a process-wide     *)
(* pool, runs the node on it, answers, and gives the object back when the  *)
(* response closes.  A request that fails is answered by the Express error *)
(* handler, which takes a second DTO, always from the ProcessDto pool.     *)
(*                                                                         *)
(* Node.js runs one callback at a time: an action below is what runs       *)
(* between two awaits, and requests interleave at the awaits.  The mutex   *)
(* around the pool guards a callback without await, so taking an object is *)
(* one step; which free object the scan meets first is left open.          *)
(***************************************************************************)
EXTENDS Naturals

CONSTANTS
    Requests,       \* HTTP requests posted to a node route
    Dtos,           \* identities of the DTO objects the process may create
    ProcessObjects, \* objects of dtoPool when the module is loaded
    BatchObjects,   \* objects of batchDtoPool when the module is loaded
    NoDto           \* "undefined" in a variable that may hold a DTO

ASSUME PoolAssumption ==
    /\ ProcessObjects \subseteq Dtos
    /\ BatchObjects \subseteq Dtos
    /\ ProcessObjects \cap BatchObjects = {}
    /\ NoDto \notin Dtos

VARIABLES
    pool,       \* pool[k]: the objects in dtoPool / batchDtoPool
    obj,        \* the fields of every DTO object
    pc,         \* where the handler of a request waits
    input,      \* what is posted, and to which node
    err,        \* what was passed to next(e)
    held,       \* acquiredProcessDto / acquiredBatchProcessDto of the route
    errHeld,    \* acquiredProcessDto of the error handler
    onClose,    \* objects whose setFree(true) is registered on 'close'
    closed,     \* res.closed
    response,   \* what was sent
    lost        \* history: objects taken for a request and then in no variable

vars == <<pool, obj, pc, input, err, held, errHeld, onClose, closed, response, lost>>

(***************************************************************************)
(* Data                                                                    *)
(***************************************************************************)
Kinds == {"process", "batch"}

\* getAuditCheckpoint() of the node: null, a specification, or it throws.
Checkpoints == {"none", "declared", "throws"}

\* The body of a request: a message of the bridge, or the JSON text null, which
\* parses and has no fields.  Any text that is no JSON ends in bodyParser, whose
\* logger.createCtx parses it first and throws: it never reaches a route.
Bodies == {"message", "null"}

\* What a request brings: the pool of its route, its body, whether the loader
\* knows the node, and what that node declares.
Inputs == { i \in [kind : Kinds, body : Bodies, known : BOOLEAN,
                   checkpoint : Checkpoints] :
                i.known \/ i.checkpoint = "none" }

\* Errors reach the error handler as one of its two exceptions or as another.
Errors == {"OnRepeat", "OnStopAndFail", "other"}

\* The result-code header of an answer: what the node left in its headers or
\* success, what the error handler sets, or no header at all.
Codes == {"node's", "REPEAT", "STOP_AND_FAILED", "none"}

\* The fields of a DTO; of its texts, only whose request they come from.
Object == [free : BOOLEAN, data : SUBSET Requests, headers : SUBSET Requests,
           currentApp : SUBSET Requests, messages : SUBSET Requests]

\* The constructor of a DTO
Cleared == [free |-> TRUE, data |-> {}, headers |-> {}, currentApp |-> {},
            messages |-> {}]

\* Mutant: BatchProcessDto does not override clearData.
SetFreeKeepsMessages(x) ==
    [free |-> TRUE, data |-> {}, headers |-> {}, currentApp |-> {},
     messages |-> x.messages]

\* setFree(true): clearData, which a batch extends to its messages, then
\* headers = {} and currentApp = ''.
SetFree(x) == [free |-> TRUE, data |-> {}, headers |-> {}, currentApp |-> {},
               messages |-> {}]

\* setFree(false)
Marked(x) == [free |-> FALSE, data |-> x.data, headers |-> x.headers,
              currentApp |-> x.currentApp, messages |-> x.messages]

\* Mutant: getFreeDto does not mark what it hands out.
FilledStillFree(x, r) == [free |-> TRUE, data |-> {r}, headers |-> {r},
                          currentApp |-> {r}, messages |-> x.messages]

\* createProcessDto / createBatchProcessDto after getFreeDto: every setter of
\* the request's own data.  Nothing here touches the messages of a batch.
Filled(x, r) == [free |-> FALSE, data |-> {r}, headers |-> {r},
                 currentApp |-> {r}, messages |-> x.messages]

\* What a node does to its object: data and headers, and the items of a batch.
Written(x, r, k) ==
    [free |-> x.free, data |-> {r}, headers |-> {r}, currentApp |-> x.currentApp,
     messages |-> IF k = "batch" THEN x.messages \cup {r} ELSE x.messages]

Responses == [by : {"route", "errorHandler", "express"}, status : {200, 400, 500},
              code : Codes, checkpoint : BOOLEAN, content : SUBSET Requests]
Unsent == [by |-> "nobody"]

\* Express' final handler: a bare error, without the worker's headers.
Bare == [by |-> "express", status |-> 500, code |-> "none",
         checkpoint |-> FALSE, content |-> {}]

\* getBridgeData: the messages of a batch, the data of any other DTO
BridgeData(o, k) == IF k = "batch" THEN o.messages ELSE o.data

Init ==
    /\ pool = [k \in Kinds |-> IF k = "process" THEN ProcessObjects
                                                ELSE BatchObjects]
    /\ obj = [d \in Dtos |-> Cleared]
    /\ pc = [r \in Requests |-> "unposted"]
    /\ input \in [Requests -> Inputs]
    /\ err = [r \in Requests |-> "none"]
    /\ held = [r \in Requests |-> NoDto]
    /\ errHeld = [r \in Requests |-> NoDto]
    /\ onClose = [r \in Requests |-> {}]
    /\ closed = [r \in Requests |-> FALSE]
    /\ response = [r \in Requests |-> Unsent]
    /\ lost = [r \in Requests |-> {}]

(***************************************************************************)
(* Steps shared by the handlers                                            *)
(***************************************************************************)
\* Objects that were never created; which of them a constructor yields is
\* immaterial.
Uncreated == Dtos \ UNION {pool[k] : k \in Kinds}

\* getFreeDto / getFreeBatchDto: d is a free object of the pool, or a new one
\* that joins the pool when none is free.
TakeFree(k, d) ==
    \/ /\ d \in pool[k]
       /\ obj[d].free
       /\ UNCHANGED pool
    \/ /\ \A x \in pool[k] : ~obj[x].free
       /\ d \in Uncreated
       /\ d = CHOOSE x \in Uncreated : TRUE
       /\ pool' = [pool EXCEPT ![k] = @ \cup {d}]

\* createProcessDto / createBatchProcessDto on the body null: the object is taken
\* and marked, then parsed.body throws, before the caller has the object.
TakeAndLose(r, k, d) ==
    /\ TakeFree(k, d)
    /\ obj' = [obj EXCEPT ![d] = Marked(@)]
    /\ lost' = [lost EXCEPT ![r] = @ \cup {d}]

\* Mutant: releaseDtoOnClose only registers the listener.
ReleaseOnCloseOnly(r, d, o) ==
    /\ obj' = o
    /\ onClose' = [onClose EXCEPT ![r] = @ \cup {d}]

\* releaseDtoOnClose(res, d), the objects being o: at once when the client is
\* gone, else by a listener.
ReleaseOnClose(r, d, o) ==
    IF closed[r]
    THEN /\ obj' = [o EXCEPT ![d] = SetFree(@)]
         /\ UNCHANGED onClose
    ELSE /\ obj' = o
         /\ onClose' = [onClose EXCEPT ![r] = @ \cup {d}]

\* createSuccessResponse / createErrorResponse
Send(r, by, status, code, content) ==
    response' = [response EXCEPT ![r] =
        [by |-> by, status |-> status, code |-> code,
         checkpoint |-> input[r].checkpoint = "declared", content |-> content]]

\* next(e) of a route: the error handler runs until it waits for a DTO of its
\* own.
NextError(r, e) ==
    /\ err' = [err EXCEPT ![r] = e]
    /\ pc' = [pc EXCEPT ![r] = "errAcquire"]

\* Mutants: the catch does not free the object; it does not call next(e).
AbandonKeeps(r, d, o) ==
    /\ obj' = o
    /\ response' = [response EXCEPT ![r] = Bare]
    /\ UNCHANGED onClose

AbandonSilently(r, d, o) ==
    /\ obj' = [o EXCEPT ![d] = SetFree(@)]
    /\ UNCHANGED <<response, onClose>>

\* The error handler's catch: setFree(true) now, and the error to Express.
Abandon(r, d, o) ==
    /\ obj' = [o EXCEPT ![d] = SetFree(@)]
    /\ response' = [response EXCEPT ![r] = Bare]
    /\ UNCHANGED onClose

\* The error handler answers with its own object d; attaching the checkpoint
\* may throw, which lands in its catch.
ErrorAnswer(r, d, o, status, code) ==
    IF input[r].checkpoint = "throws"
    THEN Abandon(r, d, o)
    ELSE /\ ReleaseOnClose(r, d, o)
         /\ Send(r, "errorHandler", status, code, o[d].data \cup o[d].headers)

(***************************************************************************)
(* The route                                                               *)
(***************************************************************************)
\* POST: look the node up, which may throw; then parse the body and wait for
\* an object.
Post(r) ==
    /\ pc[r] = "unposted"
    /\ IF input[r].known
       THEN /\ pc' = [pc EXCEPT ![r] = "acquire"]
            /\ UNCHANGED err
       ELSE NextError(r, "other")
    /\ UNCHANGED <<pool, obj, input, held, errHeld, onClose, closed, response, lost>>

\* getFreeDto answers; processAction is called on the object.
Acquire(r, d) ==
    /\ pc[r] = "acquire"
    /\ input[r].body = "message"
    /\ TakeFree(input[r].kind, d)
    /\ obj' = [obj EXCEPT ![d] = Filled(@, r)]
    /\ held' = [held EXCEPT ![r] = d]
    /\ pc' = [pc EXCEPT ![r] = "running"]
    /\ UNCHANGED <<input, err, errHeld, onClose, closed, response, lost>>

\* The same for the body null: the catch of the route has nothing to release.
AcquireNull(r, d) ==
    /\ pc[r] = "acquire"
    /\ input[r].body = "null"
    /\ TakeAndLose(r, input[r].kind, d)
    /\ NextError(r, "other")
    /\ UNCHANGED <<input, held, errHeld, onClose, closed, response>>

\* The node works on its object: data or batch items, headers, a status.
NodeWrites(r) ==
    /\ pc[r] = "running"
    /\ obj' = [obj EXCEPT ![held[r]] = Written(@, r, input[r].kind)]
    /\ UNCHANGED <<pool, pc, input, err, held, errHeld, onClose, closed, response, lost>>

\* processAction resolves to the object it was given.
NodeReturns(r) ==
    LET d == held[r] IN
    /\ pc[r] = "running"
    /\ input[r].checkpoint # "throws"
    /\ Send(r, "route", 200, "node's",
            BridgeData(obj[d], input[r].kind) \cup obj[d].headers)
    /\ ReleaseOnClose(r, d, obj)
    /\ held' = [held EXCEPT ![r] = NoDto]
    /\ pc' = [pc EXCEPT ![r] = "done"]
    /\ UNCHANGED <<pool, input, err, errHeld, closed, lost>>

\* Mutant: only the object that was returned is released.
NodeReturnsAnotherForgets(r) ==
    /\ pc[r] = "running"
    /\ input[r].checkpoint # "throws"
    /\ Send(r, "route", 200, "node's", {r})
    /\ held' = [held EXCEPT ![r] = NoDto]
    /\ pc' = [pc EXCEPT ![r] = "done"]
    /\ UNCHANGED <<pool, obj, input, err, errHeld, onClose, closed, lost>>

\* processAction resolves to another object, one it created.  That object is in
\* no pool, so its own release has no effect; the pooled one is released too.
NodeReturnsAnother(r) ==
    /\ pc[r] = "running"
    /\ input[r].checkpoint # "throws"
    /\ Send(r, "route", 200, "node's", {r})
    /\ ReleaseOnClose(r, held[r], obj)
    /\ held' = [held EXCEPT ![r] = NoDto]
    /\ pc' = [pc EXCEPT ![r] = "done"]
    /\ UNCHANGED <<pool, input, err, errHeld, closed, lost>>

\* Mutant: the checkpoint is attached after the answer is sent, and throws.
NodeFailsAfterSending(r, e) ==
    /\ pc[r] = "running"
    /\ ReleaseOnClose(r, held[r], obj)
    /\ held' = [held EXCEPT ![r] = NoDto]
    /\ Send(r, "route", 200, "node's", {r})
    /\ err' = [err EXCEPT ![r] = e]
    /\ pc' = [pc EXCEPT ![r] = "errAcquire"]
    /\ UNCHANGED <<pool, input, errHeld, closed, lost>>

\* processAction throws, or createSuccessResponse does ("other"): the catch
\* registers the release and calls next(e).
NodeFails(r, e) ==
    /\ pc[r] = "running"
    /\ ReleaseOnClose(r, held[r], obj)
    /\ held' = [held EXCEPT ![r] = NoDto]
    /\ NextError(r, e)
    /\ UNCHANGED <<pool, input, errHeld, closed, response, lost>>

(***************************************************************************)
(* The error handler                                                       *)
(***************************************************************************)
\* It takes an object of its own.  A repeat first asks for the settings of the
\* node; any other error is answered at once.
ErrAcquire(r, d) ==
    LET o == [obj EXCEPT ![d] = Filled(@, r)] IN
    /\ pc[r] = "errAcquire"
    /\ input[r].body = "message"
    /\ TakeFree("process", d)
    /\ IF err[r] = "OnRepeat"
       THEN /\ obj' = o
            /\ errHeld' = [errHeld EXCEPT ![r] = d]
            /\ pc' = [pc EXCEPT ![r] = "errLookup"]
            /\ UNCHANGED <<onClose, response>>
       ELSE /\ ErrorAnswer(r, d, o, IF err[r] = "OnStopAndFail" THEN 200 ELSE 400,
                           "STOP_AND_FAILED")
            /\ pc' = [pc EXCEPT ![r] = "done"]
            /\ UNCHANGED errHeld
    /\ UNCHANGED <<input, err, held, closed, lost>>

\* The same for the body null, which throws again: the catch has no object to
\* free and leaves the request to Express.
ErrAcquireNull(r, d) ==
    /\ pc[r] = "errAcquire"
    /\ input[r].body = "null"
    /\ TakeAndLose(r, "process", d)
    /\ response' = [response EXCEPT ![r] = Bare]
    /\ pc' = [pc EXCEPT ![r] = "done"]
    /\ UNCHANGED <<input, err, held, errHeld, onClose, closed>>

\* nodeRepository.findOne answers, setRepeater accepts the settings.
ErrLookup(r) ==
    /\ pc[r] = "errLookup"
    /\ ErrorAnswer(r, errHeld[r], obj, 200, "REPEAT")
    /\ errHeld' = [errHeld EXCEPT ![r] = NoDto]
    /\ pc' = [pc EXCEPT ![r] = "done"]
    /\ UNCHANGED <<pool, input, err, held, closed, lost>>

\* findOne rejects, or setRepeater refuses an interval or a hop count below 1.
ErrLookupFails(r) ==
    /\ pc[r] = "errLookup"
    /\ Abandon(r, errHeld[r], obj)
    /\ errHeld' = [errHeld EXCEPT ![r] = NoDto]
    /\ pc' = [pc EXCEPT ![r] = "done"]
    /\ UNCHANGED <<pool, input, err, held, closed, lost>>

\* The response emits 'close': it was delivered, or the client went away while
\* the handler was still at work.  Every listener runs.
Close(r) ==
    /\ pc[r] # "unposted"
    /\ ~closed[r]
    /\ closed' = [closed EXCEPT ![r] = TRUE]
    /\ obj' = [d \in Dtos |-> IF d \in onClose[r] THEN SetFree(obj[d]) ELSE obj[d]]
    /\ onClose' = [onClose EXCEPT ![r] = {}]
    /\ UNCHANGED <<pool, pc, input, err, held, errHeld, response, lost>>

NodeSettles(r) ==
    \/ NodeReturns(r)
    \/ NodeReturnsAnother(r)
    \/ \E e \in Errors : NodeFails(r, e)

Step(r) ==
    \/ Post(r)
    \/ \E d \in Dtos : Acquire(r, d)
    \/ \E d \in Dtos : AcquireNull(r, d)
    \/ NodeWrites(r)
    \/ NodeSettles(r)
    \/ \E d \in Dtos : ErrAcquire(r, d)
    \/ \E d \in Dtos : ErrAcquireNull(r, d)
    \/ ErrLookup(r)
    \/ ErrLookupFails(r)
    \/ Close(r)

Next == \E r \in Requests : Step(r)

Spec == Init /\ [][Next]_vars

\* The event loop runs a ready callback; processAction and the lookup settle;
\* a response that was handed to Express closes in the end.  Nothing makes a
\* client post, or go away early.
Fairness == \A r \in Requests :
    /\ WF_vars(\E d \in Dtos : Acquire(r, d) \/ AcquireNull(r, d))
    /\ WF_vars(NodeSettles(r))
    /\ WF_vars(\E d \in Dtos : ErrAcquire(r, d) \/ ErrAcquireNull(r, d))
    /\ WF_vars(ErrLookup(r) \/ ErrLookupFails(r))
    /\ WF_vars(pc[r] = "done" /\ Close(r))

FairSpec == Spec /\ Fairness

(***************************************************************************)
(* Properties                                                              *)
(***************************************************************************)
\* The objects a request is responsible for: in use by its route or its error
\* handler, or waiting for its response to close.
Held(r) == onClose[r] \cup ({held[r], errHeld[r]} \ {NoDto})

\* Whose texts an object contains
Contents(d) == obj[d].data \cup obj[d].headers \cup obj[d].currentApp
                 \cup obj[d].messages

TypeOK ==
    /\ pool \in [Kinds -> SUBSET Dtos]
    /\ obj \in [Dtos -> Object]
    /\ pc \in [Requests -> {"unposted", "acquire", "running", "errAcquire",
                            "errLookup", "done"}]
    /\ input \in [Requests -> Inputs]
    /\ err \in [Requests -> Errors \cup {"none"}]
    /\ held \in [Requests -> Dtos \cup {NoDto}]
    /\ errHeld \in [Requests -> Dtos \cup {NoDto}]
    /\ onClose \in [Requests -> SUBSET Dtos]
    /\ closed \in [Requests -> BOOLEAN]
    /\ response \in [Requests -> Responses \cup {Unsent}]
    /\ lost \in [Requests -> SUBSET Dtos]

\* Two requests in flight never work on, or wait to release, the same object:
\* releasing it for one would wipe it under the other.
OneHolder == \A r, s \in Requests : r # s => Held(r) \cap Held(s) = {}

\* An object is marked in use exactly while some request is responsible for it,
\* or because it was lost.
Accounted == \A d \in Dtos :
    ~obj[d].free <=> \E r \in Requests : d \in Held(r) \cup lost[r]

\* No exit of the two handlers frees an object that is still in use, and none
\* forgets one but those of the body null.  Such a request ends with two objects
\* marked for ever, the route's and the error handler's, or with the latter alone
\* when the loader does not know the node.
OnlyNullLeaks ==
    /\ Accounted
    /\ \A r \in Requests : lost[r] # {} => input[r].body = "null"
    /\ \A r \in Requests : pc[r] = "done" /\ input[r].body = "null" =>
           \E d, e \in Dtos : lost[r] = {d, e} /\ (d # e <=> input[r].known)

\* What the pool hands out carries nothing of an earlier request.  This is what
\* a batch relies on: its messages are never reset when it is acquired.
FreeIsClean == \A d \in Dtos : obj[d].free => obj[d] = Cleared

\* A response contains only what its own request brought or its node wrote.
ResponseIsolation ==
    \A r \in Requests : response[r] # Unsent => response[r].content \subseteq {r}

\* Auxiliary: nothing waits for a 'close' event that is already in the past.
NoLateListener == \A r \in Requests : closed[r] => onClose[r] = {}

\* A request is answered once: what was sent is never sent again or replaced,
\* although both the route and the error handler can answer.
AnsweredOnce ==
    [][\A r \in Requests : response[r] # Unsent => response'[r] = response[r]]_vars

\* Every object some request is responsible for comes back to the pool.
\* OnlyNullLeaks tells which objects that are taken are nobody's.
ObjectsReturn ==
    \A d \in Dtos : (\E r \in Requests : d \in Held(r)) ~> obj[d].free

\* Every request that reaches a node route is answered.
PostedIsAnswered ==
    \A r \in Requests : pc[r] # "unposted" ~> response[r] # Unsent

\* lib/Commons/ANode.ts: the checkpoint a node declares is in the header "on
\* BOTH success and error responses, so the Bridge always sees the spec".
CheckpointAlwaysReported ==
    \A r \in Requests :
        /\ response[r] # Unsent
        /\ input[r].body = "message"
        /\ input[r].checkpoint = "declared"
        => response[r].checkpoint
=============================================================================
