------------------------- MODULE RequestPoolProofs -------------------------
(***************************************************************************)
(* Proofs about RequestPool for any set of requests and of DTO objects.    *)
(***************************************************************************)
EXTENDS RequestPoolLease, TLAPS

-----------------------------------------------------------------------------
(* Type correctness *)

\* The constructor's object and the two ways an object is rewritten have the
\* type of a DTO (lib/Utils/AProcessDto.ts).
LEMMA ObjectTypes ==
    ASSUME NEW r \in Requests, NEW x \in Object
    PROVE  /\ Cleared \in Object
           /\ SetFree(x) \in Object
           /\ SetFree(x) = Cleared
           /\ Filled(x, r) \in Object
           /\ ~Filled(x, r).free
<1>1. Cleared \in Object
  BY DEF Object, Cleared
<1>2. SetFree(x) = Cleared
  BY DEF Object, Cleared, SetFree
<1>3. Filled(x, r) \in Object /\ ~Filled(x, r).free
  BY DEF Object, Filled
<1> QED
  BY <1>1, <1>2, <1>3

\* The initial state is well typed.
LEMMA InitTypeOK == Init => TypeOK
<1>1. Cleared \in Object
  BY DEF Object, Cleared
<1>2. ASSUME Init PROVE TypeOK
  <2>1. pool \in [Kinds -> SUBSET Dtos]
    BY <1>2, PoolAssumption DEF Init, Kinds
  <2> QED
    BY <1>1, <1>2, <2>1 DEF Init, TypeOK, Errors
<1> QED
  BY <1>2

\* The shared steps of the handlers keep the types of what they assign.
LEMMA SharedTypes ==
    ASSUME TypeOK, NEW r \in Requests, NEW d \in Dtos, NEW o \in [Dtos -> Object]
    PROVE  /\ ReleaseOnClose(r, d, o) => /\ obj' \in [Dtos -> Object]
                                         /\ onClose' \in [Requests -> SUBSET Dtos]
           /\ \A k \in Kinds : TakeFree(k, d) => pool' \in [Kinds -> SUBSET Dtos]
           /\ Abandon(r, d, o) =>
                /\ obj' \in [Dtos -> Object]
                /\ response' \in [Requests -> Responses \cup {Unsent}]
                /\ onClose' \in [Requests -> SUBSET Dtos]
<1> SetFree(o[d]) \in Object
  BY ObjectTypes
<1> Bare \in Responses
  BY DEF Bare, Responses, Codes
<1> QED
  BY DEF TypeOK, ReleaseOnClose, TakeFree, Abandon

\* An error passed to next(e) leaves a well-typed state.
LEMMA NextErrorTypes ==
    ASSUME TypeOK, NEW r \in Requests, NEW e \in Errors, NextError(r, e)
    PROVE  /\ err' \in [Requests -> Errors \cup {"none"}]
           /\ pc' \in [Requests -> {"unposted", "acquire", "running",
                                    "errAcquire", "errLookup", "done"}]
BY DEF TypeOK, NextError

\* Neither does an object that is lost.
LEMMA LossTypes ==
    ASSUME TypeOK, NEW r \in Requests, NEW k \in Kinds, NEW d \in Dtos,
           TakeAndLose(r, k, d)
    PROVE  /\ pool' \in [Kinds -> SUBSET Dtos]
           /\ obj' \in [Dtos -> Object]
           /\ lost' \in [Requests -> SUBSET Dtos]
<1>1. Marked(obj[d]) \in Object
  BY DEF TypeOK, Object, Marked
<1>2. pool' \in [Kinds -> SUBSET Dtos]
  BY SharedTypes DEF TakeAndLose, TypeOK
<1> QED
  BY <1>1, <1>2 DEF TakeAndLose, TypeOK

\* An answer built from an object is well typed.
LEMMA SendType ==
    ASSUME TypeOK, NEW r \in Requests, NEW by \in {"route", "errorHandler"},
           NEW status \in {200, 400, 500}, NEW code \in Codes,
           NEW content \in SUBSET Requests, Send(r, by, status, code, content)
    PROVE  response' \in [Requests -> Responses \cup {Unsent}]
<1> [by |-> by, status |-> status, code |-> code,
     checkpoint |-> input[r].checkpoint = "declared", content |-> content]
      \in Responses
  BY DEF Responses
<1> QED
  BY DEF TypeOK, Send

\* The error handler's answer is well typed, given or abandoned.
LEMMA ErrorAnswerTypes ==
    ASSUME TypeOK, NEW r \in Requests, NEW d \in Dtos, NEW o \in [Dtos -> Object],
           NEW status \in {200, 400, 500}, NEW code \in Codes,
           ErrorAnswer(r, d, o, status, code)
    PROVE  /\ obj' \in [Dtos -> Object]
           /\ onClose' \in [Requests -> SUBSET Dtos]
           /\ response' \in [Requests -> Responses \cup {Unsent}]
<1>1. CASE input[r].checkpoint = "throws"
  BY <1>1, SharedTypes DEF ErrorAnswer
<1>2. CASE input[r].checkpoint # "throws"
  <2>1. o[d].data \cup o[d].headers \in SUBSET Requests
    BY DEF Object
  <2>2. Send(r, "errorHandler", status, code, o[d].data \cup o[d].headers)
    BY <1>2 DEF ErrorAnswer
  <2>3. ReleaseOnClose(r, d, o)
    BY <1>2 DEF ErrorAnswer
  <2> QED
    BY <2>1, <2>2, <2>3, SharedTypes, SendType
<1> QED
  BY <1>1, <1>2

\* Where a handler waits tells which object it works on.
Waiting ==
    \A r \in Requests : /\ held[r] # NoDto <=> pc[r] = "running"
                        /\ errHeld[r] # NoDto <=> pc[r] = "errLookup"

\* Every step keeps every variable well typed.
LEMMA NextTypeOK == TypeOK /\ Waiting /\ [Next]_vars => TypeOK'
<1> SUFFICES ASSUME TypeOK, Waiting, [Next]_vars PROVE TypeOK'
  OBVIOUS
<1>1. CASE UNCHANGED vars
  BY <1>1 DEF TypeOK, vars
<1>2. ASSUME NEW r \in Requests, Post(r) PROVE TypeOK'
  BY <1>2 DEF Post, NextError, TypeOK, Errors
<1>3. ASSUME NEW r \in Requests, NEW d \in Dtos, Acquire(r, d) PROVE TypeOK'
  <2>1. input[r].kind \in Kinds
    BY DEF TypeOK, Inputs
  <2>2. pool' \in [Kinds -> SUBSET Dtos]
    BY <1>3, <2>1 DEF Acquire, TakeFree, TypeOK
  <2>3. Filled(obj[d], r) \in Object
    BY ObjectTypes DEF TypeOK
  <2> QED
    BY <1>3, <2>2, <2>3 DEF Acquire, TypeOK
<1>4. ASSUME NEW r \in Requests, NodeWrites(r) PROVE TypeOK'
  <2>1. held[r] \in Dtos
    BY <1>4 DEF NodeWrites, Waiting, TypeOK
  <2>2. Written(obj[held[r]], r, input[r].kind) \in Object
    BY <2>1 DEF TypeOK, Written, Object
  <2> QED
    BY <1>4, <2>2 DEF NodeWrites, TypeOK
<1>5. ASSUME NEW r \in Requests, NodeReturns(r) PROVE TypeOK'
  <2>1. held[r] \in Dtos /\ obj \in [Dtos -> Object]
    BY <1>5 DEF NodeReturns, Waiting, TypeOK
  <2>2. BridgeData(obj[held[r]], input[r].kind) \cup obj[held[r]].headers
          \in SUBSET Requests
    BY <2>1 DEF BridgeData, Object
  <2>3. response' \in [Requests -> Responses \cup {Unsent}]
    BY <1>5, <2>2, SendType DEF NodeReturns, Codes
  <2>4. /\ obj' \in [Dtos -> Object]
        /\ onClose' \in [Requests -> SUBSET Dtos]
    BY <1>5, <2>1, SharedTypes DEF NodeReturns
  <2> QED
    BY <1>5, <2>3, <2>4 DEF NodeReturns, TypeOK
<1>6. ASSUME NEW r \in Requests, NodeReturnsAnother(r) PROVE TypeOK'
  <2>1. held[r] \in Dtos /\ obj \in [Dtos -> Object]
    BY <1>6 DEF NodeReturnsAnother, Waiting, TypeOK
  <2>2. response' \in [Requests -> Responses \cup {Unsent}]
    BY <1>6, SendType DEF NodeReturnsAnother, Codes
  <2>3. /\ obj' \in [Dtos -> Object]
        /\ onClose' \in [Requests -> SUBSET Dtos]
    BY <1>6, <2>1, SharedTypes DEF NodeReturnsAnother
  <2> QED
    BY <1>6, <2>2, <2>3 DEF NodeReturnsAnother, TypeOK
<1>7. ASSUME NEW r \in Requests, NEW e \in Errors, NodeFails(r, e) PROVE TypeOK'
  <2>1. held[r] \in Dtos /\ obj \in [Dtos -> Object]
    BY <1>7 DEF NodeFails, Waiting, TypeOK
  <2> QED
    BY <1>7, <2>1, SharedTypes, NextErrorTypes DEF NodeFails, TypeOK
<1>8. ASSUME NEW r \in Requests, NEW d \in Dtos, ErrAcquire(r, d) PROVE TypeOK'
  <2> DEFINE o == [obj EXCEPT ![d] = Filled(@, r)]
  <2>1. o \in [Dtos -> Object]
    BY ObjectTypes DEF TypeOK
  <2>2. pool' \in [Kinds -> SUBSET Dtos]
    BY <1>8 DEF ErrAcquire, TakeFree, TypeOK, Kinds
  <2>3. CASE err[r] = "OnRepeat"
    BY <1>8, <2>1, <2>2, <2>3 DEF ErrAcquire, TypeOK
  <2>4. CASE err[r] # "OnRepeat"
    <3>1. /\ obj' \in [Dtos -> Object]
          /\ onClose' \in [Requests -> SUBSET Dtos]
          /\ response' \in [Requests -> Responses \cup {Unsent}]
      <4> DEFINE status == IF err[r] = "OnStopAndFail" THEN 200 ELSE 400
      <4>1. status \in {200, 400, 500} /\ "STOP_AND_FAILED" \in Codes
        BY DEF Codes
      <4>2. ErrorAnswer(r, d, o, status, "STOP_AND_FAILED")
        BY <1>8, <2>4 DEF ErrAcquire
      <4> HIDE DEF status, o
      <4> QED
        BY <2>1, <4>1, <4>2, ErrorAnswerTypes
    <3> QED
      BY <1>8, <2>2, <2>4, <3>1 DEF ErrAcquire, TypeOK
  <2> QED
    BY <2>3, <2>4
<1>9. ASSUME NEW r \in Requests, ErrLookup(r) PROVE TypeOK'
  <2>1. errHeld[r] \in Dtos /\ obj \in [Dtos -> Object]
    BY <1>9 DEF ErrLookup, Waiting, TypeOK
  <2>2. /\ obj' \in [Dtos -> Object]
        /\ onClose' \in [Requests -> SUBSET Dtos]
        /\ response' \in [Requests -> Responses \cup {Unsent}]
    BY <1>9, <2>1, ErrorAnswerTypes DEF ErrLookup, Codes
  <2> QED
    BY <1>9, <2>2 DEF ErrLookup, TypeOK
<1>10. ASSUME NEW r \in Requests, ErrLookupFails(r) PROVE TypeOK'
  <2>1. errHeld[r] \in Dtos /\ obj \in [Dtos -> Object]
    BY <1>10 DEF ErrLookupFails, Waiting, TypeOK
  <2> QED
    BY <1>10, <2>1, SharedTypes DEF ErrLookupFails, TypeOK
<1>11. ASSUME NEW r \in Requests, Close(r) PROVE TypeOK'
  <2>1. \A d \in Dtos : SetFree(obj[d]) \in Object
    BY <1>11, ObjectTypes DEF TypeOK
  <2> QED
    BY <1>11, <2>1 DEF Close, TypeOK
<1>12. ASSUME NEW r \in Requests, NEW d \in Dtos, AcquireNull(r, d) PROVE TypeOK'
  <2>1. input[r].kind \in Kinds
    BY DEF TypeOK, Inputs
  <2>2. /\ pool' \in [Kinds -> SUBSET Dtos]
        /\ obj' \in [Dtos -> Object]
        /\ lost' \in [Requests -> SUBSET Dtos]
    BY <1>12, <2>1, LossTypes DEF AcquireNull
  <2> QED
    BY <1>12, <2>2 DEF AcquireNull, NextError, TypeOK, Errors
<1>13. ASSUME NEW r \in Requests, NEW d \in Dtos, ErrAcquireNull(r, d) PROVE TypeOK'
  <2>1. "process" \in Kinds /\ Bare \in Responses
    BY DEF Kinds, Bare, Responses, Codes
  <2>2. /\ pool' \in [Kinds -> SUBSET Dtos]
        /\ obj' \in [Dtos -> Object]
        /\ lost' \in [Requests -> SUBSET Dtos]
    BY <1>13, <2>1, LossTypes DEF ErrAcquireNull
  <2> QED
    BY <1>13, <2>1, <2>2 DEF ErrAcquireNull, TypeOK
<1> QED
  BY <1>1, <1>2, <1>3, <1>4, <1>5, <1>6, <1>7, <1>8, <1>9, <1>10, <1>11, <1>12,
     <1>13
  DEF Next, Step, NodeSettles

-----------------------------------------------------------------------------
(* The inductive invariant *)

\* An object in use by a handler has no listener yet, and no listener waits
\* for a response that is closed.
Registered ==
    \A r \in Requests : held[r] \notin onClose[r] /\ errHeld[r] \notin onClose[r]

\* Objects in use or lost belong to a pool, so a new object is nobody's.
InPool ==
    \A r \in Requests : Held(r) \cup lost[r] \subseteq UNION {pool[k] : k \in Kinds}

\* An object in use contains texts of the request that uses it only.
OwnContents == \A r \in Requests : \A d \in Held(r) : Contents(d) = {r}

\* What was lost is not in use, and no text was written to it.
LostApart == \A r, s \in Requests : Held(r) \cap lost[s] = {}
LostEmpty == \A r \in Requests : \A d \in lost[r] : Contents(d) = {}

LeaseInv == /\ OneHolder
            /\ Accounted
            /\ LostApart
            /\ LostEmpty
            /\ FreeIsClean
            /\ OwnContents

\* What a request has lost, by where its handler waits.
LostCount == \A r \in Requests :
    IF input[r].body = "message"
    THEN lost[r] = {}
    ELSE /\ pc[r] \in {"unposted", "acquire", "errAcquire", "done"}
         /\ pc[r] \in {"unposted", "acquire"} => lost[r] = {}
         /\ pc[r] = "acquire" => input[r].known
         /\ pc[r] = "errAcquire" =>
                IF input[r].known THEN \E d \in Dtos : lost[r] = {d}
                                  ELSE lost[r] = {}
         /\ pc[r] = "done" =>
                \E d, e \in Dtos : lost[r] = {d, e} /\ (d # e <=> input[r].known)

IInv == /\ TypeOK
        /\ Waiting
        /\ Registered
        /\ NoLateListener
        /\ InPool
        /\ LeaseInv
        /\ LostCount
        /\ ResponseIsolation

\* A step changes the lease of objects in one of five ways.
OthersKeep(r) == \A s \in Requests \ {r} : Held(s)' = Held(s)

Takes(r, d) ==
    /\ obj[d].free
    /\ obj' = [obj EXCEPT ![d] = Filled(@, r)]
    /\ Held(r)' = Held(r) \cup {d}
    /\ OthersKeep(r)
    /\ UNCHANGED lost

Gives(r, S) ==
    /\ obj' = [d \in Dtos |-> IF d \in S THEN SetFree(obj[d]) ELSE obj[d]]
    /\ Held(r)' = Held(r) \ S
    /\ OthersKeep(r)
    /\ UNCHANGED lost

Loses(r, d) ==
    /\ obj[d].free
    /\ obj' = [obj EXCEPT ![d] = Marked(@)]
    /\ lost' = [lost EXCEPT ![r] = @ \cup {d}]
    /\ \A s \in Requests : Held(s)' = Held(s)

Rewrites(r, d) ==
    /\ obj' = [obj EXCEPT ![d] = Written(@, r, input[r].kind)]
    /\ \A s \in Requests : Held(s)' = Held(s)
    /\ UNCHANGED lost

Keeps ==
    /\ obj' = obj
    /\ \A s \in Requests : Held(s)' = Held(s)
    /\ UNCHANGED lost

LeaseStep ==
    \/ \E r \in Requests, d \in Dtos : Takes(r, d)
    \/ \E r \in Requests : \E S \in (SUBSET Held(r)) \ {{}} : Gives(r, S)
    \/ \E r \in Requests, d \in Dtos : Loses(r, d)
    \/ \E r \in Requests : \E d \in Held(r) : Rewrites(r, d)
    \/ Keeps

\* Objects in use are DTO objects.
LEMMA HeldType ==
    ASSUME TypeOK, NEW r \in Requests
    PROVE  Held(r) \subseteq Dtos
BY DEF TypeOK, Held

\* An object that can be taken is free and nobody's.
LEMMA TakeFreeIsFree ==
    ASSUME IInv, NEW k \in Kinds, NEW d \in Dtos, TakeFree(k, d)
    PROVE  /\ obj[d].free
           /\ obj[d] = Cleared
           /\ \A r \in Requests : d \notin Held(r) \cup lost[r]
<1>1. obj[d].free /\ \A r \in Requests : d \notin Held(r) \cup lost[r]
  <2>1. CASE d \in pool[k] /\ obj[d].free
    BY <2>1 DEF IInv, LeaseInv, Accounted
  <2>2. CASE d \notin UNION {pool[j] : j \in Kinds}
    BY <2>2 DEF IInv, InPool, LeaseInv, Accounted
  <2> QED
    BY <2>1, <2>2 DEF TakeFree, Uncreated
<1> QED
  BY <1>1 DEF IInv, LeaseInv, FreeIsClean

\* Giving an object back at the end of a route, at once or by a listener,
\* changes its lease only when the client has already gone.
LEMMA RouteEnds ==
    ASSUME IInv, NEW r \in Requests, pc[r] = "running",
           ReleaseOnClose(r, held[r], obj),
           held' = [held EXCEPT ![r] = NoDto], UNCHANGED <<errHeld, lost>>
    PROVE  \/ Keeps
           \/ /\ Gives(r, {held[r]})
              /\ {held[r]} \in (SUBSET Held(r)) \ {{}}
<1>1. /\ held[r] \in Dtos
      /\ held[r] # NoDto
      /\ errHeld[r] = NoDto
      /\ held[r] \notin onClose[r]
      /\ held[r] \in Held(r)
  BY DEF IInv, TypeOK, Waiting, Registered, Held
<1>2. CASE closed[r]
  <2>1. obj' = [d \in Dtos |-> IF d \in {held[r]} THEN SetFree(obj[d]) ELSE obj[d]]
    BY <1>1, <1>2 DEF ReleaseOnClose, IInv, TypeOK
  <2>2. Held(r)' = Held(r) \ {held[r]}
    BY <1>1, <1>2 DEF ReleaseOnClose, IInv, TypeOK, Held
  <2>3. OthersKeep(r)
    BY <1>2 DEF ReleaseOnClose, IInv, TypeOK, Held, OthersKeep
  <2>4. Gives(r, {held[r]})
    BY <2>1, <2>2, <2>3 DEF Gives
  <2>5. {held[r]} \in (SUBSET Held(r)) \ {{}}
    BY <1>1
  <2> QED
    BY <2>4, <2>5
<1>3. CASE ~closed[r]
  <2>1. Held(r)' = Held(r)
    BY <1>1, <1>3 DEF ReleaseOnClose, IInv, TypeOK, Held
  <2>2. OthersKeep(r)
    BY <1>3 DEF ReleaseOnClose, IInv, TypeOK, Held, OthersKeep
  <2> QED
    BY <1>3, <2>1, <2>2 DEF Keeps, OthersKeep, ReleaseOnClose
<1> QED
  BY <1>2, <1>3

\* The error handler's answer: the object it used is given back at once when
\* it fails or the client has gone, and waits for the close otherwise.
LEMMA AnswerCases ==
    ASSUME NEW r \in Requests, NEW d \in Dtos, NEW o, NEW status, NEW code,
           ErrorAnswer(r, d, o, status, code)
    PROVE  \/ /\ obj' = [o EXCEPT ![d] = SetFree(@)]
              /\ UNCHANGED onClose
           \/ /\ obj' = o
              /\ onClose' = [onClose EXCEPT ![r] = @ \cup {d}]
BY DEF ErrorAnswer, Abandon, ReleaseOnClose

\* The end of the error handler that waited for the settings of the node.
LEMMA ErrorHandlerEnds ==
    ASSUME IInv, NEW r \in Requests, pc[r] = "errLookup",
           \/ /\ obj' = [obj EXCEPT ![errHeld[r]] = SetFree(@)]
              /\ UNCHANGED onClose
           \/ /\ obj' = obj
              /\ onClose' = [onClose EXCEPT ![r] = @ \cup {errHeld[r]}],
           errHeld' = [errHeld EXCEPT ![r] = NoDto], UNCHANGED <<held, lost>>
    PROVE  \/ Keeps
           \/ /\ Gives(r, {errHeld[r]})
              /\ {errHeld[r]} \in (SUBSET Held(r)) \ {{}}
<1>1. /\ errHeld[r] \in Dtos
      /\ errHeld[r] # NoDto
      /\ held[r] = NoDto
      /\ errHeld[r] \notin onClose[r]
      /\ errHeld[r] \in Held(r)
  BY DEF IInv, TypeOK, Waiting, Registered, Held
<1>2. CASE obj' = [obj EXCEPT ![errHeld[r]] = SetFree(@)] /\ UNCHANGED onClose
  <2>1. obj' = [d \in Dtos |-> IF d \in {errHeld[r]} THEN SetFree(obj[d]) ELSE obj[d]]
    BY <1>1, <1>2 DEF IInv, TypeOK
  <2>2. Held(r)' = Held(r) \ {errHeld[r]}
    BY <1>1, <1>2 DEF IInv, TypeOK, Held
  <2>3. OthersKeep(r)
    BY <1>2 DEF IInv, TypeOK, Held, OthersKeep
  <2>4. Gives(r, {errHeld[r]})
    BY <2>1, <2>2, <2>3 DEF Gives
  <2>5. {errHeld[r]} \in (SUBSET Held(r)) \ {{}}
    BY <1>1
  <2> QED
    BY <2>4, <2>5
<1>3. CASE obj' = obj /\ onClose' = [onClose EXCEPT ![r] = @ \cup {errHeld[r]}]
  <2>1. Held(r)' = Held(r)
    BY <1>1, <1>3 DEF IInv, TypeOK, Held
  <2>2. OthersKeep(r)
    BY <1>3 DEF IInv, TypeOK, Held, OthersKeep
  <2> QED
    BY <1>3, <2>1, <2>2 DEF Keeps, OthersKeep
<1> QED
  BY <1>2, <1>3

\* Every step of the handlers is one of the five lease steps.
LEMMA NextIsLeaseStep == IInv /\ [Next]_vars => LeaseStep
<1> SUFFICES ASSUME IInv, [Next]_vars PROVE LeaseStep
  OBVIOUS
<1>0. TypeOK
  BY DEF IInv
<1>1. ASSUME UNCHANGED <<obj, held, errHeld, onClose, lost>> PROVE LeaseStep
  BY <1>1 DEF LeaseStep, Keeps, Held
<1>2. ASSUME NEW r \in Requests, NEW d \in Dtos, Acquire(r, d) PROVE LeaseStep
  <2>1. obj[d].free
    <3>1. input[r].kind \in Kinds
      BY <1>0 DEF TypeOK, Inputs
    <3> QED
      BY <1>2, <3>1, TakeFreeIsFree DEF Acquire
  <2>2. Held(r)' = Held(r) \cup {d}
    BY <1>0, <1>2, PoolAssumption DEF Acquire, IInv, Waiting, TypeOK, Held
  <2>3. OthersKeep(r)
    BY <1>0, <1>2 DEF Acquire, TypeOK, Held, OthersKeep
  <2>4. Takes(r, d)
    BY <1>2, <2>1, <2>2, <2>3 DEF Acquire, Takes
  <2> QED
    BY <2>4 DEF LeaseStep
<1>3. ASSUME NEW r \in Requests, NodeWrites(r) PROVE LeaseStep
  <2>1. held[r] \in Held(r)
    BY <1>3 DEF NodeWrites, IInv, Waiting, Held
  <2>2. Rewrites(r, held[r])
    BY <1>3 DEF NodeWrites, Rewrites, Held
  <2> QED
    BY <2>1, <2>2 DEF LeaseStep
<1>4. ASSUME NEW r \in Requests, NodeSettles(r) PROVE LeaseStep
  <2>1. /\ pc[r] = "running"
        /\ ReleaseOnClose(r, held[r], obj)
        /\ held' = [held EXCEPT ![r] = NoDto]
        /\ UNCHANGED <<errHeld, lost>>
    BY <1>4 DEF NodeSettles, NodeReturns, NodeReturnsAnother, NodeFails
  <2>2. \/ Keeps
        \/ /\ Gives(r, {held[r]})
           /\ {held[r]} \in (SUBSET Held(r)) \ {{}}
    BY <2>1, RouteEnds
  <2> QED
    BY <2>2 DEF LeaseStep
<1>5. ASSUME NEW r \in Requests, NEW d \in Dtos, ErrAcquire(r, d) PROVE LeaseStep
  <2> DEFINE o == [obj EXCEPT ![d] = Filled(@, r)]
  <2>1. obj[d].free /\ obj[d] = Cleared /\ TakeFree("process", d)
    BY <1>5, TakeFreeIsFree DEF ErrAcquire, Kinds
  <2>2. CASE err[r] = "OnRepeat"
    <3>1. Held(r)' = Held(r) \cup {d}
      BY <1>0, <1>5, <2>2, PoolAssumption DEF ErrAcquire, IInv, Waiting, TypeOK, Held
    <3>2. OthersKeep(r)
      BY <1>0, <1>5, <2>2 DEF ErrAcquire, TypeOK, Held, OthersKeep
    <3>3. Takes(r, d)
      BY <1>5, <2>1, <2>2, <3>1, <3>2 DEF ErrAcquire, Takes
    <3> QED
      BY <3>3 DEF LeaseStep
  <2>3. CASE err[r] # "OnRepeat"
    <3>1. \/ /\ obj' = [o EXCEPT ![d] = SetFree(@)]
             /\ UNCHANGED onClose
          \/ /\ obj' = o
             /\ onClose' = [onClose EXCEPT ![r] = @ \cup {d}]
      <4>1. ErrorAnswer(r, d, o, IF err[r] = "OnStopAndFail" THEN 200 ELSE 400,
                        "STOP_AND_FAILED")
        BY <1>5, <2>3 DEF ErrAcquire
      <4> HIDE DEF o
      <4> QED
        BY <4>1, AnswerCases
    <3>2. UNCHANGED <<held, errHeld, lost>>
      BY <1>5, <2>3 DEF ErrAcquire
    <3>3. CASE obj' = [o EXCEPT ![d] = SetFree(@)] /\ UNCHANGED onClose
      <4>1. obj' = obj
        BY <1>0, <2>1, <3>3 DEF TypeOK, SetFree, Cleared
      <4> QED
        BY <3>2, <3>3, <4>1 DEF LeaseStep, Keeps, Held
    <3>4. CASE obj' = o /\ onClose' = [onClose EXCEPT ![r] = @ \cup {d}]
      <4>1. Held(r)' = Held(r) \cup {d}
        BY <1>0, <3>2, <3>4, PoolAssumption DEF TypeOK, Held
      <4>2. OthersKeep(r)
        BY <1>0, <3>2, <3>4 DEF TypeOK, Held, OthersKeep
      <4>3. Takes(r, d)
        BY <2>1, <3>2, <3>4, <4>1, <4>2 DEF Takes
      <4> QED
        BY <4>3 DEF LeaseStep
    <3> QED
      BY <3>1, <3>3, <3>4
  <2> QED
    BY <2>2, <2>3
<1>6. ASSUME NEW r \in Requests, ErrLookup(r) \/ ErrLookupFails(r) PROVE LeaseStep
  <2>1. /\ pc[r] = "errLookup"
        /\ errHeld' = [errHeld EXCEPT ![r] = NoDto]
        /\ UNCHANGED <<held, lost>>
    BY <1>6 DEF ErrLookup, ErrLookupFails
  <2>2. errHeld[r] \in Dtos
    BY <1>0, <2>1 DEF IInv, Waiting, TypeOK
  <2>3. \/ /\ obj' = [obj EXCEPT ![errHeld[r]] = SetFree(@)]
           /\ UNCHANGED onClose
        \/ /\ obj' = obj
           /\ onClose' = [onClose EXCEPT ![r] = @ \cup {errHeld[r]}]
    BY <1>6, <2>2, AnswerCases DEF ErrLookup, ErrLookupFails, Abandon
  <2>4. \/ Keeps
        \/ /\ Gives(r, {errHeld[r]})
           /\ {errHeld[r]} \in (SUBSET Held(r)) \ {{}}
    BY <2>1, <2>3, ErrorHandlerEnds
  <2> QED
    BY <2>4 DEF LeaseStep
<1>7. ASSUME NEW r \in Requests, Close(r) PROVE LeaseStep
  <2>1. Held(r)' = Held(r) \ onClose[r]
    BY <1>0, <1>7 DEF Close, IInv, Registered, TypeOK, Held
  <2>2. OthersKeep(r)
    BY <1>0, <1>7 DEF Close, TypeOK, Held, OthersKeep
  <2>3. Gives(r, onClose[r])
    BY <1>7, <2>1, <2>2 DEF Close, Gives
  <2>4. CASE onClose[r] = {}
    <3>1. obj' = obj
      BY <1>0, <1>7, <2>4 DEF Close, TypeOK
    <3> QED
      BY <1>7, <2>1, <2>2, <2>4, <3>1 DEF Close, LeaseStep, Keeps, OthersKeep
  <2>5. CASE onClose[r] # {}
    <3>1. onClose[r] \in (SUBSET Held(r)) \ {{}}
      BY <2>5 DEF Held
    <3> QED
      BY <2>3, <3>1 DEF LeaseStep
  <2> QED
    BY <2>4, <2>5
<1>8. ASSUME NEW r \in Requests, Post(r) PROVE LeaseStep
  BY <1>1, <1>8 DEF Post
<1>9. CASE UNCHANGED vars
  BY <1>1, <1>9 DEF vars
<1>10. ASSUME NEW r \in Requests, NEW d \in Dtos, AcquireNull(r, d) PROVE LeaseStep
  <2>1. input[r].kind \in Kinds
    BY <1>0 DEF TypeOK, Inputs
  <2>2. obj[d].free
    BY <1>10, <2>1, TakeFreeIsFree DEF AcquireNull, TakeAndLose
  <2>3. Loses(r, d)
    BY <1>10, <2>2 DEF AcquireNull, TakeAndLose, Loses, Held
  <2> QED
    BY <2>3 DEF LeaseStep
<1>11. ASSUME NEW r \in Requests, NEW d \in Dtos, ErrAcquireNull(r, d) PROVE LeaseStep
  <2>1. obj[d].free
    BY <1>11, TakeFreeIsFree DEF ErrAcquireNull, TakeAndLose, Kinds
  <2>2. Loses(r, d)
    BY <1>11, <2>1 DEF ErrAcquireNull, TakeAndLose, Loses, Held
  <2> QED
    BY <2>2 DEF LeaseStep
<1> QED
  BY <1>2, <1>3, <1>4, <1>5, <1>6, <1>7, <1>8, <1>9, <1>10, <1>11 DEF Next, Step

-----------------------------------------------------------------------------
(* What a lease step preserves *)

\* A lease step keeps objects exclusive, accounted for, and clean when free.
LEMMA LeaseStepInv ==
    ASSUME TypeOK, LeaseInv, LeaseStep
    PROVE  LeaseInv'
<1>1. ASSUME NEW r \in Requests, NEW d \in Dtos, Takes(r, d) PROVE LeaseInv'
  <2>1. \A s \in Requests : d \notin Held(s) \cup lost[s]
    BY <1>1 DEF Takes, LeaseInv, Accounted
  <2>2. /\ obj'[d] = Filled(Cleared, r)
        /\ \A x \in Dtos \ {d} : obj'[x] = obj[x]
    BY <1>1 DEF Takes, TypeOK, LeaseInv, FreeIsClean
  <2>3. /\ Held(r)' = Held(r) \cup {d}
        /\ \A s \in Requests \ {r} : Held(s)' = Held(s)
        /\ lost' = lost
    BY <1>1 DEF Takes, OthersKeep
  <2>4. OneHolder'
    BY <2>1, <2>3 DEF LeaseInv, OneHolder
  <2>5. ~obj'[d].free /\ Contents(d)' = {r}
    BY <2>2 DEF Filled, Cleared, Contents
  <2>6. Accounted'
    BY <2>2, <2>3, <2>5 DEF LeaseInv, Accounted
  <2>7. FreeIsClean'
    BY <2>2, <2>5 DEF LeaseInv, FreeIsClean
  <2>8. ASSUME NEW s \in Requests, NEW x \in Held(s)' PROVE Contents(x)' = {s}
    <3>1. CASE x = d
      BY <2>1, <2>3, <2>5, <2>8, <3>1
    <3>2. CASE x # d
      <4>1. x \in Held(s) /\ x \in Dtos
        BY <2>3, <2>8, <3>2, HeldType
      <4> QED
        BY <2>2, <3>2, <4>1 DEF LeaseInv, OwnContents, Contents
    <3> QED
      BY <3>1, <3>2
  <2>9. LostApart'
    BY <2>1, <2>3 DEF LeaseInv, LostApart
  <2>10. LostEmpty'
    <3> SUFFICES ASSUME NEW s \in Requests, NEW x \in lost[s] PROVE Contents(x)' = {}
      BY <2>3 DEF LostEmpty
    <3>1. x \in Dtos /\ Contents(x) = {}
      BY DEF TypeOK, LeaseInv, LostEmpty
    <3> QED
      BY <3>1, <2>1, <2>2 DEF Contents
  <2> QED
    BY <2>4, <2>6, <2>7, <2>8, <2>9, <2>10 DEF LeaseInv, OwnContents
<1>2. ASSUME NEW r \in Requests, NEW S \in SUBSET Held(r), Gives(r, S) PROVE LeaseInv'
  <2>1. \A x \in Dtos : obj'[x] = IF x \in S THEN Cleared ELSE obj[x]
    BY <1>2 DEF Gives, SetFree, Cleared
  <2>2. /\ Held(r)' = Held(r) \ S
        /\ \A s \in Requests \ {r} : Held(s)' = Held(s)
        /\ lost' = lost
    BY <1>2 DEF Gives, OthersKeep
  <2>3. \A s \in Requests : Held(s)' = Held(s) \ S /\ lost[s] \cap S = {}
    BY <2>2 DEF LeaseInv, OneHolder, LostApart
  <2>4. OneHolder'
    BY <2>3 DEF LeaseInv, OneHolder
  <2>5. Accounted'
    <3> SUFFICES ASSUME NEW x \in Dtos
                 PROVE  ~obj'[x].free <=> \E s \in Requests : x \in Held(s)' \cup lost'[s]
      BY DEF Accounted
    <3>1. ~obj[x].free <=> \E s \in Requests : x \in Held(s) \cup lost[s]
      BY DEF LeaseInv, Accounted
    <3>2. CASE x \in S
      BY <2>1, <2>2, <2>3, <3>2 DEF Cleared
    <3>3. CASE x \notin S
      BY <2>1, <2>2, <2>3, <3>1, <3>3
    <3> QED
      BY <3>2, <3>3
  <2>6. FreeIsClean'
    BY <2>1 DEF LeaseInv, FreeIsClean
  <2>7. ASSUME NEW s \in Requests, NEW x \in Held(s)' PROVE Contents(x)' = {s}
    <3>1. x \in Held(s) /\ x \notin S /\ x \in Dtos
      BY <2>3, <2>7, HeldType
    <3> QED
      BY <2>1, <3>1 DEF LeaseInv, OwnContents, Contents
  <2>8. LostApart'
    BY <2>2, <2>3 DEF LeaseInv, LostApart
  <2>9. LostEmpty'
    <3> SUFFICES ASSUME NEW s \in Requests, NEW x \in lost[s] PROVE Contents(x)' = {}
      BY <2>2 DEF LostEmpty
    <3>1. x \in Dtos /\ Contents(x) = {}
      BY DEF TypeOK, LeaseInv, LostEmpty
    <3> QED
      BY <2>1, <2>3, <3>1 DEF Contents
  <2> QED
    BY <2>4, <2>5, <2>6, <2>7, <2>8, <2>9 DEF LeaseInv, OwnContents
<1>3. ASSUME NEW r \in Requests, NEW d \in Held(r), Rewrites(r, d) PROVE LeaseInv'
  <2>1. d \in Dtos /\ ~obj[d].free /\ Contents(d) = {r}
    BY HeldType DEF LeaseInv, Accounted, OwnContents
  <2>2. /\ obj'[d] = Written(obj[d], r, input[r].kind)
        /\ \A x \in Dtos \ {d} : obj'[x] = obj[x]
    BY <1>3, <2>1 DEF Rewrites, TypeOK
  <2>3. ~obj'[d].free
    BY <2>1, <2>2 DEF Written
  <2>4. Contents(d)' = {r}
    BY <2>1, <2>2 DEF Written, Contents
  <2>5. lost' = lost /\ \A s \in Requests : Held(s)' = Held(s)
    BY <1>3 DEF Rewrites
  <2>6. OneHolder'
    BY <2>5 DEF LeaseInv, OneHolder
  <2>7. Accounted'
    BY <2>1, <2>2, <2>3, <2>5 DEF LeaseInv, Accounted
  <2>8. FreeIsClean'
    BY <2>2, <2>3 DEF LeaseInv, FreeIsClean
  <2>9. ASSUME NEW s \in Requests, NEW x \in Held(s)' PROVE Contents(x)' = {s}
    <3>1. x \in Held(s) /\ x \in Dtos
      BY <2>5, <2>9, HeldType
    <3>2. CASE x = d
      BY <2>4, <3>1, <3>2 DEF LeaseInv, OneHolder
    <3>3. CASE x # d
      BY <2>2, <3>1, <3>3 DEF LeaseInv, OwnContents, Contents
    <3> QED
      BY <3>2, <3>3
  <2>10. LostApart'
    BY <2>5 DEF LeaseInv, LostApart
  <2>11. LostEmpty'
    <3> SUFFICES ASSUME NEW s \in Requests, NEW x \in lost[s] PROVE Contents(x)' = {}
      BY <2>5 DEF LostEmpty
    <3>1. x \in Dtos /\ Contents(x) = {}
      BY DEF TypeOK, LeaseInv, LostEmpty
    <3>2. x # d
      BY DEF LeaseInv, LostApart
    <3> QED
      BY <2>2, <3>1, <3>2 DEF Contents
  <2> QED
    BY <2>6, <2>7, <2>8, <2>9, <2>10, <2>11 DEF LeaseInv, OwnContents
<1>4. CASE Keeps
  BY <1>4 DEF Keeps, LeaseInv, OneHolder, Accounted, LostApart, LostEmpty,
              FreeIsClean, OwnContents, Contents
<1>5. ASSUME NEW r \in Requests, NEW d \in Dtos, Loses(r, d) PROVE LeaseInv'
  <2>1. obj[d] = Cleared /\ \A s \in Requests : d \notin Held(s) \cup lost[s]
    BY <1>5 DEF Loses, LeaseInv, Accounted, FreeIsClean
  <2>2. /\ ~obj'[d].free
        /\ Contents(d)' = {}
        /\ \A x \in Dtos \ {d} : obj'[x] = obj[x]
    BY <1>5, <2>1 DEF Loses, Marked, TypeOK, Cleared, Contents
  <2>3. /\ \A s \in Requests : Held(s)' = Held(s)
        /\ lost'[r] = lost[r] \cup {d}
        /\ \A s \in Requests \ {r} : lost'[s] = lost[s]
    BY <1>5 DEF Loses, TypeOK
  <2>4. OneHolder'
    BY <2>3 DEF LeaseInv, OneHolder
  <2>5. Accounted'
    BY <2>2, <2>3 DEF LeaseInv, Accounted
  <2>6. LostApart'
    BY <2>1, <2>3 DEF LeaseInv, LostApart
  <2>7. ASSUME NEW s \in Requests, NEW x \in lost'[s] PROVE Contents(x)' = {}
    <3>1. CASE x = d
      BY <2>2, <3>1
    <3>2. CASE x # d
      <4>1. x \in lost[s]
        BY <2>3, <2>7, <3>2
      <4>2. x \in Dtos /\ Contents(x) = {}
        BY <4>1 DEF TypeOK, LeaseInv, LostEmpty
      <4> QED
        BY <2>2, <3>2, <4>2 DEF Contents
    <3> QED
      BY <3>1, <3>2
  <2>8. FreeIsClean'
    BY <2>2 DEF LeaseInv, FreeIsClean
  <2>9. ASSUME NEW s \in Requests, NEW x \in Held(s)' PROVE Contents(x)' = {s}
    <3>1. x \in Held(s) /\ x # d /\ x \in Dtos
      BY <2>1, <2>3, <2>9, HeldType
    <3> QED
      BY <2>2, <3>1 DEF LeaseInv, OwnContents, Contents
  <2> QED
    BY <2>4, <2>5, <2>6, <2>7, <2>8, <2>9 DEF LeaseInv, OwnContents, LostEmpty
<1> QED
  BY <1>1, <1>2, <1>3, <1>4, <1>5 DEF LeaseStep

\* Where handlers wait and what they wait with change together.
LEMMA NextWaiting == TypeOK /\ Waiting /\ [Next]_vars => Waiting'
<1> SUFFICES ASSUME TypeOK, Waiting, [Next]_vars PROVE Waiting'
  OBVIOUS
<1>1. ASSUME NEW r \in Requests, Step(r) PROVE Waiting'
  <2>1. CASE Post(r)
    BY <2>1 DEF Post, NextError, TypeOK, Waiting
  <2>2. ASSUME NEW d \in Dtos, Acquire(r, d) PROVE Waiting'
    BY <2>2, PoolAssumption DEF Acquire, TypeOK, Waiting
  <2>3. CASE NodeWrites(r) \/ Close(r)
    BY <2>3 DEF NodeWrites, Close, Waiting
  <2>4. CASE NodeReturns(r) \/ NodeReturnsAnother(r)
    BY <2>4 DEF NodeReturns, NodeReturnsAnother, TypeOK, Waiting
  <2>5. ASSUME NEW e \in Errors, NodeFails(r, e) PROVE Waiting'
    BY <2>5 DEF NodeFails, NextError, TypeOK, Waiting
  <2>6. ASSUME NEW d \in Dtos, ErrAcquire(r, d) PROVE Waiting'
    BY <2>6, PoolAssumption DEF ErrAcquire, TypeOK, Waiting
  <2>7. CASE ErrLookup(r) \/ ErrLookupFails(r)
    BY <2>7 DEF ErrLookup, ErrLookupFails, TypeOK, Waiting
  <2>8. ASSUME NEW d \in Dtos, AcquireNull(r, d) \/ ErrAcquireNull(r, d) PROVE Waiting'
    BY <2>8 DEF AcquireNull, ErrAcquireNull, NextError, TypeOK, Waiting
  <2> QED
    BY <1>1, <2>1, <2>2, <2>3, <2>4, <2>5, <2>6, <2>7, <2>8 DEF Step, NodeSettles
<1>2. CASE UNCHANGED vars
  BY <1>2 DEF vars, Waiting
<1> QED
  BY <1>1, <1>2 DEF Next

\* Listeners are registered for objects no handler uses any more, and never
\* after the close.
LEMMA NextListeners ==
    ASSUME IInv, [Next]_vars
    PROVE  Registered' /\ NoLateListener'
<1>0. TypeOK /\ Waiting /\ Registered /\ NoLateListener
  BY DEF IInv
<1>1. ASSUME UNCHANGED <<held, errHeld, onClose, closed>>
      PROVE  Registered' /\ NoLateListener'
  BY <1>0, <1>1 DEF Registered, NoLateListener
<1>2. ASSUME NEW r \in Requests, NEW d \in Dtos, Acquire(r, d)
      PROVE  Registered' /\ NoLateListener'
  <2>1. \A s \in Requests : d \notin Held(s)
    <3>1. input[r].kind \in Kinds
      BY <1>0 DEF TypeOK, Inputs
    <3> QED
      BY <1>2, <3>1, TakeFreeIsFree DEF Acquire
  <2> QED
    BY <1>0, <1>2, <2>1 DEF Acquire, TypeOK, Registered, NoLateListener, Held
<1>3. ASSUME NEW r \in Requests, NodeSettles(r)
      PROVE  Registered' /\ NoLateListener'
  <2>1. /\ pc[r] = "running"
        /\ ReleaseOnClose(r, held[r], obj)
        /\ held' = [held EXCEPT ![r] = NoDto]
        /\ UNCHANGED <<errHeld, closed>>
    BY <1>3 DEF NodeSettles, NodeReturns, NodeReturnsAnother, NodeFails
  <2>2. held[r] # NoDto /\ errHeld[r] = NoDto /\ onClose[r] \subseteq Dtos
    BY <1>0, <2>1 DEF Waiting, TypeOK
  <2>3. Registered'
    BY <1>0, <2>1, <2>2, PoolAssumption DEF ReleaseOnClose, TypeOK, Registered
  <2>4. NoLateListener'
    BY <1>0, <2>1 DEF ReleaseOnClose, TypeOK, NoLateListener
  <2> QED
    BY <2>3, <2>4
<1>4. ASSUME NEW r \in Requests, NEW d \in Dtos, ErrAcquire(r, d)
      PROVE  Registered' /\ NoLateListener'
  <2>1. \A s \in Requests : d \notin Held(s)
    BY <1>4, TakeFreeIsFree DEF ErrAcquire, Kinds
  <2>2. held[r] = NoDto /\ errHeld[r] = NoDto /\ d # NoDto
    BY <1>0, <1>4, PoolAssumption DEF ErrAcquire, Waiting
  <2> QED
    BY <1>0, <1>4, <2>1, <2>2
    DEF ErrAcquire, ErrorAnswer, Abandon, ReleaseOnClose, TypeOK, Registered,
        NoLateListener, Held
<1>5. ASSUME NEW r \in Requests, ErrLookup(r) \/ ErrLookupFails(r)
      PROVE  Registered' /\ NoLateListener'
  <2>1. held[r] = NoDto /\ errHeld[r] # NoDto /\ onClose[r] \subseteq Dtos
    BY <1>0, <1>5 DEF ErrLookup, ErrLookupFails, Waiting, TypeOK
  <2> QED
    BY <1>0, <1>5, <2>1, PoolAssumption
    DEF ErrLookup, ErrLookupFails, ErrorAnswer, Abandon, ReleaseOnClose, TypeOK,
        Registered, NoLateListener
<1>6. ASSUME NEW r \in Requests, Close(r)
      PROVE  Registered' /\ NoLateListener'
  BY <1>0, <1>6 DEF Close, TypeOK, Registered, NoLateListener
<1>7. ASSUME NEW r \in Requests,
             \/ Post(r) \/ NodeWrites(r)
             \/ \E d \in Dtos : AcquireNull(r, d) \/ ErrAcquireNull(r, d)
      PROVE  Registered' /\ NoLateListener'
  BY <1>1, <1>7 DEF Post, NodeWrites, AcquireNull, ErrAcquireNull
<1>8. CASE UNCHANGED vars
  BY <1>1, <1>8 DEF vars
<1> QED
  BY <1>2, <1>3, <1>4, <1>5, <1>6, <1>7, <1>8 DEF Next, Step

\* An object in use never leaves its pool; one that is taken is in it.
LEMMA NextInPool ==
    ASSUME IInv, [Next]_vars
    PROVE  InPool'
<1> DEFINE InPools == UNION {pool[k] : k \in Kinds}
<1>0. TypeOK /\ InPool
  BY DEF IInv
<1>1. ASSUME NEW k \in Kinds, NEW d \in Dtos, TakeFree(k, d)
      PROVE  InPools \cup {d} \subseteq InPools'
  BY <1>0, <1>1 DEF TakeFree, TypeOK
<1>2. ASSUME \A r \in Requests : Held(r)' \subseteq Held(r), UNCHANGED <<pool, lost>>
      PROVE  InPool'
  BY <1>0, <1>2 DEF InPool
<1>3. ASSUME NEW r \in Requests, NEW k \in Kinds, NEW d \in Dtos, TakeFree(k, d),
             \A s \in Requests : /\ Held(s)' \subseteq Held(s) \cup {d}
                                 /\ lost'[s] \subseteq lost[s] \cup {d}
      PROVE  InPool'
  BY <1>0, <1>1, <1>3 DEF InPool
<1>4. ASSUME NEW r \in Requests, NEW d \in Dtos, Acquire(r, d) PROVE InPool'
  <2>1. input[r].kind \in Kinds /\ TakeFree(input[r].kind, d)
    BY <1>0, <1>4 DEF Acquire, TypeOK, Inputs
  <2>2. \A s \in Requests : Held(s)' \subseteq Held(s) \cup {d} /\ lost'[s] = lost[s]
    BY <1>0, <1>4 DEF Acquire, TypeOK, Held
  <2> QED
    BY <1>3, <2>1, <2>2
<1>5. ASSUME NEW r \in Requests, NEW d \in Dtos, ErrAcquire(r, d) PROVE InPool'
  <2>1. "process" \in Kinds /\ TakeFree("process", d)
    BY <1>5 DEF ErrAcquire, Kinds
  <2>2. \A s \in Requests : Held(s)' \subseteq Held(s) \cup {d} /\ lost'[s] = lost[s]
    BY <1>0, <1>5
    DEF ErrAcquire, ErrorAnswer, Abandon, ReleaseOnClose, TypeOK, Held
  <2> QED
    BY <1>3, <2>1, <2>2
<1>6. ASSUME NEW r \in Requests,
             \/ Post(r) \/ NodeWrites(r) \/ NodeSettles(r) \/ ErrLookup(r)
             \/ ErrLookupFails(r) \/ Close(r)
      PROVE  InPool'
  <2>1. UNCHANGED <<pool, lost>>
    BY <1>6 DEF Post, NodeWrites, NodeSettles, NodeReturns, NodeReturnsAnother,
                NodeFails, ErrLookup, ErrLookupFails, Close
  <2>2. \A s \in Requests : Held(s)' \subseteq Held(s)
    <3>1. CASE Post(r) \/ NodeWrites(r)
      BY <3>1 DEF Post, NodeWrites, Held
    <3>2. CASE NodeSettles(r)
      <4>1. /\ pc[r] = "running"
            /\ ReleaseOnClose(r, held[r], obj)
            /\ held' = [held EXCEPT ![r] = NoDto]
            /\ UNCHANGED errHeld
        BY <3>2 DEF NodeSettles, NodeReturns, NodeReturnsAnother, NodeFails
      <4>2. held[r] # NoDto
        BY <4>1 DEF IInv, Waiting
      <4> QED
        BY <1>0, <4>1, <4>2 DEF ReleaseOnClose, TypeOK, Held
    <3>3. CASE ErrLookup(r) \/ ErrLookupFails(r)
      <4>1. errHeld[r] # NoDto
        BY <3>3 DEF IInv, Waiting, ErrLookup, ErrLookupFails
      <4> QED
        BY <1>0, <3>3, <4>1
        DEF ErrLookup, ErrLookupFails, ErrorAnswer, Abandon, ReleaseOnClose, TypeOK, Held
    <3>4. CASE Close(r)
      BY <1>0, <3>4 DEF Close, TypeOK, Held
    <3> QED
      BY <1>6, <3>1, <3>2, <3>3, <3>4
  <2> QED
    BY <1>2, <2>1, <2>2
<1>7. CASE UNCHANGED vars
  <2>1. UNCHANGED <<pool, lost>> /\ \A s \in Requests : Held(s)' \subseteq Held(s)
    BY <1>7 DEF vars, Held
  <2> QED
    BY <1>2, <2>1
<1>8. ASSUME NEW r \in Requests, NEW d \in Dtos,
             AcquireNull(r, d) \/ ErrAcquireNull(r, d)
      PROVE  InPool'
  <2>1. \E k \in Kinds : TakeFree(k, d)
    BY <1>0, <1>8 DEF AcquireNull, ErrAcquireNull, TakeAndLose, TypeOK, Inputs, Kinds
  <2>2. \A s \in Requests : Held(s)' = Held(s) /\ lost'[s] \subseteq lost[s] \cup {d}
    BY <1>0, <1>8 DEF AcquireNull, ErrAcquireNull, TakeAndLose, TypeOK, Held
  <2> QED
    BY <1>3, <2>1, <2>2
<1> QED
  BY <1>4, <1>5, <1>6, <1>7, <1>8 DEF Next, Step

\* A request with a message loses nothing; one with the body null loses what its
\* route takes, and then what the error handler takes.
LEMMA NextLostCount ==
    ASSUME IInv, [Next]_vars
    PROVE  LostCount'
<1>0. TypeOK /\ LostCount
  BY DEF IInv
<1>1. ASSUME NEW r \in Requests,
             UNCHANGED <<input, lost>>,
             \A s \in Requests \ {r} : pc'[s] = pc[s],
             \/ input[r].body = "message"
             \/ pc'[r] = pc[r]
             \/ /\ pc[r] = "unposted"
                /\ pc'[r] = IF input[r].known THEN "acquire" ELSE "errAcquire"
      PROVE  LostCount'
  BY <1>0, <1>1 DEF LostCount
<1>2. ASSUME NEW r \in Requests, pc[r] \in {"running", "errLookup"}
      PROVE  input[r].body = "message"
  BY <1>0, <1>2 DEF LostCount
<1>3. ASSUME NEW r \in Requests, NEW d \in Dtos, AcquireNull(r, d) PROVE LostCount'
  BY <1>0, <1>3 DEF AcquireNull, TakeAndLose, NextError, TypeOK, LostCount
<1>4. ASSUME NEW r \in Requests, NEW d \in Dtos, ErrAcquireNull(r, d) PROVE LostCount'
  <2>1. d \notin lost[r]
    BY <1>4, TakeFreeIsFree DEF ErrAcquireNull, TakeAndLose, Kinds
  <2>2. /\ lost'[r] = lost[r] \cup {d}
        /\ \A s \in Requests \ {r} : lost'[s] = lost[s] /\ pc'[s] = pc[s]
        /\ pc'[r] = "done"
        /\ input' = input
        /\ input[r].body = "null"
    BY <1>0, <1>4 DEF ErrAcquireNull, TakeAndLose, TypeOK
  <2>3. \E x, y \in Dtos : lost'[r] = {x, y} /\ (x # y <=> input[r].known)
    <3>1. CASE input[r].known
      <4>1. PICK x \in Dtos : lost[r] = {x}
        BY <1>0, <1>4, <3>1 DEF ErrAcquireNull, LostCount
      <4>2. lost'[r] = {x, d} /\ x # d
        BY <2>1, <2>2, <4>1
      <4> QED
        BY <3>1, <4>2
    <3>2. CASE ~input[r].known
      <4>1. lost[r] = {}
        BY <1>0, <1>4, <3>2 DEF ErrAcquireNull, LostCount
      <4>2. lost'[r] = {d, d}
        BY <2>2, <4>1
      <4> QED
        BY <3>2, <4>2
    <3> QED
      BY <3>1, <3>2
  <2> QED
    BY <1>0, <2>2, <2>3 DEF LostCount
<1>5. ASSUME NEW r \in Requests, Post(r) PROVE LostCount'
  BY <1>0, <1>1, <1>5 DEF Post, NextError, TypeOK
<1>6. ASSUME NEW r \in Requests, NodeWrites(r) \/ Close(r) PROVE LostCount'
  BY <1>1, <1>6 DEF NodeWrites, Close
<1>7. ASSUME NEW r \in Requests,
             \/ NodeSettles(r) \/ ErrLookup(r) \/ ErrLookupFails(r)
             \/ \E d \in Dtos : Acquire(r, d) \/ ErrAcquire(r, d)
      PROVE  LostCount'
  <2>1. input[r].body = "message"
    BY <1>2, <1>7 DEF NodeSettles, NodeReturns, NodeReturnsAnother, NodeFails,
                      ErrLookup, ErrLookupFails, Acquire, ErrAcquire
  <2>2. UNCHANGED <<input, lost>> /\ \A s \in Requests \ {r} : pc'[s] = pc[s]
    BY <1>0, <1>7 DEF NodeSettles, NodeReturns, NodeReturnsAnother, NodeFails,
                      NextError, ErrLookup, ErrLookupFails, Acquire, ErrAcquire, TypeOK
  <2> QED
    BY <1>1, <2>1, <2>2
<1>8. CASE UNCHANGED vars
  BY <1>0, <1>8 DEF vars, LostCount
<1> QED
  BY <1>3, <1>4, <1>5, <1>6, <1>7, <1>8 DEF Next, Step

\* Every answer is made of an object the request holds, or of what its node
\* created.
LEMMA NextIsolation ==
    ASSUME IInv, [Next]_vars
    PROVE  ResponseIsolation'
<1>0. TypeOK /\ ResponseIsolation
  BY DEF IInv
<1>1. ASSUME NEW r \in Requests, NEW answer, answer.content \subseteq {r},
             response' = [response EXCEPT ![r] = answer]
      PROVE  ResponseIsolation'
  BY <1>0, <1>1 DEF TypeOK, ResponseIsolation
<1>2. ASSUME NEW r \in Requests, NEW by, NEW status, NEW code, NEW content,
             content \subseteq {r}, Send(r, by, status, code, content)
      PROVE  ResponseIsolation'
  <2> DEFINE answer == [by |-> by, status |-> status, code |-> code,
                        checkpoint |-> input[r].checkpoint = "declared",
                        content |-> content]
  <2>1. answer.content \subseteq {r}
    BY <1>2
  <2>2. response' = [response EXCEPT ![r] = answer]
    BY <1>2 DEF Send
  <2> HIDE DEF answer
  <2> QED
    BY <1>1, <2>1, <2>2
<1>3. ASSUME NEW r \in Requests, response' = [response EXCEPT ![r] = Bare]
      PROVE  ResponseIsolation'
  BY <1>1, <1>3 DEF Bare
<1>4. ASSUME UNCHANGED response PROVE ResponseIsolation'
  BY <1>0, <1>4 DEF ResponseIsolation
<1>5. ASSUME NEW r \in Requests, NEW d \in Dtos, AcquireNull(r, d) \/ ErrAcquireNull(r, d)
      PROVE  ResponseIsolation'
  BY <1>3, <1>4, <1>5 DEF AcquireNull, ErrAcquireNull
<1>6. ASSUME NEW r \in Requests, NEW d \in Dtos, NEW o, NEW status, NEW code,
             o[d].data \cup o[d].headers \subseteq {r},
             ErrorAnswer(r, d, o, status, code)
      PROVE  ResponseIsolation'
  BY <1>2, <1>3, <1>6 DEF ErrorAnswer, Abandon
<1>7. ASSUME NEW r \in Requests, NodeReturns(r) PROVE ResponseIsolation'
  <2>1. held[r] \in Held(r)
    BY <1>7 DEF NodeReturns, IInv, Waiting, Held
  <2>2. BridgeData(obj[held[r]], input[r].kind) \cup obj[held[r]].headers \subseteq {r}
    BY <2>1 DEF IInv, LeaseInv, OwnContents, Contents, BridgeData
  <2> QED
    BY <1>2, <1>7, <2>2 DEF NodeReturns
<1>8. ASSUME NEW r \in Requests, NodeReturnsAnother(r) PROVE ResponseIsolation'
  BY <1>2, <1>8 DEF NodeReturnsAnother
<1>9. ASSUME NEW r \in Requests, NEW d \in Dtos, ErrAcquire(r, d)
      PROVE  ResponseIsolation'
  <2> DEFINE o == [obj EXCEPT ![d] = Filled(@, r)]
  <2>1. o[d].data \cup o[d].headers \subseteq {r}
    BY <1>0 DEF TypeOK, Filled
  <2>2. CASE err[r] = "OnRepeat"
    BY <1>4, <1>9, <2>2 DEF ErrAcquire
  <2>3. CASE err[r] # "OnRepeat"
    <3>1. ErrorAnswer(r, d, o, IF err[r] = "OnStopAndFail" THEN 200 ELSE 400,
                      "STOP_AND_FAILED")
      BY <1>9, <2>3 DEF ErrAcquire
    <3> HIDE DEF o
    <3> QED
      BY <1>6, <2>1, <3>1
  <2> QED
    BY <2>2, <2>3
<1>10. ASSUME NEW r \in Requests, ErrLookup(r) PROVE ResponseIsolation'
  <2>1. errHeld[r] \in Held(r) /\ errHeld[r] \in Dtos
    BY <1>0, <1>10 DEF ErrLookup, IInv, Waiting, Held, TypeOK
  <2>2. obj[errHeld[r]].data \cup obj[errHeld[r]].headers \subseteq {r}
    BY <2>1 DEF IInv, LeaseInv, OwnContents, Contents
  <2> QED
    BY <1>6, <1>10, <2>1, <2>2 DEF ErrLookup
<1>11. ASSUME NEW r \in Requests, Post(r) \/ (\E e \in Errors : NodeFails(r, e))
       PROVE  ResponseIsolation'
  BY <1>4, <1>11 DEF Post, NodeFails
<1>12. ASSUME NEW r \in Requests, ErrLookupFails(r) PROVE ResponseIsolation'
  BY <1>3, <1>12 DEF ErrLookupFails, Abandon
<1>13. ASSUME NEW r \in Requests,
              NodeWrites(r) \/ Close(r) \/ (\E d \in Dtos : Acquire(r, d))
       PROVE  ResponseIsolation'
  BY <1>4, <1>13 DEF NodeWrites, Close, Acquire
<1>14. CASE UNCHANGED vars
  BY <1>4, <1>14 DEF vars
<1> QED
  BY <1>5, <1>7, <1>8, <1>9, <1>10, <1>11, <1>12, <1>13, <1>14 DEF Next, Step, NodeSettles

\* The invariant holds at the start: nothing is in use.
LEMMA InitIInv == Init => IInv
<1> SUFFICES ASSUME Init PROVE IInv
  OBVIOUS
<1>1. TypeOK
  BY InitTypeOK
<1>2. \A r \in Requests : Held(r) = {} /\ lost[r] = {}
  BY DEF Init, Held
<1>3. Waiting /\ Registered /\ NoLateListener /\ ResponseIsolation
  BY PoolAssumption DEF Init, Waiting, Registered, NoLateListener, ResponseIsolation
<1>4. InPool /\ OneHolder /\ OwnContents /\ LostApart /\ LostEmpty
  BY <1>2 DEF InPool, OneHolder, OwnContents, LostApart, LostEmpty
<1>5. Accounted /\ FreeIsClean
  BY <1>2 DEF Init, Accounted, FreeIsClean, Cleared
<1>6. LostCount
  BY <1>2 DEF Init, LostCount
<1> QED
  BY <1>1, <1>3, <1>4, <1>5, <1>6 DEF IInv, LeaseInv

\* Every step of the handlers, or none, keeps the invariant.
LEMMA NextIInv == IInv /\ [Next]_vars => IInv'
<1> SUFFICES ASSUME IInv, [Next]_vars PROVE IInv'
  OBVIOUS
<1>1. TypeOK' /\ Waiting'
  BY NextTypeOK, NextWaiting DEF IInv
<1>2. LeaseInv'
  BY NextIsLeaseStep, LeaseStepInv DEF IInv
<1> QED
  BY <1>1, <1>2, NextListeners, NextInPool, NextLostCount, NextIsolation DEF IInv

-----------------------------------------------------------------------------
(* Theorems *)

\* In every reachable state the invariant holds.
THEOREM Invariance == Spec => []IInv
BY InitIInv, NextIInv, PTL DEF Spec

\* The variables of the model always have their types.
THEOREM TypeCorrect == Spec => []TypeOK
<1>1. IInv => TypeOK
  BY DEF IInv
<1> QED
  BY <1>1, Invariance, PTL

\* The object pools of lib/Utils/Router.ts never give one object to two requests,
THEOREM NothingShared == Spec => []OneHolder
<1>1. IInv => OneHolder
  BY DEF IInv, LeaseInv
<1> QED
  BY <1>1, Invariance, PTL

\* never release one under its user, forget none for a message, and forget
\* exactly the one or two that were taken for a body that parses to null,
THEOREM OnlyNullForgotten == Spec => []OnlyNullLeaks
<1>1. IInv => OnlyNullLeaks
  <2> SUFFICES ASSUME IInv PROVE OnlyNullLeaks
    OBVIOUS
  <2>1. \A r \in Requests : input[r].body \in {"message", "null"}
    BY DEF IInv, TypeOK, Inputs, Bodies
  <2> QED
    BY <2>1 DEF IInv, LeaseInv, LostCount, OnlyNullLeaks
<1> QED
  BY <1>1, Invariance, PTL

\* and never hand one out with texts of an earlier request.
THEOREM FreedClean == Spec => []FreeIsClean
<1>1. IInv => FreeIsClean
  BY DEF IInv, LeaseInv
<1> QED
  BY <1>1, Invariance, PTL

\* No answer contains texts of another request.
THEOREM Isolation == Spec => []ResponseIsolation
<1>1. IInv => ResponseIsolation
  BY DEF IInv
<1> QED
  BY <1>1, Invariance, PTL

\* No release waits for a close that has happened.
THEOREM ListenersRun == Spec => []NoLateListener
<1>1. IInv => NoLateListener
  BY DEF IInv
<1> QED
  BY <1>1, Invariance, PTL

-----------------------------------------------------------------------------
(* An answer is the last step of a handler *)

\* A handler that is still at work has not answered.
Silent == \A r \in Requests : pc[r] # "done" => response[r] = Unsent

\* A step sends nothing and ends no handler, or it ends one that was at work and
\* leaves the answers of the others alone.
AnswerStep ==
    \/ /\ UNCHANGED response
       /\ \A r \in Requests : pc[r] # "done" <=> pc'[r] # "done"
    \/ \E r \in Requests :
          /\ pc[r] # "done"
          /\ pc'[r] = "done"
          /\ \A s \in Requests \ {r} : response'[s] = response[s] /\ pc'[s] = pc[s]

\* next(e) waits for an object.
LEMMA NextErrorAnswers ==
    ASSUME TypeOK, NEW r \in Requests, NEW e, pc[r] # "done", NextError(r, e),
           UNCHANGED response
    PROVE  AnswerStep
BY DEF NextError, AnswerStep, TypeOK

\* The error handler answers only its own request, or leaves it to Express.
LEMMA ErrorAnswers ==
    ASSUME TypeOK, NEW r \in Requests, NEW d, NEW o,
           \/ Abandon(r, d, o)
           \/ \E status, code : ErrorAnswer(r, d, o, status, code)
    PROVE  \A s \in Requests \ {r} : response'[s] = response[s]
BY DEF TypeOK, Abandon, ErrorAnswer, Send

LEMMA NextAnswers == TypeOK /\ [Next]_vars => AnswerStep
<1> SUFFICES ASSUME TypeOK, [Next]_vars PROVE AnswerStep
  OBVIOUS
<1>1. CASE UNCHANGED vars
  BY <1>1 DEF vars, AnswerStep
<1>2. ASSUME NEW r \in Requests, Post(r) PROVE AnswerStep
  <2>1. CASE input[r].known
    BY <1>2, <2>1 DEF Post, AnswerStep, TypeOK
  <2>2. CASE ~input[r].known
    BY <1>2, <2>2, NextErrorAnswers DEF Post
  <2> QED
    BY <2>1, <2>2
<1>3. ASSUME NEW r \in Requests, NEW d \in Dtos, Acquire(r, d) PROVE AnswerStep
  BY <1>3 DEF Acquire, AnswerStep, TypeOK
<1>4. ASSUME NEW r \in Requests, NodeWrites(r) PROVE AnswerStep
  BY <1>4 DEF NodeWrites, AnswerStep
<1>5. ASSUME NEW r \in Requests, NodeReturns(r) \/ NodeReturnsAnother(r) PROVE AnswerStep
  BY <1>5 DEF NodeReturns, NodeReturnsAnother, Send, AnswerStep, TypeOK
<1>6. ASSUME NEW r \in Requests, NEW e \in Errors, NodeFails(r, e) PROVE AnswerStep
  BY <1>6, NextErrorAnswers DEF NodeFails
<1>7. ASSUME NEW r \in Requests, NEW d \in Dtos, ErrAcquire(r, d) PROVE AnswerStep
  <2>1. CASE err[r] = "OnRepeat"
    BY <1>7, <2>1 DEF ErrAcquire, AnswerStep, TypeOK
  <2>2. CASE err[r] # "OnRepeat"
    <3>1. \A s \in Requests \ {r} : response'[s] = response[s]
      BY <1>7, <2>2, ErrorAnswers DEF ErrAcquire
    <3> QED
      BY <1>7, <2>2, <3>1 DEF ErrAcquire, AnswerStep, TypeOK
  <2> QED
    BY <2>1, <2>2
<1>8. ASSUME NEW r \in Requests, ErrLookup(r) \/ ErrLookupFails(r) PROVE AnswerStep
  <2>1. \A s \in Requests \ {r} : response'[s] = response[s]
    BY <1>8, ErrorAnswers DEF ErrLookup, ErrLookupFails
  <2> QED
    BY <1>8, <2>1 DEF ErrLookup, ErrLookupFails, AnswerStep, TypeOK
<1>9. ASSUME NEW r \in Requests, Close(r) PROVE AnswerStep
  BY <1>9 DEF Close, AnswerStep
<1>10. ASSUME NEW r \in Requests, NEW d \in Dtos, AcquireNull(r, d) PROVE AnswerStep
  BY <1>10, NextErrorAnswers DEF AcquireNull
<1>11. ASSUME NEW r \in Requests, NEW d \in Dtos, ErrAcquireNull(r, d) PROVE AnswerStep
  BY <1>11 DEF ErrAcquireNull, AnswerStep, TypeOK
<1> QED
  BY <1>1, <1>2, <1>3, <1>4, <1>5, <1>6, <1>7, <1>8, <1>9, <1>10, <1>11 DEF Next, Step, NodeSettles

\* No handler at work has answered: neither the route before it fails, nor the
\* error handler before its last step.
THEOREM SilentAtWork == Spec => []Silent
<1>1. Init => Silent
  BY DEF Init, Silent
<1>2. TypeOK /\ Silent /\ [Next]_vars => Silent'
  BY NextAnswers DEF Silent, AnswerStep
<1> QED
  BY <1>1, <1>2, TypeCorrect, PTL DEF Spec

\* What was sent is never sent again or replaced, although the route and the
\* error handler may both come to answer a request.
THEOREM OneAnswer == Spec => AnsweredOnce
<1> DEFINE Kept == \A r \in Requests : response[r] # Unsent => response'[r] = response[r]
<1>1. TypeOK /\ Silent /\ [Next]_vars => [Kept]_vars
  BY NextAnswers DEF Silent, AnswerStep
<1> QED
  BY <1>1, TypeCorrect, SilentAtWork, PTL DEF Spec, AnsweredOnce

-----------------------------------------------------------------------------
(* Refinement *)

\* The owner of an object is the request that holds it, and nobody's when none
\* does.
OwnerIsHolder == \A d \in Dtos :
    /\ \A r \in Requests : d \in Held(r) <=> Owner(d) = r
    /\ Owner(d) = NoRequest <=> \A r \in Requests : d \notin Held(r)

\* Exclusive objects have one owner.
LEMMA OneOwner == OneHolder => OwnerIsHolder
<1> SUFFICES ASSUME OneHolder, NEW d \in Dtos
             PROVE  /\ \A r \in Requests : d \in Held(r) <=> Owner(d) = r
                    /\ Owner(d) = NoRequest <=> \A r \in Requests : d \notin Held(r)
  BY DEF OwnerIsHolder
<1>1. CASE \E r \in Requests : d \in Held(r)
  <2>1. Owner(d) \in Requests /\ d \in Held(Owner(d))
    BY <1>1 DEF Owner
  <2> QED
    BY <1>1, <2>1, LeaseAssumption DEF OneHolder
<1>2. CASE \A r \in Requests : d \notin Held(r)
  BY <1>2, LeaseAssumption DEF Owner
<1> QED
  BY <1>1, <1>2

\* What is free or lost is empty and what is held contains its holder's texts.
LEMMA LeaseContents ==
    ASSUME LeaseInv, NEW d \in Dtos
    PROVE  /\ Owner(d) = NoRequest => Contents(d) = {}
           /\ \A r \in Requests : Owner(d) = r => Contents(d) = {r}
<1>1. OwnerIsHolder
  BY OneOwner DEF LeaseInv
<1>2. ASSUME Owner(d) = NoRequest PROVE Contents(d) = {}
  <2>1. CASE obj[d].free
    BY <2>1 DEF LeaseInv, FreeIsClean, Contents, Cleared
  <2>2. CASE ~obj[d].free
    <3>1. \E r \in Requests : d \in lost[r]
      BY <1>1, <1>2, <2>2 DEF OwnerIsHolder, LeaseInv, Accounted
    <3> QED
      BY <3>1 DEF LeaseInv, LostEmpty
  <2> QED
    BY <2>1, <2>2
<1> QED
  BY <1>1, <1>2 DEF OwnerIsHolder, LeaseInv, OwnContents

\* A lease step is a step of the abstract specification, or invisible to it.
LEMMA LeaseStepRefines ==
    ASSUME TypeOK, LeaseInv, LeaseStep, LeaseInv', OwnerIsHolder, OwnerIsHolder'
    PROVE  [Lease!Next]_<<[d \in Dtos |-> Owner(d)], [d \in Dtos |-> Contents(d)]>>
<1> DEFINE owners == [d \in Dtos |-> Owner(d)]
           texts == [d \in Dtos |-> Contents(d)]
<1>1. ASSUME NEW r \in Requests, NEW d \in Dtos, Takes(r, d) PROVE Lease!Grant(r, d)
  <2>1. \A s \in Requests : d \notin Held(s)
    BY <1>1 DEF Takes, LeaseInv, Accounted
  <2>2. Owner(d) = NoRequest
    BY <2>1 DEF OwnerIsHolder
  <2>3. \A x \in Dtos : x # d => Owner(x)' = Owner(x)
    BY <1>1 DEF Takes, OthersKeep, Owner
  <2>4. Owner(d)' = r
    BY <1>1 DEF Takes, OwnerIsHolder
  <2>5. Contents(d)' = {r}
    BY <1>1 DEF Takes, LeaseInv, OwnContents
  <2>6. \A x \in Dtos : x # d => Contents(x)' = Contents(x)
    BY <1>1 DEF Takes, TypeOK, Contents
  <2>7. owners' = [owners EXCEPT ![d] = r] /\ texts' = [texts EXCEPT ![d] = {r}]
    BY <2>3, <2>4, <2>5, <2>6
  <2> QED
    BY <2>2, <2>7 DEF Lease!Grant
<1>2. ASSUME NEW r \in Requests, NEW S \in (SUBSET Held(r)) \ {{}}, Gives(r, S)
      PROVE  Lease!Return(r, S) /\ S \in (SUBSET Dtos) \ {{}}
  <2>1. S \in (SUBSET Dtos) \ {{}}
    BY HeldType
  <2>2. \A x \in S : Owner(x) = r
    BY <2>1 DEF OwnerIsHolder
  <2>3. \A s \in Requests : Held(s)' = Held(s) \ S
    BY <1>2 DEF Gives, OthersKeep, LeaseInv, OneHolder
  <2>4. \A x \in S : Owner(x)' = NoRequest
    BY <2>1, <2>3 DEF OwnerIsHolder
  <2>5. \A x \in Dtos \ S : Owner(x)' = Owner(x)
    BY <2>3 DEF Owner
  <2>6. \A x \in S : Contents(x)' = {}
    BY <1>2, <2>1 DEF Gives, SetFree, Contents
  <2>7. \A x \in Dtos \ S : Contents(x)' = Contents(x)
    BY <1>2 DEF Gives, Contents
  <2>8. /\ owners' = [x \in Dtos |-> IF x \in S THEN NoRequest ELSE owners[x]]
        /\ texts' = [x \in Dtos |-> IF x \in S THEN {} ELSE texts[x]]
    BY <2>4, <2>5, <2>6, <2>7
  <2> QED
    BY <2>1, <2>2, <2>8 DEF Lease!Return
<1>3. ASSUME \A s \in Requests : Held(s)' = Held(s) PROVE owners' = owners
  BY <1>3 DEF Owner
<1>4. ASSUME NEW r \in Requests, NEW d \in Held(r), Rewrites(r, d)
      PROVE  UNCHANGED <<owners, texts>>
  <2>1. d \in Dtos /\ Contents(d) = {r} /\ Contents(d)' = {r}
    BY <1>4, HeldType DEF Rewrites, LeaseInv, OwnContents
  <2>2. \A x \in Dtos : x # d => Contents(x)' = Contents(x)
    BY <1>4 DEF Rewrites, TypeOK, Contents
  <2>3. texts' = texts
    BY <2>1, <2>2
  <2>4. owners' = owners
    BY <1>3, <1>4 DEF Rewrites
  <2> QED
    BY <2>3, <2>4
<1>5. CASE Keeps
  <2>1. texts' = texts
    BY <1>5 DEF Keeps, Contents
  <2>2. owners' = owners
    BY <1>3, <1>5 DEF Keeps
  <2> HIDE DEF owners, texts
  <2>3. UNCHANGED <<owners, texts>>
    BY <2>1, <2>2
  <2> QED
    BY <2>3 DEF owners, texts
<1>6. CASE \E r \in Requests, d \in Dtos : Takes(r, d)
  BY <1>1, <1>6 DEF Lease!Next
<1>8. ASSUME NEW r \in Requests, NEW d \in Dtos, Loses(r, d)
      PROVE  UNCHANGED <<owners, texts>>
  <2>1. \A x \in Dtos : Contents(x)' = Contents(x)
    BY <1>8 DEF Loses, Marked, TypeOK, Contents
  <2>2. texts' = texts
    BY <2>1
  <2>3. owners' = owners
    BY <1>3, <1>8 DEF Loses
  <2> QED
    BY <2>2, <2>3
<1>7. CASE \E r \in Requests : \E S \in (SUBSET Held(r)) \ {{}} : Gives(r, S)
  BY <1>2, <1>7 DEF Lease!Next
<1> QED
  BY <1>4, <1>5, <1>6, <1>7, <1>8 DEF LeaseStep

\* The routes and the error handler implement the abstract lease.
THEOREM Refinement == Spec => LeaseSpec
<1>1. Init => Lease!Init
  <2> SUFFICES ASSUME Init PROVE Lease!Init
    OBVIOUS
  <2>1. \A d \in Dtos : Owner(d) = NoRequest
    BY DEF Init, Owner, Held
  <2>2. \A d \in Dtos : Contents(d) = {}
    BY DEF Init, Contents, Cleared
  <2> QED
    BY <2>1, <2>2 DEF Lease!Init
<1>2. IInv => LeaseInv /\ TypeOK /\ OwnerIsHolder
  BY OneOwner DEF IInv, LeaseInv
<1>3. ASSUME LeaseInv, TypeOK, OwnerIsHolder, OwnerIsHolder', IInv, [Next]_vars
      PROVE  [Lease!Next]_<<[d \in Dtos |-> Owner(d)], [d \in Dtos |-> Contents(d)]>>
  <2>1. LeaseStep
    BY <1>3, NextIsLeaseStep
  <2>2. LeaseInv'
    BY <1>3, <2>1, LeaseStepInv
  <2> QED
    BY <1>3, <2>1, <2>2, LeaseStepRefines
<1> QED
  BY <1>1, <1>2, <1>3, Invariance, PTL DEF Spec, LeaseSpec, Lease!Spec
=============================================================================
