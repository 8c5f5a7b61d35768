----------------------------- MODULE DtoHeaders -----------------------------
(***************************************************************************)
(* The headers of one message while a node works on it, and those of its    *)
(* answer.  The bridge routes by the answer's result code and reads the     *)
(* headers that code needs: a repeat its interval and its limit of hops, a  *)
(* forced route its queues, an iteration its cursor.  A node sets and takes *)
(* back these things by calls in any order; a call may refuse its arguments *)
(* and the node may go on.                                                  *)
(*                                                                         *)
(* A batch node also adds items.  The bridge makes a message of each one,   *)
(* from the headers of the answer and those of the item.                    *)
(*                                                                         *)
(* Headers are records with one field per header of interest.  A limit is   *)
(* an entry of a key and a rate; a limiter header is the set of its         *)
(* entries.  Of an audit header only the entities are kept, and where their *)
(* fields come from.  Messages, users and bodies are left out.              *)
(***************************************************************************)
EXTENDS Naturals

CONSTANTS
    Followers,  \* names of followers
    Cursors,    \* texts of cursors
    Absent,     \* no cursor
    Entities,   \* audited entities
    Names,      \* names of limits
    Rates,      \* time and amount of a limit
    SentLimiters,  \* limiter headers of requests
    NodeLimits,    \* limits a node sets on its message
    ItemLimits,    \* limits a node gives an item
    MaxCount,   \* bound on the seconds and hops of a repeat
    MaxCalls    \* bound on the calls of one node

\* A key is a name with or without the '|' that separates it from its user.
Keys == Names \X BOOLEAN
decorateLimitKey(k) == <<k[1], TRUE>>
Entry(k, r) == [key |-> k, rate |-> r]
Entries == [key : Keys, rate : Rates]

\* A limit as it is given: one entry, and the entry of its group, if it has one.
Limits == { l \in [first : Entries, group : {{}} \cup {{x} : x \in Entries}] :
                \A x \in l.group : x.key # l.first.key }

ASSUME HeadersAssumption ==
    /\ Absent \notin Cursors
    /\ SentLimiters \subseteq SUBSET Entries
    /\ NodeLimits \subseteq Limits
    /\ ItemLimits \subseteq Limits
    /\ MaxCount \in Nat \ {0}
    /\ MaxCalls \in Nat

VARIABLES
    pc,         \* "running" or "answered"
    by,         \* who answered
    incoming,   \* the headers the request brought
    dto,        \* the headers of the DTO; of the answer, once there is one
    items,      \* the messages of a batch
    calls       \* how many calls the node has made

vars == <<pc, by, incoming, dto, items, calls>>

(***************************************************************************)
(* Data                                                                    *)
(***************************************************************************)
Codes == {"SUCCESS", "REPEAT", "FORWARD_TO_TARGET_QUEUE", "DO_NOT_CONTINUE",
          "LIMIT_EXCEEDED", "STOP_AND_FAILED", "BATCH_CURSOR_WITH_FOLLOWERS",
          "BATCH_CURSOR_ONLY", "UNKNOWN_ERROR", "INVALID_HEADERS", "INVALID_CONTENT"}
CursorCodes == {"BATCH_CURSOR_WITH_FOLLOWERS", "BATCH_CURSOR_ONLY"}

\* Where a field of an audit header comes from: 0 is the message itself, n the
\* item added by the n-th call.
Origins == 0 .. MaxCalls
Audits == [Entities -> SUBSET Origins]

Counts == 0 .. MaxCount
Headers == [code : Codes \cup {"none"}, interval : Counts, maxHops : Counts,
            hops : BOOLEAN, workerFollowers : SUBSET Followers,
            target : SUBSET Followers, cursor : Cursors \cup {Absent},
            limiter : SUBSET Entries, audit : Audits]

\* An item: its own limit and audited entities as they were given, its limiter
\* and audit headers.
Items == [no : 1 .. MaxCalls, own : SUBSET Entities, audit : Audits,
          limit : SUBSET Entries, limiter : SUBSET Entries]

\* What the bridge sends: no result of an earlier answer, but the traces of
\* earlier repeats and iterations, and what earlier nodes left.
Incoming ==
    { h \in Headers :
        /\ h.code = "none"
        /\ (h.interval = 0 <=> ~h.hops) /\ h.maxHops = h.interval
        /\ \A e \in Entities : h.audit[e] \subseteq {0}
        /\ h.limiter \in SentLimiters }

Init ==
    /\ pc = "running"
    /\ by = "nobody"
    /\ incoming \in Incoming
    /\ dto = incoming
    /\ items = {}
    /\ calls = 0

(***************************************************************************)
(* Calls of the node                                                       *)
(***************************************************************************)
Call ==
    /\ pc = "running"
    /\ calls < MaxCalls
    /\ calls' = calls + 1
    /\ UNCHANGED <<pc, by, incoming>>

Set(h) == Call /\ dto' = h /\ UNCHANGED items

\* removeRelatedHeaders
Unrelated(code, codes) == IF code \in codes THEN "none" ELSE code

setSuccessProcess == Set([dto EXCEPT !.code = "SUCCESS"])

\* validateStatus refuses all codes but two.
setStopProcess(status) ==
    Set(IF status \in {"STOP_AND_FAILED", "DO_NOT_CONTINUE"}
        THEN [dto EXCEPT !.code = status] ELSE dto)

setLimitExceeded == Set([dto EXCEPT !.code = "LIMIT_EXCEEDED"])

\* Mutant: the status is set before the arguments are looked at.
RepeaterStatusFirst(h, interval, maxHops) ==
    IF interval < 1 \/ maxHops < 1 THEN [h EXCEPT !.code = "REPEAT"]
    ELSE [h EXCEPT !.code = "REPEAT", !.interval = interval, !.maxHops = maxHops]

\* setRepeater on the headers h; what it refuses changes nothing.
Repeater(h, interval, maxHops) ==
    IF interval < 1 \/ maxHops < 1 THEN h
    ELSE [h EXCEPT !.code = "REPEAT", !.interval = interval, !.maxHops = maxHops]

setRepeater(interval, maxHops) == Set(Repeater(dto, interval, maxHops))

removeRepeater ==
    Set([dto EXCEPT !.interval = 0, !.maxHops = 0, !.hops = FALSE,
                    !.code = Unrelated(@, {"REPEAT"})])

\* setLimiter, and setLimiterWithGroup when the group is not empty
setLimiter(k, r, group) ==
    Set([dto EXCEPT !.limiter =
            {Entry(decorateLimitKey(k), r)}
                \cup {Entry(decorateLimitKey(x.key), x.rate) : x \in group}])

removeLimiter == Set([dto EXCEPT !.limiter = {}])

\* Followers the message has no queue for are passed over; when none is left,
\* the call is refused.
setForceFollowers(names) ==
    LET reached == names \cap dto.workerFollowers IN
    Set(IF reached = {} THEN dto
        ELSE [dto EXCEPT !.target = reached, !.code = "FORWARD_TO_TARGET_QUEUE"])

removeForceFollowers ==
    Set([dto EXCEPT !.target = {}, !.code = Unrelated(@, {"FORWARD_TO_TARGET_QUEUE"})])

setBatchCursor(cursor, iterateOnly) ==
    Set([dto EXCEPT !.cursor = cursor,
                    !.code = IF iterateOnly THEN "BATCH_CURSOR_ONLY"
                                            ELSE "BATCH_CURSOR_WITH_FOLLOWERS"])

\* Mutant: only the code of the plain cursor is taken back.
RemoveCursorOnly ==
    Set([dto EXCEPT !.cursor = Absent,
                    !.code = Unrelated(@, {"BATCH_CURSOR_WITH_FOLLOWERS"})])

removeBatchCursor ==
    Set([dto EXCEPT !.cursor = Absent, !.code = Unrelated(@, CursorCodes)])

\* The fields join those the entity has.
addAuditHeader(entity) ==
    Set([dto EXCEPT !.audit = [dto.audit EXCEPT ![entity] = @ \cup {0}]])

(***************************************************************************)
(* Items of a batch                                                        *)
(***************************************************************************)
\* parseLimitKey: of the entries of one key the last one counts; which one that
\* is, the set does not tell.
parseLimitKey(limiter) ==
    { p \in SUBSET limiter :
        \A x \in limiter : \E one \in p : \A y \in p : y.key = x.key <=> y = one }

\* Mutant: the limits of the message win.
LimiterOfMessage(parsed, limit) ==
    parsed \cup {x \in limit.group \cup {limit.first} : \A y \in parsed : y.key # x.key}

\* The limiter header of an item with a limit: its text takes the place of the
\* entry with its first key, and the other entries stay.
Limiter(parsed, limit) ==
    {x \in parsed : x.key # limit.first.key} \cup limit.group \cup {limit.first}

Given == {{}} \cup {{l} : l \in ItemLimits}

\* addItem; the audit header is the one of addItemWithAudit, or empty
PushItem(own, audit) ==
    /\ Call
    /\ \E parsed \in parseLimitKey(dto.limiter), given \in Given :
          items' = items \cup
            {[no |-> calls + 1, own |-> own, audit |-> audit,
              limit |-> {l.first : l \in given},
              limiter |-> UNION {Limiter(parsed, l) : l \in given}]}

NoAudit == [e \in Entities |-> {}]

\* addItem, addMessage, and setItemList with one item
addItem == PushItem({}, NoAudit) /\ UNCHANGED dto

\* Mutant: the entities are merged into the header of the batch.
MergeIntoBatch(own) ==
    LET merged == [e \in Entities |-> IF e \in own THEN {calls + 1} ELSE dto.audit[e]]
    IN  PushItem(own, merged) /\ dto' = [dto EXCEPT !.audit = merged]

\* The entities of the item replace those of the message in a copy.
addItemWithAudit(own) ==
    LET merged == [e \in Entities |-> IF e \in own THEN {calls + 1} ELSE dto.audit[e]]
    IN  PushItem(own, merged) /\ UNCHANGED dto

\* setMessages with an empty list
setMessages == Call /\ items' = {} /\ UNCHANGED dto

(***************************************************************************)
(* The answer                                                              *)
(***************************************************************************)
Answer(who, headers, messages) ==
    /\ pc = "running"
    /\ pc' = "answered"
    /\ by' = who
    /\ dto' = headers
    /\ items' = messages
    /\ UNCHANGED <<incoming, calls>>

\* What createSuccessResponse and createErrorResponse fill in: a code only when
\* the headers have none.
WithCode(h, code) == IF h.code = "none" THEN [h EXCEPT !.code = code] ELSE h

\* The node returns its DTO.
NodeReturns == Answer("route", WithCode(dto, "SUCCESS"), items)

\* It ends with an OnRepeatException.  The error handler fills a DTO of its own
\* from the request and repeats it, by the settings of the node if these are
\* enabled.  What setRepeater refuses, and settings without an interval, make
\* Express answer without headers.
NodeRepeats(interval, maxHops) ==
    IF interval < 1 \/ maxHops < 1
    THEN Answer("express", incoming, {})
    ELSE Answer("errorHandler", Repeater(incoming, interval, maxHops), {})

\* It ends with an OnStopAndFailException.
NodeStops == Answer("errorHandler", [incoming EXCEPT !.code = "STOP_AND_FAILED"], {})

\* It ends with another error.
NodeFails == Answer("errorHandler", WithCode(incoming, "STOP_AND_FAILED"), {})

StatusCall ==
    \/ setSuccessProcess
    \/ \E status \in Codes : setStopProcess(status)
    \/ setLimitExceeded
    \/ \E i, n \in Counts : setRepeater(i, n)
    \/ removeRepeater
    \/ \E names \in SUBSET Followers : setForceFollowers(names)
    \/ removeForceFollowers
    \/ \E c \in Cursors, only \in BOOLEAN : setBatchCursor(c, only)
    \/ removeBatchCursor

BatchCall ==
    \/ \E l \in NodeLimits : setLimiter(l.first.key, l.first.rate, l.group)
    \/ removeLimiter
    \/ \E e \in Entities : addAuditHeader(e)
    \/ addItem
    \/ \E own \in SUBSET Entities \ {{}} : addItemWithAudit(own)
    \/ setMessages

End ==
    \/ NodeReturns
    \/ \E i, n \in Counts : NodeRepeats(i, n)
    \/ NodeStops
    \/ NodeFails

Next == StatusCall \/ BatchCall \/ End

Spec == Init /\ [][Next]_vars

(***************************************************************************)
(* Properties                                                              *)
(***************************************************************************)
TypeOK ==
    /\ pc \in {"running", "answered"}
    /\ by \in {"nobody", "route", "errorHandler", "express"}
    /\ incoming \in Incoming
    /\ dto \in Headers
    /\ items \in SUBSET Items
    /\ calls \in 0 .. MaxCalls

\* The headers the bridge needs to act on a result code are there, and a forced
\* route leads to followers of this node.
Actionable(h) ==
    /\ h.code = "REPEAT" => h.interval >= 1 /\ h.maxHops >= 1
    /\ h.code = "FORWARD_TO_TARGET_QUEUE" =>
          h.target # {} /\ h.target \subseteq h.workerFollowers
    /\ h.code \in CursorCodes => h.cursor # Absent

\* Whatever a node called in whatever order, whatever was refused or taken back,
\* and however it ended, its answer has a code the bridge can act on.
AnswerIsActionable ==
    by \in {"route", "errorHandler"} => dto.code # "none" /\ Actionable(dto)

\* What the bridge makes of an item: its headers go before those of the answer.
ChildAudit(i) == IF i.own = {} THEN dto.audit ELSE i.audit
ChildLimiter(i) == IF i.limit = {} THEN dto.limiter ELSE i.limiter

\* README, "Per-item audit in batch nodes": the message of an item names the
\* entities of that item and of the message the batch came from, and never
\* those of another item.
AuditIsOwn(i) ==
    i.own # {} =>
        \A e \in Entities :
            IF e \in i.own THEN ChildAudit(i)[e] = {i.no}
            ELSE /\ incoming.audit[e] \subseteq ChildAudit(i)[e]
                 /\ ChildAudit(i)[e] \subseteq {0}

\* An item given a limit is held by its entry and by no other of the same key.
\* This is about the first entry of the limit, the only one addItem looks at: the
\* key of its group may stand twice, if the header of the batch names it too.
LimitIsOwn(i) ==
    \A l \in i.limit : {x \in ChildLimiter(i) : x.key = l.key} = {l}

\* The message made of an item is told from the other items of its batch.
ItemsStandAlone == \A i \in items : AuditIsOwn(i) /\ LimitIsOwn(i)
=============================================================================
