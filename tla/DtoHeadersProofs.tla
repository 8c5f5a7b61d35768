-------------------------- MODULE DtoHeadersProofs --------------------------
(***************************************************************************)
(* Proofs about DtoHeaders, for any number of calls, items and limits.      *)
(***************************************************************************)
EXTENDS DtoHeaders, TLAPS

USE HeadersAssumption

\* What every call keeps of the headers: their type, what their code needs, and
\* of the audit only fields of the message itself, none of which is lost.
Sound(h) ==
    /\ h \in Headers
    /\ Actionable(h)
    /\ \A e \in Entities : incoming.audit[e] \subseteq h.audit[e] /\ h.audit[e] \subseteq {0}

\* What holds of an item from the moment it is added.
ItemSound(i) ==
    /\ i \in Items
    /\ i.own # {} => \A e \in Entities :
          IF e \in i.own THEN i.audit[e] = {i.no}
          ELSE incoming.audit[e] \subseteq i.audit[e] /\ i.audit[e] \subseteq {0}
    /\ \A l \in i.limit : {x \in i.limiter : x.key = l.key} = {l}

\* The inductive invariant
IInv ==
    /\ pc \in {"running", "answered"}
    /\ by \in {"nobody", "route", "errorHandler", "express"}
    /\ incoming \in Incoming
    /\ calls \in 0 .. MaxCalls
    /\ Sound(dto)
    /\ \A i \in items : ItemSound(i)
    /\ by \in {"route", "errorHandler"} => dto.code # "none"
    /\ pc = "running" => by = "nobody"

\* The headers of a request are sound.
LEMMA IncomingIsSound == ASSUME incoming \in Incoming PROVE Sound(incoming)
  BY DEF Incoming, Sound, Actionable, Codes, CursorCodes

LEMMA Initially == Init => IInv
  BY IncomingIsSound DEF Init, IInv

\* A call that sets headers only keeps the invariant if it keeps them sound.
LEMMA SetKeeps ==
  ASSUME IInv, NEW h, Sound(h), Set(h) PROVE IInv'
  BY DEF IInv, Set, Call, Sound, Actionable, ItemSound

\* The headers after setRepeater, accepted or refused, are sound.
LEMMA RepeaterIsSound ==
  ASSUME NEW h, Sound(h), NEW i \in Counts, NEW n \in Counts
  PROVE  Sound(Repeater(h, i, n))
<1>1. CASE i < 1 \/ n < 1
  BY <1>1 DEF Repeater
<1>2. CASE ~(i < 1 \/ n < 1)
  <2> DEFINE g == [h EXCEPT !.code = "REPEAT", !.interval = i, !.maxHops = n]
  <2>1. Repeater(h, i, n) = g
    BY <1>2 DEF Repeater
  <2>2. g \in Headers /\ g.code = "REPEAT" /\ g.interval = i /\ g.maxHops = n /\ g.audit = h.audit
    BY DEF Sound, Headers, Codes
  <2>3. i >= 1 /\ n >= 1
    BY <1>2 DEF Counts
  <2> HIDE DEF g
  <2>4. Sound(g)
    BY <2>2, <2>3 DEF Sound, Actionable, CursorCodes
  <2>5. QED
    BY <2>1, <2>4
<1>3. QED
  BY <1>1, <1>2

\* Every call about the result keeps the invariant.
LEMMA StatusCallKeeps == ASSUME IInv, StatusCall PROVE IInv'
<1> USE DEF Sound, Headers, Actionable, Codes, CursorCodes, Counts
<1>0. Sound(dto)
  BY DEF IInv
<1>1. CASE setSuccessProcess
  BY <1>0, <1>1, SetKeeps, Sound([dto EXCEPT !.code = "SUCCESS"]) DEF setSuccessProcess
<1>2. ASSUME NEW status \in Codes, setStopProcess(status) PROVE IInv'
  <2>1. Sound([dto EXCEPT !.code = "STOP_AND_FAILED"])
     /\ Sound([dto EXCEPT !.code = "DO_NOT_CONTINUE"])
    BY <1>0
  <2>2. QED
    BY <1>0, <1>2, <2>1, SetKeeps DEF setStopProcess
<1>3. CASE setLimitExceeded
  BY <1>0, <1>3, SetKeeps, Sound([dto EXCEPT !.code = "LIMIT_EXCEEDED"]) DEF setLimitExceeded
<1>4. ASSUME NEW i \in Counts, NEW n \in Counts, setRepeater(i, n) PROVE IInv'
  BY <1>0, <1>4, RepeaterIsSound, SetKeeps DEF setRepeater
<1>5. CASE removeRepeater
  <2> DEFINE code == Unrelated(dto.code, {"REPEAT"})
             g == [dto EXCEPT !.interval = 0, !.maxHops = 0, !.hops = FALSE, !.code = code]
  <2>1. code \in Codes \cup {"none"} /\ code # "REPEAT" /\ code \in {dto.code, "none"}
    BY <1>0 DEF Unrelated
  <2>2. Set(g)
    BY <1>5 DEF removeRepeater
  <2> HIDE DEF code
  <2>3. /\ g.code = code /\ g.target = dto.target
        /\ g.workerFollowers = dto.workerFollowers /\ g.cursor = dto.cursor
        /\ g.audit = dto.audit
    BY <1>0
  <2>4. g \in Headers
    <3>1. 0 \in Counts
      OBVIOUS
    <3> HIDE DEF Counts, Codes
    <3>2. dto \in Headers
      BY <1>0
    <3>3. QED
      BY <2>1, <3>1, <3>2
  <2> HIDE DEF g
  <2>5. Sound(g)
    BY <1>0, <2>1, <2>3, <2>4
  <2>6. QED
    BY <2>2, <2>5, SetKeeps
<1>6. ASSUME NEW names \in SUBSET Followers, setForceFollowers(names) PROVE IInv'
  <2> DEFINE reached == names \cap dto.workerFollowers
  <2>1. CASE reached = {}
    BY <1>0, <1>6, <2>1, SetKeeps DEF setForceFollowers
  <2>2. CASE reached # {}
    <3>1. Sound([dto EXCEPT !.target = reached, !.code = "FORWARD_TO_TARGET_QUEUE"])
      BY <1>0, <2>2
    <3>2. QED
      BY <1>6, <2>2, <3>1, SetKeeps DEF setForceFollowers
  <2>3. QED
    BY <2>1, <2>2
<1>7. CASE removeForceFollowers
  <2>1. Sound([dto EXCEPT !.target = {},
                          !.code = Unrelated(@, {"FORWARD_TO_TARGET_QUEUE"})])
    BY <1>0 DEF Unrelated
  <2>2. QED
    BY <1>7, <2>1, SetKeeps DEF removeForceFollowers
<1>8. ASSUME NEW c \in Cursors, NEW only \in BOOLEAN, setBatchCursor(c, only) PROVE IInv'
  <2>1. \A code \in CursorCodes : Sound([dto EXCEPT !.cursor = c, !.code = code])
    BY <1>0
  <2>2. QED
    BY <1>8, <2>1, SetKeeps DEF setBatchCursor
<1>9. CASE removeBatchCursor
  <2>1. Sound([dto EXCEPT !.cursor = Absent, !.code = Unrelated(@, CursorCodes)])
    BY <1>0 DEF Unrelated
  <2>2. QED
    BY <1>9, <2>1, SetKeeps DEF removeBatchCursor
<1>10. QED
  BY <1>1, <1>2, <1>3, <1>4, <1>5, <1>6, <1>7, <1>8, <1>9 DEF StatusCall

\* Of the limits of the message the item's own key keeps only the item's entry.
LEMMA LimiterIsOwn ==
  ASSUME NEW parsed \in SUBSET Entries, NEW l \in Limits
  PROVE  /\ Limiter(parsed, l) \in SUBSET Entries
         /\ {x \in Limiter(parsed, l) : x.key = l.first.key} = {l.first}
  BY DEF Limits, Limiter, Entries

\* An item added with sound audits is sound, and so stay the others.
LEMMA PushKeeps ==
  ASSUME IInv, NEW own \in SUBSET Entities, NEW audit \in Audits,
         own # {} => \A e \in Entities :
            IF e \in own THEN audit[e] = {calls + 1}
            ELSE incoming.audit[e] \subseteq audit[e] /\ audit[e] \subseteq {0},
         PushItem(own, audit), UNCHANGED dto
  PROVE  IInv'
<1>1. PICK parsed \in parseLimitKey(dto.limiter), given \in Given :
        items' = items \cup
            {[no |-> calls + 1, own |-> own, audit |-> audit,
              limit |-> {l.first : l \in given},
              limiter |-> UNION {Limiter(parsed, l) : l \in given}]}
  BY DEF PushItem
<1> DEFINE new == [no |-> calls + 1, own |-> own, audit |-> audit,
                   limit |-> {l.first : l \in given},
                   limiter |-> UNION {Limiter(parsed, l) : l \in given}]
<1>2. parsed \in SUBSET Entries
  BY DEF parseLimitKey, IInv, Sound, Headers
<1>3. /\ new.limit \in SUBSET Entries
      /\ new.limiter \in SUBSET Entries
      /\ \A l \in new.limit : {x \in new.limiter : x.key = l.key} = {l}
  <2>1. CASE given = {}
    BY <2>1
  <2>2. ASSUME NEW l \in ItemLimits, given = {l} PROVE <1>3
    <3>1. l \in Limits
      OBVIOUS
    <3>2. new.limit = {l.first} /\ new.limiter = Limiter(parsed, l)
      BY <2>2
    <3>3. l.first \in Entries
      BY <3>1 DEF Limits
    <3>4. QED
      BY <1>2, <3>1, <3>2, <3>3, LimiterIsOwn
  <2>3. QED
    BY <2>1, <2>2 DEF Given
<1>4. calls + 1 \in 1 .. MaxCalls
  BY DEF IInv, PushItem, Call
<1>5. new \in Items
  BY <1>3, <1>4 DEF Items
<1>6. ItemSound(new)
  BY <1>3, <1>5 DEF ItemSound
<1>7. items' = items \cup {new}
  BY <1>1
<1> HIDE DEF new
<1>8. (\A i \in items : ItemSound(i))'
  BY <1>6, <1>7 DEF IInv, ItemSound, PushItem, Call
<1>9. Sound(dto)'
  BY DEF IInv, Sound, Actionable, PushItem, Call
<1>10. QED
  BY <1>4, <1>8, <1>9 DEF IInv, PushItem, Call

\* Every call about limits, audits and items keeps the invariant.
LEMMA BatchCallKeeps == ASSUME IInv, BatchCall PROVE IInv'
<1>0. Sound(dto) /\ calls \in Nat
  BY DEF IInv
<1>1. ASSUME NEW l \in NodeLimits, setLimiter(l.first.key, l.first.rate, l.group)
      PROVE  IInv'
  <2> DEFINE limits == {Entry(decorateLimitKey(l.first.key), l.first.rate)}
                 \cup {Entry(decorateLimitKey(x.key), x.rate) : x \in l.group}
  <2>1. \A x \in Entries : Entry(decorateLimitKey(x.key), x.rate) \in Entries
    BY DEF Entries, Entry, decorateLimitKey, Keys
  <2>2. limits \in SUBSET Entries
    BY <2>1 DEF Limits
  <2>3. Set([dto EXCEPT !.limiter = limits])
    BY <1>1 DEF setLimiter
  <2> HIDE DEF limits
  <2>4. Sound([dto EXCEPT !.limiter = limits])
    BY <1>0, <2>2 DEF Sound, Headers, Actionable
  <2>5. QED
    BY <2>3, <2>4, SetKeeps
<1>2. CASE removeLimiter
  <2>1. Sound([dto EXCEPT !.limiter = {}])
    BY <1>0 DEF Sound, Headers, Actionable
  <2>2. QED
    BY <1>2, <2>1, SetKeeps DEF removeLimiter
<1>3. ASSUME NEW e \in Entities, addAuditHeader(e) PROVE IInv'
  <2> DEFINE audit == [dto.audit EXCEPT ![e] = @ \cup {0}]
  <2>1. audit \in Audits
    BY <1>0 DEF Sound, Headers, Audits, Origins
  <2>2. \A f \in Entities : incoming.audit[f] \subseteq audit[f] /\ audit[f] \subseteq {0}
    BY <1>0 DEF Sound, Headers, Audits
  <2>3. Set([dto EXCEPT !.audit = audit])
    BY <1>3 DEF addAuditHeader
  <2> HIDE DEF audit
  <2>4. Sound([dto EXCEPT !.audit = audit])
    BY <1>0, <2>1, <2>2 DEF Sound, Headers, Actionable
  <2>5. QED
    BY <2>3, <2>4, SetKeeps
<1>4. CASE addItem
  <2>1. NoAudit \in Audits
    BY DEF NoAudit, Audits
  <2>2. QED
    BY <1>4, <2>1, PushKeeps DEF addItem
<1>5. ASSUME NEW own \in SUBSET Entities \ {{}}, addItemWithAudit(own) PROVE IInv'
  <2> DEFINE merged == [e \in Entities |-> IF e \in own THEN {calls + 1} ELSE dto.audit[e]]
  <2>1. calls + 1 \in Origins
    BY <1>0, <1>5 DEF addItemWithAudit, PushItem, Call, Origins
  <2>2. merged \in Audits
    BY <1>0, <2>1 DEF Sound, Headers, Audits
  <2>3. \A e \in Entities :
          IF e \in own THEN merged[e] = {calls + 1}
          ELSE incoming.audit[e] \subseteq merged[e] /\ merged[e] \subseteq {0}
    BY <1>0 DEF Sound
  <2>4. PushItem(own, merged) /\ UNCHANGED dto
    BY <1>5 DEF addItemWithAudit
  <2> HIDE DEF merged
  <2>5. QED
    BY <2>2, <2>3, <2>4, PushKeeps
<1>6. CASE setMessages
  BY <1>6 DEF setMessages, Call, IInv, Sound, Actionable
<1>7. QED
  BY <1>1, <1>2, <1>3, <1>4, <1>5, <1>6 DEF BatchCall

\* An answer keeps the invariant if its headers are sound and, unless Express
\* sends it, have a code, and if it brings no new item.
LEMMA AnswerKeeps ==
  ASSUME IInv, NEW who \in {"route", "errorHandler", "express"}, NEW h, Sound(h),
         who # "express" => h.code # "none",
         NEW messages \in SUBSET items, Answer(who, h, messages)
  PROVE  IInv'
  BY DEF IInv, Answer, Sound, Actionable, ItemSound

\* A code that is filled in needs nothing else.
LEMMA WithCodeIsSound ==
  ASSUME NEW h, Sound(h), NEW code \in {"SUCCESS", "STOP_AND_FAILED"}
  PROVE  Sound(WithCode(h, code)) /\ WithCode(h, code).code # "none"
  BY DEF WithCode, Sound, Headers, Actionable, Codes, CursorCodes

\* Every end of a node keeps the invariant.
LEMMA EndKeeps == ASSUME IInv, End PROVE IInv'
<1>0. Sound(dto) /\ Sound(incoming) /\ {} \in SUBSET items
  BY IncomingIsSound DEF IInv
<1>1. CASE NodeReturns
  BY <1>0, <1>1, AnswerKeeps, WithCodeIsSound DEF NodeReturns
<1>2. ASSUME NEW i \in Counts, NEW n \in Counts, NodeRepeats(i, n) PROVE IInv'
  <2>1. CASE i < 1 \/ n < 1
    BY <1>0, <1>2, <2>1, AnswerKeeps DEF NodeRepeats
  <2>2. CASE ~(i < 1 \/ n < 1)
    <3>1. Answer("errorHandler", Repeater(incoming, i, n), {})
      BY <1>2, <2>2 DEF NodeRepeats
    <3>2. Repeater(incoming, i, n).code # "none"
      BY <1>0, <2>2 DEF Repeater, Sound, Headers
    <3>3. QED
      BY <1>0, <3>1, <3>2, RepeaterIsSound, AnswerKeeps
  <2>3. QED
    BY <2>1, <2>2
<1>3. CASE NodeStops
  <2>1. Sound([incoming EXCEPT !.code = "STOP_AND_FAILED"])
     /\ [incoming EXCEPT !.code = "STOP_AND_FAILED"].code # "none"
    BY <1>0 DEF Sound, Headers, Actionable, Codes, CursorCodes
  <2>2. QED
    BY <1>0, <1>3, <2>1, AnswerKeeps DEF NodeStops
<1>4. CASE NodeFails
  BY <1>0, <1>4, AnswerKeeps, WithCodeIsSound DEF NodeFails
<1>5. QED
  BY <1>1, <1>2, <1>3, <1>4 DEF End

\* The invariant holds throughout.
LEMMA Invariance == Spec => []IInv
<1>1. IInv /\ [Next]_vars => IInv'
  <2>1. ASSUME IInv, Next PROVE IInv'
    BY <2>1, StatusCallKeeps, BatchCallKeeps, EndKeeps DEF Next
  <2>2. ASSUME IInv, UNCHANGED vars PROVE IInv'
    BY <2>2 DEF IInv, vars, Sound, Actionable, ItemSound
  <2>3. QED
    BY <2>1, <2>2
<1>2. QED
  BY <1>1, Initially, PTL DEF Spec

\* The headers, the items and the answer are always of their type.
THEOREM TypeCorrect == Spec => []TypeOK
<1>1. IInv => TypeOK
  BY DEF IInv, TypeOK, Sound, ItemSound
<1>2. QED
  BY <1>1, Invariance, PTL

\* Every answer that is not Express' own has a code the bridge can act on, after
\* any number of calls in any order.
THEOREM Actable == Spec => []AnswerIsActionable
<1>1. IInv => AnswerIsActionable
  BY DEF IInv, AnswerIsActionable, Sound
<1>2. QED
  BY <1>1, Invariance, PTL

\* The message made of an item is told from the other items of its batch, for
\* any number of items, entities and limits.
THEOREM ItemsApart == Spec => []ItemsStandAlone
<1>1. IInv => ItemsStandAlone
  BY DEF IInv, ItemsStandAlone, AuditIsOwn, LimitIsOwn, ChildAudit, ChildLimiter, ItemSound
<1>2. QED
  BY <1>1, Invariance, PTL
=============================================================================
