------------------------- MODULE ServiceCallProofs -------------------------
(***************************************************************************)
(* Proofs about the calls of external services: about CacheLock, for any   *)
(* number of callers and tries, and about CurlSender and TopologyRunner,   *)
(* for any status a server may answer with and any number of repeats.      *)
(***************************************************************************)
EXTENDS CacheLock, TopologyRunner, SequenceTheorems, TLAPS

-----------------------------------------------------------------------------
(* The lock of the cache *)

\* A caller that can still try has not used up its tries.
TriesLeft == \A c \in Callers :
    pc[c] \notin {"giveUp", "failed"} => tries[c] <= MaxTry

\* Until a robbery, who works has set the key.
Owns == ~robbed => \A c \in Callers : Working(c) => lock = c

\* The inductive invariant
IInv == TypeOK /\ TriesLeft /\ Owns

USE CacheAssumption DEF CacheAssumption

\* The invariant holds before any call.
LEMMA InitIInv == Init => IInv
<1> SUFFICES ASSUME Init PROVE IInv
  OBVIOUS
<1>1. /\ pc \in [Callers -> {"idle"}]
      /\ tries \in [Callers -> 0 .. MaxTry + 1]
  <2>1. 0 \in 0 .. MaxTry + 1
    OBVIOUS
  <2> QED
    BY <2>1 DEF Init
<1>2. TypeOK
  BY <1>1 DEF Init, TypeOK
<1>3. TriesLeft /\ Owns
  BY DEF Init, TriesLeft, Owns, Working
<1> QED
  BY <1>2, <1>3 DEF IInv

\* Removing the key is noticed exactly when its owner is another, working one.
LEMMA RemoveLockOwns ==
    ASSUME NEW c \in Callers, TypeOK, Owns, RemoveLock(c),
           NEW there, ~(there \in {"fetch", "store", "unlock", "unlockFailed"}),
           Goto(c, there)
    PROVE  Owns' /\ lock' \in Callers \cup {Nobody} /\ robbed' \in BOOLEAN
<1>1. lock' = Nobody /\ robbed' \in BOOLEAN
  BY DEF RemoveLock, TypeOK
<1>2. ASSUME ~robbed', NEW d \in Callers, Working(d)' PROVE FALSE
  <2>1. ~robbed /\ ~\E o \in Callers \ {c} : lock = o /\ Working(o)
    BY <1>2 DEF RemoveLock
  <2>2. d # c /\ Working(d)
    BY <1>2 DEF Goto, Working, TypeOK
  <2>3. lock = d
    BY <2>1, <2>2 DEF Owns
  <2> QED
    BY <2>1, <2>2, <2>3
<1> QED
  BY <1>1, <1>2 DEF Owns

\* Every step keeps the invariant.
LEMMA NextIInv == ASSUME IInv, [Next]_vars PROVE IInv'
<1> USE DEF IInv
<1>1. ASSUME NEW c \in Callers, Begin(c) PROVE IInv'
  BY <1>1 DEF Begin, Goto, redis, TypeOK, TriesLeft, Owns, Working
<1>2. ASSUME NEW c \in Callers, Get(c) PROVE IInv'
  BY <1>2 DEF Get, Goto, redis, TypeOK, TriesLeft, Owns, Working
<1>3. ASSUME NEW c \in Callers, IsLocked(c) PROVE IInv'
  <2>1. CASE lock = Nobody
    BY <1>3, <2>1 DEF IsLocked, Goto, TypeOK, TriesLeft, Owns, Working
  <2>2. CASE lock # Nobody
    BY <1>3, <2>2 DEF IsLocked, Goto, TypeOK, TriesLeft, Owns, Working
  <2> QED
    BY <2>1, <2>2
<1>4. ASSUME NEW c \in Callers, Recurse(c) PROVE IInv'
  <2>1. /\ tries[c] \in 0 .. MaxTry
        /\ tries' = [tries EXCEPT ![c] = tries[c] + 1]
    BY <1>4 DEF Recurse, TypeOK, TriesLeft
  <2>2. CASE tries'[c] > MaxTry
    BY <1>4, <2>1, <2>2 DEF Recurse, Goto, redis, TypeOK, TriesLeft, Owns, Working
  <2>3. CASE ~(tries'[c] > MaxTry)
    BY <1>4, <2>1, <2>3 DEF Recurse, Goto, redis, TypeOK, TriesLeft, Owns, Working
  <2> QED
    BY <2>2, <2>3
<1>5. ASSUME NEW c \in Callers, GiveUp(c) PROVE IInv'
  <2>1. Owns' /\ lock' \in Callers \cup {Nobody} /\ robbed' \in BOOLEAN
    BY <1>5, RemoveLockOwns DEF GiveUp
  <2> QED
    BY <1>5, <2>1 DEF GiveUp, Goto, TypeOK, TriesLeft
<1>6. ASSUME NEW c \in Callers, Fetch(c) PROVE IInv'
  BY <1>6 DEF Fetch, Goto, redis, TypeOK, TriesLeft, Owns, Working
<1>7. ASSUME NEW c \in Callers, Store(c) PROVE IInv'
  BY <1>7 DEF Store, Goto, TypeOK, TriesLeft, Owns, Working
<1>8. ASSUME NEW c \in Callers, Unlock(c) PROVE IInv'
  <2>1. Owns' /\ lock' \in Callers \cup {Nobody} /\ robbed' \in BOOLEAN
    BY <1>8, RemoveLockOwns DEF Unlock
  <2> QED
    BY <1>8, <2>1 DEF Unlock, Goto, TypeOK, TriesLeft
<1>9. ASSUME NEW c \in Callers, Fails(c) PROVE IInv'
  <2>1. CASE UNCHANGED redis
    BY <1>9, <2>1 DEF Fails, Goto, redis, TypeOK, TriesLeft, Owns, Working
  <2>2. CASE /\ pc[c] = "lock" /\ lock = Nobody
             /\ lock' = c
             /\ UNCHANGED <<cached, robbed>>
    BY <1>9, <2>2 DEF Fails, Goto, TypeOK, TriesLeft, Owns, Working
  <2>3. CASE /\ pc[c] = "store"
             /\ cached' = TRUE
             /\ UNCHANGED <<lock, robbed>>
    BY <1>9, <2>3 DEF Fails, Goto, TypeOK, TriesLeft, Owns, Working
  <2>4. CASE RemoveLock(c) /\ UNCHANGED cached
    <3>1. Owns' /\ lock' \in Callers \cup {Nobody} /\ robbed' \in BOOLEAN
      BY <1>9, <2>4, RemoveLockOwns DEF Fails
    <3> QED
      BY <1>9, <2>4, <3>1 DEF Fails, Goto, TypeOK, TriesLeft
  <2> QED
    BY <1>9, <2>1, <2>2, <2>3, <2>4 DEF Fails
<1>10. ASSUME LockExpires PROVE IInv'
  BY <1>10 DEF LockExpires, RemoveLock, TypeOK, TriesLeft, Owns, Working
<1>11. ASSUME CacheVanishes PROVE IInv'
  BY <1>11 DEF CacheVanishes, TypeOK, TriesLeft, Owns, Working
<1>12. ASSUME UNCHANGED vars PROVE IInv'
  BY <1>12 DEF vars, TypeOK, TriesLeft, Owns, Working
<1> QED
  BY <1>1, <1>2, <1>3, <1>4, <1>5, <1>6, <1>7, <1>8, <1>9, <1>10, <1>11, <1>12
  DEF Next, Step

\* The inductive invariant of the cache lock.
THEOREM Invariance == Spec => []IInv
BY InitIInv, NextIInv, PTL DEF Spec

\* The variables of the model always have their types: no call tries more often
\* than MAX_TRY allows.
THEOREM TypeCorrect == Spec => []TypeOK
<1>1. IInv => TypeOK
  BY DEF IInv
<1> QED
  BY <1>1, Invariance, PTL

\* Until a caller is robbed of its lock, one caller at a time asks the service.
THEOREM MutualExclusion == Spec => []WorksAlone
<1>1. IInv => WorksAlone
  BY DEF IInv, Owns, WorksAlone
<1> QED
  BY <1>1, Invariance, PTL

\* The release of entryWithLock, although it does not look at who set the key,
\* never is the first to rob another caller.
THEOREM HarmlessRelease == Spec => ReleaseIsHarmless
<1>1. ASSUME IInv, NEW c \in Callers, ~robbed, Unlock(c) PROVE ~robbed'
  BY <1>1 DEF IInv, Owns, Unlock, RemoveLock, Working
<1>2. IInv /\ [Next]_vars
        => [\A c \in Callers : ~robbed /\ Unlock(c) => ~robbed']_vars
  BY <1>1
<1> QED
  BY <1>2, Invariance, PTL DEF Spec, ReleaseIsHarmless

-----------------------------------------------------------------------------
(* The tables *)

USE StatusAssumption, HopsAssumption DEF StatusAssumption, HopsAssumption

\* The lists of each shipped table, as arithmetic
LEMMA DefaultLists ==
    ASSUME NEW s \in Nat
    PROVE  /\ InRange(s, defaultRanges.success) <=> s < 300
           /\ InRange(s, defaultRanges.stopAndFail) <=>
                 300 <= s /\ s < 500 /\ s \notin {408, 429}
           /\ InRange(s, defaultRanges.repeat) <=> s \in {408, 429} \/ s >= 500
<1>1. InRange(s, {Below(300)}) <=> s < 300
  BY DEF InRange, Matches, Code, Below, AtLeast, Between
<1>2. InRange(s, {Between(300, 408), Between(409, 429), Between(430, 500)}) <=>
        (300 <= s /\ s < 408) \/ (409 <= s /\ s < 429) \/ (430 <= s /\ s < 500)
  BY DEF InRange, Matches, Code, Below, AtLeast, Between
<1>3. InRange(s, {Code(408), Code(429), AtLeast(500)}) <=> s = 408 \/ s = 429 \/ s >= 500
  BY DEF InRange, Matches, Code, Below, AtLeast, Between
<1> QED
  BY <1>1, <1>2, <1>3 DEF defaultRanges, Table

LEMMA ContinueOnNotFoundLists ==
    ASSUME NEW s \in Nat
    PROVE  /\ InRange(s, continueOnNotFoundRanges.success) <=> s < 300 \/ s = 404
           /\ InRange(s, continueOnNotFoundRanges.stopAndFail) <=>
                 300 <= s /\ s < 500 /\ s \notin {404, 408, 429}
           /\ InRange(s, continueOnNotFoundRanges.repeat) <=> s \in {408, 429} \/ s >= 500
<1>1. InRange(s, {Below(300), Code(404)}) <=> s < 300 \/ s = 404
  BY DEF InRange, Matches, Code, Below, AtLeast, Between
<1>2. InRange(s, {Between(300, 404), Between(405, 408), Between(409, 429), Between(430, 500)})
        <=> \/ (300 <= s /\ s < 404) \/ (405 <= s /\ s < 408)
            \/ (409 <= s /\ s < 429) \/ (430 <= s /\ s < 500)
  BY DEF InRange, Matches, Code, Below, AtLeast, Between
<1>3. InRange(s, {Code(408), Code(429), AtLeast(500)}) <=> s = 408 \/ s = 429 \/ s >= 500
  BY DEF InRange, Matches, Code, Below, AtLeast, Between
<1> QED
  BY <1>1, <1>2, <1>3 DEF continueOnNotFoundRanges, Table

LEMMA OtherLists ==
    ASSUME NEW s \in Nat
    PROVE  /\ InRange(s, repeatOnErrorRanges.success) <=> s < 300
           /\ ~InRange(s, repeatOnErrorRanges.stopAndFail)
           /\ InRange(s, repeatOnErrorRanges.repeat) <=> s >= 300
           /\ InRange(s, continueOnErrorRanges.success) <=> s < 500
           /\ InRange(s, continueOnErrorRanges.stopAndFail) <=> s >= 500
           /\ ~InRange(s, continueOnErrorRanges.repeat)
           /\ InRange(s, keepAllRanges.success) <=> s < 999
           /\ ~InRange(s, keepAllRanges.stopAndFail)
           /\ ~InRange(s, keepAllRanges.repeat)
<1>1. /\ InRange(s, {Below(300)}) <=> s < 300
      /\ InRange(s, {AtLeast(300)}) <=> s >= 300
      /\ InRange(s, {Below(500)}) <=> s < 500
      /\ InRange(s, {AtLeast(500)}) <=> s >= 500
      /\ InRange(s, {Below(999)}) <=> s < 999
      /\ ~InRange(s, {})
  BY DEF InRange, Matches, Code, Below, AtLeast, Between
<1> QED
  BY <1>1 DEF repeatOnErrorRanges, continueOnErrorRanges, keepAllRanges, Table

\* The tables by their names
LEMMA TableNames ==
    /\ DOMAIN Tables = {"default", "repeatOnError", "continueOnNotFound",
                        "continueOnError", "keepAll"}
    /\ Tables["default"] = defaultRanges
    /\ Tables["repeatOnError"] = repeatOnErrorRanges
    /\ Tables["continueOnNotFound"] = continueOnNotFoundRanges
    /\ Tables["continueOnError"] = continueOnErrorRanges
    /\ Tables["keepAll"] = keepAllRanges
BY DEF Tables

-----------------------------------------------------------------------------
(* One call *)

\* What one call has led to so far: nothing, a failure of its own, or a status
\* and what is made of it.
CallInv ==
    /\ phase \in {"requested", "reporting", "measured", "done"}
    /\ table \in DOMAIN Tables \cup {"null"}
    /\ status \in Statuses \cup {0}
    /\ failure \in {"none", "timeout", "broken"}
    /\ phase = "requested" =>
          status = 0 /\ failure = "none" /\ outcome = "none" /\ metrics = <<>>
    /\ failure = "timeout" =>
          /\ status = 0 /\ outcome = "OnRepeat" /\ phase \in {"reporting", "done"}
          /\ metrics = <<408>>
    /\ failure = "broken" =>
          status = 0 /\ outcome = "other" /\ phase \in {"reporting", "done"}
    /\ failure = "none" /\ phase # "requested" =>
          /\ status \in Statuses
          /\ metrics = IF outcome = "other" THEN <<status, 500>> ELSE <<status>>
          /\ phase = "reporting" => outcome \in {"none", "other"}
          /\ phase = "measured" => outcome = "none"
          /\ phase = "done" => outcome \in {"other", Decision}

\* What a table makes of a status is one of three things.
LEMMA OutcomeValues ==
    ASSUME NEW s, NEW t
    PROVE  /\ InRange(s, t.success) => Outcome(s, t) = "returned"
           /\ ~InRange(s, t.success) /\ InRange(s, t.stopAndFail) =>
                 Outcome(s, t) = "OnStopAndFail"
           /\ ~InRange(s, t.success) /\ ~InRange(s, t.stopAndFail) =>
                 Outcome(s, t) = IF InRange(s, t.repeat) \/ s >= 300
                                 THEN "OnRepeat" ELSE "returned"
           /\ Outcome(s, t) \in {"returned", "OnStopAndFail", "OnRepeat"}
BY DEF Outcome

\* Whatever the table, a success is returned.
LEMMA SuccessIsReturned ==
    ASSUME table \in DOMAIN Tables \cup {"null"}, status \in 200 .. 299
    PROVE  Decision = "returned"
<1>1. status \in Nat /\ status < 300
  OBVIOUS
<1>2. CASE table = "null"
  BY <1>2 DEF Decision
<1>3. CASE table = "default"
  BY <1>1, <1>3, TableNames, DefaultLists, OutcomeValues DEF Decision
<1>4. CASE table = "continueOnNotFound"
  BY <1>1, <1>4, TableNames, ContinueOnNotFoundLists, OutcomeValues DEF Decision
<1>5. CASE table \in {"repeatOnError", "continueOnError", "keepAll"}
  BY <1>1, <1>5, TableNames, OtherLists, OutcomeValues DEF Decision
<1> QED
  BY <1>2, <1>3, <1>4, <1>5, TableNames

\* The lists of the table in the comment of send()
LEMMA DocumentedLists ==
    ASSUME NEW s \in Nat
    PROVE  /\ InRange(s, documentedRanges.success) <=> s < 300
           /\ InRange(s, documentedRanges.stopAndFail) <=>
                 300 <= s /\ s < 500 /\ s # 408
           /\ InRange(s, documentedRanges.repeat) <=> s = 408 \/ s >= 500
<1>1. InRange(s, {Below(300)}) <=> s < 300
  BY DEF InRange, Matches, Code, Below, AtLeast, Between
<1>2. InRange(s, {Between(300, 408), Between(409, 500)}) <=>
        (300 <= s /\ s < 408) \/ (409 <= s /\ s < 500)
  BY DEF InRange, Matches, Code, Below, AtLeast, Between
<1>3. InRange(s, {Code(408), AtLeast(500)}) <=> s = 408 \/ s >= 500
  BY DEF InRange, Matches, Code, Below, AtLeast, Between
<1> QED
  BY <1>1, <1>2, <1>3 DEF documentedRanges, Table

\* That table and the one of the code differ in 429, and there only.
LEMMA DocumentedDecision ==
    ASSUME NEW s \in Nat
    PROVE  /\ Outcome(408, documentedRanges) = "OnRepeat"
           /\ Outcome(s, defaultRanges) = Outcome(s, documentedRanges) <=> s # 429
<1>0. Outcome(408, documentedRanges) = "OnRepeat"
  BY DocumentedLists, OutcomeValues
<1>1. CASE s < 300
  BY <1>0, <1>1, DefaultLists, DocumentedLists, OutcomeValues
<1>2. CASE s >= 300 /\ s < 500 /\ s \notin {408, 429}
  BY <1>0, <1>2, DefaultLists, DocumentedLists, OutcomeValues
<1>3. CASE s = 408 \/ s >= 500
  BY <1>0, <1>3, DefaultLists, DocumentedLists, OutcomeValues
<1>4. CASE s = 429
  <2>1. Outcome(429, defaultRanges) = "OnRepeat"
    BY DefaultLists, OutcomeValues
  <2>2. Outcome(429, documentedRanges) = "OnStopAndFail"
    BY DocumentedLists, OutcomeValues
  <2> QED
    BY <1>0, <1>4, <2>1, <2>2
<1> QED
  BY <1>0, <1>1, <1>2, <1>3, <1>4

\* The steps of a call
CallStep ==
    \/ \E code \in Statuses : Answered(code)
    \/ TimesOut \/ Breaks \/ MetricsSettle \/ Decide \/ CallbackFails

\* The second report follows the first.
LEMMA AppendSecond ==
    ASSUME NEW s \in Nat PROVE Append(<<s>>, 500) = <<s, 500>>
<1> DEFINE a == Append(<<s>>, 500)
           b == <<s, 500>>
<1>1. /\ a \in Seq(Nat) /\ b \in Seq(Nat) /\ Len(a) = 2 /\ Len(b) = 2
      /\ a[1] = s /\ a[2] = 500 /\ b[1] = s /\ b[2] = 500
  OBVIOUS
<1> HIDE DEF a, b
<1>2. Len(a) = Len(b) /\ \A i \in 1 .. Len(a) : a[i] = b[i]
  BY <1>1
<1>3. a = b
  BY <1>1, <1>2, SeqEqual
<1> QED
  BY <1>3 DEF a, b

LEMMA CallInvInit == CallInit => CallInv
BY DEF CallInit, CallInv

LEMMA CallInvStep == ASSUME CallInv, CallStep PROVE CallInv'
<1>1. ASSUME NEW code \in Statuses, Answered(code) PROVE CallInv'
  BY <1>1 DEF CallInv, Answered, Reported
<1>2. ASSUME TimesOut PROVE CallInv'
  BY <1>2 DEF CallInv, TimesOut, Reported
<1>3. ASSUME Breaks PROVE CallInv'
  BY <1>3 DEF CallInv, Breaks, Reported
<1>4. ASSUME MetricsSettle PROVE CallInv'
  BY <1>4 DEF CallInv, MetricsSettle, Decision
<1>5. ASSUME Decide PROVE CallInv'
  <2>1. failure = "none" /\ status \in Statuses /\ outcome = "none" /\ metrics = <<status>>
    BY <1>5 DEF CallInv, Decide
  <2>2. Decision' = Decision /\ Decision # "other"
    BY <1>5, OutcomeValues DEF Decide, Decision
  <2> QED
    BY <1>5, <2>1, <2>2 DEF CallInv, Decide
<1>6. ASSUME CallbackFails PROVE CallInv'
  <2>1. failure = "none" /\ status \in Statuses /\ outcome = "none" /\ metrics = <<status>>
    BY <1>6 DEF CallInv, CallbackFails
  <2>2. metrics' = <<status, 500>>
    <3>1. metrics' = Append(<<status>>, 500)
      BY <1>6, <2>1 DEF CallbackFails, Reported
    <3> QED
      BY <2>1, <3>1, AppendSecond
  <2> QED
    BY <1>6, <2>1, <2>2 DEF CallInv, CallbackFails, Reported
<1> QED
  BY <1>1, <1>2, <1>3, <1>4, <1>5, <1>6 DEF CallStep

\* What it implies of a call
LEMMA CallInvImplies ==
    ASSUME CallInv PROVE TablesPartition /\ DecidesAsDocumented /\ StatusIsReported
<1>0. status \in Nat /\ table \in DOMAIN Tables \cup {"null"}
  BY DEF CallInv
<1>1. StatusIsReported
  BY DEF CallInv, StatusIsReported
<1>2. DecidesAsDocumented
  <2>1. SUFFICES ASSUME phase = "done", table = "default", outcome # "other"
                 PROVE  outcome = Outcome(Head(metrics), documentedRanges)
                          <=> Head(metrics) # 429
    BY DEF DecidesAsDocumented
  <2>2. CASE failure = "timeout"
    <3>1. outcome = "OnRepeat" /\ Head(metrics) = 408
      BY <2>2 DEF CallInv
    <3> QED
      BY <3>1, DocumentedDecision
  <2>3. CASE failure = "none"
    <3>1. outcome = Decision /\ metrics = <<status>>
      BY <2>1, <2>3 DEF CallInv
    <3>2. Decision = Outcome(status, defaultRanges) /\ Head(metrics) = status
      BY <2>1, <3>1, TableNames DEF Decision
    <3> QED
      BY <1>0, <3>1, <3>2, DocumentedDecision
  <2> QED
    BY <2>1, <2>2, <2>3 DEF CallInv
<1>3. TablesPartition
  <2> DEFINE fields == {"success", "stopAndFail", "repeat"}
             named(t) == { f \in fields : InRange(status, t[f]) }
  <2>1. ASSUME NEW t, NEW a \in fields, InRange(status, t[a]),
               \A f \in fields \ {a} : ~InRange(status, t[f])
        PROVE  \E f \in named(t) : named(t) = {f}
    BY <2>1
  <2>2. CASE table = "default"
    <3>1. \E f \in named(defaultRanges) : named(defaultRanges) = {f}
      BY <1>0, <2>1, DefaultLists
    <3> QED
      BY <2>2, <3>1, TableNames DEF TablesPartition
  <2>3. CASE table = "continueOnNotFound"
    <3>1. \E f \in named(continueOnNotFoundRanges) : named(continueOnNotFoundRanges) = {f}
      BY <1>0, <2>1, ContinueOnNotFoundLists
    <3> QED
      BY <2>3, <3>1, TableNames DEF TablesPartition
  <2>4. CASE table = "repeatOnError"
    <3>1. \E f \in named(repeatOnErrorRanges) : named(repeatOnErrorRanges) = {f}
      BY <1>0, <2>1, OtherLists
    <3> QED
      BY <2>4, <3>1, TableNames DEF TablesPartition
  <2>5. CASE table = "continueOnError"
    <3>1. \E f \in named(continueOnErrorRanges) : named(continueOnErrorRanges) = {f}
      BY <1>0, <2>1, OtherLists
    <3> QED
      BY <2>5, <3>1, TableNames DEF TablesPartition
  <2>6. CASE table = "keepAll"
    <3>1. IF status >= 999 THEN named(keepAllRanges) = {}
          ELSE \E f \in named(keepAllRanges) : named(keepAllRanges) = {f}
      BY <1>0, <2>1, OtherLists
    <3> QED
      BY <2>6, <3>1, TableNames DEF TablesPartition
  <2>7. CASE table = "null"
    BY <2>7 DEF TablesPartition
  <2> QED
    BY <1>0, <2>2, <2>3, <2>4, <2>5, <2>6, <2>7, TableNames
<1> QED
  BY <1>1, <1>2, <1>3

-----------------------------------------------------------------------------
(* One message *)

\* Where a message can be, and what the node threw
RunnerTypes ==
    /\ via \in Ways
    /\ table \in TablesOf(via)
    /\ place \in {"delivered", "calling", "passed", "thrown", "stopped", "lookup",
                  "repeated", "unset", "usedUp"}
    /\ error \in {"none", "other", "OnRepeat", "OnStopAndFail"}
    /\ hop \in Nat /\ maxHops \in Nat /\ acted \in Nat
    /\ doubt \in BOOLEAN /\ spurned \in BOOLEAN

\* What is thrown is what became of the call.
ErrorInv ==
    /\ place = "delivered" => phase = "requested"
    /\ place \in {"thrown", "stopped"} =>
          /\ via = "node" => error = outcome /\ outcome # "returned" /\ phase = "done"
          /\ via = "runner" => error = "OnRepeat"
    /\ place = "stopped" => error # "OnRepeat"

\* While no action of the service is in doubt or was taken for a failure, there
\* was at most one, and it is either still on its way back to the node, as a success, or the message is
\* beyond every repeat.
SureInv ==
    acted # 0 /\ ~doubt /\ ~spurned =>
        /\ acted = 1
        /\ \/ /\ place = "calling" /\ phase # "requested"
              /\ failure = "none" /\ status \in 200 .. 299
              /\ outcome \in {"none", "returned"}
              /\ via = "runner" => status = 200
           \/ place = "passed"
           \/ place \in {"thrown", "stopped"} /\ error = "other"

\* entry() knows one plain error only, and nothing it throws is repeated.
EntryInv ==
    via = "entry" =>
        /\ place \in {"delivered", "calling", "passed", "thrown", "stopped"}
        /\ error \in {"none", "other"}
        /\ hop = 0 /\ acted <= 1
        /\ place = "delivered" \/ (place = "calling" /\ phase = "requested") => acted = 0

\* A start that was answered 2xx has acted, one that is passed on was answered
\* 200, and one that is given up has been made again as often as it may.
StartInv ==
    /\ phase # "requested" /\ status \in 200 .. 299 => acted >= 1
    /\ via = "runner" /\ place = "passed" => phase = "done" /\ status = 200
    /\ place \in {"repeated", "usedUp"} => maxHops >= 1
    /\ place = "usedUp" => hop >= maxHops

RunnerInv == CallInv /\ RunnerTypes /\ ErrorInv /\ SureInv /\ EntryInv /\ StartInv

\* The first delivery
LEMMA InitRunnerInv == RunnerInit => RunnerInv
<1> SUFFICES ASSUME RunnerInit PROVE RunnerInv
  OBVIOUS
<1>1. CallInv
  BY CallInvInit DEF RunnerInit
<1>2. RunnerTypes
  <2>1. place = "delivered" /\ error = "none" /\ hop = 0 /\ maxHops = 0 /\ acted = 0
    BY DEF RunnerInit
  <2>2. /\ doubt \in BOOLEAN /\ spurned \in BOOLEAN
        /\ via \in Ways /\ table \in TablesOf(via)
    BY DEF RunnerInit
  <2> QED
    BY <2>1, <2>2 DEF RunnerTypes
<1>3. ErrorInv /\ SureInv /\ EntryInv /\ StartInv
  BY DEF RunnerInit, CallInit, ErrorInv, SureInv, EntryInv, StartInv
<1> QED
  BY <1>1, <1>2, <1>3 DEF RunnerInv

\* What happens to the message leaves the call as it ended.
LEMMA SameCall == ASSUME CallInv, UNCHANGED callVars PROVE CallInv'
BY DEF CallInv, callVars, Decision

\* The steps of the message between two deliveries
LEMMA MessageStep ==
    ASSUME RunnerInv, StartCall \/ Answer \/ Repeating \/ UsedUp
    PROVE  RunnerInv'
<1>1. /\ UNCHANGED <<phase, table, status, failure, metrics, outcome>>
      /\ UNCHANGED <<via, hop, acted, doubt, spurned>>
  BY DEF StartCall, Answer, Repeating, Repeat, RepeatFails, UsedUp, history, callVars
<1>2. CallInv'
  BY <1>1, SameCall DEF RunnerInv, callVars
<1>3. RunnerTypes'
  <2>1. error' \in {"none", "other", "OnRepeat", "OnStopAndFail"}
    BY DEF RunnerInv, RunnerTypes, StartCall, Answer, Repeating, Repeat, RepeatFails, UsedUp
  <2>2. maxHops' \in Nat
    BY DEF RunnerInv, RunnerTypes, StartCall, Answer, Repeating, Repeat, RepeatFails, UsedUp
  <2>3. place' \in {"calling", "passed", "thrown", "stopped", "lookup", "repeated",
                    "unset", "usedUp"}
    BY DEF StartCall, Answer, Repeating, Repeat, RepeatFails, UsedUp
  <2> QED
    BY <1>1, <2>1, <2>2, <2>3 DEF RunnerInv, RunnerTypes, TablesOf
<1>4. CASE StartCall
  <2>1. ErrorInv'
    BY <1>1, <1>4 DEF RunnerInv, StartCall, ErrorInv
  <2>2. SureInv'
    BY <1>1, <1>4 DEF RunnerInv, StartCall, SureInv
  <2>3. EntryInv'
    BY <1>1, <1>4 DEF RunnerInv, StartCall, ErrorInv, EntryInv
  <2>4. StartInv'
    BY <1>1, <1>4 DEF RunnerInv, StartCall, EntryInv, StartInv
  <2> QED
    BY <1>2, <1>3, <2>1, <2>2, <2>3, <2>4 DEF RunnerInv
<1>5. CASE Answer
  <2>1. ErrorInv'
    BY <1>1, <1>5 DEF RunnerInv, Answer, ErrorInv
  <2>2. SureInv'
    BY <1>1, <1>5 DEF RunnerInv, Answer, SureInv
  <2>3. EntryInv'
    BY <1>1, <1>5 DEF RunnerInv, Answer, EntryInv
  <2>4. StartInv'
    BY <1>1, <1>5 DEF RunnerInv, Answer, EntryInv, StartInv
  <2> QED
    BY <1>2, <1>3, <2>1, <2>2, <2>3, <2>4 DEF RunnerInv
<1>6. CASE Repeating \/ UsedUp
  <2>1. /\ place \in {"lookup", "repeated"}
        /\ place' \in {"repeated", "unset", "usedUp"}
    BY <1>6 DEF Repeating, Repeat, RepeatFails, UsedUp
  <2>2. via # "entry" /\ (acted = 0 \/ doubt \/ spurned)
    BY <2>1 DEF RunnerInv, EntryInv, SureInv
  <2>3. StartInv'
    BY <1>1, <1>6 DEF RunnerInv, RunnerTypes, StartInv, Repeating, Repeat, RepeatFails, UsedUp
  <2> QED
    BY <1>1, <1>2, <1>3, <2>1, <2>2, <2>3 DEF RunnerInv, ErrorInv, SureInv, EntryInv
<1> QED
  BY <1>4, <1>5, <1>6

\* A service that acts once more without doubt has acted for the first time.
LEMMA ActsOnce ==
    ASSUME acted \in Nat, doubt \in BOOLEAN, spurned \in BOOLEAN,
           acted = 0 \/ doubt \/ spurned,
           NEW maybe \in SUBSET {0, 1}, NEW sure, Acts(maybe, sure)
    PROVE  /\ acted' \in Nat /\ doubt' \in BOOLEAN
           /\ acted <= acted' /\ acted' <= acted + 1
           /\ maybe = {1} => acted' >= 1
           /\ acted' # 0 /\ ~doubt' /\ ~spurned => acted' = 1 /\ sure /\ 1 \in maybe
<1>1. PICK a \in maybe : acted' = acted + a /\ doubt' = (doubt \/ (a = 1 /\ ~sure))
  BY DEF Acts
<1>2. CASE a = 0
  <2>1. doubt' = doubt /\ acted' = acted
    BY <1>1, <1>2
  <2>2. maybe # {1}
    BY <1>2
  <2> QED
    BY <2>1, <2>2
<1>3. CASE a = 1
  <2>1. acted' = acted + 1
    BY <1>1, <1>3
  <2>2. doubt' \in BOOLEAN /\ (~doubt' => ~doubt /\ sure)
    BY <1>1, <1>3
  <2>3. 1 \in maybe
    BY <1>1, <1>3
  <2> QED
    BY <2>1, <2>2, <2>3
<1> QED
  BY <1>1, <1>2, <1>3

\* The steps of the call
LEMMA CallRunnerInv == ASSUME RunnerInv, Call PROVE RunnerInv'
<1>0. /\ place = "calling" /\ UNCHANGED <<via, place, error, hop, maxHops>>
      /\ table' = table
      /\ acted \in Nat /\ doubt \in BOOLEAN /\ spurned \in BOOLEAN
  BY DEF Call, message, RunnerInv, RunnerTypes, Answered, TimesOut, Breaks, MetricsSettle,
     Decide, CallbackFails
<1>1. CallInv'
  <2>1. CallStep
    BY DEF Call, CallStep
  <2> QED
    BY <2>1, CallInvStep DEF RunnerInv
<1>2. ASSUME acted' \in Nat, doubt' \in BOOLEAN, spurned' \in BOOLEAN PROVE RunnerTypes'
  BY <1>0, <1>2 DEF RunnerInv, RunnerTypes, TablesOf
<1>3. ErrorInv'
  BY <1>0 DEF ErrorInv
<1>4. ASSUME phase = "requested" PROVE acted = 0 \/ doubt \/ spurned
  BY <1>0, <1>4 DEF RunnerInv, SureInv
<1>5. ASSUME phase' # "requested", acted' <= 1 \/ via # "entry" PROVE EntryInv'
  BY <1>0, <1>5 DEF RunnerInv, EntryInv
<1>6. ASSUME phase = "requested", acted' \in Nat, acted' <= acted + 1
      PROVE  acted' <= 1 \/ via # "entry"
  BY <1>0, <1>6 DEF RunnerInv, EntryInv
<1>7. ASSUME NEW code \in Statuses, Answered(code), Sees(code) PROVE RunnerInv'
  <2> DEFINE maybe == IF code \in 200 .. 299 THEN {1} ELSE IF code >= 500 THEN {0, 1} ELSE {0}
             sure == code < 300
  <2>1. code \in Nat /\ phase = "requested" /\ phase' = "reporting" /\ status' = code
        /\ failure' = failure /\ outcome' = outcome
    BY <1>7 DEF Answered, Reported
  <2>2. failure' = "none" /\ outcome' = "none"
    BY <2>1 DEF RunnerInv, CallInv
  <2>3. /\ Acts(maybe, sure)
        /\ spurned' = (spurned \/ (via = "runner" /\ code \in 201 .. 299))
    BY <1>7 DEF Sees
  <2>4. maybe \in SUBSET {0, 1}
    OBVIOUS
  <2>5. /\ sure /\ 1 \in maybe /\ ~spurned' =>
              code \in 200 .. 299 /\ (via = "runner" => code = 200)
        /\ code \in 200 .. 299 => maybe = {1}
    <3>1. code \in 200 .. 299 => maybe = {1}
      OBVIOUS
    <3>2. sure /\ 1 \in maybe => code \in 200 .. 299
      BY <2>1
    <3>3. ~spurned' /\ via = "runner" => code \notin 201 .. 299
      BY <2>3
    <3> HIDE DEF maybe, sure
    <3> QED
      BY <2>1, <3>1, <3>2, <3>3
  <2> HIDE DEF maybe, sure
  <2>6. /\ acted' \in Nat /\ doubt' \in BOOLEAN /\ acted' <= acted + 1
        /\ maybe = {1} => acted' >= 1
        /\ acted' # 0 /\ ~doubt' /\ ~spurned => acted' = 1 /\ sure /\ 1 \in maybe
    BY <1>0, <1>4, <2>1, <2>3, <2>4, ActsOnce
  <2>8. spurned' \in BOOLEAN /\ (spurned => spurned')
    BY <1>0, <2>3
  <2>7. SureInv'
    BY <1>0, <2>1, <2>2, <2>5, <2>6, <2>8 DEF SureInv
  <2>9. StartInv'
    BY <1>0, <2>1, <2>5, <2>6 DEF RunnerInv, StartInv
  <2> QED
    BY <1>1, <1>2, <1>3, <1>5, <1>6, <2>1, <2>6, <2>7, <2>8, <2>9 DEF RunnerInv
<1>8. ASSUME TimesOut \/ Breaks, Acts({0, 1}, FALSE), UNCHANGED spurned PROVE RunnerInv'
  <2>1. phase = "requested" /\ phase' = "reporting" /\ status' = status
    BY <1>8 DEF TimesOut, Breaks, Reported
  <2>2. /\ acted' \in Nat /\ doubt' \in BOOLEAN /\ acted' <= acted + 1
        /\ acted' = 0 \/ doubt' \/ spurned'
    BY <1>0, <1>4, <1>8, <2>1, ActsOnce
  <2>3. SureInv'
    BY <2>2 DEF SureInv
  <2>4. StartInv'
    <3>1. status = 0
      BY <2>1 DEF RunnerInv, CallInv
    <3> QED
      BY <1>0, <2>1, <3>1 DEF RunnerInv, StartInv
  <2> QED
    BY <1>0, <1>1, <1>2, <1>3, <1>5, <1>6, <1>8, <2>1, <2>2, <2>3, <2>4 DEF RunnerInv
<1>9. ASSUME MetricsSettle \/ Decide \/ CallbackFails, UNCHANGED history PROVE RunnerInv'
  <2>1. /\ phase # "requested" /\ phase' # "requested"
        /\ UNCHANGED <<acted, doubt, spurned, status, failure>>
    BY <1>9 DEF MetricsSettle, Decide, CallbackFails, Reported, history
  <2>2. SureInv'
    <3>1. SUFFICES ASSUME acted' # 0, ~doubt', ~spurned' PROVE SureInv'
      BY DEF SureInv
    <3>2. /\ acted = 1 /\ failure = "none" /\ status \in 200 .. 299
          /\ outcome \in {"none", "returned"} /\ (via = "runner" => status = 200)
      BY <1>0, <2>1, <3>1 DEF RunnerInv, SureInv
    <3>3. Decision = "returned"
      BY <3>2, SuccessIsReturned DEF RunnerInv, CallInv
    <3>4. outcome' \in {"none", "returned"}
      BY <1>9, <3>2, <3>3 DEF MetricsSettle, Decide, CallbackFails
    <3> QED
      BY <1>0, <2>1, <3>2, <3>4 DEF SureInv
  <2>3. EntryInv'
    BY <1>0, <2>1 DEF RunnerInv, EntryInv
  <2>4. StartInv'
    BY <1>0, <2>1 DEF RunnerInv, StartInv
  <2> QED
    BY <1>0, <1>1, <1>2, <1>3, <2>1, <2>2, <2>3, <2>4 DEF RunnerInv
<1> QED
  BY <1>7, <1>8, <1>9 DEF Call

\* The end of a call: a success is passed on, or a plain error ends the message.
LEMMA SettleRunnerInv == ASSUME RunnerInv, Settle PROVE RunnerInv'
<1>1. /\ UNCHANGED <<phase, table, status, failure, metrics, outcome>>
      /\ UNCHANGED <<via, hop, maxHops, acted, doubt, spurned>>
      /\ place = "calling" /\ phase = "done"
  BY DEF Settle, history, callVars
<1>2. PICK e \in {Thrown} \cup (IF via = "entry" THEN {"other"} ELSE {}) :
        error' = e /\ place' = IF e = "none" THEN "passed" ELSE "thrown"
  BY DEF Settle
<1>3. via \in Ways /\ outcome \in {"other", "OnRepeat", "OnStopAndFail", "returned"}
  <2>1. Decision \in {"OnRepeat", "OnStopAndFail", "returned"}
    BY OutcomeValues DEF Decision
  <2> QED
    BY <1>1, <2>1 DEF RunnerInv, RunnerTypes, CallInv
<1>4. /\ via = "node" => e = IF outcome = "returned" THEN "none" ELSE outcome
      /\ via = "runner" => e = IF outcome = "returned" /\ status = 200 THEN "none" ELSE "OnRepeat"
      /\ via = "entry" => e \in {"none", "other"}
  BY <1>2, <1>3 DEF Thrown, Run, Entry, Ways
<1>5. CallInv'
  BY <1>1, SameCall DEF RunnerInv, callVars
<1>6. RunnerTypes'
  BY <1>1, <1>2, <1>3, <1>4 DEF RunnerInv, RunnerTypes, TablesOf, Ways
<1>7. ErrorInv'
  BY <1>1, <1>2, <1>3, <1>4 DEF ErrorInv
<1>8. SureInv'
  <2>1. SUFFICES ASSUME acted # 0, ~doubt, ~spurned PROVE SureInv'
    BY <1>1 DEF SureInv
  <2>2. /\ acted = 1 /\ failure = "none" /\ status \in 200 .. 299
        /\ outcome \in {"none", "returned"} /\ (via = "runner" => status = 200)
    BY <1>1, <2>1 DEF RunnerInv, SureInv
  <2>3. e \in {"none", "other"}
    BY <1>3, <1>4, <2>2 DEF Ways
  <2> QED
    BY <1>1, <1>2, <2>2, <2>3 DEF SureInv
<1>9. EntryInv'
  BY <1>1, <1>2, <1>4 DEF RunnerInv, EntryInv
<1>10. StartInv'
  BY <1>1, <1>2, <1>4 DEF RunnerInv, StartInv
<1> QED
  BY <1>5, <1>6, <1>7, <1>8, <1>9, <1>10 DEF RunnerInv

\* Another delivery: nothing the service is known to have done is repeated.
LEMMA RedeliverRunnerInv == ASSUME RunnerInv, Redeliver PROVE RunnerInv'
<1>1. via # "entry" /\ (acted = 0 \/ doubt \/ spurned) /\ hop \in Nat
  BY DEF Redeliver, RunnerInv, RunnerTypes, EntryInv, SureInv
<1>2. CallInv'
  BY DEF Redeliver, RunnerInv, CallInv
<1>3. RunnerTypes'
  <2>1. /\ table \in TablesOf(via) /\ UNCHANGED <<table, via>>
        /\ UNCHANGED <<error, maxHops, acted, doubt, spurned>>
        /\ place' = "delivered" /\ hop' = hop + 1
    BY DEF Redeliver, RunnerInv, RunnerTypes, history
  <2>2. table' \in TablesOf(via)'
    BY <2>1 DEF TablesOf
  <2> QED
    BY <1>1, <2>1, <2>2 DEF RunnerInv, RunnerTypes
<1> QED
  BY <1>1, <1>2, <1>3 DEF Redeliver, RunnerInv, ErrorInv, SureInv, EntryInv, StartInv, history

LEMMA NextRunnerInv == ASSUME RunnerInv, [RunnerNext]_runnerVars PROVE RunnerInv'
<1>1. CASE UNCHANGED runnerVars
  <2>1. UNCHANGED callVars /\ UNCHANGED <<via, place, error, hop, maxHops, acted, doubt, spurned>>
    BY <1>1 DEF runnerVars, message, history
  <2>2. CallInv'
    BY <2>1, SameCall DEF RunnerInv
  <2>3. RunnerTypes'
    BY <2>1 DEF RunnerInv, RunnerTypes, TablesOf, callVars
  <2>4. ErrorInv' /\ SureInv' /\ EntryInv' /\ StartInv'
    BY <2>1 DEF RunnerInv, ErrorInv, SureInv, EntryInv, StartInv, callVars
  <2> QED
    BY <2>2, <2>3, <2>4 DEF RunnerInv
<1> QED
  BY <1>1, MessageStep, CallRunnerInv, SettleRunnerInv, RedeliverRunnerInv DEF RunnerNext

-----------------------------------------------------------------------------
(* What becomes of a call *)

\* The inductive invariant of calls and messages.
THEOREM RunnerInvariance == RunnerSpec => []RunnerInv
BY InitRunnerInv, NextRunnerInv, PTL DEF RunnerSpec

\* No status is named by two lists of a shipped table, or by none, but for the end
\* of keepAll.
THEOREM ListsPartition == RunnerSpec => []TablesPartition
<1>1. RunnerInv => TablesPartition
  BY CallInvImplies DEF RunnerInv
<1> QED
  BY <1>1, RunnerInvariance, PTL

\* With the default table every code but 429 has the outcome its comment gives it.
THEOREM DocumentedButOne == RunnerSpec => []DecidesAsDocumented
<1>1. RunnerInv => DecidesAsDocumented
  BY CallInvImplies DEF RunnerInv
<1> QED
  BY <1>1, RunnerInvariance, PTL

\* The metrics hear of the status first, and of nothing else but a failing callback.
THEOREM StatusReported == RunnerSpec => []StatusIsReported
<1>1. RunnerInv => StatusIsReported
  BY CallInvImplies DEF RunnerInv
<1> QED
  BY <1>1, RunnerInvariance, PTL

\* What a service did it does not do a second time, unless its answer was lost,
\* told of a failure or was a success run() does not take for one.
THEOREM SuccessIsNotRepeated == RunnerSpec => NoSecondStart
<1> DEFINE Allowed == acted' > acted => acted = 0 \/ doubt \/ spurned
<1>1. RunnerInv /\ [RunnerNext]_runnerVars => [Allowed]_runnerVars
  <2> SUFFICES ASSUME RunnerInv, RunnerNext, acted' > acted
               PROVE  acted = 0 \/ doubt \/ spurned
    OBVIOUS
  <2>1. acted \in Nat
    BY DEF RunnerInv, RunnerTypes
  <2>2. acted' # acted
    BY <2>1
  <2>3. Call /\ phase = "requested" /\ place = "calling"
    BY <2>2 DEF RunnerNext, StartCall, Call, Settle, Answer, Repeating, Repeat,
       RepeatFails, Redeliver, UsedUp, history, Answered, TimesOut, Breaks
  <2> QED
    BY <2>3 DEF RunnerInv, SureInv
<1> QED
  BY <1>1, RunnerInvariance, PTL DEF RunnerSpec, NoSecondStart

\* A start of a topology ends passed on with a 200, or after its last repeat, or
\* without repeat settings, and then no 200 told that the topology was started.
THEOREM StartsEnd == RunnerSpec => []StartIsAccountedFor
<1>1. RunnerInv => StartIsAccountedFor
  <2> SUFFICES ASSUME RunnerInv, via = "runner", place \in Ends
               PROVE  IF place = "passed" THEN status = 200 /\ acted >= 1
                      ELSE /\ \/ place = "unset"
                              \/ place = "usedUp" /\ hop >= maxHops /\ hop >= 1
                           /\ acted = 0 \/ doubt \/ spurned
    BY DEF StartIsAccountedFor
  <2>1. CASE place = "passed"
    BY <2>1 DEF RunnerInv, StartInv
  <2>2. CASE place = "stopped"
    BY <2>2 DEF RunnerInv, ErrorInv
  <2>3. CASE place \in {"unset", "usedUp"}
    <3>1. acted = 0 \/ doubt \/ spurned
      BY <2>3 DEF RunnerInv, SureInv
    <3>2. place = "usedUp" => hop >= maxHops /\ hop >= 1
      BY DEF RunnerInv, RunnerTypes, StartInv
    <3> QED
      BY <2>3, <3>1, <3>2
  <2> QED
    BY <2>1, <2>2, <2>3 DEF Ends
<1> QED
  BY <1>1, RunnerInvariance, PTL

\* What entry() makes of a failure is never repeated.
THEOREM EntryAsksOnce == RunnerSpec => []EntryIsOneShot
<1>1. RunnerInv => EntryIsOneShot
  BY DEF RunnerInv, EntryInv, EntryIsOneShot
<1> QED
  BY <1>1, RunnerInvariance, PTL
=============================================================================
