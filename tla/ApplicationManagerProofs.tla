---------------------- MODULE ApplicationManagerProofs ----------------------
(***************************************************************************)
(* Proofs about ApplicationManager for any number of calls.                *)
(***************************************************************************)
EXTENDS ApplicationManager, TLAPS

USE DocumentAssumption, ManagerAssumption DEF DocumentAssumption, ManagerAssumption

-----------------------------------------------------------------------------
(* Documents *)

LEMMA NoSettingsType == NoSettings \in Settings
BY DEF NoSettings, Settings

\* Encryption leaves no plain settings behind, decryption no sealed ones.
LEMMA SendAndReceive ==
    ASSUME NEW doc \in Documents
    PROVE  /\ BeforeSend(doc) \in Documents /\ BeforeSend(doc).plain = NoSettings
           /\ AfterReceive(doc) \in Documents /\ AfterReceive(doc).sealed = NoSettings
BY NoSettingsType DEF BeforeSend, AfterReceive, Documents

\* What is sent of an open document is what will be received.
LEMMA SentIsReceived ==
    ASSUME NEW doc \in Documents, doc.sealed = NoSettings
    PROVE  AfterReceive(BeforeSend(doc)) = doc
BY NoSettingsType DEF BeforeSend, AfterReceive, Documents

\* What an update does to a document.
LEMMA ChangedFields ==
    ASSUME NEW doc \in Documents, NEW o \in Updates, NEW w \in Ids
    PROVE  /\ Changed(doc, o, w) \in Documents
           /\ Changed(doc, o, w).sealed = doc.sealed
           /\ \A f \in Sets(o) : Changed(doc, o, w).plain[f] = w
           /\ \A f \in Clears(o) : Changed(doc, o, w).plain[f] = NoValue
           /\ \A f \in Fields \ (Sets(o) \cup Clears(o)) : Changed(doc, o, w).plain[f] = doc.plain[f]
<1> DEFINE new == Changed(doc, o, w)
<1>0. doc.plain \in [Fields -> Ids \cup {NoValue}] /\ Fields = {"form", "password", "token", "redirect"}
  BY DEF Documents, Settings, Fields
<1>1. CASE o = "settings"
  <2>1. new = [doc EXCEPT !.plain = [@ EXCEPT !["form"] = w, !["redirect"] = NoValue]]
    BY <1>1 DEF Changed, SaveApplicationForms
  <2>2. Sets(o) = {"form"} /\ Clears(o) = {"redirect"}
    BY <1>1 DEF Sets, Clears, Fields
  <2> HIDE DEF new
  <2>3. new.plain = [doc.plain EXCEPT !["form"] = w, !["redirect"] = NoValue]
    BY <2>1 DEF Documents
  <2>4. new.plain \in Settings
    BY <2>3, <1>0 DEF Settings
  <2>5. new \in Documents /\ new.sealed = doc.sealed /\ new.enabled = doc.enabled
    BY <2>1, <2>4, <2>3 DEF Documents
  <2>6. \A f \in Fields : new.plain[f] = IF f = "form" THEN w ELSE IF f = "redirect" THEN NoValue ELSE doc.plain[f]
    BY <2>3, <1>0
  <2>7. \A f \in Sets(o) : new.plain[f] = w
    BY <2>2, <2>6, <1>0
  <2>8. \A f \in Clears(o) : new.plain[f] = NoValue
    BY <2>2, <2>6, <1>0
  <2>9. \A f \in Fields \ (Sets(o) \cup Clears(o)) : new.plain[f] = doc.plain[f]
    BY <2>2, <2>6
  <2> QED
    BY <2>5, <2>7, <2>8, <2>9 DEF new
<1>2. ASSUME NEW field \in Fields, Sets(o) = {field}, Clears(o) = {}, o \notin {"enable", "disable"},
             new = AddSettings(doc, field, w)
      PROVE  /\ new \in Documents /\ new.sealed = doc.sealed /\ new.enabled = doc.enabled
             /\ \A f \in Sets(o) : new.plain[f] = w
             /\ \A f \in Clears(o) : new.plain[f] = NoValue
             /\ \A f \in Fields \ (Sets(o) \cup Clears(o)) : new.plain[f] = doc.plain[f]
  <2> HIDE DEF new
  <2>1. new = [doc EXCEPT !.plain = [@ EXCEPT ![field] = w]]
    BY <1>2 DEF AddSettings
  <2>2. new.plain = [doc.plain EXCEPT ![field] = w]
    BY <2>1 DEF Documents
  <2>3. new.plain \in Settings
    BY <2>2, <1>0 DEF Settings
  <2>4. new \in Documents /\ new.sealed = doc.sealed /\ new.enabled = doc.enabled
    BY <2>1, <2>2, <2>3 DEF Documents
  <2>5. \A f \in Fields : new.plain[f] = IF f = field THEN w ELSE doc.plain[f]
    BY <2>2, <1>0
  <2> QED
    BY <2>4, <2>5, <1>2
<1>3. CASE o = "password"
  BY <1>3, <1>2, <1>0 DEF Changed, SavePassword, Sets, Clears
<1>4. CASE o = "authorize"
  BY <1>4, <1>2, <1>0 DEF Changed, SetFrontendRedirectUrl, Sets, Clears
<1>5. CASE o = "token"
  BY <1>5, <1>2, <1>0 DEF Changed, SetAuthorizationToken, Sets, Clears
<1>6. CASE o = "refresh"
  BY <1>6, <1>2, <1>0 DEF Changed, RefreshAuthorization, Sets, Clears
<1>7. CASE o = "enable"
  BY <1>7 DEF Changed, SetEnabled, Sets, Clears, Documents
<1>8. CASE o = "disable"
  BY <1>8 DEF Changed, SetEnabled, Sets, Clears, Documents
<1> QED
  BY <1>1, <1>3, <1>4, <1>5, <1>6, <1>7, <1>8 DEF Updates

LEMMA ChangedEnabled ==
    ASSUME NEW doc \in Documents, NEW o \in Updates, NEW w \in Ids
    PROVE  Changed(doc, o, w).enabled = IF o \in {"enable", "disable"} THEN (o = "enable") ELSE doc.enabled
<1>1. CASE o \in {"enable", "disable"}
  <2>1. Changed(doc, o, w) = [doc EXCEPT !.enabled = (o = "enable")]
    BY <1>1 DEF Changed, SetEnabled
  <2> QED
    BY <2>1, <1>1 DEF Documents
<1>2. CASE o \notin {"enable", "disable"}
  <2>1. Changed(doc, o, w).enabled = doc.enabled
    BY <1>2 DEF Changed, SaveApplicationForms, SavePassword, SetFrontendRedirectUrl, SetAuthorizationToken,
                RefreshAuthorization, AddSettings, Updates, Documents
  <2> QED
    BY <2>1, <1>2
<1> QED
  BY <1>1, <1>2

-----------------------------------------------------------------------------
(* Types *)

\* An open install, and one that is on its way to the worker-api
IsOpen(i) == i \in Installs /\ i.doc.sealed = NoSettings
IsClosed(i) == i \in Installs /\ i.doc.plain = NoSettings

\* What a call holds at each place
Entities ==
    \A c \in Callers :
        /\ pc[c] = "found" => entity[c] = Absent \/ IsClosed(entity[c])
        /\ pc[c] = "absent" => op[c] = "install"
        /\ pc[c] = "loaded" => entity[c] = Absent \/ IsOpen(entity[c])
        /\ pc[c] = "provider" => IsOpen(entity[c])
        /\ pc[c] \in {"send", "sent", "unsent", "kept"} =>
              /\ op[c] \in Updates \cup {"install", "uninstall"}
              /\ entity[c] \in Installs
              /\ op[c] # "uninstall" => IsClosed(entity[c])

TypeInv == TypeOK /\ Entities

\* Loading and closing an install
LEMMA OpenedType ==
    ASSUME NEW i \in Installs
    PROVE  IsOpen(Opened(i)) /\ Opened(i).id = i.id /\ Opened(i).doc = AfterReceive(i.doc)
<1>1. i.doc \in Documents /\ i.id \in Ids
  BY DEF Installs
<1>2. AfterReceive(i.doc) \in Documents /\ AfterReceive(i.doc).sealed = NoSettings
  BY <1>1, SendAndReceive
<1> QED
  BY <1>1, <1>2 DEF Opened, IsOpen, Installs

LEMMA ClosedType ==
    ASSUME NEW i \in Installs, NEW doc \in Documents
    PROVE  LET j == [id |-> i.id, doc |-> BeforeSend(doc)] IN
              IsClosed(j) /\ j.id = i.id /\ j.doc = BeforeSend(doc)
<1>1. BeforeSend(doc) \in Documents /\ BeforeSend(doc).plain = NoSettings
  BY SendAndReceive
<1> HIDE DEF BeforeSend
<1> QED
  BY <1>1 DEF Installs, IsClosed

LEMMA NewDocumentType ==
    NewDocument \in Documents /\ NewDocument.plain = NoSettings /\ NewDocument.sealed = NoSettings
BY NoSettingsType DEF NewDocument, Documents

LEMMA EffectType ==
    ASSUME NEW e \in Expectations, NEW o \in Operations, NEW w \in Ids
    PROVE  Effect(e, o, w) \in Expectations /\ Blurred(e, o) \in Expectations
<1>1. e.enabled \in BOOLEAN \cup {Unknown} /\ e.plain \in [Fields -> Ids \cup {NoValue, Unknown}]
  BY DEF Expectations
<1>2. Effect(e, o, w).plain \in [Fields -> Ids \cup {NoValue, Unknown}]
  BY <1>1 DEF Effect
<1>3. Effect(e, o, w) \in Expectations
  BY <1>1, <1>2 DEF Effect, Expectations
<1>4. Blurred(e, o).plain \in [Fields -> Ids \cup {NoValue, Unknown}]
  BY <1>1 DEF Blurred
<1>5. Blurred(e, o) \in Expectations
  BY <1>1, <1>4 DEF Blurred, Expectations
<1> QED
  BY <1>3, <1>5

\* The expectation after a call is one.
LEMMA OutcomeType ==
    ASSUME TypeOK, NEW c \in Callers, NEW e \in Expectations \cup {Absent, Unknown}, NEW certain \in BOOLEAN
    PROVE  Outcome(c, e, certain) \in Expectations \cup {Absent, Unknown}
<1>1. NewDocument \in Expectations
  BY NoSettingsType DEF NewDocument, Expectations, Settings
<1>2. c \in Ids /\ op[c] \in Operations
  BY DEF TypeOK, Callers
<1>3. e \in Expectations => Effect(e, op[c], c) \in Expectations /\ Blurred(e, op[c]) \in Expectations
  BY <1>2, EffectType
<1> QED
  BY <1>1, <1>3 DEF Outcome

LEMMA ExpectType ==
    ASSUME TypeOK, NEW c \in Callers, entity[c] \in Installs, NEW certain \in BOOLEAN, Expect(c, certain)
    PROVE  /\ expected' \in [Ids -> Expectations \cup {Absent, Unknown}]
           /\ expected' = [expected EXCEPT ![entity[c].id] = Outcome(c, expected[entity[c].id], certain)]
<1>1. expected' = [expected EXCEPT ![entity[c].id] = Outcome(c, expected[entity[c].id], certain)]
  BY DEF Expect
<1>2. entity[c].id \in Ids /\ expected[entity[c].id] \in Expectations \cup {Absent, Unknown}
  BY DEF Installs, TypeOK
<1>3. Outcome(c, expected[entity[c].id], certain) \in Expectations \cup {Absent, Unknown}
  BY <1>2, OutcomeType
<1> QED
  BY <1>1, <1>2, <1>3 DEF TypeOK

THEOREM TypeInit == Init => TypeInv
<1> SUFFICES ASSUME Init PROVE TypeInv
  OBVIOUS
<1>1. PICK first \in {Absent} \cup
          [enabled : BOOLEAN, plain : {NoSettings}, sealed : {[f \in Fields |-> Original]}] :
              stored = [d \in Ids |-> IF d = Original THEN first ELSE Absent]
  BY DEF Init
<1>2. first = Absent \/ (first \in Documents /\ first.plain = NoSettings)
  BY NoSettingsType DEF Documents, Settings
<1>3. stored \in [Ids -> Documents \cup {Absent}] /\ \A d \in Ids : stored[d] # Absent => stored[d].plain = NoSettings
  BY <1>1, <1>2
<1>4. ASSUME NEW doc \in Documents, doc.plain = NoSettings
      PROVE  AfterReceive(doc) \in Expectations
  BY <1>4, SendAndReceive DEF Documents, Settings, Expectations
<1>5. expected \in [Ids -> Expectations \cup {Absent, Unknown}]
  BY <1>3, <1>4 DEF Init
<1>6. pc \in [Callers -> Places] /\ op \in [Callers -> Operations]
  BY DEF Init, Places, Operations
<1>7. TypeOK
  BY <1>3, <1>5, <1>6 DEF Init, TypeOK
<1> QED
  BY <1>7 DEF Init, TypeInv, Entities

\* A step that changes only where one call is and what it holds
LEMMA LocalTypes ==
    ASSUME TypeInv, NEW c \in Callers, NEW place \in Places, Goto(c, place),
           NEW i \in Installs \cup {Absent}, entity' = [entity EXCEPT ![c] = i],
           UNCHANGED <<stored, cache, op, history>>,
           place = "found" => i = Absent \/ IsClosed(i),
           place = "absent" => op[c] = "install",
           place = "loaded" => i = Absent \/ IsOpen(i),
           place = "provider" => IsOpen(i),
           place \in {"send", "sent", "unsent", "kept"} =>
              /\ op[c] \in Updates \cup {"install", "uninstall"}
              /\ i \in Installs
              /\ op[c] # "uninstall" => IsClosed(i)
    PROVE  TypeInv'
<1>1. pc' \in [Callers -> Places] /\ pc'[c] = place /\ \A b \in Callers \ {c} : pc'[b] = pc[b]
  BY DEF TypeInv, TypeOK, Goto
<1>2. entity' \in [Callers -> Installs \cup {Absent}] /\ entity'[c] = i /\ \A b \in Callers \ {c} : entity'[b] = entity[b]
  BY DEF TypeInv, TypeOK
<1>3. TypeOK'
  BY <1>1, <1>2 DEF TypeInv, TypeOK, history
<1>4. Entities'
  BY <1>1, <1>2 DEF TypeInv, Entities, IsOpen, IsClosed
<1> QED
  BY <1>3, <1>4 DEF TypeInv

THEOREM TypeStep == TypeInv /\ [Next]_vars => TypeInv'
<1> SUFFICES ASSUME TypeInv, [Next]_vars PROVE TypeInv'
  OBVIOUS
<1> USE DEF TypeInv
<1>0. CASE UNCHANGED vars
  BY <1>0 DEF vars, history, TypeOK, Entities
<1>1. ASSUME NEW c \in Callers, NEW o \in Operations, Begin(c, o)
      PROVE  TypeInv'
  <2>0. Query(o) \in Queries
    BY DEF Query, Queries
  <2>1. op' \in [Callers -> Operations] /\ op'[c] = o /\ \A b \in Callers \ {c} : op'[b] = op[b]
    BY <1>1 DEF Begin, TypeOK
  <2>2. /\ missed' \in [Callers -> BOOLEAN] /\ overlapped' \in BOOLEAN
        /\ expected' \in [Ids -> Expectations \cup {Absent, Unknown}]
        /\ UNCHANGED <<stored, cache, sent>>
    BY <1>1 DEF Begin, TypeOK
  <2>3. PICK place \in {"find", "loaded"}, i \in Installs \cup {Absent} :
           /\ pc' = [pc EXCEPT ![c] = place] /\ entity' = [entity EXCEPT ![c] = i]
           /\ place = "loaded" => i = Absent \/ IsOpen(i)
    <3>1. CASE cache[Query(o)] = Uncached
      BY <1>1, <3>1 DEF Begin, Goto, TypeOK
    <3>2. CASE cache[Query(o)] # Uncached
      <4>1. cache[Query(o)] \in Installs \cup {Absent}
        BY <2>0, <3>2 DEF TypeOK
      <4>2. cache[Query(o)] = Absent \/ IsOpen(cache[Query(o)])
        BY <4>1, <2>0 DEF TypeOK, IsOpen
      <4> QED
        BY <1>1, <3>2, <4>1, <4>2 DEF Begin, Goto
    <3> QED
      BY <3>1, <3>2
  <2>4. pc' \in [Callers -> Places] /\ pc'[c] = place /\ \A b \in Callers \ {c} : pc'[b] = pc[b]
    BY <2>3 DEF TypeOK, Places
  <2>5. entity' \in [Callers -> Installs \cup {Absent}] /\ entity'[c] = i /\ \A b \in Callers \ {c} : entity'[b] = entity[b]
    BY <2>3 DEF TypeOK
  <2>6. TypeOK'
    BY <2>1, <2>2, <2>4, <2>5 DEF TypeOK
  <2>7. Entities'
    BY <2>1, <2>3, <2>4, <2>5 DEF Entities, IsOpen, IsClosed
  <2> QED
    BY <2>6, <2>7
<1>2. ASSUME NEW c \in Callers, Find(c)
      PROVE  TypeInv'
  <2>1. PICK i : /\ i = Absent \/ (\E d \in Ids : stored[d] # Absent /\ i = [id |-> d, doc |-> stored[d]])
                 /\ entity' = [entity EXCEPT ![c] = i]
    BY <1>2 DEF Find, Matching
  <2>2. i = Absent \/ IsClosed(i)
    BY <2>1 DEF TypeOK, IsClosed, Installs
  <2> QED
    BY <1>2, <2>1, <2>2, LocalTypes DEF Find, IsClosed, Places
<1>3. ASSUME NEW c \in Callers, Receive(c)
      PROVE  TypeInv'
  <2> DEFINE i == IF entity[c] = Absent THEN Absent ELSE Opened(entity[c])
  <2>0. Query(op[c]) \in Queries
    BY DEF Query, Queries
  <2>1. entity[c] # Absent => IsOpen(Opened(entity[c]))
    BY OpenedType DEF TypeOK
  <2>2. i = Absent \/ IsOpen(i)
    BY <2>1
  <2>3. entity' = [entity EXCEPT ![c] = i]
    BY <1>3 DEF Receive, TypeOK
  <2>4. /\ cache' \in [Queries -> Installs \cup {Absent, Uncached}]
        /\ \A q \in Queries : cache'[q] \in Installs => cache'[q].doc.sealed = NoSettings
    <3>1. CASE entity[c] = Absent
      BY <1>3, <3>1 DEF Receive, TypeOK
    <3>2. CASE entity[c] # Absent
      <4>1. cache' = [cache EXCEPT ![Query(op[c])] = Opened(entity[c])]
        BY <1>3, <3>2 DEF Receive, TypeOK
      <4> QED
        BY <4>1, <2>1, <3>2, <2>0 DEF TypeOK, IsOpen
    <3> QED
      BY <3>1, <3>2
  <2> HIDE DEF i
  <2>5. pc' = [pc EXCEPT ![c] = "loaded"] /\ UNCHANGED <<stored, op, history>>
    BY <1>3 DEF Receive, Goto
  <2>6. pc' \in [Callers -> Places] /\ pc'[c] = "loaded" /\ \A b \in Callers \ {c} : pc'[b] = pc[b]
    BY <2>5 DEF TypeOK, Places
  <2>7. entity' \in [Callers -> Installs \cup {Absent}] /\ entity'[c] = i /\ \A b \in Callers \ {c} : entity'[b] = entity[b]
    BY <2>2, <2>3 DEF TypeOK, IsOpen
  <2>8. TypeOK'
    BY <2>4, <2>5, <2>6, <2>7 DEF TypeOK, history
  <2>9. Entities'
    BY <2>2, <2>5, <2>6, <2>7 DEF Entities, IsOpen, IsClosed
  <2> QED
    BY <2>8, <2>9
<1>4. ASSUME NEW c \in Callers,
             FindFails(c) \/ NotFound(c) \/ RefuseInstall(c) \/ Insert(c) \/ Show(c) \/ AskProvider(c)
             \/ ProviderFails(c) \/ Change(c) \/ Uninstall(c) \/ SendAgain(c) \/ GiveUp(c) \/ Refuse(c)
      PROVE  TypeInv'
  <2>0. entity[c] \in Installs \cup {Absent} /\ entity = [entity EXCEPT ![c] = entity[c]] /\ c \in Ids
    BY DEF TypeOK, Callers
  <2>1. ASSUME End(c), UNCHANGED <<stored, cache, op, history>>
        PROVE  TypeInv'
    BY <2>1, LocalTypes DEF End, Places
  <2>2. CASE FindFails(c)
    <3>1. CASE op[c] = "install"
      BY <2>2, <3>1, <2>0, LocalTypes DEF FindFails, Places
    <3> QED
      BY <2>2, <3>1, <2>1 DEF FindFails
  <2>3. CASE NotFound(c)
    BY <2>3, <2>0, LocalTypes DEF NotFound, Places
  <2>4. CASE RefuseInstall(c) \/ Show(c) \/ ProviderFails(c) \/ GiveUp(c)
    BY <2>4, <2>1 DEF RefuseInstall, Show, ProviderFails, GiveUp
  <2>5. CASE Insert(c)
    <3>1. IsClosed([id |-> c, doc |-> BeforeSend(NewDocument)])
      BY <2>0, NewDocumentType, SendAndReceive DEF IsClosed, Installs
    <3> QED
      BY <2>5, <3>1, LocalTypes DEF Insert, Entities, IsClosed, Places
  <2>6. CASE AskProvider(c)
    BY <2>6, <2>0, LocalTypes DEF AskProvider, Loaded, Entities, Places
  <2>7. CASE Change(c)
    <3>1. IsOpen(entity[c]) /\ op[c] \in Updates
      BY <2>7 DEF Change, Ready, Loaded, Entities, Updates
    <3>2. Changed(entity[c].doc, op[c], c) \in Documents
      BY <3>1, <2>0, ChangedFields DEF IsOpen, Installs
    <3> DEFINE i == [id |-> entity[c].id, doc |-> BeforeSend(Changed(entity[c].doc, op[c], c))]
    <3>3. IsClosed(i)
      BY <3>1, <3>2, ClosedType DEF IsOpen
    <3>4. entity' = [entity EXCEPT ![c] = i]
      BY <2>7 DEF Change
    <3> HIDE DEF i
    <3> QED
      BY <2>7, <3>1, <3>3, <3>4, LocalTypes DEF Change, IsClosed, Places
  <2>8. CASE Uninstall(c)
    BY <2>8, <2>0, LocalTypes DEF Uninstall, Loaded, Places
  <2>9. CASE SendAgain(c)
    <3>1. entity[c] \in Installs /\ op[c] \in Updates \cup {"install", "uninstall"}
      BY <2>9 DEF SendAgain, Entities
    <3>2. entity[c].doc \in Documents
      BY <3>1 DEF Installs
    <3> DEFINE i == [id |-> entity[c].id, doc |-> BeforeSend(entity[c].doc)]
    <3>3. IsClosed(i)
      BY <3>1, <3>2, ClosedType
    <3>4. entity' = [entity EXCEPT ![c] = i]
      BY <2>9 DEF SendAgain
    <3> HIDE DEF i
    <3> QED
      BY <2>9, <3>1, <3>3, <3>4, LocalTypes DEF SendAgain, IsClosed, Places
  <2>10. CASE Refuse(c)
    BY <2>10, <2>0, LocalTypes DEF Refuse, Entities, Places
  <2> QED
    BY <1>4, <2>2, <2>3, <2>4, <2>5, <2>6, <2>7, <2>8, <2>9, <2>10
<1>5. ASSUME NEW c \in Callers, Handle(c)
      PROVE  TypeInv'
  <2>1. entity[c] \in Installs /\ (op[c] # "uninstall" => IsClosed(entity[c]))
    BY <1>5 DEF Handle, Entities
  <2> DEFINE new == IF op[c] = "uninstall" THEN Absent ELSE entity[c].doc
  <2>2. new \in Documents \cup {Absent} /\ (new # Absent => new.plain = NoSettings)
    BY <2>1 DEF IsClosed, Installs
  <2>3. stored' = [stored EXCEPT ![entity[c].id] = new] /\ entity[c].id \in Ids
    BY <1>5, <2>1 DEF Handle, Installs
  <2> HIDE DEF new
  <2>4. stored' \in [Ids -> Documents \cup {Absent}] /\ \A d \in Ids : stored'[d] # Absent => stored'[d].plain = NoSettings
    BY <2>2, <2>3 DEF TypeOK
  <2>5. pc' \in [Callers -> Places] /\ pc'[c] = "sent" /\ pc[c] = "send" /\ \A b \in Callers \ {c} : pc'[b] = pc[b]
    BY <1>5 DEF Handle, Goto, TypeOK, Places
  <2>6. missed' \in [Callers -> BOOLEAN] /\ sent' \subseteq Callers /\ UNCHANGED <<cache, op, entity, overlapped, expected>>
    BY <1>5 DEF Handle, TypeOK, Running
  <2>7. TypeOK'
    BY <2>4, <2>5, <2>6 DEF TypeOK
  <2>8. Entities'
    BY <2>5, <2>6 DEF Entities, IsOpen, IsClosed
  <2> QED
    BY <2>7, <2>8
<1>6. ASSUME NEW c \in Callers, Finish(c) \/ SendFails(c)
      PROVE  TypeInv'
  <2>1. entity[c] \in Installs /\ pc[c] \in {"send", "sent", "unsent"}
    BY <1>6 DEF Finish, SendFails, Entities
  <2>2. PICK certain \in BOOLEAN : Expect(c, certain)
    BY <1>6 DEF Finish, SendFails
  <2>3. expected' \in [Ids -> Expectations \cup {Absent, Unknown}]
    BY <2>1, <2>2, ExpectType
  <2>4. /\ cache' \in [Queries -> Installs \cup {Absent, Uncached}]
        /\ \A q \in Queries : cache'[q] \in Installs => cache'[q].doc.sealed = NoSettings
    BY <1>6 DEF Finish, SendFails, TypeOK
  <2>5. PICK place \in {"kept", "ended"}, i \in Installs \cup {Absent} :
           /\ pc' = [pc EXCEPT ![c] = place] /\ entity' = [entity EXCEPT ![c] = i]
           /\ place = "kept" => i = entity[c]
    BY <1>6, <2>1 DEF Finish, SendFails, End, Goto, TypeOK
  <2>6. pc' \in [Callers -> Places] /\ pc'[c] = place /\ \A b \in Callers \ {c} : pc'[b] = pc[b]
    BY <2>5 DEF TypeOK, Places
  <2>7. entity' \in [Callers -> Installs \cup {Absent}] /\ entity'[c] = i /\ \A b \in Callers \ {c} : entity'[b] = entity[b]
    BY <2>5 DEF TypeOK
  <2>8. UNCHANGED <<stored, op, missed, sent, overlapped>>
    BY <1>6 DEF Finish, SendFails
  <2>9. TypeOK'
    BY <2>3, <2>4, <2>6, <2>7, <2>8 DEF TypeOK
  <2>10. Entities'
    BY <2>1, <2>5, <2>6, <2>7, <2>8 DEF Entities, IsOpen, IsClosed
  <2> QED
    BY <2>9, <2>10
<1>7. ASSUME NEW q \in Queries, Expire(q)
      PROVE  TypeInv'
  <2>1. /\ cache' \in [Queries -> Installs \cup {Absent, Uncached}]
        /\ \A r \in Queries : cache'[r] \in Installs => cache'[r].doc.sealed = NoSettings
    BY <1>7 DEF Expire, TypeOK
  <2> QED
    BY <1>7, <2>1 DEF Expire, TypeOK, Entities, history
<1> QED
  BY <1>0, <1>1, <1>2, <1>3, <1>4, <1>5, <1>6, <1>7 DEF Next

\* TypeOK of ApplicationManager: every reachable state is type-correct, what
\* the worker-api stores is encrypted, and what is cached is not.
THEOREM TypeCorrect == Spec => []TypeOK
<1>1. TypeInv => TypeOK
  BY DEF TypeInv
<1> QED
  BY <1>1, TypeInit, TypeStep, PTL DEF Spec

-----------------------------------------------------------------------------
(* Nothing is reported missing that was there all the time *)

\* An empty answer means that nothing matched when it was given.
Misses ==
    /\ \A q \in Queries : cache[q] # Absent
    /\ \A c \in Callers : pc[c] = "find" /\ Matching(Query(op[c]), stored) = {} => missed[c]
    /\ \A c \in Callers : pc[c] \in {"found", "loaded"} /\ entity[c] = Absent => missed[c]
    /\ MissIsFresh

\* A call that leaves the store and the cache alone, and does not search
LEMMA LocalMisses ==
    ASSUME TypeInv, Misses, NEW c \in Callers, pc' = [pc EXCEPT ![c] = pc'[c]],
           pc'[c] \notin {"find", "found", "loaded", "missing"},
           \A b \in Callers \ {c} : entity'[b] = entity[b],
           \A q \in Queries : cache'[q] # Absent,
           UNCHANGED <<stored, op, missed>>
    PROVE  Misses'
<1>1. \A b \in Callers \ {c} : pc'[b] = pc[b]
  BY DEF TypeInv, TypeOK
<1> QED
  BY <1>1 DEF Misses, MissIsFresh, Matching

LEMMA MissesStep == TypeInv /\ Misses /\ [Next]_vars => Misses'
<1> SUFFICES ASSUME TypeInv, Misses, [Next]_vars PROVE Misses'
  OBVIOUS
<1> USE DEF TypeInv
<1>0. CASE UNCHANGED vars
  BY <1>0 DEF vars, history, Misses, MissIsFresh, Matching
<1>1. ASSUME NEW c \in Callers, NEW o \in Operations, Begin(c, o)
      PROVE  Misses'
  <2>0. Query(o) \in Queries
    BY DEF Query, Queries
  <2>1. /\ op'[c] = o /\ missed'[c] = (Matching(Query(o), stored) = {})
        /\ \A b \in Callers \ {c} : op'[b] = op[b] /\ missed'[b] = missed[b] /\ pc'[b] = pc[b] /\ entity'[b] = entity[b]
        /\ UNCHANGED <<stored, cache>>
    BY <1>1 DEF Begin, Goto, TypeOK
  <2>2. pc'[c] = "find" \/ (pc'[c] = "loaded" /\ entity'[c] = cache[Query(o)])
    BY <1>1 DEF Begin, Goto, TypeOK
  <2>3. ASSUME NEW b \in Callers \ {c}
        PROVE  /\ pc'[b] = "find" /\ Matching(Query(op'[b]), stored') = {} => missed'[b]
               /\ pc'[b] \in {"found", "loaded"} /\ entity'[b] = Absent => missed'[b]
               /\ pc'[b] = "missing" => missed'[b]
    BY <2>1 DEF Misses, MissIsFresh
  <2>4. /\ pc'[c] = "find" /\ Matching(Query(op'[c]), stored') = {} => missed'[c]
        /\ ~(pc'[c] \in {"found", "loaded"} /\ entity'[c] = Absent)
        /\ pc'[c] # "missing"
    BY <2>0, <2>1, <2>2 DEF Misses
  <2> QED
    BY <2>1, <2>3, <2>4 DEF Misses, MissIsFresh
<1>2. ASSUME NEW c \in Callers, Find(c)
      PROVE  Misses'
  <2>1. Matching(Query(op[c]), stored) # {} => entity'[c] # Absent
    <3>1. ASSUME NEW d \in Ids, stored[d] # Absent
          PROVE  [id |-> d, doc |-> stored[d]] # Absent
      BY <3>1 DEF TypeOK, Installs
    <3> QED
      BY <1>2, <3>1 DEF Find, Matching, TypeOK
  <2>2. /\ pc'[c] = "found" /\ pc[c] = "find" /\ UNCHANGED <<stored, cache, op, missed>>
        /\ \A b \in Callers \ {c} : pc'[b] = pc[b] /\ entity'[b] = entity[b]
    BY <1>2 DEF Find, Goto, TypeOK, history
  <2> QED
    BY <2>1, <2>2 DEF Misses, MissIsFresh, Matching
<1>3. ASSUME NEW c \in Callers, Receive(c)
      PROVE  Misses'
  <2>1. entity[c] # Absent => Opened(entity[c]) # Absent
    BY OpenedType DEF TypeOK, IsOpen
  <2>2. /\ pc'[c] = "loaded" /\ pc[c] = "found" /\ UNCHANGED <<stored, op, missed>>
        /\ \A b \in Callers \ {c} : pc'[b] = pc[b] /\ entity'[b] = entity[b]
        /\ entity'[c] = IF entity[c] = Absent THEN Absent ELSE Opened(entity[c])
    BY <1>3 DEF Receive, Goto, TypeOK, history
  <2>3. \A q \in Queries : cache'[q] = cache[q] \/ (entity[c] # Absent /\ cache'[q] = Opened(entity[c]))
    BY <1>3 DEF Receive, TypeOK
  <2> QED
    BY <2>1, <2>2, <2>3 DEF Misses, MissIsFresh, Matching
<1>4. ASSUME NEW c \in Callers, NotFound(c)
      PROVE  Misses'
  <2>1. /\ pc'[c] \in {"absent", "missing"} /\ pc[c] = "loaded" /\ entity[c] = Absent
        /\ \A b \in Callers \ {c} : pc'[b] = pc[b]
        /\ UNCHANGED <<stored, cache, op, entity, missed>>
    BY <1>4 DEF NotFound, Goto, TypeOK, history
  <2> QED
    BY <2>1 DEF Misses, MissIsFresh, Matching
<1>5. ASSUME NEW c \in Callers,
             FindFails(c) \/ RefuseInstall(c) \/ Insert(c) \/ Show(c) \/ AskProvider(c) \/ ProviderFails(c)
             \/ Change(c) \/ Uninstall(c) \/ Refuse(c) \/ SendAgain(c) \/ GiveUp(c)
      PROVE  Misses'
  <2>1. \A q \in Queries : cache'[q] # Absent
    BY <1>5 DEF Misses, FindFails, RefuseInstall, Insert, Show, AskProvider, ProviderFails, Change, Uninstall,
                Refuse, SendAgain, GiveUp
  <2>2. UNCHANGED <<stored, op, missed>>
    BY <1>5 DEF FindFails, RefuseInstall, Insert, Show, AskProvider, ProviderFails, Change, Uninstall,
                Refuse, SendAgain, GiveUp, history
  <2>3. \E place \in {"absent", "provider", "send", "unsent", "ended"} : pc' = [pc EXCEPT ![c] = place]
    BY <1>5 DEF FindFails, RefuseInstall, Insert, Show, AskProvider, ProviderFails, Change, Uninstall,
                Refuse, SendAgain, GiveUp, Goto, End
  <2>4. \A b \in Callers \ {c} : entity'[b] = entity[b]
    BY <1>5 DEF FindFails, RefuseInstall, Insert, Show, AskProvider, ProviderFails, Change, Uninstall,
                Refuse, SendAgain, GiveUp, End, TypeOK
  <2>5. pc' = [pc EXCEPT ![c] = pc'[c]] /\ pc'[c] \notin {"find", "found", "loaded", "missing"}
    BY <2>3 DEF TypeOK
  <2> QED
    BY <2>1, <2>2, <2>4, <2>5, LocalMisses
<1>6. ASSUME NEW c \in Callers, Handle(c)
      PROVE  Misses'
  <2>1. /\ pc'[c] = "sent" /\ \A b \in Callers \ {c} : pc'[b] = pc[b]
        /\ UNCHANGED <<cache, op, entity>>
    BY <1>6 DEF Handle, Goto, TypeOK
  <2>2. \A b \in Callers : /\ missed[b] => missed'[b]
                           /\ Running(b) /\ Matching(Query(op[b]), stored') = {} => missed'[b]
    BY <1>6 DEF Handle, TypeOK
  <2> QED
    BY <2>1, <2>2 DEF Misses, MissIsFresh, Matching, Running
<1>7. ASSUME NEW c \in Callers, Finish(c) \/ SendFails(c)
      PROVE  Misses'
  <2>1. \A q \in Queries : cache'[q] # Absent
    BY <1>7 DEF Misses, Finish, SendFails
  <2>2. UNCHANGED <<stored, op, missed>>
    BY <1>7 DEF Finish, SendFails
  <2>3. \E place \in {"kept", "ended"} : pc' = [pc EXCEPT ![c] = place]
    BY <1>7 DEF Finish, SendFails, Goto, End
  <2>4. \A b \in Callers \ {c} : entity'[b] = entity[b]
    BY <1>7 DEF Finish, SendFails, End, TypeOK
  <2>5. pc' = [pc EXCEPT ![c] = pc'[c]] /\ pc'[c] \notin {"find", "found", "loaded", "missing"}
    BY <2>3 DEF TypeOK
  <2> QED
    BY <2>1, <2>2, <2>4, <2>5, LocalMisses
<1>8. ASSUME NEW q \in Queries, Expire(q)
      PROVE  Misses'
  BY <1>8 DEF Expire, Misses, MissIsFresh, Matching, history, TypeOK
<1> QED
  BY <1>0, <1>1, <1>2, <1>3, <1>4, <1>5, <1>6, <1>7, <1>8 DEF Next

\* MissIsFresh of ApplicationManager: whoever is told that the install has
\* not been found asked while none matched, for any number of calls.
THEOREM MissesAreFresh == Spec => []MissIsFresh
<1>1. Init => Misses
  BY DEF Init, Misses, MissIsFresh
<1>2. Misses => MissIsFresh
  BY DEF Misses
<1> QED
  BY <1>1, <1>2, TypeInit, TypeStep, MissesStep, PTL DEF Spec

-----------------------------------------------------------------------------
(* Nobody sees what was not sent *)

\* Values of calls whose change the worker-api took
Known == sent \cup {Original, NoValue}

From(doc, W) == \A f \in Fields : doc.plain[f] \in W /\ doc.sealed[f] \in W

\* A call's own value is in its object from the change on, and nowhere else
\* before the worker-api handles it.
Sources ==
    /\ \A d \in Ids : stored[d] # Absent => From(stored[d], Known)
    /\ \A q \in Queries : cache[q] \in Installs => From(cache[q].doc, Known)
    /\ \A c \in Callers : pc[c] \in {"found", "loaded", "provider"} /\ entity[c] # Absent
                             => From(entity[c].doc, Known)
    /\ \A c \in Callers : pc[c] \in {"send", "sent", "unsent", "kept"}
                             => From(entity[c].doc, Known \cup {c})

LEMMA FromMoves ==
    ASSUME NEW doc \in Documents, NEW Values, NoValue \in Values, From(doc, Values)
    PROVE  From(BeforeSend(doc), Values) /\ From(AfterReceive(doc), Values)
BY DEF From, BeforeSend, AfterReceive, Documents, NoSettings

LEMMA FromChanged ==
    ASSUME NEW doc \in Documents, NEW Values, NoValue \in Values, From(doc, Values), NEW o \in Updates, NEW w \in Ids
    PROVE  From(BeforeSend(Changed(doc, o, w)), Values \cup {w})
<1>1. Changed(doc, o, w) \in Documents /\ Changed(doc, o, w).sealed = doc.sealed
  BY ChangedFields
<1>2. ASSUME NEW f \in Fields
      PROVE  Changed(doc, o, w).plain[f] \in {w, NoValue, doc.plain[f]}
  <2>1. CASE f \in Sets(o)
    BY <2>1, ChangedFields
  <2>2. CASE f \in Clears(o)
    BY <2>2, ChangedFields
  <2>3. CASE f \in Fields \ (Sets(o) \cup Clears(o))
    BY <2>3, ChangedFields
  <2> QED
    BY <2>1, <2>2, <2>3
<1>3. From(Changed(doc, o, w), Values \cup {w})
  BY <1>1, <1>2 DEF From
<1> QED
  BY <1>1, <1>3, FromMoves

\* A step of one call that changes neither the store, nor what was sent
LEMMA LocalSources ==
    ASSUME TypeInv, Sources, NEW c \in Callers, \A b \in Callers \ {c} : pc'[b] = pc[b] /\ entity'[b] = entity[b],
           pc'[c] \in {"found", "loaded", "provider"} /\ entity'[c] # Absent => From(entity'[c].doc, Known),
           pc'[c] \in {"send", "sent", "unsent", "kept"} => From(entity'[c].doc, Known \cup {c}),
           \A q \in Queries : cache'[q] \in Installs => From(cache'[q].doc, Known),
           UNCHANGED <<stored, sent>>
    PROVE  Sources'
BY DEF Sources, Known, From

LEMMA SourcesStep == TypeInv /\ Sources /\ [Next]_vars => Sources'
<1> SUFFICES ASSUME TypeInv, Sources, [Next]_vars PROVE Sources'
  OBVIOUS
<1> USE DEF TypeInv
<1>0. CASE UNCHANGED vars
  BY <1>0 DEF vars, history, Sources, Known, From
<1>1. ASSUME NEW c \in Callers, NEW o \in Operations, Begin(c, o)
      PROVE  Sources'
  <2>0. Query(o) \in Queries
    BY DEF Query, Queries
  <2>1. /\ \A b \in Callers \ {c} : pc'[b] = pc[b] /\ entity'[b] = entity[b]
        /\ UNCHANGED <<stored, cache, sent>>
    BY <1>1 DEF Begin, Goto, TypeOK
  <2>2. pc'[c] = "find" \/ (pc'[c] = "loaded" /\ entity'[c] = cache[Query(o)] /\ cache[Query(o)] # Uncached)
    BY <1>1 DEF Begin, Goto, TypeOK
  <2>3. pc'[c] = "loaded" /\ entity'[c] # Absent => From(entity'[c].doc, Known)
    BY <2>0, <2>2 DEF Sources, TypeOK
  <2>4. \A q \in Queries : cache'[q] \in Installs => From(cache'[q].doc, Known)
    BY <2>1 DEF Sources
  <2> QED
    BY <2>1, <2>2, <2>3, <2>4, LocalSources
<1>2. ASSUME NEW c \in Callers, Find(c)
      PROVE  Sources'
  <2>1. entity'[c] = Absent \/ \E d \in Ids : stored[d] # Absent /\ entity'[c].doc = stored[d]
    BY <1>2 DEF Find, Matching, TypeOK
  <2>2. /\ \A b \in Callers \ {c} : pc'[b] = pc[b] /\ entity'[b] = entity[b]
        /\ pc'[c] = "found" /\ UNCHANGED <<stored, cache, sent>>
    BY <1>2 DEF Find, Goto, TypeOK, history
  <2>3. entity'[c] # Absent => From(entity'[c].doc, Known)
    BY <2>1 DEF Sources
  <2>4. \A q \in Queries : cache'[q] \in Installs => From(cache'[q].doc, Known)
    BY <2>2 DEF Sources
  <2> QED
    BY <2>2, <2>3, <2>4, LocalSources
<1>3. ASSUME NEW c \in Callers, Receive(c)
      PROVE  Sources'
  <2>1. /\ \A b \in Callers \ {c} : pc'[b] = pc[b] /\ entity'[b] = entity[b]
        /\ pc[c] = "found" /\ pc'[c] = "loaded" /\ UNCHANGED <<stored, sent>>
        /\ entity'[c] = IF entity[c] = Absent THEN Absent ELSE Opened(entity[c])
    BY <1>3 DEF Receive, Goto, TypeOK, history
  <2>2. \A q \in Queries : cache'[q] = cache[q] \/ (entity[c] # Absent /\ cache'[q] = Opened(entity[c]))
    BY <1>3 DEF Receive, TypeOK
  <2>3. entity[c] # Absent => From(Opened(entity[c]).doc, Known)
    <3>1. SUFFICES ASSUME entity[c] # Absent PROVE From(Opened(entity[c]).doc, Known)
      OBVIOUS
    <3>2. entity[c] \in Installs /\ entity[c].doc \in Documents /\ From(entity[c].doc, Known)
      BY <2>1, <3>1 DEF TypeOK, Installs, Sources
    <3> QED
      BY <3>2, OpenedType, FromMoves DEF Known
  <2>4. \A q \in Queries : cache'[q] \in Installs => From(cache'[q].doc, Known)
    BY <2>2, <2>3 DEF Sources
  <2> QED
    BY <2>1, <2>3, <2>4, LocalSources
<1>4. ASSUME NEW c \in Callers,
             FindFails(c) \/ NotFound(c) \/ RefuseInstall(c) \/ Insert(c) \/ Show(c) \/ AskProvider(c)
             \/ ProviderFails(c) \/ Change(c) \/ Uninstall(c) \/ Refuse(c) \/ SendAgain(c) \/ GiveUp(c)
             \/ Finish(c) \/ SendFails(c)
      PROVE  Sources'
  <2>1. /\ \A b \in Callers \ {c} : pc'[b] = pc[b]
        /\ UNCHANGED <<stored, sent>>
    BY <1>4 DEF FindFails, NotFound, RefuseInstall, Insert, Show, AskProvider, ProviderFails, Change, Uninstall,
                Refuse, SendAgain, GiveUp, Finish, SendFails, End, Goto, history, TypeOK
  <2>2. \A b \in Callers \ {c} : entity'[b] = entity[b]
    BY <1>4 DEF FindFails, NotFound, RefuseInstall, Insert, Show, AskProvider, ProviderFails, Change, Uninstall,
                Refuse, SendAgain, GiveUp, Finish, SendFails, End, history, TypeOK
  <2>3. cache' = cache \/ cache' = [q \in Queries |-> Uncached]
    BY <1>4 DEF FindFails, NotFound, RefuseInstall, Insert, Show, AskProvider, ProviderFails, Change, Uninstall,
                Refuse, SendAgain, GiveUp, Finish, SendFails
  <2>4. \A q \in Queries : cache'[q] \in Installs => From(cache'[q].doc, Known)
    BY <2>3 DEF Sources
  <2>5. CASE pc'[c] \notin {"found", "loaded", "provider", "send", "sent", "unsent", "kept"}
    BY <2>1, <2>2, <2>4, <2>5, LocalSources
  <2>6. CASE AskProvider(c)
    <3>1. pc'[c] = "provider" /\ pc[c] = "loaded" /\ entity' = entity
      BY <2>6 DEF AskProvider, Loaded, Goto, TypeOK
    <3> QED
      BY <2>1, <2>2, <2>4, <3>1, LocalSources DEF Sources
  <2>7. CASE Insert(c)
    <3>1. pc'[c] = "send" /\ entity'[c].doc = BeforeSend(NewDocument)
      BY <2>7 DEF Insert, Goto, TypeOK
    <3>2. From(NewDocument, Known \cup {c})
      BY DEF From, NewDocument, NoSettings, Known
    <3>3. From(entity'[c].doc, Known \cup {c})
      BY <3>1, <3>2, NewDocumentType, FromMoves DEF Known
    <3> QED
      BY <2>1, <2>2, <2>4, <3>1, <3>3, LocalSources
  <2>8. CASE Change(c)
    <3>1. /\ pc'[c] = "send" /\ pc[c] \in {"loaded", "provider"} /\ entity[c] \in Installs /\ op[c] \in Updates
          /\ entity'[c].doc = BeforeSend(Changed(entity[c].doc, op[c], c))
      BY <2>8 DEF Change, Ready, Loaded, Goto, TypeOK, Updates, Entities, IsOpen
    <3>2. entity[c].doc \in Documents /\ From(entity[c].doc, Known) /\ c \in Ids
      BY <3>1 DEF Sources, Installs, Callers
    <3>3. From(entity'[c].doc, Known \cup {c})
      BY <3>1, <3>2, FromChanged DEF Known
    <3> QED
      BY <2>1, <2>2, <2>4, <3>1, <3>3, LocalSources
  <2>9. CASE Uninstall(c)
    <3>1. pc'[c] = "send" /\ pc[c] = "loaded" /\ entity[c] # Absent /\ entity' = entity
      BY <2>9 DEF Uninstall, Loaded, Goto, TypeOK
    <3>2. From(entity'[c].doc, Known \cup {c})
      BY <3>1 DEF Sources, From
    <3> QED
      BY <2>1, <2>2, <2>4, <3>1, <3>2, LocalSources
  <2>10. CASE SendAgain(c)
    <3>1. pc'[c] = "send" /\ pc[c] = "kept" /\ entity'[c].doc = BeforeSend(entity[c].doc)
      BY <2>10 DEF SendAgain, Goto, TypeOK
    <3>2. entity[c].doc \in Documents /\ From(entity[c].doc, Known \cup {c})
      BY <3>1 DEF Sources, Entities, Installs
    <3>3. From(entity'[c].doc, Known \cup {c})
      BY <3>1, <3>2, FromMoves DEF Known
    <3> QED
      BY <2>1, <2>2, <2>4, <3>1, <3>3, LocalSources
  <2>11. CASE (Refuse(c) \/ SendFails(c)) /\ pc'[c] \in {"unsent", "kept"}
    <3>1. pc[c] \in {"send", "sent", "unsent"} /\ entity'[c] = entity[c]
      BY <2>11 DEF Refuse, SendFails, End, Goto, TypeOK
    <3> QED
      BY <2>1, <2>2, <2>4, <2>11, <3>1, LocalSources DEF Sources
  <2>12. pc'[c] \in {"absent", "missing", "ended"} \/ AskProvider(c) \/ Insert(c) \/ Change(c) \/ Uninstall(c)
         \/ SendAgain(c) \/ ((Refuse(c) \/ SendFails(c)) /\ pc'[c] \in {"unsent", "kept"})
    BY <1>4 DEF FindFails, NotFound, RefuseInstall, Show, ProviderFails, Refuse, GiveUp, Finish, SendFails,
                End, Goto, TypeOK
  <2> QED
    BY <2>5, <2>6, <2>7, <2>8, <2>9, <2>10, <2>11, <2>12
<1>5. ASSUME NEW c \in Callers, Handle(c)
      PROVE  Sources'
  <2>1. /\ pc[c] = "send" /\ pc'[c] = "sent" /\ \A b \in Callers \ {c} : pc'[b] = pc[b]
        /\ sent' = sent \cup {c} /\ UNCHANGED <<cache, entity>>
    BY <1>5 DEF Handle, Goto, TypeOK
  <2>2. From(entity[c].doc, Known \cup {c})
    BY <2>1 DEF Sources
  <2>3. \A d \in Ids : stored'[d] = stored[d] \/ stored'[d] = Absent \/ stored'[d] = entity[c].doc
    BY <1>5 DEF Handle, TypeOK
  <2>4. Known' = Known \cup {c}
    BY <2>1 DEF Known
  <2>5. \A d \in Ids : stored'[d] # Absent => From(stored'[d], Known')
    BY <2>2, <2>3, <2>4 DEF Sources, From
  <2>6. \A q \in Queries : cache'[q] \in Installs => From(cache'[q].doc, Known')
    BY <2>1, <2>4 DEF Sources, From
  <2>7. \A b \in Callers : pc'[b] \in {"found", "loaded", "provider"} /\ entity'[b] # Absent
                             => From(entity'[b].doc, Known')
    BY <2>1, <2>4 DEF Sources, From
  <2>8. \A b \in Callers : pc'[b] \in {"send", "sent", "unsent", "kept"}
                             => From(entity'[b].doc, Known' \cup {b})
    BY <2>1, <2>4 DEF Sources, From
  <2> QED
    BY <2>5, <2>6, <2>7, <2>8 DEF Sources
<1>6. ASSUME NEW q \in Queries, Expire(q)
      PROVE  Sources'
  <2>1. \A r \in Queries : cache'[r] = cache[r] \/ cache'[r] = Uncached
    BY <1>6 DEF Expire, TypeOK
  <2> QED
    BY <1>6, <2>1 DEF Expire, Sources, history, Known, From
<1> QED
  BY <1>0, <1>1, <1>2, <1>3, <1>4, <1>5, <1>6 DEF Next

\* UnsentIsUnseen of ApplicationManager: what the cache hands out was written
\* by calls whose change the worker-api took, for any number of calls.
THEOREM UnsentStaysUnseen == Spec => []UnsentIsUnseen
<1>1. Init => Sources
  <2> SUFFICES ASSUME Init PROVE Sources
    OBVIOUS
  <2>1. \A d \in Ids : stored[d] # Absent => From(stored[d], Known)
    BY DEF Init, From, Known, NoSettings
  <2> QED
    BY <2>1 DEF Init, Sources
<1>2. Sources => UnsentIsUnseen
  BY DEF Sources, UnsentIsUnseen, From, Known
<1> QED
  BY <1>1, <1>2, TypeInit, TypeStep, SourcesStep, PTL DEF Spec

-----------------------------------------------------------------------------
(* Serial updates survive *)

\* What is expected of a document once an update of it is stored
After(e, o, c) == IF e \in {Absent, Unknown} THEN Unknown ELSE Effect(e, o, c)

\* How the stored documents, the cache and the objects of the one running
\* call relate to what is expected, as long as calls do not overlap.
InStep ==
    /\ \A a, b \in Callers : Running(a) /\ Running(b) => a = b
    /\ \A q \in Queries : cache[q] \in Installs => Fits(cache[q].doc, expected[cache[q].id])
    /\ \A c \in Callers : pc[c] \in {"found", "loaded", "provider"} /\ entity[c] # Absent
                             => Fits(entity[c].doc, expected[entity[c].id])
    /\ \A c \in Callers : pc[c] \in {"send", "sent", "unsent", "kept"} =>
          /\ op[c] \in Updates => Fits(entity[c].doc, After(expected[entity[c].id], op[c], c))
          /\ op[c] = "install" => entity[c].doc = NewDocument
    /\ \A c \in Callers : pc[c] = "sent" =>
          stored[entity[c].id] = IF op[c] = "uninstall" THEN Absent ELSE entity[c].doc
    /\ \A d \in Ids : \/ Fits(stored[d], expected[d])
                      \/ \E c \in Callers : pc[c] = "sent" /\ entity[c].id = d

Serial == IF overlapped THEN \A d \in Ids : expected[d] = Unknown ELSE InStep

\* A document that fits what is expected is as good after decryption.
LEMMA OpenedFits ==
    ASSUME NEW doc \in Documents, NEW e, Fits(doc, e)
    PROVE  Fits(AfterReceive(doc), e)
<1>1. AfterReceive(doc) \in Documents /\ AfterReceive(doc).enabled = doc.enabled
  BY NoSettingsType DEF AfterReceive, Documents
<1>2. AfterReceive(AfterReceive(doc)) = AfterReceive(doc)
  BY NoSettingsType DEF AfterReceive, Documents
<1>3. AfterReceive(doc) # Absent /\ doc # Absent
  BY <1>1
<1> QED
  BY <1>1, <1>2, <1>3 DEF Fits

\* An update of a document that fits is what is expected of the update.
LEMMA ChangedFits ==
    ASSUME NEW doc \in Documents, doc.sealed = NoSettings, NEW e \in Expectations, Fits(doc, e),
           NEW o \in Updates, NEW w \in Ids
    PROVE  Fits(BeforeSend(Changed(doc, o, w)), Effect(e, o, w))
<1> DEFINE new == Changed(doc, o, w)
<1>1. new \in Documents /\ new.sealed = NoSettings
  BY ChangedFields
<1>2. AfterReceive(BeforeSend(new)) = new
  BY <1>1, SentIsReceived
<1>3. BeforeSend(new) \in Documents /\ BeforeSend(new).enabled = new.enabled
  BY <1>1, SendAndReceive, NoSettingsType DEF BeforeSend, Documents
<1>4. e # Unknown /\ e # Absent /\ doc # Absent /\ BeforeSend(new) # Absent
  BY <1>3
<1>5. AfterReceive(doc) = doc
  BY DEF AfterReceive
<1>6. e.enabled \in {Unknown, doc.enabled} /\ \A f \in Fields : e.plain[f] \in {Unknown, doc.plain[f]}
  BY <1>4, <1>5 DEF Fits
<1>7. new.enabled = IF o \in {"enable", "disable"} THEN (o = "enable") ELSE doc.enabled
  BY ChangedEnabled
<1>8. Effect(e, o, w).enabled \in {Unknown, new.enabled}
  BY <1>6, <1>7 DEF Effect
<1>9. ASSUME NEW f \in Fields
      PROVE  Effect(e, o, w).plain[f] \in {Unknown, new.plain[f]}
  <2>1. Effect(e, o, w).plain[f] = IF f \in Sets(o) THEN w ELSE IF f \in Clears(o) THEN NoValue ELSE e.plain[f]
    BY DEF Effect
  <2>2. CASE f \in Sets(o)
    BY <2>1, <2>2, ChangedFields
  <2>3. CASE f \notin Sets(o) /\ f \in Clears(o)
    BY <2>1, <2>3, ChangedFields
  <2>4. CASE f \notin Sets(o) \cup Clears(o)
    BY <2>1, <2>4, <1>6, ChangedFields
  <2> QED
    BY <2>2, <2>3, <2>4
<1>10. Effect(e, o, w) \notin {Absent, Unknown} \/ Effect(e, o, w) = Unknown
  <2>1. Effect(e, o, w) \in Expectations
    BY EffectType DEF Operations
  <2> QED
    BY <2>1
<1> HIDE DEF new
<1> QED
  BY <1>2, <1>3, <1>4, <1>8, <1>9, <1>10 DEF Fits, new

\* Not knowing whether an update happened excludes neither.
LEMMA BlurredFits ==
    ASSUME NEW doc \in Documents, NEW e \in Expectations, NEW o \in Operations, NEW w \in Ids
    PROVE  /\ Fits(doc, e) => Fits(doc, Blurred(e, o))
           /\ Fits(doc, Effect(e, o, w)) => Fits(doc, Blurred(e, o))
           /\ Effect(Blurred(e, o), o, w) = Effect(e, o, w)
<1>1. Effect(e, o, w) \in Expectations /\ Blurred(e, o) \in Expectations
  BY EffectType
<1>2. doc # Absent /\ e \notin {Absent, Unknown}
      /\ Effect(e, o, w) \notin {Absent, Unknown} /\ Blurred(e, o) \notin {Absent, Unknown}
  BY <1>1
<1>3. /\ Blurred(e, o).enabled = IF o \in {"enable", "disable"} THEN Unknown ELSE e.enabled
      /\ \A f \in Fields : Blurred(e, o).plain[f] = IF f \in Sets(o) \cup Clears(o) THEN Unknown ELSE e.plain[f]
  BY DEF Blurred
<1>4. /\ o \notin {"enable", "disable"} => Effect(e, o, w).enabled = e.enabled
      /\ \A f \in Fields \ (Sets(o) \cup Clears(o)) : Effect(e, o, w).plain[f] = e.plain[f]
  BY DEF Effect
<1>5. ASSUME Fits(doc, e)
      PROVE  Fits(doc, Blurred(e, o))
  BY <1>2, <1>3, <1>5 DEF Fits
<1>6. ASSUME Fits(doc, Effect(e, o, w))
      PROVE  Fits(doc, Blurred(e, o))
  BY <1>2, <1>3, <1>4, <1>6 DEF Fits
<1>7. Effect(Blurred(e, o), o, w) = Effect(e, o, w)
  BY <1>3 DEF Effect
<1> QED
  BY <1>5, <1>6, <1>7

\* What is expected after a call is what the worker-api has, and what an
\* uncertain end leaves in the cache and in the object fits it, too.
LEMMA OutcomeFits ==
    ASSUME TypeInv, InStep, ~overlapped, NEW c \in Callers, NEW certain \in BOOLEAN,
           pc[c] \in {"send", "sent", "unsent"}, certain => pc[c] = "sent",
           NEW e, e = expected[entity[c].id], NEW new, new = Outcome(c, e, certain)
    PROVE  /\ Fits(stored[entity[c].id], new)
           /\ ~certain => \A doc \in Documents : Fits(doc, e) => Fits(doc, new)
           /\ ~certain /\ op[c] \in Updates =>
                 \A doc \in Documents : Fits(doc, After(e, op[c], c)) => Fits(doc, After(new, op[c], c))
<1>0. /\ entity[c] \in Installs /\ entity[c].id \in Ids /\ entity[c].doc \in Documents
      /\ op[c] \in Updates \cup {"install", "uninstall"} /\ op[c] \in Operations /\ c \in Ids
      /\ e \in Expectations \cup {Absent, Unknown} /\ stored[entity[c].id] \in Documents \cup {Absent}
  BY DEF TypeInv, TypeOK, Entities, Installs, Callers, Operations
<1>1. \A doc : Fits(doc, Unknown)
  BY DEF Fits
<1>2. CASE op[c] \in Updates /\ e \in Expectations
  <2>1. op[c] \notin {"install", "uninstall"}
    BY <1>2 DEF Updates
  <2>2. new = IF certain THEN Effect(e, op[c], c) ELSE Blurred(e, op[c])
    BY <1>2, <2>1 DEF Outcome
  <2>3. Effect(e, op[c], c) \in Expectations /\ Blurred(e, op[c]) \in Expectations
    BY <1>0, <1>2, EffectType
  <2>4. After(e, op[c], c) = Effect(e, op[c], c)
        /\ After(Blurred(e, op[c]), op[c], c) = Effect(e, op[c], c)
    BY <1>0, <1>2, <2>3, BlurredFits DEF After
  <2>5. ~certain => \A doc \in Documents : Fits(doc, e) => Fits(doc, new)
    BY <1>0, <1>2, <2>2, BlurredFits
  <2>6. ~certain => \A doc \in Documents : Fits(doc, After(e, op[c], c)) => Fits(doc, After(new, op[c], c))
    BY <2>2, <2>4
  <2>7. Fits(stored[entity[c].id], new)
    <3>1. CASE pc[c] = "sent"
      <4>1. stored[entity[c].id] = entity[c].doc /\ Fits(entity[c].doc, Effect(e, op[c], c))
        BY <1>2, <2>1, <2>4, <3>1 DEF InStep
      <4> QED
        BY <1>0, <1>2, <2>2, <4>1, BlurredFits
    <3>2. CASE pc[c] # "sent"
      <4>1. Fits(stored[entity[c].id], e)
        <5>1. \A b \in Callers : pc[b] = "sent" => b = c
          BY DEF InStep, Running
        <5> QED
          BY <1>0, <3>2, <5>1 DEF InStep
      <4>2. stored[entity[c].id] \in Documents
        BY <1>0, <1>2, <4>1 DEF Fits
      <4> QED
        BY <3>2, <4>1, <4>2, <2>5
    <3> QED
      BY <3>1, <3>2
  <2> QED
    BY <2>5, <2>6, <2>7
<1>3. CASE op[c] \in Updates /\ e \in {Absent, Unknown}
  <2>1. new = Unknown /\ After(new, op[c], c) = Unknown
    BY <1>3 DEF Outcome, After, Updates
  <2> QED
    BY <2>1, <1>1
<1>4. CASE op[c] \in {"install", "uninstall"} /\ ~certain
  <2>1. new = Unknown /\ op[c] \notin Updates
    BY <1>4 DEF Outcome, Updates
  <2> QED
    BY <2>1, <1>1
<1>5. CASE op[c] = "uninstall" /\ certain
  <2>1. new = Absent /\ stored[entity[c].id] = Absent
    BY <1>5 DEF Outcome, InStep
  <2> QED
    BY <2>1, <1>5 DEF Fits
<1>6. CASE op[c] = "install" /\ certain
  <2>1. new = NewDocument /\ stored[entity[c].id] = NewDocument
    BY <1>6 DEF Outcome, InStep
  <2>2. AfterReceive(NewDocument) = NewDocument
    BY NewDocumentType DEF AfterReceive
  <2>3. NewDocument # Absent
    BY NewDocumentType
  <2>4. Fits(NewDocument, NewDocument)
    BY <2>2, <2>3 DEF Fits
  <2> QED
    BY <2>1, <2>4, <1>6
<1> QED
  BY <1>0, <1>2, <1>3, <1>4, <1>5, <1>6

\* A step of a running call that changes neither the store nor what is expected
LEMMA LocalInStep ==
    ASSUME InStep, NEW c \in Callers, Running(c),
           \A b \in Callers \ {c} : pc'[b] = pc[b] /\ entity'[b] = entity[b],
           pc[c] # "sent", pc'[c] # "sent",
           pc'[c] \in {"found", "loaded", "provider"} /\ entity'[c] # Absent
               => Fits(entity'[c].doc, expected[entity'[c].id]),
           pc'[c] \in {"send", "unsent", "kept"} =>
              /\ op[c] \in Updates => Fits(entity'[c].doc, After(expected[entity'[c].id], op[c], c))
              /\ op[c] = "install" => entity'[c].doc = NewDocument,
           \A q \in Queries : cache'[q] \in Installs => Fits(cache'[q].doc, expected[cache'[q].id]),
           UNCHANGED <<stored, op, expected>>
    PROVE  InStep'
<1>1. \A a, b \in Callers : Running(a)' /\ Running(b)' => a = b
  BY DEF InStep, Running
<1>2. \A b \in Callers : pc'[b] \in {"found", "loaded", "provider"} /\ entity'[b] # Absent
                             => Fits(entity'[b].doc, expected'[entity'[b].id])
  BY DEF InStep
<1>3. \A b \in Callers : pc'[b] \in {"send", "sent", "unsent", "kept"} =>
          /\ op'[b] \in Updates => Fits(entity'[b].doc, After(expected'[entity'[b].id], op'[b], b))
          /\ op'[b] = "install" => entity'[b].doc = NewDocument
  BY DEF InStep
<1>4. \A b \in Callers : pc'[b] = "sent" =>
          stored'[entity'[b].id] = IF op'[b] = "uninstall" THEN Absent ELSE entity'[b].doc
  BY DEF InStep
<1>5. ASSUME NEW d \in Ids
      PROVE  Fits(stored'[d], expected'[d]) \/ \E b \in Callers : pc'[b] = "sent" /\ entity'[b].id = d
  BY DEF InStep
<1>6. \A q \in Queries : cache'[q] \in Installs => Fits(cache'[q].doc, expected'[cache'[q].id])
  OBVIOUS
<1> QED
  BY <1>1, <1>2, <1>3, <1>4, <1>5, <1>6 DEF InStep

LEMMA SerialStep == TypeInv /\ Serial /\ [Next]_vars => Serial'
<1> SUFFICES ASSUME TypeInv, Serial, [Next]_vars PROVE Serial'
  OBVIOUS
<1> USE DEF TypeInv
<1>0. CASE UNCHANGED vars
  <2>1. UNCHANGED <<stored, cache, pc, op, entity, expected, overlapped>>
    BY <1>0 DEF vars, history
  <2>2. InStep => InStep'
    BY <2>1 DEF InStep, Running
  <2> QED
    BY <2>1, <2>2 DEF Serial
<1>1. CASE overlapped
  <2>1. overlapped' = TRUE
    <3>1. CASE UNCHANGED vars
      BY <1>1, <3>1 DEF vars, history, TypeOK
    <3>2. ASSUME NEW c \in Callers, NEW o \in Operations, Begin(c, o)
          PROVE  overlapped' = TRUE
      BY <1>1, <3>2 DEF Begin, TypeOK
    <3>3. ASSUME NEW c \in Callers,
                 Find(c) \/ Receive(c) \/ FindFails(c) \/ NotFound(c) \/ RefuseInstall(c) \/ Insert(c) \/ Show(c)
                 \/ AskProvider(c) \/ ProviderFails(c) \/ Change(c) \/ Uninstall(c) \/ Handle(c) \/ Refuse(c)
                 \/ Finish(c) \/ SendFails(c) \/ SendAgain(c) \/ GiveUp(c)
          PROVE  overlapped' = TRUE
      <4>1. overlapped' = overlapped
        BY <3>3 DEF Find, Receive, FindFails, NotFound, RefuseInstall, Insert, Show, AskProvider, ProviderFails,
              Change, Uninstall, Handle, Refuse, Finish, SendFails, SendAgain, GiveUp, history
      <4> QED
        BY <1>1, <4>1 DEF TypeOK
    <3>4. ASSUME NEW q \in Queries, Expire(q)
          PROVE  overlapped' = TRUE
      BY <1>1, <3>4 DEF Expire, history, TypeOK
    <3> QED
      BY <3>1, <3>2, <3>3, <3>4 DEF Next
  <2>2. \A d \in Ids : expected[d] = Unknown
    BY <1>1 DEF Serial
  <2>3. ASSUME NEW c \in Callers, NEW certain \in BOOLEAN, Expect(c, certain)
        PROVE  \A d \in Ids : expected'[d] = Unknown
    <3>1. Outcome(c, expected[entity[c].id], certain) = Unknown
      BY <1>1 DEF Outcome
    <3> QED
      BY <2>2, <2>3, <3>1 DEF Expect, TypeOK
  <2>4. expected' = expected \/ (\E c \in Callers, certain \in BOOLEAN : Expect(c, certain))
        \/ \A d \in Ids : expected'[d] = Unknown
    BY <1>0 DEF Next, Begin, Find, Receive, FindFails, NotFound, RefuseInstall, Insert, Show, AskProvider,
          ProviderFails, Change, Uninstall, Handle, Refuse, Finish, SendFails, SendAgain, GiveUp, Expire, history, vars
  <2> QED
    BY <2>1, <2>2, <2>3, <2>4 DEF Serial
<1> SUFFICES ASSUME ~overlapped PROVE Serial'
  BY <1>1
<1>2. InStep
  BY DEF Serial
<1>3. ASSUME NEW c \in Callers, NEW o \in Operations, Begin(c, o)
      PROVE  Serial'
  <2>0. Query(o) \in Queries
    BY DEF Query, Queries
  <2>1. CASE overlapped'
    BY <1>3, <2>1 DEF Begin, Serial
  <2>2. CASE ~overlapped'
    <3>1. /\ \A b \in Callers : ~Running(b)
          /\ \A b \in Callers \ {c} : pc'[b] = pc[b] /\ entity'[b] = entity[b] /\ op'[b] = op[b]
          /\ UNCHANGED <<stored, cache, expected>>
      BY <1>3, <2>2 DEF Begin, Goto, TypeOK
    <3>2. pc'[c] = "find" \/ (pc'[c] = "loaded" /\ entity'[c] = cache[Query(o)] /\ cache[Query(o)] # Uncached)
      BY <1>3 DEF Begin, Goto, TypeOK
    <3>3. pc'[c] = "loaded" /\ entity'[c] # Absent => Fits(entity'[c].doc, expected[entity'[c].id])
      BY <1>2, <2>0, <3>2 DEF InStep, TypeOK
    <3>4. pc[c] = "idle"
      BY <1>3 DEF Begin
    <3>5. \A b \in Callers : pc[b] \in {"idle", "ended", "missing"}
      BY <3>1 DEF Running
    <3>6. \A a, b \in Callers : Running(a)' /\ Running(b)' => a = b
      BY <3>1 DEF Running
    <3>7. \A b \in Callers : /\ pc'[b] \in {"found", "loaded", "provider"} /\ entity'[b] # Absent
                                  => Fits(entity'[b].doc, expected'[entity'[b].id])
                             /\ pc'[b] \notin {"send", "sent", "unsent", "kept"}
      BY <3>1, <3>2, <3>3, <3>5
    <3>8. \A d \in Ids : Fits(stored'[d], expected'[d])
      BY <1>2, <3>1, <3>5 DEF InStep
    <3>9. \A q \in Queries : cache'[q] \in Installs => Fits(cache'[q].doc, expected'[cache'[q].id])
      BY <1>2, <3>1 DEF InStep
    <3>10. InStep'
      BY <3>6, <3>7, <3>8, <3>9 DEF InStep
    <3> QED
      BY <2>2, <3>10 DEF Serial
  <2> QED
    BY <2>1, <2>2
<1>4. ASSUME NEW c \in Callers, Find(c)
      PROVE  Serial'
  <2>1. /\ \A b \in Callers \ {c} : pc'[b] = pc[b] /\ entity'[b] = entity[b]
        /\ pc[c] = "find" /\ pc'[c] = "found" /\ UNCHANGED <<stored, cache, op, expected, overlapped>>
    BY <1>4 DEF Find, Goto, TypeOK, history
  <2>2. entity'[c] = Absent \/ \E d \in Ids : entity'[c] = [id |-> d, doc |-> stored[d]]
    BY <1>4 DEF Find, Matching, TypeOK
  <2>3. \A d \in Ids : Fits(stored[d], expected[d])
    <3>1. \A b \in Callers : pc[b] # "sent"
      BY <1>2, <2>1 DEF InStep, Running
    <3> QED
      BY <1>2, <3>1 DEF InStep
  <2>4. entity'[c] # Absent => Fits(entity'[c].doc, expected[entity'[c].id])
    <3>1. ASSUME NEW d \in Ids, entity'[c] = [id |-> d, doc |-> stored[d]]
          PROVE  Fits(entity'[c].doc, expected[entity'[c].id])
      <4>1. entity'[c].doc = stored[d] /\ entity'[c].id = d
        BY <3>1
      <4> QED
        BY <2>3, <4>1
    <3> QED
      BY <2>2, <3>1
  <2>5. \A q \in Queries : cache'[q] \in Installs => Fits(cache'[q].doc, expected[cache'[q].id])
    BY <1>2, <2>1 DEF InStep
  <2>6. InStep'
    BY <1>2, <2>1, <2>4, <2>5, LocalInStep DEF Running
  <2> QED
    BY <2>1, <2>6 DEF Serial
<1>5. ASSUME NEW c \in Callers, Receive(c)
      PROVE  Serial'
  <2>1. /\ \A b \in Callers \ {c} : pc'[b] = pc[b] /\ entity'[b] = entity[b]
        /\ pc[c] = "found" /\ pc'[c] = "loaded" /\ UNCHANGED <<stored, op, expected, overlapped>>
        /\ entity'[c] = IF entity[c] = Absent THEN Absent ELSE Opened(entity[c])
    BY <1>5 DEF Receive, Goto, TypeOK, history
  <2>2. \A q \in Queries : cache'[q] = cache[q] \/ (entity[c] # Absent /\ cache'[q] = Opened(entity[c]))
    BY <1>5 DEF Receive, TypeOK
  <2>3. entity[c] # Absent => Fits(Opened(entity[c]).doc, expected[Opened(entity[c]).id])
    <3>1. SUFFICES ASSUME entity[c] # Absent PROVE Fits(Opened(entity[c]).doc, expected[Opened(entity[c]).id])
      OBVIOUS
    <3>2. entity[c] \in Installs /\ entity[c].doc \in Documents /\ Fits(entity[c].doc, expected[entity[c].id])
      BY <1>2, <2>1, <3>1 DEF TypeOK, Installs, InStep
    <3> QED
      BY <3>2, OpenedType, OpenedFits
  <2>4. \A q \in Queries : cache'[q] \in Installs => Fits(cache'[q].doc, expected[cache'[q].id])
    BY <1>2, <2>2, <2>3 DEF InStep
  <2>5. InStep'
    BY <1>2, <2>1, <2>3, <2>4, LocalInStep DEF Running
  <2> QED
    BY <2>1, <2>5 DEF Serial
<1>6. ASSUME NEW c \in Callers,
             FindFails(c) \/ NotFound(c) \/ RefuseInstall(c) \/ Insert(c) \/ Show(c) \/ AskProvider(c)
             \/ ProviderFails(c) \/ Change(c) \/ Uninstall(c) \/ Refuse(c) \/ SendAgain(c) \/ GiveUp(c)
      PROVE  Serial'
  <2>1. /\ \A b \in Callers \ {c} : pc'[b] = pc[b]
        /\ UNCHANGED <<stored, cache, op, expected, overlapped>>
    BY <1>6 DEF FindFails, NotFound, RefuseInstall, Insert, Show, AskProvider, ProviderFails, Change, Uninstall,
                Refuse, SendAgain, GiveUp, End, Goto, history, TypeOK
  <2>2. \A b \in Callers \ {c} : entity'[b] = entity[b]
    BY <1>6 DEF FindFails, NotFound, RefuseInstall, Insert, Show, AskProvider, ProviderFails, Change, Uninstall,
                Refuse, SendAgain, GiveUp, End, TypeOK
  <2>3. pc[c] \in {"find", "found", "absent", "loaded", "provider", "send", "kept"}
    BY <1>6 DEF FindFails, NotFound, RefuseInstall, Insert, Show, AskProvider, ProviderFails, Change, Uninstall,
                Refuse, SendAgain, GiveUp, Ready, Loaded
  <2>4. \A q \in Queries : cache'[q] \in Installs => Fits(cache'[q].doc, expected[cache'[q].id])
    BY <1>2, <2>1 DEF InStep
  <2>5. ASSUME pc'[c] # "sent",
               pc'[c] \in {"found", "loaded", "provider"} /\ entity'[c] # Absent
                   => Fits(entity'[c].doc, expected[entity'[c].id]),
               pc'[c] \in {"send", "unsent", "kept"} =>
                  /\ op[c] \in Updates => Fits(entity'[c].doc, After(expected[entity'[c].id], op[c], c))
                  /\ op[c] = "install" => entity'[c].doc = NewDocument
        PROVE  Serial'
    <3>1. InStep'
      BY <1>2, <2>1, <2>2, <2>3, <2>4, <2>5, LocalInStep DEF Running
    <3> QED
      BY <2>1, <3>1 DEF Serial
  <2>6. CASE pc'[c] \in {"absent", "missing", "ended"}
    BY <2>5, <2>6
  <2>7. CASE AskProvider(c)
    <3>1. pc'[c] = "provider" /\ pc[c] = "loaded" /\ entity' = entity
      BY <2>7 DEF AskProvider, Loaded, Goto, TypeOK
    <3> QED
      BY <1>2, <2>5, <3>1 DEF InStep
  <2>8. CASE Insert(c)
    <3>1. pc'[c] = "send" /\ entity'[c].doc = BeforeSend(NewDocument) /\ op[c] = "install"
      BY <2>8 DEF Insert, Goto, TypeOK, Entities
    <3>2. BeforeSend(NewDocument) = NewDocument
      BY NewDocumentType DEF BeforeSend
    <3> QED
      BY <2>5, <3>1, <3>2 DEF Updates
  <2>9. CASE Change(c)
    <3>1. /\ pc'[c] = "send" /\ pc[c] \in {"loaded", "provider"} /\ op[c] \in Updates /\ IsOpen(entity[c])
          /\ entity'[c] = [id |-> entity[c].id, doc |-> BeforeSend(Changed(entity[c].doc, op[c], c))]
      BY <2>9 DEF Change, Ready, Loaded, Goto, TypeOK, Updates, Entities
    <3>2. /\ entity[c].doc \in Documents /\ entity[c].doc.sealed = NoSettings
          /\ entity[c].id \in Ids /\ entity[c] # Absent /\ c \in Ids
      BY <3>1 DEF IsOpen, Installs, Callers
    <3> DEFINE e == expected[entity[c].id]
    <3>3. Fits(entity[c].doc, e)
      BY <1>2, <3>1, <3>2 DEF InStep
    <3>4. e \in Expectations \cup {Absent, Unknown} /\ e # Absent
      BY <3>2, <3>3 DEF TypeOK, Fits
    <3>5. Fits(entity'[c].doc, After(e, op[c], c))
      <4>1. CASE e \in {Absent, Unknown}
        BY <4>1 DEF After, Fits
      <4>2. CASE e \notin {Absent, Unknown}
        <5>1. After(e, op[c], c) = Effect(e, op[c], c)
          BY <4>2 DEF After
        <5>2. e \in Expectations
          BY <3>4, <4>2
        <5>3. Fits(BeforeSend(Changed(entity[c].doc, op[c], c)), Effect(e, op[c], c))
          BY <3>1, <3>2, <3>3, <5>2, ChangedFits
        <5> QED
          BY <3>1, <5>1, <5>3
      <4> QED
        BY <4>1, <4>2
    <3>6. op[c] # "install" /\ entity'[c].id = entity[c].id
      BY <3>1 DEF Updates
    <3> QED
      BY <2>5, <3>1, <3>5, <3>6
  <2>10. CASE Uninstall(c)
    <3>1. pc'[c] = "send" /\ op[c] = "uninstall"
      BY <2>10 DEF Uninstall, Goto, TypeOK
    <3> QED
      BY <2>5, <3>1 DEF Updates
  <2>11. CASE SendAgain(c)
    <3>1. /\ pc'[c] = "send" /\ pc[c] = "kept" /\ entity[c] \in Installs
          /\ entity'[c] = [id |-> entity[c].id, doc |-> BeforeSend(entity[c].doc)]
      BY <2>11 DEF SendAgain, Goto, TypeOK, Entities
    <3>2. op[c] = "uninstall" \/ BeforeSend(entity[c].doc) = entity[c].doc
      BY <3>1 DEF Entities, IsClosed, BeforeSend
    <3> QED
      BY <1>2, <2>5, <3>1, <3>2 DEF InStep, Updates
  <2>12. CASE Refuse(c)
    <3>1. pc'[c] = "unsent" /\ pc[c] = "send" /\ entity' = entity
      BY <2>12 DEF Refuse, Goto, TypeOK
    <3> QED
      BY <1>2, <2>5, <3>1 DEF InStep
  <2>13. pc'[c] \in {"absent", "missing", "ended"} \/ AskProvider(c) \/ Insert(c) \/ Change(c) \/ Uninstall(c)
         \/ SendAgain(c) \/ Refuse(c)
    BY <1>6 DEF FindFails, NotFound, RefuseInstall, Show, ProviderFails, GiveUp, End, Goto, TypeOK
  <2> QED
    BY <2>6, <2>7, <2>8, <2>9, <2>10, <2>11, <2>12, <2>13
<1>7. ASSUME NEW c \in Callers, Handle(c)
      PROVE  Serial'
  <2>1. /\ pc[c] = "send" /\ pc'[c] = "sent" /\ \A b \in Callers \ {c} : pc'[b] = pc[b]
        /\ entity[c] \in Installs /\ entity[c].id \in Ids
        /\ UNCHANGED <<cache, op, entity, overlapped, expected>>
        /\ stored' = [stored EXCEPT ![entity[c].id] = IF op[c] = "uninstall" THEN Absent ELSE entity[c].doc]
    BY <1>7 DEF Handle, Goto, TypeOK, Entities, Installs
  <2>2. \A b \in Callers \ {c} : pc[b] \in {"idle", "ended", "missing"}
    BY <1>2, <2>1 DEF InStep, Running
  <2>3. \A a, b \in Callers : Running(a)' /\ Running(b)' => a = b
    BY <2>1, <2>2 DEF Running
  <2>4. stored'[entity[c].id] = (IF op[c] = "uninstall" THEN Absent ELSE entity[c].doc)
        /\ \A d \in Ids \ {entity[c].id} : stored'[d] = stored[d]
    BY <2>1 DEF TypeOK
  <2>5. \A d \in Ids : Fits(stored'[d], expected'[d]) \/ \E b \in Callers : pc'[b] = "sent" /\ entity'[b].id = d
    <3>1. \A b \in Callers : pc[b] # "sent"
      BY <2>1, <2>2
    <3> QED
      BY <1>2, <2>1, <2>4, <3>1 DEF InStep
  <2>6. \A b \in Callers : pc'[b] = "sent" =>
          stored'[entity'[b].id] = IF op'[b] = "uninstall" THEN Absent ELSE entity'[b].doc
    BY <2>1, <2>2, <2>4
  <2>7. \A b \in Callers : pc'[b] \in {"found", "loaded", "provider"} /\ entity'[b] # Absent
                             => Fits(entity'[b].doc, expected'[entity'[b].id])
    BY <1>2, <2>1 DEF InStep
  <2>8. \A b \in Callers : pc'[b] \in {"send", "sent", "unsent", "kept"} =>
          /\ op'[b] \in Updates => Fits(entity'[b].doc, After(expected'[entity'[b].id], op'[b], b))
          /\ op'[b] = "install" => entity'[b].doc = NewDocument
    BY <1>2, <2>1 DEF InStep
  <2>9. \A q \in Queries : cache'[q] \in Installs => Fits(cache'[q].doc, expected'[cache'[q].id])
    BY <1>2, <2>1 DEF InStep
  <2>10. InStep'
    BY <2>3, <2>5, <2>6, <2>7, <2>8, <2>9 DEF InStep
  <2> QED
    BY <2>1, <2>10 DEF Serial
<1>8. ASSUME NEW c \in Callers, Finish(c) \/ SendFails(c)
      PROVE  Serial'
  <2>1. /\ pc[c] \in {"send", "sent", "unsent"} /\ entity[c] \in Installs /\ entity[c].id \in Ids
        /\ entity[c].doc \in Documents /\ \A b \in Callers \ {c} : pc'[b] = pc[b]
        /\ UNCHANGED <<stored, op, overlapped>>
    BY <1>8 DEF Finish, SendFails, End, Goto, TypeOK, Entities, Installs
  <2>2. PICK certain \in BOOLEAN :
           /\ Expect(c, certain)
           /\ certain => pc[c] = "sent" /\ Finish(c)
    <3>1. CASE Finish(c) /\ pc[c] = "sent"
      BY <3>1 DEF Finish
    <3>2. CASE Finish(c) /\ pc[c] # "sent"
      BY <3>2 DEF Finish
    <3>3. CASE SendFails(c)
      BY <3>3 DEF SendFails
    <3> QED
      BY <1>8, <2>1, <3>1, <3>2, <3>3
  <2> DEFINE e == expected[entity[c].id]
             new == Outcome(c, e, certain)
  <2>3. expected'[entity[c].id] = new /\ \A d \in Ids \ {entity[c].id} : expected'[d] = expected[d]
    <3>1. expected' = [expected EXCEPT ![entity[c].id] = Outcome(c, expected[entity[c].id], certain)]
      BY <2>1, <2>2, ExpectType
    <3> QED
      BY <2>1, <3>1 DEF TypeOK
  <2>4. /\ Fits(stored[entity[c].id], new)
        /\ ~certain => \A doc \in Documents : Fits(doc, e) => Fits(doc, new)
        /\ ~certain /\ op[c] \in Updates =>
              \A doc \in Documents : Fits(doc, After(e, op[c], c)) => Fits(doc, After(new, op[c], c))
    BY <1>2, <2>1, <2>2, OutcomeFits
  <2> HIDE DEF new
  <2>5. \A b \in Callers \ {c} : pc[b] \in {"idle", "ended", "missing"}
    BY <1>2, <2>1 DEF InStep, Running
  <2>6. pc'[c] = "ended" \/ (pc'[c] = "kept" /\ entity'[c] = entity[c] /\ ~certain)
    <3>1. CASE Finish(c)
      BY <3>1 DEF Finish, End, Goto, TypeOK
    <3>2. CASE ~Finish(c) /\ SendFails(c)
      <4>1. ~certain
        BY <2>2, <3>2
      <4>2. pc'[c] = "ended" \/ (pc'[c] = "kept" /\ entity'[c] = entity[c])
        BY <3>2 DEF SendFails, End, Goto, TypeOK
      <4> QED
        BY <4>1, <4>2
    <3> QED
      BY <1>8, <3>1, <3>2
  <2>7. \A a, b \in Callers : Running(a)' /\ Running(b)' => a = b
    BY <2>1, <2>5 DEF Running
  <2>8. \A d \in Ids : Fits(stored'[d], expected'[d])
    BY <1>2, <2>1, <2>3, <2>4, <2>5 DEF InStep
  <2>9. \A b \in Callers : /\ pc'[b] \notin {"found", "loaded", "provider", "sent"}
                           /\ pc'[b] \in {"send", "unsent", "kept"} => b = c
    BY <2>1, <2>5, <2>6
  <2>10. pc'[c] = "kept" =>
          /\ op'[c] \in Updates => Fits(entity'[c].doc, After(expected'[entity'[c].id], op'[c], c))
          /\ op'[c] = "install" => entity'[c].doc = NewDocument
    BY <1>2, <2>1, <2>3, <2>4, <2>6 DEF InStep
  <2>11. \A q \in Queries : cache'[q] \in Installs => Fits(cache'[q].doc, expected'[cache'[q].id])
    <3>1. CASE cache' = [q \in Queries |-> Uncached]
      BY <3>1
    <3>2. CASE cache' = cache /\ ~certain
      <4> SUFFICES ASSUME NEW q \in Queries, cache[q] \in Installs
                   PROVE  Fits(cache[q].doc, expected'[cache[q].id])
        BY <3>2
      <4>1. Fits(cache[q].doc, expected[cache[q].id]) /\ cache[q].doc \in Documents /\ cache[q].id \in Ids
        BY <1>2 DEF InStep, Installs
      <4> QED
        BY <2>3, <2>4, <3>2, <4>1
    <3>3. CASE Finish(c)
      BY <3>1, <3>3 DEF Finish
    <3>4. CASE ~Finish(c) /\ SendFails(c)
      <4>1. ~certain
        BY <2>2, <3>4
      <4>2. cache' = cache
        BY <3>4 DEF SendFails
      <4> QED
        BY <3>2, <4>1, <4>2
    <3> QED
      BY <1>8, <3>3, <3>4
  <2>12. InStep'
    BY <2>7, <2>8, <2>9, <2>10, <2>11, <2>6 DEF InStep
  <2> QED
    BY <2>1, <2>12 DEF Serial
<1>9. ASSUME NEW q \in Queries, Expire(q)
      PROVE  Serial'
  <2>1. \A r \in Queries : cache'[r] = cache[r] \/ cache'[r] = Uncached
    BY <1>9 DEF Expire, TypeOK
  <2>2. UNCHANGED <<stored, pc, op, entity, expected, overlapped>>
    BY <1>9 DEF Expire, history
  <2>3. \A r \in Queries : cache'[r] \in Installs => Fits(cache'[r].doc, expected'[cache'[r].id])
    BY <1>2, <2>1, <2>2 DEF InStep
  <2>4. InStep'
    BY <1>2, <2>2, <2>3 DEF InStep, Running
  <2> QED
    BY <2>2, <2>4 DEF Serial
<1> QED
  BY <1>0, <1>3, <1>4, <1>5, <1>6, <1>7, <1>8, <1>9 DEF Next

\* SerialUpdatesSurvive of ApplicationManager: for any number of calls, as
\* long as they do not overlap the change of every finished one is kept.
THEOREM UpdatesSurvive == Spec => []SerialUpdatesSurvive
<1>1. Init => Serial
  <2> SUFFICES ASSUME Init PROVE InStep /\ ~overlapped
    BY DEF Serial
  <2>1. \A d \in Ids : Fits(stored[d], expected[d])
    <3> SUFFICES ASSUME NEW d \in Ids PROVE Fits(stored[d], expected[d])
      OBVIOUS
    <3>1. CASE stored[d] = Absent
      BY <3>1 DEF Init, Fits
    <3>2. CASE stored[d] # Absent
      <4>1. stored[d] \in Documents /\ expected[d] = AfterReceive(stored[d])
        BY <3>2, TypeInit DEF Init, TypeInv, TypeOK
      <4>2. AfterReceive(stored[d]) \in Documents
            /\ AfterReceive(stored[d]).enabled = stored[d].enabled
        BY <4>1, SendAndReceive, NoSettingsType DEF AfterReceive, Documents
      <4> QED
        BY <3>2, <4>1, <4>2 DEF Fits
    <3> QED
      BY <3>1, <3>2
  <2> QED
    BY <2>1 DEF Init, InStep, Running
<1>2. TypeInv /\ Serial => SerialUpdatesSurvive
  <2> SUFFICES ASSUME TypeInv, Serial, \A c \in Callers : ~Running(c), NEW d \in Ids
               PROVE  Fits(stored[d], expected[d])
    BY DEF SerialUpdatesSurvive
  <2> QED
    BY DEF Serial, InStep, Running, Fits
<1> QED
  BY <1>1, <1>2, TypeInit, TypeStep, SerialStep, PTL DEF Spec
=============================================================================
