------------------------ MODULE TokenRefreshProofs ------------------------
(***************************************************************************)
(* Proofs about TokenRefresh for any number of calls, processes, salts and *)
(* failures.                                                               *)
(***************************************************************************)
EXTENDS TokenRefresh, TLAPS

USE SaltAssumption, TokenAssumption DEF SaltAssumption, TokenAssumption, Callers, Settings

-----------------------------------------------------------------------------
(* The inductive invariant *)

\* Before the provider has answered a call
Early(c) == pc[c] \in {"idle", "find", "found", "loaded", "provider"}

Sending(c) == pc[c] \in {"send", "sent", "unsent", "kept"}

\* Every text is signed with the key its salt gives.
Signed ==
    /\ stored.hmac = stored.salt
    /\ \A c \in Callers : text[c] # NoText => text[c].hmac = text[c].salt
    /\ \A c \in Callers : pc[c] = "found" => text[c] # NoText
    /\ TextsOpen

\* What a call has got so far
Progress ==
    \A c \in Callers :
        /\ Early(c) => c \notin valid /\ c \notin sent
        /\ kind[c] = "save" => c \notin valid
        /\ pc[c] \in {"provider", "answered"} => kind[c] # "save"
        /\ pc[c] \in {"provider", "answered"} /\ kind[c] = "refresh" => settings[c] # NoToken
        /\ pc[c] = "answered" => c \notin sent
        /\ pc[c] = "answered" /\ Issues(c) => c \in valid
        /\ Sending(c) => text[c] # NoText
        /\ Sending(c) /\ Issues(c) => text[c].data = c /\ (c \notin sent => c \in valid)
        /\ Sending(c) /\ kind[c] = "refresh" => text[c].data # NoToken

\* Nobody has the token of a call whose document the worker-api did not take,
\* but for the document itself.
Private ==
    \A c \in Callers \ sent :
        /\ stored.data # c
        /\ \A p \in Processes : cache[p] # c
        /\ \A o \in Callers : settings[o] # c
        /\ \A o \in Callers : text[o] # NoText /\ ~(o = c /\ Sending(c)) => text[o].data # c

\* Some token is valid if anybody has one, and every one is if the provider does
\* not replace them.
Good(t) == t # NoToken => valid # {} /\ (~rotates => t \in valid)

Held ==
    /\ Good(stored.data)
    /\ \A p \in Processes : cache[p] # Uncached => Good(cache[p])
    /\ \A c \in Callers : Good(settings[c])
    /\ \A c \in Callers : text[c] # NoText => Good(text[c].data)

\* While calls run one after the other, each works on what is stored.
Serial ==
    ~raced =>
        /\ \A c, o \in Callers : Running(c) /\ Running(o) => c = o
        /\ \A p \in Processes : cache[p] # Uncached /\ p \notin stale => cache[p] = stored.data
        /\ \A c \in Callers : pc[c] = "found" => text[c].data = stored.data
        /\ \A c \in Callers : pc[c] \in {"loaded", "provider"} => settings[c] = stored.data

IInv == TypeOK /\ Signed /\ Progress /\ Private /\ Held /\ TokenSurvives /\ Serial /\ RefusedIsRace

-----------------------------------------------------------------------------
(* Encryption *)

\* A text is signed with the key its salt gives, whatever the object was last
\* used for.
LEMMA EncryptSigns ==
    \A k \in Crypts, s \in Salts, d \in Settings :
        LET mine == AfterEncrypt(k, s)
            made == Encrypt(mine, d) IN
        mine \in Crypts /\ made \in Texts(Settings) /\ made.hmac = made.salt /\ made.data = d
<1> TAKE k \in Crypts, s \in Salts, d \in Settings
<1> DEFINE mine == Salted(k, s)
<1>1. mine \in Crypts /\ mine.salt \in Salts
  BY DEF Salted, Crypts
<1> HIDE DEF mine
<1>2. AfterEncrypt(k, s) = [mine EXCEPT !.hmacKey = mine.salt]
  BY DEF AfterEncrypt, DerivativeSecureKeys, mine
<1>3. AfterEncrypt(k, s) \in Crypts /\ AfterEncrypt(k, s).salt = mine.salt /\ AfterEncrypt(k, s).hmacKey = mine.salt
  BY <1>1, <1>2 DEF Crypts
<1> QED
  BY <1>1, <1>3 DEF Encrypt, Texts

\* A text that is signed with the key its salt gives opens everywhere.
LEMMA SignedOpens ==
    ASSUME NEW k \in Crypts, NEW t \in Texts(Settings), t.hmac = t.salt
    PROVE  AfterDecrypt(k, t) \in Crypts /\ Decrypts(k, t)
BY DEF Crypts, Texts, AfterDecrypt, DerivativeSecureKeys, Decrypts

\* What End leaves has the types.
LEMMA Ending ==
    ASSUME TypeOK, NEW c \in Callers, NEW how \in Places, End(c, how)
    PROVE  /\ pc' \in [Callers -> Places]
           /\ settings' \in [Callers -> Settings]
           /\ text' \in [Callers -> Texts(Settings) \cup {NoText}]
BY DEF End, Goto, TypeOK

\* Failures are bounded.
LEMMA Failing ==
    ASSUME TypeOK, Failure
    PROVE  failures' \in 0 .. MaxFailures
BY DEF Failure, TypeOK

-----------------------------------------------------------------------------
(* What the two actions do that encrypt and decrypt *)

\* A call has received a text, and it opens.
Received(c) ==
    /\ pc[c] = "found" /\ text[c] # NoText /\ text[c].data \in Settings
    /\ settings' = [settings EXCEPT ![c] = text[c].data]
    /\ text' = [text EXCEPT ![c] = NoText]
    /\ cache' = [cache EXCEPT ![Home[c]] = text[c].data]
    /\ stale' = stale \ {Home[c]}
    /\ Goto(c, "loaded")
    /\ crypt' \in [Processes -> Crypts]
    /\ UNCHANGED <<stored, provider, kind, sent, raced, intact, failures>>

\* Every text that is received opens.
LEMMA Receiving ==
    ASSUME TypeOK, Signed, NEW c \in Callers, Receive(c)
    PROVE  Received(c)
<1>1. text[c] \in Texts(Settings) /\ text[c].hmac = text[c].salt /\ crypt[Home[c]] \in Crypts
  BY DEF TypeOK, Signed, Receive
<1>2. AfterDecrypt(crypt[Home[c]], text[c]) \in Crypts /\ Decrypts(crypt[Home[c]], text[c])
  BY <1>1, SignedOpens
<1>3. text[c].data \in Settings
  BY <1>1 DEF Texts
<1>4. crypt' \in [Processes -> Crypts]
  BY <1>2 DEF Receive, TypeOK
<1>5. text[c] # NoText
  BY <1>1
<1> QED
  BY <1>2, <1>3, <1>4, <1>5 DEF Receive, Received

\* What a call has sent it can open.
LEMMA Reopening ==
    ASSUME TypeOK, Signed, Progress, NEW c \in Callers, Finish(c)
    PROVE  /\ crypt' \in [Processes -> Crypts]
           /\ cache' = [cache EXCEPT ![Home[c]] = Uncached]
           /\ stale' = stale \ {Home[c]}
           /\ End(c, "ended")
<1>1. text[c] \in Texts(Settings) /\ text[c].hmac = text[c].salt /\ crypt[Home[c]] \in Crypts
  BY DEF TypeOK, Signed, Progress, Sending, Finish
<1>2. AfterDecrypt(crypt[Home[c]], text[c]) \in Crypts /\ Decrypts(crypt[Home[c]], text[c])
  BY <1>1, SignedOpens
<1>3. crypt' \in [Processes -> Crypts]
  BY <1>2 DEF Finish, Reopen, TypeOK
<1> QED
  BY <1>2, <1>3 DEF Finish

\* A call has encrypted its changed document to t.
Encrypted(c, t) ==
    /\ pc[c] = IF kind[c] = "save" THEN "loaded" ELSE "answered"
    /\ t \in Texts(Settings) /\ t.hmac = t.salt /\ t.data = Changed(c)
    /\ text' = [text EXCEPT ![c] = t]
    /\ settings' = [settings EXCEPT ![c] = NoToken]
    /\ Goto(c, "send")
    /\ crypt' \in [Processes -> Crypts]
    /\ UNCHANGED <<stored, cache, provider, kind, history>>

\* A changed document is sent with a signature of its own.
LEMMA Changing ==
    ASSUME TypeOK, NEW c \in Callers, Change(c)
    PROVE  \E t \in Texts(Settings) : Encrypted(c, t)
<1> DEFINE p == Home[c]
<1>0. Changed(c) \in Settings /\ crypt[p] \in Crypts
  BY DEF Changed, TypeOK
<1>1. PICK s \in Salts : crypt' = [crypt EXCEPT ![p] = AfterEncrypt(@, s)]
  BY DEF Change
<1>2. crypt'[p] = AfterEncrypt(crypt[p], s)
  BY <1>1, <1>0 DEF TypeOK
<1> DEFINE d == Changed(c)
           k == crypt[p]
<1> HIDE DEF d, k
<1>4. /\ AfterEncrypt(k, s) \in Crypts
      /\ Encrypt(AfterEncrypt(k, s), d) \in Texts(Settings)
      /\ Encrypt(AfterEncrypt(k, s), d).hmac = Encrypt(AfterEncrypt(k, s), d).salt
      /\ Encrypt(AfterEncrypt(k, s), d).data = d
  <2>1. k \in Crypts /\ d \in Settings /\ s \in Salts
    BY <1>0, <1>1 DEF d, k
  <2> HIDE DEF Settings
  <2> QED
    BY <2>1, EncryptSigns
<1>5. crypt' \in [Processes -> Crypts]
  BY <1>1, <1>4 DEF TypeOK, k
<1> DEFINE t == Encrypt(AfterEncrypt(k, s), d)
<1>6. text' = [text EXCEPT ![c] = t]
  BY <1>2 DEF Change, TypeOK, d, k
<1>7. t \in Texts(Settings) /\ t.hmac = t.salt /\ t.data = Changed(c)
  BY <1>4 DEF d
<1> HIDE DEF t
<1> QED
  BY <1>5, <1>6, <1>7 DEF Change, Encrypted

-----------------------------------------------------------------------------
(* Every step preserves the invariant *)

\* Types are kept.
LEMMA TypeStep ==
    ASSUME TypeOK, Signed, Progress, Next
    PROVE  TypeOK'
<1>1. ASSUME NEW c \in Callers, NEW k \in Kinds, Begin(c, k)
      PROVE  TypeOK'
  BY <1>1 DEF Begin, Goto, provider, TypeOK, Kinds, Places
<1>2. ASSUME NEW c \in Callers, Find(c)
      PROVE  TypeOK'
  BY <1>2 DEF Find, Goto, provider, history, TypeOK, Places
<1>3. ASSUME NEW c \in Callers, Receive(c)
      PROVE  TypeOK'
  BY <1>3, Receiving DEF Received, Goto, provider, TypeOK, Places
<1>4. ASSUME NEW c \in Callers, FindFails(c)
      PROVE  TypeOK'
  BY <1>4, Ending, Failing DEF FindFails, End, Goto, provider, TypeOK, Places
<1>5. ASSUME NEW c \in Callers, NoRefreshToken(c)
      PROVE  TypeOK'
  BY <1>5 DEF NoRefreshToken, Goto, End, provider, history, TypeOK, Places
<1>6. ASSUME NEW c \in Callers, AskProvider(c)
      PROVE  TypeOK'
  BY <1>6 DEF AskProvider, Goto, worker, provider, history, TypeOK, Places
<1>7. ASSUME NEW c \in Callers, Refresh(c)
      PROVE  TypeOK'
  BY <1>7 DEF Refresh, Goto, worker, provider, history, TypeOK, Places
<1>8. ASSUME NEW c \in Callers, RefuseRefresh(c)
      PROVE  TypeOK'
  BY <1>8 DEF RefuseRefresh, Goto, End, provider, history, TypeOK, Places
<1>9. ASSUME NEW c \in Callers, Exchange(c)
      PROVE  TypeOK'
  BY <1>9 DEF Exchange, Goto, worker, provider, history, TypeOK, Places
<1>10. ASSUME NEW c \in Callers, ProviderFails(c)
      PROVE  TypeOK'
  <2>1. intact' \in BOOLEAN
    BY <1>10 DEF ProviderFails, TypeOK
  <2> QED
    BY <1>10, <2>1, Ending, Failing DEF ProviderFails, provider, TypeOK, Places
<1>11. ASSUME NEW c \in Callers, Change(c)
      PROVE  TypeOK'
  <2>1. PICK t \in Texts(Settings) : Encrypted(c, t)
    BY <1>11, Changing
  <2> QED
    BY <2>1 DEF Encrypted, Goto, provider, history, TypeOK, Places
<1>12. ASSUME NEW c \in Callers, Handle(c)
      PROVE  TypeOK'
  <2>1. text[c] \in Texts(Settings)
    BY <1>12 DEF Handle, Progress, Sending, TypeOK
  <2>2. intact' \in BOOLEAN
    BY <1>12 DEF Handle, TypeOK
  <2> QED
    BY <1>12, <2>1, <2>2 DEF Handle, Goto, provider, TypeOK, Places
<1>13. ASSUME NEW c \in Callers, Refuse(c)
      PROVE  TypeOK'
  BY <1>13, Failing DEF Refuse, Goto, worker, provider, TypeOK, Places
<1>14. ASSUME NEW c \in Callers, Finish(c)
      PROVE  TypeOK'
  <2>1. intact' \in BOOLEAN
    BY <1>14 DEF Finish, TypeOK
  <2> QED
    BY <1>14, <2>1, Ending, Reopening DEF Finish, provider, TypeOK, Places
<1>15. ASSUME NEW c \in Callers, SendFails(c)
      PROVE  TypeOK'
  <2>1. CASE kind[c] = "refresh"
    BY <1>15, <2>1, Failing DEF SendFails, Goto, provider, TypeOK, Places
  <2>2. CASE kind[c] # "refresh"
    <3>1. End(c, "ended") /\ (intact' <=> (intact /\ ~Carries(c)))
      BY <1>15, <2>2 DEF SendFails
    <3>2. intact' \in BOOLEAN
      BY <1>15, <2>2 DEF SendFails, TypeOK
    <3> QED
      BY <1>15, <2>2, <3>1, <3>2, Ending, Failing DEF SendFails, provider, TypeOK, Places
  <2> QED
    BY <2>1, <2>2
<1>16. ASSUME NEW c \in Callers, SendAgain(c)
      PROVE  TypeOK'
  BY <1>16 DEF SendAgain, Goto, worker, provider, history, TypeOK, Places
<1>17. ASSUME NEW c \in Callers, GiveUp(c)
      PROVE  TypeOK'
  <2>1. intact' \in BOOLEAN
    BY <1>17 DEF GiveUp, TypeOK
  <2> QED
    BY <1>17, <2>1, Ending DEF GiveUp, provider, TypeOK, Places
<1>18. ASSUME NEW p \in Processes, Expire(p)
      PROVE  TypeOK'
  BY <1>18 DEF Expire, provider, TypeOK
<1>19. ASSUME NEW p \in Processes, Restart(p)
      PROVE  TypeOK'
  <2>1. pc' \in [Callers -> Places]
    BY <1>19 DEF Restart, TypeOK, Places
  <2>2. settings' \in [Callers -> Settings]
    BY <1>19 DEF Restart, TypeOK
  <2>3. text' \in [Callers -> Texts(Settings) \cup {NoText}]
    BY <1>19 DEF Restart, TypeOK
  <2>4. crypt' \in [Processes -> Crypts]
    BY <1>19 DEF Restart, TypeOK, FreshCrypt, Crypts
  <2>5. intact' \in BOOLEAN
    BY <1>19 DEF Restart, TypeOK
  <2> QED
    BY <1>19, <2>1, <2>2, <2>3, <2>4, <2>5, Failing DEF Restart, provider, TypeOK
<1> QED
  BY <1>1, <1>2, <1>3, <1>4, <1>5, <1>6, <1>7, <1>8, <1>9, <1>10, <1>11, <1>12, <1>13, <1>14, <1>15, <1>16, <1>17, <1>18, <1>19 DEF Next

-----------------------------------------------------------------------------
(* The kinds of steps *)

\* The calls of S end and the processes of D drop their caches.
Closing(S, D) ==
    /\ \A c \in S :
          /\ Running(c)
          /\ pc'[c] \in {"ended", "refused"}
          /\ pc'[c] = "refused" =>
                pc[c] = "provider" /\ kind[c] = "refresh" /\ settings[c] \notin valid
          /\ settings'[c] = NoToken
          /\ text'[c] = NoText
          /\ intact' => ~Carries(c)
    /\ \A c \in Callers \ S :
          pc'[c] = pc[c] /\ settings'[c] = settings[c] /\ text'[c] = text[c]
    /\ \A p \in D : cache'[p] = Uncached
    /\ \A p \in Processes \ D : cache'[p] = cache[p] /\ (p \in stale' <=> p \in stale)
    /\ intact' => intact
    /\ UNCHANGED <<stored, provider, kind, sent, raced>>

\* A call gets to another place.
Moving(c) ==
    /\ \/ /\ pc[c] = "loaded" /\ kind[c] # "save"
          /\ kind[c] = "refresh" => settings[c] # NoToken
          /\ Goto(c, "provider")
       \/ /\ Sending(c)
          /\ \E place \in {"send", "unsent", "kept"} : Goto(c, place)
    /\ UNCHANGED <<stored, cache, settings, text, provider, kind, sent, stale, raced, intact>>

\* Every step is of one of these kinds.
LEMMA Steps ==
    ASSUME TypeOK, Signed, Progress, Next
    PROVE  \/ \E c \in Callers :
                \/ \E k \in Kinds : Begin(c, k)
                \/ Find(c) \/ Received(c)
                \/ Moving(c) \/ Refresh(c) \/ Exchange(c) \/ Handle(c)
                \/ \E t \in Texts(Settings) : Encrypted(c, t)
           \/ \E S \in SUBSET Callers, D \in SUBSET Processes : Closing(S, D)
<1> DEFINE Closes == \E S \in SUBSET Callers, D \in SUBSET Processes : Closing(S, D)
<1>1. ASSUME NEW c \in Callers, FindFails(c) \/ NoRefreshToken(c) \/ RefuseRefresh(c)
      PROVE  Closing({c}, {})
  <2>1. pc[c] \in {"find", "found", "loaded", "provider"} /\ ~Carries(c) /\ Running(c)
    BY <1>1 DEF FindFails, NoRefreshToken, RefuseRefresh, Progress, Early, Carries, Running
  <2> QED
    BY <1>1, <2>1 DEF FindFails, NoRefreshToken, RefuseRefresh, Closing, End, Goto, TypeOK, provider, history
<1>2. ASSUME NEW c \in Callers, ProviderFails(c) \/ GiveUp(c) \/ (SendFails(c) /\ kind[c] # "refresh")
      PROVE  Closing({c}, {})
  <2>1. End(c, "ended") /\ Running(c)
        /\ UNCHANGED <<stored, cache, provider, kind, sent, stale, raced>>
    BY <1>2 DEF ProviderFails, GiveUp, SendFails, Running
  <2>2. intact' => intact /\ ~Carries(c)
    BY <1>2 DEF ProviderFails, GiveUp, SendFails
  <2> QED
    BY <2>1, <2>2 DEF Closing, End, Goto, TypeOK, provider
<1>3. ASSUME NEW c \in Callers, Finish(c)
      PROVE  Closing({c}, {Home[c]})
  <2>1. End(c, "ended") /\ Running(c) /\ UNCHANGED <<stored, provider, kind, sent, raced>>
    BY <1>3, Reopening DEF Finish, Running
  <2>2. intact' => intact /\ ~Carries(c)
    BY <1>3 DEF Finish
  <2>3. cache' = [cache EXCEPT ![Home[c]] = Uncached] /\ stale' = stale \ {Home[c]}
    BY <1>3, Reopening
  <2> QED
    BY <2>1, <2>2, <2>3 DEF Closing, End, Goto, TypeOK, provider
<1>4. ASSUME NEW p \in Processes, Expire(p)
      PROVE  Closing({}, {p})
  BY <1>4 DEF Expire, Closing, TypeOK, provider
<1>5. ASSUME NEW p \in Processes, Restart(p)
      PROVE  Closing({c \in Callers : Home[c] = p /\ Running(c)}, {p})
  BY <1>5 DEF Restart, Closing, TypeOK, provider
<1>6. ASSUME NEW c \in Callers, AskProvider(c) \/ Refuse(c) \/ SendAgain(c)
                                \/ (SendFails(c) /\ kind[c] = "refresh")
      PROVE  Moving(c)
  BY <1>6 DEF AskProvider, Refuse, SendAgain, SendFails, Moving, Sending, worker, provider, history
<1>7. ASSUME NEW c \in Callers,
             FindFails(c) \/ NoRefreshToken(c) \/ RefuseRefresh(c) \/ ProviderFails(c)
             \/ GiveUp(c) \/ (SendFails(c) /\ kind[c] # "refresh") \/ Finish(c)
      PROVE  Closes
  <2>1. Home[c] \in Processes
    OBVIOUS
  <2> QED
    BY <1>1, <1>2, <1>3, <1>7, <2>1
<1>8. ASSUME NEW p \in Processes, Expire(p) \/ Restart(p)
      PROVE  Closes
  BY <1>4, <1>5, <1>8
<1>10. CASE \E p \in Processes : Expire(p) \/ Restart(p)
  BY <1>8, <1>10
<1>11. ASSUME NEW c \in Callers,
              \/ \E k \in Kinds : Begin(c, k)
              \/ Find(c) \/ Receive(c) \/ FindFails(c)
              \/ NoRefreshToken(c) \/ AskProvider(c)
              \/ Refresh(c) \/ RefuseRefresh(c) \/ Exchange(c) \/ ProviderFails(c)
              \/ Change(c)
              \/ Handle(c) \/ Refuse(c) \/ Finish(c) \/ SendFails(c)
              \/ SendAgain(c) \/ GiveUp(c)
       PROVE  \/ \E k \in Kinds : Begin(c, k)
              \/ Find(c) \/ Received(c)
              \/ Moving(c) \/ Refresh(c) \/ Exchange(c) \/ Handle(c)
              \/ \E t \in Texts(Settings) : Encrypted(c, t)
              \/ Closes
  BY <1>6, <1>7, <1>11, Receiving, Changing
<1> QED
  BY <1>10, <1>11 DEF Next

-----------------------------------------------------------------------------
(* Every kind of step preserves the rest of the invariant *)

\* Whoever writes a text signs it with its own key, and no call meets a text
\* it cannot open.
LEMMA SignedStep ==
    ASSUME TypeOK, Signed, Progress, Next
    PROVE  Signed'
<1>1. ASSUME NEW c \in Callers, NEW k \in Kinds, Begin(c, k)
      PROVE  Signed'
  BY <1>1 DEF Begin, Goto, provider, TypeOK, Signed, TextsOpen
<1>2. ASSUME NEW c \in Callers, Find(c)
      PROVE  Signed'
  BY <1>2 DEF Find, Goto, provider, history, TypeOK, Signed, TextsOpen
<1>3. ASSUME NEW c \in Callers, Received(c)
      PROVE  Signed'
  BY <1>3 DEF Received, Goto, provider, TypeOK, Signed, TextsOpen
<1>4. ASSUME NEW c \in Callers, Moving(c)
      PROVE  Signed'
  BY <1>4 DEF Moving, Goto, provider, TypeOK, Signed, TextsOpen
<1>5. ASSUME NEW c \in Callers, Refresh(c)
      PROVE  Signed'
  BY <1>5 DEF Refresh, Goto, worker, provider, history, TypeOK, Signed, TextsOpen
<1>6. ASSUME NEW c \in Callers, Exchange(c)
      PROVE  Signed'
  BY <1>6 DEF Exchange, Goto, worker, provider, history, TypeOK, Signed, TextsOpen
<1>7. ASSUME NEW c \in Callers, NEW t \in Texts(Settings), Encrypted(c, t)
      PROVE  Signed'
  BY <1>7 DEF Encrypted, Goto, provider, history, TypeOK, Signed, TextsOpen
<1>8. ASSUME NEW c \in Callers, Handle(c)
      PROVE  Signed'
  BY <1>8 DEF Handle, Goto, provider, TypeOK, Signed, TextsOpen, Progress, Sending
<1>9. ASSUME NEW S \in SUBSET Callers, NEW D \in SUBSET Processes, Closing(S, D)
      PROVE  Signed'
  BY <1>9 DEF Closing, provider, TypeOK, Signed, TextsOpen
<1> QED
  BY <1>1, <1>2, <1>3, <1>4, <1>5, <1>6, <1>7, <1>8, <1>9, Steps

\* A new token can only be taken back by a call that works with it, and nobody
\* does before the worker-api has it.
LEMMA ProgressStep ==
    ASSUME TypeOK, Signed, Progress, Private, Next
    PROVE  Progress'
<1>1. ASSUME NEW c \in Callers, NEW k \in Kinds, Begin(c, k)
      PROVE  Progress'
  BY <1>1 DEF Begin, Goto, provider, TypeOK, Progress, Early, Sending, Issues
<1>2. ASSUME NEW c \in Callers, Find(c)
      PROVE  Progress'
  BY <1>2 DEF Find, Goto, provider, history, TypeOK, Progress, Early, Sending, Issues
<1>3. ASSUME NEW c \in Callers, Received(c)
      PROVE  Progress'
  BY <1>3 DEF Received, Goto, provider, TypeOK, Progress, Early, Sending, Issues
<1>4. ASSUME NEW c \in Callers, Moving(c)
      PROVE  Progress'
  BY <1>4 DEF Moving, Goto, provider, TypeOK, Progress, Early, Sending, Issues
<1>5. ASSUME NEW c \in Callers, Refresh(c)
      PROVE  Progress'
  BY <1>5 DEF Refresh, Goto, worker, provider, history, TypeOK, Progress, Private, Early, Sending, Issues
<1>6. ASSUME NEW c \in Callers, Exchange(c)
      PROVE  Progress'
  BY <1>6 DEF Exchange, Goto, worker, provider, history, TypeOK, Progress, Early, Sending, Issues
<1>7. ASSUME NEW c \in Callers, NEW t \in Texts(Settings), Encrypted(c, t)
      PROVE  Progress'
  BY <1>7 DEF Encrypted, Goto, provider, history, TypeOK, Progress, Early, Sending, Issues, Changed
<1>8. ASSUME NEW c \in Callers, Handle(c)
      PROVE  Progress'
  BY <1>8 DEF Handle, Goto, provider, TypeOK, Progress, Early, Sending, Issues
<1>9. ASSUME NEW S \in SUBSET Callers, NEW D \in SUBSET Processes, Closing(S, D)
      PROVE  Progress'
  BY <1>9 DEF Closing, provider, TypeOK, Progress, Early, Sending, Issues, Running
<1> QED
  BY <1>1, <1>2, <1>3, <1>4, <1>5, <1>6, <1>7, <1>8, <1>9, Steps

\* A document that is not sent is not read.
LEMMA PrivateStep ==
    ASSUME TypeOK, Signed, Progress, Private, Next
    PROVE  Private'
<1>1. ASSUME NEW c \in Callers, NEW k \in Kinds, Begin(c, k)
      PROVE  Private'
  BY <1>1 DEF Begin, Goto, provider, TypeOK, Private, Progress, Early, Sending
<1>2. ASSUME NEW c \in Callers, Find(c)
      PROVE  Private'
  BY <1>2 DEF Find, Goto, provider, history, TypeOK, Private, Progress, Early, Sending
<1>3. ASSUME NEW c \in Callers, Received(c)
      PROVE  Private'
  BY <1>3 DEF Received, Goto, provider, TypeOK, Private, Progress, Early, Sending
<1>4. ASSUME NEW c \in Callers, Moving(c)
      PROVE  Private'
  BY <1>4 DEF Moving, Goto, provider, TypeOK, Private, Progress, Early, Sending
<1>5. ASSUME NEW c \in Callers, Refresh(c)
      PROVE  Private'
  BY <1>5 DEF Refresh, Goto, worker, provider, history, TypeOK, Private, Progress, Early, Sending
<1>6. ASSUME NEW c \in Callers, Exchange(c)
      PROVE  Private'
  BY <1>6 DEF Exchange, Goto, worker, provider, history, TypeOK, Private, Progress, Early, Sending
<1>7. ASSUME NEW c \in Callers, NEW t \in Texts(Settings), Encrypted(c, t)
      PROVE  Private'
  BY <1>7 DEF Encrypted, Goto, provider, history, TypeOK, Private, Progress, Early, Sending, Changed
<1>8. ASSUME NEW c \in Callers, Handle(c)
      PROVE  Private'
  BY <1>8 DEF Handle, Goto, provider, TypeOK, Private, Progress, Early, Sending
<1>9. ASSUME NEW S \in SUBSET Callers, NEW D \in SUBSET Processes, Closing(S, D)
      PROVE  Private'
  BY <1>9 DEF Closing, provider, TypeOK, Private, Progress, Early, Sending
<1> QED
  BY <1>1, <1>2, <1>3, <1>4, <1>5, <1>6, <1>7, <1>8, <1>9, Steps

\* Tokens are valid when they are issued, and a provider that takes one back has
\* issued another.
LEMMA HeldStep ==
    ASSUME TypeOK, Signed, Progress, Held, Next
    PROVE  Held'
<1>1. ASSUME NEW c \in Callers, NEW k \in Kinds, Begin(c, k)
      PROVE  Held'
  BY <1>1 DEF Begin, Goto, provider, TypeOK, Held, Good
<1>2. ASSUME NEW c \in Callers, Find(c)
      PROVE  Held'
  BY <1>2 DEF Find, Goto, provider, history, TypeOK, Held, Good
<1>3. ASSUME NEW c \in Callers, Received(c)
      PROVE  Held'
  BY <1>3 DEF Received, Goto, provider, TypeOK, Held, Good
<1>4. ASSUME NEW c \in Callers, Moving(c)
      PROVE  Held'
  BY <1>4 DEF Moving, Goto, provider, TypeOK, Held, Good
<1>5. ASSUME NEW c \in Callers, Refresh(c)
      PROVE  Held'
  BY <1>5 DEF Refresh, Goto, worker, provider, history, TypeOK, Held, Good
<1>6. ASSUME NEW c \in Callers, Exchange(c)
      PROVE  Held'
  BY <1>6 DEF Exchange, Goto, worker, provider, history, TypeOK, Held, Good
<1>7. ASSUME NEW c \in Callers, NEW t \in Texts(Settings), Encrypted(c, t)
      PROVE  Held'
  BY <1>7 DEF Encrypted, Goto, provider, history, TypeOK, Progress, Held, Good, Sending, Changed, Issues
<1>8. ASSUME NEW c \in Callers, Handle(c)
      PROVE  Held'
  BY <1>8 DEF Handle, Goto, provider, TypeOK, Progress, Held, Good, Sending
<1>9. ASSUME NEW S \in SUBSET Callers, NEW D \in SUBSET Processes, Closing(S, D)
      PROVE  Held'
  BY <1>9 DEF Closing, provider, TypeOK, Held, Good
<1> QED
  BY <1>1, <1>2, <1>3, <1>4, <1>5, <1>6, <1>7, <1>8, <1>9, Steps

\* The valid token is handed on.
LEMMA SurvivesStep ==
    ASSUME TypeOK, Signed, Progress, Held, TokenSurvives, Next
    PROVE  TokenSurvives'
<1>1. ASSUME NEW c \in Callers, NEW k \in Kinds, Begin(c, k)
      PROVE  TokenSurvives'
  BY <1>1 DEF Begin, Goto, provider, TypeOK, Progress, Early, TokenSurvives, Carries, Running
<1>2. ASSUME NEW c \in Callers, Find(c)
      PROVE  TokenSurvives'
  BY <1>2 DEF Find, Goto, provider, history, TypeOK, Progress, Early, TokenSurvives, Carries, Running
<1>3. ASSUME NEW c \in Callers, Received(c)
      PROVE  TokenSurvives'
  BY <1>3 DEF Received, Goto, provider, TypeOK, Progress, Early, TokenSurvives, Carries, Running
<1>4. ASSUME NEW c \in Callers, Moving(c)
      PROVE  TokenSurvives'
  BY <1>4 DEF Moving, Goto, provider, TypeOK, Progress, Early, TokenSurvives, Carries, Running
<1>5. ASSUME NEW c \in Callers, Refresh(c)
      PROVE  TokenSurvives'
  BY <1>5 DEF Refresh, Goto, worker, provider, history, TypeOK, Progress, Held, Good, Early, TokenSurvives, Carries, Running
<1>6. ASSUME NEW c \in Callers, Exchange(c)
      PROVE  TokenSurvives'
  BY <1>6 DEF Exchange, Goto, worker, provider, history, TypeOK, Progress, Early, TokenSurvives, Carries, Running
<1>7. ASSUME NEW c \in Callers, NEW t \in Texts(Settings), Encrypted(c, t)
      PROVE  TokenSurvives'
  BY <1>7 DEF Encrypted, Goto, provider, history, TypeOK, Progress, Early, TokenSurvives, Carries, Running
<1>8. ASSUME NEW c \in Callers, Handle(c)
      PROVE  TokenSurvives'
  <2>1. /\ pc[c] = "send" /\ stored' = text[c] /\ sent' = sent \cup {c}
        /\ pc' = [pc EXCEPT ![c] = "sent"]
        /\ UNCHANGED <<valid, rotates, kind>>
        /\ text[c] # NoText /\ kind[c] \in Kinds
    BY <1>8 DEF Handle, Goto, provider, TypeOK, Progress, Sending
  <2> SUFFICES ASSUME intact', valid # {}
               PROVE  text[c].data \in valid \/ \E o \in Callers : Carries(o)'
    BY <2>1 DEF TokenSurvives
  <2>2. intact /\ ((kind[c] # "save" /\ c \notin sent) \/ text[c].data = stored.data)
    BY <1>8 DEF Handle
  <2>3. CASE kind[c] # "save" /\ c \notin sent
    <3>1. CASE Issues(c)
      BY <2>1, <2>3, <3>1 DEF Progress, Sending
    <3>2. CASE ~Issues(c)
      BY <2>1, <2>3, <3>2 DEF Progress, Sending, Issues, Kinds, Held, Good
    <3> QED
      BY <3>1, <3>2
  <2>4. CASE (kind[c] = "save" \/ c \in sent) /\ text[c].data = stored.data
    <3>1. ~Carries(c)
      BY <2>4 DEF Carries, Progress
    <3>2. \A o \in Callers \ {c} : Carries(o) => Carries(o)'
      BY <2>1 DEF Carries, Running, TypeOK
    <3> QED
      BY <2>2, <2>4, <3>1, <3>2 DEF TokenSurvives
  <2> QED
    BY <2>2, <2>3, <2>4
<1>9. ASSUME NEW S \in SUBSET Callers, NEW D \in SUBSET Processes, Closing(S, D)
      PROVE  TokenSurvives'
  BY <1>9 DEF Closing, provider, TypeOK, Progress, Early, TokenSurvives, Carries, Running
<1> QED
  BY <1>1, <1>2, <1>3, <1>4, <1>5, <1>6, <1>7, <1>8, <1>9, Steps

\* One call after the other: each begins with what the last one stored.
LEMMA SerialStep ==
    ASSUME TypeOK, Signed, Progress, Serial, Next
    PROVE  Serial'
<1>1. ASSUME NEW c \in Callers, NEW k \in Kinds, Begin(c, k)
      PROVE  Serial'
  BY <1>1 DEF Begin, Goto, provider, TypeOK, Serial, Progress, Sending, Running
<1>2. ASSUME NEW c \in Callers, Find(c)
      PROVE  Serial'
  BY <1>2 DEF Find, Goto, provider, history, TypeOK, Serial, Progress, Sending, Running
<1>3. ASSUME NEW c \in Callers, Received(c)
      PROVE  Serial'
  BY <1>3 DEF Received, Goto, provider, TypeOK, Serial, Progress, Sending, Running
<1>4. ASSUME NEW c \in Callers, Moving(c)
      PROVE  Serial'
  BY <1>4 DEF Moving, Goto, provider, TypeOK, Serial, Progress, Sending, Running
<1>5. ASSUME NEW c \in Callers, Refresh(c)
      PROVE  Serial'
  BY <1>5 DEF Refresh, Goto, worker, provider, history, TypeOK, Serial, Progress, Sending, Running
<1>6. ASSUME NEW c \in Callers, Exchange(c)
      PROVE  Serial'
  BY <1>6 DEF Exchange, Goto, worker, provider, history, TypeOK, Serial, Progress, Sending, Running
<1>7. ASSUME NEW c \in Callers, NEW t \in Texts(Settings), Encrypted(c, t)
      PROVE  Serial'
  BY <1>7 DEF Encrypted, Goto, provider, history, TypeOK, Serial, Progress, Sending, Running
<1>8. ASSUME NEW c \in Callers, Handle(c)
      PROVE  Serial'
  BY <1>8 DEF Handle, Goto, provider, TypeOK, Serial, Progress, Sending, Running
<1>9. ASSUME NEW S \in SUBSET Callers, NEW D \in SUBSET Processes, Closing(S, D)
      PROVE  Serial'
  BY <1>9 DEF Closing, provider, TypeOK, Serial, Progress, Sending, Running
<1> QED
  BY <1>1, <1>2, <1>3, <1>4, <1>5, <1>6, <1>7, <1>8, <1>9, Steps

\* A refused refresh is one that was not alone.
LEMMA RefusedStep ==
    ASSUME TypeOK, Signed, Progress, Held, TokenSurvives, Serial, RefusedIsRace, Next
    PROVE  RefusedIsRace'
<1>1. ASSUME NEW c \in Callers, NEW k \in Kinds, Begin(c, k)
      PROVE  RefusedIsRace'
  BY <1>1 DEF Begin, Goto, provider, TypeOK, RefusedIsRace
<1>2. ASSUME NEW c \in Callers, Find(c)
      PROVE  RefusedIsRace'
  BY <1>2 DEF Find, Goto, provider, history, TypeOK, RefusedIsRace
<1>3. ASSUME NEW c \in Callers, Received(c)
      PROVE  RefusedIsRace'
  BY <1>3 DEF Received, Goto, provider, TypeOK, RefusedIsRace
<1>4. ASSUME NEW c \in Callers, Moving(c)
      PROVE  RefusedIsRace'
  BY <1>4 DEF Moving, Goto, provider, TypeOK, RefusedIsRace
<1>5. ASSUME NEW c \in Callers, Refresh(c)
      PROVE  RefusedIsRace'
  BY <1>5 DEF Refresh, Goto, worker, provider, history, TypeOK, RefusedIsRace
<1>6. ASSUME NEW c \in Callers, Exchange(c)
      PROVE  RefusedIsRace'
  BY <1>6 DEF Exchange, Goto, worker, provider, history, TypeOK, RefusedIsRace
<1>7. ASSUME NEW c \in Callers, NEW t \in Texts(Settings), Encrypted(c, t)
      PROVE  RefusedIsRace'
  BY <1>7 DEF Encrypted, Goto, provider, history, TypeOK, RefusedIsRace
<1>8. ASSUME NEW c \in Callers, Handle(c)
      PROVE  RefusedIsRace'
  BY <1>8 DEF Handle, Goto, provider, TypeOK, RefusedIsRace
<1>9. ASSUME NEW S \in SUBSET Callers, NEW D \in SUBSET Processes, Closing(S, D)
      PROVE  RefusedIsRace'
  BY <1>9 DEF Closing, provider, TypeOK, RefusedIsRace, Serial, TokenSurvives, Held, Good, Carries, Running, Progress, Early
<1> QED
  BY <1>1, <1>2, <1>3, <1>4, <1>5, <1>6, <1>7, <1>8, <1>9, Steps

-----------------------------------------------------------------------------
(* The theorems *)

\* The initial states satisfy the invariant.
LEMMA InitInv ==
    Init => IInv
<1> SUFFICES ASSUME Init PROVE IInv
  OBVIOUS
<1>1. PICK t \in {Original, NoToken}, s \in Salts :
         /\ stored = [salt |-> s, hmac |-> s, data |-> t]
         /\ valid = {t} \cap Ids
  BY DEF Init
<1>2. stored \in Texts(Settings) /\ stored.hmac = stored.salt /\ stored.data = t
  BY <1>1 DEF Texts
<1>3. TypeOK
  <2>1. FreshCrypt \in Crypts
    BY DEF FreshCrypt, Crypts
  <2>2. crypt \in [Processes -> Crypts] /\ cache \in [Processes -> Settings \cup {Uncached}]
    BY <2>1 DEF Init
  <2>3. pc \in [Callers -> Places] /\ kind \in [Callers -> Kinds]
    BY DEF Init, Places, Kinds
  <2>4. /\ settings \in [Callers -> Settings]
        /\ text \in [Callers -> Texts(Settings) \cup {NoText}]
    BY DEF Init
  <2>5. failures \in 0 .. MaxFailures
    BY DEF Init
  <2> QED
    BY <1>1, <1>2, <2>2, <2>3, <2>4, <2>5 DEF Init, TypeOK
<1>4. Signed
  BY <1>2 DEF Init, Signed, TextsOpen
<1>5. Progress
  BY <1>1 DEF Init, Progress, Early, Sending
<1>6. Private
  BY <1>2 DEF Init, Private
<1>7. Held /\ TokenSurvives
  BY <1>1, <1>2 DEF Init, Held, Good, TokenSurvives
<1>8. Serial /\ RefusedIsRace
  BY DEF Init, Serial, RefusedIsRace, Running
<1> QED
  BY <1>3, <1>4, <1>5, <1>6, <1>7, <1>8 DEF IInv

\* Every step preserves it.
LEMMA StepInv ==
    IInv /\ [Next]_vars => IInv'
<1> SUFFICES ASSUME IInv, [Next]_vars PROVE IInv'
  OBVIOUS
<1>1. CASE Next
  BY <1>1, TypeStep, SignedStep, ProgressStep, PrivateStep, HeldStep, SurvivesStep,
     SerialStep, RefusedStep DEF IInv
<1>2. CASE UNCHANGED vars
  <2>1. TypeOK' /\ Signed'
    BY <1>2 DEF vars, worker, provider, history, IInv, TypeOK, Signed, TextsOpen
  <2>2. Progress' /\ Private'
    BY <1>2 DEF vars, worker, provider, history, IInv, Progress, Private, Early, Sending, Issues
  <2>3. Held' /\ TokenSurvives'
    BY <1>2 DEF vars, worker, provider, history, IInv, Held, Good, TokenSurvives, Carries, Running
  <2>4. Serial' /\ RefusedIsRace'
    BY <1>2 DEF vars, worker, provider, history, IInv, Serial, RefusedIsRace, Running
  <2> QED
    BY <2>1, <2>2, <2>3, <2>4 DEF IInv
<1> QED
  BY <1>1, <1>2

\* The inductive invariant holds in every state.
THEOREM Invariance == Spec => []IInv
BY InitInv, StepInv, PTL DEF Spec

\* The variables have their types.
THEOREM TypeCorrect == Spec => []TypeOK
<1>1. IInv => TypeOK
  BY DEF IInv
<1> QED
  BY <1>1, Invariance, PTL

\* What one process encrypted every other one can decrypt, whatever the objects
\* of both were used for before (WindWalkerCrypt).
THEOREM TextsAlwaysOpen == Spec => []TextsOpen
<1>1. IInv => TextsOpen
  BY DEF IInv, Signed
<1> QED
  BY <1>1, Invariance, PTL

\* Unless a new token is lost on its way or an older document is written over a
\* newer one, the install keeps a token that the provider accepts, in any number
\* of processes (AOAuth2Application.refreshAuthorization and
\* setAuthorizationToken).
THEOREM TokensSurvive == Spec => []TokenSurvives
<1>1. IInv => TokenSurvives
  BY DEF IInv
<1> QED
  BY <1>1, Invariance, PTL

\* Calls one after the other, none with a cache that is too old, are never
\* refused by the provider (Repository.clearCache after every write).
THEOREM RefusalsAreRaces == Spec => []RefusedIsRace
<1>1. IInv => RefusedIsRace
  BY DEF IInv
<1> QED
  BY <1>1, Invariance, PTL
=============================================================================
