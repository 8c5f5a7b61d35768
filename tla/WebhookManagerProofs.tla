------------------------- MODULE WebhookManagerProofs -------------------------
(***************************************************************************)
(* Theorems about WebhookManager, for any number of calls, events and      *)
(* targets.                                                                *)
(***************************************************************************)
EXTENDS WebhookManager, TLAPS

USE WebhookAssumption

(***************************************************************************)
(* The inductive invariant                                                 *)
(***************************************************************************)
\* A webhook that has had a document: its job has come past the write.
Known(h) == Subscribes(h[1]) /\ step[h[1]][h] \in {"written", "done", "failed"}

\* Calls that have no jobs yet
Fresh ==
    \A c \in Calls : pc[c] \in {"idle", "load", "find", "found"} =>
        /\ \A h \in Hooks : step[c][h] = "none"
        /\ pc[c] = "idle" => body[c] = NoBody
        /\ pc[c] \in {"find", "found"} => ~Subscribes(c)

\* Lists, old or new, only name webhooks that have had a document.
Lists == \A h \in Hooks : h \in stored \cup cache \/ (\E c \in Calls : h \in seen[c]) => Known(h)

\* Who works on a webhook: the call that makes it, and later those that
\* unsubscribe it.
Workers ==
    \A c \in Calls, h \in Hooks : step[c][h] # "none" =>
        IF Subscribes(c) THEN h[1] = c ELSE Known(h)

\* What the provider has done when its answer is on the way
Granted ==
    \A c \in Calls, h \in Hooks : step[c][h] = "granted" => (h \in registered <=> Subscribes(c))

\* What an unsubscribing job leaves
Unsubscribed ==
    \A c \in Calls, h \in Hooks :
        ~Subscribes(c) /\ step[c][h] \in {"written", "done"} /\ h \in stored => h \in flagged

\* and what a subscribing one leaves
Subscribed ==
    \A c \in Calls, h \in Hooks :
        Subscribes(c) /\ step[c][h] \in {"written", "done"} => h \in stored \/ TakenBack(h)

\* A call that succeeds has no job left to do.
Settled ==
    \A c \in Calls : pc[c] = "ok" => \A h \in Hooks : step[c][h] \in {"none"} \cup Done

IInv ==
    /\ TypeOK /\ Fresh /\ Lists /\ Workers /\ Granted /\ Unsubscribed /\ Subscribed /\ Settled
    /\ StoresAgree

(***************************************************************************)
(* Lemmas                                                                  *)
(***************************************************************************)
\* The owner of a webhook is a call.
LEMMA HookOwner == \A h \in Hooks : h[1] \in Calls
  BY DEF Hooks

\* What setting the step of one job changes
LEMMA OneStep ==
  ASSUME TypeOK, NEW c \in Calls, NEW h \in Hooks, NEW s \in Steps, SetStep(c, h, s)
  PROVE  /\ step' \in [Calls -> [Hooks -> Steps]]
         /\ step'[c][h] = s
         /\ \A d \in Calls, g \in Hooks : d # c \/ g # h => step'[d][g] = step[d][g]
  BY DEF TypeOK, SetStep

\* What a change of place changes
LEMMA OnePlace ==
  ASSUME TypeOK, NEW c \in Calls, NEW p \in Places, Goto(c, p)
  PROVE  /\ pc' \in [Calls -> Places]
         /\ pc'[c] = p
         /\ \A d \in Calls : d # c => pc'[d] = pc[d]
  BY DEF TypeOK, Goto

\* What the end of a job does to its call
LEMMA Settling ==
  ASSUME TypeOK, NEW c \in Calls, NEW h \in Hooks, Settle(c, h)
  PROVE  /\ pc' \in [Calls -> Places]
         /\ pc'[c] = pc[c] \/ (/\ pc[c] = "working" /\ pc'[c] = "ok"
                               /\ \A g \in Hooks : g # h => step[c][g] \in {"none"} \cup Done)
         /\ \A d \in Calls : d # c => pc'[d] = pc[d]
  BY DEF TypeOK, Settle, Places

\* The initial states satisfy the invariant.
LEMMA InitIInv == Init => IInv
  <1> SUFFICES ASSUME Init PROVE IInv
    OBVIOUS
  <1> USE HookOwner
  <1>1. PICK e \in Events, t \in Targets :
            body = [c \in Calls |-> IF c \in Earlier
                                    THEN [kind |-> "subscribe", name |-> e, target |-> t] ELSE NoBody]
    BY DEF Init
  <1>2. [kind |-> "subscribe", name |-> e, target |-> t] \in Bodies
    BY <1>1 DEF Bodies
  <1>3. \A c \in Calls : Subscribes(c) <=> c \in Earlier
    <2> TAKE c \in Calls
    <2>1. CASE c \in Earlier
      <3>1. body[c] = [kind |-> "subscribe", name |-> e, target |-> t]
        BY <1>1, <2>1
      <3> QED
        BY <2>1, <3>1 DEF Subscribes
    <2>2. CASE c \notin Earlier
      <3>1. body[c] = NoBody
        BY <1>1, <2>2
      <3> QED
        BY <2>2, <3>1 DEF Subscribes, NoBody
    <2> QED
      BY <2>1, <2>2
  <1>4. TypeOK
    BY <1>1, <1>2 DEF Init, TypeOK, Places, Steps, Done, Pending
  <1>5. \A c \in Calls, h \in Hooks :
            step[c][h] = IF c \in Earlier /\ h \in Chosen(c) THEN "done" ELSE "none"
    BY DEF Init
  <1>6. \A c \in Calls, h \in Hooks : step[c][h] # "none" => c \in Earlier /\ h[1] = c
    BY <1>5 DEF Chosen
  <1>7. Fresh
    BY <1>1, <1>5 DEF Init, Fresh
  <1>8. Lists
    BY <1>3, <1>6 DEF Init, Lists, Known
  <1>9. Workers
    BY <1>3, <1>6 DEF Workers
  <1>10. Granted
    BY <1>5 DEF Granted
  <1>11. Unsubscribed
    BY <1>3, <1>6 DEF Unsubscribed
  <1>12. Settled
    BY <1>5 DEF Settled, Done
  <1>13. StoresAgree
    BY DEF Init, StoresAgree
  <1>14. Subscribed
    <2>1. ASSUME NEW c \in Calls, NEW h \in Hooks, step[c][h] # "none" PROVE h \in stored
      <3>1. c = h[1] /\ step[c][h] = "done"
        BY <1>5, <1>6, <2>1
      <3> QED
        BY <3>1 DEF Init
    <2> QED
      BY <2>1 DEF Subscribed
  <1> QED
    BY <1>4, <1>7, <1>8, <1>9, <1>10, <1>11, <1>12, <1>13, <1>14 DEF IInv

(***************************************************************************)
(* One job goes on                                                         *)
(***************************************************************************)
\* What holds of a step of one job, whatever it does to the stores
LEMMA JobKeeps ==
  ASSUME IInv, NEW c \in Calls, NEW h \in Hooks, NEW s \in Steps, SetStep(c, h, s), s # "none",
         step[c][h] \in Pending, step[c][h] = "written" => s \in {"done", "failed"},
         UNCHANGED <<body, seen>>, cache' \subseteq cache,
         \A d \in Calls : d # c => pc'[d] = pc[d],
         pc'[c] \in {pc[c], "ok", "failed"}
  PROVE  /\ Fresh' /\ Workers'
         /\ \A g \in Hooks : Known(g) => Known(g)'
         /\ stored' \subseteq stored \cup {g \in Hooks : Known(g)'} => Lists'
  <1> USE HookOwner
  <1>1. TypeOK /\ Fresh /\ Lists /\ Workers
    BY DEF IInv
  <1>2. /\ step'[c][h] = s
        /\ \A d \in Calls, g \in Hooks : d # c \/ g # h => step'[d][g] = step[d][g]
    BY <1>1, OneStep
  <1>3. step[c][h] # "none" /\ pc[c] \notin {"idle", "load", "find", "found"}
    BY <1>1 DEF Fresh, Pending
  <1>4. \A d \in Calls : Subscribes(d) <=> Subscribes(d)'
    BY DEF Subscribes
  <1>5. ASSUME NEW g \in Hooks, Known(g) PROVE Known(g)'
    <2>1. step'[g[1]][g] \in {"written", "done", "failed"}
      BY <1>2, <1>5 DEF Known, Pending
    <2> QED
      BY <1>4, <1>5, <2>1 DEF Known
  <1>6. Fresh'
    BY <1>1, <1>2, <1>3, <1>4 DEF Fresh
  <1>7. Workers'
    <2> SUFFICES ASSUME NEW d \in Calls, NEW g \in Hooks, step'[d][g] # "none"
                 PROVE  IF Subscribes(d)' THEN g[1] = d ELSE Known(g)'
      BY DEF Workers
    <2>1. step[d][g] # "none"
      BY <1>2, <1>3
    <2>2. CASE Subscribes(d)
      BY <1>1, <1>4, <2>1, <2>2 DEF Workers
    <2>3. CASE ~Subscribes(d)
      BY <1>1, <1>4, <1>5, <2>1, <2>3 DEF Workers
    <2> QED
      BY <2>2, <2>3
  <1>8. ASSUME stored' \subseteq stored \cup {g \in Hooks : Known(g)'}
        PROVE  Lists'
    <2> SUFFICES ASSUME NEW g \in Hooks, g \in stored' \cup cache' \/ (\E d \in Calls : g \in seen'[d])
                 PROVE  Known(g)'
      BY DEF Lists
    <2>1. CASE Known(g)'
      BY <2>1
    <2>2. CASE g \in stored \cup cache \/ (\E d \in Calls : g \in seen[d])
      BY <1>1, <1>5, <2>2 DEF Lists
    <2> QED
      BY <1>8, <2>1, <2>2
  <1> QED
    BY <1>5, <1>6, <1>7, <1>8

\* A call that has a pending job has not succeeded.
LEMMA NotYet ==
  ASSUME IInv, NEW c \in Calls, NEW h \in Hooks, NEW s \in Steps, SetStep(c, h, s),
         step[c][h] \in Pending, UNCHANGED pc
  PROVE  Settled'
  <1>1. TypeOK /\ Settled
    BY DEF IInv
  <1>2. \A d \in Calls, g \in Hooks : d # c \/ g # h => step'[d][g] = step[d][g]
    BY <1>1, OneStep
  <1>3. pc[c] # "ok"
    BY <1>1 DEF Settled, Pending, Done
  <1> QED
    BY <1>1, <1>2, <1>3 DEF Settled

\* The steps whose outcome decides whether the stores may differ
LEMMA StillUnsettled ==
  ASSUME IInv, NEW c \in Calls, NEW h \in Hooks, NEW s \in Steps, SetStep(c, h, s),
         step[c][h] \in {"granted", "refused", "unnoticed", "failed"} =>
             s \in {"granted", "refused", "unnoticed", "failed"}
  PROVE  \A g \in Hooks : Unsettled(g) => Unsettled(g)'
  <1>1. TypeOK
    BY DEF IInv
  <1>2. /\ step'[c][h] = s
        /\ \A d \in Calls, g \in Hooks : d # c \/ g # h => step'[d][g] = step[d][g]
    BY <1>1, OneStep
  <1> QED
    BY <1>2 DEF Unsettled

\* What was taken back stays so.
LEMMA StillTakenBack ==
  ASSUME IInv, NEW c \in Calls, NEW h \in Hooks, NEW s \in Steps, SetStep(c, h, s), UNCHANGED body,
         step[c][h] \in Pending, step[c][h] = "written" => s \in {"done", "failed"}
  PROVE  \A g \in Hooks : TakenBack(g) => TakenBack(g)'
  <1>1. TypeOK
    BY DEF IInv
  <1>2. /\ step'[c][h] = s
        /\ \A d \in Calls, g \in Hooks : d # c \/ g # h => step'[d][g] = step[d][g]
    BY <1>1, OneStep
  <1> SUFFICES ASSUME NEW g \in Hooks, NEW d \in Calls, ~Subscribes(d),
                      step[d][g] \in {"written", "done", "failed"}
               PROVE  ~Subscribes(d)' /\ step'[d][g] \in {"written", "done", "failed"}
    BY DEF TakenBack
  <1> QED
    BY <1>2 DEF Pending, Subscribes

\* A job that writes nothing leaves the documents of those that subscribe.
LEMMA StillSubscribed ==
  ASSUME IInv, NEW c \in Calls, NEW h \in Hooks, NEW s \in Steps, SetStep(c, h, s), UNCHANGED <<stored, body>>,
         step[c][h] \in Pending, step[c][h] = "written" => s \in {"done", "failed"},
         s \in {"written", "done"} => step[c][h] = "written"
  PROVE  Subscribed'
  <1>1. TypeOK /\ Subscribed
    BY DEF IInv
  <1>2. /\ step'[c][h] = s
        /\ \A d \in Calls, g \in Hooks : d # c \/ g # h => step'[d][g] = step[d][g]
    BY <1>1, OneStep
  <1>3. \A g \in Hooks : TakenBack(g) => TakenBack(g)'
    BY StillTakenBack
  <1> SUFFICES ASSUME NEW d \in Calls, NEW g \in Hooks, Subscribes(d), step'[d][g] \in {"written", "done"}
               PROVE  g \in stored \/ TakenBack(g)'
    BY DEF Subscribed, Subscribes
  <1>4. step[d][g] \in {"written", "done"}
    BY <1>2
  <1>5. g \in stored \/ TakenBack(g)
    BY <1>1, <1>4 DEF Subscribed
  <1> QED
    BY <1>3, <1>5

(***************************************************************************)
(* The steps of a job                                                      *)
(***************************************************************************)
\* A request to the provider is handled.
LEMMA Provider ==
  ASSUME IInv, NEW c \in Calls, NEW h \in Hooks,
         Register(c, h) \/ Unregister(c, h) \/ Deny(c, h)
  PROVE  IInv'
  <1>0. TypeOK /\ Fresh /\ Lists /\ Workers /\ Granted /\ Unsubscribed /\ Subscribed /\ StoresAgree
    BY DEF IInv
  <1>1. /\ step[c][h] = "ask"
        /\ UNCHANGED <<stored, flagged, cache, pc, body, seen>>
    BY DEF Register, Unregister, Deny, stores
  <1>2. PICK s1 \in {"granted", "denied"} :
          /\ SetStep(c, h, s1)
          /\ s1 = "granted" => \/ Subscribes(c) /\ registered' = registered \cup {h}
                               \/ ~Subscribes(c) /\ registered' = registered \ {h}
          /\ s1 = "denied" => ~Subscribes(c) /\ registered' = registered
    BY DEF Register, Unregister, Deny, stores
  <1>3. s1 \in Steps \ {"none"} /\ "ask" \in Pending
    BY DEF Steps, Pending
  <1>4. /\ Fresh' /\ Workers' /\ Lists'
        /\ \A g \in Hooks : Known(g) => Known(g)'
    BY <1>1, <1>2, <1>3, JobKeeps
  <1>5. Settled'
    BY <1>1, <1>2, <1>3, NotYet
  <1>6. /\ step' \in [Calls -> [Hooks -> Steps]]
        /\ step'[c][h] = s1
        /\ \A d \in Calls, g \in Hooks : d # c \/ g # h => step'[d][g] = step[d][g]
    BY <1>0, <1>2, <1>3, OneStep
  <1>7. TypeOK'
    BY <1>0, <1>1, <1>2, <1>6 DEF TypeOK
  <1>8. \A d \in Calls : Subscribes(d) <=> Subscribes(d)'
    BY <1>1 DEF Subscribes
  <1>9. Granted'
    <2> SUFFICES ASSUME NEW d \in Calls, NEW g \in Hooks, step'[d][g] = "granted"
                 PROVE  g \in registered' <=> Subscribes(d)
      BY <1>8 DEF Granted
    <2>1. CASE d = c /\ g = h
      BY <1>2, <1>6, <2>1
    <2>2. CASE g # h
      <3>1. step[d][g] = "granted"
        BY <1>6, <2>2
      <3>2. g \in registered' <=> g \in registered
        BY <1>2, <2>2
      <3> QED
        BY <1>0, <3>1, <3>2 DEF Granted
    <2>3. CASE d # c /\ g = h
      <3>1. step[d][h] = "granted"
        BY <1>6, <2>3
      <3>2. h \in registered <=> Subscribes(d)
        BY <1>0, <3>1 DEF Granted
      <3>3. ~Subscribes(c)
        BY <1>0, <1>1, <2>3, <3>1 DEF Workers, Known
      <3>4. ~Subscribes(d)
        BY <1>0, <1>1, <2>3, <3>1, <3>3 DEF Workers, Known
      <3> QED
        BY <1>2, <2>3, <3>2, <3>3, <3>4
    <2> QED
      BY <2>1, <2>2, <2>3
  <1>10. Unsubscribed'
    BY <1>0, <1>1, <1>2, <1>6, <1>8 DEF Unsubscribed
  <1>11. StoresAgree'
    <2>1. \A g \in Hooks : Unsettled(g) => Unsettled(g)'
      BY <1>1, <1>2, <1>3, StillUnsettled
    <2>2. s1 = "granted" => Unsettled(h)'
      BY <1>6 DEF Unsettled
    <2>3. \A g \in Hooks : (g # h \/ s1 = "denied") => (g \in registered' <=> g \in registered)
      BY <1>2
    <2> QED
      BY <1>0, <1>1, <1>2, <2>1, <2>2, <2>3 DEF StoresAgree
  <1>12. Subscribed'
    BY <1>1, <1>2, <1>3, StillSubscribed
  <1> QED
    BY <1>4, <1>5, <1>7, <1>9, <1>10, <1>11, <1>12 DEF IInv

\* A write is handled by the worker-api.
LEMMA Write ==
  ASSUME IInv, NEW c \in Calls, NEW h \in Hooks,
         Insert(c, h) \/ Remove(c, h) \/ Update(c, h)
  PROVE  /\ IInv'
         /\ \A g \in stored \ stored' : g \notin registered
  <1>0. TypeOK /\ Fresh /\ Lists /\ Workers /\ Granted /\ Unsubscribed /\ Subscribed /\ StoresAgree
    BY DEF IInv
  <1>1. /\ step[c][h] \in {"granted", "denied"}
        /\ SetStep(c, h, "written")
        /\ UNCHANGED <<registered, cache, pc, body, seen>>
    BY DEF Insert, Remove, Update
  <1>2. "written" \in Steps \ {"none"} /\ step[c][h] \in Pending /\ step[c][h] # "written"
    BY <1>1 DEF Steps, Pending
  <1>3. /\ step' \in [Calls -> [Hooks -> Steps]]
        /\ step'[c][h] = "written"
        /\ \A d \in Calls, g \in Hooks : d # c \/ g # h => step'[d][g] = step[d][g]
    BY <1>0, <1>1, <1>2, OneStep
  <1>4. /\ Fresh' /\ Workers'
        /\ \A g \in Hooks : Known(g) => Known(g)'
        /\ stored' \subseteq stored \cup {g \in Hooks : Known(g)'} => Lists'
    BY <1>1, <1>2, JobKeeps
  <1>5. \A d \in Calls : Subscribes(d) <=> Subscribes(d)'
    BY <1>1 DEF Subscribes
  <1>6. Known(h)'
    <2>1. CASE Subscribes(c)
      <3>1. h[1] = c
        BY <1>0, <1>1, <2>1 DEF Workers
      <3> QED
        BY <1>3, <1>5, <2>1, <3>1 DEF Known
    <2>2. CASE ~Subscribes(c)
      BY <1>0, <1>1, <1>4, <2>2 DEF Workers
    <2> QED
      BY <2>1, <2>2
  <1>7. Settled'
    BY <1>1, <1>2, NotYet
  <1>8. Granted'
    BY <1>0, <1>1, <1>3, <1>5 DEF Granted
  <1>9. ASSUME NEW g \in Hooks, g # h
        PROVE  /\ g \in stored' <=> g \in stored
               /\ g \in flagged' <=> g \in flagged
    BY <1>9 DEF Insert, Remove, Update
  <1>10. \/ Subscribes(c) /\ h \in registered /\ h \in stored' /\ UNCHANGED flagged /\ step[c][h] = "granted"
         \/ ~Subscribes(c) /\ h \notin registered /\ h \notin stored'
         \/ h \in stored' /\ h \in flagged'
    BY <1>0 DEF Insert, Remove, Update, Granted
  <1>11. Unsubscribed'
    <2> SUFFICES ASSUME NEW d \in Calls, NEW g \in Hooks, ~Subscribes(d),
                        step'[d][g] \in {"written", "done"}, g \in stored'
                 PROVE  g \in flagged'
      BY <1>5 DEF Unsubscribed
    <2>1. CASE g # h
      BY <1>0, <1>3, <1>9, <2>1 DEF Unsubscribed
    <2>2. CASE g = h /\ ~(h \in stored' /\ h \in flagged')
      <3>1. Subscribes(c) /\ step[c][h] = "granted"
        BY <1>10, <2>2
      <3>2. d # c /\ step[d][h] # "none"
        BY <1>3, <2>2, <3>1
      <3>3. h[1] = c /\ Known(h)
        BY <1>0, <3>1, <3>2 DEF Workers
      <3> QED
        BY <3>1, <3>3 DEF Known
    <2> QED
      BY <2>1, <2>2
  <1>12. stored' \subseteq stored \cup {h} /\ flagged' \subseteq stored' /\ stored \subseteq Hooks
    BY <1>0 DEF Insert, Remove, Update, TypeOK
  <1>13. TypeOK'
    BY <1>0, <1>1, <1>3, <1>12 DEF TypeOK
  <1>14. Lists'
    BY <1>4, <1>6, <1>12
  <1>15. StoresAgree'
    <2> SUFFICES ASSUME NEW g \in Hooks, ~(g \in registered <=> g \in stored'), g \notin flagged'
                 PROVE  Unsettled(g)'
      BY <1>1 DEF StoresAgree
    <2>1. g # h
      BY <1>10
    <2>2. Unsettled(g)
      BY <1>0, <1>9, <2>1 DEF StoresAgree
    <2>3. PICK d \in Calls : step[d][g] \in {"granted", "refused", "unnoticed", "failed"}
      BY <2>2 DEF Unsettled
    <2> QED
      BY <1>3, <2>1, <2>3 DEF Unsettled
  <1>16. \A g \in stored \ stored' : g \notin registered
    BY <1>0, <1>9, <1>10 DEF TypeOK
  <1>17. Subscribed'
    <2>1. \A g \in Hooks : TakenBack(g) => TakenBack(g)'
      BY <1>1, <1>2, StillTakenBack
    <2> SUFFICES ASSUME NEW d \in Calls, NEW g \in Hooks, Subscribes(d), step'[d][g] \in {"written", "done"},
                        g \notin stored'
                 PROVE  TakenBack(g)'
      BY <1>5 DEF Subscribed
    <2>2. CASE g # h
      <3>1. g \in stored \/ TakenBack(g)
        BY <1>0, <1>3, <2>2 DEF Subscribed
      <3> QED
        BY <1>9, <2>1, <2>2, <3>1
    <2>3. CASE g = h
      <3>1. ~Subscribes(c)'
        BY <1>5, <1>10, <2>3
      <3> QED
        BY <1>3, <2>3, <3>1 DEF TakenBack
    <2> QED
      BY <2>2, <2>3
  <1> QED
    BY <1>4, <1>7, <1>8, <1>11, <1>13, <1>14, <1>15, <1>16, <1>17 DEF IInv

\* A job changes no store: a write is refused, an answer arrives, or none does.
LEMMA NoWrite ==
  ASSUME IInv, NEW c \in Calls, NEW h \in Hooks,
         Refuse(c, h) \/ Finish(c, h) \/ JobFails(c, h)
  PROVE  IInv'
  <1>0. TypeOK /\ Fresh /\ Lists /\ Workers /\ Granted /\ Unsubscribed /\ Subscribed /\ Settled /\ StoresAgree
    BY DEF IInv
  <1>1. /\ step[c][h] \in Pending
        /\ UNCHANGED <<registered, stored, flagged, body, seen>>
        /\ cache' \subseteq cache
    BY DEF Refuse, Finish, JobFails, stores, Pending
  <1>2. PICK s \in {"refused", "done", "unnoticed", "failed"} :
          /\ SetStep(c, h, s)
          /\ step[c][h] = "written" => s \in {"done", "failed"}
          /\ s = "done" => step[c][h] = "written"
          /\ step[c][h] = "refused" => s \in {"unnoticed", "failed"}
          /\ s = "refused" => UNCHANGED pc
          /\ s \in {"done", "unnoticed"} => Settle(c, h)
          /\ s = "failed" => Goto(c, "failed")
    BY DEF Refuse, Finish, JobFails
  <1>3. s \in Steps \ {"none"} /\ "failed" \in Places
    BY DEF Steps, Pending, Done, Places
  <1>4. /\ step' \in [Calls -> [Hooks -> Steps]]
        /\ step'[c][h] = s
        /\ \A d \in Calls, g \in Hooks : d # c \/ g # h => step'[d][g] = step[d][g]
    BY <1>0, <1>2, <1>3, OneStep
  <1>5. /\ pc' \in [Calls -> Places]
        /\ \A d \in Calls : d # c => pc'[d] = pc[d]
        /\ \/ pc'[c] = pc[c] \/ pc'[c] = "failed"
           \/ /\ pc'[c] = "ok" /\ s \in Done
              /\ \A g \in Hooks : g # h => step[c][g] \in {"none"} \cup Done
    <2>1. CASE s = "refused"
      BY <1>0, <1>2, <2>1 DEF TypeOK
    <2>2. CASE s = "failed"
      BY <1>0, <1>2, <1>3, <2>2, OnePlace
    <2>3. CASE s \in {"done", "unnoticed"}
      BY <1>0, <1>2, <2>3, Settling DEF Done
    <2> QED
      BY <2>1, <2>2, <2>3
  <1>6. Fresh' /\ Workers' /\ Lists'
    BY <1>1, <1>2, <1>3, <1>5, JobKeeps
  <1>7. \A d \in Calls : Subscribes(d) <=> Subscribes(d)'
    BY <1>1 DEF Subscribes
  <1>8. TypeOK'
    BY <1>0, <1>1, <1>4, <1>5 DEF TypeOK
  <1>9. Granted'
    BY <1>0, <1>1, <1>4, <1>7 DEF Granted
  <1>10. Unsubscribed'
    BY <1>0, <1>1, <1>2, <1>4, <1>7 DEF Unsubscribed
  <1>11. Settled'
    <2>1. pc[c] # "ok"
      BY <1>0, <1>1 DEF Settled, Pending, Done
    <2> QED
      BY <1>0, <1>4, <1>5, <2>1 DEF Settled
  <1>12. StoresAgree'
    <2>1. step[c][h] \in {"granted", "refused", "unnoticed", "failed"} =>
              s \in {"granted", "refused", "unnoticed", "failed"}
      BY <1>2
    <2>2. \A g \in Hooks : Unsettled(g) => Unsettled(g)'
      BY <1>2, <1>3, <2>1, StillUnsettled
    <2> QED
      BY <1>0, <1>1, <2>2 DEF StoresAgree
  <1>13. Subscribed'
    BY <1>1, <1>2, <1>3, StillSubscribed
  <1> QED
    BY <1>6, <1>8, <1>9, <1>10, <1>11, <1>12, <1>13 DEF IInv

(***************************************************************************)
(* The steps of a call before its jobs                                     *)
(***************************************************************************)
\* A call that has no jobs changes its place, and none of its jobs start.
LEMMA NoJobs ==
  ASSUME IInv, NEW c \in Calls, NEW p \in Places \ {"idle"}, Goto(c, p),
         pc[c] \in {"idle", "load", "find", "found"},
         UNCHANGED <<stores, step>>, cache' \subseteq cache \cup {h \in Hooks : Known(h)},
         seen' \in [Calls -> SUBSET Hooks],
         \A d \in Calls : seen'[d] \subseteq seen[d] \cup stored,
         body' \in [Calls -> Bodies \cup {NoBody}],
         \A d \in Calls : d # c => body'[d] = body[d],
         pc[c] # "idle" => UNCHANGED body,
         p \in {"find", "found"} => ~Subscribes(c)'
  PROVE  IInv'
  <1> USE HookOwner
  <1>0. TypeOK /\ Fresh /\ Lists /\ Workers /\ Granted /\ Unsubscribed /\ Subscribed /\ Settled /\ StoresAgree
    BY DEF IInv
  <1>1. /\ pc' \in [Calls -> Places] /\ pc'[c] = p
        /\ \A d \in Calls : d # c => pc'[d] = pc[d]
    BY <1>0, OnePlace
  <1>2. \A h \in Hooks : step[c][h] = "none"
    BY <1>0 DEF Fresh
  <1>3. \A d \in Calls : d # c => (Subscribes(d) <=> Subscribes(d)')
    BY DEF Subscribes
  <1>4. \A h \in Hooks : Known(h) => Known(h)'
    BY <1>2, <1>3 DEF Known
  <1>5. TypeOK'
    BY <1>0, <1>1 DEF TypeOK, stores
  <1>6. Fresh'
    BY <1>0, <1>1, <1>2, <1>3 DEF Fresh
  <1>7. Lists'
    <2> SUFFICES ASSUME NEW h \in Hooks, h \in stored' \cup cache' \/ (\E d \in Calls : h \in seen'[d])
                 PROVE  Known(h)
      BY <1>4 DEF Lists
    <2> QED
      BY <1>0 DEF Lists, stores
  <1>8. Workers'
    <2> SUFFICES ASSUME NEW d \in Calls, NEW h \in Hooks, step[d][h] # "none"
                 PROVE  IF Subscribes(d)' THEN h[1] = d ELSE Known(h)'
      BY DEF Workers
    <2>1. d # c
      BY <1>2
    <2>2. IF Subscribes(d) THEN h[1] = d ELSE Known(h)
      BY <1>0 DEF Workers
    <2> QED
      BY <1>3, <1>4, <2>1, <2>2
  <1>9. Granted'
    BY <1>0, <1>2, <1>3 DEF Granted, stores
  <1>10. Unsubscribed'
    BY <1>0, <1>2, <1>3 DEF Unsubscribed, stores
  <1>11. Settled'
    BY <1>0, <1>1, <1>2 DEF Settled
  <1>12. StoresAgree'
    BY <1>0 DEF StoresAgree, Unsettled, stores
  <1>13. Subscribed'
    <2>1. ASSUME NEW h \in Hooks, TakenBack(h) PROVE TakenBack(h)'
      <3>1. PICK d \in Calls : ~Subscribes(d) /\ step[d][h] \in {"written", "done", "failed"}
        BY <2>1 DEF TakenBack
      <3>2. d # c
        BY <1>2, <3>1
      <3> QED
        BY <1>3, <3>1, <3>2 DEF TakenBack
    <2> SUFFICES ASSUME NEW d \in Calls, NEW h \in Hooks, Subscribes(d)', step[d][h] \in {"written", "done"}
                 PROVE  h \in stored \/ TakenBack(h)'
      BY DEF Subscribed, stores
    <2>2. d # c
      BY <1>2
    <2>3. h \in stored \/ TakenBack(h)
      BY <1>0, <1>3, <2>2 DEF Subscribed
    <2> QED
      BY <2>1, <2>3
  <1> QED
    BY <1>5, <1>6, <1>7, <1>8, <1>9, <1>10, <1>11, <1>12, <1>13 DEF IInv

\* The jobs of a call start.
LEMMA Start ==
  ASSUME IInv, NEW c \in Calls, NEW J \in SUBSET Hooks, NEW Ready \in SUBSET Hooks, StartJobs(c, J, Ready),
         pc[c] \in {"load", "found"},
         UNCHANGED <<stores, body>>, cache' \subseteq cache \cup {h \in Hooks : Known(h)},
         seen' \in [Calls -> SUBSET Hooks],
         \A d \in Calls : seen'[d] \subseteq seen[d],
         \A h \in J : IF Subscribes(c) THEN h[1] = c ELSE Known(h)
  PROVE  IInv'
  <1> USE HookOwner
  <1>0. TypeOK /\ Fresh /\ Lists /\ Workers /\ Granted /\ Unsubscribed /\ Subscribed /\ Settled /\ StoresAgree
    BY DEF IInv
  <1>1. PICK p \in {"ok", "working", "failed"} : Goto(c, p) /\ (p = "ok" => J = {})
    BY DEF StartJobs
  <1>2. /\ pc' \in [Calls -> Places] /\ pc'[c] = p
        /\ \A d \in Calls : d # c => pc'[d] = pc[d]
    BY <1>0, <1>1, OnePlace DEF Places
  <1>3. \A h \in Hooks : step[c][h] = "none"
    BY <1>0 DEF Fresh
  <1>4. /\ step' \in [Calls -> [Hooks -> Steps]]
        /\ \A h \in Hooks : step'[c][h] \in {"none", "ask", "failed"} /\ (step'[c][h] # "none" => h \in J)
        /\ \A d \in Calls : d # c => step'[d] = step[d]
    BY <1>0 DEF StartJobs, TypeOK, Steps, Pending
  <1>5. \A d \in Calls : Subscribes(d) <=> Subscribes(d)'
    BY DEF Subscribes
  <1>6. \A h \in Hooks : Known(h) => Known(h)'
    BY <1>3, <1>4, <1>5 DEF Known
  <1>7. TypeOK'
    BY <1>0, <1>2, <1>4 DEF TypeOK, stores
  <1>8. Fresh'
    BY <1>0, <1>1, <1>2, <1>4, <1>5 DEF Fresh
  <1>9. Lists'
    <2> SUFFICES ASSUME NEW h \in Hooks, h \in stored' \cup cache' \/ (\E d \in Calls : h \in seen'[d])
                 PROVE  Known(h)
      BY <1>6 DEF Lists
    <2> QED
      BY <1>0 DEF Lists, stores
  <1>10. Workers'
    <2> SUFFICES ASSUME NEW d \in Calls, NEW h \in Hooks, step'[d][h] # "none"
                 PROVE  IF Subscribes(d)' THEN h[1] = d ELSE Known(h)'
      BY DEF Workers
    <2>1. IF Subscribes(d) THEN h[1] = d ELSE Known(h)
      BY <1>0, <1>4 DEF Workers
    <2> QED
      BY <1>5, <1>6, <2>1
  <1>11. Granted'
    BY <1>0, <1>4, <1>5 DEF Granted, stores
  <1>12. Unsubscribed'
    BY <1>0, <1>4, <1>5 DEF Unsubscribed, stores
  <1>13. Settled'
    BY <1>0, <1>1, <1>2, <1>4 DEF Settled
  <1>14. \A h \in Hooks : Unsettled(h) => Unsettled(h)'
    BY <1>3, <1>4 DEF Unsettled
  <1>15. StoresAgree'
    BY <1>0, <1>14 DEF StoresAgree, stores
  <1>16. Subscribed'
    <2>1. ASSUME NEW h \in Hooks, TakenBack(h) PROVE TakenBack(h)'
      <3>1. PICK d \in Calls : ~Subscribes(d) /\ step[d][h] \in {"written", "done", "failed"}
        BY <2>1 DEF TakenBack
      <3>2. d # c
        BY <1>3, <3>1
      <3> QED
        BY <1>4, <1>5, <3>1, <3>2 DEF TakenBack
    <2> SUFFICES ASSUME NEW d \in Calls, NEW h \in Hooks, Subscribes(d), step'[d][h] \in {"written", "done"}
                 PROVE  h \in stored \/ TakenBack(h)'
      BY <1>5 DEF Subscribed, stores
    <2>2. d # c
      BY <1>4
    <2>3. h \in stored \/ TakenBack(h)
      BY <1>0, <1>4, <2>2 DEF Subscribed
    <2> QED
      BY <2>1, <2>3
  <1> QED
    BY <1>7, <1>8, <1>9, <1>10, <1>11, <1>12, <1>13, <1>15, <1>16 DEF IInv

\* Every step up to the jobs keeps the invariant.
LEMMA Loading ==
  ASSUME IInv, NEW c \in Calls, (\E b \in Bodies : Begin(c, b)) \/ Load(c)
  PROVE  IInv'
  <1>0. TypeOK /\ Lists /\ Fresh
    BY DEF IInv
  <1>1. CASE \E b \in Bodies : Begin(c, b)
    <2>1. PICK b \in Bodies : Begin(c, b)
      BY <1>1
    <2> QED
      BY <1>0, <2>1, NoJobs DEF Begin, TypeOK, Places
  <1>2. CASE LoadFails(c)
    BY <1>0, <1>2, NoJobs DEF LoadFails, TypeOK, Places
  <1>3. CASE NotAuthorized(c)
    BY <1>0, <1>3, NoJobs DEF NotAuthorized, TypeOK, Places
  <1>4. CASE Subscribe(c)
    <2>1. Chosen(c) \in SUBSET Hooks /\ \A h \in Chosen(c) : h[1] = c
      BY DEF Chosen
    <2> QED
      BY <1>0, <1>4, <2>1, Start DEF Subscribe, TypeOK
  <1>5. CASE Look(c) /\ cache = {}
    BY <1>0, <1>5, NoJobs DEF Look, TypeOK, Places, Subscribes
  <1>6. CASE Look(c) /\ cache # {}
    <2> DEFINE J == {h \in cache : Matches(h, body[c])}
    <2>1. J \in SUBSET Hooks /\ \A h \in J : Known(h)
      BY <1>0 DEF TypeOK, Lists
    <2>2. StartJobs(c, J, Hooks)
      BY <1>6 DEF Look, Unsubscribe
    <2> HIDE DEF J
    <2> QED
      BY <1>0, <1>6, <2>1, <2>2, Start DEF Look, TypeOK
  <1>7. CASE Find(c)
    <2>1. /\ seen' \in [Calls -> SUBSET Hooks]
          /\ \A d \in Calls : seen'[d] \subseteq seen[d] \cup stored
      BY <1>0, <1>7 DEF Find, TypeOK
    <2> QED
      BY <1>0, <1>7, <2>1, NoJobs DEF Find, TypeOK, Places, Fresh, Subscribes
  <1>8. CASE Receive(c)
    <2> DEFINE J == {h \in seen[c] : Matches(h, body[c])}
    <2>1. J \in SUBSET Hooks /\ \A h \in seen[c] : h \in Hooks /\ Known(h)
      BY <1>0 DEF TypeOK, Lists
    <2>2. StartJobs(c, J, Hooks) /\ \A h \in J : Known(h)
      BY <1>8, <2>1 DEF Receive, Unsubscribe
    <2>3. seen' \in [Calls -> SUBSET Hooks] /\ \A d \in Calls : seen'[d] \subseteq seen[d]
      BY <1>0, <1>8 DEF Receive, TypeOK
    <2>4. cache' \subseteq cache \cup {h \in Hooks : Known(h)}
      BY <1>8, <2>1 DEF Receive
    <2>5. ~Subscribes(c)
      BY <1>0, <1>8 DEF Receive, Fresh
    <2> HIDE DEF J
    <2> QED
      BY <1>8, <2>1, <2>2, <2>3, <2>4, <2>5, Start DEF Receive
  <1> QED
    BY <1>1, <1>2, <1>3, <1>4, <1>5, <1>6, <1>7, <1>8 DEF Load

\* Every step keeps the invariant.
LEMMA NextIInv == IInv /\ [Next]_vars => IInv'
  <1> SUFFICES ASSUME IInv, [Next]_vars PROVE IInv'
    OBVIOUS
  <1>1. ASSUME NEW c \in Calls, NEW h \in Hooks, Job(c, h)
        PROVE  IInv'
    BY <1>1, Provider, Write, NoWrite DEF Job
  <1>2. CASE Expire
    BY <1>2 DEF Expire, stores, IInv, TypeOK, Fresh, Lists, Workers, Granted, Unsubscribed, Subscribed,
                Settled, StoresAgree, Known, Subscribes, Unsettled, TakenBack
  <1>3. CASE UNCHANGED vars
    BY <1>3 DEF vars, stores, IInv, TypeOK, Fresh, Lists, Workers, Granted, Unsubscribed, Subscribed,
                Settled, StoresAgree, Known, Subscribes, Unsettled, TakenBack
  <1> QED
    BY <1>1, <1>2, <1>3, Loading DEF Next

\* So it always holds.
LEMMA Invariance == Spec => []IInv
  BY InitIInv, NextIInv, PTL DEF Spec

(***************************************************************************)
(* Theorems                                                                *)
(***************************************************************************)
\* Every reachable state is type-correct, and only documents are flagged
\* (WebhookManager.unsubscribeWebhooks).
THEOREM TypeCorrect == Spec => []TypeOK
  <1>1. IInv => TypeOK
    BY DEF IInv
  <1> QED
    BY <1>1, Invariance, PTL

\* Provider and worker-api only disagree where a job is under way, stopped
\* half-way, or left a flag (WebhookManager.subscribeWebhooks and
\* unsubscribeWebhooks).
THEOREM Agreement == Spec => []StoresAgree
  <1>1. IInv => StoresAgree
    BY DEF IInv
  <1> QED
    BY <1>1, Invariance, PTL

\* A call that succeeds has stored what it subscribed and removed or flagged
\* what it unsubscribed, but for the writes that the worker-api refused, which
\* nobody is told of (Promise.all, Repository.insert, update and remove).
THEOREM SuccessButForRefused == Spec => []OnlyRefusedUndone
  <1>1. IInv => OnlyRefusedUndone
    <2> SUFFICES ASSUME IInv, NEW c \in Calls, NEW h \in Hooks, pc[c] = "ok", step[c][h] # "none"
                 PROVE  Effective(c, h) \/ step[c][h] = "unnoticed"
      BY DEF OnlyRefusedUndone
    <2>1. step[c][h] \in Done
      BY DEF IInv, Settled
    <2> QED
      BY <2>1 DEF IInv, Done, Subscribed, Unsubscribed, Effective
  <1> QED
    BY <1>1, Invariance, PTL

\* No document is removed of a webhook that the provider still calls
\* (the branch after processWebhookUnsubscribeResponse).
THEOREM SafeRemoval == Spec => RemovedIsUnregistered
  <1>1. IInv /\ [Next]_vars => [\A h \in stored \ stored' : h \notin registered]_vars
    <2> SUFFICES ASSUME IInv, Next, NEW g \in stored \ stored'
                 PROVE  g \notin registered
      OBVIOUS
    <2>1. CASE \E c \in Calls, h \in Hooks : Insert(c, h) \/ Remove(c, h) \/ Update(c, h)
      BY <2>1, Write
    <2>2. CASE UNCHANGED stored
      BY <2>2
    <2> QED
      BY <2>1, <2>2 DEF Next, Begin, Load, LoadFails, NotAuthorized, Subscribe, Look, Find, Receive, Expire,
                        Job, Register, Unregister, Deny, Refuse, Finish, JobFails, stores
  <1> QED
    BY <1>1, Invariance, PTL DEF Spec, RemovedIsUnregistered
=============================================================================
