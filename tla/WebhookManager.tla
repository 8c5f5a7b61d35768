---------------------------- MODULE WebhookManager ----------------------------
(***************************************************************************)
(* WebhookManager: concurrent calls for one application, user and sdk that *)
(* subscribe and unsubscribe webhooks.  A webhook exists twice: registered *)
(* at the provider of the application, and as a document of the            *)
(* worker-api.  A call runs one job per webhook inside Promise.all: first  *)
(* a request to the provider, then, by its answer, a write to the          *)
(* worker-api.                                                             *)
(*                                                                         *)
(* A webhook is known by its token, which is new for each job that         *)
(* subscribes: it is named by the call and the event.                      *)
(***************************************************************************)
CONSTANTS
    Calls,
    Earlier,        \* those that have subscribed before
    Events,         \* names of the subscriptions an application offers
    Legacy,         \* those that name a topology and a node themselves
    Targets,        \* pairs of a topology and a node
    LegacyTarget,   \* the pair the Legacy subscriptions name
    None            \* a field that is not given

Hooks == Calls \X Events

ASSUME WebhookAssumption ==
    /\ Earlier \subseteq Calls
    /\ Legacy \subseteq Events
    /\ LegacyTarget \in Targets
    /\ None \notin Events \cup Targets

VARIABLES
    registered,     \* webhooks at the provider
    stored,         \* webhooks with a document,
    flagged,        \* and documents with unsubscribeFailed
    cache,          \* the list in the cache of the repository, if any: it is never empty
    pc, body,       \* each call, and what it was given
    seen,           \* the list the worker-api answered a call with
    step            \* step[c][h]: the job of call c about webhook h

stores == <<registered, stored, flagged>>
vars == <<stores, cache, pc, body, seen, step>>

\* IWebhookBody as validateBody() lets it pass
Bodies ==
    { b \in [kind : {"subscribe", "unsubscribe"}, name : Events \cup {None}, target : Targets \cup {None}] :
        b.name # None \/ b.target # None }

NoBody == [kind |-> "none", name |-> None, target |-> None]

Subscribes(c) == body[c].kind = "subscribe"

TargetOf(h) == IF body[h[1]].target # None THEN body[h[1]].target ELSE LegacyTarget

\* matchWebhook()
Matches(h, b) ==
    /\ b.name # None => h[2] = b.name
    /\ b.target # None => TargetOf(h) = b.target

\* The subscriptions that a call subscribes: the one it names, and the Legacy
\* ones whatever it names.
Chosen(c) == { h \in Hooks : h[1] = c /\ (h[2] \in Legacy \/ h[2] = body[c].name) }

\* Topology and node are "supplied either by WebhookSubscription or via request body".
HasTarget(h) == body[h[1]].target # None \/ h[2] \in Legacy

Pending == {"ask", "granted", "denied", "written", "refused"}

\* What Promise.all takes for done: "unnoticed" is a job whose write was refused.
Done == {"done", "unnoticed"}

Steps == {"none", "failed"} \cup Pending \cup Done

Init ==
    /\ \E e \in Events, t \in Targets :
          body = [c \in Calls |-> IF c \in Earlier
                                 THEN [kind |-> "subscribe", name |-> e, target |-> t]
                                 ELSE NoBody]
    /\ pc = [c \in Calls |-> IF c \in Earlier THEN "ok" ELSE "idle"]
    /\ step = [c \in Calls |-> [h \in Hooks |->
                  IF c \in Earlier /\ h \in Chosen(c) THEN "done" ELSE "none"]]
    /\ registered = {h \in Hooks : step[h[1]][h] = "done"}
    /\ stored = registered
    /\ flagged = {}
    /\ cache = {}
    /\ seen = [c \in Calls |-> {}]

Goto(c, place) == pc' = [pc EXCEPT ![c] = place]

SetStep(c, h, s) == step' = [step EXCEPT ![c] = [@ EXCEPT ![h] = s]]

(***************************************************************************)
(* A call up to Promise.all                                                *)
(***************************************************************************)
Begin(c, b) ==
    /\ pc[c] = "idle"
    /\ body' = [body EXCEPT ![c] = b]
    /\ Goto(c, "load")
    /\ UNCHANGED <<stores, cache, seen, step>>

\* loadApplicationInstall() finds none or fails; findMany() fails.
LoadFails(c) ==
    /\ pc[c] \in {"load", "find", "found"}
    /\ Goto(c, "failed")
    /\ UNCHANGED <<stores, cache, body, seen, step>>

\* Nothing is done for an application that is not authorized.
NotAuthorized(c) ==
    /\ pc[c] = "load"
    /\ Goto(c, "ok")
    /\ UNCHANGED <<stores, cache, body, seen, step>>

\* The jobs J start, those outside Ready throw at once.
StartJobs(c, J, Ready) ==
    /\ step' = [step EXCEPT ![c] =
                  [h \in Hooks |-> IF h \notin J THEN "none"
                                   ELSE IF h \in Ready THEN "ask" ELSE "failed"]]
    /\ Goto(c, IF J = {} THEN "ok" ELSE IF J \subseteq Ready THEN "working" ELSE "failed")

Subscribe(c) ==
    /\ pc[c] = "load" /\ Subscribes(c)
    /\ StartJobs(c, Chosen(c), {h \in Hooks : HasTarget(h)})
    /\ UNCHANGED <<stores, cache, body, seen>>

Unsubscribe(c, list) ==
    StartJobs(c, {h \in list : Matches(h, body[c])}, Hooks)

\* getAllWebhooks() answers from the cache, or asks the worker-api.
Look(c) ==
    /\ pc[c] = "load" /\ ~Subscribes(c)
    /\ IF cache # {} THEN Unsubscribe(c, cache)
                     ELSE Goto(c, "find") /\ UNCHANGED step
    /\ UNCHANGED <<stores, cache, body, seen>>

Find(c) ==
    /\ pc[c] = "find"
    /\ seen' = [seen EXCEPT ![c] = stored]
    /\ Goto(c, "found")
    /\ UNCHANGED <<stores, cache, body, step>>

\* The answer arrives; an empty one is not cached.
Receive(c) ==
    /\ pc[c] = "found"
    /\ cache' = IF seen[c] = {} THEN cache ELSE seen[c]
    /\ Unsubscribe(c, seen[c])
    /\ seen' = [seen EXCEPT ![c] = {}]
    /\ UNCHANGED <<stores, body>>

(***************************************************************************)
(* One job of Promise.all                                                  *)
(***************************************************************************)
\* The provider registers a webhook
Register(c, h) ==
    /\ step[c][h] = "ask" /\ Subscribes(c)
    /\ registered' = registered \cup {h}
    /\ SetStep(c, h, "granted")
    /\ UNCHANGED <<stored, flagged, cache, pc, body, seen>>

\* or unregisters it, also if it was not there any more,
Unregister(c, h) ==
    /\ step[c][h] = "ask" /\ ~Subscribes(c)
    /\ registered' = registered \ {h}
    /\ SetStep(c, h, "granted")
    /\ UNCHANGED <<stored, flagged, cache, pc, body, seen>>

\* Mutant: processWebhookUnsubscribeResponse() is not looked at.
DenyIgnored(c, h) ==
    /\ step[c][h] = "ask" /\ ~Subscribes(c)
    /\ SetStep(c, h, "granted")
    /\ UNCHANGED <<stores, cache, pc, body, seen>>

\* or does not.
Deny(c, h) ==
    /\ step[c][h] = "ask" /\ ~Subscribes(c)
    /\ SetStep(c, h, "denied")
    /\ UNCHANGED <<stores, cache, pc, body, seen>>

\* The answer of the provider has come, and the worker-api inserts the
\* document of a new webhook,
Insert(c, h) ==
    /\ step[c][h] = "granted" /\ Subscribes(c)
    /\ stored' = stored \cup {h}
    /\ SetStep(c, h, "written")
    /\ UNCHANGED <<registered, flagged, cache, pc, body, seen>>

\* Mutant: the document is removed by application and user, not by its id.
RemoveAll(c, h) ==
    /\ step[c][h] = "granted" /\ ~Subscribes(c)
    /\ stored' = {}
    /\ flagged' = {}
    /\ SetStep(c, h, "written")
    /\ UNCHANGED <<registered, cache, pc, body, seen>>

\* removes that of one that is unregistered,
Remove(c, h) ==
    /\ step[c][h] = "granted" /\ ~Subscribes(c)
    /\ stored' = stored \ {h}
    /\ flagged' = flagged \ {h}
    /\ SetStep(c, h, "written")
    /\ UNCHANGED <<registered, cache, pc, body, seen>>

\* Mutant: the document is sent back as it was.
UpdateUnflagged(c, h) ==
    /\ step[c][h] = "denied"
    /\ stored' = stored \cup {h}
    /\ SetStep(c, h, "written")
    /\ UNCHANGED <<registered, flagged, cache, pc, body, seen>>

\* stores the flagged document of one that is not, even if it was removed
\* in the meantime,
Update(c, h) ==
    /\ step[c][h] = "denied"
    /\ stored' = stored \cup {h}
    /\ flagged' = flagged \cup {h}
    /\ SetStep(c, h, "written")
    /\ UNCHANGED <<registered, cache, pc, body, seen>>

\* or refuses to write.
Refuse(c, h) ==
    /\ step[c][h] \in {"granted", "denied"}
    /\ SetStep(c, h, "refused")
    /\ UNCHANGED <<stores, cache, pc, body, seen>>

\* The last job of a call resolves its Promise.all.
Settle(c, h) ==
    pc' = [pc EXCEPT ![c] =
             IF @ = "working" /\ \A g \in Hooks \ {h} : step[c][g] \in {"none"} \cup Done
             THEN "ok" ELSE @]

\* The answer to the write arrives, whatever its status, and clears the cache.
Finish(c, h) ==
    /\ step[c][h] \in {"written", "refused"}
    /\ SetStep(c, h, IF step[c][h] = "written" THEN "done" ELSE "unnoticed")
    /\ Settle(c, h)
    /\ cache' = {}
    /\ UNCHANGED <<stores, body, seen>>

\* Mutant: an error of one job is not the error of its call.
JobFailsAlone(c, h) ==
    /\ step[c][h] \in Pending
    /\ SetStep(c, h, "failed")
    /\ Settle(c, h)
    /\ UNCHANGED <<stores, cache, body, seen>>

\* A request gets no answer or an unusable one: the call fails at once, its
\* other jobs go on.
JobFails(c, h) ==
    /\ step[c][h] \in Pending
    /\ SetStep(c, h, "failed")
    /\ Goto(c, "failed")
    /\ UNCHANGED <<stores, cache, body, seen>>

\* The time to live of the cached list ends.
Expire ==
    /\ cache # {}
    /\ cache' = {}
    /\ UNCHANGED <<stores, pc, body, seen, step>>

Job(c, h) ==
    \/ Register(c, h) \/ Unregister(c, h) \/ Deny(c, h)
    \/ Insert(c, h) \/ Remove(c, h) \/ Update(c, h) \/ Refuse(c, h)
    \/ Finish(c, h) \/ JobFails(c, h)

Load(c) ==
    \/ LoadFails(c) \/ NotAuthorized(c)
    \/ Subscribe(c) \/ Look(c) \/ Find(c) \/ Receive(c)

Next ==
    \/ \E c \in Calls :
          \/ \E b \in Bodies : Begin(c, b)
          \/ Load(c)
          \/ \E h \in Hooks : Job(c, h)
    \/ Expire

Spec == Init /\ [][Next]_vars

(***************************************************************************)
(* Properties                                                              *)
(***************************************************************************)
Places == {"idle", "load", "find", "found", "working", "ok", "failed"}

\* Types; only documents are flagged.
TypeOK ==
    /\ registered \subseteq Hooks
    /\ stored \subseteq Hooks
    /\ flagged \subseteq stored
    /\ cache \subseteq Hooks
    /\ pc \in [Calls -> Places]
    /\ body \in [Calls -> Bodies \cup {NoBody}]
    /\ seen \in [Calls -> SUBSET Hooks]
    /\ step \in [Calls -> [Hooks -> Steps]]

\* A job stands between its two writes, or stopped there.
Unsettled(h) == \E c \in Calls : step[c][h] \in {"granted", "refused", "unnoticed", "failed"}

\* Where provider and worker-api disagree about a webhook, a job about it is
\* under way, was refused its write or failed, or the document says that it
\* could not be unsubscribed (WebhookManager.subscribeWebhooks and
\* unsubscribeWebhooks, in any order and number).
StoresAgree ==
    \A h \in Hooks : (h \in registered) # (h \in stored) => Unsettled(h) \/ h \in flagged

\* The document of a webhook was or will be removed by a job that unsubscribes it.
TakenBack(h) == \E c \in Calls : ~Subscribes(c) /\ step[c][h] \in {"written", "done", "failed"}

\* Job h of call c has done what it is for.
Effective(c, h) ==
    /\ step[c][h] = "done"
    /\ IF Subscribes(c) THEN h \in stored \/ TakenBack(h)
                        ELSE h \in stored => h \in flagged

\* What a call that succeeds tells of its jobs: each has stored the document of
\* the webhook, or removed or flagged it, but those that the worker-api refused
\* their write.  These count as done and nobody is told of them
\* (Repository.insert, update and remove do not look at the status): the
\* webhook stays registered without a document, or its document stays without
\* a flag.
OnlyRefusedUndone ==
    \A c \in Calls, h \in Hooks :
        pc[c] = "ok" /\ step[c][h] # "none" => Effective(c, h) \/ step[c][h] = "unnoticed"

\* The document of a webhook is not removed while the provider still calls it,
\* though callers work on lists that may be old.
RemovedIsUnregistered == [][\A h \in stored \ stored' : h \notin registered]_vars
=============================================================================
