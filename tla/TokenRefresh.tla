---------------------------- MODULE TokenRefresh ----------------------------
(***************************************************************************)
(* The OAuth2 token of one installed application, in several worker        *)
(* processes.  The provider issues refresh tokens; the worker-api stores   *)
(* the document of the install, its settings encrypted; every process has  *)
(* a repository with a cache of its own, and an encryption of its own.     *)
(*                                                                         *)
(* A call loads the document and then                                      *)
(*   "refresh"  lets the provider refresh the token it found, in a node,   *)
(*   "token"    exchanges the code of a finished authorization, or         *)
(*   "save"     changes other settings,                                    *)
(* and sends the whole document back.  ApplicationManager has all that the *)
(* calls of one process do to a document; here the document is reduced to  *)
(* its refresh token, and the provider and the other processes come in.    *)
(*                                                                         *)
(* History variables: sent, the calls whose document the worker-api took;  *)
(* stale, the processes whose cache is older than that; raced, a call ran  *)
(* beside another one or began with a stale cache; intact, no new token    *)
(* was lost on its way, and no older document was written over a newer.    *)
(***************************************************************************)
EXTENDS Crypt, Naturals

CONSTANTS
    Ids,            \* refresh tokens, named by the call they were issued to
    Original,       \* the token there may be at first
    NoToken,        \* settings without a refresh token
    NoText,         \* encryptedSettings of an object that is not encrypted
    Uncached,       \* nothing in the cache of a process
    Processes,
    Home,           \* the process of every call
    MaxFailures     \* bound on failures and restarts

Callers == Ids \ {Original}

Settings == Ids \cup {NoToken}

ASSUME TokenAssumption ==
    /\ Original \in Ids
    /\ NoToken \notin Ids
    /\ Uncached \notin Settings
    /\ NoText \notin Texts(Settings)
    /\ Home \in [Callers -> Processes]
    /\ MaxFailures \in Nat

VARIABLES
    stored,     \* the worker-api: the encrypted settings
    valid,      \* the provider: refresh tokens that it accepts
    rotates,    \* whether a refresh replaces the refresh token
    crypt,      \* WindWalkerCrypt of every process
    cache,      \* the repository's cache of every process
    pc, kind,
    settings,   \* of the document a call works on, and
    text,       \* its encryptedSettings: one of the two is in use
    sent, stale, raced, intact, failures

worker == <<stored, crypt, cache, settings, text>>
provider == <<valid, rotates>>
history == <<sent, stale, raced, intact, failures>>
vars == <<worker, provider, pc, kind, history>>

Kinds == {"refresh", "token", "save"}

Running(c) == pc[c] \notin {"idle", "ended", "refused", "unreadable"}

Goto(c, place) == pc' = [pc EXCEPT ![c] = place]

\* A call ends and drops its object.
End(c, how) ==
    /\ Goto(c, how)
    /\ settings' = [settings EXCEPT ![c] = NoToken]
    /\ text' = [text EXCEPT ![c] = NoText]

\* The provider gave c a new token that the worker-api did not take yet.
Carries(c) == Running(c) /\ c \in valid /\ c \notin sent

Init ==
    /\ \E t \in {Original, NoToken}, s \in Salts :
          /\ stored = [salt |-> s, hmac |-> s, data |-> t]
          /\ valid = {t} \cap Ids
    /\ rotates \in BOOLEAN
    /\ crypt = [p \in Processes |-> FreshCrypt]
    /\ cache = [p \in Processes |-> Uncached]
    /\ pc = [c \in Callers |-> "idle"]
    /\ kind = [c \in Callers |-> "save"]
    /\ settings = [c \in Callers |-> NoToken]
    /\ text = [c \in Callers |-> NoText]
    /\ sent = {}
    /\ stale = {}
    /\ raced = FALSE
    /\ intact = TRUE
    /\ failures = 0

Failure == failures < MaxFailures /\ failures' = failures + 1

(***************************************************************************)
(* Loading                                                                 *)
(***************************************************************************)
Begin(c, k) ==
    LET found == cache[Home[c]] IN
    /\ pc[c] = "idle"
    /\ kind' = [kind EXCEPT ![c] = k]
    /\ IF found = Uncached
       THEN Goto(c, "find") /\ UNCHANGED settings
       ELSE Goto(c, "loaded") /\ settings' = [settings EXCEPT ![c] = found]
    /\ raced' = (\/ raced
                 \/ \E o \in Callers : Running(o)
                 \/ found # Uncached /\ Home[c] \in stale)
    /\ UNCHANGED <<stored, crypt, cache, text, provider, sent, stale, intact, failures>>

\* The worker-api answers.
Find(c) ==
    /\ pc[c] = "find"
    /\ text' = [text EXCEPT ![c] = stored]
    /\ Goto(c, "found")
    /\ UNCHANGED <<stored, crypt, cache, settings, provider, kind, history>>

\* The answer arrives, is decrypted and cached; what cannot be decrypted throws.
Receive(c) ==
    LET p == Home[c] IN
    /\ pc[c] = "found"
    /\ crypt' = [crypt EXCEPT ![p] = AfterDecrypt(@, text[c])]
    /\ IF Decrypts(crypt[p], text[c])
       THEN /\ settings' = [settings EXCEPT ![c] = text[c].data]
            /\ text' = [text EXCEPT ![c] = NoText]
            /\ cache' = [cache EXCEPT ![p] = text[c].data]
            /\ stale' = stale \ {p}
            /\ Goto(c, "loaded")
       ELSE /\ End(c, "unreadable")
            /\ UNCHANGED <<cache, stale>>
    /\ UNCHANGED <<stored, provider, kind, sent, raced, intact, failures>>

FindFails(c) ==
    /\ pc[c] \in {"find", "found"}
    /\ Failure
    /\ End(c, "ended")
    /\ UNCHANGED <<stored, crypt, cache, provider, kind, sent, stale, raced, intact>>

(***************************************************************************)
(* The provider                                                            *)
(***************************************************************************)
\* A refresh without a refresh token throws at once.
NoRefreshToken(c) ==
    /\ pc[c] = "loaded" /\ kind[c] = "refresh" /\ settings[c] = NoToken
    /\ End(c, "ended")
    /\ UNCHANGED <<stored, crypt, cache, provider, kind, history>>

AskProvider(c) ==
    /\ pc[c] = "loaded" /\ kind[c] # "save"
    /\ kind[c] = "refresh" => settings[c] # NoToken
    /\ Goto(c, "provider")
    /\ UNCHANGED <<worker, provider, kind, history>>

\* The provider takes a token it knows; if it rotates tokens, a new one takes
\* its place.
Refresh(c) ==
    /\ pc[c] = "provider" /\ kind[c] = "refresh"
    /\ settings[c] \in valid
    /\ valid' = IF rotates THEN (valid \ {settings[c]}) \cup {c} ELSE valid
    /\ Goto(c, "answered")
    /\ UNCHANGED <<worker, rotates, kind, history>>

RefuseRefresh(c) ==
    /\ pc[c] = "provider" /\ kind[c] = "refresh"
    /\ settings[c] \notin valid
    /\ End(c, "refused")
    /\ UNCHANGED <<stored, crypt, cache, provider, kind, history>>

\* A code buys a token of its own, beside earlier ones.
Exchange(c) ==
    /\ pc[c] = "provider" /\ kind[c] = "token"
    /\ valid' = valid \cup {c}
    /\ Goto(c, "answered")
    /\ UNCHANGED <<worker, rotates, kind, history>>

\* The request or its answer is lost, or the answer is no token.
ProviderFails(c) ==
    /\ pc[c] \in {"provider", "answered"}
    /\ Failure
    /\ End(c, "ended")
    /\ intact' = (intact /\ ~Carries(c))
    /\ UNCHANGED <<stored, crypt, cache, provider, kind, sent, stale, raced>>

\* The provider answers c with a refresh token.
Issues(c) == kind[c] = "token" \/ (kind[c] = "refresh" /\ rotates)

\* Mutant: the refresh token of the answer is taken even if there is none.
ConvertAlways(c) ==
    IF kind[c] = "save" THEN settings[c] ELSE IF Issues(c) THEN c ELSE NoToken

\* convertAccessToken and addSettings: an answer without a refresh token leaves
\* the one there is.
Changed(c) == IF Issues(c) THEN c ELSE settings[c]

(***************************************************************************)
(* Sending                                                                 *)
(***************************************************************************)
\* The document is changed and encrypted to be sent.
Change(c) ==
    LET p == Home[c] IN
    /\ pc[c] = IF kind[c] = "save" THEN "loaded" ELSE "answered"
    /\ settings' = [settings EXCEPT ![c] = NoToken]
    /\ \E s \in Salts : crypt' = [crypt EXCEPT ![p] = AfterEncrypt(@, s)]
    /\ text' = [text EXCEPT ![c] = Encrypt(crypt'[p], Changed(c))]
    /\ Goto(c, "send")
    /\ UNCHANGED <<stored, cache, provider, kind, history>>

\* The worker-api stores the document,
Handle(c) ==
    /\ pc[c] = "send"
    /\ stored' = text[c]
    /\ sent' = sent \cup {c}
    /\ stale' = stale \cup {p \in Processes : cache[p] # Uncached}
    /\ intact' = (intact /\ (\/ kind[c] # "save" /\ c \notin sent
                            \/ text[c].data = stored.data))
    /\ Goto(c, "sent")
    /\ UNCHANGED <<crypt, cache, settings, text, provider, kind, raced, failures>>

\* or refuses to.
Refuse(c) ==
    /\ pc[c] = "send"
    /\ Failure
    /\ Goto(c, "unsent")
    /\ UNCHANGED <<worker, provider, kind, sent, stale, raced, intact>>

\* The settings that were sent are decrypted again.
Reopen(c) == crypt' = [crypt EXCEPT ![Home[c]] = AfterDecrypt(@, text[c])]

\* Mutant: a write leaves the cache alone.
FinishKeepsCache(c) ==
    /\ pc[c] \in {"sent", "unsent"}
    /\ Reopen(c)
    /\ intact' = (intact /\ ~Carries(c))
    /\ stale' = stale \ {Home[c]}
    /\ End(c, "ended")
    /\ UNCHANGED <<stored, cache, provider, kind, sent, raced, failures>>

\* The answer arrives, whatever its status: the call opens its settings again,
\* and the process drops its cache, unless that throws.
Finish(c) ==
    /\ pc[c] \in {"sent", "unsent"}
    /\ Reopen(c)
    /\ IF Decrypts(crypt[Home[c]], text[c])
       THEN /\ cache' = [cache EXCEPT ![Home[c]] = Uncached]
            /\ stale' = stale \ {Home[c]}
            /\ End(c, "ended")
       ELSE End(c, "unreadable") /\ UNCHANGED <<cache, stale>>
    /\ intact' = (intact /\ ~Carries(c))
    /\ UNCHANGED <<stored, provider, kind, sent, raced, failures>>

\* No answer: a node keeps its object, everybody else gives up.
SendFails(c) ==
    /\ pc[c] \in {"send", "sent", "unsent"}
    /\ Failure
    /\ IF kind[c] = "refresh"
       THEN Goto(c, "kept") /\ UNCHANGED <<settings, text, intact>>
       ELSE End(c, "ended") /\ intact' = (intact /\ ~Carries(c))
    /\ UNCHANGED <<stored, crypt, cache, provider, kind, sent, stale, raced>>

\* Its settings are encrypted already, so the same text is sent again.
SendAgain(c) ==
    /\ pc[c] = "kept"
    /\ Goto(c, "send")
    /\ UNCHANGED <<worker, provider, kind, history>>

GiveUp(c) ==
    /\ pc[c] = "kept"
    /\ End(c, "ended")
    /\ intact' = (intact /\ ~Carries(c))
    /\ UNCHANGED <<stored, crypt, cache, provider, kind, sent, stale, raced, failures>>

(***************************************************************************)
(* A process                                                               *)
(***************************************************************************)
\* The time to live of its cached answer ends.
Expire(p) ==
    /\ cache[p] # Uncached
    /\ cache' = [cache EXCEPT ![p] = Uncached]
    /\ stale' = stale \ {p}
    /\ UNCHANGED <<stored, crypt, settings, text, provider, pc, kind,
                   sent, raced, intact, failures>>

\* It restarts: its calls, its cache and its salt are gone.
Restart(p) ==
    LET Lost(c) == Home[c] = p /\ Running(c) IN
    /\ Failure
    /\ pc' = [c \in Callers |-> IF Lost(c) THEN "ended" ELSE pc[c]]
    /\ settings' = [c \in Callers |-> IF Lost(c) THEN NoToken ELSE settings[c]]
    /\ text' = [c \in Callers |-> IF Lost(c) THEN NoText ELSE text[c]]
    /\ crypt' = [crypt EXCEPT ![p] = FreshCrypt]
    /\ cache' = [cache EXCEPT ![p] = Uncached]
    /\ stale' = stale \ {p}
    /\ intact' = (intact /\ \A c \in Callers : Lost(c) => ~Carries(c))
    /\ UNCHANGED <<stored, provider, kind, sent, raced>>

Next ==
    \/ \E c \in Callers :
          \/ \E k \in Kinds : Begin(c, k)
          \/ Find(c) \/ Receive(c) \/ FindFails(c)
          \/ NoRefreshToken(c) \/ AskProvider(c)
          \/ Refresh(c) \/ RefuseRefresh(c) \/ Exchange(c) \/ ProviderFails(c)
          \/ Change(c)
          \/ Handle(c) \/ Refuse(c) \/ Finish(c) \/ SendFails(c)
          \/ SendAgain(c) \/ GiveUp(c)
    \/ \E p \in Processes : Expire(p) \/ Restart(p)

Spec == Init /\ [][Next]_vars

(***************************************************************************)
(* Properties                                                              *)
(***************************************************************************)
Places == {"idle", "find", "found", "loaded", "provider", "answered", "send", "sent",
           "unsent", "kept", "ended", "refused", "unreadable"}

TypeOK ==
    /\ stored \in Texts(Settings)
    /\ valid \in SUBSET Ids
    /\ rotates \in BOOLEAN
    /\ crypt \in [Processes -> Crypts]
    /\ cache \in [Processes -> Settings \cup {Uncached}]
    /\ pc \in [Callers -> Places]
    /\ kind \in [Callers -> Kinds]
    /\ settings \in [Callers -> Settings]
    /\ text \in [Callers -> Texts(Settings) \cup {NoText}]
    /\ sent \in SUBSET Callers
    /\ stale \in SUBSET Processes
    /\ raced \in BOOLEAN
    /\ intact \in BOOLEAN
    /\ failures \in 0 .. MaxFailures

\* What one process encrypted every process can decrypt, also after a restart
\* and whatever the two encrypted or decrypted before (WindWalkerCrypt keeps
\* the signing key of the last text).
TextsOpen == \A c \in Callers : pc[c] # "unreadable"

\* The install keeps a refresh token that the provider accepts: either the
\* worker-api has it, or a call has yet to send it.  No interleaving of refreshes
\* and authorizations, no old cache and no restart of a process at rest loses
\* it; only a new token lost on its way, or an older document written over a
\* newer one, does (AOAuth2Application.refreshAuthorization,
\* setAuthorizationToken and Repository.insertMany).
TokenSurvives ==
    intact /\ valid # {} =>
        stored.data \in valid \/ \E c \in Callers : Carries(c)

\* As long as calls neither overlap nor begin with a cache that a later write
\* made old, the provider refuses no refresh: each uses the token that the one
\* before received (Repository.clearCache after every write).
RefusedIsRace ==
    \A c \in Callers : pc[c] = "refused" => raced \/ ~intact
=============================================================================
