--------------------------- MODULE TopologyRunner ---------------------------
(***************************************************************************)
(* One message of the bridge at a node whose work is a call of an external *)
(* service, from its first delivery until the bridge passes the message on *)
(* or gives it up.  The call goes out in one of three ways:                *)
(*                                                                         *)
(*   "node"    the node calls CurlSender itself and catches nothing,       *)
(*   "runner"  it starts a topology through TopologyRunner,                *)
(*   "entry"   it asks for cached data through CacheService.entry.         *)
(*                                                                         *)
(* Each way turns failures into errors of its own, the error handler turns *)
(* errors into answers, and the bridge delivers again what is to be        *)
(* repeated, as long as there are hops left.  CurlSender is the machine of *)
(* one call; this module starts it again at every delivery.                *)
(*                                                                         *)
(* A service may act although its answer is lost or tells of a failure.    *)
(* Three history variables remember it: acted counts how often it did,     *)
(* doubt records that it did so once without an answer of 2xx reaching the *)
(* caller, spurned that such an answer did reach run() and was not a 200.  *)
(***************************************************************************)
EXTENDS CurlSender

CONSTANTS
    ExceptionHops,  \* hops an OnRepeatException asks for
    MaxHops         \* the largest number of hops a node may be set to

ASSUME HopsAssumption == ExceptionHops \in Nat \ {0} /\ MaxHops \in Nat

VARIABLES
    via,        \* how the node calls
    place,      \* where the message is
    error,      \* what the node threw at the last delivery
    hop,        \* repeat-hops of the message
    maxHops,    \* repeat-max-hops of the last answer
    acted, doubt, spurned

history == <<acted, doubt, spurned>>
message == <<via, place, error, hop, maxHops>>
runnerVars == <<callVars, message, history>>

Ways == {"node", "runner", "entry"}

\* The table each way hands to CurlSender: run() uses the default, entry() any
\* table but null.
TablesOf(way) ==
    CASE way = "node" -> DOMAIN Tables \cup {"null"}
      [] way = "runner" -> {"default"}
      [] way = "entry" -> DOMAIN Tables

RunnerInit ==
    /\ CallInit
    /\ via \in Ways
    /\ table \in TablesOf(via)
    /\ place = "delivered"
    /\ error = "none"
    /\ hop = 0
    /\ maxHops = 0
    /\ acted = 0
    /\ doubt = FALSE
    /\ spurned = FALSE

(***************************************************************************)
(* The node                                                                *)
(***************************************************************************)
\* The node makes its call; what is cached needs none, and Redis may fail.
StartCall ==
    /\ place = "delivered"
    /\ \/ place' = "calling" /\ UNCHANGED error
       \/ via = "entry" /\ place' = "passed" /\ UNCHANGED error
       \/ via = "entry" /\ place' = "thrown" /\ error' = "other"
    /\ UNCHANGED <<callVars, via, hop, maxHops, history>>

\* The service has acted or not; sure tells that the caller learns of it.
Acts(maybe, sure) ==
    \E a \in maybe : /\ acted' = acted + a
                     /\ doubt' = (doubt \/ (a = 1 /\ ~sure))

\* A service that answers 2xx acted, one that refuses did not, and one that
\* fails may have.  run() takes 200 only for a success.
Sees(code) ==
    /\ Acts(IF code \in 200 .. 299 THEN {1} ELSE IF code >= 500 THEN {0, 1} ELSE {0},
            code < 300)
    /\ spurned' = (spurned \/ (via = "runner" /\ code \in 201 .. 299))

\* CurlSender at work; the callback of run() and entry() is the default one,
\* which does not fail.
Call ==
    /\ place = "calling"
    /\ \/ \E code \in Statuses : Answered(code) /\ Sees(code)
       \/ (TimesOut \/ Breaks) /\ Acts({0, 1}, FALSE) /\ UNCHANGED spurned
       \/ (MetricsSettle \/ Decide) /\ UNCHANGED history
       \/ via = "node" /\ CallbackFails /\ UNCHANGED history
    /\ UNCHANGED message

\* Mutant: a stop of CurlSender is passed on.
RunPassesStops ==
    IF outcome = "returned" /\ status = 200 THEN "none"
    ELSE IF outcome = "OnStopAndFail" THEN outcome ELSE "OnRepeat"

\* What run() throws: whatever is not a 200 is to be repeated.
Run == IF outcome = "returned" /\ status = 200 THEN "none" ELSE "OnRepeat"

\* Mutant: an OnRepeat of CurlSender is passed on.
EntryPassesRepeats == IF outcome = "returned" THEN "none" ELSE outcome

\* What the catch of entry() makes of it: a plain Error.
Entry == IF outcome = "returned" THEN "none" ELSE "other"

\* What the node throws, "none" if it returns
Thrown ==
    CASE via = "node" -> IF outcome = "returned" THEN "none" ELSE outcome
      [] via = "runner" -> Run
      [] via = "entry" -> Entry

\* send() is over.  With data from entry() there is the callback and a SET of
\* Redis to go, and either may fail.
Settle ==
    /\ place = "calling" /\ phase = "done"
    /\ \E e \in {Thrown} \cup (IF via = "entry" THEN {"other"} ELSE {}) :
          /\ error' = e
          /\ place' = IF e = "none" THEN "passed" ELSE "thrown"
    /\ UNCHANGED <<callVars, via, hop, maxHops, history>>

(***************************************************************************)
(* The error handler and the bridge                                        *)
(***************************************************************************)
\* An error that is not to be repeated ends the message.
Answer ==
    /\ place = "thrown"
    /\ place' = IF error = "OnRepeat" THEN "lookup" ELSE "stopped"
    /\ UNCHANGED <<callVars, via, error, hop, maxHops, history>>

\* Repeater settings of the node go before those of the exception.
Repeat(hops) ==
    /\ place = "lookup" /\ hops >= 1
    /\ maxHops' = hops
    /\ place' = "repeated"
    /\ UNCHANGED <<callVars, via, error, hop, history>>

\* The settings cannot be read, or setRepeater refuses them: a bare error.
RepeatFails ==
    /\ place = "lookup"
    /\ place' = "unset"
    /\ UNCHANGED <<callVars, via, error, hop, maxHops, history>>

\* Mutant: the hops of the message are not counted.
RedeliverUncounted ==
    /\ place = "repeated"
    /\ hop < maxHops
    /\ place' = "delivered"
    /\ phase' = "requested" /\ status' = 0 /\ failure' = "none" /\ metrics' = <<>>
    /\ outcome' = "none"
    /\ UNCHANGED <<table, via, error, hop, maxHops, history>>

\* The bridge delivers the message again, with one hop more,
Redeliver ==
    /\ place = "repeated"
    /\ hop < maxHops
    /\ hop' = hop + 1
    /\ place' = "delivered"
    /\ phase' = "requested" /\ status' = 0 /\ failure' = "none" /\ metrics' = <<>>
    /\ outcome' = "none"
    /\ UNCHANGED <<table, via, error, maxHops, history>>

\* or gives it up.
UsedUp ==
    /\ place = "repeated"
    /\ hop >= maxHops
    /\ place' = "usedUp"
    /\ UNCHANGED <<callVars, via, error, hop, maxHops, history>>

Repeating ==
    \/ \E hops \in (0 .. MaxHops) \cup {ExceptionHops} : Repeat(hops)
    \/ RepeatFails

RunnerNext == StartCall \/ Call \/ Settle \/ Answer \/ Repeating \/ Redeliver \/ UsedUp

RunnerSpec == RunnerInit /\ [][RunnerNext]_runnerVars

\* Nothing makes the service answer: it is the timer of axios that ends the
\* call, and another one the metric.  The rest is callbacks that are ready, a
\* lookup with a timeout of its own, and the bridge, which keeps its messages.
RunnerFairness ==
    /\ WF_runnerVars(StartCall)
    /\ WF_runnerVars(place = "calling" /\ TimesOut /\ Call)
    /\ WF_runnerVars(Call /\ phase # "requested")
    /\ WF_runnerVars(Settle)
    /\ WF_runnerVars(Answer)
    /\ WF_runnerVars(Repeating)
    /\ WF_runnerVars(Redeliver \/ UsedUp)

FairRunnerSpec == RunnerSpec /\ RunnerFairness

(***************************************************************************)
(* Properties                                                              *)
(***************************************************************************)
Ends == {"passed", "stopped", "unset", "usedUp"}

\* A service does a second time what it did for the same message only if its
\* first answer did not arrive, or told of a failure, or if run() took a success
\* other than 200 for one: nothing else is repeated, whatever becomes of the
\* metric about it (TopologyRunner.run, CurlSender.sendMetrics and the repeats of
\* the bridge).
NoSecondStart ==
    [][acted' > acted => acted = 0 \/ doubt \/ spurned]_runnerVars

\* The start of a topology is passed on when it was answered 200, and then the
\* topology was started.  Any other start is made again until its hops, at least
\* one, are used up, or until the repeat settings of the node cannot be read or
\* are refused; no error that would stop the process gets through.  Not one of
\* these has started the topology and been told so by a 200 (TopologyRunner.run).
StartIsAccountedFor ==
    via = "runner" /\ place \in Ends =>
        IF place = "passed" THEN status = 200 /\ acted >= 1
        ELSE /\ place = "unset" \/ (place = "usedUp" /\ hop >= maxHops /\ hop >= 1)
             /\ acted = 0 \/ doubt \/ spurned

\* A failure inside CacheService.entry ends the message at once, although its
\* default table asks for repeats: the service is asked once for a message.
EntryIsOneShot == via = "entry" => hop = 0 /\ acted <= 1

\* Every message is passed on or given up in the end, even if the service never
\* answers: the timeout of the request turns silence into a repeat, and the
\* repeats are counted.
Settles == <>(place \in Ends)
=============================================================================
