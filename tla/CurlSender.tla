---------------------------- MODULE CurlSender ----------------------------
(***************************************************************************)
(* One call of the HTTP client: the request, the metric about it, and the  *)
(* exception or answer the calling node sees.  What a node does not catch  *)
(* is the error its route passes on: OnRepeat and OnStopAndFail are the    *)
(* two the error handler of RequestPool answers in its own way.            *)
(* TopologyRunner makes such calls, one after the other.                   *)
(***************************************************************************)
EXTENDS Naturals, Sequences, ResultCodeRange

CONSTANT Statuses   \* status codes a server may answer with

ASSUME StatusAssumption == Statuses \subseteq Nat \ {0}

\* The value of codeRanges: a shipped table, or null
Tables == [default |-> defaultRanges, repeatOnError |-> repeatOnErrorRanges,
           continueOnNotFound |-> continueOnNotFoundRanges,
           continueOnError |-> continueOnErrorRanges, keepAll |-> keepAllRanges]

VARIABLES
    phase,         \* where send() waits
    table,      \* the name of codeRanges
    status,     \* the status the server answered with, or 0
    failure,    \* how the request failed without an answer
    metrics,    \* the response codes reported to the metrics, in order
    outcome     \* how send() ended

callVars == <<phase, table, status, failure, metrics, outcome>>

CallInit ==
    /\ phase = "requested"
    /\ table \in DOMAIN Tables \cup {"null"}
    /\ status = 0
    /\ failure = "none"
    /\ metrics = <<>>
    /\ outcome = "none"

\* sendMetrics is called with this code, and awaited.
Reported(code) ==
    /\ metrics' = Append(metrics, code)
    /\ phase' = "reporting"

\* The server answers; its status is reported before it is looked at.
Answered(code) ==
    /\ phase = "requested"
    /\ status' = code
    /\ Reported(code)
    /\ UNCHANGED <<table, failure, outcome>>

\* Mutant: a timeout stops the process, as other codes above 400 do.
TimesOutStops ==
    /\ phase = "requested"
    /\ failure' = "timeout"
    /\ outcome' = "OnStopAndFail"
    /\ Reported(408)
    /\ UNCHANGED <<table, status>>

\* axios gives up after the timeout of the request.
TimesOut ==
    /\ phase = "requested"
    /\ failure' = "timeout"
    /\ outcome' = "OnRepeat"
    /\ Reported(408)
    /\ UNCHANGED <<table, status>>

\* The request cannot be built or sent, or its connection breaks.
Breaks ==
    /\ phase = "requested"
    /\ failure' = "broken"
    /\ outcome' = "other"
    /\ Reported(500)
    /\ UNCHANGED <<table, status>>

\* Mutant: sendMetrics passes a rejection on, which the catch of send takes for
\* a failure of the call.
MetricsSettleOrThrow ==
    /\ phase = "reporting"
    /\ \/ /\ phase' = IF outcome = "none" THEN "measured" ELSE "done"
          /\ UNCHANGED outcome
       \/ /\ phase' = "done"
          /\ outcome' = "other"
    /\ UNCHANGED <<table, status, failure, metrics>>

\* The worker-api takes the metric, refuses it or does not answer:
\* sendCurlMetrics resolves in each case, and sendMetrics catches the rest.
MetricsSettle ==
    /\ phase = "reporting"
    /\ phase' = IF outcome = "none" THEN "measured" ELSE "done"
    /\ UNCHANGED <<table, status, failure, metrics, outcome>>

\* What the status makes of the call; without a table every answer is returned.
Decision == IF table = "null" THEN "returned" ELSE Outcome(status, Tables[table])

\* The status decides.
Decide ==
    /\ phase = "measured"
    /\ outcome' = Decision
    /\ phase' = "done"
    /\ UNCHANGED <<table, status, failure, metrics>>

\* Mutant: the metrics hear of failures only after the decision.
CallbackFailsUnreported ==
    /\ phase = "measured"
    /\ Decision # "returned"
    /\ outcome' = "other"
    /\ phase' = "done"
    /\ UNCHANGED <<table, status, failure, metrics>>

\* The callback that words the message of an exception fails, and its error
\* takes the place of that exception; the call is reported once more.
CallbackFails ==
    /\ phase = "measured"
    /\ Decision # "returned"
    /\ outcome' = "other"
    /\ Reported(500)
    /\ UNCHANGED <<table, status, failure>>

(***************************************************************************)
(* Properties                                                              *)
(***************************************************************************)
\* The lists of a shipped table do not overlap, so the order in which they are
\* asked never matters; and none leaves a status out, so the fallback after them
\* does not matter either, but for what keepAll, which ends at 998, does not keep.
TablesPartition ==
    status # 0 /\ table # "null" =>
        LET named == { f \in {"success", "stopAndFail", "repeat"} :
                           InRange(status, Tables[table][f]) } IN
        IF table = "keepAll" /\ status >= 999 THEN named = {}
        ELSE \E f \in named : named = {f}

\* The comment of send() gives its default as
\*     success: '<300', stopAndFail: ['300-408', '409-500'], repeat: [408, '>=500']
documentedRanges == Table({Below(300)},
                          {Between(300, 408), Between(409, 500)},
                          {Code(408), AtLeast(500)})

\* With the default table a call ends as the comment says for every code that is
\* reported of it, a timeout counting as 408, but for one: 429, which the comment
\* stops and the code repeats.  (A request that breaks, or a callback that fails,
\* ends the call with its own error.)
DecidesAsDocumented ==
    phase = "done" /\ table = "default" /\ outcome # "other" =>
        (outcome = Outcome(Head(metrics), documentedRanges) <=> Head(metrics) # 429)

\* Whatever happens the metrics get the status the server sent, as the first
\* thing they hear of the call, and nothing else unless it failed otherwise.
StatusIsReported ==
    status # 0 =>
        metrics = IF outcome = "other" THEN <<status, 500>> ELSE <<status>>
=============================================================================
