---------------------------- MODULE TunnelClient ----------------------------
(***************************************************************************)
(* The tunnel: the worker opens a gRPC stream to a proxy, passes every     *)
(* request frame it receives to its own Express server, writes the answer  *)
(* to the stream, and reopens the stream with back-off when it breaks.     *)
(*                                                                         *)
(* The events of a stream (data, error, end) are delivered some time after *)
(* they happen, also when the client has moved on to another stream or was *)
(* stopped.  A request frame that lacks its id or method is not served.    *)
(*                                                                         *)
(* Bounds: a stream may be opened again under the name of one whose events *)
(* have all been delivered; a frame is used once; the attempt counter      *)
(* stops at MaxAttempt, where the delay has reached its maximum.           *)
(***************************************************************************)
EXTENDS Naturals

CONSTANTS
    Streams,        \* names of the streams that can exist at once
    NoStream,       \* "null"
    Frames,         \* request frames the proxy sends
    Interval,       \* options.reconnectInterval
    MaxInterval,    \* MAX_RECONNECT_INTERVAL
    MaxAttempt      \* bound of reconnectAttempt

\* 2 ** n
Power[n \in Nat] == IF n = 0 THEN 1 ELSE 2 * Power[n - 1]

ASSUME TunnelAssumption ==
    /\ NoStream \notin Streams
    /\ Interval \in Nat \ {0}
    /\ MaxInterval \in Nat
    /\ MaxAttempt \in Nat \ {0}
    /\ Interval * Power[MaxAttempt - 1] >= MaxInterval

VARIABLES
    phase,      \* where start() is
    stopping,   \* this.stopping
    signals,    \* onSignal is registered for SIGTERM and SIGINT
    server,     \* the local Express server
    stream,     \* this.stream
    timer,      \* this.reconnectTimer is set
    wait,       \* the delay it was last set with
    attempt,    \* this.reconnectAttempt
    live,       \* live[s]: the call behind stream s is up
    pending,    \* pending[s]: the events of s that are still to be delivered
    wire,       \* wire[s]: the frames still to be delivered as data of s
    frame       \* what became of a frame

vars == <<phase, stopping, signals, server, stream, timer, wait, attempt,
          live, pending, wire, frame>>

local == <<phase, stopping, signals, server>>
client == <<stream, timer, wait, attempt>>
network == <<live, pending, wire, frame>>

Init ==
    /\ phase = "idle"
    /\ stopping = FALSE
    /\ signals = FALSE
    /\ server = "none"
    /\ stream = NoStream
    /\ timer = FALSE
    /\ wait = 0
    /\ attempt = 0
    /\ live = [s \in Streams |-> FALSE]
    /\ pending = [s \in Streams |-> {}]
    /\ wire = [s \in Streams |-> {}]
    /\ frame = [f \in Frames |-> "unsent"]

(***************************************************************************)
(* Helpers                                                                 *)
(***************************************************************************)
\* A stream object nobody refers to and that has nothing left to deliver
Unused(s) == ~live[s] /\ pending[s] = {} /\ wire[s] = {} /\ stream # s

\* Mutant: connect() does not look at this.stopping.
ConnectAlways ==
    \E s \in Streams :
        /\ Unused(s)
        /\ stream' = s
        /\ live' = [live EXCEPT ![s] = TRUE]

\* connect()
Connect ==
    IF stopping
    THEN UNCHANGED <<stream, live>>
    ELSE \E s \in Streams :
            /\ Unused(s)
            /\ stream' = s
            /\ live' = [live EXCEPT ![s] = TRUE]

\* Mutant: the delay is not capped.
DelayUncapped(n) == Interval * Power[n - 1]

\* Math.min(reconnectInterval * 2 ** (attempt - 1), MAX_RECONNECT_INTERVAL)
Delay(n) == LET d == Interval * Power[n - 1]
            IN  IF d <= MaxInterval THEN d ELSE MaxInterval

NextAttempt == IF attempt = MaxAttempt THEN attempt ELSE attempt + 1

\* Mutant: the timer is set once only.
ScheduleFirstOnly ==
    IF stopping \/ attempt > 1
    THEN /\ stream' = NoStream
         /\ UNCHANGED <<attempt, timer, wait>>
    ELSE /\ stream' = NoStream
         /\ attempt' = NextAttempt
         /\ timer' = TRUE
         /\ wait' = Delay(attempt')

\* scheduleReconnect()
ScheduleReconnect ==
    IF stopping \/ timer
    THEN UNCHANGED client
    ELSE /\ stream' = NoStream
         /\ attempt' = NextAttempt
         /\ timer' = TRUE
         /\ wait' = Delay(attempt')

(***************************************************************************)
(* start() and stop()                                                      *)
(***************************************************************************)
\* The options are checked, the local server begins to listen.
Start ==
    /\ phase = "idle"
    /\ \/ phase' = "binding"
       \/ phase' = "failed"
    /\ UNCHANGED <<stopping, signals, server, client, network>>

Listening ==
    /\ phase = "binding"
    /\ phase' = "loading"
    /\ server' = "listening"
    /\ UNCHANGED <<stopping, signals, client, network>>

\* The gRPC packages are loaded: connect, then register for the signals.
Loaded ==
    /\ phase = "loading"
    /\ phase' = "running"
    /\ Connect
    /\ signals' = TRUE
    /\ UNCHANGED <<stopping, server, timer, wait, attempt, pending, wire, frame>>

\* They are missing: start() rejects and lib/index.ts ends the process.
LoadFails ==
    /\ phase = "loading"
    /\ phase' = "failed"
    /\ UNCHANGED <<stopping, signals, server, client, network>>

\* stop() up to its await.  The cancelled call still emits its last events.
Stop ==
    /\ stopping' = TRUE
    /\ signals' = FALSE
    /\ timer' = FALSE
    /\ stream' = NoStream
    /\ IF stream # NoStream /\ live[stream]
       THEN /\ live' = [live EXCEPT ![stream] = FALSE]
            /\ pending' = [pending EXCEPT ![stream] = {"error", "end"}]
       ELSE UNCHANGED <<live, pending>>
    /\ server' = IF server = "listening" THEN "closing" ELSE server
    /\ UNCHANGED <<phase, wait, attempt, wire, frame>>

\* The application calls stop().  What close() does to a server that is not
\* listening yet is Node's business and left out.
StopCalled ==
    /\ phase \in {"idle", "loading", "running"}
    /\ ~stopping
    /\ Stop

\* SIGTERM or SIGINT: the listener is gone after its first call.
Signal ==
    /\ signals
    /\ IF stopping
       THEN /\ signals' = FALSE
            /\ UNCHANGED <<phase, stopping, server, client, network>>
       ELSE Stop

\* Mutant: stop() waits for an answer to every frame it has received.
ServerClosedAfterAnswers ==
    /\ server = "closing"
    /\ \A f \in Frames : frame[f] \notin {"sent", "local", "dropped"}
    /\ server' = "none"
    /\ UNCHANGED <<phase, stopping, signals, client, network>>

\* server.close() calls back when the last local request has been answered.
ServerClosed ==
    /\ server = "closing"
    /\ \A f \in Frames : frame[f] # "local"
    /\ server' = "none"
    /\ UNCHANGED <<phase, stopping, signals, client, network>>

(***************************************************************************)
(* The stream                                                              *)
(***************************************************************************)
\* The proxy or the network ends the call behind s.
StreamBreaks(s) ==
    /\ live[s]
    /\ live' = [live EXCEPT ![s] = FALSE]
    /\ \E E \in (SUBSET {"error", "end"}) \ {{}} : pending' = [pending EXCEPT ![s] = E]
    /\ UNCHANGED <<local, client, wire, frame>>

ProxySends(s, f) ==
    /\ live[s]
    /\ frame[f] = "unsent"
    /\ wire' = [wire EXCEPT ![s] = @ \cup {f}]
    /\ frame' = [frame EXCEPT ![f] = "sent"]
    /\ UNCHANGED <<local, client, live, pending>>

\* Mutant: the listener does not compare its stream with the current one.
DataOfAnyStream(s, f) ==
    /\ f \in wire[s]
    /\ wire' = [wire EXCEPT ![s] = @ \ {f}]
    /\ attempt' = 0
    /\ \E served \in BOOLEAN :
          frame' = [frame EXCEPT ![f] = IF served THEN "local" ELSE "ignored"]
    /\ UNCHANGED <<local, stream, timer, wait, live, pending>>

\* stream.on('data'): nothing happens to a frame of another stream.  Any frame
\* of the current one confirms the connection.
Data(s, f) ==
    /\ f \in wire[s]
    /\ wire' = [wire EXCEPT ![s] = @ \ {f}]
    /\ IF stream # s
       THEN /\ frame' = [frame EXCEPT ![f] = "ignored"]
            /\ UNCHANGED attempt
       ELSE /\ attempt' = 0
            /\ \E served \in BOOLEAN :
                  frame' = [frame EXCEPT ![f] = IF served THEN "local" ELSE "ignored"]
    /\ UNCHANGED <<local, stream, timer, wait, live, pending>>

\* Mutant: the same for error and end.
ErrorOrEndOfAnyStream(s, e) ==
    /\ e \in pending[s]
    /\ pending' = [pending EXCEPT ![s] = @ \ {e}]
    /\ IF stopping THEN UNCHANGED client ELSE ScheduleReconnect
    /\ UNCHANGED <<local, live, wire, frame>>

\* stream.on('error') and stream.on('end')
ErrorOrEnd(s, e) ==
    /\ e \in pending[s]
    /\ pending' = [pending EXCEPT ![s] = @ \ {e}]
    /\ IF stream # s \/ stopping
       THEN UNCHANGED client
       ELSE ScheduleReconnect
    /\ UNCHANGED <<local, live, wire, frame>>

\* The reconnect timer fires.
TimerFires ==
    /\ timer
    /\ timer' = FALSE
    /\ Connect
    /\ UNCHANGED <<local, wait, attempt, pending, wire, frame>>

\* Mutant: an answer waits for a stream.
AnswerWhenUp(f) ==
    /\ frame[f] = "local"
    /\ stream # NoStream
    /\ frame' = [frame EXCEPT ![f] = "answered"]
    /\ UNCHANGED <<local, client, live, pending, wire>>

\* The local request settles, with an answer or an error; either is written to
\* the stream that is current by now, and dropped when there is none.
Answer(f) ==
    /\ frame[f] = "local"
    /\ frame' = [frame EXCEPT ![f] = IF stream = NoStream THEN "dropped" ELSE "answered"]
    /\ UNCHANGED <<local, client, live, pending, wire>>

Events(s) ==
    \/ \E e \in {"error", "end"} : ErrorOrEnd(s, e)
    \/ \E f \in Frames : Data(s, f)

\* A failed start() ends the process.
Exited == phase = "failed"

Next ==
    /\ ~Exited
    /\ \/ Start \/ Listening \/ Loaded \/ LoadFails
       \/ StopCalled \/ Signal \/ ServerClosed
       \/ \E s \in Streams : StreamBreaks(s) \/ Events(s)
       \/ \E s \in Streams, f \in Frames : ProxySends(s, f)
       \/ TimerFires
       \/ \E f \in Frames : Answer(f)

Spec == Init /\ [][Next]_vars

\* Node delivers events and fires timers; the worker's own server answers.
\* The proxy and the network owe nothing.
FairSpec ==
    /\ Spec
    /\ WF_vars(~Exited /\ TimerFires)
    /\ WF_vars(~Exited /\ ServerClosed)
    /\ \A s \in Streams : WF_vars(~Exited /\ Events(s))
    /\ \A f \in Frames : WF_vars(~Exited /\ Answer(f))

(***************************************************************************)
(* Properties                                                              *)
(***************************************************************************)
StateTypes ==
    /\ phase \in {"idle", "binding", "loading", "running", "failed"}
    /\ stopping \in BOOLEAN
    /\ signals \in BOOLEAN
    /\ server \in {"none", "listening", "closing"}
    /\ stream \in Streams \cup {NoStream}
    /\ timer \in BOOLEAN
    /\ attempt \in 0 .. MaxAttempt
    /\ live \in [Streams -> BOOLEAN]
    /\ pending \in [Streams -> SUBSET {"error", "end"}]
    /\ wire \in [Streams -> SUBSET Frames]
    /\ frame \in [Frames -> {"unsent", "sent", "ignored", "local", "answered", "dropped"}]

TypeOK == StateTypes /\ wait \in 0 .. MaxInterval

\* The proxy never sees two connections of one worker: a call that is up is the
\* one the client works with, so no stream is opened beside another, and none
\* survives stop().
NoOrphanStream == \A s \in Streams : live[s] => stream = s

\* stop() is final, whatever start(), the timer and late events still do.
StopIsFinal == stopping => stream = NoStream

\* Auxiliary invariant of the proofs.
\* A reconnect is planned only while there is neither a stream nor a stop: the
\* guard of scheduleReconnect on its timer never swallows a broken stream.
TimerOnlyWhenDown == timer => stream = NoStream /\ ~stopping

\* A running client that has lost its stream has planned to reopen it.
DownIsPlanned == phase = "running" /\ stream = NoStream /\ ~stopping => timer

\* Events of streams the client has given up do not reset the back-off, and
\* bring no work.
DownIsQuiet ==
    [][stream = NoStream =>
        /\ attempt' >= attempt
        /\ \A f \in Frames : frame'[f] = "local" => frame[f] = "local"]_vars

\* The back-off starts with the configured interval, never shrinks before a frame
\* has confirmed a connection, and never exceeds its maximum.
BackOffHolds ==
    [][attempt' # 0 =>
        /\ wait' <= MaxInterval
        /\ IF attempt = 0 THEN wait' <= Interval ELSE wait' >= wait]_vars

\* A broken stream is replaced, unless the client is stopped.
Reconnects == \A s \in Streams :
    stream = s /\ ~live[s] ~> (stream # NoStream /\ live[stream]) \/ stopping

\* A request the worker has accepted does not stay without an outcome.
FramesSettle == \A f \in Frames :
    frame[f] = "local" ~> frame[f] \in {"answered", "dropped"} \/ Exited

\* stop() returns: the local server drains although answers are dropped.
StopCompletes == server = "closing" ~> server = "none" \/ Exited
=============================================================================
