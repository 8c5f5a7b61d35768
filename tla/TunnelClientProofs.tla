------------------------- MODULE TunnelClientProofs -------------------------
(***************************************************************************)
(* Proofs about TunnelClient for any number of streams and frames, and any *)
(* reconnect interval.                                                     *)
(***************************************************************************)
EXTENDS TunnelClient, NaturalsInduction, WellFoundedInduction, TLAPS

-----------------------------------------------------------------------------
(* Powers of two.  The induction theorems of the library take an operator, *)
(* which no prover here can instantiate; that the order of the numbers is  *)
(* well-founded they can use, and induct over sets.                        *)

\* A set of numbers that has 0, and n + 1 with every n, has them all.
LEMMA NatSet ==
    ASSUME NEW S, S \subseteq Nat, 0 \in S, \A n \in S : n + 1 \in S
    PROVE  S = Nat
<1> DEFINE R == OpToRel(<, Nat)
           T == Nat \ S
<1>1. SUFFICES ASSUME T # {} PROVE FALSE
  OBVIOUS
<1>2. PICK x \in T : \A y \in T : ~(<<y, x>> \in R)
  <2>1. IsWellFoundedOn(R, Nat)
    BY NatLessThanWellFounded
  <2>2. T \subseteq Nat
    OBVIOUS
  <2> HIDE DEF R, T
  <2> QED
    BY <1>1, <2>1, <2>2, WFMin
<1>3. x - 1 \in Nat /\ x - 1 < x /\ (x - 1) + 1 = x
  <2>1. x \in Nat /\ x # 0
    BY <1>2
  <2> QED
    BY <2>1
<1>4. <<x - 1, x>> \in R
  BY <1>2, <1>3 DEF OpToRel
<1>5. x - 1 \in S
  BY <1>2, <1>3, <1>4
<1> QED
  BY <1>2, <1>3, <1>5

\* The first n + 1 powers of two
Powers(n, g) == /\ g \in [0 .. n -> Nat]
                /\ g[0] = 1
                /\ \A i \in 0 .. n - 1 : g[i + 1] = 2 * g[i]

LEMMA PowersExist == \A n \in Nat : \E g : Powers(n, g)
<1> DEFINE S == { n \in Nat : \E g : Powers(n, g) }
<1>1. 0 \in S
  <2>1. Powers(0, [i \in 0 .. 0 |-> 1])
    BY DEF Powers
  <2> QED
    BY <2>1
<1>2. ASSUME NEW n \in S PROVE n + 1 \in S
  <2>1. PICK g : Powers(n, g)
    BY <1>2
  <2> DEFINE h == [i \in 0 .. n + 1 |-> IF i = n + 1 THEN 2 * g[n] ELSE g[i]]
  <2>2. n \in Nat /\ g \in [0 .. n -> Nat] /\ g[n] \in Nat
    BY <2>1 DEF Powers
  <2>3. h \in [0 .. n + 1 -> Nat] /\ h[0] = 1
    BY <2>1, <2>2 DEF Powers
  <2>4. ASSUME NEW i \in 0 .. n PROVE h[i + 1] = 2 * h[i]
    <3>1. h[i] = g[i]
      BY <2>2
    <3>2. CASE i = n
      BY <2>2, <3>1, <3>2
    <3>3. CASE i # n
      <4>1. i \in 0 .. n - 1 /\ i + 1 \in 0 .. n
        BY <2>2, <3>3
      <4>2. h[i + 1] = g[i + 1] /\ g[i + 1] = 2 * g[i]
        BY <2>1, <2>2, <4>1 DEF Powers
      <4> QED
        BY <3>1, <4>2
    <3> QED
      BY <3>2, <3>3
  <2> HIDE DEF h
  <2>5. Powers(n + 1, h)
    BY <2>2, <2>3, <2>4 DEF Powers
  <2> QED
    BY <2>2, <2>5
<1> HIDE DEF S
<1>3. S = Nat
  BY <1>1, <1>2, NatSet DEF S
<1> QED
  BY <1>3 DEF S

\* The beginnings agree.
LEMMA PowersAgree ==
    ASSUME NEW n \in Nat, NEW g, NEW h, Powers(n, g), Powers(n + 1, h)
    PROVE  h[n] = g[n]
<1> DEFINE S == { i \in Nat : i <= n => h[i] = g[i] }
<1>1. 0 \in S
  BY DEF Powers
<1>2. ASSUME NEW i \in S PROVE i + 1 \in S
  <2>1. SUFFICES ASSUME i + 1 <= n PROVE h[i + 1] = g[i + 1]
    OBVIOUS
  <2>2. i \in 0 .. n - 1 /\ i \in 0 .. (n + 1) - 1 /\ h[i] = g[i]
    BY <2>1
  <2> QED
    BY <2>2 DEF Powers
<1> HIDE DEF S
<1>3. S = Nat
  BY <1>1, <1>2, NatSet DEF S
<1> QED
  BY <1>3 DEF S

\* The function of the model is the one its definition describes.
LEMMA PowerDef ==
    /\ Power[0] = 1
    /\ \A n \in Nat : Power[n] \in Nat /\ Power[n + 1] = 2 * Power[n]
<1> DEFINE G(n) == CHOOSE g : Powers(n, g)
           F == [n \in Nat |-> G(n)[n]]
<1>1. \A n \in Nat : Powers(n, G(n))
  BY PowersExist
<1> HIDE DEF G
<1>2. F[0] = 1
  BY <1>1 DEF Powers
<1>3. \A n \in Nat : F[n] \in Nat
  BY <1>1 DEF Powers
<1>4. ASSUME NEW n \in Nat PROVE F[n + 1] = 2 * F[n]
  <2>1. Powers(n, G(n)) /\ Powers(n + 1, G(n + 1))
    BY <1>1
  <2>2. G(n + 1)[n] = G(n)[n]
    BY <2>1, PowersAgree
  <2>3. G(n + 1)[n + 1] = 2 * G(n + 1)[n]
    BY <2>1 DEF Powers
  <2> QED
    BY <2>2, <2>3
<1>5. ASSUME NEW n \in Nat PROVE F[n] = IF n = 0 THEN 1 ELSE 2 * F[n - 1]
  <2>1. CASE n = 0
    BY <1>2, <2>1
  <2>2. CASE n # 0
    <3>1. n - 1 \in Nat /\ (n - 1) + 1 = n
      BY <2>2
    <3>2. F[(n - 1) + 1] = 2 * F[n - 1]
      BY <1>4, <3>1
    <3> QED
      BY <2>2, <3>1, <3>2
  <2> QED
    BY <2>1, <2>2
<1>6. F = [n \in Nat |-> IF n = 0 THEN 1 ELSE 2 * F[n - 1]]
  BY <1>5
<1> HIDE DEF F
<1>7. Power = [n \in Nat |-> IF n = 0 THEN 1 ELSE 2 * Power[n - 1]]
  BY <1>6 DEF Power
<1> HIDE DEF Power
<1>8. Power[0] = 1
  BY <1>7
<1>9. \A n \in Nat : Power[n + 1] = 2 * Power[n]
  BY <1>7
<1> DEFINE S == { n \in Nat : Power[n] \in Nat }
<1>10. 0 \in S /\ \A n \in S : n + 1 \in S
  BY <1>8, <1>9
<1> HIDE DEF S
<1>11. S = Nat
  BY <1>10, NatSet DEF S
<1> QED
  BY <1>8, <1>9, <1>11 DEF S

-----------------------------------------------------------------------------
(* The back-off *)

\* The delays grow from the interval to the maximum.
LEMMA DelayFacts ==
    ASSUME NEW n \in Nat \ {0}
    PROVE  /\ Delay(n) \in 0 .. MaxInterval
           /\ Delay(1) <= Interval
           /\ Delay(n) <= Delay(n + 1)
<1> DEFINE d == Interval * Power[n - 1]
<1>1. /\ n - 1 \in Nat /\ (n - 1) + 1 = n /\ (n + 1) - 1 = n /\ 1 - 1 = 0
      /\ Interval \in Nat /\ MaxInterval \in Nat
  BY TunnelAssumption
<1>2. Power[n - 1] \in Nat /\ Power[n] = 2 * Power[n - 1] /\ Power[0] = 1
  BY <1>1, PowerDef
<1>3. d \in Nat
  BY <1>1, <1>2
<1>4. Interval * Power[n] = 2 * d
  BY <1>1, <1>2
<1>5. Interval * Power[0] = Interval
  BY <1>1, <1>2
<1>6. /\ Delay(n) = IF d <= MaxInterval THEN d ELSE MaxInterval
      /\ Delay(n + 1) = IF 2 * d <= MaxInterval THEN 2 * d ELSE MaxInterval
      /\ Delay(1) = IF Interval <= MaxInterval THEN Interval ELSE MaxInterval
  BY <1>1, <1>4, <1>5 DEF Delay
<1> HIDE DEF d
<1> QED
  BY <1>1, <1>3, <1>6

\* The delay the timer was last set with is the one of the attempt.
WaitInv == /\ wait \in 0 .. MaxInterval
           /\ attempt # 0 => wait = Delay(attempt)

-----------------------------------------------------------------------------
(* The stream *)

\* Before start() has connected there is neither a stream nor a timer.
Unstarted == phase # "running" => stream = NoStream /\ ~timer

\* The events of a stream follow the end of its call.
EventsAreLast == \A s \in Streams : live[s] => pending[s] = {}

IInv == /\ StateTypes
        /\ EventsAreLast
        /\ Unstarted
        /\ NoOrphanStream
        /\ StopIsFinal
        /\ TimerOnlyWhenDown
        /\ DownIsPlanned

\* The invariant holds before start().
LEMMA InitIInv == Init => IInv
<1> SUFFICES ASSUME Init PROVE IInv
  OBVIOUS
<1>1. StateTypes
  <2>1. attempt \in 0 .. MaxAttempt
    BY TunnelAssumption DEF Init
  <2>2. /\ live \in [Streams -> BOOLEAN]
        /\ pending \in [Streams -> SUBSET {"error", "end"}]
        /\ wire \in [Streams -> SUBSET Frames]
    BY DEF Init
  <2>3. frame \in [Frames -> {"unsent", "sent", "ignored", "local", "answered",
                             "dropped"}]
    BY DEF Init
  <2> QED
    BY <2>1, <2>2, <2>3 DEF Init, StateTypes
<1>2. /\ EventsAreLast /\ Unstarted /\ NoOrphanStream /\ StopIsFinal
      /\ TimerOnlyWhenDown /\ DownIsPlanned
  BY DEF Init, EventsAreLast, Unstarted, NoOrphanStream, StopIsFinal,
         TimerOnlyWhenDown, DownIsPlanned
<1> QED
  BY <1>1, <1>2 DEF IInv

\* stop() leaves neither stream nor timer, wherever start() is.
LEMMA StopIInv == ASSUME IInv, Stop PROVE IInv'
<1>1. StateTypes' /\ EventsAreLast' /\ NoOrphanStream'
  <2>1. CASE stream # NoStream /\ live[stream]
    BY <2>1 DEF IInv, Stop, StateTypes, EventsAreLast, NoOrphanStream, client, network
  <2>2. CASE ~(stream # NoStream /\ live[stream])
    BY <2>2 DEF IInv, Stop, StateTypes, EventsAreLast, NoOrphanStream, client, network
  <2> QED
    BY <2>1, <2>2
<1>2. StopIsFinal' /\ TimerOnlyWhenDown' /\ DownIsPlanned' /\ Unstarted'
  BY DEF Stop, StopIsFinal, TimerOnlyWhenDown, DownIsPlanned, Unstarted
<1> QED
  BY <1>1, <1>2 DEF IInv

\* connect() is called only when there is no stream, and leaves one exactly
\* when the client is not stopping.
LEMMA ConnectFacts ==
    ASSUME IInv, stream = NoStream, Connect
    PROVE  /\ stream' \in Streams \cup {NoStream}
           /\ live' \in [Streams -> BOOLEAN]
           /\ \A s \in Streams : live'[s] => stream' = s
           /\ stopping => stream' = NoStream
           /\ ~stopping => stream' # NoStream
           /\ \A s \in Streams : live'[s] => pending[s] = {}
BY TunnelAssumption DEF IInv, StateTypes, EventsAreLast, NoOrphanStream, Connect, Unused

\* Every step keeps the invariant.
LEMMA NextIInv == IInv /\ [Next]_vars => IInv'
<1> SUFFICES ASSUME IInv, [Next]_vars PROVE IInv'
  OBVIOUS
<1> USE DEF local, client, network
<1>1. CASE Start \/ LoadFails
  BY <1>1 DEF Start, LoadFails, IInv, StateTypes, EventsAreLast, Unstarted, NoOrphanStream,
              StopIsFinal, TimerOnlyWhenDown, DownIsPlanned
<1>2. CASE Listening
  BY <1>2 DEF Listening, IInv, StateTypes, EventsAreLast, Unstarted, NoOrphanStream,
              StopIsFinal, TimerOnlyWhenDown, DownIsPlanned
<1>3. CASE Loaded
  <2>1. stream = NoStream /\ ~timer
    BY <1>3 DEF Loaded, IInv, Unstarted
  <2>2. Connect
    BY <1>3 DEF Loaded
  <2> QED
    BY <1>3, <2>1, <2>2, ConnectFacts
    DEF Loaded, IInv, StateTypes, EventsAreLast, Unstarted, NoOrphanStream, StopIsFinal,
        TimerOnlyWhenDown, DownIsPlanned
<1>4. CASE StopCalled \/ Signal
  <2>1. CASE Stop
    BY <2>1, StopIInv
  <2>2. CASE Signal /\ stopping
    BY <2>2 DEF Signal, IInv, StateTypes, EventsAreLast, Unstarted, NoOrphanStream, StopIsFinal,
                TimerOnlyWhenDown, DownIsPlanned
  <2> QED
    BY <1>4, <2>1, <2>2 DEF StopCalled, Signal
<1>5. CASE ServerClosed
  BY <1>5 DEF ServerClosed, IInv, StateTypes, EventsAreLast, Unstarted, NoOrphanStream,
              StopIsFinal, TimerOnlyWhenDown, DownIsPlanned
<1>6. ASSUME NEW s \in Streams, StreamBreaks(s) PROVE IInv'
  <2>1. PICK E \in (SUBSET {"error", "end"}) \ {{}} :
                pending' = [pending EXCEPT ![s] = E]
    BY <1>6 DEF StreamBreaks
  <2>2. live' = [live EXCEPT ![s] = FALSE]
    BY <1>6 DEF StreamBreaks
  <2>3. StateTypes' /\ EventsAreLast' /\ NoOrphanStream'
    BY <1>6, <2>1, <2>2 DEF StreamBreaks, IInv, StateTypes, EventsAreLast, NoOrphanStream
  <2> QED
    BY <1>6, <2>3
    DEF StreamBreaks, IInv, Unstarted, StopIsFinal, TimerOnlyWhenDown, DownIsPlanned
<1>7. ASSUME NEW s \in Streams, NEW e \in {"error", "end"}, ErrorOrEnd(s, e)
      PROVE  IInv'
  <2>1. pending' \in [Streams -> SUBSET {"error", "end"}]
    BY <1>7 DEF ErrorOrEnd, IInv, StateTypes
  <2>2. CASE stream # s \/ stopping
    BY <1>7, <2>1, <2>2
    DEF ErrorOrEnd, IInv, StateTypes, EventsAreLast, Unstarted, NoOrphanStream, StopIsFinal,
        TimerOnlyWhenDown, DownIsPlanned
  <2>3. CASE stream = s /\ ~stopping
    <3>1. ~timer /\ ScheduleReconnect /\ phase = "running"
      BY <1>7, <2>3, TunnelAssumption
      DEF ErrorOrEnd, IInv, TimerOnlyWhenDown, Unstarted
    <3>2. stream' = NoStream /\ timer' = TRUE /\ attempt' = NextAttempt
      BY <2>3, <3>1 DEF ScheduleReconnect
    <3>3. attempt' \in 0 .. MaxAttempt
      BY <3>2, TunnelAssumption DEF NextAttempt, IInv, StateTypes
    <3>4. ~live[s]
      BY <1>7 DEF ErrorOrEnd, IInv, EventsAreLast
    <3> QED
      BY <1>7, <2>1, <2>3, <3>1, <3>2, <3>3, <3>4
      DEF ErrorOrEnd, IInv, StateTypes, EventsAreLast, Unstarted, NoOrphanStream, StopIsFinal,
          TimerOnlyWhenDown, DownIsPlanned
  <2> QED
    BY <2>2, <2>3
<1>8. ASSUME NEW s \in Streams, NEW f \in Frames, Data(s, f) \/ ProxySends(s, f)
      PROVE  IInv'
  <2>1. StateTypes'
    <3>1. CASE Data(s, f)
      <4>1. CASE stream # s
        BY <3>1, <4>1 DEF Data, IInv, StateTypes
      <4>2. CASE stream = s
        <5>1. attempt' \in 0 .. MaxAttempt
          BY <3>1, <4>2, TunnelAssumption DEF Data
        <5>2. PICK served \in BOOLEAN :
                 frame' = [frame EXCEPT ![f] = IF served THEN "local" ELSE "ignored"]
          BY <3>1, <4>2 DEF Data
        <5>3. frame' \in [Frames -> {"unsent", "sent", "ignored", "local",
                                    "answered", "dropped"}]
          BY <5>2 DEF IInv, StateTypes
        <5> QED
          BY <3>1, <5>1, <5>3 DEF Data, IInv, StateTypes
      <4> QED
        BY <4>1, <4>2
    <3>2. CASE ProxySends(s, f)
      BY <3>2 DEF ProxySends, IInv, StateTypes
    <3> QED
      BY <1>8, <3>1, <3>2
  <2> QED
    BY <1>8, <2>1
    DEF Data, ProxySends, IInv, EventsAreLast, Unstarted, NoOrphanStream, StopIsFinal,
        TimerOnlyWhenDown, DownIsPlanned
<1>9. CASE TimerFires
  <2>1. stream = NoStream /\ ~stopping /\ phase = "running" /\ Connect
    BY <1>9 DEF TimerFires, IInv, TimerOnlyWhenDown, Unstarted
  <2> QED
    BY <1>9, <2>1, ConnectFacts
    DEF TimerFires, IInv, StateTypes, EventsAreLast, Unstarted, NoOrphanStream,
        StopIsFinal, TimerOnlyWhenDown, DownIsPlanned
<1>10. ASSUME NEW f \in Frames, Answer(f) PROVE IInv'
  BY <1>10 DEF Answer, IInv, StateTypes, EventsAreLast, Unstarted, NoOrphanStream,
               StopIsFinal, TimerOnlyWhenDown, DownIsPlanned
<1>11. CASE UNCHANGED vars
  BY <1>11 DEF vars, IInv, StateTypes, EventsAreLast, Unstarted, NoOrphanStream,
               StopIsFinal, TimerOnlyWhenDown, DownIsPlanned
<1> QED
  BY <1>1, <1>2, <1>3, <1>4, <1>5, <1>6, <1>7, <1>8, <1>9, <1>10, <1>11
  DEF Next, Events

\* In every reachable state the invariant holds.
THEOREM Invariance == Spec => []IInv
BY InitIInv, NextIInv, PTL DEF Spec

\* However its timer, the events of old streams, start() and stop() interleave,
\* the client never has two connections up (lib/Tunnel/TunnelClient.ts).
THEOREM OneConnection == Spec => []NoOrphanStream
<1>1. IInv => NoOrphanStream
  BY DEF IInv
<1> QED
  BY <1>1, Invariance, PTL

\* A stopped client has no stream, whatever start() and its timer still do.
THEOREM StopsForGood == Spec => []StopIsFinal
<1>1. IInv => StopIsFinal
  BY DEF IInv
<1> QED
  BY <1>1, Invariance, PTL

\* A running client that is not connected is going to reconnect.
THEOREM ReconnectIsPlanned == Spec => []DownIsPlanned
<1>1. IInv => DownIsPlanned
  BY DEF IInv
<1> QED
  BY <1>1, Invariance, PTL

\* While the client is down, late events neither reset the back-off nor bring
\* work.
THEOREM QuietWhileDown == Spec => DownIsQuiet
<1> DEFINE Quiet == stream = NoStream =>
              /\ attempt' >= attempt
              /\ \A f \in Frames : frame'[f] = "local" => frame[f] = "local"
<1>1. ASSUME IInv, Next PROVE Quiet
  <2> SUFFICES ASSUME stream = NoStream PROVE Quiet
    OBVIOUS
  <2> USE DEF local, client, network
  <2>1. attempt \in Nat /\ MaxAttempt \in Nat
    BY <1>1, TunnelAssumption DEF IInv, StateTypes
  <2>2. ASSUME UNCHANGED <<attempt, frame>> PROVE Quiet
    BY <2>1, <2>2
  <2>3. ASSUME NEW s \in Streams, NEW e \in {"error", "end"}, ErrorOrEnd(s, e) PROVE Quiet
    <3>1. stream # s
      BY TunnelAssumption
    <3> QED
      BY <2>2, <2>3, <3>1 DEF ErrorOrEnd
  <2>4. ASSUME NEW s \in Streams, NEW f \in Frames, Data(s, f) PROVE Quiet
    <3>1. stream # s
      BY TunnelAssumption
    <3> QED
      BY <1>1, <2>1, <2>4, <3>1 DEF Data, IInv, StateTypes
  <2>5. ASSUME NEW s \in Streams, NEW f \in Frames, ProxySends(s, f) PROVE Quiet
    BY <1>1, <2>1, <2>5 DEF ProxySends, IInv, StateTypes
  <2>6. ASSUME NEW f \in Frames, Answer(f) PROVE Quiet
    BY <1>1, <2>1, <2>6 DEF Answer, IInv, StateTypes
  <2>7. CASE Start \/ Listening \/ Loaded \/ LoadFails \/ StopCalled \/ Signal
             \/ ServerClosed \/ TimerFires \/ (\E s \in Streams : StreamBreaks(s))
    BY <2>2, <2>7 DEF Start, Listening, Loaded, LoadFails, StopCalled, Signal, Stop,
                      ServerClosed, TimerFires, StreamBreaks
  <2> QED
    BY <1>1, <2>3, <2>4, <2>5, <2>6, <2>7 DEF Next, Events
<1>2. IInv /\ [Next]_vars => [Quiet]_vars
  BY <1>1
<1> QED
  BY <1>2, Invariance, PTL DEF Spec, DownIsQuiet

\* The delay changes where a reconnect is planned, and with the attempt only.
LEMMA WaitSteps ==
    ASSUME IInv, [Next]_vars
    PROVE  \/ UNCHANGED <<attempt, wait>>
           \/ attempt' = 0 /\ wait' = wait
           \/ attempt' = NextAttempt /\ wait' = Delay(attempt')
<1> USE DEF local, client, network
<1>1. ASSUME NEW s \in Streams, NEW e \in {"error", "end"}, ErrorOrEnd(s, e)
      PROVE  UNCHANGED <<attempt, wait>> \/ (attempt' = NextAttempt /\ wait' = Delay(attempt'))
  BY <1>1 DEF ErrorOrEnd, ScheduleReconnect
<1>2. ASSUME NEW s \in Streams, NEW f \in Frames, Data(s, f)
      PROVE  UNCHANGED <<attempt, wait>> \/ (attempt' = 0 /\ wait' = wait)
  BY <1>2 DEF Data
<1>3. CASE Start \/ Listening \/ Loaded \/ LoadFails \/ StopCalled \/ Signal
           \/ ServerClosed \/ TimerFires \/ (\E s \in Streams : StreamBreaks(s))
           \/ (\E s \in Streams, f \in Frames : ProxySends(s, f))
           \/ (\E f \in Frames : Answer(f))
  BY <1>3 DEF Start, Listening, Loaded, LoadFails, StopCalled, Signal, Stop, ServerClosed,
              TimerFires, StreamBreaks, ProxySends, Answer
<1>4. CASE UNCHANGED vars
  BY <1>4 DEF vars
<1> QED
  BY <1>1, <1>2, <1>3, <1>4 DEF Next, Events

\* The next attempt is the first, the next one, or stays at the bound, where the
\* delay has reached its maximum.
LEMMA NextDelay ==
    ASSUME StateTypes, WaitInv
    PROVE  /\ NextAttempt \in 1 .. MaxAttempt
           /\ attempt = 0 => NextAttempt = 1
           /\ Delay(NextAttempt) \in 0 .. MaxInterval
           /\ attempt = 0 => Delay(NextAttempt) <= Interval
           /\ attempt # 0 => Delay(NextAttempt) >= wait
<1>1. /\ attempt \in 0 .. MaxAttempt /\ MaxAttempt \in Nat \ {0}
      /\ wait \in Nat /\ MaxInterval \in Nat
  BY TunnelAssumption DEF StateTypes, WaitInv
<1>2. NextAttempt \in 1 .. MaxAttempt /\ (attempt = 0 => NextAttempt = 1)
  BY <1>1 DEF NextAttempt
<1>3. Delay(NextAttempt) \in 0 .. MaxInterval /\ (attempt = 0 => Delay(NextAttempt) <= Interval)
  <2>1. NextAttempt \in Nat \ {0}
    BY <1>1, <1>2
  <2> QED
    BY <1>2, <2>1, DelayFacts
<1>4. ASSUME attempt # 0 PROVE Delay(NextAttempt) >= wait
  <2>1. wait = Delay(attempt) /\ attempt \in Nat \ {0}
    BY <1>1, <1>4 DEF WaitInv
  <2>2. CASE attempt = MaxAttempt
    BY <1>1, <2>1, <2>2 DEF NextAttempt
  <2>3. CASE attempt # MaxAttempt
    <3>1. NextAttempt = attempt + 1
      BY <2>3 DEF NextAttempt
    <3>2. Delay(attempt) <= Delay(attempt + 1)
      BY <2>1, DelayFacts
    <3> QED
      BY <1>1, <1>3, <2>1, <3>1, <3>2
  <2> QED
    BY <2>2, <2>3
<1> QED
  BY <1>2, <1>3, <1>4

\* Every step keeps the delay and the attempt together.
LEMMA NextWaitInv == ASSUME IInv, WaitInv, [Next]_vars PROVE WaitInv'
<1>1. StateTypes
  BY DEF IInv
<1>2. CASE UNCHANGED <<attempt, wait>>
  BY <1>2 DEF WaitInv, Delay
<1>3. CASE attempt' = 0 /\ wait' = wait
  BY <1>3 DEF WaitInv
<1>4. CASE attempt' = NextAttempt /\ wait' = Delay(attempt')
  BY <1>1, <1>4, NextDelay DEF WaitInv, Delay
<1> QED
  BY <1>2, <1>3, <1>4, WaitSteps

LEMMA InitWaitInv == Init => WaitInv
BY TunnelAssumption DEF Init, WaitInv

\* Invariant of the back-off.
THEOREM WaitInvariance == Spec => []WaitInv
BY Invariance, InitWaitInv, NextWaitInv, PTL DEF Spec

\* The variables have their types, the delay of the timer included.
THEOREM TypeCorrect == Spec => []TypeOK
<1>1. IInv /\ WaitInv => TypeOK
  BY DEF IInv, WaitInv, TypeOK
<1> QED
  BY <1>1, Invariance, WaitInvariance, PTL

\* However streams break and frames arrive, the back-off starts with the interval,
\* does not shrink before a connection is confirmed, and keeps to its maximum.
THEOREM BackOff == Spec => BackOffHolds
<1> DEFINE Holds == attempt' # 0 =>
              /\ wait' <= MaxInterval
              /\ IF attempt = 0 THEN wait' <= Interval ELSE wait' >= wait
<1>1. ASSUME IInv, WaitInv, [Next]_vars PROVE [Holds]_vars
  <2>1. StateTypes /\ wait \in Nat /\ wait <= MaxInterval /\ MaxInterval \in Nat
    BY <1>1, TunnelAssumption DEF IInv, WaitInv
  <2>2. CASE UNCHANGED <<attempt, wait>>
    BY <2>1, <2>2
  <2>3. CASE attempt' = 0
    BY <2>3
  <2>4. CASE attempt' = NextAttempt /\ wait' = Delay(attempt')
    <3>1. wait' = Delay(NextAttempt)
      BY <2>4
    <3> QED
      BY <1>1, <2>1, <3>1, NextDelay
  <2> QED
    BY <1>1, <2>2, <2>3, <2>4, WaitSteps
<1> QED
  BY <1>1, Invariance, WaitInvariance, PTL DEF Spec, BackOffHolds
=============================================================================
