-------------------------- MODULE ResultCodeRange --------------------------
(***************************************************************************)
(* How the HTTP client reads a table of status codes, and the tables the   *)
(* SDK ships.  A range is a set of items; the order of an array, and        *)
(* whether a single item is wrapped in one, make no difference to inRange. *)
(***************************************************************************)
EXTENDS Naturals

\* The items of a range that the shipped tables use: a code, '<n', '>=n' and
\* 'from-to'
Code(n) == [op |-> "code", n |-> n]
Below(n) == [op |-> "<", n |-> n]
AtLeast(n) == [op |-> ">=", n |-> n]
Between(from, to) == [op |-> "-", n |-> from, to |-> to]

\* Mutant: 'from-to' includes its right end.
MatchesClosed(status, item) ==
    CASE item.op = "code" -> status = item.n
      [] item.op = "<" -> status < item.n
      [] item.op = ">=" -> status >= item.n
      [] item.op = "-" -> item.n <= status /\ status <= item.to

Matches(status, item) ==
    CASE item.op = "code" -> status = item.n
      [] item.op = "<" -> status < item.n
      [] item.op = ">=" -> status >= item.n
      [] item.op = "-" -> item.n <= status /\ status < item.to

\* inRange()
InRange(status, range) == \E item \in range : Matches(status, item)

\* A table; a list that is absent matches nothing.  A bare range counts as the
\* successes.
Table(success, stopAndFail, repeat) ==
    [success |-> success, stopAndFail |-> stopAndFail, repeat |-> repeat]

defaultRanges == Table({Below(300)},
                       {Between(300, 408), Between(409, 429), Between(430, 500)},
                       {Code(408), Code(429), AtLeast(500)})

repeatOnErrorRanges == Table({Below(300)}, {}, {AtLeast(300)})

continueOnNotFoundRanges == Table({Below(300), Code(404)},
                                  {Between(300, 404), Between(405, 408),
                                   Between(409, 429), Between(430, 500)},
                                  {Code(408), Code(429), AtLeast(500)})

continueOnErrorRanges == Table({Below(500)}, {AtLeast(500)}, {})

keepAllRanges == Table({Below(999)}, {}, {})

\* handleByResultCode: the lists are asked in this order; what no list names is
\* a success below 300 and repeated otherwise.
Outcome(status, table) ==
    CASE InRange(status, table.success) -> "returned"
      [] ~InRange(status, table.success) /\ InRange(status, table.stopAndFail)
            -> "OnStopAndFail"
      [] OTHER -> IF InRange(status, table.repeat) \/ status >= 300
                  THEN "OnRepeat" ELSE "returned"
=============================================================================
