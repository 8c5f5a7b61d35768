---------------------------- MODULE MCDtoHeaders ----------------------------
(***************************************************************************)
(* Every sequence of a few calls of a node.                                *)
(***************************************************************************)
EXTENDS DtoHeaders

CONSTANTS l, g, slow, fast

limit == <<l, TRUE>>
group == <<g, TRUE>>
Plain(e) == [first |-> e, group |-> {}]

\* No limit, and one an earlier batch left with two rates for its group
RequestLimiters ==
    {{}, {Entry(limit, slow), Entry(group, slow), Entry(group, fast)}}

MessageLimits ==
    {Plain(Entry(<<l, FALSE>>, slow)),
     [first |-> Entry(group, slow), group |-> {Entry(limit, slow)}]}

\* Another rate than the message's, for the limit and its group, and a key
\* without '|'
LimitsOfItems ==
    {Plain(Entry(<<l, FALSE>>, fast)),
     [first |-> Entry(limit, fast), group |-> {Entry(group, fast)}]}
=============================================================================
