---------------------------- MODULE MCSqlGateway ----------------------------
(***************************************************************************)
(* A small instance of SqlGateway for TLC.  Two parts of time make a       *)
(* microsecond; the buckets [0, 4) and [4, 8) are writable, [8, 12) is     *)
(* still to come.                                                          *)
(***************************************************************************)
EXTENDS SqlGateway

T(v)  == [type |-> "text", val |-> v]
Ts(t) == [type |-> "timestamptz", val |-> t]
B(v)  == [type |-> "bytea", val |-> v]
I(n)  == [type |-> "int8", val |-> n]
P(i)  == [param |-> i]

Insert(channel, time, id, value) ==
    [kind |-> "insert",
     columns |-> [channel_id |-> channel, timestamp |-> time, id |-> id, value |-> value]]
Read(where, limit, output) ==
    [kind |-> "read", where |-> where, limit |-> limit, output |-> output]

Col(col, op, lit)  == [col |-> col, op |-> op, lit |-> lit, flipped |-> FALSE]
Flip(lit, op, col) == [col |-> col, op |-> op, lit |-> lit, flipped |-> TRUE]
InChannel == Col("channel_id", "=", T("c"))
NoLimit == I(99)

MCStarts == {0, 4, 8}

MCPrepared ==
    {Insert(T("c"), P(2), T(1), P(1)),
     Read(<<Col("channel_id", "=", P(1)), Col("timestamp", ">=", P(2)),
            Col("timestamp", "<", P(3))>>, P(4), "computed"),
     Read(<<Col("timestamp", ">=", P(1)), Col("channel_id", "=", P(2)),
            Col("timestamp", "<", P(3))>>, P(4), "stored")}

MCSimple ==
    {Insert(T("c"), Ts(3), T(1), T("v")),
     Insert(T("c"), Ts(8), T(1), T("v")),
     Insert(P(1), Ts(4), T(1), P(1)),
     Read(<<InChannel, Flip(Ts(0), "<=", "timestamp"), Flip(Ts(2), ">", "timestamp")>>, NoLimit, "stored"),
     Read(<<InChannel, Flip(Ts(2), "<", "timestamp"), Col("timestamp", "<", Ts(6))>>, NoLimit, "stored"),
     Read(<<InChannel, Col("timestamp", ">=", Ts(3)), Col("timestamp", "<", Ts(5))>>, NoLimit, "stored"),
     Read(<<InChannel, Col("timestamp", ">=", Ts(0)), Col("timestamp", "<", Ts(6))>>, NoLimit, "unsupported"),
     Read(<<InChannel, Col("timestamp", "else", Ts(2))>>, NoLimit, "stored"),
     [kind |-> "other"]}

MCBindings ==
    {[params |-> <<B("v"), Ts(4)>>, format |-> "text"],
     [params |-> <<Ts(4), B("v")>>, format |-> "text"],
     [params |-> <<T("c"), Ts(2), Ts(6), I(1)>>, format |-> "binary"],
     [params |-> <<T("c"), Ts(2), Ts(12), I(0)>>, format |-> "text"]}
=============================================================================
