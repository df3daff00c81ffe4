-------------------------------- MODULE MCPanel --------------------------------
(***************************************************************************)
(* An instance of Panel for TLC.                                           *)
(***************************************************************************)
EXTENDS Panel, TLC

CONSTANTS t1, t2

MCSymmetry == Permutations(Tabs)

-----------------------------------------------------------------------------
(* An hour of the day, a day of the month or of the week among a few, and   *)
(* expressions of every form the dialog knows.                              *)
MCFirst == [minute |-> 0, hour |-> 2, day |-> 1, month |-> 1, dow |-> 0]
MCLast == [minute |-> 0, hour |-> 3, day |-> 3, month |-> 2, dow |-> 1]
MCCalendar == [i \in 1..24 |->
    [minute |-> 0, hour |-> 2 + (i % 2), day |-> 1 + ((i \div 2) % 3), month |-> 1,
     dow |-> (i \div 2) % 2]]

MCPart(base, a, b, step) == {[base |-> base, a |-> a, b |-> b, step |-> step]}
MCOne(v) == MCPart("one", v, v, 0)
MCStar == MCPart("star", 0, 0, 0)
MCExpr(day, dow) ==
    [minute |-> MCOne(0), hour |-> MCOne(3), day |-> day, month |-> MCStar, dow |-> dow]
MCExprs ==
    {MCExpr(MCStar, MCStar), MCExpr(MCOne(2), MCOne(1)), MCExpr(MCPart("star", 0, 0, 2), MCStar),
     MCExpr(MCPart("range", 1, 3, 0), MCOne(1)), MCExpr(MCStar, MCPart("range", 0, 1, 0)),
     MCExpr(MCPart("range", 3, 2, 0), MCStar), MCExpr(MCStar, MCPart("star", 0, 0, 2)),
     MCExpr(MCOne(2), MCPart("range", 0, 1, 0)), [f \in DOMAIN MCFirst |-> {}]}

MCProcess == [u \in {"me", "other"} |-> u]
MCPageTabs == <<"overview", "credential">>
=============================================================================
