------------------------------ MODULE MCProcMon ------------------------------
(* ProcMon for TLC: a row of each reaction.                                *)
EXTENDS ProcMon

Column(reaction, number, cpu) ==
    [valid |-> TRUE, reaction |-> reaction, number |-> number, cpu |-> cpu]

MCColumns == {Column(1, 1, TRUE), Column(2, 0, FALSE), Column(3, 0, TRUE)}

\* The reactions that report both ways.
WatchedColumns == {Column(1, 1, TRUE), Column(3, 0, FALSE)}

OneColumn == {Column(1, 1, TRUE)}
=============================================================================
