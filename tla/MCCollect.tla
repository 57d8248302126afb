------------------------------ MODULE MCCollect ------------------------------
(* Collect for TLC: a week of two short days.                              *)
EXTENDS Collect

Row(active, start, end, freq0, freq1) ==
    [active |-> active, sDate |-> 0, eDate |-> MaxNow,
     week |-> [d \in 0 .. DaysPerWeek - 1 |->
                  [start |-> start, end |-> end,
                   freq |-> IF d = 0 THEN freq0 ELSE freq1]]]

MCContents == {Row(TRUE, 0, 12, 1, 1), Row(TRUE, 1, 11, 3, 0),
               Row(TRUE, 0, 9, 4, 5), Row(FALSE, 0, 12, 2, 2)}
=============================================================================
