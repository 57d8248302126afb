------------------------------ MODULE FileCopy ------------------------------
(***************************************************************************)
(* What FileTrans_SendFile promises its caller, window by window: the      *)
(* destination takes the windows of the file one after the other, writing  *)
(* each before it takes the next, and NASC_SUCCESS is only reported when   *)
(* all of them have been taken.  The last one may be written later.        *)
(***************************************************************************)
EXTENDS Naturals

VARIABLES total,     \* windows (memory maps) the file is cut into
          taken,     \* windows the destination has received and acknowledged
          written,   \* windows the destination is through with writing
          outcome    \* what FileTrans_SendFile returned: "none", ...

vars == <<total, taken, written, outcome>>

Init == total \in Nat /\ taken = 0 /\ written = 0 /\ outcome = "none"

\* A failed call may leave the destination at work on what is under way.
TakeWindow == /\ outcome # "success"
              /\ taken < total
              /\ written = taken
              /\ taken' = taken + 1
              /\ UNCHANGED <<total, written, outcome>>

WriteWindow == /\ written < taken
               /\ written' = written + 1
               /\ UNCHANGED <<total, taken, outcome>>

ReportSuccess == /\ outcome = "none"
                 /\ taken = total
                 /\ outcome' = "success"
                 /\ UNCHANGED <<total, taken, written>>

ReportFailure == /\ outcome = "none"
                 /\ outcome' = "failure"
                 /\ UNCHANGED <<total, taken, written>>

Next == TakeWindow \/ WriteWindow \/ ReportSuccess \/ ReportFailure

Spec == Init /\ [][Next]_vars
=============================================================================
