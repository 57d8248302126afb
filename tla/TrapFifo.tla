------------------------------ MODULE TrapFifo ------------------------------
(***************************************************************************)
(* What the trap queue of a Group2 daemon promises: from the start of the  *)
(* daemon on, the traps that find room are parsed one by one in the order  *)
(* in which they arrived.  The promise ends ("broken") when a trap arrives *)
(* at a full queue of a daemon that goes on instead of dropping it, and it *)
(* does not cover a trap that arrives while the queue is initialised.      *)
(***************************************************************************)
EXTENDS Naturals, Sequences

CONSTANTS Capacity, Traps, NULL

VARIABLES dropsWhenFull,   \* the daemon returns when its queue is full
          started, broken,
          items,           \* the traps that wait
          parsing          \* the trap that is parsed, or NULL

vars == <<dropsWhenFull, started, broken, items, parsing>>

Init == /\ dropsWhenFull \in BOOLEAN
        /\ ~started /\ ~broken
        /\ items = << >>
        /\ parsing = NULL

Start == /\ ~started /\ started'
         /\ UNCHANGED <<dropsWhenFull, items, parsing>>

Put == /\ started
       /\ Len(items) < Capacity
       /\ \E t \in Traps : items' = Append(items, t)
       /\ UNCHANGED <<dropsWhenFull, started, broken, parsing>>

Get == /\ parsing = NULL
       /\ items # << >>
       /\ parsing' = Head(items)
       /\ items' = Tail(items)
       /\ UNCHANGED <<dropsWhenFull, started, broken>>

Parsed == /\ parsing' = NULL
          /\ UNCHANGED <<dropsWhenFull, started, broken, items>>

Overrun == /\ ~dropsWhenFull
           /\ Len(items) = Capacity
           /\ broken'
           /\ UNCHANGED <<dropsWhenFull, started>>

Broken == broken /\ broken'

Next == Start \/ Put \/ Get \/ Parsed \/ Overrun \/ Broken

Spec == Init /\ [][Next]_vars
=============================================================================
