----------------------------- MODULE MCOrderFlow -----------------------------
(* OrderFlow on small instances. *)
EXTENDS OrderFlow, TLC

CONSTANTS r1, r2, p1

\* Two clients without a key and a unit for each of them.
MCProductOf == [r \in Requests |-> p1]
MCKeyOf     == [r \in Requests |-> NoKey]
MCInitial   == [p \in Products |-> 2]

=============================================================================
