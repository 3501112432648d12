------------------------------ MODULE AsyncView ------------------------------
(***************************************************************************)
(* What the materialized view promises: it lags behind the movements, may  *)
(* jump over some of their states, and never goes back or ahead.  A state  *)
(* of the movements table is the number of rows inserted so far.           *)
(***************************************************************************)
EXTENDS Integers

VARIABLES movements, view

vars == <<movements, view>>

Init == movements \in Nat /\ view \in 0 .. movements

Insert == movements' = movements + 1 /\ UNCHANGED view

CatchUp == view' \in view .. movements /\ UNCHANGED movements

Spec == Init /\ [][Insert \/ CatchUp]_vars
=============================================================================
