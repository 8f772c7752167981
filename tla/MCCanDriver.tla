------------------------------ MODULE MCCanDriver ------------------------------
(***************************************************************************)
(* Three Cans, the first two on one handle, which they take in turns.  The *)
(* third has a handle of its own, to the same controller or to the one     *)
(* that shares its filter banks.                                           *)
(***************************************************************************)
EXTENDS CanDriver

CONSTANTS first, heir, other, h1, h2, can1, can2

MCHandleOf == [c \in Cans |-> IF c = other THEN h2 ELSE h1]

MCWirings == {[h \in Handles |-> can1], [h \in Handles |-> IF h = h1 THEN can1 ELSE can2]}
=============================================================================
