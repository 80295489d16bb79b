---------------------------- MODULE MCSendAndWait ----------------------------
(* Calls of one account, one through each of the two helpers.               *)
EXTENDS SendAndWait, TLC

CONSTANTS w1, f1, alice

MCSenderOf == [c \in Calls |-> alice]
==============================================================================
