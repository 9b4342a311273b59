---------------------------- MODULE MCProtocol ----------------------------
(* Protocol for TLC: clients are interchangeable, and so are tables.       *)
EXTENDS Protocol, TLC

ClientAndTableSymmetry == Permutations(Clients) \cup Permutations(Tables)
=============================================================================
