----------------------------- MODULE MCRegistry -----------------------------
(* Registry for TLC: its properties are about safety, and containers and    *)
(* addresses are interchangeable.                                           *)
EXTENDS Registry, TLC

Symmetry == Permutations(Containers) \cup Permutations(Addresses)
=============================================================================
