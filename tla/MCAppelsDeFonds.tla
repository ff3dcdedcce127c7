-------------------------- MODULE MCAppelsDeFonds --------------------------
(***************************************************************************)
(* Small instances of AppelsDeFonds for TLC.                               *)
(***************************************************************************)
EXTENDS AppelsDeFonds, TLC

\* Requests are interchangeable, and so are reservations.
Symetrie == Permutations(Requetes) \cup Permutations(Reservations)
=============================================================================
