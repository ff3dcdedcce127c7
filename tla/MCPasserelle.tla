---------------------------- MODULE MCPasserelle ----------------------------
(***************************************************************************)
(* Small instances of Passerelle for TLC.                                  *)
(***************************************************************************)
EXTENDS Passerelle, TLC

\* Requests, reservations that share their kind, and steps are interchangeable.
Symetrie ==
    Permutations(Requetes) \cup Permutations(Dossiers \ Externes)
        \cup Permutations(Externes) \cup Permutations(Etapes)
=============================================================================
