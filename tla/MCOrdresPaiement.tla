-------------------------- MODULE MCOrdresPaiement --------------------------
(***************************************************************************)
(* Small instances of OrdresPaiement for TLC.                              *)
(***************************************************************************)
EXTENDS OrdresPaiement, TLC

\* Requests, invoices and identifiers are interchangeable.
Symetrie ==
    Permutations(Requetes) \cup Permutations(Factures) \cup Permutations(Messages)
=============================================================================
