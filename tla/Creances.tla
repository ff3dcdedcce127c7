------------------------------ MODULE Creances ------------------------------
(***************************************************************************)
(* What the calls for funds promise a buyer, whatever the handlers that    *)
(* race to serve it: one debt at most per reservation and step, for an     *)
(* amount that never moves and that is never withdrawn; one letter at most *)
(* per debt, and only for a debt that exists; receipts that only add up.   *)
(***************************************************************************)
EXTENDS Integers

CONSTANTS Reservations, Etapes

VARIABLES
    dettes,         \* debts issued: who, for which step, how much
    annoncees,      \* debts whose letter left
    verse           \* received so far, per reservation and step

vars == <<dettes, annoncees, verse>>

Couples == Reservations \X Etapes
Couple(d) == <<d.reservation, d.etape>>

UneParCouple(S) == \A d1, d2 \in S : Couple(d1) = Couple(d2) => d1 = d2

Init ==
    /\ dettes = {}
    /\ annoncees = {}
    /\ verse = [c \in Couples |-> 0]

\* A trigger or a catch-up commits: all its debts appear at once.
Emettre ==
    /\ dettes \subseteq dettes'
    /\ \A d \in dettes' : Couple(d) \in Couples
    /\ UneParCouple(dettes')
    /\ UNCHANGED <<annoncees, verse>>

Annoncer ==
    /\ \E d \in dettes \ annoncees : annoncees' = annoncees \cup {d}
    /\ UNCHANGED <<dettes, verse>>

Verser ==
    /\ \E d \in dettes :
         /\ verse' = [verse EXCEPT ![Couple(d)] = verse'[Couple(d)]]
         /\ verse'[Couple(d)] >= verse[Couple(d)]
    /\ UNCHANGED <<dettes, annoncees>>

Next == Emettre \/ Annoncer \/ Verser

Spec == Init /\ [][Next]_vars
=============================================================================
