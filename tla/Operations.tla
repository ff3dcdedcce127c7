------------------------------ MODULE Operations ------------------------------
(***************************************************************************)
(* The life and the removal of one operation, against the references the   *)
(* database keeps between its rows.                                        *)
(*                                                                         *)
(* One row at most stands for each table.  The removal counts the pieces   *)
(* that hold an operation back, then deletes; rows are written meanwhile.  *)
(***************************************************************************)
EXTENDS Integers, Tables, Sequences

CONSTANTS
    Presentables,    \* tables whose rows are followed
    Requetes,        \* request slots
    NUL              \* SQL NULL

Domaines == "operations" \in Presentables /\ Presentables \subseteq DOMAIN Rattachement

VARIABLES
    presents,        \* tables that have a row for the operation
    creee,           \* the operation has been created
    req              \* what each request in flight has read

vars == <<presents, creee, req>>

Requete == [etat: {"libre", "suppression"}]
Libre == [etat |-> "libre"]
Garder(q, r) == req' = [req EXCEPT ![q] = r]
Finir(q) == Garder(q, Libre)
En(q, etat) == req[q].etat = etat

(***************************************************************************)
(* Writing                                                                 *)
(***************************************************************************)
\* The rows a row of t needs: what it points at.
Appuis(t) ==
    LET vers == (Cascades \cup Retenues) \cap ({t} \X Presentables)
    IN  {lien[2] : lien \in vers}

\* The creator of an operation is given access to it with the same commit.
Creer ==
    /\ ~creee
    /\ creee' = TRUE
    /\ presents' = {"operations"} \cup ({"operation_accesses"} \cap Presentables)
    /\ UNCHANGED req

\* Any service writes a row under the operation.
Ecrire(t) ==
    /\ t \in Presentables \ (presents \cup {"operations"})
    /\ "operations" \in presents
    /\ Appuis(t) \subseteq presents
    /\ presents' = presents \cup {t}
    /\ UNCHANGED <<creee, req>>

(***************************************************************************)
(* Deleting                                                                *)
(***************************************************************************)
\* The row of t with all that the cascades take.
Emportees(P, t) ==
    LET liens == Cascades \cap (P \X P)
        suite[n \in 0..4] ==
            IF n = 0 THEN {t} \cap P
            ELSE LET avant == suite[n - 1]
                 IN  avant \cup {u \in P : \E v \in avant : <<u, v>> \in liens}
    IN  suite[4]

\* A reference from a row that stays refuses the statement; one from a row
\* that also goes may refuse it, the order of the cascades being the engine's.
Retenue(P, t) ==
    LET parties == Emportees(P, t)
    IN  Retenues \cap ((P \ parties) \X parties) # {}
Incertaine(P, t) ==
    LET parties == Emportees(P, t)
    IN  Retenues \cap (parties \X parties) # {}

\* What deletions in that order may leave; a refused one leaves all there was.
Restes(P, ordre) ==
    LET etapes[n \in 0..Len(ordre)] ==
            IF n = 0 THEN {P}
            ELSE UNION {IF Retenue(R, ordre[n]) THEN {P}
                        ELSE {R \ Emportees(R, ordre[n])}
                             \cup (IF Incertaine(R, ordre[n]) THEN {P} ELSE {}) :
                        R \in etapes[n - 1]}
    IN  etapes[Len(ordre)]

\* Rows that make an operation one that is closed, never removed.
Pieces == {"factures", "contrats", "appels_de_fonds", "ordres_paiement", "reservations"}

\* Mutant: the invoices are not counted.
Bloquantes_SansFactures == (presents \cap Pieces) \ {"factures"}

Bloquantes == presents \cap Pieces

LireSuppression(q) ==
    /\ En(q, "libre")
    /\ "operations" \in presents
    /\ Bloquantes = {}
    /\ Garder(q, [etat |-> "suppression"])
    /\ UNCHANGED <<presents, creee>>

\* Mutant: the cascade is trusted with the lines of the budget.
Ordre_SansLignes == <<"parkings", "lots", "operations">>

Ordre == <<"lignes_budget", "budget_versions", "cfc_nodes", "parkings", "lots", "operations">>

Supprimer(q) ==
    /\ En(q, "suppression")
    /\ presents' \in Restes(presents, Ordre)
    /\ Finir(q)
    /\ UNCHANGED creee

Interrompre(q) == ~En(q, "libre") /\ Finir(q) /\ UNCHANGED <<presents, creee>>

(***************************************************************************)
(* Specification                                                           *)
(***************************************************************************)
Init == presents = {} /\ creee = FALSE /\ req = [q \in Requetes |-> Libre]

Next ==
    \/ Creer
    \/ \E t \in Presentables : Ecrire(t)
    \/ \E q \in Requetes : LireSuppression(q) \/ Supprimer(q) \/ Interrompre(q)

Spec == Init /\ [][Next]_vars

(***************************************************************************)
(* Properties                                                              *)
(***************************************************************************)
TypeOK ==
    /\ presents \subseteq Presentables
    /\ creee \in BOOLEAN
    /\ req \in [Requetes -> Requete]

\* OperationsService.supprimer: when nothing is written between the count and
\* the deletions, no accounting piece is ever erased and an operation goes
\* whole or not at all.
PiecesGardees ==
    /\ presents \cap Pieces \subseteq presents'
    /\ presents \subseteq presents' \/ presents' = {}

\* "La cascade ne suffit pas": an operation without piece, mandate on a lot or
\* award can always be removed, whatever order the engine cascades in.
Effacable ==
    "operations" \in presents
    /\ presents \cap (Pieces \cup {"mandat_courtage_lots", "adjudications"}) = {}
    => Restes(presents, Ordre) = {{}}
=============================================================================
