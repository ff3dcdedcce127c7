------------------------------ MODULE Rapports ------------------------------
(***************************************************************************)
(* The amount to pay of an invoice.  A report computed from the columns of *)
(* the invoice is stored beside them, in a transaction of its own, and the *)
(* payment orders read the amount in the report before they look at the    *)
(* columns: whoever changes a column has to have the report written again. *)
(*                                                                         *)
(* A request slot is a handler or the background reading of the piece.     *)
(***************************************************************************)
EXTENDS Integers, FiniteSets

CONSTANTS
    Factures,     \* invoices
    Colonnes,     \* what a person may type, and a machine read: records of columns
    Bulletins,    \* amounts of a QR bulletin, NUL among them
    Requetes,     \* request slots
    NUL

VARIABLES
    montants,     \* invoice -> its columns, its bulletin and its report, or NUL
    suivis,       \* invoices whose last change was followed by its report
    req           \* what each request in flight has read

vars == <<montants, suivis, req>>

Controle == INSTANCE Controles

(***************************************************************************)
(* Rows                                                                    *)
(***************************************************************************)
Colonne == {"ht", "ttc", "retenue", "acomptes"}
FactureStatut == {"RECUE", "EN_LECTURE", "A_VALIDER", "VALIDEE", "LITIGE", "REJETEE"}
Modifiables == {"RECUE", "EN_LECTURE", "A_VALIDER", "LITIGE"}

\* rapport: the amount to pay in the report, NUL without one.
Facture == [statut : FactureStatut, colonnes : Colonnes, qr : Bulletins, rapport : Int \cup {NUL}]

Requete ==
         [etat : {"libre"}]
    \cup [etat : {"lecture"}, f : Factures, colonnes : Colonnes]
    \cup [etat : {"a_controler"}, f : Factures, fond : BOOLEAN]
    \cup [etat : {"controle"}, f : Factures, fond : BOOLEAN, colonnes : Colonnes, qr : Bulletins]

Libre == [etat |-> "libre"]
Garder(q, r) == req' = [req EXCEPT ![q] = r]
Finir(q) == Garder(q, Libre)
En(q, etat) == req[q].etat = etat
Existe(f) == montants[f] # NUL

\* What is empty is filled in.
Completees(colonnes, lues) ==
    [k \in Colonne |-> IF colonnes[k] # NUL THEN colonnes[k] ELSE lues[k]]

\* Filled in from the text of the piece: never what is deducted.
SansDeductions(lues) == [lues EXCEPT !.retenue = NUL, !.acomptes = NUL]

\* What the constants stand for: what is filled in is as good as typed.
Domaines ==
    /\ Colonnes \subseteq [ht : Nat \cup {NUL}, ttc : Nat \cup {NUL}, retenue : Nat \cup {NUL},
                           acomptes : Nat \cup {NUL}]
    /\ \A c, lues \in Colonnes :
          {Completees(c, lues), Completees(c, SansDeductions(lues))} \subseteq Colonnes
    /\ NUL \in Bulletins /\ Bulletins \subseteq Nat \cup {NUL}
    /\ NUL \notin Int \cup Facture

\* montantAPayer, of the payment orders: the amount of the report if it has
\* one, else the gross of the columns less what they deduct.
Brut(c) == IF c.ttc # NUL THEN c.ttc ELSE c.ht
Net(c) == IF Brut(c) = NUL THEN 0
          ELSE Brut(c) - Controle!Ou0(c.retenue) - Controle!Ou0(c.acomptes)
MontantAPayer(f) == IF montants[f].rapport # NUL THEN montants[f].rapport ELSE Net(montants[f].colonnes)

(***************************************************************************)
(* FacturesService                                                         *)
(***************************************************************************)
Creer(f, c) ==
    /\ ~Existe(f)
    /\ montants' = [montants EXCEPT ![f] =
           [statut |-> "RECUE", colonnes |-> c, qr |-> NUL, rapport |-> NUL]]
    /\ suivis' = suivis \cup {f}
    /\ UNCHANGED req

\* Mutant: the report is not written again.
Modifier_SansControle(q, f, c) ==
    /\ En(q, "libre")
    /\ Existe(f) /\ montants[f].statut \in Modifiables
    /\ montants' = [montants EXCEPT ![f].colonnes = c]
    /\ Finir(q)
    /\ UNCHANGED suivis

\* A correction, then its control.
Modifier(q, f, c) ==
    /\ En(q, "libre")
    /\ Existe(f) /\ montants[f].statut \in Modifiables
    /\ montants' = [montants EXCEPT ![f].colonnes = c]
    /\ suivis' = suivis \ {f}
    /\ Garder(q, [etat |-> "a_controler", f |-> f, fond |-> FALSE])

\* The columns read from the text of the piece, without a control.
Analyser(f, lues) ==
    /\ Existe(f)
    /\ montants' = [montants EXCEPT
           ![f].colonnes = Completees(@, SansDeductions(lues)),
           ![f].statut = IF @ = "RECUE" THEN "A_VALIDER" ELSE @]
    /\ UNCHANGED <<suivis, req>>

Valider(f) ==
    /\ Existe(f) /\ montants[f].statut \notin {"VALIDEE", "EN_LECTURE"}
    /\ montants' = [montants EXCEPT ![f].statut = "VALIDEE"]
    /\ UNCHANGED <<suivis, req>>

ChangerStatut(f, statut) ==
    /\ Existe(f)
    /\ montants' = [montants EXCEPT ![f].statut = statut]
    /\ UNCHANGED <<suivis, req>>

(***************************************************************************)
(* LectureFacturesService                                                  *)
(***************************************************************************)
Relancer(f) ==
    /\ Existe(f) /\ montants[f].statut # "VALIDEE"
    /\ montants' = [montants EXCEPT ![f].statut = "EN_LECTURE"]
    /\ UNCHANGED <<suivis, req>>

LireFacture(q, f) ==
    /\ En(q, "libre")
    /\ Existe(f)
    /\ Garder(q, [etat |-> "lecture", f |-> f, colonnes |-> montants[f].colonnes])
    /\ UNCHANGED <<montants, suivis>>

\* Mutant: the amount of the bulletin is kept, the control is left to the next
\* correction.
EcrireLecture_SansControle(q, lues, qr) ==
    LET f == req[q].f
    IN /\ En(q, "lecture")
       /\ montants' = [montants EXCEPT ![f].colonnes = Completees(req[q].colonnes, lues),
                                       ![f].qr = qr, ![f].statut = "A_VALIDER"]
       /\ Finir(q)
       /\ UNCHANGED suivis

\* What was read fills the columns as they were when the reading began.
EcrireLecture(q, lues, qr) ==
    LET f == req[q].f
    IN /\ En(q, "lecture")
       /\ montants' = [montants EXCEPT ![f].colonnes = Completees(req[q].colonnes, lues),
                                       ![f].qr = qr, ![f].statut = "A_VALIDER"]
       /\ suivis' = suivis \ {f}
       /\ Garder(q, [etat |-> "a_controler", f |-> f, fond |-> TRUE])

\* controlerEtEnregistrer reads the invoice, then writes its report.
LireControle(q) ==
    LET f == req[q].f
    IN /\ En(q, "a_controler")
       /\ Garder(q, [etat |-> "controle", f |-> f, fond |-> req[q].fond,
                     colonnes |-> montants[f].colonnes, qr |-> montants[f].qr])
       /\ UNCHANGED <<montants, suivis>>

EcrireControle(q) ==
    LET f == req[q].f
        lue == [ttc |-> req[q].colonnes.ttc, retenue |-> req[q].colonnes.retenue,
                acomptes |-> req[q].colonnes.acomptes, qr |-> req[q].qr]
    IN /\ En(q, "controle")
       /\ montants' = [montants EXCEPT ![f].rapport = Controle!APayer(lue)]
       /\ suivis' = suivis \cup {f}
       /\ Finir(q)

\* A reading that fails, at any of its steps, puts the invoice back.
Echouer(q) ==
    /\ En(q, "lecture") \/ (req[q].etat \in {"a_controler", "controle"} /\ req[q].fond)
    /\ montants' = [montants EXCEPT ![req[q].f].statut = "RECUE"]
    /\ Finir(q)
    /\ UNCHANGED suivis

\* The process stops, or the transaction of the moment is given up.
Interrompre(q) ==
    /\ ~En(q, "libre")
    /\ Finir(q)
    /\ UNCHANGED <<montants, suivis>>

(***************************************************************************)
(* Specification                                                           *)
(***************************************************************************)
Init ==
    /\ montants = [f \in Factures |-> NUL]
    /\ suivis = {}
    /\ req = [q \in Requetes |-> Libre]

Ecrans ==
    \E f \in Factures :
       \/ \E c \in Colonnes : Creer(f, c) \/ Analyser(f, c)
       \/ Valider(f)
       \/ \E s \in {"LITIGE", "REJETEE", "A_VALIDER"} : ChangerStatut(f, s)
       \/ Relancer(f)

Traitements(q) ==
    \/ \E f \in Factures : LireFacture(q, f) \/ (\E c \in Colonnes : Modifier(q, f, c))
    \/ \E c \in Colonnes, b \in Bulletins : EcrireLecture(q, c, b)
    \/ LireControle(q)
    \/ EcrireControle(q)
    \/ Echouer(q)
    \/ Interrompre(q)

Next == Ecrans \/ \E q \in Requetes : Traitements(q)

Spec == Init /\ [][Next]_vars

(***************************************************************************)
(* Properties                                                              *)
(***************************************************************************)
TypeOK ==
    /\ montants \in [Factures -> Facture \cup {NUL}]
    /\ suivis \subseteq Factures
    /\ req \in [Requetes -> Requete]

\* FacturesController.modifier, "une correction humaine relance le controle :
\* le rapport suit les chiffres", and montantAPayer: one request at a time, and
\* unless one stopped between a change and its report, an order takes for an
\* invoice what its bulletin asks for, else what its columns come to.
MontantSuivi ==
    \A f \in suivis : (\A q \in Requetes : En(q, "libre")) =>
        MontantAPayer(f) = IF montants[f].qr # NUL THEN montants[f].qr
                           ELSE Net(montants[f].colonnes)

(***************************************************************************)
(* The inductive invariant behind MontantSuivi                             *)
(***************************************************************************)
\* The report m holds, if any, is that of its bulletin and its columns; a
\* bulletin has its report.
Accord(m) ==
    IF m.rapport = NUL THEN m.qr = NUL
    ELSE IF m.qr # NUL THEN m.rapport = m.qr
    ELSE /\ m.colonnes.ttc # NUL
         /\ m.rapport = m.colonnes.ttc - Controle!Ou0(m.colonnes.retenue)
                         - Controle!Ou0(m.colonnes.acomptes)

\* r read of m what m still says, or did not know its gross amount yet.
Relu(r, m) ==
    /\ r.qr = m.qr
    /\ r.colonnes.retenue = m.colonnes.retenue /\ r.colonnes.acomptes = m.colonnes.acomptes
    /\ r.colonnes.ttc \in {NUL, m.colonnes.ttc}

Actuel(r) ==
    r.etat # "libre" => Existe(r.f) /\ (r.etat = "controle" => Relu(r, montants[r.f]))

SInv ==
    /\ TypeOK
    /\ \A f \in suivis : Existe(f) /\ Accord(montants[f])
    /\ \A q \in Requetes : Actuel(req[q])
=============================================================================
