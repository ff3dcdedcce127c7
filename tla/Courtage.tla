------------------------------ MODULE Courtage ------------------------------
(***************************************************************************)
(* Brokerage of one operation: mandates signed with brokers, some of them  *)
(* exclusive, and the commissions due on the sales they cover.             *)
(*                                                                         *)
(* Nothing in the schema makes a commission or an exclusivity unique: a    *)
(* request looks, keeps what it has read, and writes later.                *)
(***************************************************************************)
EXTENDS Integers, FiniteSets, SequencesExt

CONSTANTS
    Lots,            \* lots of the operation
    Reservations,    \* sales
    MaxMandats,      \* bound: mandates written
    MaxCommissions,  \* bound: commissions stated
    Requetes         \* request slots

Domaines == MaxMandats \in Nat /\ MaxCommissions \in Nat

VARIABLES
    reservations,    \* sale -> its lot, whether the buyer is committed and the price known
    mandats,         \* mandates, by identifier
    commissions,     \* commissions, by identifier
    req              \* what each request in flight has read

vars == <<reservations, mandats, commissions, req>>

MandatStatut == {"BROUILLON", "SIGNE", "ACTIF", "TERMINE", "RESILIE"}
EnVigueur == {"SIGNE", "ACTIF"}

Reservation == [lot: Lots, engagee: BOOLEAN, prix: BOOLEAN]
\* lots: the lots covered, all of them when the mandate is on the operation.
\* forfait: a fixed amount, otherwise a percentage of the price.
Mandat == [lots: (SUBSET Lots) \ {{}}, exclusif: BOOLEAN, forfait: BOOLEAN,
           statut: MandatStatut]
Commission == [mandat: 1..MaxMandats, reservation: Reservations,
               statut: {"DUE", "FACTUREE", "PAYEE", "ANNULEE"}]

Requete ==
         [etat: {"libre"}]
    \cup [etat: {"mandat"}, nouveau: Mandat]
    \cup [etat: {"statut"}, mandat: 1..MaxMandats, statut: MandatStatut]
    \cup [etat: {"constat"}, reservation: Reservations, dus: SUBSET (1..MaxMandats)]

Libre == [etat |-> "libre"]

Garder(q, r) == req' = [req EXCEPT ![q] = r]
Finir(q) == Garder(q, Libre)
En(q, etat) == req[q].etat = etat

(***************************************************************************)
(* Rules                                                                   *)
(***************************************************************************)
EnForce(i) == mandats[i].statut \in EnVigueur

\* Mutant: two mandates conflict when both are exclusive.
Incompatibles_Deux(a, b) == a.exclusif /\ b.exclusif /\ a.lots \cap b.lots # {}

\* One exclusivity is enough, on one common lot.
Incompatibles(a, b) == (a.exclusif \/ b.exclusif) /\ a.lots \cap b.lots # {}

SansConflit(m, exclu) ==
    \A i \in DOMAIN mandats \ exclu : EnForce(i) => ~Incompatibles(m, mandats[i])

Constatee(i, r) ==
    \E c \in DOMAIN commissions : commissions[c].mandat = i /\ commissions[c].reservation = r

\* Mutant: a commission cancelled is stated again.
Dus_SaufAnnulees(r) ==
    {i \in DOMAIN mandats :
        /\ EnForce(i) /\ reservations[r].lot \in mandats[i].lots
        /\ ~\E c \in DOMAIN commissions :
              /\ commissions[c].mandat = i /\ commissions[c].reservation = r
              /\ commissions[c].statut # "ANNULEE"}

\* The mandates in force that cover the lot and have stated nothing on it.
Dus(r) ==
    {i \in DOMAIN mandats :
        EnForce(i) /\ reservations[r].lot \in mandats[i].lots /\ ~Constatee(i, r)}

(***************************************************************************)
(* CourtageService                                                         *)
(***************************************************************************)
LireMandat(q, m) ==
    /\ En(q, "libre")
    /\ SansConflit(m, {})
    /\ Garder(q, [etat |-> "mandat", nouveau |-> m])
    /\ UNCHANGED <<reservations, mandats, commissions>>

\* Written as a draft.
CreerMandat(q) ==
    /\ En(q, "mandat") /\ Len(mandats) < MaxMandats
    /\ mandats' = Append(mandats, [req[q].nouveau EXCEPT !.statut = "BROUILLON"])
    /\ Finir(q)
    /\ UNCHANGED <<reservations, commissions>>

\* Exclusivity is checked again when a mandate comes into force.
LireStatut(q, i, statut) ==
    /\ En(q, "libre")
    /\ statut \in EnVigueur /\ ~EnForce(i) => SansConflit(mandats[i], {i})
    /\ Garder(q, [etat |-> "statut", mandat |-> i, statut |-> statut])
    /\ UNCHANGED <<reservations, mandats, commissions>>

ChangerStatutMandat(q) ==
    /\ En(q, "statut")
    /\ mandats' = [mandats EXCEPT ![req[q].mandat].statut = req[q].statut]
    /\ Finir(q)
    /\ UNCHANGED <<reservations, commissions>>

\* An option is not a sale.  A percentage of a price that is not known stops
\* everything, fixed amounts included.
LireConstat(q, r) ==
    /\ En(q, "libre")
    /\ reservations[r].engagee
    /\ \A i \in Dus(r) : mandats[i].forfait \/ reservations[r].prix
    /\ Garder(q, [etat |-> "constat", reservation |-> r, dus |-> Dus(r)])
    /\ UNCHANGED <<reservations, mandats, commissions>>

\* One commission for each mandate that was found, in one transaction.
ConstaterCommissions(q) ==
    LET r == req[q]
        nouvelles == {[mandat |-> i, reservation |-> r.reservation, statut |-> "DUE"]
                        : i \in r.dus}
    IN /\ En(q, "constat")
       /\ Len(commissions) + Cardinality(nouvelles) <= MaxCommissions
       /\ commissions' = commissions \o SetToSeq(nouvelles)
       /\ Finir(q)
       /\ UNCHANGED <<reservations, mandats>>

ChangerStatutCommission(c, statut) ==
    /\ commissions' = [commissions EXCEPT ![c].statut = statut]
    /\ UNCHANGED <<reservations, mandats, req>>

\* VentesService: a sale is moved, priced, committed or given up.
ModifierReservation(r, apres) ==
    /\ reservations' = [reservations EXCEPT ![r] = apres]
    /\ UNCHANGED <<mandats, commissions, req>>

\* A refusal or a crash: nothing is written.
Interrompre(q) ==
    /\ ~En(q, "libre")
    /\ Finir(q)
    /\ UNCHANGED <<reservations, mandats, commissions>>

(***************************************************************************)
(* Specification                                                           *)
(***************************************************************************)
Init ==
    /\ reservations \in [Reservations -> [lot: Lots, engagee: {FALSE}, prix: {FALSE}]]
    /\ mandats = <<>> /\ commissions = <<>>
    /\ req = [q \in Requetes |-> Libre]

Mandats(q) ==
    \/ \E m \in Mandat : m.statut = "BROUILLON" /\ LireMandat(q, m)
    \/ CreerMandat(q)
    \/ \E i \in DOMAIN mandats, s \in MandatStatut : LireStatut(q, i, s)
    \/ ChangerStatutMandat(q)

Commissions(q) ==
    \/ \E r \in Reservations : LireConstat(q, r)
    \/ ConstaterCommissions(q)

Immediat ==
    \/ \E c \in DOMAIN commissions, s \in {"DUE", "FACTUREE", "PAYEE", "ANNULEE"} :
          ChangerStatutCommission(c, s)
    \/ \E r \in Reservations, apres \in Reservation : ModifierReservation(r, apres)

Next ==
    \/ Immediat
    \/ \E q \in Requetes : Mandats(q) \/ Commissions(q) \/ Interrompre(q)

Spec == Init /\ [][Next]_vars

(***************************************************************************)
(* Properties                                                              *)
(***************************************************************************)
\* Every row and every request in flight has its shape.
TypeOK ==
    /\ reservations \in [Reservations -> Reservation]
    /\ mandats \in Seq(Mandat) /\ Len(mandats) <= MaxMandats
    /\ commissions \in Seq(Commission) /\ Len(commissions) <= MaxCommissions
    /\ req \in [Requetes -> Requete]

\* refuserConflitExclusivite: two exclusivities on one lot are a commission
\* paid twice.  One request at a time, whatever order mandates are written,
\* signed, ended and put back in.
ExclusiviteTenue ==
    \A i, j \in DOMAIN mandats : i # j /\ EnForce(i) /\ EnForce(j) =>
        /\ mandats[i].exclusif => mandats[i].lots \cap mandats[j].lots = {}

\* constaterCommissions: "on ne recree pas une commission deja constatee".
\* One request at a time, whatever happens to the sale, the mandate and the
\* commission meanwhile.
CommissionUnique ==
    \A c, d \in DOMAIN commissions :
        /\ commissions[c].mandat = commissions[d].mandat
        /\ commissions[c].reservation = commissions[d].reservation
        => c = d

(***************************************************************************)
(* The inductive invariant they need, one request at a time                *)
(***************************************************************************)
\* What allowed a mandate into force, and what was found due, is still so.
Actuel(r) ==
    /\ r.etat = "statut" =>
          /\ r.mandat \in DOMAIN mandats
          /\ r.statut \in EnVigueur /\ ~EnForce(r.mandat) =>
                SansConflit(mandats[r.mandat], {r.mandat})
    /\ r.etat = "constat" => \A i \in r.dus : ~Constatee(i, r.reservation)

SInv ==
    /\ TypeOK /\ ExclusiviteTenue /\ CommissionUnique
    /\ \A q \in Requetes : Actuel(req[q])
=============================================================================
