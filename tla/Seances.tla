------------------------------ MODULE Seances ------------------------------
(***************************************************************************)
(* The meetings of the operations: their status, who came, the points of   *)
(* their agenda, and the three places that say what is still to be done    *)
(* (the meeting, its minutes, the list of the operation).                  *)
(*                                                                         *)
(* A request checks in one step and writes in the next.                    *)
(***************************************************************************)
EXTENDS Integers, FiniteSetsExt

CONSTANTS
    Operations,
    NoeudDe,         \* post of a budget -> its operation
    Seances,         \* bound: meetings that can be called
    MaxPoints,       \* bound: points written
    Rangs,           \* bound: ranks a person asks for
    Echeances,       \* bound: days a point is due
    Aujourdhui,
    Requetes,        \* request slots
    NUL,             \* SQL NULL
    OMIS             \* a field the request leaves out

Numeros == 1..MaxPoints
Noeuds == DOMAIN NoeudDe

VARIABLES
    seances,         \* meeting -> row, or NUL
    points,          \* points written, in order
    personnes,       \* participants of a meeting, by presence
    req              \* what each request in flight has read

vars == <<seances, points, personnes, req>>

(***************************************************************************)
(* Rows                                                                    *)
(***************************************************************************)
Seance == [operation: Operations, statut: {"PLANIFIEE", "TENUE", "ANNULEE"}, datee: BOOLEAN]
Point == [seance: Seances, ordre: Int, noeud: Noeuds \cup {NUL},
          statut: {"OUVERT", "EN_COURS", "CLOS"}, echeance: Echeances \cup {NUL}]
\* statut: the one asked for, or OMIS; datee: FALSE when the date is erased.
Patch == [statut: {"PLANIFIEE", "TENUE", "ANNULEE", OMIS}, datee: BOOLEAN \cup {OMIS}]
Requete ==
         [etat: {"libre"}]
    \cup [etat: {"seance"}, s: Seances, patch: Patch]
    \* donne: the rank is given by the server.
    \cup [etat: {"point"}, s: Seances, ordre: Int, donne: BOOLEAN, noeud: Noeuds \cup {NUL},
          echeance: Echeances \cup {NUL}]

\* What the constants stand for.
Domaines ==
    /\ MaxPoints \in Nat /\ Rangs \subseteq Int /\ Echeances \subseteq Int
    /\ NUL \notin Seance /\ OMIS \notin BOOLEAN

Libre == [etat |-> "libre"]
Garder(q, r) == req' = [req EXCEPT ![q] = r]
Finir(q) == Garder(q, Libre)
En(q, etat) == req[q].etat = etat

Saisi(v, avant) == IF v = OMIS THEN avant ELSE v
DeLaSeance(s) == {i \in DOMAIN points : points[i].seance = s}

\* exigerSeance: the meeting is one of the operation of the route.
ExigerSeance(o, s) == seances[s] # NUL /\ seances[s].operation = o

(***************************************************************************)
(* Meetings                                                                *)
(***************************************************************************)
Creer(o, s, datee) ==
    /\ seances[s] = NUL
    /\ seances' = [seances EXCEPT ![s] = [operation |-> o, statut |-> "PLANIFIEE", datee |-> datee]]
    /\ UNCHANGED <<points, personnes, req>>

\* Mutant: the date is asked for after the meeting was held.
LireSeance_SansDate(q, o, s, patch) ==
    /\ En(q, "libre")
    /\ ExigerSeance(o, s)
    /\ Garder(q, [etat |-> "seance", s |-> s, patch |-> patch])
    /\ UNCHANGED <<seances, points, personnes>>

\* A meeting is held on a date, that of the request or its own.
LireSeance(q, o, s, patch) ==
    /\ En(q, "libre")
    /\ ExigerSeance(o, s)
    /\ patch.statut = "TENUE" => patch.datee = TRUE \/ seances[s].datee
    /\ Garder(q, [etat |-> "seance", s |-> s, patch |-> patch])
    /\ UNCHANGED <<seances, points, personnes>>

\* Null is a date that is erased.
Modifier(q) ==
    LET r == req[q]
    IN /\ En(q, "seance")
       /\ seances' = [seances EXCEPT
              ![r.s].statut = Saisi(r.patch.statut, @), ![r.s].datee = Saisi(r.patch.datee, @)]
       /\ Finir(q)
       /\ UNCHANGED <<points, personnes>>

\* qui: a member, an actor of the directory or a name, and none may be given.
AjouterParticipant(o, s, qui, present) ==
    /\ ExigerSeance(o, s)
    /\ qui # NUL
    /\ personnes' = [personnes EXCEPT ![s][present] = @ \cup {qui}]
    /\ UNCHANGED <<seances, points, req>>

RetirerParticipant(o, s, qui) ==
    /\ ExigerSeance(o, s)
    /\ qui \in personnes[s][TRUE] \cup personnes[s][FALSE]
    /\ personnes' = [personnes EXCEPT ![s] = [p \in BOOLEAN |-> @[p] \ {qui}]]
    /\ UNCHANGED <<seances, points, req>>

(***************************************************************************)
(* Points                                                                  *)
(***************************************************************************)
\* Mutant: the rank is the number of points.
Suite_Compte(s) == Cardinality(DeLaSeance(s)) + 1

\* The rank that follows the highest.
Suite(s) == IF DeLaSeance(s) = {} THEN 1 ELSE Max({points[i].ordre : i \in DeLaSeance(s)}) + 1

\* Mutant: a post of any budget.
NoeudAdmis_DeTous(o, n) == TRUE
NoeudAdmis(o, n) == n # NUL => NoeudDe[n] = o

LirePoint(q, o, s, ordre, noeud, echeance) ==
    /\ En(q, "libre")
    /\ ExigerSeance(o, s)
    /\ NoeudAdmis(o, noeud)
    /\ Garder(q, [etat |-> "point", s |-> s, donne |-> ordre = OMIS, noeud |-> noeud,
                  ordre |-> IF ordre = OMIS THEN Suite(s) ELSE ordre, echeance |-> echeance])
    /\ UNCHANGED <<seances, points, personnes>>

AjouterPoint(q) ==
    LET r == req[q]
    IN /\ En(q, "point")
       /\ Cardinality(DOMAIN points) < MaxPoints
       /\ points' = [i \in DOMAIN points \cup {Cardinality(DOMAIN points) + 1} |->
              IF i \in DOMAIN points THEN points[i]
              ELSE [seance |-> r.s, ordre |-> r.ordre, noeud |-> r.noeud,
                    statut |-> "OUVERT", echeance |-> r.echeance]]
       /\ Finir(q)
       /\ UNCHANGED <<seances, personnes>>

ModifierPoint(o, s, i, ordre, echeance, statut) ==
    /\ ExigerSeance(o, s)
    /\ i \in DeLaSeance(s)
    /\ points' = [points EXCEPT
           ![i].ordre = Saisi(ordre, @), ![i].echeance = Saisi(echeance, @), ![i].statut = Saisi(statut, @)]
    /\ UNCHANGED <<seances, personnes, req>>

Interrompre(q) ==
    /\ ~En(q, "libre")
    /\ Finir(q)
    /\ UNCHANGED <<seances, points, personnes>>

(***************************************************************************)
(* What is still to be done                                                *)
(***************************************************************************)
\* enRetard.
EnRetard(i) ==
    /\ points[i].statut # "CLOS"
    /\ points[i].echeance # NUL /\ points[i].echeance < Aujourdhui

\* detail: the points of the meeting, late or not.
Detail(s) == [i \in DeLaSeance(s) |-> EnRetard(i)]

\* redigerPv: who was there, who was not, and what is left to follow up.
Pv(s) ==
    [presents |-> personnes[s][TRUE], excuses |-> personnes[s][FALSE],
     points |-> DeLaSeance(s), ouverts |-> {i \in DeLaSeance(s) : points[i].statut # "CLOS"}]

\* Mutant: a point that is worked on is not open.
Suivi_Ouverts == {"OUVERT"}
Suivi == {"OUVERT", "EN_COURS"}

\* actionsOuvertes.
ActionsOuvertes(o) ==
    LET ouverts == {i \in DOMAIN points : seances[points[i].seance].operation = o
                                          /\ points[i].statut \in Suivi}
    IN [points |-> ouverts, total |-> Cardinality(ouverts),
        enRetard |-> Cardinality({i \in ouverts : EnRetard(i)}),
        sansEcheance |-> Cardinality({i \in ouverts : points[i].echeance = NUL})]

(***************************************************************************)
(* Specification                                                           *)
(***************************************************************************)
Init ==
    /\ seances = [s \in Seances |-> NUL]
    /\ points = [i \in {} |-> NUL]
    /\ personnes = [s \in Seances |-> [p \in BOOLEAN |-> {}]]
    /\ req = [q \in Requetes |-> Libre]

Agenda(q) ==
    \/ \E o \in Operations, s \in Seances :
         \/ \E datee \in BOOLEAN : Creer(o, s, datee)
         \/ \E patch \in Patch : LireSeance(q, o, s, patch)
         \/ \E ordre \in Rangs \cup {OMIS}, n \in Noeuds \cup {NUL}, e \in Echeances \cup {NUL} :
              LirePoint(q, o, s, ordre, n, e)
         \/ \E i \in DOMAIN points, ordre \in Rangs \cup {OMIS}, e \in Echeances \cup {NUL, OMIS},
               statut \in {"OUVERT", "EN_COURS", "CLOS", OMIS} :
              ModifierPoint(o, s, i, ordre, e, statut)
    \/ Modifier(q) \/ AjouterPoint(q)

Presences ==
    \E o \in Operations, s \in Seances, qui \in {"a", NUL} :
       \/ \E present \in BOOLEAN : AjouterParticipant(o, s, qui, present)
       \/ RetirerParticipant(o, s, qui)

Next == Presences \/ \E q \in Requetes : Agenda(q) \/ Interrompre(q)

Spec == Init /\ [][Next]_vars

(***************************************************************************)
(* Properties                                                              *)
(***************************************************************************)
\* Every row and every request in flight has its shape.
TypeOK ==
    /\ seances \in [Seances -> Seance \cup {NUL}]
    /\ DOMAIN points \in {1..n : n \in 0..MaxPoints}
    /\ \A i \in DOMAIN points : points[i] \in Point
    /\ \A s \in Seances : DOMAIN personnes[s] = BOOLEAN
    /\ req \in [Requetes -> Requete]

\* The meeting is there, and a post is one of its operation.
Rattache(s, n) ==
    s \in Seances /\ seances[s] # NUL /\ (n # NUL => NoeudDe[n] = seances[s].operation)

\* A point, as far as what is still to be done depends on it.
Tenu(p) ==
    /\ DOMAIN p = {"seance", "ordre", "noeud", "statut", "echeance"}
    /\ p.statut \in {"OUVERT", "EN_COURS", "CLOS"}
    /\ Rattache(p.seance, p.noeud)

\* What a request checked before it writes stays so.
Valable(r) ==
    /\ r.etat = "point" => Rattache(r.s, r.noeud)
    /\ r.etat = "seance" => r.s \in Seances /\ seances[r.s] # NUL /\ r.patch \in Patch

IInv ==
    /\ seances \in [Seances -> Seance \cup {NUL}]
    /\ \E n \in 0..MaxPoints : DOMAIN points = 1..n
    /\ \A i \in DOMAIN points : Tenu(points[i])
    /\ DOMAIN req = Requetes
    /\ \A q \in Requetes : Valable(req[q])

\* The meeting about to be held has its date.
Actuel(r) ==
    r.etat = "seance" /\ r.patch.statut = "TENUE" => r.patch.datee = TRUE \/ seances[r.s].datee

SInv == IInv /\ \A q \in Requetes : Actuel(req[q])

\* ajouterPoint, "deux points au meme rang rendraient le PV incomprehensible":
\* one request at a time, a rank the server gives is one no other point of the
\* meeting has, whatever ranks people asked for before.
RangNeuf ==
    \A q \in Requetes :
        En(q, "point") /\ req[q].donne /\ DOMAIN points' # DOMAIN points =>
           \A i \in DeLaSeance(req[q].s) : points[i].ordre # points'[Cardinality(DOMAIN points')].ordre

\* ajouterPoint: the post a point is about is one of the operation its
\* meeting is held for, whatever route the point came by.
PosteDeLOperation ==
    \A i \in DOMAIN points :
        points[i].noeud # NUL => NoeudDe[points[i].noeud] = seances[points[i].seance].operation

\* detail, redigerPv and actionsOuvertes count what is open each in its own
\* way: what the meetings of an operation call late and what their minutes
\* leave open is what the list of the operation holds, once each.
SuiviAccorde ==
    \A o \in Operations :
        LET siennes == {s \in Seances : seances[s] # NUL /\ seances[s].operation = o}
            a == ActionsOuvertes(o)
        IN /\ a.points = UNION {Pv(s).ouverts : s \in siennes}
           /\ a.enRetard = Cardinality({i \in DOMAIN points :
                               \E s \in siennes : i \in DOMAIN Detail(s) /\ Detail(s)[i]})
           /\ a.enRetard + a.sansEcheance <= a.total

\* modifier, "une seance ne peut pas etre marquee tenue sans date": one request
\* at a time, a meeting that becomes held has a date, unless the same request
\* erases it.
TenueDatee ==
    \A s \in Seances :
        seances[s] # NUL /\ seances[s].statut # "TENUE" /\ seances'[s].statut = "TENUE"
           => seances'[s].datee \/ \E q \in Requetes : En(q, "seance") /\ req[q].patch.datee = FALSE
=============================================================================
