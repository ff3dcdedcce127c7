------------------------------- MODULE Foncier -------------------------------
(***************************************************************************)
(* The parcels, lots and parking places of one operation, the actors on    *)
(* it, and the reservations that froze a price on those lots.              *)
(*                                                                         *)
(* A request reads and checks, then writes; a file is stored before the    *)
(* row that points at it.  The gateway moves prices by a path of its own.  *)
(***************************************************************************)
EXTENDS Integers, FiniteSetsExt

CONSTANTS
    Lots, Designations, Prix,        \* identifiers, references and prices of lots
    Places,                         \* identifiers of parking places
    Parcelles,                      \* identifiers of parcels
    Acteurs, Roles,                 \* actors and what they do on an operation
    MaxCles,                        \* bound: keys of storage drawn
    Requetes,                       \* request slots
    NUL, OMIS                       \* SQL NULL, field left out

Domaines == Prix \subseteq Nat /\ MaxCles \in Nat /\ NUL \notin Nat /\ OMIS \notin Nat

VARIABLES
    lots,            \* identifier -> row, or NUL
    parkings,        \* identifier -> row, or NUL
    ventes,          \* lot -> the price a reservation froze, its deed, or NUL
    parcelles,       \* identifier -> row, or NUL
    creees,          \* parcels ever created: no identifier is drawn twice
    cles, fichiers,  \* keys of storage drawn, files stored
    rattachements,   \* <<actor, role>> -> general contractor or not, or NUL
    req              \* what each request in flight has read

vars == <<lots, parkings, ventes, parcelles, creees, cles, fichiers, rattachements, req>>
desLots == <<lots, parkings, ventes>>
desParcelles == <<parcelles, creees, cles, fichiers>>

(***************************************************************************)
(* Rows                                                                    *)
(***************************************************************************)
Lot == [reference: Designations, prix: Prix \cup {NUL}]
Place == [lot: Lots, prix: Prix \cup {NUL}]
Vente == [assiette: Nat, signee: BOOLEAN]
Cles == 1..MaxCles
Parcelle == [acte: Cles \cup {NUL}, extrait: Cles \cup {NUL}]
Saisie == [reference: Designations \cup {OMIS}, prix: Prix \cup {NUL, OMIS}]
Pieces == {"acte", "extrait"}
Paires == Acteurs \X Roles

Requete ==
         [etat: {"libre"}]
    \cup [etat: {"reference"}, l: Lots, reference: Designations, prix: Prix \cup {NUL}]
    \cup [etat: {"lot"}, l: Lots, saisie: Saisie]
    \cup [etat: {"piece", "deposee"}, p: Parcelles, nature: Pieces, cle: Cles]
    \cup [etat: {"mandat"}, paire: Paires, general: BOOLEAN]

Libre == [etat |-> "libre"]
Garder(q, r) == req' = [req EXCEPT ![q] = r]
Finir(q) == Garder(q, Libre)
En(q, etat) == req[q].etat = etat

Existants(f) == {x \in DOMAIN f : f[x] # NUL}
Saisi(valeur, avant) == IF valeur = OMIS THEN avant ELSE valeur
PrixOuZero(p) == IF p = NUL THEN 0 ELSE p

(***************************************************************************)
(* Lots                                                                    *)
(***************************************************************************)
\* No other lot of the building has the reference; looked at, not locked.
ChercherReference(q, l, reference, prix) ==
    /\ En(q, "libre")
    /\ lots[l] = NUL
    /\ \A m \in Existants(lots) : lots[m].reference # reference
    /\ Garder(q, [etat |-> "reference", l |-> l, reference |-> reference, prix |-> prix])
    /\ UNCHANGED <<desLots, desParcelles, rattachements>>

CreerLot(q) ==
    /\ En(q, "reference")
    /\ lots[req[q].l] = NUL
    /\ lots' = [lots EXCEPT ![req[q].l] = [reference |-> req[q].reference, prix |-> req[q].prix]]
    /\ Finir(q)
    /\ UNCHANGED <<parkings, ventes, desParcelles, rattachements>>

Signee(l) == ventes[l] # NUL /\ ventes[l].signee

\* Mutant: the price is held back for a lot without a reservation only.
PrixModifiable_Libre(l) == TRUE

\* The price of a lot whose deed is signed is not typed again.
PrixModifiable(l) == ~Signee(l)

LireLot(q, l, saisie) ==
    /\ En(q, "libre")
    /\ l \in Existants(lots)
    /\ saisie.prix # OMIS => PrixModifiable(l)
    /\ Garder(q, [etat |-> "lot", l |-> l, saisie |-> saisie])
    /\ UNCHANGED <<desLots, desParcelles, rattachements>>

\* The reference is written as typed, whatever other lot has it.
ModifierLot(q) ==
    /\ En(q, "lot")
    /\ lots' = [lots EXCEPT ![req[q].l] =
          [reference |-> Saisi(req[q].saisie.reference, @.reference),
           prix |-> Saisi(req[q].saisie.prix, @.prix)]]
    /\ Finir(q)
    /\ UNCHANGED <<parkings, ventes, desParcelles, rattachements>>

(***************************************************************************)
(* Parking places                                                          *)
(***************************************************************************)
CreerParking(p, l, prix) ==
    /\ parkings[p] = NUL /\ l \in Existants(lots)
    /\ parkings' = [parkings EXCEPT ![p] = [lot |-> l, prix |-> prix]]
    /\ UNCHANGED <<lots, ventes, desParcelles, rattachements, req>>

ModifierParking(p, prix) ==
    /\ p \in Existants(parkings)
    /\ parkings' = [parkings EXCEPT ![p].prix = prix]
    /\ UNCHANGED <<lots, ventes, desParcelles, rattachements, req>>

SupprimerParking(p) ==
    /\ p \in Existants(parkings)
    /\ parkings' = [parkings EXCEPT ![p] = NUL]
    /\ UNCHANGED <<lots, ventes, desParcelles, rattachements, req>>

(***************************************************************************)
(* Reservations, and prices that come from Kolabimo                        *)
(***************************************************************************)
PrixTotalActe(l) ==
    PrixOuZero(lots[l].prix)
    + MapThenSumSet(LAMBDA p : PrixOuZero(parkings[p].prix),
                    {p \in Existants(parkings) : parkings[p].lot = l})

\* The price of the deed, typed or else computed, once, when the lot is
\* reserved.
Reserver(l, saisi) ==
    /\ l \in Existants(lots) /\ ventes[l] = NUL
    /\ ventes' = [ventes EXCEPT ![l] =
          [assiette |-> Saisi(saisi, PrixTotalActe(l)), signee |-> FALSE]]
    /\ UNCHANGED <<lots, parkings, desParcelles, rattachements, req>>

Signer(l) ==
    /\ ventes[l] # NUL
    /\ ventes' = [ventes EXCEPT ![l].signee = TRUE]
    /\ UNCHANGED <<lots, parkings, desParcelles, rattachements, req>>

\* Mutant: a price that moves is carried to the reservations.
Reportee_Suivie(l, prix) ==
    [ventes EXCEPT ![l] = IF @ = NUL THEN NUL ELSE [@ EXCEPT !.assiette = prix]]

\* A price that moves is for the sales to come: nothing is carried.
Reportee(l, prix) == ventes

\* The event of a lot writes its price, signed or not, and those of the
\* places it names.
AppliquerLot(l, prix, p) ==
    /\ l \in Existants(lots)
    /\ lots' = [lots EXCEPT ![l].prix = prix]
    /\ parkings' = [r \in Places |-> IF r = p /\ parkings[r] # NUL /\ parkings[r].lot = l
                                     THEN [parkings[r] EXCEPT !.prix = prix] ELSE parkings[r]]
    /\ ventes' = Reportee(l, prix)
    /\ UNCHANGED <<desParcelles, rattachements, req>>

(***************************************************************************)
(* Parcels                                                                 *)
(***************************************************************************)
CreerParcelle(p) ==
    /\ p \notin creees
    /\ creees' = creees \cup {p}
    /\ parcelles' = [parcelles EXCEPT ![p] = [acte |-> NUL, extrait |-> NUL]]
    /\ UNCHANGED <<desLots, cles, fichiers, rattachements, req>>

\* The subdivisions go with the parcel; its files stay in the storage.
SupprimerParcelle(p) ==
    /\ p \in Existants(parcelles)
    /\ parcelles' = [parcelles EXCEPT ![p] = NUL]
    /\ UNCHANGED <<desLots, creees, cles, fichiers, rattachements, req>>

\* The deed, or the extract of the cadastre, of a parcel that was found; the
\* key is drawn before the file is there.
LireParcelle(q, p, nature) ==
    /\ En(q, "libre")
    /\ p \in Existants(parcelles)
    /\ cles < MaxCles
    /\ cles' = cles + 1
    /\ Garder(q, [etat |-> "piece", p |-> p, nature |-> nature, cle |-> cles + 1])
    /\ UNCHANGED <<desLots, parcelles, creees, fichiers, rattachements>>

StockerPiece(q) ==
    /\ En(q, "piece")
    /\ fichiers' = fichiers \cup {req[q].cle}
    /\ Garder(q, [req[q] EXCEPT !.etat = "deposee"])
    /\ UNCHANGED <<desLots, parcelles, creees, cles, rattachements>>

\* Mutant: the row is written before the file is stored.
Ecrivable_Avant == {"piece", "deposee"}

Ecrivable == {"deposee"}

\* The row is written by its identifier: a parcel removed since refuses.
EcrirePiece(q) ==
    /\ req[q].etat \in Ecrivable
    /\ req[q].p \in Existants(parcelles)
    /\ parcelles' = [parcelles EXCEPT ![req[q].p] =
          IF req[q].nature = "acte" THEN [@ EXCEPT !.acte = req[q].cle]
                                    ELSE [@ EXCEPT !.extrait = req[q].cle]]
    /\ Finir(q)
    /\ UNCHANGED <<desLots, creees, cles, fichiers, rattachements>>

(***************************************************************************)
(* Actors                                                                  *)
(***************************************************************************)
\* Mutant: only the other roles of the same actor are looked at.
Autres_MemeActeur(a) == {x \in Existants(rattachements) : x[1] = a /\ rattachements[x]}

\* The general contractors the operation has besides that actor.
Autres(a) == {x \in Existants(rattachements) : x[1] # a /\ rattachements[x]}

LireRattachement(q, paire, general) ==
    /\ En(q, "libre")
    /\ general => Autres(paire[1]) = {}
    /\ Garder(q, [etat |-> "mandat", paire |-> paire, general |-> general])
    /\ UNCHANGED <<desLots, desParcelles, rattachements>>

Rattacher(q) ==
    /\ En(q, "mandat")
    /\ rattachements' = [rattachements EXCEPT ![req[q].paire] = req[q].general]
    /\ Finir(q)
    /\ UNCHANGED <<desLots, desParcelles>>

Detacher(paire) ==
    /\ paire \in Existants(rattachements)
    /\ rattachements' = [rattachements EXCEPT ![paire] = NUL]
    /\ UNCHANGED <<desLots, desParcelles, req>>

Interrompre(q) ==
    /\ ~En(q, "libre")
    /\ Finir(q)
    /\ UNCHANGED <<desLots, desParcelles, rattachements>>

(***************************************************************************)
(* Specification                                                           *)
(***************************************************************************)
Init ==
    /\ lots = [l \in Lots |-> NUL]
    /\ parkings = [p \in Places |-> NUL]
    /\ ventes = [l \in Lots |-> NUL]
    /\ parcelles = [p \in Parcelles |-> NUL]
    /\ creees = {} /\ cles = 0 /\ fichiers = {}
    /\ rattachements = [x \in Paires |-> NUL]
    /\ req = [q \in Requetes |-> Libre]

Catalogue(q) ==
    \/ \E l \in Lots, r \in Designations, p \in Prix \cup {NUL} : ChercherReference(q, l, r, p)
    \/ CreerLot(q)
    \/ \E l \in Lots, saisie \in Saisie : LireLot(q, l, saisie)
    \/ ModifierLot(q)

Parkings ==
    \E p \in Places :
       \/ \E l \in Lots, prix \in Prix \cup {NUL} : CreerParking(p, l, prix)
       \/ \E prix \in Prix \cup {NUL} : ModifierParking(p, prix)
       \/ SupprimerParking(p)

Ventes == \E l \in Lots : Signer(l) \/ \E p \in Prix \cup {OMIS} : Reserver(l, p)

Kolabimo == \E l \in Lots, prix \in Prix, p \in Places \cup {NUL} : AppliquerLot(l, prix, p)

Terrain(q) ==
    \/ \E p \in Parcelles : CreerParcelle(p) \/ SupprimerParcelle(p)
    \/ \E p \in Parcelles, nature \in Pieces : LireParcelle(q, p, nature)
    \/ StockerPiece(q)
    \/ EcrirePiece(q)

Annuaire(q) ==
    \/ \E paire \in Paires, general \in BOOLEAN : LireRattachement(q, paire, general)
    \/ Rattacher(q)
    \/ \E paire \in Paires : Detacher(paire)

Next ==
    \/ Parkings \/ Ventes \/ Kolabimo
    \/ \E q \in Requetes : Catalogue(q) \/ Terrain(q) \/ Annuaire(q) \/ Interrompre(q)

Spec == Init /\ [][Next]_vars

(***************************************************************************)
(* Properties                                                              *)
(***************************************************************************)
TypeOK ==
    /\ lots \in [Lots -> Lot \cup {NUL}]
    /\ parkings \in [Places -> Place \cup {NUL}]
    /\ ventes \in [Lots -> Vente \cup {NUL}]
    /\ parcelles \in [Parcelles -> Parcelle \cup {NUL}]
    /\ creees \subseteq Parcelles
    /\ cles \in 0..MaxCles /\ fichiers \subseteq Cles
    /\ rattachements \in [Paires -> BOOLEAN \cup {NUL}]
    /\ req \in [Requetes -> Requete]

\* FoncierService.modifierLot: one request at a time, and without the gateway,
\* the price of a lot whose deed is signed does not move.
PrixSigne == \A l \in Lots : Signee(l) => lots'[l].prix = lots[l].prix

\* PasserelleService.appliquerLot and FoncierService: whatever price moves, and
\* by whichever path, the base a reservation froze stays.
AssietteGardee ==
    \A l \in Lots : ventes[l] # NUL /\ ventes'[l] # NUL
                    => ventes'[l].assiette = ventes[l].assiette

\* deposerActe and RdppfService.lire: even with two requests at once, what a
\* parcel points at is in the storage.
PiecePresente ==
    \A p \in Existants(parcelles) : {parcelles[p].acte, parcelles[p].extrait} \ {NUL}
                                    \subseteq fichiers

\* ActeursService.rattacher: one request at a time, one general contractor.
MandataireUnique ==
    \A x, y \in Existants(rattachements) : rattachements[x] /\ rattachements[y] => x[1] = y[1]

\* A file stored and not yet pointed at is in the storage.
Suivi(r) == r.etat = "deposee" => r.cle \in fichiers

IInv ==
    /\ DOMAIN ventes = Lots
    /\ \A l \in Lots : ventes[l] # NUL => DOMAIN ventes[l] = {"assiette", "signee"}
    /\ parcelles \in [Parcelles -> Parcelle \cup {NUL}]
    /\ cles \in 0..MaxCles /\ fichiers \subseteq Cles
    /\ rattachements \in [Paires -> BOOLEAN \cup {NUL}]
    /\ req \in [Requetes -> Requete]
    /\ PiecePresente
    /\ \A q \in Requetes : Suivi(req[q])

\* The general contractor about to be written is still without another.
Actuel(r) == r.etat = "mandat" => (r.general => Autres(r.paire[1]) = {})

SInv == IInv /\ MandataireUnique /\ \A q \in Requetes : Actuel(req[q])
=============================================================================
