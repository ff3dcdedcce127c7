--------------------------- MODULE AppelsDeFonds ---------------------------
(***************************************************************************)
(* Sales and calls for funds of one operation: reservations, payment       *)
(* schedule, the engine that turns a completed step into calls for funds,  *)
(* the letters, the receipts and the reminders.                            *)
(*                                                                         *)
(* Every handler of VentesService and AppelsDeFondsService runs in one or  *)
(* several READ COMMITTED transactions (TenantPrismaService.runInTenant)   *)
(* that read first and write later.  A handler is therefore a request q:   *)
(* an action that reads and keeps in req[q] what the code keeps in local   *)
(* variables, then an action that writes and commits.  Between the two,    *)
(* any other request may commit.  The database only protects the unique    *)
(* key (reservationId, etapeId) and the row an UPDATE has locked.          *)
(***************************************************************************)
EXTENDS Integers, FiniteSets

CONSTANTS
    Reservations,   \* identifiers of reservation rows
    Lots,           \* lots of the operation
    Etapes,         \* identifiers of steps of the payment schedule
    Prix,           \* prices "total acte" in centimes
    Pourcentages,   \* percentages of a step, in hundredths of a percent
    Versements,     \* amounts of a receipt, in centimes
    PlafondRecu,    \* bound: what may be received on one call, in centimes
    StatutsSaisis,  \* reservation statuses users enter
    Requetes,       \* request slots: how many handlers run at once
    NUL,            \* SQL NULL
    OMIS            \* a field absent from the body of a PATCH

ASSUME DomainesAssumption ==
    /\ Prix \subseteq Nat
    /\ Pourcentages \subseteq Nat
    /\ Versements \subseteq Nat
    /\ PlafondRecu \in Nat
    /\ NUL \notin Nat
    /\ OMIS \notin Nat \cup {NUL}

VARIABLES
    lots,           \* lot -> LotStatut shown on the sales plan
    reservations,   \* reservation rows
    etapes,         \* rows of the payment schedule
    lie,            \* operation.kolabimoPromotionId is not null
    appels,         \* rows of appels_de_fonds, by primary key
    lettres,        \* letters that left by e-mail
    req             \* what each request in flight has read

vars == <<lots, reservations, etapes, lie, appels, lettres, req>>

(***************************************************************************)
(* Rows                                                                    *)
(***************************************************************************)
ReservationStatut ==
    {"OPTION", "RESERVE", "FONDS_VERSES", "VENDU", "EXPIREE", "ANNULEE"}

ASSUME StatutsAssumption == StatutsSaisis \subseteq ReservationStatut

\* Mutant: an option counts as a commitment.
StatutsEngages_Option == {"OPTION", "RESERVE", "FONDS_VERSES", "VENDU"}

StatutsEngages == {"RESERVE", "FONDS_VERSES", "VENDU"}
StatutsActifs == StatutsEngages \cup {"OPTION"}
LotStatut == {"DISPONIBLE", "RESERVE", "VENDU"}
EtapeStatut == {"NOT_STARTED", "IN_PROGRESS", "COMPLETED"}
AppelStatut == {"EMIS", "ENVOYE", "PARTIELLEMENT_PAYE", "PAYE", "EN_RETARD"}

\* "ABSENTE" is a row that has not been inserted yet.
Reservation == [statut: ReservationStatut \cup {"ABSENTE"}, lot: Lots \cup {NUL},
                prix: Prix \cup {NUL}, signe: BOOLEAN]
Etape == [statut: EtapeStatut \cup {"ABSENTE"}, pct: Pourcentages \cup {NUL}]

\* Two transactions never draw the same key, whatever they insert.
AppelId == [reservation: Reservations, etape: Etapes, tx: Requetes]
Appel == [pct: Nat, montant: Nat, statut: AppelStatut, recu: Nat, echu: BOOLEAN]

\* A call about to be inserted, and a letter about to leave.
Ligne == [reservation: Reservations, etape: Etapes, pct: Nat, montant: Nat]
Lettre == [appel: AppelId, montant: Nat]

(***************************************************************************)
(* What a request keeps between two of its steps                           *)
(***************************************************************************)
Requete ==
         [etat: {"libre"}]
    \cup [etat: {"creation"}, reservation: Reservations, lot: Lots]
    \cup [etat: {"modification"}, reservation: Reservations, lot: Lots \cup {NUL},
          prix: Prix \cup {NUL}, signe: BOOLEAN, appele: BOOLEAN]
    \cup [etat: {"echeancier"}, etape: Etapes, pct: Pourcentages \cup {NUL},
          appele: BOOLEAN]
    \cup [etat: {"livraison"}, etape: Etapes]
    \cup [etat: {"declenchement"}, etape: Etapes, pct: Pourcentages \cup {NUL}]
    \cup [etat: {"verrou"}, etape: Etapes, lignes: SUBSET Ligne]
    \cup [etat: {"rattrapage"}, lignes: SUBSET Ligne]
    \cup [etat: {"envoi"}, reste: SUBSET Lettre]
    \cup [etat: {"marquage"}, appel: AppelId, reste: SUBSET Lettre]
    \cup [etat: {"encaissement"}, appel: AppelId, recu: Nat]
    \cup [etat: {"relance"}, appel: AppelId, enRetard: BOOLEAN]

Libre == [etat |-> "libre"]

Garder(q, r) == req' = [req EXCEPT ![q] = r]
Finir(q) == Garder(q, Libre)
En(q, etat) == req[q].etat = etat

(***************************************************************************)
(* calculs.ts                                                              *)
(***************************************************************************)
\* Rounded half up to the centime.
MontantAppel(pct, prix) == (prix * pct + 5000) \div 10000

Engagee(statut) == statut \in StatutsEngages
\* Mutant: the two sums compared in whole francs, each rounded up.
Solde_Francs(a, recu) == (recu + 99) \div 100 >= (appels[a].montant + 99) \div 100

Solde(a, recu) == recu >= appels[a].montant
EnRetard(a) == appels[a].echu /\ ~Solde(a, appels[a].recu)

AppelsDe(r, e) == {a \in DOMAIN appels : a.reservation = r /\ a.etape = e}
Appelee(r) == \E a \in DOMAIN appels : a.reservation = r
Tiree(e) == \E a \in DOMAIN appels : a.etape = e

(***************************************************************************)
(* VentesService: reservations                                             *)
(***************************************************************************)
Actives(l) == {r \in Reservations :
                 reservations[r].lot = l /\ reservations[r].statut \in StatutsActifs}

\* creerReservation reads the lot and looks for an active reservation.
LireCreation(q, r, l) ==
    /\ En(q, "libre")
    /\ reservations[r].statut = "ABSENTE"
    /\ Actives(l) = {}
    /\ Garder(q, [etat |-> "creation", reservation |-> r, lot |-> l])
    /\ UNCHANGED <<lots, reservations, etapes, lie, appels, lettres>>

StatutLot(statut) ==
    IF statut = "VENDU" THEN "VENDU"
    ELSE IF Engagee(statut) THEN "RESERVE" ELSE "DISPONIBLE"

\* The price given, or the one computed from the lot and its parkings, is
\* frozen; the lot only follows when the new reservation is engaged.
CreerReservation(q, statut, prix, signe) ==
    /\ En(q, "creation")
    /\ reservations[req[q].reservation].statut = "ABSENTE"
    /\ reservations' = [reservations EXCEPT ![req[q].reservation] =
            [statut |-> statut, lot |-> req[q].lot, prix |-> prix, signe |-> signe]]
    /\ lots' = IF Engagee(statut)
               THEN [lots EXCEPT ![req[q].lot] = StatutLot(statut)] ELSE lots
    /\ Finir(q)
    /\ UNCHANGED <<etapes, lie, appels, lettres>>

\* modifierReservation reads the row and the calls already made on it.
LireReservation(q, r) ==
    /\ En(q, "libre")
    /\ reservations[r].statut # "ABSENTE"
    /\ Garder(q, [etat |-> "modification", reservation |-> r,
                  lot |-> reservations[r].lot, prix |-> reservations[r].prix,
                  signe |-> reservations[r].signe, appele |-> Appelee(r)])
    /\ UNCHANGED <<lots, reservations, etapes, lie, appels, lettres>>

Donne(champ, courant) == IF champ = OMIS THEN courant ELSE champ

\* Mutant: only the signed deed freezes the price.
ModifierReservation_SansAppels(q, statut, prix, lot, signe) ==
    LET avant == req[q]
        r == avant.reservation
    IN /\ En(q, "modification")
       /\ prix # OMIS /\ prix # avant.prix => ~avant.signe
       /\ reservations' = [reservations EXCEPT ![r] =
              [statut |-> Donne(statut, @.statut), lot |-> Donne(lot, @.lot),
               prix |-> Donne(prix, @.prix), signe |-> Donne(signe, @.signe)]]
       /\ lots' = IF statut = OMIS THEN lots
                  ELSE [lots EXCEPT ![avant.lot] = StatutLot(statut)]
       /\ Finir(q)
       /\ UNCHANGED <<etapes, lie, appels, lettres>>

\* The guard compares the body with what was read; the UPDATE writes over
\* whatever the row holds now.  The lot that follows is the one read.
ModifierReservation(q, statut, prix, lot, signe) ==
    LET avant == req[q]
        r == avant.reservation
        prixChange == prix # OMIS /\ prix # avant.prix
    IN /\ En(q, "modification")
       /\ prixChange => ~avant.signe /\ ~avant.appele
       /\ reservations' = [reservations EXCEPT ![r] =
              [statut |-> Donne(statut, @.statut), lot |-> Donne(lot, @.lot),
               prix |-> Donne(prix, @.prix), signe |-> Donne(signe, @.signe)]]
       /\ lots' = IF statut = OMIS THEN lots
                  ELSE [lots EXCEPT ![avant.lot] = StatutLot(statut)]
       /\ Finir(q)
       /\ UNCHANGED <<etapes, lie, appels, lettres>>

(***************************************************************************)
(* VentesService: payment schedule                                         *)
(***************************************************************************)
\* A trigger holds the lock of its step from its UPDATE to its commit.
Verrouillee(e) == \E q \in Requetes : En(q, "verrou") /\ req[q].etape = e

\* e stands for the rank: (operationId, ordre) is unique.
CreerEtape(e, pct) ==
    /\ etapes[e].statut = "ABSENTE"
    /\ etapes' = [etapes EXCEPT ![e] = [statut |-> "NOT_STARTED", pct |-> pct]]
    /\ UNCHANGED <<lots, reservations, lie, appels, lettres, req>>

LireEtape(q, e) ==
    /\ En(q, "libre")
    /\ etapes[e].statut # "ABSENTE"
    /\ Garder(q, [etat |-> "echeancier", etape |-> e, pct |-> etapes[e].pct,
                  appele |-> Tiree(e)])
    /\ UNCHANGED <<lots, reservations, etapes, lie, appels, lettres>>

\* modifierEtape: a percentage different from the one read is refused once a
\* call was read.
ModifierEtape(q, pct) ==
    /\ En(q, "echeancier")
    /\ ~Verrouillee(req[q].etape)
    /\ req[q].appele => pct = req[q].pct
    /\ etapes' = [etapes EXCEPT ![req[q].etape].pct = pct]
    /\ Finir(q)
    /\ UNCHANGED <<lots, reservations, lie, appels, lettres>>

\* changerAvancement is one UPDATE without a guard on the current status.
ChangerAvancement(e, statut) ==
    /\ etapes[e].statut # "ABSENTE"
    /\ ~Verrouillee(e)
    /\ etapes' = [etapes EXCEPT ![e].statut = statut]
    /\ UNCHANGED <<lots, reservations, lie, appels, lettres, req>>

\* The operation is linked to a Kolabimo promotion, for good.
Rattacher ==
    /\ ~lie
    /\ lie' = TRUE
    /\ UNCHANGED <<lots, reservations, etapes, appels, lettres, req>>

(***************************************************************************)
(* AppelsDeFondsService: the engine                                        *)
(***************************************************************************)
\* The gateway looks at the step, in a transaction of its own, before it
\* calls the engine: a step already completed is left alone.
AccueillirEtape(q, e) ==
    /\ En(q, "libre")
    /\ lie
    /\ etapes[e].statut \notin {"ABSENTE", "COMPLETED"}
    /\ Garder(q, [etat |-> "livraison", etape |-> e])
    /\ UNCHANGED <<lots, reservations, etapes, lie, appels, lettres>>

\* declencherEtape reads the step.  On a linked operation a person is
\* refused, and only the gateway comes.
LireDeclenchement(q, e) ==
    /\ \/ En(q, "libre") /\ ~lie
       \/ En(q, "livraison") /\ req[q].etape = e
    /\ etapes[e].statut # "ABSENTE"
    /\ Garder(q, [etat |-> "declenchement", etape |-> e, pct |-> etapes[e].pct])
    /\ UNCHANGED <<lots, reservations, etapes, lie, appels, lettres>>

Lignes(couples, pct) ==
    {[reservation |-> c[1], etape |-> c[2], pct |-> pct[c[2]],
      montant |-> MontantAppel(pct[c[2]], reservations[c[1]].prix)] :
        c \in {d \in couples : AppelsDe(d[1], d[2]) = {}
                               /\ reservations[d[1]].prix # NUL}}

\* The UPDATE of the step waits for its lock, then the engaged reservations
\* and the calls already made are read.  A step without a percentage calls
\* nothing.
Verrouiller(q) ==
    LET e == req[q].etape
        engagees == {r \in Reservations : Engagee(reservations[r].statut)}
    IN /\ En(q, "declenchement")
       /\ ~Verrouillee(e)
       /\ Garder(q, [etat |-> "verrou", etape |-> e,
              lignes |-> IF req[q].pct = NUL THEN {}
                         ELSE Lignes(engagees \X {e}, [x \in {e} |-> req[q].pct])])
       /\ UNCHANGED <<lots, reservations, etapes, lie, appels, lettres>>

\* rattraper reads the reservation, the chosen steps and the calls made.
LireRattrapage(q, r, choix) ==
    /\ En(q, "libre")
    /\ Engagee(reservations[r].statut)
    /\ choix # {}
    /\ \A e \in choix : etapes[e].statut = "COMPLETED" /\ etapes[e].pct # NUL
    /\ Garder(q, [etat |-> "rattrapage",
                  lignes |-> Lignes({r} \X choix, [e \in choix |-> etapes[e].pct])])
    /\ UNCHANGED <<lots, reservations, etapes, lie, appels, lettres>>

Cle(q, l) == [reservation |-> l.reservation, etape |-> l.etape, tx |-> q]
Cles(q, lignes) == {Cle(q, l) : l \in lignes}

\* Mutant: no unique key in the database.
CleUnique_Absente(lignes) == lignes = lignes

\* @@unique([reservationId, etapeId])
CleUnique(lignes) == \A l \in lignes : AppelsDe(l.reservation, l.etape) = {}

\* Mutant: the status is left to a default the enumeration does not know.
NouvelAppel_SansStatut(l) == [pct |-> l.pct, montant |-> l.montant,
                              statut |-> "BROUILLON", recu |-> 0, echu |-> FALSE]

NouvelAppel(l) == [pct |-> l.pct, montant |-> l.montant, statut |-> "EMIS",
                   recu |-> 0, echu |-> FALSE]

Inserer(q, lignes) ==
    appels' = [a \in DOMAIN appels \cup Cles(q, lignes) |->
                 IF a \in DOMAIN appels THEN appels[a]
                 ELSE NouvelAppel(CHOOSE l \in lignes : Cle(q, l) = a)]

Courriers(q, lignes) == {[appel |-> Cle(q, l), montant |-> l.montant] : l \in lignes}

\* After the commit the letters leave, unless the caller asked for none.
PuisEnvoyer(q, lignes) ==
    \/ /\ lignes # {}
       /\ Garder(q, [etat |-> "envoi", reste |-> Courriers(q, lignes)])
    \/ Finir(q)

ValiderDeclenchement(q) ==
    /\ En(q, "verrou")
    /\ CleUnique(req[q].lignes)
    /\ Inserer(q, req[q].lignes)
    /\ etapes' = [etapes EXCEPT ![req[q].etape].statut = "COMPLETED"]
    /\ PuisEnvoyer(q, req[q].lignes)
    /\ UNCHANGED <<lots, reservations, lie, lettres>>

ValiderRattrapage(q) ==
    /\ En(q, "rattrapage")
    /\ CleUnique(req[q].lignes)
    /\ Inserer(q, req[q].lignes)
    /\ PuisEnvoyer(q, req[q].lignes)
    /\ UNCHANGED <<lots, reservations, etapes, lie, lettres>>

\* Mutant: the conflict is swallowed and the letters leave.
ConflitUnicite_Avale(q) ==
    /\ req[q].etat \in {"verrou", "rattrapage"}
    /\ ~CleUnique(req[q].lignes)
    /\ Garder(q, [etat |-> "envoi", reste |-> Courriers(q, req[q].lignes)])
    /\ UNCHANGED <<lots, reservations, etapes, lie, appels, lettres>>

\* P2002: the whole transaction is rolled back and nothing is sent.
ConflitUnicite(q) ==
    /\ req[q].etat \in {"verrou", "rattrapage"}
    /\ ~CleUnique(req[q].lignes)
    /\ Finir(q)
    /\ UNCHANGED <<lots, reservations, etapes, lie, appels, lettres>>

(***************************************************************************)
(* AppelsDeFondsService: letters                                           *)
(***************************************************************************)
\* Mutant: a letter is only taken off the list once it is marked.
EnvoyerLettre_Rejouee(q, c) ==
    /\ En(q, "envoi")
    /\ c \in req[q].reste
    /\ lettres' = lettres \cup {c}
    /\ Garder(q, [etat |-> "marquage", appel |-> c.appel, reste |-> req[q].reste])
    /\ UNCHANGED <<lots, reservations, etapes, lie, appels>>

EnvoyerLettre(q, c) ==
    /\ En(q, "envoi")
    /\ c \in req[q].reste
    /\ lettres' = lettres \cup {c}
    /\ Garder(q, [etat |-> "marquage", appel |-> c.appel,
                  reste |-> req[q].reste \ {c}])
    /\ UNCHANGED <<lots, reservations, etapes, lie, appels>>

\* Mutant: a call whose letter cannot leave is withdrawn.
EchecEnvoi_Retire(q, c) ==
    /\ En(q, "envoi")
    /\ c \in req[q].reste
    /\ appels' = [a \in DOMAIN appels \ {c.appel} |-> appels[a]]
    /\ Garder(q, [etat |-> "envoi", reste |-> req[q].reste \ {c}])
    /\ UNCHANGED <<lots, reservations, etapes, lie, lettres>>

\* No address in the file, or the mail server refuses: the call stays as is.
EchecEnvoi(q, c) ==
    /\ En(q, "envoi")
    /\ c \in req[q].reste
    /\ Garder(q, [etat |-> "envoi", reste |-> req[q].reste \ {c}])
    /\ UNCHANGED <<lots, reservations, etapes, lie, appels, lettres>>

\* The status is written whatever it has become since the call was created.
MarquerEnvoye(q) ==
    /\ En(q, "marquage")
    /\ appels' = [appels EXCEPT ![req[q].appel].statut = "ENVOYE"]
    /\ Garder(q, [etat |-> "envoi", reste |-> req[q].reste])
    /\ UNCHANGED <<lots, reservations, etapes, lie, lettres>>

\* The letter left and its call still shows EMIS.
EchecMarquage(q) ==
    /\ En(q, "marquage")
    /\ Garder(q, [etat |-> "envoi", reste |-> req[q].reste])
    /\ UNCHANGED <<lots, reservations, etapes, lie, appels, lettres>>

FinEnvoi(q) ==
    /\ En(q, "envoi")
    /\ req[q].reste = {}
    /\ Finir(q)
    /\ UNCHANGED <<lots, reservations, etapes, lie, appels, lettres>>

(***************************************************************************)
(* AppelsDeFondsService: receipts and reminders                            *)
(***************************************************************************)
LireEncaissement(q, a) ==
    /\ En(q, "libre")
    /\ a \in DOMAIN appels
    /\ Garder(q, [etat |-> "encaissement", appel |-> a, recu |-> appels[a].recu])
    /\ UNCHANGED <<lots, reservations, etapes, lie, appels, lettres>>

\* Mutant: the status comes from the receipts read, without the new one.
EnregistrerEncaissement_SansNouveau(q, montant) ==
    LET a == req[q].appel
        statut == IF Solde(a, req[q].recu) THEN "PAYE" ELSE "PARTIELLEMENT_PAYE"
    IN /\ En(q, "encaissement")
       /\ appels[a].recu + montant <= PlafondRecu
       /\ appels' = [appels EXCEPT ![a].recu = @ + montant, ![a].statut = statut]
       /\ Finir(q)
       /\ UNCHANGED <<lots, reservations, etapes, lie, lettres>>

\* The receipt is a row of its own; the status comes from the sum read.
EnregistrerEncaissement(q, montant) ==
    LET a == req[q].appel
        statut == IF Solde(a, req[q].recu + montant)
                  THEN "PAYE" ELSE "PARTIELLEMENT_PAYE"
    IN /\ En(q, "encaissement")
       /\ appels[a].recu + montant <= PlafondRecu
       /\ appels' = [appels EXCEPT ![a].recu = @ + montant, ![a].statut = statut]
       /\ Finir(q)
       /\ UNCHANGED <<lots, reservations, etapes, lie, lettres>>

\* relancer refuses a settled call, then writes to the buyers.
LireRelance(q, a) ==
    /\ En(q, "libre")
    /\ a \in DOMAIN appels
    /\ ~Solde(a, appels[a].recu)
    /\ Garder(q, [etat |-> "relance", appel |-> a, enRetard |-> EnRetard(a)])
    /\ UNCHANGED <<lots, reservations, etapes, lie, appels, lettres>>

MarquerRelance(q) ==
    /\ En(q, "relance")
    /\ appels' = IF req[q].enRetard
                 THEN [appels EXCEPT ![req[q].appel].statut = "EN_RETARD"] ELSE appels
    /\ Finir(q)
    /\ UNCHANGED <<lots, reservations, etapes, lie, lettres>>

(***************************************************************************)
(* Environment: the due date passes, a request ends early                  *)
(***************************************************************************)
PasserEcheance(a) ==
    /\ ~appels[a].echu
    /\ appels' = [appels EXCEPT ![a].echu = TRUE]
    /\ UNCHANGED <<lots, reservations, etapes, lie, lettres, req>>

\* Refused by a guard or by validation, timed out, cut off by an error or by
\* a restart of the process: the open transaction is rolled back, what was
\* committed stays, and the letters not yet sent are forgotten.
Interrompre(q) ==
    /\ ~En(q, "libre")
    /\ Finir(q)
    /\ UNCHANGED <<lots, reservations, etapes, lie, appels, lettres>>

(***************************************************************************)
(* Specification                                                           *)
(***************************************************************************)
Absente == [statut |-> "ABSENTE", lot |-> NUL, prix |-> NUL, signe |-> FALSE]

Init ==
    /\ lots = [l \in Lots |-> "DISPONIBLE"]
    /\ reservations = [r \in Reservations |-> Absente]
    /\ etapes = [e \in Etapes |-> [statut |-> "ABSENTE", pct |-> NUL]]
    /\ lie = FALSE
    /\ appels = [a \in {} |-> a]
    /\ lettres = {}
    /\ req = [q \in Requetes |-> Libre]

Ventes(q) ==
    \/ \E r \in Reservations, l \in Lots : LireCreation(q, r, l)
    \/ \E s \in StatutsSaisis, p \in Prix, b \in BOOLEAN : CreerReservation(q, s, p, b)
    \/ \E r \in Reservations : LireReservation(q, r)
    \/ \E s \in StatutsSaisis \cup {OMIS}, p \in Prix \cup {NUL, OMIS},
          l \in Lots \cup {OMIS}, b \in BOOLEAN \cup {OMIS} :
             ModifierReservation(q, s, p, l, b)
    \/ \E e \in Etapes : LireEtape(q, e)
    \/ \E p \in Pourcentages \cup {NUL} : ModifierEtape(q, p)

Moteur(q) ==
    \/ \E e \in Etapes : AccueillirEtape(q, e)
    \/ \E e \in Etapes : LireDeclenchement(q, e)
    \/ Verrouiller(q)
    \/ \E r \in Reservations, choix \in SUBSET Etapes : LireRattrapage(q, r, choix)
    \/ ValiderDeclenchement(q)
    \/ ValiderRattrapage(q)
    \/ ConflitUnicite(q)

Envoi(q) ==
    \/ En(q, "envoi") /\ \E c \in req[q].reste : EnvoyerLettre(q, c)
    \/ En(q, "envoi") /\ \E c \in req[q].reste : EchecEnvoi(q, c)
    \/ MarquerEnvoye(q)
    \/ EchecMarquage(q)
    \/ FinEnvoi(q)

Suivi(q) ==
    \/ \E a \in DOMAIN appels : LireEncaissement(q, a)
    \/ \E a \in DOMAIN appels : LireRelance(q, a)
    \/ \E m \in Versements : EnregistrerEncaissement(q, m)
    \/ MarquerRelance(q)

Next ==
    \/ \E q \in Requetes : Ventes(q) \/ Moteur(q) \/ Envoi(q) \/ Suivi(q) \/ Interrompre(q)
    \/ \E e \in Etapes, p \in Pourcentages \cup {NUL} : CreerEtape(e, p)
    \/ \E e \in Etapes, s \in EtapeStatut \ {"COMPLETED"} : ChangerAvancement(e, s)
    \/ Rattacher
    \/ \E a \in DOMAIN appels : PasserEcheance(a)

Spec == Init /\ [][Next]_vars

(***************************************************************************)
(* Properties that hold whatever runs at the same time                     *)
(***************************************************************************)
\* Every row and every request in flight has the shape the schema gives it.
TypeOK ==
    /\ lots \in [Lots -> LotStatut]
    /\ reservations \in [Reservations -> Reservation]
    /\ etapes \in [Etapes -> Etape]
    /\ lie \in BOOLEAN
    /\ DOMAIN appels \subseteq AppelId
    /\ \A a \in DOMAIN appels : appels[a] \in Appel
    /\ lettres \subseteq Lettre
    /\ req \in [Requetes -> Requete]

\* One step is called at most once on one reservation, whether the call comes
\* from a trigger, from the gateway or from a catch-up running at the same time.
UniciteAppel ==
    \A a, b \in DOMAIN appels :
        a.reservation = b.reservation /\ a.etape = b.etape => a = b

\* A call shown as paid has received its whole amount: a receipt computed on a
\* stale sum may miss a payment, it never invents one.
PayeEstSolde ==
    \A a \in DOMAIN appels :
        appels[a].statut = "PAYE" => appels[a].recu >= appels[a].montant

\* Every letter that left asks for the amount of a call that is committed:
\* letters leave after the commit, and a transaction that loses the race for
\* the unique key sends none.
LettreAdossee ==
    \A c \in lettres :
        c.appel \in DOMAIN appels /\ appels[c.appel].montant = c.montant

\* A call is never sent twice, even when the mark that follows fails.
LettreUneFois ==
    [][\A q \in Requetes : \A c \in lettres : ~EnvoyerLettre(q, c)]_vars

\* The engine, the letters and the receipts implement the debts a buyer is
\* promised: one per reservation and step, fixed, never withdrawn, announced
\* at most once and only once committed.
DettesEmises == {[reservation |-> a.reservation, etape |-> a.etape,
                  montant |-> appels[a].montant] : a \in DOMAIN appels}

DettesAnnoncees == {[reservation |-> c.appel.reservation, etape |-> c.appel.etape,
                     montant |-> c.montant] : c \in lettres}

RecuDe(r, e) ==
    IF AppelsDe(r, e) = {} THEN 0
    ELSE appels[CHOOSE a \in AppelsDe(r, e) : TRUE].recu

Promesse == INSTANCE Creances WITH
    dettes <- DettesEmises,
    annoncees <- DettesAnnoncees,
    verse <- [c \in Reservations \X Etapes |-> RecuDe(c[1], c[2])]

ImplementeCreances == Promesse!Spec

(***************************************************************************)
(* The inductive invariant behind these properties                         *)
(***************************************************************************)
\* A transaction about to insert holds one line at most per couple.
LignesParCouple ==
    \A q \in Requetes : req[q].etat \in {"verrou", "rattrapage"} =>
        \A l1, l2 \in req[q].lignes :
            l1.reservation = l2.reservation /\ l1.etape = l2.etape => l1 = l2

\* What an open receipt has read is at most what has been received since.
RecuConnu ==
    \A q \in Requetes : En(q, "encaissement") =>
        /\ req[q].appel \in DOMAIN appels
        /\ req[q].recu <= appels[req[q].appel].recu

\* The letters still to send belong to this request, to committed calls, and
\* have not left.
CourriersAdosses ==
    \A q \in Requetes : req[q].etat \in {"envoi", "marquage"} =>
        \A c \in req[q].reste :
            /\ c.appel \in DOMAIN appels
            /\ appels[c.appel].montant = c.montant
            /\ c.appel.tx = q
            /\ c \notin lettres

IInv ==
    /\ TypeOK
    /\ UniciteAppel
    /\ PayeEstSolde
    /\ LettreAdossee
    /\ LignesParCouple
    /\ RecuConnu
    /\ CourriersAdosses

(***************************************************************************)
(* Properties the handlers keep one at a time                              *)
(***************************************************************************)
\* modifierReservation, modifierEtape: the price and the percentage a call was
\* computed from do not move under it, so the amounts issued and those to come
\* agree with the balance.
AssietteFigee ==
    \A a \in DOMAIN appels :
        /\ reservations[a.reservation].prix # NUL
        /\ appels[a].montant = MontantAppel(appels[a].pct, reservations[a.reservation].prix)
        /\ etapes[a.etape].pct = appels[a].pct

\* enregistrerEncaissement, relancer: the status of a call follows what it has
\* received.  One whose receipts reach its amount is paid, and one that is
\* late is past its due date and not settled.
StatutSelonRecu ==
    \A a \in DOMAIN appels :
        /\ appels[a].recu > 0 /\ appels[a].recu >= appels[a].montant
               => appels[a].statut = "PAYE"
        /\ appels[a].statut = "EN_RETARD"
               => appels[a].echu /\ appels[a].recu < appels[a].montant

\* STATUTS_ENGAGES: no debt is put on someone who has signed nothing.
AppelSurEngagee ==
    [][\A a \in DOMAIN appels' \ DOMAIN appels :
          reservations[a.reservation].statut \in {"RESERVE", "FONDS_VERSES", "VENDU"}]_vars

(***************************************************************************)
(* The inductive invariant behind them, when requests do not overlap       *)
(***************************************************************************)
\* A row not inserted yet has no price and no percentage.
RangsVierges ==
    /\ \A r \in Reservations :
          reservations[r].statut = "ABSENTE" => reservations[r].prix = NUL
    /\ \A e \in Etapes : etapes[e].statut = "ABSENTE" => etapes[e].pct = NUL

\* What a request read of the price, the percentage and the calls made is
\* still what the rows hold.
AssietteLue ==
    \A q \in Requetes :
        /\ En(q, "modification") =>
              LET r == req[q].reservation
              IN /\ reservations[r].statut # "ABSENTE"
                 /\ req[q].prix = reservations[r].prix
                 /\ req[q].appele = Appelee(r)
        /\ En(q, "echeancier") =>
              LET e == req[q].etape
              IN /\ etapes[e].statut # "ABSENTE"
                 /\ req[q].pct = etapes[e].pct
                 /\ req[q].appele = Tiree(e)
        /\ En(q, "declenchement") =>
              LET e == req[q].etape
              IN etapes[e].statut # "ABSENTE" /\ req[q].pct = etapes[e].pct

\* The lines about to be inserted are those the rows still give, on engaged
\* reservations.
LignesAJour ==
    \A q \in Requetes : req[q].etat \in {"verrou", "rattrapage"} =>
        \A l \in req[q].lignes :
            /\ Engagee(reservations[l.reservation].statut)
            /\ reservations[l.reservation].prix # NUL
            /\ l.pct = etapes[l.etape].pct
            /\ l.montant = MontantAppel(l.pct, reservations[l.reservation].prix)

\* What a request read of the receipts of a call is still what the call has
\* received; nothing is received on a call whose letters are leaving.
RecuLu ==
    \A q \in Requetes :
        /\ En(q, "encaissement") => req[q].recu = appels[req[q].appel].recu
        /\ En(q, "relance") =>
              LET a == req[q].appel
              IN /\ a \in DOMAIN appels
                 /\ appels[a].recu < appels[a].montant
                 /\ req[q].enRetard => appels[a].echu
        /\ En(q, "marquage") =>
              req[q].appel \in DOMAIN appels /\ appels[req[q].appel].recu = 0
        /\ req[q].etat \in {"envoi", "marquage"} =>
              \A c \in req[q].reste : appels[c.appel].recu = 0

SInv ==
    /\ IInv
    /\ RangsVierges
    /\ AssietteLue
    /\ LignesAJour
    /\ RecuLu
    /\ AssietteFigee
    /\ StatutSelonRecu

(***************************************************************************)
(* What the comments promise and the code does not keep                    *)
(***************************************************************************)
\* creerReservation: a lot has one active reservation at a time.
UneReservationActive == \A l \in Lots : Cardinality(Actives(l)) <= 1
=============================================================================
