------------------------ MODULE AppelsDeFondsProofs ------------------------
(***************************************************************************)
(* Theorems of AppelsDeFonds, for any sets of reservations, lots, steps,   *)
(* prices, percentages and receipts: first for any number of requests at   *)
(* once, then for what the handlers keep one request at a time.            *)
(***************************************************************************)
EXTENDS AppelsDeFonds, TLAPS

(***************************************************************************)
(* Requests                                                                *)
(***************************************************************************)
\* What a request holds, by the step it has reached.
LEMMA FormeRequete ==
    ASSUME NEW r \in Requete
    PROVE  /\ r.etat = "creation" => r.reservation \in Reservations /\ r.lot \in Lots
           /\ r.etat = "modification" =>
                r.reservation \in Reservations /\ r.lot \in Lots \cup {NUL}
           /\ r.etat = "echeancier" => r.etape \in Etapes
           /\ r.etat = "declenchement" =>
                r.etape \in Etapes /\ r.pct \in Pourcentages \cup {NUL}
           /\ r.etat = "verrou" => r.etape \in Etapes
           /\ r.etat \in {"verrou", "rattrapage"} => r.lignes \subseteq Ligne
           /\ r.etat \in {"envoi", "marquage"} => r.reste \subseteq Lettre
           /\ r.etat \in {"marquage", "encaissement", "relance"} => r.appel \in AppelId
           /\ r.etat = "encaissement" => r.recu \in Nat
BY DEF Requete

\* Writing one request leaves the others as they were.
LEMMA Garde ==
    ASSUME NEW q \in Requetes, NEW r \in Requete,
           req \in [Requetes -> Requete], Garder(q, r)
    PROVE  /\ req' \in [Requetes -> Requete]
           /\ req'[q] = r
           /\ \A p \in Requetes : p # q => req'[p] = req[p]
BY DEF Garder

LEMMA LibreType == Libre \in Requete
BY DEF Libre, Requete

LEMMA Finie ==
    ASSUME NEW q \in Requetes, req \in [Requetes -> Requete], Finir(q)
    PROVE  /\ req' \in [Requetes -> Requete]
           /\ req'[q].etat = "libre"
           /\ \A p \in Requetes : p # q => req'[p] = req[p]
BY Garde, LibreType DEF Finir, Libre

(***************************************************************************)
(* Amounts and lines                                                       *)
(***************************************************************************)
LEMMA ProduitNat == ASSUME NEW m \in Nat, NEW n \in Nat PROVE m * n \in Nat
OBVIOUS

LEMMA DivNat == ASSUME NEW m \in Nat PROVE m \div 10000 \in Nat
OBVIOUS

LEMMA MontantNat ==
    ASSUME NEW pct \in Nat, NEW prix \in Nat
    PROVE  MontantAppel(pct, prix) \in Nat
<1>1. prix * pct + 5000 \in Nat
  BY ProduitNat
<1> QED BY <1>1, DivNat DEF MontantAppel

\* The lines drawn from a set of couples are well formed, and there is one
\* line at most per couple.
LEMMA LignesBonnes ==
    ASSUME TypeOK, NEW couples \in SUBSET (Reservations \X Etapes), NEW pct,
           \A c \in couples : pct[c[2]] \in Pourcentages
    PROVE  /\ Lignes(couples, pct) \subseteq Ligne
           /\ \A l1, l2 \in Lignes(couples, pct) :
                 l1.reservation = l2.reservation /\ l1.etape = l2.etape => l1 = l2
<1> DEFINE L(c) == [reservation |-> c[1], etape |-> c[2], pct |-> pct[c[2]],
                    montant |-> MontantAppel(pct[c[2]], reservations[c[1]].prix)]
           Tiennent == {d \in couples : AppelsDe(d[1], d[2]) = {}
                                        /\ reservations[d[1]].prix # NUL}
<1>1. Lignes(couples, pct) = {L(c) : c \in Tiennent}
  BY DEF Lignes
<1>2. ASSUME NEW c \in Tiennent PROVE L(c) \in Ligne
  <2>1. c[1] \in Reservations /\ c[2] \in Etapes
    OBVIOUS
  <2>2. pct[c[2]] \in Nat
    BY DomainesAssumption
  <2>3. reservations[c[1]].prix \in Nat
    BY <2>1, DomainesAssumption DEF TypeOK, Reservation
  <2>4. MontantAppel(pct[c[2]], reservations[c[1]].prix) \in Nat
    BY <2>2, <2>3, MontantNat
  <2> QED BY <2>1, <2>2, <2>4 DEF Ligne
<1>3. ASSUME NEW c \in Tiennent, NEW d \in Tiennent,
             L(c).reservation = L(d).reservation, L(c).etape = L(d).etape
      PROVE  L(c) = L(d)
  <2>1. c[1] = d[1] /\ c[2] = d[2]
    BY <1>3
  <2> QED BY <2>1
<1>4. Lignes(couples, pct) \subseteq Ligne
  BY <1>1, <1>2
<1>5. \A l1, l2 \in Lignes(couples, pct) :
         l1.reservation = l2.reservation /\ l1.etape = l2.etape => l1 = l2
  BY <1>1, <1>3
<1> QED BY <1>4, <1>5

\* What the insertion of checked lines does to the table.
LEMMA Insertion ==
    ASSUME TypeOK, NEW q \in Requetes, NEW lignes \in SUBSET Ligne,
           \A l1, l2 \in lignes :
              l1.reservation = l2.reservation /\ l1.etape = l2.etape => l1 = l2,
           CleUnique(lignes), Inserer(q, lignes)
    PROVE  /\ DOMAIN appels' = DOMAIN appels \cup Cles(q, lignes)
           /\ DOMAIN appels' \subseteq AppelId
           /\ \A a \in DOMAIN appels : appels'[a] = appels[a]
           /\ \A l \in lignes : /\ Cle(q, l) \notin DOMAIN appels
                                /\ appels'[Cle(q, l)] = NouvelAppel(l)
           /\ \A a \in DOMAIN appels' : appels'[a] \in Appel
<1>1. DOMAIN appels' = DOMAIN appels \cup Cles(q, lignes)
  BY DEF Inserer
<1>2. Cles(q, lignes) \subseteq AppelId
  BY DEF Cles, Cle, AppelId, Ligne
<1>3. \A a \in DOMAIN appels : appels'[a] = appels[a]
  BY DEF Inserer
<1>4. ASSUME NEW l \in lignes
      PROVE  Cle(q, l) \notin DOMAIN appels /\ appels'[Cle(q, l)] = NouvelAppel(l)
  <2>1. Cle(q, l) \notin DOMAIN appels
    BY DEF CleUnique, AppelsDe, Cle
  <2>2. ASSUME NEW m \in lignes, Cle(q, m) = Cle(q, l) PROVE m = l
    <3>1. m.reservation = l.reservation /\ m.etape = l.etape
      BY <2>2 DEF Cle
    <3> QED BY <3>1
  <2>3. (CHOOSE m \in lignes : Cle(q, m) = Cle(q, l)) = l
    BY <2>2
  <2>4. Cle(q, l) \in Cles(q, lignes)
    BY DEF Cles
  <2> QED BY <2>1, <2>3, <2>4 DEF Inserer
<1>5. ASSUME NEW l \in lignes PROVE NouvelAppel(l) \in Appel
  BY DEF NouvelAppel, Appel, AppelStatut, Ligne
<1>6. \A a \in DOMAIN appels' : appels'[a] \in Appel
  BY <1>1, <1>3, <1>4, <1>5 DEF Cles, TypeOK
<1> QED BY <1>1, <1>2, <1>3, <1>4, <1>6 DEF TypeOK

(***************************************************************************)
(* Types                                                                   *)
(***************************************************************************)
LEMMA InitType == Init => TypeOK
<1> SUFFICES ASSUME Init PROVE TypeOK
  OBVIOUS
<1>1. lots \in [Lots -> LotStatut]
  BY DEF Init, LotStatut
<1>2. reservations \in [Reservations -> Reservation]
  BY DEF Init, Absente, Reservation
<1>3. etapes \in [Etapes -> Etape]
  BY DEF Init, Etape
<1>4. req \in [Requetes -> Requete]
  BY LibreType DEF Init
<1> QED BY <1>1, <1>2, <1>3, <1>4 DEF Init, TypeOK

LEMMA VentesType ==
    ASSUME TypeOK, NEW q \in Requetes, Ventes(q)
    PROVE  TypeOK'
<1> USE DEF TypeOK
<1>1. ASSUME NEW r \in Reservations, NEW l \in Lots, LireCreation(q, r, l)
      PROVE  TypeOK'
  <2>1. [etat |-> "creation", reservation |-> r, lot |-> l] \in Requete
    BY DEF Requete
  <2> QED BY <1>1, <2>1, Garde DEF LireCreation
<1>2. ASSUME NEW s \in StatutsSaisis, NEW p \in Prix, NEW b \in BOOLEAN,
             CreerReservation(q, s, p, b)
      PROVE  TypeOK'
  <2>1. req' \in [Requetes -> Requete]
    BY <1>2, Finie DEF CreerReservation
  <2>2. req[q].reservation \in Reservations /\ req[q].lot \in Lots
    BY <1>2, FormeRequete DEF CreerReservation, En
  <2>3. [statut |-> s, lot |-> req[q].lot, prix |-> p, signe |-> b] \in Reservation
    BY <2>2, StatutsAssumption DEF Reservation
  <2>4. reservations' \in [Reservations -> Reservation]
    BY <1>2, <2>2, <2>3 DEF CreerReservation
  <2>5. lots' \in [Lots -> LotStatut]
    BY <1>2, <2>2 DEF CreerReservation, StatutLot, LotStatut
  <2> QED BY <1>2, <2>1, <2>4, <2>5 DEF CreerReservation
<1>3. ASSUME NEW r \in Reservations, LireReservation(q, r)
      PROVE  TypeOK'
  <2> DEFINE x == [etat |-> "modification", reservation |-> r,
                   lot |-> reservations[r].lot, prix |-> reservations[r].prix,
                   signe |-> reservations[r].signe, appele |-> Appelee(r)]
  <2>1. Appelee(r) \in BOOLEAN
    BY DEF Appelee
  <2>2. /\ reservations[r].lot \in Lots \cup {NUL}
        /\ reservations[r].prix \in Prix \cup {NUL}
        /\ reservations[r].signe \in BOOLEAN
    BY DEF Reservation
  <2>3. x \in Requete
    BY <2>1, <2>2 DEF Requete
  <2> QED BY <1>3, <2>3, Garde DEF LireReservation
<1>4. ASSUME NEW s \in StatutsSaisis \cup {OMIS}, NEW p \in Prix \cup {NUL, OMIS},
             NEW l \in Lots \cup {OMIS}, NEW b \in BOOLEAN \cup {OMIS},
             ModifierReservation(q, s, p, l, b)
      PROVE  TypeOK'
  <2> DEFINE r == req[q].reservation
  <2>1. req' \in [Requetes -> Requete]
    BY <1>4, Finie DEF ModifierReservation
  <2>2. r \in Reservations /\ req[q].lot \in Lots \cup {NUL}
    BY <1>4, FormeRequete DEF ModifierReservation, En
  <2>3. reservations[r] \in Reservation
    BY <2>2
  <2>4. /\ Donne(s, reservations[r].statut) \in ReservationStatut \cup {"ABSENTE"}
        /\ Donne(l, reservations[r].lot) \in Lots \cup {NUL}
        /\ Donne(p, reservations[r].prix) \in Prix \cup {NUL}
        /\ Donne(b, reservations[r].signe) \in BOOLEAN
    BY <2>3, StatutsAssumption DEF Donne, Reservation
  <2>5. reservations' \in [Reservations -> Reservation]
    BY <1>4, <2>2, <2>4 DEF ModifierReservation, Reservation
  <2>6. lots' \in [Lots -> LotStatut]
    BY <1>4 DEF ModifierReservation, StatutLot, LotStatut
  <2> QED BY <1>4, <2>1, <2>5, <2>6 DEF ModifierReservation
<1>5. ASSUME NEW e \in Etapes, LireEtape(q, e)
      PROVE  TypeOK'
  <2> DEFINE x == [etat |-> "echeancier", etape |-> e, pct |-> etapes[e].pct,
                   appele |-> Tiree(e)]
  <2>1. Tiree(e) \in BOOLEAN
    BY DEF Tiree
  <2>2. etapes[e] \in Etape
    OBVIOUS
  <2>3. x \in Requete
    BY <2>1, <2>2 DEF Requete, Etape
  <2> QED BY <1>5, <2>3, Garde DEF LireEtape
<1>6. ASSUME NEW p \in Pourcentages \cup {NUL}, ModifierEtape(q, p)
      PROVE  TypeOK'
  <2>1. req' \in [Requetes -> Requete]
    BY <1>6, Finie DEF ModifierEtape
  <2>2. req[q].etape \in Etapes
    BY <1>6, FormeRequete DEF ModifierEtape, En
  <2>3. etapes' \in [Etapes -> Etape]
    BY <1>6, <2>2 DEF ModifierEtape, Etape
  <2> QED BY <1>6, <2>1, <2>3 DEF ModifierEtape
<1> QED BY <1>1, <1>2, <1>3, <1>4, <1>5, <1>6 DEF Ventes

\* After the commit the request holds letters to send, or nothing.
LEMMA Suite ==
    ASSUME TypeOK, NEW q \in Requetes, NEW lignes \in SUBSET Ligne,
           PuisEnvoyer(q, lignes)
    PROVE  /\ req' \in [Requetes -> Requete]
           /\ \A p \in Requetes : p # q => req'[p] = req[p]
           /\ \/ req'[q] = [etat |-> "envoi", reste |-> Courriers(q, lignes)]
              \/ req'[q].etat = "libre"
<1>1. Courriers(q, lignes) \subseteq Lettre
  BY DEF Courriers, Cle, Lettre, AppelId, Ligne
<1>2. [etat |-> "envoi", reste |-> Courriers(q, lignes)] \in Requete
  BY <1>1 DEF Requete
<1>3. CASE Garder(q, [etat |-> "envoi", reste |-> Courriers(q, lignes)])
  BY <1>2, <1>3, Garde DEF TypeOK
<1>4. CASE Finir(q)
  BY <1>4, Finie DEF TypeOK
<1> QED BY <1>3, <1>4 DEF PuisEnvoyer

\* The lines a transaction is about to insert, typed and one per couple.
LEMMA VerrouillerLignes ==
    ASSUME TypeOK, NEW q \in Requetes, Verrouiller(q)
    PROVE  /\ req' \in [Requetes -> Requete]
           /\ \A p \in Requetes : p # q => req'[p] = req[p]
           /\ req'[q].etat = "verrou"
           /\ \A l1, l2 \in req'[q].lignes :
                 l1.reservation = l2.reservation /\ l1.etape = l2.etape => l1 = l2
<1> DEFINE e == req[q].etape
           engagees == {r \in Reservations : Engagee(reservations[r].statut)}
           pct == [x \in {e} |-> req[q].pct]
           tirees == Lignes(engagees \X {e}, pct)
           lignes == IF req[q].pct = NUL THEN {} ELSE tirees
           x == [etat |-> "verrou", etape |-> e, lignes |-> lignes]
<1>1. e \in Etapes /\ req[q].pct \in Pourcentages \cup {NUL}
  BY FormeRequete DEF Verrouiller, En, TypeOK
<1>2. ASSUME req[q].pct # NUL
      PROVE  /\ tirees \subseteq Ligne
             /\ \A l1, l2 \in tirees :
                   l1.reservation = l2.reservation /\ l1.etape = l2.etape => l1 = l2
  <2>1. engagees \X {e} \in SUBSET (Reservations \X Etapes)
    BY <1>1
  <2>2. \A c \in engagees \X {e} : pct[c[2]] \in Pourcentages
    BY <1>1, <1>2
  <2> HIDE DEF engagees, pct
  <2> QED BY <2>1, <2>2, LignesBonnes
<1>3. /\ lignes \subseteq Ligne
      /\ \A l1, l2 \in lignes :
            l1.reservation = l2.reservation /\ l1.etape = l2.etape => l1 = l2
  BY <1>2
<1>4. Garder(q, x)
  BY DEF Verrouiller
<1> HIDE DEF lignes
<1>5. x \in Requete
  BY <1>1, <1>3 DEF Requete
<1> QED BY <1>3, <1>4, <1>5, Garde DEF TypeOK

LEMMA LireRattrapageLignes ==
    ASSUME TypeOK, NEW q \in Requetes, NEW r \in Reservations,
           NEW choix \in SUBSET Etapes, LireRattrapage(q, r, choix)
    PROVE  /\ req' \in [Requetes -> Requete]
           /\ \A p \in Requetes : p # q => req'[p] = req[p]
           /\ req'[q].etat = "rattrapage"
           /\ \A l1, l2 \in req'[q].lignes :
                 l1.reservation = l2.reservation /\ l1.etape = l2.etape => l1 = l2
<1> DEFINE pct == [e \in choix |-> etapes[e].pct]
           lignes == Lignes({r} \X choix, pct)
           x == [etat |-> "rattrapage", lignes |-> lignes]
<1>1. {r} \X choix \in SUBSET (Reservations \X Etapes)
  OBVIOUS
<1>2. \A c \in {r} \X choix : pct[c[2]] \in Pourcentages
  BY DEF LireRattrapage, TypeOK, Etape
<1>3. /\ lignes \subseteq Ligne
      /\ \A l1, l2 \in lignes :
            l1.reservation = l2.reservation /\ l1.etape = l2.etape => l1 = l2
  <2> HIDE DEF pct
  <2> QED BY <1>1, <1>2, LignesBonnes
<1>4. Garder(q, x)
  BY DEF LireRattrapage
<1> HIDE DEF lignes
<1>5. x \in Requete
  BY <1>3 DEF Requete
<1> QED BY <1>3, <1>4, <1>5, Garde DEF TypeOK

LEMMA MoteurType ==
    ASSUME TypeOK, LignesParCouple, NEW q \in Requetes, Moteur(q)
    PROVE  TypeOK'
<1>8. ASSUME NEW e \in Etapes, AccueillirEtape(q, e)
      PROVE  TypeOK'
  <2>1. [etat |-> "livraison", etape |-> e] \in Requete
    BY DEF Requete
  <2> QED BY <1>8, <2>1, Garde DEF AccueillirEtape, TypeOK
<1>1. ASSUME NEW e \in Etapes, LireDeclenchement(q, e)
      PROVE  TypeOK'
  <2>1. etapes[e].pct \in Pourcentages \cup {NUL}
    BY DEF TypeOK, Etape
  <2>2. [etat |-> "declenchement", etape |-> e, pct |-> etapes[e].pct] \in Requete
    BY <2>1 DEF Requete
  <2> QED BY <1>1, <2>2, Garde DEF LireDeclenchement, TypeOK
<1>2. ASSUME Verrouiller(q)
      PROVE  TypeOK'
  BY <1>2, VerrouillerLignes DEF Verrouiller, TypeOK
<1>3. ASSUME NEW r \in Reservations, NEW choix \in SUBSET Etapes,
             LireRattrapage(q, r, choix)
      PROVE  TypeOK'
  BY <1>3, LireRattrapageLignes DEF LireRattrapage, TypeOK
<1>4. ASSUME req[q].etat \in {"verrou", "rattrapage"}
      PROVE  /\ req[q].lignes \in SUBSET Ligne
             /\ \A l1, l2 \in req[q].lignes :
                   l1.reservation = l2.reservation /\ l1.etape = l2.etape => l1 = l2
  BY <1>4, FormeRequete DEF LignesParCouple, TypeOK
<1>5. ASSUME ValiderDeclenchement(q)
      PROVE  TypeOK'
  <2>1. req[q].etape \in Etapes
    BY <1>5, FormeRequete DEF ValiderDeclenchement, En, TypeOK
  <2>2. etapes' \in [Etapes -> Etape]
    BY <1>5, <2>1 DEF ValiderDeclenchement, Etape, EtapeStatut, TypeOK
  <2>3. /\ DOMAIN appels' \subseteq AppelId
        /\ \A a \in DOMAIN appels' : appels'[a] \in Appel
    BY <1>4, <1>5, Insertion DEF ValiderDeclenchement, En
  <2>4. req' \in [Requetes -> Requete]
    BY <1>4, <1>5, Suite DEF ValiderDeclenchement, En
  <2> QED BY <1>5, <2>2, <2>3, <2>4 DEF ValiderDeclenchement, TypeOK
<1>6. ASSUME ValiderRattrapage(q)
      PROVE  TypeOK'
  <2>1. /\ DOMAIN appels' \subseteq AppelId
        /\ \A a \in DOMAIN appels' : appels'[a] \in Appel
    BY <1>4, <1>6, Insertion DEF ValiderRattrapage, En
  <2>2. req' \in [Requetes -> Requete]
    BY <1>4, <1>6, Suite DEF ValiderRattrapage, En
  <2> QED BY <1>6, <2>1, <2>2 DEF ValiderRattrapage, TypeOK
<1>7. ASSUME ConflitUnicite(q)
      PROVE  TypeOK'
  BY <1>7, Finie DEF ConflitUnicite, TypeOK
<1> QED BY <1>1, <1>2, <1>3, <1>5, <1>6, <1>7, <1>8 DEF Moteur

LEMMA EnvoiType ==
    ASSUME TypeOK, NEW q \in Requetes, Envoi(q)
    PROVE  TypeOK'
<1>1. ASSUME req[q].etat \in {"envoi", "marquage"}, NEW c \in req[q].reste
      PROVE  c \in Lettre /\ c.appel \in AppelId
  BY <1>1, FormeRequete DEF TypeOK, Lettre
<1>2. ASSUME NEW c \in req[q].reste, EnvoyerLettre(q, c)
      PROVE  TypeOK'
  <2>1. c \in Lettre /\ c.appel \in AppelId /\ req[q].reste \subseteq Lettre
    BY <1>1, <1>2, FormeRequete DEF EnvoyerLettre, En, TypeOK
  <2>2. [etat |-> "marquage", appel |-> c.appel, reste |-> req[q].reste \ {c}] \in Requete
    BY <2>1 DEF Requete
  <2> QED BY <1>2, <2>1, <2>2, Garde DEF EnvoyerLettre, TypeOK
<1>3. ASSUME req[q].etat \in {"envoi", "marquage"}, NEW S \in SUBSET req[q].reste
      PROVE  [etat |-> "envoi", reste |-> S] \in Requete
  BY <1>3, FormeRequete DEF Requete, TypeOK
<1>4. ASSUME NEW c \in req[q].reste, EchecEnvoi(q, c)
      PROVE  TypeOK'
  BY <1>3, <1>4, Garde DEF EchecEnvoi, En, TypeOK
<1>5. ASSUME MarquerEnvoye(q)
      PROVE  TypeOK'
  <2>1. req' \in [Requetes -> Requete]
    BY <1>3, <1>5, Garde DEF MarquerEnvoye, En, TypeOK
  <2>2. \A a \in DOMAIN appels' : appels'[a] \in Appel
    BY <1>5 DEF MarquerEnvoye, Appel, AppelStatut, TypeOK
  <2> QED BY <1>5, <2>1, <2>2 DEF MarquerEnvoye, TypeOK
<1>6. ASSUME EchecMarquage(q)
      PROVE  TypeOK'
  BY <1>3, <1>6, Garde DEF EchecMarquage, En, TypeOK
<1>7. ASSUME FinEnvoi(q)
      PROVE  TypeOK'
  BY <1>7, Finie DEF FinEnvoi, TypeOK
<1> QED BY <1>2, <1>4, <1>5, <1>6, <1>7 DEF Envoi

LEMMA SuiviType ==
    ASSUME TypeOK, NEW q \in Requetes, Suivi(q)
    PROVE  TypeOK'
<1>1. ASSUME NEW a \in DOMAIN appels
      PROVE  a \in AppelId /\ appels[a] \in Appel
  BY DEF TypeOK
<1>2. ASSUME NEW a \in DOMAIN appels, LireEncaissement(q, a)
      PROVE  TypeOK'
  <2>1. appels[a].recu \in Nat
    BY <1>1 DEF Appel
  <2>2. [etat |-> "encaissement", appel |-> a, recu |-> appels[a].recu] \in Requete
    BY <1>1, <2>1 DEF Requete
  <2> QED BY <1>2, <2>2, Garde DEF LireEncaissement, TypeOK
<1>3. ASSUME NEW a \in DOMAIN appels, LireRelance(q, a)
      PROVE  TypeOK'
  <2>1. EnRetard(a) \in BOOLEAN
    BY <1>1 DEF EnRetard, Solde, Appel
  <2>2. [etat |-> "relance", appel |-> a, enRetard |-> EnRetard(a)] \in Requete
    BY <1>1, <2>1 DEF Requete
  <2> QED BY <1>3, <2>2, Garde DEF LireRelance, TypeOK
<1>4. ASSUME NEW m \in Versements, EnregistrerEncaissement(q, m)
      PROVE  TypeOK'
  <2>1. req' \in [Requetes -> Requete]
    BY <1>4, Finie DEF EnregistrerEncaissement, TypeOK
  <2>2. m \in Nat
    BY DomainesAssumption
  <2>3. DOMAIN appels' = DOMAIN appels
    BY <1>4 DEF EnregistrerEncaissement
  <2>4. ASSUME NEW a \in DOMAIN appels PROVE appels'[a] \in Appel
    <3>1. appels[a] \in Appel
      BY <1>1
    <3>2. CASE a = req[q].appel
      BY <1>4, <2>2, <3>1, <3>2 DEF EnregistrerEncaissement, Appel, AppelStatut
    <3>3. CASE a # req[q].appel
      BY <1>4, <3>1, <3>3 DEF EnregistrerEncaissement
    <3> QED BY <3>2, <3>3
  <2> QED BY <1>4, <2>1, <2>3, <2>4 DEF EnregistrerEncaissement, TypeOK
<1>5. ASSUME MarquerRelance(q)
      PROVE  TypeOK'
  <2>1. req' \in [Requetes -> Requete]
    BY <1>5, Finie DEF MarquerRelance, TypeOK
  <2>2. \A a \in DOMAIN appels' : appels'[a] \in Appel
    BY <1>5 DEF MarquerRelance, Appel, AppelStatut, TypeOK
  <2> QED BY <1>5, <2>1, <2>2 DEF MarquerRelance, TypeOK
<1> QED BY <1>2, <1>3, <1>4, <1>5 DEF Suivi

\* Every step keeps the shape of the rows and of the requests.
LEMMA StepType == TypeOK /\ LignesParCouple /\ [Next]_vars => TypeOK'
<1> SUFFICES ASSUME TypeOK, LignesParCouple, [Next]_vars PROVE TypeOK'
  OBVIOUS
<1>1. ASSUME NEW q \in Requetes, Interrompre(q) PROVE TypeOK'
  BY <1>1, Finie DEF Interrompre, TypeOK
<1>2. ASSUME NEW e \in Etapes, NEW p \in Pourcentages \cup {NUL}, CreerEtape(e, p)
      PROVE  TypeOK'
  BY <1>2 DEF CreerEtape, Etape, EtapeStatut, TypeOK
<1>3. ASSUME NEW e \in Etapes, NEW s \in EtapeStatut \ {"COMPLETED"},
             ChangerAvancement(e, s)
      PROVE  TypeOK'
  BY <1>3 DEF ChangerAvancement, Etape, TypeOK
<1>4. ASSUME Rattacher PROVE TypeOK'
  BY <1>4 DEF Rattacher, TypeOK
<1>5. ASSUME NEW a \in DOMAIN appels, PasserEcheance(a) PROVE TypeOK'
  BY <1>5 DEF PasserEcheance, Appel, TypeOK
<1>6. CASE UNCHANGED vars
  BY <1>6 DEF vars, TypeOK
<1> QED BY VentesType, MoteurType, EnvoiType, SuiviType,
           <1>1, <1>2, <1>3, <1>4, <1>5, <1>6 DEF Next

(***************************************************************************)
(* The rest of the inductive invariant                                     *)
(***************************************************************************)
Coherence ==
    /\ UniciteAppel
    /\ PayeEstSolde
    /\ LettreAdossee
    /\ LignesParCouple
    /\ RecuConnu
    /\ CourriersAdosses

LEMMA InitCoherence == Init => Coherence
BY DEF Init, Libre, En, Coherence, UniciteAppel, PayeEstSolde, LettreAdossee,
       LignesParCouple, RecuConnu, CourriersAdosses

\* A step that touches neither calls nor letters and leaves its request with
\* nothing to insert, to send or to collect.
LEMMA SansEffet ==
    ASSUME Coherence, NEW q \in Requetes, UNCHANGED <<appels, lettres>>,
           \A p \in Requetes : p # q => req'[p] = req[p],
           req'[q].etat \notin {"verrou", "rattrapage", "encaissement", "envoi", "marquage"}
    PROVE  Coherence'
BY DEF En, Coherence, UniciteAppel, PayeEstSolde, LettreAdossee,
       LignesParCouple, RecuConnu, CourriersAdosses

\* A step that inserts nothing and only moves the status, the receipts or the
\* due date of the calls.
LEMMA SuiviSeul ==
    ASSUME TypeOK, Coherence, NEW q \in Requetes,
           DOMAIN appels' = DOMAIN appels,
           \A a \in DOMAIN appels : /\ appels'[a].montant = appels[a].montant
                                    /\ appels'[a].recu >= appels[a].recu
                                    /\ appels'[a].recu \in Nat,
           UNCHANGED lettres,
           \A p \in Requetes : p # q => req'[p] = req[p],
           req'[q].etat \notin {"verrou", "rattrapage", "encaissement"},
           req'[q].etat \in {"envoi", "marquage"} =>
               /\ req[q].etat \in {"envoi", "marquage"}
               /\ req'[q].reste \subseteq req[q].reste,
           PayeEstSolde'
    PROVE  Coherence'
<1>1. UniciteAppel'
  BY DEF Coherence, UniciteAppel
<1>2. LettreAdossee'
  BY DEF Coherence, LettreAdossee
<1>3. LignesParCouple'
  BY DEF Coherence, LignesParCouple
<1>4. RecuConnu'
  <2> SUFFICES ASSUME NEW p \in Requetes, req'[p].etat = "encaissement"
               PROVE  /\ req'[p].appel \in DOMAIN appels'
                      /\ req'[p].recu <= appels'[req'[p].appel].recu
    BY DEF RecuConnu, En
  <2>1. p # q /\ req'[p] = req[p]
    OBVIOUS
  <2>2. /\ req[p].appel \in DOMAIN appels
        /\ req[p].recu <= appels[req[p].appel].recu
    BY <2>1 DEF Coherence, RecuConnu, En
  <2>3. req[p].recu \in Nat
    BY <2>1, FormeRequete DEF TypeOK
  <2>4. appels[req[p].appel].recu \in Nat
    BY <2>2 DEF TypeOK, Appel
  <2> QED BY <2>1, <2>2, <2>3, <2>4
<1>5. CourriersAdosses'
  BY DEF Coherence, CourriersAdosses
<1> QED BY <1>1, <1>2, <1>3, <1>4, <1>5 DEF Coherence

LEMMA VentesCoherence ==
    ASSUME TypeOK, Coherence, NEW q \in Requetes, Ventes(q)
    PROVE  Coherence'
<1>1. ASSUME NEW r \in Reservations, NEW l \in Lots, LireCreation(q, r, l)
      PROVE  Coherence'
  BY <1>1, SansEffet DEF LireCreation, Garder, TypeOK
<1>2. ASSUME NEW s, NEW p, NEW b, CreerReservation(q, s, p, b)
      PROVE  Coherence'
  BY <1>2, SansEffet, Finie DEF CreerReservation, TypeOK
<1>3. ASSUME NEW r \in Reservations, LireReservation(q, r)
      PROVE  Coherence'
  BY <1>3, SansEffet DEF LireReservation, Garder, TypeOK
<1>4. ASSUME NEW s, NEW p, NEW l, NEW b, ModifierReservation(q, s, p, l, b)
      PROVE  Coherence'
  BY <1>4, SansEffet, Finie DEF ModifierReservation, TypeOK
<1>5. ASSUME NEW e \in Etapes, LireEtape(q, e)
      PROVE  Coherence'
  BY <1>5, SansEffet DEF LireEtape, Garder, TypeOK
<1>6. ASSUME NEW p, ModifierEtape(q, p)
      PROVE  Coherence'
  BY <1>6, SansEffet, Finie DEF ModifierEtape, TypeOK
<1> QED BY <1>1, <1>2, <1>3, <1>4, <1>5, <1>6 DEF Ventes

\* A transaction that only prepares its lines disturbs LignesParCouple alone.
LEMMA Preparation ==
    ASSUME Coherence, NEW q \in Requetes, UNCHANGED <<appels, lettres>>,
           \A p \in Requetes : p # q => req'[p] = req[p],
           req'[q].etat \in {"verrou", "rattrapage"},
           \A l1, l2 \in req'[q].lignes :
              l1.reservation = l2.reservation /\ l1.etape = l2.etape => l1 = l2
    PROVE  Coherence'
BY DEF En, Coherence, UniciteAppel, PayeEstSolde, LettreAdossee,
       LignesParCouple, RecuConnu, CourriersAdosses

\* A committed transaction: its calls are new, one per couple, and the
\* letters it now holds are theirs.
LEMMA Validation ==
    ASSUME TypeOK, Coherence, NEW q \in Requetes,
           req[q].etat \in {"verrou", "rattrapage"},
           CleUnique(req[q].lignes),
           Inserer(q, req[q].lignes),
           PuisEnvoyer(q, req[q].lignes),
           UNCHANGED lettres
    PROVE  Coherence'
<1> DEFINE lignes == req[q].lignes
<1>1. /\ lignes \in SUBSET Ligne
      /\ \A l1, l2 \in lignes :
            l1.reservation = l2.reservation /\ l1.etape = l2.etape => l1 = l2
  BY FormeRequete DEF Coherence, LignesParCouple, TypeOK
<1>2. /\ DOMAIN appels' = DOMAIN appels \cup Cles(q, lignes)
      /\ \A a \in DOMAIN appels : appels'[a] = appels[a]
      /\ \A l \in lignes : /\ Cle(q, l) \notin DOMAIN appels
                           /\ appels'[Cle(q, l)] = NouvelAppel(l)
  BY <1>1, Insertion
<1>3. /\ \A p \in Requetes : p # q => req'[p] = req[p]
      /\ \/ req'[q] = [etat |-> "envoi", reste |-> Courriers(q, lignes)]
         \/ req'[q].etat = "libre"
  BY <1>1, Suite
<1>4. UniciteAppel'
  <2> SUFFICES ASSUME NEW a \in DOMAIN appels', NEW b \in DOMAIN appels',
                      a.reservation = b.reservation, a.etape = b.etape
               PROVE  a = b
    BY DEF UniciteAppel
  <2>1. CASE a \in DOMAIN appels /\ b \in DOMAIN appels
    BY <2>1 DEF Coherence, UniciteAppel
  <2>2. CASE a \in Cles(q, lignes) /\ b \in Cles(q, lignes)
    BY <2>2 DEF Cles, Cle
  <2>3. CASE a \in Cles(q, lignes) /\ b \in DOMAIN appels
    BY <2>3 DEF Cles, Cle, CleUnique, AppelsDe
  <2>4. CASE a \in DOMAIN appels /\ b \in Cles(q, lignes)
    BY <2>4 DEF Cles, Cle, CleUnique, AppelsDe
  <2> QED BY <1>2, <2>1, <2>2, <2>3, <2>4
<1>5. PayeEstSolde'
  <2> SUFFICES ASSUME NEW a \in DOMAIN appels', appels'[a].statut = "PAYE"
               PROVE  appels'[a].recu >= appels'[a].montant
    BY DEF PayeEstSolde
  <2>1. CASE a \in DOMAIN appels
    BY <1>2, <2>1 DEF Coherence, PayeEstSolde
  <2>2. CASE a \in Cles(q, lignes)
    <3>1. PICK l \in lignes : a = Cle(q, l)
      BY <2>2 DEF Cles
    <3>2. appels'[a] = NouvelAppel(l)
      BY <1>2, <3>1
    <3> QED BY <3>2 DEF NouvelAppel
  <2> QED BY <1>2, <2>1, <2>2
<1>6. LettreAdossee'
  BY <1>2 DEF Coherence, LettreAdossee
<1>7. LignesParCouple'
  BY <1>3 DEF Coherence, LignesParCouple
<1>8. RecuConnu'
  BY <1>2, <1>3 DEF Coherence, RecuConnu, En
<1>9. CourriersAdosses'
  <2> SUFFICES ASSUME NEW p \in Requetes, req'[p].etat \in {"envoi", "marquage"},
                      NEW c \in req'[p].reste
               PROVE  /\ c.appel \in DOMAIN appels'
                      /\ appels'[c.appel].montant = c.montant
                      /\ c.appel.tx = p
                      /\ c \notin lettres
    BY DEF CourriersAdosses
  <2>1. CASE p # q
    BY <1>2, <1>3, <2>1 DEF Coherence, CourriersAdosses
  <2>2. CASE p = q
    <3>1. PICK l \in lignes : c = [appel |-> Cle(q, l), montant |-> l.montant]
      BY <1>3, <2>2 DEF Courriers
    <3>2. c.appel \in DOMAIN appels' /\ appels'[c.appel].montant = c.montant
      <4>1. c.appel = Cle(q, l) /\ c.montant = l.montant
        BY <3>1
      <4>2. c.appel \in DOMAIN appels'
        BY <1>2, <4>1 DEF Cles
      <4>3. appels'[c.appel] = NouvelAppel(l)
        BY <1>2, <4>1
      <4> QED BY <4>1, <4>2, <4>3 DEF NouvelAppel
    <3>3. c.appel.tx = q
      BY <3>1 DEF Cle
    <3>4. c \notin lettres
      BY <1>2, <3>1 DEF Coherence, LettreAdossee
    <3> QED BY <2>2, <3>2, <3>3, <3>4
  <2> QED BY <2>1, <2>2
<1> QED BY <1>4, <1>5, <1>6, <1>7, <1>8, <1>9 DEF Coherence

LEMMA MoteurCoherence ==
    ASSUME TypeOK, Coherence, NEW q \in Requetes, Moteur(q)
    PROVE  Coherence'
<1>7. ASSUME NEW e \in Etapes, AccueillirEtape(q, e)
      PROVE  Coherence'
  BY <1>7, SansEffet DEF AccueillirEtape, Garder, TypeOK
<1>1. ASSUME NEW e \in Etapes, LireDeclenchement(q, e)
      PROVE  Coherence'
  BY <1>1, SansEffet DEF LireDeclenchement, Garder, TypeOK
<1>2. ASSUME Verrouiller(q)
      PROVE  Coherence'
  BY <1>2, VerrouillerLignes, Preparation DEF Verrouiller
<1>3. ASSUME NEW r \in Reservations, NEW choix \in SUBSET Etapes,
             LireRattrapage(q, r, choix)
      PROVE  Coherence'
  BY <1>3, LireRattrapageLignes, Preparation DEF LireRattrapage
<1>4. ASSUME ValiderDeclenchement(q)
      PROVE  Coherence'
  BY <1>4, Validation DEF ValiderDeclenchement, En
<1>5. ASSUME ValiderRattrapage(q)
      PROVE  Coherence'
  BY <1>5, Validation DEF ValiderRattrapage, En
<1>6. ASSUME ConflitUnicite(q)
      PROVE  Coherence'
  BY <1>6, SansEffet, Finie DEF ConflitUnicite, TypeOK
<1> QED BY <1>1, <1>2, <1>3, <1>4, <1>5, <1>6, <1>7 DEF Moteur

LEMMA EnvoiCoherence ==
    ASSUME TypeOK, Coherence, NEW q \in Requetes, Envoi(q)
    PROVE  Coherence'
<1>1. ASSUME NEW c \in req[q].reste, EnvoyerLettre(q, c)
      PROVE  Coherence'
  <2>1. /\ req'[q].etat = "marquage" /\ req'[q].reste = req[q].reste \ {c}
        /\ \A p \in Requetes : p # q => req'[p] = req[p]
    BY <1>1 DEF EnvoyerLettre, Garder, TypeOK
  <2>2. /\ c.appel \in DOMAIN appels
        /\ appels[c.appel].montant = c.montant
        /\ c.appel.tx = q
    BY <1>1 DEF EnvoyerLettre, En, Coherence, CourriersAdosses
  <2>3. UniciteAppel' /\ PayeEstSolde'
    BY <1>1 DEF EnvoyerLettre, Coherence, UniciteAppel, PayeEstSolde
  <2>4. LettreAdossee'
    BY <1>1, <2>2 DEF EnvoyerLettre, Coherence, LettreAdossee
  <2>5. LignesParCouple' /\ RecuConnu'
    BY <1>1, <2>1 DEF EnvoyerLettre, Coherence, LignesParCouple, RecuConnu, En
  <2>6. CourriersAdosses'
    <3> SUFFICES ASSUME NEW p \in Requetes, req'[p].etat \in {"envoi", "marquage"},
                        NEW d \in req'[p].reste
                 PROVE  /\ d.appel \in DOMAIN appels
                        /\ appels[d.appel].montant = d.montant
                        /\ d.appel.tx = p
                        /\ d \notin lettres'
      BY <1>1 DEF CourriersAdosses, EnvoyerLettre
    <3>1. /\ d.appel \in DOMAIN appels
          /\ appels[d.appel].montant = d.montant
          /\ d.appel.tx = p
          /\ d \notin lettres
      BY <1>1, <2>1 DEF EnvoyerLettre, En, Coherence, CourriersAdosses
    <3>2. d # c
      BY <2>1, <2>2, <3>1
    <3> QED BY <1>1, <3>1, <3>2 DEF EnvoyerLettre
  <2> QED BY <2>3, <2>4, <2>5, <2>6 DEF Coherence
<1>2. ASSUME req[q].etat \in {"envoi", "marquage"}, UNCHANGED <<appels, lettres>>,
             NEW S \in SUBSET req[q].reste, Garder(q, [etat |-> "envoi", reste |-> S])
      PROVE  Coherence'
  <2>1. /\ req'[q].etat = "envoi" /\ req'[q].reste = S
        /\ \A p \in Requetes : p # q => req'[p] = req[p]
    BY <1>2 DEF Garder, TypeOK
  <2> QED BY <1>2, <2>1
          DEF En, Coherence, UniciteAppel, PayeEstSolde, LettreAdossee,
              LignesParCouple, RecuConnu, CourriersAdosses
<1>3. ASSUME NEW c \in req[q].reste, EchecEnvoi(q, c)
      PROVE  Coherence'
  BY <1>2, <1>3 DEF EchecEnvoi, En
<1>4. ASSUME MarquerEnvoye(q)
      PROVE  Coherence'
  <2>1. /\ req'[q].etat = "envoi" /\ req'[q].reste = req[q].reste
        /\ \A p \in Requetes : p # q => req'[p] = req[p]
    BY <1>4 DEF MarquerEnvoye, Garder, TypeOK
  <2>2. DOMAIN appels' = DOMAIN appels
    BY <1>4 DEF MarquerEnvoye
  <2>3. \A a \in DOMAIN appels : /\ appels'[a].montant = appels[a].montant
                                 /\ appels'[a].recu = appels[a].recu
                                 /\ appels[a].recu \in Nat
    BY <1>4 DEF MarquerEnvoye, TypeOK, Appel
  <2>4. PayeEstSolde'
    BY <1>4, <2>2 DEF MarquerEnvoye, Coherence, PayeEstSolde, TypeOK, Appel
  <2>5. req[q].etat \in {"envoi", "marquage"} /\ UNCHANGED lettres
    BY <1>4 DEF MarquerEnvoye, En
  <2> QED BY <2>1, <2>2, <2>3, <2>4, <2>5, SuiviSeul
<1>5. ASSUME EchecMarquage(q)
      PROVE  Coherence'
  BY <1>2, <1>5 DEF EchecMarquage, En
<1>6. ASSUME FinEnvoi(q)
      PROVE  Coherence'
  BY <1>6, SansEffet, Finie DEF FinEnvoi, TypeOK
<1> QED BY <1>1, <1>3, <1>4, <1>5, <1>6 DEF Envoi

LEMMA SuiviCoherence ==
    ASSUME TypeOK, Coherence, NEW q \in Requetes, Suivi(q)
    PROVE  Coherence'
<1>1. ASSUME NEW a \in DOMAIN appels, LireEncaissement(q, a)
      PROVE  Coherence'
  <2>1. /\ req'[q].etat = "encaissement"
        /\ req'[q].appel = a /\ req'[q].recu = appels[a].recu
        /\ \A p \in Requetes : p # q => req'[p] = req[p]
    BY <1>1 DEF LireEncaissement, Garder, TypeOK
  <2>2. appels[a].recu \in Nat
    BY DEF TypeOK, Appel
  <2>3. RecuConnu'
    BY <1>1, <2>1, <2>2 DEF LireEncaissement, Coherence, RecuConnu, En
  <2>4. UniciteAppel' /\ PayeEstSolde' /\ LettreAdossee'
    BY <1>1 DEF LireEncaissement, Coherence, UniciteAppel, PayeEstSolde, LettreAdossee
  <2>5. LignesParCouple' /\ CourriersAdosses'
    BY <1>1, <2>1 DEF LireEncaissement, Coherence, LignesParCouple, CourriersAdosses
  <2> QED BY <2>3, <2>4, <2>5 DEF Coherence
<1>2. ASSUME NEW a \in DOMAIN appels, LireRelance(q, a)
      PROVE  Coherence'
  BY <1>2, SansEffet DEF LireRelance, Garder, TypeOK
<1>3. ASSUME NEW m \in Versements, EnregistrerEncaissement(q, m)
      PROVE  Coherence'
  <2> DEFINE a == req[q].appel
  <2>1. /\ a \in DOMAIN appels
        /\ req[q].recu <= appels[a].recu
        /\ appels[a] \in Appel
    BY <1>3 DEF EnregistrerEncaissement, En, Coherence, RecuConnu, TypeOK
  <2>2. m \in Nat /\ req[q].recu \in Nat
    BY <1>3, DomainesAssumption, FormeRequete DEF EnregistrerEncaissement, En, TypeOK
  <2>3. /\ DOMAIN appels' = DOMAIN appels
        /\ \A b \in DOMAIN appels : b # a => appels'[b] = appels[b]
        /\ appels'[a].montant = appels[a].montant
        /\ appels'[a].recu = appels[a].recu + m
        /\ appels'[a].statut = "PAYE" => req[q].recu + m >= appels[a].montant
    BY <1>3, <2>1 DEF EnregistrerEncaissement, Solde, Appel
  <2>4. \A b \in DOMAIN appels : /\ appels'[b].montant = appels[b].montant
                                 /\ appels'[b].recu >= appels[b].recu
                                 /\ appels'[b].recu \in Nat
    BY <2>1, <2>2, <2>3 DEF TypeOK, Appel
  <2>5. PayeEstSolde'
    BY <2>1, <2>2, <2>3 DEF Coherence, PayeEstSolde, Appel
  <2>6. req'[q].etat = "libre" /\ \A p \in Requetes : p # q => req'[p] = req[p]
    BY <1>3, Finie DEF EnregistrerEncaissement, TypeOK
  <2>7. UNCHANGED lettres
    BY <1>3 DEF EnregistrerEncaissement
  <2> QED BY <2>3, <2>4, <2>5, <2>6, <2>7, SuiviSeul
<1>4. ASSUME MarquerRelance(q)
      PROVE  Coherence'
  <2>1. req'[q].etat = "libre" /\ \A p \in Requetes : p # q => req'[p] = req[p]
    BY <1>4, Finie DEF MarquerRelance, TypeOK
  <2>2. DOMAIN appels' = DOMAIN appels /\ UNCHANGED lettres
    BY <1>4 DEF MarquerRelance
  <2>3. \A a \in DOMAIN appels : /\ appels'[a].montant = appels[a].montant
                                 /\ appels'[a].recu = appels[a].recu
                                 /\ appels[a].recu \in Nat
    BY <1>4 DEF MarquerRelance, TypeOK, Appel
  <2>4. PayeEstSolde'
    BY <1>4, <2>2 DEF MarquerRelance, Coherence, PayeEstSolde, TypeOK, Appel
  <2> QED BY <2>1, <2>2, <2>3, <2>4, SuiviSeul
<1> QED BY <1>1, <1>2, <1>3, <1>4 DEF Suivi

LEMMA StepCoherence == TypeOK /\ Coherence /\ [Next]_vars => Coherence'
<1> SUFFICES ASSUME TypeOK, Coherence, [Next]_vars PROVE Coherence'
  OBVIOUS
<1>1. ASSUME NEW q \in Requetes, Interrompre(q) PROVE Coherence'
  BY <1>1, SansEffet, Finie DEF Interrompre, TypeOK
<1>2. ASSUME UNCHANGED <<appels, lettres, req>> PROVE Coherence'
  BY <1>2 DEF En, Coherence, UniciteAppel, PayeEstSolde, LettreAdossee,
              LignesParCouple, RecuConnu, CourriersAdosses
<1>3. ASSUME NEW e \in Etapes, NEW p, CreerEtape(e, p) PROVE Coherence'
  BY <1>2, <1>3 DEF CreerEtape
<1>4. ASSUME NEW e \in Etapes, NEW s, ChangerAvancement(e, s) PROVE Coherence'
  BY <1>2, <1>4 DEF ChangerAvancement
<1>5. ASSUME Rattacher PROVE Coherence'
  BY <1>2, <1>5 DEF Rattacher
<1>6. ASSUME NEW a \in DOMAIN appels, PasserEcheance(a) PROVE Coherence'
  <2>1. /\ DOMAIN appels' = DOMAIN appels
        /\ \A b \in DOMAIN appels : /\ appels'[b].montant = appels[b].montant
                                    /\ appels'[b].recu = appels[b].recu
                                    /\ appels'[b].statut = appels[b].statut
    BY <1>6 DEF PasserEcheance, TypeOK, Appel
  <2>2. UNCHANGED <<lettres, req>>
    BY <1>6 DEF PasserEcheance
  <2> QED BY <2>1, <2>2
          DEF En, Coherence, UniciteAppel, PayeEstSolde, LettreAdossee,
              LignesParCouple, RecuConnu, CourriersAdosses
<1>7. CASE UNCHANGED vars
  BY <1>2, <1>7 DEF vars
<1> QED BY VentesCoherence, MoteurCoherence, EnvoiCoherence, SuiviCoherence,
           <1>1, <1>3, <1>4, <1>5, <1>6, <1>7 DEF Next

(***************************************************************************)
(* Theorems                                                                *)
(***************************************************************************)
\* The inductive invariant: the rows and requests are typed, the lines, the
\* letters and the receipts in flight agree with the committed rows.
THEOREM Invariance == Spec => []IInv
<1>1. Init => IInv
  BY InitType, InitCoherence DEF IInv, Coherence
<1>2. IInv /\ [Next]_vars => IInv'
  BY StepType, StepCoherence DEF IInv, Coherence
<1> QED BY <1>1, <1>2, PTL DEF Spec

\* Every reachable row and request has the shape the schema gives it.
THEOREM TypeCorrect == Spec => []TypeOK
<1>1. IInv => TypeOK
  BY DEF IInv
<1> QED BY <1>1, Invariance, PTL

\* However many triggers, gateway events and catch-ups race, one step is
\* called once at most on one reservation.
THEOREM AppelUnique == Spec => []UniciteAppel
<1>1. IInv => UniciteAppel
  BY DEF IInv
<1> QED BY <1>1, Invariance, PTL

\* However receipts and marks race, a call shown as paid is settled.
THEOREM PayeSolde == Spec => []PayeEstSolde
<1>1. IInv => PayeEstSolde
  BY DEF IInv
<1> QED BY <1>1, Invariance, PTL

\* No letter ever asks for money that no committed call backs.
THEOREM LettresAdossees == Spec => []LettreAdossee
<1>1. IInv => LettreAdossee
  BY DEF IInv
<1> QED BY <1>1, Invariance, PTL

\* No letter leaves twice.
THEOREM LettresUneFois == Spec => LettreUneFois
<1>1. IInv => \A q \in Requetes : \A c \in lettres : ~EnvoyerLettre(q, c)
  BY DEF IInv, CourriersAdosses, EnvoyerLettre, En
<1>2. IInv => [\A q \in Requetes : \A c \in lettres : ~EnvoyerLettre(q, c)]_vars
  BY <1>1
<1> QED BY <1>2, Invariance, PTL DEF LettreUneFois

(***************************************************************************)
(* Refinement: the handlers implement the debts of Creances                *)
(***************************************************************************)
Verse == [c \in Reservations \X Etapes |-> RecuDe(c[1], c[2])]

\* A step that keeps the calls, their amounts, their receipts and the letters
\* changes nothing a buyer is promised.
LEMMA Begaiement ==
    ASSUME DOMAIN appels' = DOMAIN appels,
           \A a \in DOMAIN appels : /\ appels'[a].montant = appels[a].montant
                                    /\ appels'[a].recu = appels[a].recu,
           UNCHANGED lettres
    PROVE  UNCHANGED Promesse!vars
<1>1. DettesEmises' = DettesEmises
  BY DEF DettesEmises
<1>2. DettesAnnoncees' = DettesAnnoncees
  BY DEF DettesAnnoncees
<1>3. ASSUME NEW r \in Reservations, NEW e \in Etapes
      PROVE  RecuDe(r, e)' = RecuDe(r, e)
  <2>1. AppelsDe(r, e)' = AppelsDe(r, e)
    BY DEF AppelsDe
  <2>2. CASE AppelsDe(r, e) = {}
    BY <2>1, <2>2 DEF RecuDe
  <2>3. CASE AppelsDe(r, e) # {}
    <3>1. (CHOOSE a \in AppelsDe(r, e) : TRUE) \in DOMAIN appels
      BY <2>3 DEF AppelsDe
    <3> QED BY <2>1, <2>3, <3>1 DEF RecuDe
  <2> QED BY <2>2, <2>3
<1>4. Verse' = Verse
  BY <1>3 DEF Verse
<1> QED BY <1>1, <1>2, <1>4 DEF Promesse!vars, Verse

LEMMA ValidationPromesse ==
    ASSUME TypeOK, Coherence, Coherence', TypeOK', NEW q \in Requetes,
           req[q].etat \in {"verrou", "rattrapage"},
           CleUnique(req[q].lignes),
           Inserer(q, req[q].lignes),
           UNCHANGED lettres
    PROVE  Promesse!Next
<1> DEFINE lignes == req[q].lignes
<1>1. /\ lignes \in SUBSET Ligne
      /\ \A l1, l2 \in lignes :
            l1.reservation = l2.reservation /\ l1.etape = l2.etape => l1 = l2
  BY FormeRequete DEF Coherence, LignesParCouple, TypeOK
<1>2. /\ DOMAIN appels' = DOMAIN appels \cup Cles(q, lignes)
      /\ \A a \in DOMAIN appels : appels'[a] = appels[a]
      /\ \A l \in lignes : /\ Cle(q, l) \notin DOMAIN appels
                           /\ appels'[Cle(q, l)] = NouvelAppel(l)
  BY <1>1, Insertion
<1>3. DettesEmises \subseteq DettesEmises'
  BY <1>2 DEF DettesEmises
<1>4. \A d \in DettesEmises' : Promesse!Couple(d) \in Promesse!Couples
  BY DEF DettesEmises, Promesse!Couple, Promesse!Couples, TypeOK, AppelId
<1>5. Promesse!UneParCouple(DettesEmises')
  <2> SUFFICES ASSUME NEW a \in DOMAIN appels', NEW b \in DOMAIN appels',
                      a.reservation = b.reservation, a.etape = b.etape
               PROVE  appels'[a].montant = appels'[b].montant
    BY DEF Promesse!UneParCouple, Promesse!Couple, DettesEmises
  <2> QED BY DEF Coherence, UniciteAppel
<1>6. DettesAnnoncees' = DettesAnnoncees
  BY DEF DettesAnnoncees
<1>7. ASSUME NEW r \in Reservations, NEW e \in Etapes
      PROVE  RecuDe(r, e)' = RecuDe(r, e)
  <2>1. CASE \E l \in lignes : l.reservation = r /\ l.etape = e
    <3>1. PICK l \in lignes : l.reservation = r /\ l.etape = e
      BY <2>1
    <3>2. AppelsDe(r, e) = {}
      BY <3>1 DEF CleUnique
    <3>3. AppelsDe(r, e)' = {Cle(q, l)}
      <4>1. ASSUME NEW a \in DOMAIN appels', a.reservation = r, a.etape = e
            PROVE  a = Cle(q, l)
        <5>1. a \in Cles(q, lignes)
          BY <1>2, <3>2, <4>1 DEF AppelsDe
        <5> QED BY <1>1, <3>1, <4>1, <5>1 DEF Cles, Cle
      <4>2. Cle(q, l) \in DOMAIN appels'
        BY <1>2 DEF Cles
      <4>3. Cle(q, l).reservation = r /\ Cle(q, l).etape = e
        BY <3>1 DEF Cle
      <4> QED BY <4>1, <4>2, <4>3 DEF AppelsDe
    <3>4. RecuDe(r, e)' = appels'[Cle(q, l)].recu
      BY <3>3 DEF RecuDe
    <3>5. appels'[Cle(q, l)].recu = 0
      <4>1. appels'[Cle(q, l)] = NouvelAppel(l)
        BY <1>2
      <4> QED BY <4>1 DEF NouvelAppel
    <3> QED BY <3>2, <3>4, <3>5 DEF RecuDe
  <2>2. CASE ~\E l \in lignes : l.reservation = r /\ l.etape = e
    <3>1. AppelsDe(r, e)' = AppelsDe(r, e)
      BY <1>2, <2>2 DEF AppelsDe, Cles, Cle
    <3>2. CASE AppelsDe(r, e) = {}
      BY <3>1, <3>2 DEF RecuDe
    <3>3. CASE AppelsDe(r, e) # {}
      <4>1. (CHOOSE a \in AppelsDe(r, e) : TRUE) \in DOMAIN appels
        BY <3>3 DEF AppelsDe
      <4> QED BY <1>2, <3>1, <3>3, <4>1 DEF RecuDe
    <3> QED BY <3>2, <3>3
  <2> QED BY <2>1, <2>2
<1>8. Verse' = Verse
  BY <1>7 DEF Verse
<1> QED BY <1>3, <1>4, <1>5, <1>6, <1>8 DEF Promesse!Next, Promesse!Emettre, Verse

LEMMA EnvoiPromesse ==
    ASSUME TypeOK, Coherence, NEW q \in Requetes, NEW c \in req[q].reste,
           EnvoyerLettre(q, c)
    PROVE  Promesse!Next
<1> DEFINE D(x) == [reservation |-> x.appel.reservation, etape |-> x.appel.etape,
                    montant |-> x.montant]
<1>1. /\ c.appel \in DOMAIN appels
      /\ appels[c.appel].montant = c.montant
      /\ c \notin lettres
  BY DEF EnvoyerLettre, En, Coherence, CourriersAdosses
<1>2. c \in Lettre
  BY FormeRequete DEF EnvoyerLettre, En, TypeOK
<1>3. D(c) \in DettesEmises
  BY <1>1 DEF DettesEmises
<1>4. D(c) \notin DettesAnnoncees
  <2> SUFFICES ASSUME NEW x \in lettres, D(x) = D(c) PROVE FALSE
    BY DEF DettesAnnoncees
  <2>1. x.appel \in DOMAIN appels /\ x \in Lettre
    BY DEF Coherence, LettreAdossee, TypeOK
  <2>2. /\ x.appel.reservation = c.appel.reservation
        /\ x.appel.etape = c.appel.etape
        /\ x.montant = c.montant
    OBVIOUS
  <2>3. x.appel = c.appel
    BY <1>1, <2>1, <2>2 DEF Coherence, UniciteAppel
  <2>4. x = c
    BY <1>2, <2>1, <2>2, <2>3 DEF Lettre
  <2> QED BY <1>1, <2>4
<1>5. DettesAnnoncees' = DettesAnnoncees \cup {D(c)}
  BY DEF EnvoyerLettre, DettesAnnoncees
<1>6. UNCHANGED <<DettesEmises, Verse>>
  BY DEF EnvoyerLettre, DettesEmises, Verse, RecuDe, AppelsDe
<1> QED BY <1>3, <1>4, <1>5, <1>6 DEF Promesse!Next, Promesse!Annoncer, Verse

LEMMA EncaissementPromesse ==
    ASSUME TypeOK, Coherence, NEW q \in Requetes, NEW m \in Versements,
           EnregistrerEncaissement(q, m)
    PROVE  Promesse!Next
<1> PICK a \in DOMAIN appels : a = req[q].appel
  BY DEF EnregistrerEncaissement, En, Coherence, RecuConnu
<1> DEFINE d == [reservation |-> a.reservation, etape |-> a.etape,
                 montant |-> appels[a].montant]
           k == <<a.reservation, a.etape>>
<1>1. a \in DOMAIN appels /\ a \in AppelId /\ appels[a] \in Appel
  BY DEF TypeOK
<1>2. /\ DOMAIN appels' = DOMAIN appels
      /\ \A b \in DOMAIN appels : b # a => appels'[b] = appels[b]
      /\ appels'[a].montant = appels[a].montant
      /\ appels'[a].recu = appels[a].recu + m
  BY <1>1 DEF EnregistrerEncaissement, Appel
<1>3. m \in Nat
  BY DomainesAssumption
<1>4. d \in DettesEmises /\ Promesse!Couple(d) = k
  BY <1>1 DEF DettesEmises, Promesse!Couple
<1>5. k \in Reservations \X Etapes
  BY <1>1 DEF AppelId
<1>6. AppelsDe(a.reservation, a.etape) = {a}
  BY <1>1 DEF Coherence, UniciteAppel, AppelsDe
<1>7. ASSUME NEW r \in Reservations, NEW e \in Etapes
      PROVE  AppelsDe(r, e)' = AppelsDe(r, e)
  BY <1>2 DEF AppelsDe
<1>8. /\ RecuDe(a.reservation, a.etape) = appels[a].recu
      /\ RecuDe(a.reservation, a.etape)' = appels[a].recu + m
  <2>1. AppelsDe(a.reservation, a.etape)' = {a}
    BY <1>1, <1>6, <1>7 DEF AppelId
  <2> QED BY <1>2, <1>6, <2>1 DEF RecuDe
<1>9. ASSUME NEW r \in Reservations, NEW e \in Etapes, <<r, e>> # k
      PROVE  RecuDe(r, e)' = RecuDe(r, e)
  <2>1. CASE AppelsDe(r, e) = {}
    BY <1>7, <2>1 DEF RecuDe
  <2>2. CASE AppelsDe(r, e) # {}
    <3> DEFINE b == CHOOSE x \in AppelsDe(r, e) : TRUE
    <3>1. b \in DOMAIN appels /\ b # a
      BY <1>9, <2>2 DEF AppelsDe
    <3>2. appels'[b].recu = appels[b].recu
      BY <1>2, <3>1
    <3>3. RecuDe(r, e) = appels[b].recu
      BY <2>2 DEF RecuDe
    <3>4. RecuDe(r, e)' = appels'[CHOOSE x \in AppelsDe(r, e) : TRUE].recu
      BY <1>7, <2>2 DEF RecuDe
    <3> QED BY <3>2, <3>3, <3>4
  <2> QED BY <2>1, <2>2
<1>10. Verse'[k] >= Verse[k]
  <2>1. appels[a].recu \in Nat
    BY <1>1 DEF Appel
  <2>2. k[1] = a.reservation /\ k[2] = a.etape
    OBVIOUS
  <2>3. /\ Verse[k] = RecuDe(k[1], k[2])
        /\ Verse'[k] = RecuDe(k[1], k[2])'
    BY <1>5 DEF Verse
  <2> QED BY <1>3, <1>8, <2>1, <2>2, <2>3
<1>11. Verse' = [Verse EXCEPT ![k] = Verse'[k]]
  <2>1. ASSUME NEW c \in Reservations \X Etapes, c # k
        PROVE  Verse'[c] = Verse[c]
    BY <1>9, <2>1 DEF Verse
  <2>2. /\ Verse = [c \in Reservations \X Etapes |-> Verse[c]]
        /\ Verse' = [c \in Reservations \X Etapes |-> Verse'[c]]
    BY DEF Verse
  <2> QED BY <1>5, <2>1, <2>2
<1>12. UNCHANGED <<DettesEmises, DettesAnnoncees>>
  BY <1>1, <1>2 DEF EnregistrerEncaissement, DettesEmises, DettesAnnoncees
<1> QED BY <1>4, <1>10, <1>11, <1>12 DEF Promesse!Next, Promesse!Verser, Verse

LEMMA EtapePromesse ==
    IInv /\ IInv' /\ [Next]_vars => [Promesse!Next]_(Promesse!vars)
<1> SUFFICES ASSUME IInv, IInv', [Next]_vars,
                    ~UNCHANGED Promesse!vars
             PROVE  Promesse!Next
  OBVIOUS
<1>1. TypeOK /\ Coherence /\ TypeOK' /\ Coherence'
  BY DEF IInv, Coherence
<1>2. ~UNCHANGED <<appels, lettres>>
  BY Begaiement
<1>3. ASSUME NEW q \in Requetes, Ventes(q) PROVE FALSE
  BY <1>2, <1>3 DEF Ventes, LireCreation, CreerReservation, LireReservation,
                    ModifierReservation, LireEtape, ModifierEtape
<1>4. ASSUME NEW q \in Requetes, Moteur(q) PROVE Promesse!Next
  <2>1. CASE ValiderDeclenchement(q)
    BY <1>1, <2>1, ValidationPromesse DEF ValiderDeclenchement, En
  <2>2. CASE ValiderRattrapage(q)
    BY <1>1, <2>2, ValidationPromesse DEF ValiderRattrapage, En
  <2> QED BY <1>2, <1>4, <2>1, <2>2
          DEF Moteur, AccueillirEtape, LireDeclenchement, Verrouiller, LireRattrapage, ConflitUnicite
<1>5. ASSUME NEW q \in Requetes, Envoi(q) PROVE Promesse!Next
  <2>1. ASSUME NEW c \in req[q].reste, EnvoyerLettre(q, c) PROVE Promesse!Next
    BY <1>1, <2>1, EnvoiPromesse
  <2>2. ASSUME MarquerEnvoye(q) PROVE FALSE
    <3>1. /\ DOMAIN appels' = DOMAIN appels
          /\ \A a \in DOMAIN appels : /\ appels'[a].montant = appels[a].montant
                                      /\ appels'[a].recu = appels[a].recu
          /\ UNCHANGED lettres
      BY <1>1, <2>2 DEF MarquerEnvoye, TypeOK, Appel
    <3> QED BY <3>1, Begaiement
  <2> QED BY <1>2, <1>5, <2>1, <2>2 DEF Envoi, EchecEnvoi, EchecMarquage, FinEnvoi
<1>6. ASSUME NEW q \in Requetes, Suivi(q) PROVE Promesse!Next
  <2>1. ASSUME NEW m \in Versements, EnregistrerEncaissement(q, m) PROVE Promesse!Next
    BY <1>1, <2>1, EncaissementPromesse
  <2>2. ASSUME MarquerRelance(q) PROVE FALSE
    <3>1. /\ DOMAIN appels' = DOMAIN appels
          /\ \A a \in DOMAIN appels : /\ appels'[a].montant = appels[a].montant
                                      /\ appels'[a].recu = appels[a].recu
          /\ UNCHANGED lettres
      BY <1>1, <2>2 DEF MarquerRelance, TypeOK, Appel
    <3> QED BY <3>1, Begaiement
  <2> QED BY <1>2, <1>6, <2>1, <2>2 DEF Suivi, LireEncaissement, LireRelance
<1>7. ASSUME NEW a \in DOMAIN appels, PasserEcheance(a) PROVE FALSE
  <2>1. /\ DOMAIN appels' = DOMAIN appels
        /\ \A b \in DOMAIN appels : /\ appels'[b].montant = appels[b].montant
                                    /\ appels'[b].recu = appels[b].recu
        /\ UNCHANGED lettres
    BY <1>1, <1>7 DEF PasserEcheance, TypeOK, Appel
  <2> QED BY <2>1, Begaiement
<1>8. ASSUME NEW q \in Requetes, Interrompre(q) PROVE FALSE
  BY <1>2, <1>8 DEF Interrompre
<1>9. ASSUME NEW e \in Etapes, NEW p, CreerEtape(e, p) PROVE FALSE
  BY <1>2, <1>9 DEF CreerEtape
<1>10. ASSUME NEW e \in Etapes, NEW s, ChangerAvancement(e, s) PROVE FALSE
  BY <1>2, <1>10 DEF ChangerAvancement
<1>11. ASSUME Rattacher PROVE FALSE
  BY <1>2, <1>11 DEF Rattacher
<1>12. ~UNCHANGED vars
  BY <1>2 DEF vars
<1> QED BY <1>3, <1>4, <1>5, <1>6, <1>7, <1>8, <1>9, <1>10, <1>11, <1>12 DEF Next

\* The engine, the letters and the receipts implement the debts promised to a
\* buyer: one per reservation and step, of a fixed amount, never withdrawn,
\* announced at most once, with receipts that only add up.
THEOREM Raffinement == Spec => ImplementeCreances
<1>1. Init => Promesse!Init
  BY DEF Init, Promesse!Init, DettesEmises, DettesAnnoncees, RecuDe, AppelsDe,
         Promesse!Couples
<1>2. IInv /\ IInv' /\ [Next]_vars => [Promesse!Next]_(Promesse!vars)
  BY EtapePromesse
<1> QED BY <1>1, <1>2, Invariance, PTL DEF Spec, ImplementeCreances, Promesse!Spec

(***************************************************************************)
(* One request at a time: what a call was computed from                    *)
(***************************************************************************)
UneALaFois == \A p, q \in Requetes : p = q

AssietteSaine == RangsVierges /\ AssietteLue /\ LignesAJour /\ AssietteFigee

\* A step that writes no price and no percentage, creates no call and leaves
\* its request with nothing that depends on them.
LEMMA AssietteIntacte ==
    ASSUME AssietteSaine, NEW q \in Requetes, \A p \in Requetes : p = q,
           UNCHANGED <<reservations, etapes>>,
           DOMAIN appels' = DOMAIN appels,
           \A a \in DOMAIN appels : /\ appels'[a].montant = appels[a].montant
                                    /\ appels'[a].pct = appels[a].pct,
           req'[q].etat \notin {"modification", "echeancier", "declenchement",
                               "verrou", "rattrapage"}
    PROVE  AssietteSaine'
BY DEF AssietteSaine, RangsVierges, AssietteLue, LignesAJour, AssietteFigee, En

\* A step that only reads, and has read what the rows hold.
LEMMA AssietteRelue ==
    ASSUME AssietteSaine, UNCHANGED <<reservations, etapes, appels>>,
           AssietteLue', LignesAJour'
    PROVE  AssietteSaine'
BY DEF AssietteSaine, RangsVierges, AssietteFigee

LEMMA VentesAssiette ==
    ASSUME TypeOK, AssietteSaine, NEW q \in Requetes, \A p \in Requetes : p = q,
           Ventes(q)
    PROVE  AssietteSaine'
<1>1. ASSUME NEW r \in Reservations, NEW l \in Lots, LireCreation(q, r, l)
      PROVE  AssietteSaine'
  BY <1>1, AssietteIntacte DEF LireCreation, Garder, TypeOK
<1>2. ASSUME NEW s \in StatutsSaisis, NEW p \in Prix, NEW b \in BOOLEAN,
             CreerReservation(q, s, p, b)
      PROVE  AssietteSaine'
  <2> DEFINE r == req[q].reservation
  <2>1. r \in Reservations /\ reservations[r].statut = "ABSENTE"
    BY <1>2, FormeRequete DEF CreerReservation, En, TypeOK
  <2>2. req'[q].etat = "libre"
    BY <1>2, Finie DEF CreerReservation, TypeOK
  <2>3. /\ reservations'[r].statut = s
        /\ \A x \in Reservations : x # r => reservations'[x] = reservations[x]
    BY <1>2, <2>1 DEF CreerReservation, TypeOK
  <2>4. s # "ABSENTE"
    BY StatutsAssumption DEF ReservationStatut
  <2>5. UNCHANGED <<etapes, appels>>
    BY <1>2 DEF CreerReservation
  <2>6. \A a \in DOMAIN appels : a.reservation # r
    BY <2>1 DEF AssietteSaine, AssietteFigee, RangsVierges
  <2>7. \A a \in DOMAIN appels : a.reservation \in Reservations
    BY DEF TypeOK, AppelId
  <2>8. RangsVierges'
    BY <2>1, <2>3, <2>4, <2>5 DEF AssietteSaine, RangsVierges
  <2>9. AssietteFigee'
    BY <2>3, <2>5, <2>6, <2>7 DEF AssietteSaine, AssietteFigee
  <2> QED BY <2>2, <2>8, <2>9 DEF AssietteSaine, AssietteLue, LignesAJour, En
<1>3. ASSUME NEW r \in Reservations, LireReservation(q, r)
      PROVE  AssietteSaine'
  <2>1. req'[q] = [etat |-> "modification", reservation |-> r,
                   lot |-> reservations[r].lot, prix |-> reservations[r].prix,
                   signe |-> reservations[r].signe, appele |-> Appelee(r)]
    BY <1>3 DEF LireReservation, Garder, TypeOK
  <2>2. UNCHANGED <<reservations, etapes, appels>> /\ reservations[r].statut # "ABSENTE"
    BY <1>3 DEF LireReservation
  <2>3. Appelee(r)' = Appelee(r)
    BY <2>2 DEF Appelee
  <2>4. AssietteLue'
    BY <2>1, <2>2, <2>3 DEF AssietteLue, En
  <2>5. LignesAJour'
    BY <2>1 DEF LignesAJour
  <2> QED BY <2>2, <2>4, <2>5, AssietteRelue
<1>4. ASSUME NEW s \in StatutsSaisis \cup {OMIS}, NEW p \in Prix \cup {NUL, OMIS},
             NEW l \in Lots \cup {OMIS}, NEW b \in BOOLEAN \cup {OMIS},
             ModifierReservation(q, s, p, l, b)
      PROVE  AssietteSaine'
  <2> DEFINE r == req[q].reservation
  <2>1. r \in Reservations
    BY <1>4, FormeRequete DEF ModifierReservation, En, TypeOK
  <2>2. req'[q].etat = "libre"
    BY <1>4, Finie DEF ModifierReservation, TypeOK
  <2>3. /\ reservations[r].statut # "ABSENTE"
        /\ req[q].prix = reservations[r].prix
        /\ req[q].appele = Appelee(r)
    BY <1>4 DEF ModifierReservation, AssietteSaine, AssietteLue, En
  <2>4. /\ reservations'[r].statut = Donne(s, reservations[r].statut)
        /\ reservations'[r].prix = Donne(p, reservations[r].prix)
        /\ \A x \in Reservations : x # r => reservations'[x] = reservations[x]
    BY <1>4, <2>1 DEF ModifierReservation, TypeOK
  <2>5. reservations'[r].statut # "ABSENTE"
    BY <2>3, <2>4, StatutsAssumption DEF Donne, ReservationStatut
  <2>6. Appelee(r) => reservations'[r].prix = reservations[r].prix
    BY <1>4, <2>3, <2>4 DEF ModifierReservation, Donne
  <2>7. UNCHANGED <<etapes, appels>>
    BY <1>4 DEF ModifierReservation
  <2>8. \A a \in DOMAIN appels : a.reservation \in Reservations
    BY DEF TypeOK, AppelId
  <2>9. RangsVierges'
    BY <2>4, <2>5, <2>7 DEF AssietteSaine, RangsVierges
  <2>10. ASSUME NEW a \in DOMAIN appels
         PROVE  reservations'[a.reservation].prix = reservations[a.reservation].prix
    BY <2>4, <2>6, <2>8 DEF Appelee
  <2>11. AssietteFigee'
    BY <2>7, <2>10 DEF AssietteSaine, AssietteFigee
  <2> QED BY <2>2, <2>9, <2>11 DEF AssietteSaine, AssietteLue, LignesAJour, En
<1>5. ASSUME NEW e \in Etapes, LireEtape(q, e)
      PROVE  AssietteSaine'
  <2>1. req'[q] = [etat |-> "echeancier", etape |-> e, pct |-> etapes[e].pct,
                   appele |-> Tiree(e)]
    BY <1>5 DEF LireEtape, Garder, TypeOK
  <2>2. UNCHANGED <<reservations, etapes, appels>> /\ etapes[e].statut # "ABSENTE"
    BY <1>5 DEF LireEtape
  <2>3. Tiree(e)' = Tiree(e)
    BY <2>2 DEF Tiree
  <2>4. AssietteLue'
    BY <2>1, <2>2, <2>3 DEF AssietteLue, En
  <2>5. LignesAJour'
    BY <2>1 DEF LignesAJour
  <2> QED BY <2>2, <2>4, <2>5, AssietteRelue
<1>6. ASSUME NEW p \in Pourcentages \cup {NUL}, ModifierEtape(q, p)
      PROVE  AssietteSaine'
  <2> DEFINE e == req[q].etape
  <2>1. e \in Etapes
    BY <1>6, FormeRequete DEF ModifierEtape, En, TypeOK
  <2>2. req'[q].etat = "libre"
    BY <1>6, Finie DEF ModifierEtape, TypeOK
  <2>3. /\ etapes[e].statut # "ABSENTE"
        /\ req[q].pct = etapes[e].pct
        /\ req[q].appele = Tiree(e)
    BY <1>6 DEF ModifierEtape, AssietteSaine, AssietteLue, En
  <2>4. /\ etapes'[e].statut = etapes[e].statut
        /\ etapes'[e].pct = p
        /\ \A x \in Etapes : x # e => etapes'[x] = etapes[x]
    BY <1>6, <2>1 DEF ModifierEtape, TypeOK, Etape
  <2>5. Tiree(e) => etapes'[e].pct = etapes[e].pct
    BY <1>6, <2>3, <2>4 DEF ModifierEtape
  <2>6. UNCHANGED <<reservations, appels>>
    BY <1>6 DEF ModifierEtape
  <2>7. \A a \in DOMAIN appels : a.etape \in Etapes
    BY DEF TypeOK, AppelId
  <2>8. RangsVierges'
    BY <2>3, <2>4, <2>6 DEF AssietteSaine, RangsVierges
  <2>9. ASSUME NEW a \in DOMAIN appels
        PROVE  etapes'[a.etape].pct = etapes[a.etape].pct
    BY <2>4, <2>5, <2>7 DEF Tiree
  <2>10. AssietteFigee'
    BY <2>6, <2>9 DEF AssietteSaine, AssietteFigee
  <2> QED BY <2>2, <2>8, <2>10 DEF AssietteSaine, AssietteLue, LignesAJour, En
<1> QED BY <1>1, <1>2, <1>3, <1>4, <1>5, <1>6 DEF Ventes

\* The lines drawn from engaged reservations with the percentages the steps
\* hold are those of the balance.
LEMMA LignesTirees ==
    ASSUME NEW couples, NEW pct,
           \A c \in couples : /\ Engagee(reservations[c[1]].statut)
                              /\ pct[c[2]] = etapes[c[2]].pct,
           NEW l \in Lignes(couples, pct)
    PROVE  /\ Engagee(reservations[l.reservation].statut)
           /\ reservations[l.reservation].prix # NUL
           /\ l.pct = etapes[l.etape].pct
           /\ l.montant = MontantAppel(l.pct, reservations[l.reservation].prix)
<1>1. PICK c \in couples :
         /\ reservations[c[1]].prix # NUL
         /\ l = [reservation |-> c[1], etape |-> c[2], pct |-> pct[c[2]],
                 montant |-> MontantAppel(pct[c[2]], reservations[c[1]].prix)]
  BY DEF Lignes
<1>2. /\ l.reservation = c[1] /\ l.etape = c[2] /\ l.pct = pct[c[2]]
      /\ l.montant = MontantAppel(pct[c[2]], reservations[c[1]].prix)
  BY <1>1
<1> QED BY <1>1, <1>2

\* What a committed transaction inserts is computed from what the rows hold.
LEMMA ValidationAssiette ==
    ASSUME TypeOK, Coherence, AssietteSaine, NEW q \in Requetes,
           req[q].etat \in {"verrou", "rattrapage"},
           CleUnique(req[q].lignes),
           Inserer(q, req[q].lignes),
           UNCHANGED reservations,
           \A e \in Etapes : etapes'[e].pct = etapes[e].pct
    PROVE  AssietteFigee'
<1> DEFINE lignes == req[q].lignes
<1>1. /\ lignes \in SUBSET Ligne
      /\ \A l1, l2 \in lignes :
            l1.reservation = l2.reservation /\ l1.etape = l2.etape => l1 = l2
  BY FormeRequete DEF Coherence, LignesParCouple, TypeOK
<1>2. /\ DOMAIN appels' = DOMAIN appels \cup Cles(q, lignes)
      /\ DOMAIN appels' \subseteq AppelId
      /\ \A a \in DOMAIN appels : appels'[a] = appels[a]
      /\ \A l \in lignes : appels'[Cle(q, l)] = NouvelAppel(l)
  BY <1>1, Insertion
<1> SUFFICES ASSUME NEW a \in DOMAIN appels'
             PROVE  /\ reservations[a.reservation].prix # NUL
                    /\ appels'[a].montant
                          = MontantAppel(appels'[a].pct, reservations[a.reservation].prix)
                    /\ etapes[a.etape].pct = appels'[a].pct
  <2>1. \A a \in DOMAIN appels' : etapes'[a.etape].pct = etapes[a.etape].pct
    BY <1>2 DEF AppelId
  <2> QED BY <2>1 DEF AssietteFigee
<1>3. CASE a \in DOMAIN appels
  BY <1>2, <1>3 DEF AssietteSaine, AssietteFigee
<1>4. CASE a \in Cles(q, lignes)
  <2>1. PICK l \in lignes : a = Cle(q, l)
    BY <1>4 DEF Cles
  <2>2. appels'[a] = NouvelAppel(l)
    BY <1>2, <2>1
  <2>3. appels'[a].pct = l.pct /\ appels'[a].montant = l.montant
    BY <2>2 DEF NouvelAppel
  <2>4. a.reservation = l.reservation /\ a.etape = l.etape
    BY <2>1 DEF Cle
  <2>5. /\ reservations[l.reservation].prix # NUL
        /\ l.pct = etapes[l.etape].pct
        /\ l.montant = MontantAppel(l.pct, reservations[l.reservation].prix)
    BY DEF AssietteSaine, LignesAJour
  <2> QED BY <2>3, <2>4, <2>5
<1> QED BY <1>2, <1>3, <1>4

LEMMA MoteurAssiette ==
    ASSUME TypeOK, Coherence, AssietteSaine,
           NEW q \in Requetes, \A p \in Requetes : p = q, Moteur(q)
    PROVE  AssietteSaine'
<1>1. ASSUME NEW e \in Etapes, AccueillirEtape(q, e)
      PROVE  AssietteSaine'
  BY <1>1, AssietteIntacte DEF AccueillirEtape, Garder, TypeOK
<1>2. ASSUME NEW e \in Etapes, LireDeclenchement(q, e)
      PROVE  AssietteSaine'
  <2>1. req'[q] = [etat |-> "declenchement", etape |-> e, pct |-> etapes[e].pct]
    BY <1>2 DEF LireDeclenchement, Garder, TypeOK
  <2>2. UNCHANGED <<reservations, etapes, appels>> /\ etapes[e].statut # "ABSENTE"
    BY <1>2 DEF LireDeclenchement
  <2>3. AssietteLue' /\ LignesAJour'
    BY <2>1, <2>2 DEF AssietteLue, LignesAJour, En
  <2> QED BY <2>2, <2>3, AssietteRelue
<1>3. ASSUME Verrouiller(q)
      PROVE  AssietteSaine'
  <2> DEFINE e == req[q].etape
             engagees == {r \in Reservations : Engagee(reservations[r].statut)}
             pct == [x \in {e} |-> req[q].pct]
             tirees == Lignes(engagees \X {e}, pct)
             lignes == IF req[q].pct = NUL THEN {} ELSE tirees
  <2>1. req[q].pct = etapes[e].pct
    BY <1>3 DEF Verrouiller, AssietteSaine, AssietteLue, En
  <2>2. UNCHANGED <<reservations, etapes, appels>>
    BY <1>3 DEF Verrouiller
  <2>3. req'[q] = [etat |-> "verrou", etape |-> e, lignes |-> lignes]
    BY <1>3 DEF Verrouiller, Garder, TypeOK
  <2>4. ASSUME NEW l \in tirees
        PROVE  /\ Engagee(reservations[l.reservation].statut)
               /\ reservations[l.reservation].prix # NUL
               /\ l.pct = etapes[l.etape].pct
               /\ l.montant = MontantAppel(l.pct, reservations[l.reservation].prix)
    <3>1. \A c \in engagees \X {e} : /\ Engagee(reservations[c[1]].statut)
                                     /\ pct[c[2]] = etapes[c[2]].pct
      BY <2>1
    <3> HIDE DEF engagees, pct
    <3> QED BY <3>1, LignesTirees
  <2> HIDE DEF tirees
  <2>5. LignesAJour'
    BY <2>2, <2>3, <2>4 DEF LignesAJour
  <2>6. AssietteLue'
    BY <2>3 DEF AssietteLue, En
  <2> QED BY <2>2, <2>5, <2>6, AssietteRelue
<1>4. ASSUME NEW r \in Reservations, NEW choix \in SUBSET Etapes,
             LireRattrapage(q, r, choix)
      PROVE  AssietteSaine'
  <2> DEFINE pct == [e \in choix |-> etapes[e].pct]
             lignes == Lignes({r} \X choix, pct)
  <2>1. Engagee(reservations[r].statut) /\ UNCHANGED <<reservations, etapes, appels>>
    BY <1>4 DEF LireRattrapage
  <2>2. req'[q] = [etat |-> "rattrapage", lignes |-> lignes]
    BY <1>4 DEF LireRattrapage, Garder, TypeOK
  <2>3. ASSUME NEW l \in lignes
        PROVE  /\ Engagee(reservations[l.reservation].statut)
               /\ reservations[l.reservation].prix # NUL
               /\ l.pct = etapes[l.etape].pct
               /\ l.montant = MontantAppel(l.pct, reservations[l.reservation].prix)
    <3>1. \A c \in {r} \X choix : /\ Engagee(reservations[c[1]].statut)
                                  /\ pct[c[2]] = etapes[c[2]].pct
      BY <2>1
    <3> HIDE DEF pct
    <3> QED BY <3>1, LignesTirees
  <2> HIDE DEF lignes
  <2>4. LignesAJour'
    BY <2>1, <2>2, <2>3 DEF LignesAJour
  <2>5. AssietteLue'
    BY <2>2 DEF AssietteLue, En
  <2> QED BY <2>1, <2>4, <2>5, AssietteRelue
<1>5. ASSUME req[q].etat \in {"verrou", "rattrapage"},
             PuisEnvoyer(q, req[q].lignes)
      PROVE  req'[q].etat \in {"envoi", "libre"}
  <2>1. req[q].lignes \in SUBSET Ligne
    BY <1>5, FormeRequete DEF TypeOK
  <2>2. \/ req'[q] = [etat |-> "envoi", reste |-> Courriers(q, req[q].lignes)]
        \/ req'[q].etat = "libre"
    BY <1>5, <2>1, Suite
  <2> QED BY <2>2
<1>6. ASSUME ValiderDeclenchement(q)
      PROVE  AssietteSaine'
  <2>1. req[q].etape \in Etapes
    BY <1>6, FormeRequete DEF ValiderDeclenchement, En, TypeOK
  <2>2. \A e \in Etapes : /\ etapes'[e].pct = etapes[e].pct
                          /\ etapes'[e].statut = "ABSENTE" => etapes[e].statut = "ABSENTE"
    BY <1>6, <2>1 DEF ValiderDeclenchement, TypeOK, Etape
  <2>3. AssietteFigee'
    BY <1>6, <2>2, ValidationAssiette DEF ValiderDeclenchement, En
  <2>4. RangsVierges'
    BY <1>6, <2>2 DEF ValiderDeclenchement, AssietteSaine, RangsVierges
  <2>5. AssietteLue' /\ LignesAJour'
    BY <1>5, <1>6 DEF ValiderDeclenchement, AssietteLue, LignesAJour, En
  <2> QED BY <2>3, <2>4, <2>5 DEF AssietteSaine
<1>7. ASSUME ValiderRattrapage(q)
      PROVE  AssietteSaine'
  <2>1. AssietteFigee'
    BY <1>7, ValidationAssiette DEF ValiderRattrapage, En
  <2>2. RangsVierges'
    BY <1>7 DEF ValiderRattrapage, AssietteSaine, RangsVierges
  <2>3. AssietteLue' /\ LignesAJour'
    BY <1>5, <1>7 DEF ValiderRattrapage, AssietteLue, LignesAJour, En
  <2> QED BY <2>1, <2>2, <2>3 DEF AssietteSaine
<1>8. ASSUME ConflitUnicite(q)
      PROVE  AssietteSaine'
  BY <1>8, AssietteIntacte, Finie DEF ConflitUnicite, TypeOK
<1> QED BY <1>1, <1>2, <1>3, <1>4, <1>6, <1>7, <1>8 DEF Moteur

LEMMA EnvoiAssiette ==
    ASSUME TypeOK, AssietteSaine, NEW q \in Requetes, \A p \in Requetes : p = q,
           Envoi(q)
    PROVE  AssietteSaine'
<1>1. req'[q].etat \in {"libre", "envoi", "marquage"}
  BY DEF Envoi, EnvoyerLettre, EchecEnvoi, MarquerEnvoye, EchecMarquage, FinEnvoi,
         Finir, Libre, Garder, TypeOK
<1>2. UNCHANGED <<reservations, etapes>>
  BY DEF Envoi, EnvoyerLettre, EchecEnvoi, MarquerEnvoye, EchecMarquage, FinEnvoi
<1>3. CASE MarquerEnvoye(q)
  <2>1. /\ DOMAIN appels' = DOMAIN appels
        /\ \A a \in DOMAIN appels : /\ appels'[a].montant = appels[a].montant
                                    /\ appels'[a].pct = appels[a].pct
    BY <1>3 DEF MarquerEnvoye, TypeOK, Appel
  <2> QED BY <1>1, <1>2, <2>1, AssietteIntacte
<1>4. CASE UNCHANGED appels
  BY <1>1, <1>2, <1>4, AssietteIntacte
<1> QED BY <1>3, <1>4 DEF Envoi, EnvoyerLettre, EchecEnvoi, EchecMarquage, FinEnvoi

LEMMA SuiviAssiette ==
    ASSUME TypeOK, AssietteSaine, NEW q \in Requetes, \A p \in Requetes : p = q,
           Suivi(q)
    PROVE  AssietteSaine'
<1>1. req'[q].etat \in {"libre", "encaissement", "relance"}
  <2>1. ASSUME NEW a \in DOMAIN appels, LireEncaissement(q, a) PROVE <1>1
    BY <2>1 DEF LireEncaissement, Garder, TypeOK
  <2>2. ASSUME NEW a \in DOMAIN appels, LireRelance(q, a) PROVE <1>1
    BY <2>2 DEF LireRelance, Garder, TypeOK
  <2>3. ASSUME Finir(q) PROVE <1>1
    BY <2>3, Finie DEF TypeOK
  <2> QED BY <2>1, <2>2, <2>3 DEF Suivi, EnregistrerEncaissement, MarquerRelance
<1>2. UNCHANGED <<reservations, etapes>>
  BY DEF Suivi, LireEncaissement, LireRelance, EnregistrerEncaissement, MarquerRelance
<1>3. /\ DOMAIN appels' = DOMAIN appels
      /\ \A a \in DOMAIN appels : /\ appels'[a].montant = appels[a].montant
                                  /\ appels'[a].pct = appels[a].pct
  <2>1. ASSUME NEW m \in Versements, EnregistrerEncaissement(q, m) PROVE <1>3
    BY <2>1 DEF EnregistrerEncaissement, TypeOK, Appel
  <2>2. ASSUME MarquerRelance(q) PROVE <1>3
    BY <2>2 DEF MarquerRelance, TypeOK, Appel
  <2> QED BY <2>1, <2>2 DEF Suivi, LireEncaissement, LireRelance
<1> QED BY <1>1, <1>2, <1>3, AssietteIntacte

LEMMA StepAssiette ==
    UneALaFois /\ TypeOK /\ Coherence /\ AssietteSaine /\ [Next]_vars => AssietteSaine'
<1> SUFFICES ASSUME UneALaFois, TypeOK, Coherence, AssietteSaine, [Next]_vars
             PROVE  AssietteSaine'
  OBVIOUS
<1>1. ASSUME NEW q \in Requetes, Interrompre(q) PROVE AssietteSaine'
  BY <1>1, AssietteIntacte, Finie DEF Interrompre, TypeOK, UneALaFois
<1>2. ASSUME NEW e \in Etapes, NEW p \in Pourcentages \cup {NUL}, CreerEtape(e, p)
      PROVE  AssietteSaine'
  <2>1. /\ etapes[e].statut = "ABSENTE" /\ etapes[e].pct = NUL
        /\ etapes'[e].statut # "ABSENTE"
        /\ \A x \in Etapes : x # e => etapes'[x] = etapes[x]
        /\ UNCHANGED <<reservations, appels, req>>
    BY <1>2 DEF CreerEtape, TypeOK, AssietteSaine, RangsVierges
  <2>2. RangsVierges'
    BY <2>1 DEF AssietteSaine, RangsVierges
  <2>3. AssietteLue'
    <3>1. ASSUME NEW q \in Requetes, req[q].etat \in {"echeancier", "declenchement"}
          PROVE  /\ req[q].etape \in Etapes
                 /\ etapes[req[q].etape].statut # "ABSENTE"
                 /\ etapes'[req[q].etape] = etapes[req[q].etape]
      BY <2>1, <3>1, FormeRequete DEF AssietteSaine, AssietteLue, En, TypeOK
    <3>2. \A r : Appelee(r)' = Appelee(r) /\ Tiree(r)' = Tiree(r)
      BY <2>1 DEF Appelee, Tiree
    <3> QED BY <2>1, <3>1, <3>2 DEF AssietteSaine, AssietteLue, En
  <2>4. ASSUME NEW x \in Etapes, NEW n \in Nat, etapes[x].pct = n
        PROVE  etapes'[x] = etapes[x]
    BY <2>1, <2>4, DomainesAssumption
  <2>5. LignesAJour'
    <3>1. ASSUME NEW q \in Requetes, req[q].etat \in {"verrou", "rattrapage"},
                 NEW l \in req[q].lignes
          PROVE  etapes'[l.etape].pct = etapes[l.etape].pct
      <4>1. l \in Ligne
        BY <3>1, FormeRequete DEF TypeOK
      <4>2. l.etape \in Etapes /\ l.pct \in Nat /\ l.pct = etapes[l.etape].pct
        BY <3>1, <4>1 DEF Ligne, AssietteSaine, LignesAJour
      <4> QED BY <2>4, <4>2
    <3> QED BY <2>1, <3>1 DEF AssietteSaine, LignesAJour
  <2>6. AssietteFigee'
    <3>1. ASSUME NEW a \in DOMAIN appels
          PROVE  etapes'[a.etape].pct = etapes[a.etape].pct
      <4>1. a.etape \in Etapes /\ appels[a].pct \in Nat
        BY DEF TypeOK, AppelId, Appel
      <4>2. etapes[a.etape].pct = appels[a].pct
        BY DEF AssietteSaine, AssietteFigee
      <4> QED BY <2>4, <4>1, <4>2
    <3> QED BY <2>1, <3>1 DEF AssietteSaine, AssietteFigee
  <2> QED BY <2>2, <2>3, <2>5, <2>6 DEF AssietteSaine
<1>3. ASSUME UNCHANGED <<reservations, req>>,
             \A e \in Etapes : /\ etapes'[e].pct = etapes[e].pct
                               /\ etapes'[e].statut = "ABSENTE" <=> etapes[e].statut = "ABSENTE",
             DOMAIN appels' = DOMAIN appels,
             \A a \in DOMAIN appels : /\ appels'[a].montant = appels[a].montant
                                      /\ appels'[a].pct = appels[a].pct
      PROVE  AssietteSaine'
  <2>1. RangsVierges'
    BY <1>3 DEF AssietteSaine, RangsVierges
  <2>2. AssietteLue'
    <3>1. \A q \in Requetes : req[q].etat \in {"echeancier", "declenchement"}
                                => req[q].etape \in Etapes
      BY FormeRequete DEF TypeOK
    <3>2. \A r : Appelee(r)' = Appelee(r) /\ Tiree(r)' = Tiree(r)
      BY <1>3 DEF Appelee, Tiree
    <3> QED BY <1>3, <3>1, <3>2 DEF AssietteSaine, AssietteLue, En
  <2>3. LignesAJour'
    <3>1. \A q \in Requetes : req[q].etat \in {"verrou", "rattrapage"}
                                => \A l \in req[q].lignes : l.etape \in Etapes
      BY FormeRequete DEF TypeOK, Ligne
    <3> QED BY <1>3, <3>1 DEF AssietteSaine, LignesAJour
  <2>4. AssietteFigee'
    <3>1. \A a \in DOMAIN appels : a.etape \in Etapes
      BY DEF TypeOK, AppelId
    <3> QED BY <1>3, <3>1 DEF AssietteSaine, AssietteFigee
  <2> QED BY <2>1, <2>2, <2>3, <2>4 DEF AssietteSaine
<1>4. ASSUME NEW e \in Etapes, NEW s \in EtapeStatut \ {"COMPLETED"},
             ChangerAvancement(e, s)
      PROVE  AssietteSaine'
  <2>1. \A x \in Etapes : /\ etapes'[x].pct = etapes[x].pct
                          /\ etapes'[x].statut = "ABSENTE" <=> etapes[x].statut = "ABSENTE"
    BY <1>4 DEF ChangerAvancement, TypeOK, Etape, EtapeStatut
  <2> QED BY <1>3, <1>4, <2>1 DEF ChangerAvancement
<1>5. ASSUME Rattacher PROVE AssietteSaine'
  BY <1>3, <1>5 DEF Rattacher
<1>6. ASSUME NEW a \in DOMAIN appels, PasserEcheance(a) PROVE AssietteSaine'
  <2>1. /\ DOMAIN appels' = DOMAIN appels
        /\ \A b \in DOMAIN appels : /\ appels'[b].montant = appels[b].montant
                                    /\ appels'[b].pct = appels[b].pct
    BY <1>6 DEF PasserEcheance, TypeOK, Appel
  <2> QED BY <1>3, <1>6, <2>1 DEF PasserEcheance
<1>7. CASE UNCHANGED vars
  BY <1>3, <1>7 DEF vars
<1> QED BY VentesAssiette, MoteurAssiette, EnvoiAssiette, SuiviAssiette,
           <1>1, <1>2, <1>4, <1>5, <1>6, <1>7 DEF Next, UneALaFois

(***************************************************************************)
(* One request at a time: what a call has received                         *)
(***************************************************************************)
RecuSain == RecuLu /\ StatutSelonRecu

\* A step that leaves the calls alone and its request without a receipt, a
\* reminder or a letter.
LEMMA RecuIntact ==
    ASSUME RecuSain, NEW q \in Requetes, \A p \in Requetes : p = q,
           UNCHANGED appels,
           req'[q].etat \notin {"encaissement", "relance", "marquage", "envoi"}
    PROVE  RecuSain'
BY DEF RecuSain, RecuLu, StatutSelonRecu, En

LEMMA VentesRecu ==
    ASSUME TypeOK, RecuSain, NEW q \in Requetes, \A p \in Requetes : p = q, Ventes(q)
    PROVE  RecuSain'
<1>1. UNCHANGED appels
  BY DEF Ventes, LireCreation, CreerReservation, LireReservation, ModifierReservation,
         LireEtape, ModifierEtape
<1>2. req'[q].etat \in {"libre", "creation", "modification", "echeancier"}
  <2>1. CASE Finir(q)
    BY <2>1, Finie DEF TypeOK
  <2>2. ASSUME NEW r \in Reservations, NEW l \in Lots, LireCreation(q, r, l) PROVE <1>2
    BY <2>2 DEF LireCreation, Garder, TypeOK
  <2>3. ASSUME NEW r \in Reservations, LireReservation(q, r) PROVE <1>2
    BY <2>3 DEF LireReservation, Garder, TypeOK
  <2>4. ASSUME NEW e \in Etapes, LireEtape(q, e) PROVE <1>2
    BY <2>4 DEF LireEtape, Garder, TypeOK
  <2> QED BY <2>1, <2>2, <2>3, <2>4
          DEF Ventes, CreerReservation, ModifierReservation, ModifierEtape
<1> QED BY <1>1, <1>2, RecuIntact

\* What a transaction inserts has received nothing, and so have the calls its
\* letters announce.
LEMMA ValidationRecu ==
    ASSUME TypeOK, Coherence, RecuSain, NEW q \in Requetes, \A p \in Requetes : p = q,
           req[q].etat \in {"verrou", "rattrapage"},
           CleUnique(req[q].lignes),
           Inserer(q, req[q].lignes),
           PuisEnvoyer(q, req[q].lignes)
    PROVE  RecuSain'
<1> DEFINE lignes == req[q].lignes
<1>1. /\ lignes \in SUBSET Ligne
      /\ \A l1, l2 \in lignes :
            l1.reservation = l2.reservation /\ l1.etape = l2.etape => l1 = l2
  BY FormeRequete DEF Coherence, LignesParCouple, TypeOK
<1>2. /\ DOMAIN appels' = DOMAIN appels \cup Cles(q, lignes)
      /\ \A a \in DOMAIN appels : appels'[a] = appels[a]
      /\ \A l \in lignes : appels'[Cle(q, l)] = NouvelAppel(l)
  BY <1>1, Insertion
<1>3. \A l \in lignes : /\ appels'[Cle(q, l)].recu = 0
                        /\ appels'[Cle(q, l)].statut = "EMIS"
  <2>1. \A l \in lignes : NouvelAppel(l).recu = 0 /\ NouvelAppel(l).statut = "EMIS"
    BY DEF NouvelAppel
  <2> QED BY <1>2, <2>1
<1>4. StatutSelonRecu'
  <2> SUFFICES ASSUME NEW a \in DOMAIN appels'
               PROVE  /\ appels'[a].recu > 0 /\ appels'[a].recu >= appels'[a].montant
                            => appels'[a].statut = "PAYE"
                      /\ appels'[a].statut = "EN_RETARD"
                            => appels'[a].echu /\ appels'[a].recu < appels'[a].montant
    BY DEF StatutSelonRecu
  <2>1. CASE a \in DOMAIN appels
    BY <1>2, <2>1 DEF RecuSain, StatutSelonRecu
  <2>2. CASE a \in Cles(q, lignes)
    BY <1>3, <2>2 DEF Cles
  <2> QED BY <1>2, <2>1, <2>2
<1>5. \/ req'[q] = [etat |-> "envoi", reste |-> Courriers(q, lignes)]
      \/ req'[q].etat = "libre"
  BY <1>1, Suite
<1>6. RecuLu'
  <2>1. CASE req'[q].etat = "libre"
    BY <2>1 DEF RecuLu, En
  <2>2. CASE req'[q] = [etat |-> "envoi", reste |-> Courriers(q, lignes)]
    <3>1. \A c \in req'[q].reste : appels'[c.appel].recu = 0
      BY <1>3, <2>2 DEF Courriers
    <3>2. req'[q].etat = "envoi"
      BY <2>2
    <3> QED BY <3>1, <3>2 DEF RecuLu, En
  <2> QED BY <1>5, <2>1, <2>2
<1> QED BY <1>4, <1>6 DEF RecuSain

LEMMA MoteurRecu ==
    ASSUME TypeOK, Coherence, RecuSain,
           NEW q \in Requetes, \A p \in Requetes : p = q, Moteur(q)
    PROVE  RecuSain'
<1>1. ASSUME NEW e \in Etapes, AccueillirEtape(q, e) PROVE RecuSain'
  BY <1>1, RecuIntact DEF AccueillirEtape, Garder, TypeOK
<1>2. ASSUME NEW e \in Etapes, LireDeclenchement(q, e) PROVE RecuSain'
  BY <1>2, RecuIntact DEF LireDeclenchement, Garder, TypeOK
<1>3. ASSUME Verrouiller(q) PROVE RecuSain'
  BY <1>3, VerrouillerLignes, RecuIntact DEF Verrouiller, Coherence
<1>4. ASSUME NEW r \in Reservations, NEW choix \in SUBSET Etapes,
             LireRattrapage(q, r, choix)
      PROVE  RecuSain'
  BY <1>4, LireRattrapageLignes, RecuIntact DEF LireRattrapage, Coherence
<1>5. ASSUME ValiderDeclenchement(q) PROVE RecuSain'
  BY <1>5, ValidationRecu DEF ValiderDeclenchement, En
<1>6. ASSUME ValiderRattrapage(q) PROVE RecuSain'
  BY <1>6, ValidationRecu DEF ValiderRattrapage, En
<1>7. ASSUME ConflitUnicite(q) PROVE RecuSain'
  BY <1>7, RecuIntact, Finie DEF ConflitUnicite, TypeOK
<1> QED BY <1>1, <1>2, <1>3, <1>4, <1>5, <1>6, <1>7 DEF Moteur

LEMMA EnvoiRecu ==
    ASSUME TypeOK, Coherence, RecuSain,
           NEW q \in Requetes, \A p \in Requetes : p = q, Envoi(q)
    PROVE  RecuSain'
<1>1. ASSUME req[q].etat \in {"envoi", "marquage"}, NEW S \in SUBSET req[q].reste,
             Garder(q, [etat |-> "envoi", reste |-> S]),
             \A c \in req[q].reste : appels'[c.appel].recu = 0,
             StatutSelonRecu'
      PROVE  RecuSain'
  <2>1. req'[q].etat = "envoi" /\ req'[q].reste = S
    BY <1>1 DEF Garder, TypeOK
  <2> QED BY <1>1, <2>1 DEF RecuSain, RecuLu, En
<1>2. ASSUME NEW c \in req[q].reste, EnvoyerLettre(q, c) PROVE RecuSain'
  <2>1. /\ req'[q].etat = "marquage" /\ req'[q].appel = c.appel
        /\ req'[q].reste = req[q].reste \ {c}
    BY <1>2 DEF EnvoyerLettre, Garder, TypeOK
  <2>2. c.appel \in DOMAIN appels
    BY <1>2 DEF EnvoyerLettre, En, Coherence, CourriersAdosses
  <2>3. \A d \in req[q].reste : appels[d.appel].recu = 0
    BY <1>2 DEF EnvoyerLettre, En, RecuSain, RecuLu
  <2>4. UNCHANGED appels
    BY <1>2 DEF EnvoyerLettre
  <2> QED BY <2>1, <2>2, <2>3, <2>4 DEF RecuSain, RecuLu, StatutSelonRecu, En
<1>3. ASSUME req[q].etat \in {"envoi", "marquage"}, UNCHANGED appels
      PROVE  /\ \A c \in req[q].reste : appels'[c.appel].recu = 0
             /\ StatutSelonRecu'
  BY <1>3 DEF RecuSain, RecuLu, StatutSelonRecu
<1>4. ASSUME NEW c \in req[q].reste, EchecEnvoi(q, c) PROVE RecuSain'
  BY <1>1, <1>3, <1>4 DEF EchecEnvoi, En
<1>5. ASSUME EchecMarquage(q) PROVE RecuSain'
  BY <1>1, <1>3, <1>5 DEF EchecMarquage, En
<1>6. ASSUME MarquerEnvoye(q) PROVE RecuSain'
  <2> DEFINE a == req[q].appel
  <2>1. a \in DOMAIN appels /\ appels[a].recu = 0
    BY <1>6 DEF MarquerEnvoye, En, RecuSain, RecuLu
  <2>2. /\ DOMAIN appels' = DOMAIN appels
        /\ \A b \in DOMAIN appels : b # a => appels'[b] = appels[b]
        /\ appels'[a].statut = "ENVOYE" /\ appels'[a].recu = appels[a].recu
    BY <1>6, <2>1 DEF MarquerEnvoye, TypeOK, Appel
  <2>3. StatutSelonRecu'
    BY <2>1, <2>2 DEF RecuSain, StatutSelonRecu
  <2>4. \A c \in req[q].reste : c.appel \in DOMAIN appels /\ appels[c.appel].recu = 0
    BY <1>6 DEF MarquerEnvoye, En, RecuSain, RecuLu, Coherence, CourriersAdosses
  <2>5. \A c \in req[q].reste : appels'[c.appel].recu = 0
    BY <2>1, <2>2, <2>4
  <2> QED BY <1>1, <1>6, <2>3, <2>5 DEF MarquerEnvoye, En
<1>7. ASSUME FinEnvoi(q) PROVE RecuSain'
  BY <1>7, RecuIntact, Finie DEF FinEnvoi, TypeOK
<1> QED BY <1>2, <1>4, <1>5, <1>6, <1>7 DEF Envoi

LEMMA SuiviRecu ==
    ASSUME TypeOK, Coherence, RecuSain,
           NEW q \in Requetes, \A p \in Requetes : p = q, Suivi(q)
    PROVE  RecuSain'
<1>1. ASSUME NEW a \in DOMAIN appels, LireEncaissement(q, a) PROVE RecuSain'
  <2>1. /\ req'[q].etat = "encaissement" /\ req'[q].appel = a
        /\ req'[q].recu = appels[a].recu
        /\ UNCHANGED appels
    BY <1>1 DEF LireEncaissement, Garder, TypeOK
  <2> QED BY <2>1 DEF RecuSain, RecuLu, StatutSelonRecu, En
<1>2. ASSUME NEW a \in DOMAIN appels, LireRelance(q, a) PROVE RecuSain'
  <2>1. /\ req'[q].etat = "relance" /\ req'[q].appel = a
        /\ req'[q].enRetard = EnRetard(a)
        /\ ~Solde(a, appels[a].recu)
        /\ UNCHANGED appels
    BY <1>2 DEF LireRelance, Garder, TypeOK
  <2>2. appels[a].recu < appels[a].montant
    BY <2>1 DEF Solde, TypeOK, Appel
  <2>3. req'[q].enRetard => appels[a].echu
    BY <2>1 DEF EnRetard
  <2> QED BY <2>1, <2>2, <2>3 DEF RecuSain, RecuLu, StatutSelonRecu, En
<1>3. ASSUME NEW m \in Versements, EnregistrerEncaissement(q, m) PROVE RecuSain'
  <2> DEFINE a == req[q].appel
  <2>1. a \in DOMAIN appels /\ req[q].recu = appels[a].recu /\ appels[a] \in Appel
    BY <1>3 DEF EnregistrerEncaissement, En, RecuSain, RecuLu, Coherence, RecuConnu, TypeOK
  <2>2. /\ DOMAIN appels' = DOMAIN appels
        /\ \A b \in DOMAIN appels : b # a => appels'[b] = appels[b]
        /\ appels'[a].montant = appels[a].montant
        /\ appels'[a].recu = appels[a].recu + m
        /\ appels'[a].statut = IF appels[a].recu + m >= appels[a].montant
                              THEN "PAYE" ELSE "PARTIELLEMENT_PAYE"
    BY <1>3, <2>1 DEF EnregistrerEncaissement, Solde, Appel
  <2>3. StatutSelonRecu'
    BY <2>1, <2>2 DEF RecuSain, StatutSelonRecu
  <2>4. req'[q].etat = "libre"
    BY <1>3, Finie DEF EnregistrerEncaissement, TypeOK
  <2> QED BY <2>3, <2>4 DEF RecuSain, RecuLu, En
<1>4. ASSUME MarquerRelance(q) PROVE RecuSain'
  <2> DEFINE a == req[q].appel
  <2>1. /\ a \in DOMAIN appels /\ appels[a].recu < appels[a].montant
        /\ req[q].enRetard => appels[a].echu
        /\ appels[a] \in Appel
    BY <1>4 DEF MarquerRelance, En, RecuSain, RecuLu, TypeOK
  <2>2. StatutSelonRecu'
    <3>1. CASE req[q].enRetard
      <4>1. /\ DOMAIN appels' = DOMAIN appels
            /\ \A b \in DOMAIN appels : b # a => appels'[b] = appels[b]
            /\ appels'[a].montant = appels[a].montant
            /\ appels'[a].recu = appels[a].recu
            /\ appels'[a].echu = appels[a].echu
        BY <1>4, <2>1, <3>1 DEF MarquerRelance, Appel
      <4>2. appels[a].recu \in Nat /\ appels[a].montant \in Nat
        BY <2>1 DEF Appel
      <4> QED BY <2>1, <3>1, <4>1, <4>2 DEF RecuSain, StatutSelonRecu
    <3>2. CASE ~req[q].enRetard
      BY <1>4, <3>2 DEF MarquerRelance, RecuSain, StatutSelonRecu
    <3> QED BY <3>1, <3>2
  <2>3. req'[q].etat = "libre"
    BY <1>4, Finie DEF MarquerRelance, TypeOK
  <2> QED BY <2>2, <2>3 DEF RecuSain, RecuLu, En
<1> QED BY <1>1, <1>2, <1>3, <1>4 DEF Suivi

LEMMA StepRecu ==
    UneALaFois /\ TypeOK /\ Coherence /\ RecuSain /\ [Next]_vars => RecuSain'
<1> SUFFICES ASSUME UneALaFois, TypeOK, Coherence, RecuSain, [Next]_vars
             PROVE  RecuSain'
  OBVIOUS
<1>1. ASSUME NEW q \in Requetes, Interrompre(q) PROVE RecuSain'
  BY <1>1, RecuIntact, Finie DEF Interrompre, TypeOK, UneALaFois
<1>2. ASSUME UNCHANGED <<appels, req>> PROVE RecuSain'
  BY <1>2 DEF RecuSain, RecuLu, StatutSelonRecu, En
<1>3. ASSUME NEW e \in Etapes, NEW p, CreerEtape(e, p) PROVE RecuSain'
  BY <1>2, <1>3 DEF CreerEtape
<1>4. ASSUME NEW e \in Etapes, NEW s, ChangerAvancement(e, s) PROVE RecuSain'
  BY <1>2, <1>4 DEF ChangerAvancement
<1>5. ASSUME Rattacher PROVE RecuSain'
  BY <1>2, <1>5 DEF Rattacher
<1>6. ASSUME NEW a \in DOMAIN appels, PasserEcheance(a) PROVE RecuSain'
  <2>1. /\ DOMAIN appels' = DOMAIN appels
        /\ \A b \in DOMAIN appels : /\ appels'[b].montant = appels[b].montant
                                    /\ appels'[b].recu = appels[b].recu
                                    /\ appels'[b].statut = appels[b].statut
                                    /\ appels[b].echu => appels'[b].echu
        /\ UNCHANGED req
    BY <1>6 DEF PasserEcheance, TypeOK, Appel
  <2>2. StatutSelonRecu'
    BY <2>1 DEF RecuSain, StatutSelonRecu
  <2>3. RecuLu'
    <3>1. \A q \in Requetes : En(q, "encaissement") => req[q].appel \in DOMAIN appels
      BY DEF Coherence, RecuConnu
    <3>2. \A q \in Requetes : req[q].etat \in {"envoi", "marquage"} =>
             \A c \in req[q].reste : c.appel \in DOMAIN appels
      BY DEF Coherence, CourriersAdosses
    <3> QED BY <2>1, <3>1, <3>2 DEF RecuSain, RecuLu, En
  <2> QED BY <2>2, <2>3 DEF RecuSain
<1>7. CASE UNCHANGED vars
  BY <1>2, <1>7 DEF vars
<1> QED BY VentesRecu, MoteurRecu, EnvoiRecu, SuiviRecu,
           <1>1, <1>3, <1>4, <1>5, <1>6, <1>7 DEF Next, UneALaFois

(***************************************************************************)
(* Theorems of requests that do not overlap                                *)
(***************************************************************************)
\* The inductive invariant: what a request has read is what the rows hold.
THEOREM InvarianceSequentielle ==
    ASSUME UneALaFois
    PROVE  Spec => []SInv
<1>1. Init => SInv
  <2> SUFFICES ASSUME Init PROVE SInv
    OBVIOUS
  <2>1. IInv
    BY InitType, InitCoherence DEF IInv, Coherence
  <2> QED BY <2>1 DEF Init, Absente, Libre, En, SInv, RangsVierges, AssietteLue,
                      LignesAJour, RecuLu, AssietteFigee, StatutSelonRecu
<1>2. SInv /\ [Next]_vars => SInv'
  BY StepType, StepCoherence, StepAssiette, StepRecu
     DEF SInv, IInv, Coherence, AssietteSaine, RecuSain
<1> QED BY <1>1, <1>2, PTL DEF Spec

\* The amount of every call stays the one its step's percentage and its
\* reservation's price give: neither moves once a call was made.
THEOREM AssiettesFigees ==
    ASSUME UneALaFois
    PROVE  Spec => []AssietteFigee
<1>1. SInv => AssietteFigee
  BY DEF SInv
<1> QED BY <1>1, InvarianceSequentielle, PTL

\* The status of every call follows what it has received.
THEOREM StatutsJustes ==
    ASSUME UneALaFois
    PROVE  Spec => []StatutSelonRecu
<1>1. SInv => StatutSelonRecu
  BY DEF SInv
<1> QED BY <1>1, InvarianceSequentielle, PTL

\* A step never puts a call on a reservation that is not engaged.
LEMMA EtapeEngagee ==
    ASSUME SInv, [Next]_vars, NEW a \in DOMAIN appels' \ DOMAIN appels
    PROVE  reservations[a.reservation].statut \in {"RESERVE", "FONDS_VERSES", "VENDU"}
<1>1. ASSUME NEW q \in Requetes, req[q].etat \in {"verrou", "rattrapage"},
             Inserer(q, req[q].lignes)
      PROVE  reservations[a.reservation].statut \in {"RESERVE", "FONDS_VERSES", "VENDU"}
  <2>1. a \in Cles(q, req[q].lignes)
    BY <1>1 DEF Inserer
  <2>2. PICK l \in req[q].lignes : a.reservation = l.reservation
    BY <2>1 DEF Cles, Cle
  <2> QED BY <1>1, <2>2 DEF SInv, LignesAJour, Engagee, StatutsEngages
<1>2. DOMAIN appels' # DOMAIN appels
  OBVIOUS
<1>3. ASSUME NEW q \in Requetes, Ventes(q) PROVE FALSE
  BY <1>2, <1>3 DEF Ventes, LireCreation, CreerReservation, LireReservation,
                    ModifierReservation, LireEtape, ModifierEtape
<1>4. ASSUME NEW q \in Requetes, Moteur(q)
      PROVE  reservations[a.reservation].statut \in {"RESERVE", "FONDS_VERSES", "VENDU"}
  BY <1>1, <1>2, <1>4 DEF Moteur, AccueillirEtape, LireDeclenchement, Verrouiller,
     LireRattrapage, ValiderDeclenchement, ValiderRattrapage, ConflitUnicite, En
<1>5. ASSUME NEW q \in Requetes, Envoi(q) PROVE FALSE
  BY <1>2, <1>5 DEF Envoi, EnvoyerLettre, EchecEnvoi, MarquerEnvoye, EchecMarquage,
                    FinEnvoi
<1>6. ASSUME NEW q \in Requetes, Suivi(q) PROVE FALSE
  BY <1>2, <1>6 DEF Suivi, LireEncaissement, LireRelance, EnregistrerEncaissement,
                    MarquerRelance
<1> QED BY <1>2, <1>3, <1>4, <1>5, <1>6 DEF Next, Interrompre, CreerEtape,
           ChangerAvancement, Rattacher, PasserEcheance, vars

\* No debt is put on someone who has signed nothing: every call is issued on a
\* reservation that is engaged when it is issued.
THEOREM AppelsEngages ==
    ASSUME UneALaFois
    PROVE  Spec => AppelSurEngagee
<1>1. SInv /\ [Next]_vars =>
        [\A a \in DOMAIN appels' \ DOMAIN appels :
            reservations[a.reservation].statut \in {"RESERVE", "FONDS_VERSES", "VENDU"}]_vars
  BY EtapeEngagee
<1> QED BY <1>1, InvarianceSequentielle, PTL DEF Spec, AppelSurEngagee
=============================================================================
