------------------------ MODULE OrdresPaiementProofs ------------------------
(***************************************************************************)
(* Theorems of OrdresPaiement, for any invoices, amounts, bounds and any   *)
(* number of requests at once; then what holds when requests come one at a *)
(* time.                                                                   *)
(***************************************************************************)
EXTENDS OrdresPaiement, SequenceTheorems, TLAPS

(***************************************************************************)
(* Requests                                                                *)
(***************************************************************************)
\* What a request holds, by the step it has reached.
LEMMA FormeRequete ==
    ASSUME NEW r \in Requete
    PROVE  /\ r.etat = "facture" =>
                /\ r.facture \in Factures
                /\ r.statut \in FactureStatut
                /\ r.ht \in Montant /\ r.ttc \in Montant
                /\ r.visa \in Visa /\ r.paye \in Nat
           /\ r.etat \in {"composition", "numero"} => r.lignes \in Lignes
           /\ r.etat \in {"visa", "annulation", "fichier", "transmission"}
                => r.ordre \in Nat
           /\ r.etat \in {"fichier", "transmission"} => r.message \in Messages
           /\ r.etat = "transmission" => r.soldees \in SUBSET Factures
BY DEF Requete

\* Writing one request leaves the others as they were.
LEMMA Garde ==
    ASSUME NEW q \in Requetes, NEW r \in Requete,
           req \in [Requetes -> Requete], Garder(q, r)
    PROVE  /\ req' \in [Requetes -> Requete]
           /\ req'[q] = r
           /\ \A p \in Requetes : p # q => req'[p] = req[p]
BY DEF Garder

LEMMA Finie ==
    ASSUME NEW q \in Requetes, req \in [Requetes -> Requete], Finir(q)
    PROVE  /\ req' \in [Requetes -> Requete]
           /\ req'[q] = Libre
           /\ \A p \in Requetes : p # q => req'[p] = req[p]
<1>1. Libre \in Requete
  BY DEF Libre, Requete
<1> QED BY <1>1, Garde DEF Finir

(***************************************************************************)
(* Amounts                                                                 *)
(***************************************************************************)
LEMMA DuNat ==
    ASSUME NEW ht \in Montant, NEW ttc \in Montant
    PROVE  Du(ht, ttc) \in Nat
BY DomainesAssumption DEF Du, Montant

LEMMA MontantsEntiers ==
    ASSUME TypeOK, NEW f \in Factures
    PROVE  /\ Paye(f) \in Nat
           /\ MontantAPayer(f) \in Int
           /\ Reste(f) \in Int
           /\ MontantAPayer(f) <= Du(factures[f].ht, factures[f].ttc)
<1>1. Paye(f) \in Nat
  BY DEF TypeOK, Paye
<1>2. Du(factures[f].ht, factures[f].ttc) \in Nat
  BY DuNat DEF TypeOK, Facture
<1>3. MontantAPayer(f) \in Int /\ MontantAPayer(f) <= Du(factures[f].ht, factures[f].ttc)
  BY <1>2, DomainesAssumption DEF MontantAPayer
<1> QED BY <1>1, <1>3 DEF Reste

(***************************************************************************)
(* Writing one order                                                       *)
(***************************************************************************)
LEMMA OrdreEcrit ==
    ASSUME TypeOK, NEW n \in Numeros, NEW o \in Ordre,
           ordres' = [ordres EXCEPT ![n] = o]
    PROVE  /\ ordres' \in Seq(Ordre)
           /\ Numeros' = Numeros
           /\ ordres'[n] = o
           /\ \A m \in Numeros : m # n => ordres'[m] = ordres[m]
BY ExceptSeq DEF TypeOK, Numeros

LEMMA OrdreAjoute ==
    ASSUME TypeOK, NEW o \in Ordre, ordres' = Append(ordres, o)
    PROVE  /\ ordres' \in Seq(Ordre)
           /\ Numeros' = Numeros \cup {Len(ordres) + 1}
           /\ ordres'[Len(ordres) + 1] = o
           /\ \A m \in Numeros : ordres'[m] = ordres[m]
           /\ Len(ordres) + 1 \notin Numeros
<1>1. Len(ordres) \in Nat
  BY LenProperties DEF TypeOK
<1>2. /\ ordres' \in Seq(Ordre)
      /\ Len(ordres') = Len(ordres) + 1
      /\ \A i \in 1 .. Len(ordres) : ordres'[i] = ordres[i]
      /\ ordres'[Len(ordres) + 1] = o
  BY AppendProperties DEF TypeOK
<1> QED BY <1>1, <1>2 DEF Numeros

LEMMA UnOrdre ==
    ASSUME TypeOK, NEW n \in Numeros
    PROVE  /\ n \in Nat
           /\ ordres[n] \in Ordre
BY ElementOfSeq, LenProperties DEF TypeOK, Numeros

LEMMA ViserEcrit ==
    ASSUME TypeOK, NEW n \in Numeros,
           ordres' = [ordres EXCEPT ![n].statut = "VISE", ![n].vise = TRUE]
    PROVE  /\ ordres' \in Seq(Ordre)
           /\ Numeros' = Numeros
           /\ ordres'[n] = [ordres[n] EXCEPT !.statut = "VISE", !.vise = TRUE]
           /\ \A m \in Numeros : m # n => ordres'[m] = ordres[m]
<1>1. ordres[n] \in Ordre
  BY UnOrdre
<1>2. [ordres[n] EXCEPT !.statut = "VISE", !.vise = TRUE] \in Ordre
  BY <1>1 DEF Ordre, OrdreStatut
<1>3. ordres' = [ordres EXCEPT ![n] = [ordres[n] EXCEPT !.statut = "VISE", !.vise = TRUE]]
  BY <1>1 DEF TypeOK, Numeros
<1> QED BY <1>2, <1>3, OrdreEcrit

LEMMA AnnulerEcrit ==
    ASSUME TypeOK, NEW n \in Numeros,
           ordres' = [ordres EXCEPT ![n].statut = "ANNULE"]
    PROVE  /\ ordres' \in Seq(Ordre)
           /\ Numeros' = Numeros
           /\ ordres'[n] = [ordres[n] EXCEPT !.statut = "ANNULE"]
           /\ \A m \in Numeros : m # n => ordres'[m] = ordres[m]
<1>1. [ordres[n] EXCEPT !.statut = "ANNULE"] \in Ordre
  BY UnOrdre DEF Ordre, OrdreStatut
<1>2. ordres' = [ordres EXCEPT ![n] = [ordres[n] EXCEPT !.statut = "ANNULE"]]
  BY DEF TypeOK, Numeros
<1> QED BY <1>1, <1>2, OrdreEcrit

LEMMA TransmettreEcrit ==
    ASSUME TypeOK, NEW n \in Numeros, NEW m \in Messages,
           ordres' = [ordres EXCEPT ![n].statut = "TRANSMIS", ![n].message = m]
    PROVE  /\ ordres' \in Seq(Ordre)
           /\ Numeros' = Numeros
           /\ ordres'[n] = [ordres[n] EXCEPT !.statut = "TRANSMIS", !.message = m]
           /\ \A i \in Numeros : i # n => ordres'[i] = ordres[i]
<1>1. [ordres[n] EXCEPT !.statut = "TRANSMIS", !.message = m] \in Ordre
  BY UnOrdre DEF Ordre, OrdreStatut
<1>2. ordres' = [ordres EXCEPT ![n] =
                   [ordres[n] EXCEPT !.statut = "TRANSMIS", !.message = m]]
  BY DEF TypeOK, Numeros
<1> QED BY <1>1, <1>2, OrdreEcrit

(***************************************************************************)
(* Types                                                                   *)
(***************************************************************************)
LEMMA InitType ==
    ASSUME Init
    PROVE  TypeOK
<1>1. factures \in [Factures -> Facture]
  BY DEF Init, Facture, FactureStatut, Visa
<1>2. ordres \in Seq(Ordre)
  BY DEF Init
<1>3. Libre \in Requete
  BY DEF Libre, Requete
<1> QED BY <1>1, <1>2, <1>3 DEF Init, TypeOK

\* A handler of FacturesService only writes its invoice.
LEMMA FacturationType ==
    ASSUME TypeOK, NEW q \in Requetes, Facturation(q)
    PROVE  TypeOK'
<1>1. ASSUME NEW f \in Factures, LireFacture(q, f)
      PROVE  TypeOK'
  <2>1. /\ factures[f].statut \in FactureStatut
        /\ factures[f].ht \in Montant /\ factures[f].ttc \in Montant
        /\ factures[f].visa \in Visa
    BY DEF TypeOK, Facture
  <2>2. Paye(f) \in Nat
    BY MontantsEntiers
  <2>3. [etat |-> "facture", facture |-> f, statut |-> factures[f].statut,
         ht |-> factures[f].ht, ttc |-> factures[f].ttc, visa |-> factures[f].visa,
         paye |-> Paye(f)] \in Requete
    BY <2>1, <2>2 DEF Requete
  <2> QED BY <1>1, <2>3, Garde DEF LireFacture, TypeOK
<1>2. ASSUME En(q, "facture")
      PROVE  /\ req[q].facture \in Factures
             /\ req[q].statut \in FactureStatut
             /\ req[q].ht \in Montant /\ req[q].ttc \in Montant
  BY <1>2, FormeRequete DEF En, TypeOK
<1>3. ASSUME NEW ht \in Montant \cup {OMIS}, NEW ttc \in Montant \cup {OMIS},
             Modifier(q, ht, ttc)
      PROVE  TypeOK'
  <2> DEFINE f == req[q].facture
  <2>2. f \in Factures /\ factures[f] \in Facture
    BY <1>2, <1>3 DEF Modifier, TypeOK
  <2>3. /\ Donne(ht, factures[f].ht) \in Montant
        /\ Donne(ttc, factures[f].ttc) \in Montant
    BY <2>2 DEF Donne, Facture
  <2>4. factures' = [factures EXCEPT ![f].ht = Donne(ht, factures[f].ht),
                                     ![f].ttc = Donne(ttc, factures[f].ttc)]
    BY <1>3 DEF Modifier
  <2> HIDE DEF f
  <2>1. factures' \in [Factures -> Facture]
    BY <2>2, <2>3, <2>4 DEF TypeOK, Facture
  <2> QED BY <1>3, <2>1, Finie DEF Modifier, TypeOK
<1>4. ASSUME NEW ht \in Montant, NEW ttc \in Montant, Analyser(q, ht, ttc)
      PROVE  TypeOK'
  <2> DEFINE f == req[q].facture
             s == IF req[q].statut = "RECUE" THEN "A_VALIDER" ELSE req[q].statut
             h == Complete(req[q].ht, ht)
             t == Complete(req[q].ttc, ttc)
  <2>2. f \in Factures /\ s \in FactureStatut /\ h \in Montant /\ t \in Montant
    BY <1>2, <1>4 DEF Analyser, Complete, FactureStatut
  <2>3. factures' = [factures EXCEPT ![f].statut = s, ![f].ht = h, ![f].ttc = t]
    BY <1>4 DEF Analyser
  <2> HIDE DEF f, s, h, t
  <2>1. factures' \in [Factures -> Facture]
    BY <2>2, <2>3 DEF TypeOK, Facture
  <2> QED BY <1>4, <2>1, Finie DEF Analyser, TypeOK
<1>5. ASSUME Valider(q)
      PROVE  TypeOK'
  <2>1. factures' \in [Factures -> Facture]
    BY <1>2, <1>5 DEF Valider, TypeOK, Facture, FactureStatut
  <2> QED BY <1>5, <2>1, Finie DEF Valider, TypeOK
<1>6. ASSUME NEW s \in {"LITIGE", "REJETEE", "A_VALIDER"}, ChangerStatut(q, s)
      PROVE  TypeOK'
  <2>1. factures' \in [Factures -> Facture]
    BY <1>2, <1>6 DEF ChangerStatut, TypeOK, Facture, FactureStatut
  <2> QED BY <1>6, <2>1, Finie DEF ChangerStatut, TypeOK
<1>7. ASSUME NEW m \in Versements, EnregistrerPaiement(q, m)
      PROVE  TypeOK'
  <2>1. factures' \in [Factures -> Facture]
    BY <1>2, <1>7 DEF EnregistrerPaiement, TypeOK, Facture, FactureStatut
  <2>2. saisi' \in [Factures -> Nat]
    BY <1>2, <1>7, DomainesAssumption DEF EnregistrerPaiement, TypeOK
  <2> QED BY <1>7, <2>1, <2>2, Finie DEF EnregistrerPaiement, TypeOK
<1>8. ASSUME NEW d \in Decision, ViserDirectionTravaux(q, d)
      PROVE  TypeOK'
  <2> DEFINE f == req[q].facture
             s == IF d = "REFUSE" THEN "LITIGE" ELSE "A_VALIDER"
  <2>2. f \in Factures /\ s \in FactureStatut /\ d \in Visa
    BY <1>2, <1>8 DEF ViserDirectionTravaux, FactureStatut, Visa
  <2>3. factures' = [factures EXCEPT ![f].visa = d, ![f].statut = s]
    BY <1>8 DEF ViserDirectionTravaux
  <2> HIDE DEF f, s
  <2>1. factures' \in [Factures -> Facture]
    BY <2>2, <2>3 DEF TypeOK, Facture
  <2> QED BY <1>8, <2>1, Finie DEF ViserDirectionTravaux, TypeOK
<1> QED BY <1>1, <1>3, <1>4, <1>5, <1>6, <1>7, <1>8 DEF Facturation

\* The payments of a file only add natural amounts.
LEMMA VirementType ==
    ASSUME TypeOK, NEW n \in Numeros,
           vire' = [f \in Factures |-> vire[f] + ordres[n].lignes[f]]
    PROVE  vire' \in [Factures -> Nat]
BY UnOrdre DEF TypeOK, Ordre, Lignes

LEMMA PaiementType ==
    ASSUME TypeOK, OrdresSuivis, NEW q \in Requetes, Paiement(q)
    PROVE  TypeOK'
<1>1. ASSUME NEW F \in SUBSET Factures, LireFactures(q, F)
      PROVE  TypeOK'
  <2>1. [f \in Factures |-> IF f \in F THEN Reste(f) ELSE 0] \in Lignes
    <3>1. \A f \in F : Reste(f) \in Int /\ Reste(f) > 0
      BY <1>1, MontantsEntiers DEF LireFactures
    <3> QED BY <3>1 DEF Lignes
  <2>2. [etat |-> "composition",
         lignes |-> [f \in Factures |-> IF f \in F THEN Reste(f) ELSE 0]] \in Requete
    BY <2>1 DEF Requete
  <2> QED BY <1>1, <2>2, Garde DEF LireFactures, TypeOK
<1>2. ASSUME LireNumero(q)
      PROVE  TypeOK'
  <2>1. req[q].lignes \in Lignes
    BY <1>2, FormeRequete DEF LireNumero, En, TypeOK
  <2>2. Len(ordres) + 1 \in Nat
    BY LenProperties DEF TypeOK
  <2>3. [etat |-> "numero", lignes |-> req[q].lignes, numero |-> Len(ordres) + 1]
            \in Requete
    BY <2>1, <2>2 DEF Requete
  <2> QED BY <1>2, <2>3, Garde DEF LireNumero, TypeOK
<1>3. ASSUME CreerOrdre(q)
      PROVE  TypeOK'
  <2>1. req[q].lignes \in Lignes
    BY <1>3, FormeRequete DEF CreerOrdre, En, TypeOK
  <2>2. [statut |-> "BROUILLON", lignes |-> req[q].lignes,
         vise |-> FALSE, message |-> NUL] \in Ordre
    BY <2>1 DEF Ordre, OrdreStatut
  <2>3. ordres' \in Seq(Ordre)
    BY <1>3, <2>2, OrdreAjoute DEF CreerOrdre
  <2> QED BY <1>3, <2>3, Finie DEF CreerOrdre, TypeOK
<1>4. ASSUME ConflitNumero(q)
      PROVE  TypeOK'
  BY <1>4, Finie DEF ConflitNumero, TypeOK
<1>5. ASSUME NEW n \in Numeros, LireVisa(q, n) \/ LireAnnulation(q, n)
      PROVE  TypeOK'
  <2>1. /\ [etat |-> "visa", ordre |-> n] \in Requete
        /\ [etat |-> "annulation", ordre |-> n] \in Requete
    BY UnOrdre DEF Requete
  <2> QED BY <1>5, <2>1, Garde DEF LireVisa, LireAnnulation, TypeOK
<1>6. ASSUME Viser(q)
      PROVE  TypeOK'
  <2>1. req[q].ordre \in Numeros
    BY <1>6 DEF Viser, En, OrdresSuivis
  <2>2. ordres' \in Seq(Ordre)
    BY <1>6, <2>1, ViserEcrit DEF Viser
  <2> QED BY <1>6, <2>2, Finie DEF Viser, TypeOK
<1>7. ASSUME Annuler(q)
      PROVE  TypeOK'
  <2>1. req[q].ordre \in Numeros
    BY <1>7 DEF Annuler, En, OrdresSuivis
  <2>2. ordres' \in Seq(Ordre)
    BY <1>7, <2>1, AnnulerEcrit DEF Annuler
  <2> QED BY <1>7, <2>2, Finie DEF Annuler, TypeOK
<1>8. ASSUME NEW n \in Numeros, NEW m \in Messages, LireFichier(q, n, m)
      PROVE  TypeOK'
  <2>1. [etat |-> "fichier", ordre |-> n, message |-> m] \in Requete
    BY UnOrdre DEF Requete
  <2> QED BY <1>8, <2>1, Garde DEF LireFichier, TypeOK
<1>9. ASSUME PreparerVirements(q)
      PROVE  TypeOK'
  <2> DEFINE n == req[q].ordre
             soldees == {f \in Factures : /\ Contient(n, f)
                                          /\ ordres[n].lignes[f] >= Reste(f)}
  <2>1. n \in Nat /\ req[q].message \in Messages
    BY <1>9, FormeRequete DEF PreparerVirements, En, TypeOK
  <2>2. soldees \in SUBSET Factures
    OBVIOUS
  <2>3. Garder(q, [etat |-> "transmission", ordre |-> n,
                   message |-> req[q].message, soldees |-> soldees])
    BY <1>9 DEF PreparerVirements
  <2> HIDE DEF soldees
  <2>4. [etat |-> "transmission", ordre |-> n, message |-> req[q].message,
         soldees |-> soldees] \in Requete
    BY <2>1, <2>2 DEF Requete
  <2> QED BY <1>9, <2>3, <2>4, Garde DEF PreparerVirements, TypeOK
<1>10. ASSUME Transmettre(q)
       PROVE  TypeOK'
  <2>1. req[q].ordre \in Numeros
    BY <1>10 DEF Transmettre, En, OrdresSuivis
  <2>2. req[q].message \in Messages /\ req[q].ordre \in Nat
    BY <1>10, FormeRequete DEF Transmettre, En, TypeOK
  <2>3. ordres' \in Seq(Ordre)
    BY <1>10, <2>1, <2>2, TransmettreEcrit DEF Transmettre
  <2>4. vire' \in [Factures -> Nat]
    BY <1>10, <2>1, VirementType DEF Transmettre
  <2>5. factures' \in [Factures -> Facture]
    BY <1>10 DEF Transmettre, TypeOK, Facture, FactureStatut
  <2>6. fichiers' \subseteq Fichier
    BY <1>10, <2>2 DEF Transmettre, TypeOK, Fichier
  <2> QED BY <1>10, <2>3, <2>4, <2>5, <2>6, Finie DEF Transmettre, TypeOK
<1> QED BY <1>1, <1>2, <1>3, <1>4, <1>5, <1>6, <1>7, <1>8, <1>9, <1>10 DEF Paiement

LEMMA RetelechargerType ==
    ASSUME TypeOK, NEW n \in Numeros, NEW m \in Messages, Retelecharger(n, m)
    PROVE  TypeOK'
<1>1. [ordre |-> n, message |-> m] \in Fichier
  BY UnOrdre DEF Fichier
<1> QED BY <1>1 DEF Retelecharger, TypeOK

LEMMA StepType ==
    ASSUME TypeOK, OrdresSuivis, [Next]_vars
    PROVE  TypeOK'
<1>1. ASSUME NEW q \in Requetes, Interrompre(q)
      PROVE  TypeOK'
  BY <1>1, Finie DEF Interrompre, TypeOK
<1>2. CASE UNCHANGED vars
  BY <1>2 DEF vars, TypeOK
<1> QED BY <1>1, <1>2, FacturationType, PaiementType, RetelechargerType DEF Next

(***************************************************************************)
(* Approval: the inductive invariant                                       *)
(***************************************************************************)
\* Orders may be added and approved; none disappears or loses its approval.
OrdresConserves ==
    /\ Numeros \subseteq Numeros'
    /\ \A n \in Numeros : /\ ordres'[n].lignes = ordres[n].lignes
                          /\ ordres[n].vise => ordres'[n].vise

\* A step that hands over no file keeps what files and payments rest on.
LEMMA SortieConservee ==
    ASSUME SortieVisee, OrdresConserves, UNCHANGED <<vire, fichiers>>
    PROVE  SortieVisee'
BY DEF SortieVisee, OrdresConserves, Contient

\* The requests that did not move still work on approved orders.
LEMMA SuiviConserve ==
    ASSUME OrdresSuivis, OrdresConserves, NEW q \in Requetes,
           \A p \in Requetes : p # q => req'[p] = req[p],
           req'[q].etat \in {"visa", "annulation", "fichier", "transmission"}
               => req'[q].ordre \in Numeros',
           req'[q].etat \in {"fichier", "transmission"} => ordres'[req'[q].ordre].vise
    PROVE  OrdresSuivis'
BY DEF OrdresSuivis, OrdresConserves

Visas == SortieVisee /\ OrdresVises /\ OrdresSuivis

\* A step that leaves the orders and files alone, and takes up no order.
LEMMA SansOrdre ==
    ASSUME TypeOK, Visas, NEW q \in Requetes,
           \A p \in Requetes : p # q => req'[p] = req[p],
           req'[q].etat \in {"libre", "facture", "composition", "numero"},
           UNCHANGED <<vire, ordres, fichiers>>
    PROVE  Visas'
<1>1. OrdresConserves
  BY DEF OrdresConserves, Numeros
<1>2. SortieVisee' /\ OrdresSuivis'
  BY <1>1, SortieConservee, SuiviConserve DEF Visas
<1>3. OrdresVises'
  BY DEF Visas, OrdresVises, Numeros
<1> QED BY <1>2, <1>3 DEF Visas

LEMMA FacturationVisas ==
    ASSUME TypeOK, Visas, NEW q \in Requetes, Facturation(q)
    PROVE  Visas'
<1>1. /\ \A p \in Requetes : p # q => req'[p] = req[p]
      /\ req'[q].etat \in {"libre", "facture"}
  <2>1. CASE \E f \in Factures : LireFacture(q, f)
    BY <2>1 DEF LireFacture, Garder, TypeOK
  <2>2. CASE Finir(q)
    BY <2>2, Finie DEF Libre, TypeOK
  <2> QED BY <2>1, <2>2 DEF Facturation, Modifier, Analyser, ViserDirectionTravaux, Valider,
                            ChangerStatut, EnregistrerPaiement
<1>2. UNCHANGED <<vire, ordres, fichiers>>
  BY DEF Facturation, LireFacture, Modifier, Analyser, ViserDirectionTravaux, Valider, ChangerStatut,
         EnregistrerPaiement
<1> QED BY <1>1, <1>2, SansOrdre

LEMMA PaiementVisas ==
    ASSUME TypeOK, Visas, NEW q \in Requetes, Paiement(q)
    PROVE  Visas'
<1>0. SortieVisee /\ OrdresVises /\ OrdresSuivis
  BY DEF Visas
<1>1. ASSUME NEW F \in SUBSET Factures, LireFactures(q, F)
      PROVE  Visas'
  BY <1>1, SansOrdre DEF LireFactures, Garder, TypeOK
<1>2. ASSUME LireNumero(q)
      PROVE  Visas'
  BY <1>2, SansOrdre DEF LireNumero, Garder, TypeOK
<1>3. ASSUME CreerOrdre(q)
      PROVE  Visas'
  <2> DEFINE o == [statut |-> "BROUILLON", lignes |-> req[q].lignes,
                   vise |-> FALSE, message |-> NUL]
  <2>1. req[q].lignes \in Lignes
    BY <1>3, FormeRequete DEF CreerOrdre, En, TypeOK
  <2>2. o \in Ordre /\ ordres' = Append(ordres, o)
    BY <1>3, <2>1 DEF Ordre, OrdreStatut, CreerOrdre
  <2>8. o.statut = "BROUILLON"
    OBVIOUS
  <2> HIDE DEF o
  <2>3. /\ Numeros' = Numeros \cup {Len(ordres) + 1}
        /\ ordres'[Len(ordres) + 1].statut = "BROUILLON"
        /\ \A m \in Numeros : ordres'[m] = ordres[m]
    BY <2>2, <2>8, OrdreAjoute
  <2>4. OrdresConserves
    BY <2>3 DEF OrdresConserves
  <2>5. /\ \A p \in Requetes : p # q => req'[p] = req[p]
        /\ req'[q] = Libre
    BY <1>3, Finie DEF CreerOrdre, TypeOK
  <2>6. SortieVisee' /\ OrdresSuivis'
    BY <1>0, <1>3, <2>4, <2>5, SortieConservee, SuiviConserve DEF CreerOrdre, Libre
  <2>7. OrdresVises'
    BY <1>0, <2>3 DEF OrdresVises
  <2> QED BY <2>6, <2>7 DEF Visas
<1>4. ASSUME ConflitNumero(q)
      PROVE  Visas'
  <2>1. /\ \A p \in Requetes : p # q => req'[p] = req[p]
        /\ req'[q].etat = "libre"
    <3>1. Finir(q)
      BY <1>4 DEF ConflitNumero
    <3> QED BY <3>1, Finie DEF Libre, TypeOK
  <2> QED BY <1>4, <2>1, SansOrdre DEF ConflitNumero
<1>5. ASSUME NEW n \in Numeros,
             \/ LireVisa(q, n)
             \/ LireAnnulation(q, n)
             \/ \E m \in Messages : LireFichier(q, n, m)
      PROVE  Visas'
  <2>1. UNCHANGED <<factures, saisi, vire, ordres, fichiers>>
    BY <1>5 DEF LireVisa, LireAnnulation, LireFichier
  <2>2. OrdresConserves
    BY <2>1 DEF OrdresConserves, Numeros
  <2>3. /\ \A p \in Requetes : p # q => req'[p] = req[p]
        /\ req'[q].ordre = n
        /\ req'[q].etat = "fichier" => ordres[n].statut = "VISE"
        /\ req'[q].etat # "transmission"
    <3>1. CASE LireVisa(q, n)
      BY <3>1 DEF LireVisa, Garder, TypeOK
    <3>2. CASE LireAnnulation(q, n)
      BY <3>2 DEF LireAnnulation, Garder, TypeOK
    <3>3. CASE \E m \in Messages : LireFichier(q, n, m)
      BY <3>3 DEF LireFichier, Garder, TypeOK
    <3> QED BY <1>5, <3>1, <3>2, <3>3
  <2>4. req'[q].etat = "fichier" => ordres'[n].vise
    BY <1>0, <2>1, <2>3 DEF OrdresVises
  <2>5. OrdresSuivis'
    BY <1>0, <2>2, <2>3, <2>4, SuiviConserve DEF OrdresConserves
  <2>6. SortieVisee' /\ OrdresVises'
    BY <1>0, <2>1, <2>2, SortieConservee DEF OrdresVises, Numeros
  <2> QED BY <2>5, <2>6 DEF Visas
<1>6. ASSUME Viser(q) \/ Annuler(q)
      PROVE  Visas'
  <2>1. req[q].ordre \in Numeros
    BY <1>0, <1>6 DEF Viser, Annuler, En, OrdresSuivis
  <2>2. PICK n \in Numeros : n = req[q].ordre
    BY <2>1
  <2>3. ordres[n] \in Ordre
    BY UnOrdre
  <2>4. /\ Numeros' = Numeros
        /\ ordres'[n].lignes = ordres[n].lignes
        /\ ordres[n].vise => ordres'[n].vise
        /\ ordres'[n].statut \in {"VISE", "TRANSMIS"} => ordres'[n].vise
        /\ \A m \in Numeros : m # n => ordres'[m] = ordres[m]
    <3>1. CASE Viser(q)
      <4>1. ordres' = [ordres EXCEPT ![n].statut = "VISE", ![n].vise = TRUE]
        BY <2>2, <3>1 DEF Viser
      <4>2. /\ Numeros' = Numeros
            /\ ordres'[n] = [ordres[n] EXCEPT !.statut = "VISE", !.vise = TRUE]
            /\ \A m \in Numeros : m # n => ordres'[m] = ordres[m]
        BY <4>1, ViserEcrit
      <4> QED BY <2>3, <4>2 DEF Ordre
    <3>2. CASE Annuler(q)
      <4>1. ordres' = [ordres EXCEPT ![n].statut = "ANNULE"]
        BY <2>2, <3>2 DEF Annuler
      <4>2. /\ Numeros' = Numeros
            /\ ordres'[n] = [ordres[n] EXCEPT !.statut = "ANNULE"]
            /\ \A m \in Numeros : m # n => ordres'[m] = ordres[m]
        BY <4>1, AnnulerEcrit
      <4> QED BY <2>3, <4>2 DEF Ordre
    <3> QED BY <1>6, <3>1, <3>2
  <2>5. OrdresConserves
    BY <2>4 DEF OrdresConserves
  <2>6. /\ \A p \in Requetes : p # q => req'[p] = req[p]
        /\ req'[q] = Libre
        /\ UNCHANGED <<vire, fichiers>>
    BY <1>6, Finie DEF Viser, Annuler, TypeOK
  <2>7. SortieVisee' /\ OrdresSuivis'
    BY <1>0, <2>5, <2>6, SortieConservee, SuiviConserve DEF Libre
  <2>8. OrdresVises'
    BY <1>0, <2>4 DEF OrdresVises
  <2> QED BY <2>7, <2>8 DEF Visas
<1>7. ASSUME PreparerVirements(q)
      PROVE  Visas'
  <2>1. UNCHANGED <<factures, saisi, vire, ordres, fichiers>>
    BY <1>7 DEF PreparerVirements
  <2>2. OrdresConserves
    BY <2>1 DEF OrdresConserves, Numeros
  <2>3. req[q].ordre \in Numeros /\ ordres[req[q].ordre].vise
    BY <1>0, <1>7 DEF PreparerVirements, En, OrdresSuivis
  <2>4. /\ \A p \in Requetes : p # q => req'[p] = req[p]
        /\ req'[q].etat = "transmission" /\ req'[q].ordre = req[q].ordre
    BY <1>7 DEF PreparerVirements, Garder, TypeOK
  <2>5. OrdresSuivis'
    BY <1>0, <2>1, <2>2, <2>3, <2>4, SuiviConserve DEF OrdresConserves
  <2>6. SortieVisee' /\ OrdresVises'
    BY <1>0, <2>1, <2>2, SortieConservee DEF OrdresVises, Numeros
  <2> QED BY <2>5, <2>6 DEF Visas
<1>8. ASSUME Transmettre(q)
      PROVE  Visas'
  <2>1. req[q].ordre \in Numeros /\ ordres[req[q].ordre].vise
    BY <1>0, <1>8 DEF Transmettre, En, OrdresSuivis
  <2>2. PICK n \in Numeros : n = req[q].ordre
    BY <2>1
  <2>3. ordres[n] \in Ordre /\ ordres[n].vise /\ req[q].message \in Messages
    BY <1>8, <2>1, <2>2, UnOrdre, FormeRequete DEF Transmettre, En, TypeOK
  <2>4. /\ Numeros' = Numeros
        /\ ordres'[n].lignes = ordres[n].lignes
        /\ ordres'[n].vise
        /\ \A m \in Numeros : m # n => ordres'[m] = ordres[m]
    <3>1. ordres' = [ordres EXCEPT ![n].statut = "TRANSMIS",
                                   ![n].message = req[q].message]
      BY <1>8, <2>2 DEF Transmettre
    <3>2. /\ Numeros' = Numeros
          /\ ordres'[n] = [ordres[n] EXCEPT !.statut = "TRANSMIS",
                                           !.message = req[q].message]
          /\ \A m \in Numeros : m # n => ordres'[m] = ordres[m]
      BY <2>3, <3>1, TransmettreEcrit
    <3> QED BY <2>3, <3>2 DEF Ordre
  <2>5. OrdresConserves
    BY <2>4 DEF OrdresConserves
  <2>6. /\ \A p \in Requetes : p # q => req'[p] = req[p]
        /\ req'[q] = Libre
    BY <1>8, Finie DEF Transmettre, TypeOK
  <2>7. OrdresSuivis'
    BY <1>0, <2>5, <2>6, SuiviConserve DEF Libre
  <2>8. OrdresVises'
    BY <1>0, <2>4 DEF OrdresVises
  <2>9. ASSUME NEW x \in fichiers'
        PROVE  x.ordre \in Numeros' /\ ordres'[x.ordre].vise
    <3>1. CASE x \in fichiers
      BY <1>0, <2>5, <3>1 DEF SortieVisee, OrdresConserves
    <3>2. CASE x.ordre = n
      BY <2>4, <3>2
    <3> QED BY <1>8, <2>2, <2>9, <3>1, <3>2 DEF Transmettre
  <2>10. ASSUME NEW f \in Factures, vire'[f] > 0
         PROVE  \E m \in Numeros' : ordres'[m].vise /\ ordres'[m].lignes[f] > 0
    <3>1. vire'[f] = vire[f] + ordres[n].lignes[f]
      BY <1>8, <2>2 DEF Transmettre
    <3>2. vire[f] \in Nat /\ ordres[n].lignes[f] \in Nat
      BY <2>3 DEF TypeOK, Ordre, Lignes
    <3>3. CASE ordres[n].lignes[f] > 0
      BY <2>4, <3>3
    <3>4. CASE vire[f] > 0
      BY <1>0, <2>5, <3>4 DEF SortieVisee, OrdresConserves, Contient
    <3> QED BY <2>10, <3>1, <3>2, <3>3, <3>4
  <2>11. SortieVisee'
    BY <2>9, <2>10 DEF SortieVisee, Contient
  <2> QED BY <2>7, <2>8, <2>11 DEF Visas
<1> QED BY <1>1, <1>2, <1>3, <1>4, <1>5, <1>6, <1>7, <1>8 DEF Paiement

LEMMA RetelechargerVisas ==
    ASSUME TypeOK, Visas, NEW n \in Numeros, NEW m \in Messages, Retelecharger(n, m)
    PROVE  Visas'
<1>1. ordres[n].vise
  BY DEF Retelecharger, Visas, OrdresVises
<1>2. UNCHANGED <<vire, ordres, req>> /\ Numeros' = Numeros
  BY DEF Retelecharger, Numeros
<1>3. SortieVisee'
  BY <1>1, <1>2 DEF Retelecharger, Visas, SortieVisee, Contient
<1> QED BY <1>2, <1>3 DEF Visas, OrdresVises, OrdresSuivis

LEMMA StepVisas ==
    ASSUME TypeOK, Visas, [Next]_vars
    PROVE  Visas'
<1>1. ASSUME NEW q \in Requetes, Interrompre(q)
      PROVE  Visas'
  <2>1. /\ \A p \in Requetes : p # q => req'[p] = req[p]
        /\ req'[q].etat = "libre"
    BY <1>1, Finie DEF Interrompre, Libre, TypeOK
  <2> QED BY <1>1, <2>1, SansOrdre DEF Interrompre
<1>2. CASE UNCHANGED vars
  BY <1>2 DEF vars, Visas, SortieVisee, OrdresVises, OrdresSuivis, Numeros, Contient
<1> QED BY <1>1, <1>2, FacturationVisas, PaiementVisas, RetelechargerVisas DEF Next

(***************************************************************************)
(* Theorems, whatever runs at the same time                                *)
(***************************************************************************)
\* The inductive invariant: every row and request is typed, and every order
\* on its way to the bank has been approved.
THEOREM Invariance == Spec => []IInv
<1>1. Init => IInv
  <2> SUFFICES ASSUME Init PROVE IInv
    OBVIOUS
  <2>1. Numeros = {}
    BY DEF Init, Numeros
  <2>2. SortieVisee /\ OrdresVises
    BY <2>1 DEF Init, SortieVisee, OrdresVises
  <2>3. OrdresSuivis
    BY DEF Init, OrdresSuivis, Libre
  <2> QED BY <2>2, <2>3, InitType DEF IInv
<1>2. IInv /\ [Next]_vars => IInv'
  BY StepType, StepVisas DEF IInv, Visas
<1> QED BY <1>1, <1>2, PTL DEF Spec

\* Every reachable row and request has the shape the schema gives it: no
\* line of an order is negative, no request works on a row that is not there.
THEOREM TypeCorrect == Spec => []TypeOK
<1>1. IInv => TypeOK
  BY DEF IInv
<1> QED BY <1>1, Invariance, PTL

\* No money leaves by file without an approved order, however many requests
\* approve, cancel and download at the same time.
THEOREM SortieToujoursVisee == Spec => []SortieVisee
<1>1. IInv => SortieVisee
  BY DEF IInv
<1> QED BY <1>1, Invariance, PTL

(***************************************************************************)
(* One request at a time: what was read is still there                     *)
(***************************************************************************)
Serie == OrdreVivantUnique /\ LectureFraiche /\ FichiersTransmis

\* The freshness of what is read only concerns the one request in flight.
LEMMA FraicheSeule ==
    ASSUME UneALaFois, NEW q \in Requetes,
           req'[q].etat \in {"libre", "composition", "numero", "visa", "annulation", "fichier"},
           req'[q].etat \in {"composition", "numero"} =>
               \A f \in Factures : req'[q].lignes[f] > 0 => ~DansUnOrdre(f)',
           req'[q].etat = "visa" => ordres'[req'[q].ordre].statut = "BROUILLON",
           req'[q].etat = "annulation" => ordres'[req'[q].ordre].statut # "TRANSMIS",
           req'[q].etat = "fichier" => ordres'[req'[q].ordre].statut = "VISE"
    PROVE  LectureFraiche'
BY DEF UneALaFois, LectureFraiche, En

LEMMA LibreFraiche ==
    ASSUME UneALaFois, NEW q \in Requetes, TypeOK, Finir(q)
    PROVE  LectureFraiche'
<1>1. req'[q].etat = "libre"
  BY Finie DEF Libre, TypeOK
<1> QED BY <1>1, FraicheSeule

\* A step that writes neither the orders nor the files nor their payments.
LEMMA HorsOrdres ==
    ASSUME OrdreVivantUnique, FichiersTransmis, UNCHANGED <<vire, ordres, fichiers>>
    PROVE  OrdreVivantUnique' /\ FichiersTransmis'
BY DEF OrdreVivantUnique, FichiersTransmis, Numeros, Contient

LEMMA FacturationSerie ==
    ASSUME UneALaFois, TypeOK, Serie, NEW q \in Requetes, Facturation(q)
    PROVE  Serie'
<1>1. OrdreVivantUnique' /\ FichiersTransmis'
  <2>1. UNCHANGED <<vire, ordres, fichiers>>
    BY DEF Facturation, LireFacture, Modifier, Analyser, ViserDirectionTravaux, Valider, ChangerStatut,
           EnregistrerPaiement
  <2> QED BY <2>1, HorsOrdres DEF Serie
<1>2. LectureFraiche'
  <2>1. CASE Finir(q)
    BY <2>1, LibreFraiche
  <2>2. ASSUME NEW f \in Factures, LireFacture(q, f)
        PROVE  LectureFraiche'
    <3>1. /\ req'[q].etat = "facture" /\ req'[q].facture = f
          /\ req'[q].statut = factures[f].statut
          /\ req'[q].ht = factures[f].ht /\ req'[q].ttc = factures[f].ttc
          /\ req'[q].visa = factures[f].visa /\ req'[q].paye = Paye(f)
      BY <2>2 DEF LireFacture, Garder, TypeOK
    <3>2. factures[f] = [statut |-> factures[f].statut, ht |-> factures[f].ht,
                         ttc |-> factures[f].ttc, visa |-> factures[f].visa]
      BY DEF TypeOK, Facture
    <3>3. UNCHANGED <<factures, saisi, vire>>
      BY <2>2 DEF LireFacture
    <3> QED BY <3>1, <3>2, <3>3 DEF UneALaFois, LectureFraiche, En, Paye
  <2> QED BY <2>1, <2>2 DEF Facturation, Modifier, Analyser, ViserDirectionTravaux, Valider,
                            ChangerStatut, EnregistrerPaiement
<1> QED BY <1>1, <1>2 DEF Serie

\* The steps that read an order or compose one, before anything is written.
LEMMA LectureSerie ==
    ASSUME UneALaFois, IInv, Serie, NEW q \in Requetes,
           \/ \E F \in SUBSET Factures : LireFactures(q, F)
           \/ LireNumero(q)
           \/ \E n \in Numeros : LireVisa(q, n)
           \/ \E n \in Numeros : LireAnnulation(q, n)
           \/ \E n \in Numeros, m \in Messages : LireFichier(q, n, m)
           \/ PreparerVirements(q)
    PROVE  Serie'
<1>1. UNCHANGED <<factures, saisi, vire, ordres, fichiers>>
  BY DEF LireFactures, LireNumero, LireVisa, LireAnnulation, LireFichier,
         PreparerVirements
<1>2. OrdreVivantUnique' /\ FichiersTransmis'
  BY <1>1, HorsOrdres DEF Serie
<1>3. \A f : DansUnOrdre(f)' = DansUnOrdre(f)
  BY <1>1 DEF DansUnOrdre, Numeros, Vivant, Contient
<1>4. ASSUME NEW F \in SUBSET Factures, LireFactures(q, F)
      PROVE  LectureFraiche'
  <2>1. /\ req'[q].etat = "composition"
        /\ \A f \in Factures : req'[q].lignes[f] > 0 => f \in F
    BY <1>4 DEF LireFactures, Garder, IInv, TypeOK
  <2>2. \A f \in F : ~DansUnOrdre(f)
    BY <1>4 DEF LireFactures
  <2> QED BY <1>3, <2>1, <2>2, FraicheSeule
<1>5. ASSUME LireNumero(q)
      PROVE  LectureFraiche'
  <2>1. req'[q].etat = "numero" /\ req'[q].lignes = req[q].lignes
    BY <1>5 DEF LireNumero, Garder, IInv, TypeOK
  <2>2. \A f \in Factures : req[q].lignes[f] > 0 => ~DansUnOrdre(f)
    BY <1>5 DEF LireNumero, En, Serie, LectureFraiche
  <2> QED BY <1>3, <2>1, <2>2, FraicheSeule
<1>6. ASSUME NEW n \in Numeros, LireVisa(q, n)
      PROVE  LectureFraiche'
  <2>1. /\ req'[q].etat = "visa" /\ req'[q].ordre = n
        /\ ordres[n].statut = "BROUILLON"
    BY <1>6 DEF LireVisa, Garder, IInv, TypeOK
  <2> QED BY <1>1, <2>1, FraicheSeule
<1>7. ASSUME NEW n \in Numeros, LireAnnulation(q, n)
      PROVE  LectureFraiche'
  <2>1. /\ req'[q].etat = "annulation" /\ req'[q].ordre = n
        /\ ordres[n].statut # "TRANSMIS"
    BY <1>7 DEF LireAnnulation, Garder, IInv, TypeOK
  <2> QED BY <1>1, <2>1, FraicheSeule
<1>8. ASSUME NEW n \in Numeros, NEW m \in Messages, LireFichier(q, n, m)
      PROVE  LectureFraiche'
  <2>1. /\ req'[q].etat = "fichier" /\ req'[q].ordre = n
        /\ ordres[n].statut = "VISE"
    BY <1>8 DEF LireFichier, Garder, IInv, TypeOK
  <2> QED BY <1>1, <2>1, FraicheSeule
<1>9. ASSUME PreparerVirements(q)
      PROVE  LectureFraiche'
  <2>1. /\ req'[q].etat = "transmission" /\ req'[q].ordre = req[q].ordre
        /\ \A f \in req'[q].soldees : ordres[req[q].ordre].lignes[f] >= Reste(f)
    BY <1>9 DEF PreparerVirements, Garder, IInv, TypeOK
  <2>2. ordres[req[q].ordre].statut = "VISE"
    BY <1>9 DEF PreparerVirements, En, Serie, LectureFraiche
  <2>3. \A f : Reste(f)' = Reste(f)
    BY <1>1 DEF Reste, MontantAPayer, Paye
  <2> QED BY <1>1, <2>1, <2>2, <2>3 DEF UneALaFois, LectureFraiche, En
<1> QED BY <1>2, <1>4, <1>5, <1>6, <1>7, <1>8, <1>9 DEF Serie

LEMMA CreationSerie ==
    ASSUME UneALaFois, IInv, Serie, NEW q \in Requetes, CreerOrdre(q)
    PROVE  Serie'
<1> DEFINE o == [statut |-> "BROUILLON", lignes |-> req[q].lignes,
                 vise |-> FALSE, message |-> NUL]
           k == Len(ordres) + 1
<1>1. req[q].lignes \in Lignes
  BY FormeRequete DEF CreerOrdre, En, IInv, TypeOK
<1>2. o \in Ordre /\ ordres' = Append(ordres, o)
  BY <1>1 DEF Ordre, OrdreStatut, CreerOrdre
<1>3. o.statut = "BROUILLON" /\ o.lignes = req[q].lignes
  OBVIOUS
<1> HIDE DEF o
<1>4. /\ Numeros' = Numeros \cup {k}
      /\ ordres'[k] = o
      /\ \A m \in Numeros : ordres'[m] = ordres[m]
  BY <1>2, OrdreAjoute DEF IInv
<1> HIDE DEF k
<1>5. \A f \in Factures : req[q].lignes[f] > 0 => ~DansUnOrdre(f)
  BY DEF CreerOrdre, En, Serie, LectureFraiche
<1>6. \A f \in Factures : \A m \in Numeros :
          Contient(m, f) /\ ordres[m].statut # "ANNULE" => ~(o.lignes[f] > 0)
  BY <1>3, <1>5 DEF DansUnOrdre, Vivant
<1>7. OrdreVivantUnique'
  <2> SUFFICES ASSUME NEW m \in Numeros', NEW n \in Numeros', NEW f \in Factures,
                      ordres'[m].statut # "ANNULE", ordres'[m].lignes[f] > 0,
                      ordres'[n].statut # "ANNULE", ordres'[n].lignes[f] > 0
               PROVE  m = n
    BY DEF OrdreVivantUnique, Contient
  <2>1. CASE m \in Numeros /\ n \in Numeros
    BY <1>4, <2>1 DEF Serie, OrdreVivantUnique, Contient
  <2>2. CASE m = k /\ n \in Numeros
    BY <1>4, <1>6, <2>2 DEF Contient
  <2>3. CASE m \in Numeros /\ n = k
    BY <1>4, <1>6, <2>3 DEF Contient
  <2> QED BY <1>4, <2>1, <2>2, <2>3
<1>8. FichiersTransmis'
  <2>1. \A x \in fichiers : x.ordre \in Numeros
    BY DEF IInv, SortieVisee
  <2>2. UNCHANGED <<vire, fichiers>>
    BY DEF CreerOrdre
  <2> QED BY <1>3, <1>4, <2>1, <2>2 DEF Serie, FichiersTransmis, Contient
<1>9. LectureFraiche'
  BY LibreFraiche DEF CreerOrdre, IInv
<1> QED BY <1>7, <1>8, <1>9 DEF Serie

\* One order changes status and does not come back from its cancellation.
LEMMA StatutSerie ==
    ASSUME Serie, NEW n \in Numeros, Numeros' = Numeros,
           ordres[n].statut # "TRANSMIS",
           ordres'[n].statut # "TRANSMIS",
           ordres'[n].statut # "ANNULE" => ordres[n].statut # "ANNULE",
           ordres'[n].lignes = ordres[n].lignes,
           \A m \in Numeros : m # n => ordres'[m] = ordres[m],
           \A x \in fichiers : x.ordre \in Numeros,
           UNCHANGED <<vire, fichiers>>
    PROVE  OrdreVivantUnique' /\ FichiersTransmis'
<1>1. OrdreVivantUnique'
  BY DEF Serie, OrdreVivantUnique, Contient
<1>2. FichiersTransmis'
  <2>1. \A x \in fichiers : ordres'[x.ordre] = ordres[x.ordre]
    BY DEF Serie, FichiersTransmis
  <2>2. \A m \in Numeros : ordres[m].statut = "TRANSMIS" => ordres'[m] = ordres[m]
    OBVIOUS
  <2> QED BY <2>1, <2>2 DEF Serie, FichiersTransmis, Contient
<1> QED BY <1>1, <1>2

LEMMA DecisionSerie ==
    ASSUME UneALaFois, IInv, Serie, NEW q \in Requetes, Viser(q) \/ Annuler(q)
    PROVE  Serie'
<1>1. req[q].ordre \in Numeros
  BY DEF Viser, Annuler, En, IInv, OrdresSuivis
<1>2. PICK n \in Numeros : n = req[q].ordre
  BY <1>1
<1>3. ordres[n] \in Ordre /\ \A x \in fichiers : x.ordre \in Numeros
  BY UnOrdre DEF IInv, SortieVisee
<1>4. CASE Viser(q)
  <2>1. ordres[n].statut = "BROUILLON"
    BY <1>2, <1>4 DEF Viser, En, Serie, LectureFraiche
  <2>2. ordres' = [ordres EXCEPT ![n].statut = "VISE", ![n].vise = TRUE]
    BY <1>2, <1>4 DEF Viser
  <2>3. /\ Numeros' = Numeros
        /\ ordres'[n] = [ordres[n] EXCEPT !.statut = "VISE", !.vise = TRUE]
        /\ \A m \in Numeros : m # n => ordres'[m] = ordres[m]
    BY <2>2, ViserEcrit DEF IInv
  <2>4. ordres'[n].statut = "VISE" /\ ordres'[n].lignes = ordres[n].lignes
    BY <1>3, <2>3 DEF Ordre
  <2>5. UNCHANGED <<vire, fichiers>>
    BY <1>4 DEF Viser
  <2>6. OrdreVivantUnique' /\ FichiersTransmis'
    BY <1>3, <2>1, <2>3, <2>4, <2>5, StatutSerie
  <2> QED BY <1>4, <2>6, LibreFraiche DEF Viser, IInv, Serie
<1>5. CASE Annuler(q)
  <2>1. ordres[n].statut # "TRANSMIS"
    BY <1>2, <1>5 DEF Annuler, En, Serie, LectureFraiche
  <2>2. ordres' = [ordres EXCEPT ![n].statut = "ANNULE"]
    BY <1>2, <1>5 DEF Annuler
  <2>3. /\ Numeros' = Numeros
        /\ ordres'[n] = [ordres[n] EXCEPT !.statut = "ANNULE"]
        /\ \A m \in Numeros : m # n => ordres'[m] = ordres[m]
    BY <2>2, AnnulerEcrit DEF IInv
  <2>4. ordres'[n].statut = "ANNULE" /\ ordres'[n].lignes = ordres[n].lignes
    BY <1>3, <2>3 DEF Ordre
  <2>5. UNCHANGED <<vire, fichiers>>
    BY <1>5 DEF Annuler
  <2>6. OrdreVivantUnique' /\ FichiersTransmis'
    BY <1>3, <2>1, <2>3, <2>4, <2>5, StatutSerie
  <2> QED BY <1>5, <2>6, LibreFraiche DEF Annuler, IInv, Serie
<1> QED BY <1>4, <1>5

\* What a transmission writes, on an order that was approved until then.
LEMMA TransmissionEcrite ==
    ASSUME IInv, LectureFraiche, NEW q \in Requetes, Transmettre(q)
    PROVE  \E n \in Numeros :
             /\ n = req[q].ordre
             /\ ordres[n] \in Ordre
             /\ ordres[n].statut = "VISE"
             /\ Numeros' = Numeros
             /\ ordres'[n].statut = "TRANSMIS"
             /\ ordres'[n].message = req[q].message
             /\ req[q].message \in Messages
             /\ ordres'[n].lignes = ordres[n].lignes
             /\ \A m \in Numeros : m # n => ordres'[m] = ordres[m]
<1>1. req[q].ordre \in Numeros
  BY DEF Transmettre, En, IInv, OrdresSuivis
<1>2. PICK n \in Numeros : n = req[q].ordre
  BY <1>1
<1>3. ordres[n] \in Ordre /\ ordres[n].statut = "VISE" /\ req[q].message \in Messages
  BY <1>2, UnOrdre, FormeRequete DEF Transmettre, En, LectureFraiche, IInv, TypeOK
<1>4. ordres' = [ordres EXCEPT ![n].statut = "TRANSMIS", ![n].message = req[q].message]
  BY <1>2 DEF Transmettre
<1>5. /\ Numeros' = Numeros
      /\ ordres'[n] = [ordres[n] EXCEPT !.statut = "TRANSMIS", !.message = req[q].message]
      /\ \A m \in Numeros : m # n => ordres'[m] = ordres[m]
  BY <1>3, <1>4, TransmettreEcrit DEF IInv
<1>6. /\ ordres'[n].statut = "TRANSMIS"
      /\ ordres'[n].message = req[q].message
      /\ ordres'[n].lignes = ordres[n].lignes
  BY <1>3, <1>5 DEF Ordre
<1> QED BY <1>2, <1>3, <1>5, <1>6

LEMMA TransmissionSerie ==
    ASSUME UneALaFois, IInv, Serie, NEW q \in Requetes, Transmettre(q)
    PROVE  Serie'
<1>1. PICK n \in Numeros :
             /\ n = req[q].ordre
             /\ ordres[n] \in Ordre
             /\ ordres[n].statut = "VISE"
             /\ Numeros' = Numeros
             /\ ordres'[n].statut = "TRANSMIS"
             /\ ordres'[n].message = req[q].message
             /\ req[q].message \in Messages
             /\ ordres'[n].lignes = ordres[n].lignes
             /\ \A m \in Numeros : m # n => ordres'[m] = ordres[m]
  BY TransmissionEcrite DEF Serie
<1>2. OrdreVivantUnique'
  BY <1>1 DEF Serie, OrdreVivantUnique, Contient
<1>3. /\ fichiers' = fichiers \cup {[ordre |-> n, message |-> req[q].message]}
      /\ vire' = [f \in Factures |-> vire[f] + ordres[n].lignes[f]]
  BY <1>1 DEF Transmettre
<1>4. ASSUME NEW x \in fichiers'
      PROVE  ordres'[x.ordre].statut = "TRANSMIS" /\ ordres'[x.ordre].message = x.message
  <2>1. CASE x \in fichiers
    BY <1>1, <2>1 DEF IInv, SortieVisee, Serie, FichiersTransmis
  <2>2. CASE x.ordre = n /\ x.message = req[q].message
    BY <1>1, <2>2
  <2> QED BY <1>3, <1>4, <2>1, <2>2
<1>5. ASSUME NEW m \in Numeros', ordres'[m].statut = "TRANSMIS"
      PROVE  ordres'[m].message # NUL
  BY <1>1, <1>5, DomainesAssumption DEF Serie, FichiersTransmis
<1>6. ASSUME NEW f \in Factures, vire'[f] > 0
      PROVE  \E m \in Numeros' : ordres'[m].statut = "TRANSMIS" /\ ordres'[m].lignes[f] > 0
  <2>1. vire[f] \in Nat /\ ordres[n].lignes[f] \in Nat
    BY <1>1 DEF IInv, TypeOK, Ordre, Lignes
  <2>2. CASE ordres[n].lignes[f] > 0
    BY <1>1, <2>2
  <2>3. CASE vire[f] > 0
    BY <1>1, <2>3 DEF Serie, FichiersTransmis, Contient
  <2> QED BY <1>3, <1>6, <2>1, <2>2, <2>3
<1>7. FichiersTransmis'
  BY <1>4, <1>5, <1>6 DEF FichiersTransmis, Contient
<1>8. LectureFraiche'
  BY LibreFraiche DEF Transmettre, IInv
<1> QED BY <1>2, <1>7, <1>8 DEF Serie

LEMMA RetelechargerSerie ==
    ASSUME Serie, NEW n \in Numeros, NEW m \in Messages, Retelecharger(n, m)
    PROVE  Serie'
<1>1. UNCHANGED <<factures, saisi, vire, ordres, req>>
  BY DEF Retelecharger
<1>2. ordres[n].statut = "TRANSMIS" /\ ordres[n].message = m
  BY DEF Retelecharger, MessageId, Serie, FichiersTransmis
<1>3. FichiersTransmis'
  BY <1>1, <1>2 DEF Retelecharger, Serie, FichiersTransmis, Numeros, Contient
<1>4. OrdreVivantUnique' /\ LectureFraiche'
  BY <1>1 DEF Serie, OrdreVivantUnique, LectureFraiche, Numeros, Contient, En, Paye,
              DansUnOrdre, Vivant, Reste, MontantAPayer
<1> QED BY <1>3, <1>4 DEF Serie

LEMMA StepSerie ==
    ASSUME UneALaFois, IInv, Serie, [Next]_vars
    PROVE  Serie'
<1>1. ASSUME NEW q \in Requetes, Interrompre(q) \/ ConflitNumero(q)
      PROVE  Serie'
  <2>1. Finir(q) /\ UNCHANGED <<vire, ordres, fichiers>>
    BY <1>1 DEF Interrompre, ConflitNumero
  <2> QED BY <2>1, HorsOrdres, LibreFraiche DEF Serie, IInv
<1>2. ASSUME NEW q \in Requetes, Paiement(q)
      PROVE  Serie'
  BY <1>1, <1>2, LectureSerie, CreationSerie, DecisionSerie, TransmissionSerie
     DEF Paiement
<1>3. CASE UNCHANGED vars
  BY <1>3 DEF vars, Serie, OrdreVivantUnique, LectureFraiche, FichiersTransmis, Numeros,
              Contient, En, Paye, DansUnOrdre, Vivant, Reste, MontantAPayer
<1> QED BY <1>1, <1>2, <1>3, FacturationSerie, RetelechargerSerie DEF Next, IInv

(***************************************************************************)
(* Theorems, one request at a time                                         *)
(***************************************************************************)
\* The inductive invariant of the operation when its requests follow one
\* another: what a handler has read is still true when it writes.
THEOREM SerieInvariante ==
    ASSUME UneALaFois
    PROVE  Spec => []SInv
<1>1. Init => Serie
  <2> SUFFICES ASSUME Init PROVE Serie
    OBVIOUS
  <2>1. Numeros = {}
    BY DEF Init, Numeros
  <2>2. OrdreVivantUnique /\ FichiersTransmis
    BY <2>1 DEF Init, OrdreVivantUnique, FichiersTransmis
  <2>3. LectureFraiche
    BY DEF Init, LectureFraiche, Libre, En
  <2> QED BY <2>2, <2>3 DEF Serie
<1>2. IInv /\ Serie /\ [Next]_vars => Serie'
  BY StepSerie
<1>3. IInv /\ Serie => SInv
  BY DEF SInv, Serie
<1> QED BY <1>1, <1>2, <1>3, Invariance, PTL DEF Spec

\* An invoice is never in two orders that may leave or have left.
THEOREM OrdreUnique ==
    ASSUME UneALaFois
    PROVE  Spec => []OrdreVivantUnique
<1>1. SInv => OrdreVivantUnique
  BY DEF SInv
<1> QED BY <1>1, SerieInvariante, PTL

\* The bank always receives an order under the same identifier.
THEOREM FichierStable ==
    ASSUME UneALaFois
    PROVE  Spec => []UnFichierParOrdre
<1>1. SInv => UnFichierParOrdre
  BY DEF SInv, FichiersTransmis, UnFichierParOrdre
<1> QED BY <1>1, SerieInvariante, PTL

\* No step pays by file an invoice that a file has already paid.
THEOREM VirementSeul ==
    ASSUME UneALaFois
    PROVE  Spec => VirementUnique
<1>1. SInv /\ [Next]_vars => [\A f \in Factures : vire[f] > 0 => vire'[f] = vire[f]]_vars
  <2> SUFFICES ASSUME SInv, Next, NEW f \in Factures, vire[f] > 0
               PROVE  vire'[f] = vire[f]
    OBVIOUS
  <2>1. ASSUME NEW q \in Requetes, Transmettre(q)
        PROVE  vire'[f] = vire[f]
    <3>1. PICK n \in Numeros : n = req[q].ordre /\ ordres[n].statut = "VISE"
      BY <2>1, TransmissionEcrite DEF SInv
    <3>2. PICK m \in Numeros : ordres[m].statut = "TRANSMIS" /\ Contient(m, f)
      BY DEF SInv, FichiersTransmis
    <3>3. ~Contient(n, f)
      BY <3>1, <3>2 DEF SInv, OrdreVivantUnique
    <3>4. ordres[n].lignes[f] \in Nat /\ vire[f] \in Nat
      BY UnOrdre DEF SInv, IInv, TypeOK, Ordre, Lignes
    <3>5. vire'[f] = vire[f] + ordres[n].lignes[f]
      BY <2>1, <3>1 DEF Transmettre
    <3> QED BY <3>3, <3>4, <3>5 DEF Contient
  <2>2. ASSUME NEW q \in Requetes, Paiement(q), ~Transmettre(q)
        PROVE  UNCHANGED vire
    BY <2>2 DEF Paiement, LireFactures, LireNumero, CreerOrdre, ConflitNumero, LireVisa,
                Viser, LireAnnulation, Annuler, LireFichier, PreparerVirements
  <2>3. ASSUME NEW q \in Requetes, Facturation(q) \/ Interrompre(q)
        PROVE  UNCHANGED vire
    BY <2>3 DEF Facturation, LireFacture, Modifier, Analyser, ViserDirectionTravaux, Valider, ChangerStatut,
                EnregistrerPaiement, Interrompre
  <2> QED BY <2>1, <2>2, <2>3 DEF Next, Retelecharger
<1> QED BY <1>1, SerieInvariante, PTL DEF Spec, VirementUnique

\* An order shown as transmitted stays so.
THEOREM TransmisPourDeBon ==
    ASSUME UneALaFois
    PROVE  Spec => TransmisDefinitif
<1>1. SInv /\ [Next]_vars =>
          [\A n \in Numeros : ordres[n].statut = "TRANSMIS"
                                => ordres'[n].statut = "TRANSMIS"]_vars
  <2> SUFFICES ASSUME SInv, Next, NEW n \in Numeros, ordres[n].statut = "TRANSMIS"
               PROVE  ordres'[n].statut = "TRANSMIS"
    OBVIOUS
  <2>1. ASSUME NEW q \in Requetes, Transmettre(q)
        PROVE  ordres'[n] = ordres[n]
    BY <2>1, TransmissionEcrite DEF SInv
  <2>2. ASSUME NEW q \in Requetes, Viser(q) \/ Annuler(q)
        PROVE  ordres'[n] = ordres[n]
    <3>1. req[q].ordre \in Numeros /\ req[q].ordre # n
      BY <2>2 DEF Viser, Annuler, En, SInv, IInv, OrdresSuivis, LectureFraiche
    <3>2. ordres[n] \in Ordre
      BY UnOrdre DEF SInv, IInv
    <3> QED BY <2>2, <3>1, ViserEcrit, AnnulerEcrit DEF Viser, Annuler, SInv, IInv
  <2>3. ASSUME NEW q \in Requetes, CreerOrdre(q)
        PROVE  ordres'[n] = ordres[n]
    <3>1. req[q].lignes \in Lignes
      BY <2>3, FormeRequete DEF CreerOrdre, En, SInv, IInv, TypeOK
    <3>2. [statut |-> "BROUILLON", lignes |-> req[q].lignes,
           vise |-> FALSE, message |-> NUL] \in Ordre
      BY <3>1 DEF Ordre, OrdreStatut
    <3> QED BY <2>3, <3>2, OrdreAjoute DEF CreerOrdre, SInv, IInv
  <2>4. ASSUME NEW q \in Requetes, Paiement(q),
               ~(Transmettre(q) \/ Viser(q) \/ Annuler(q) \/ CreerOrdre(q))
        PROVE  UNCHANGED ordres
    BY <2>4 DEF Paiement, LireFactures, LireNumero, ConflitNumero, LireVisa,
                LireAnnulation, LireFichier, PreparerVirements
  <2>5. ASSUME NEW q \in Requetes, Facturation(q) \/ Interrompre(q)
        PROVE  UNCHANGED ordres
    BY <2>5 DEF Facturation, LireFacture, Modifier, Analyser, ViserDirectionTravaux, Valider, ChangerStatut,
                EnregistrerPaiement, Interrompre
  <2> QED BY <2>1, <2>2, <2>3, <2>4, <2>5 DEF Next, Retelecharger
<1> QED BY <1>1, SerieInvariante, PTL DEF Spec, TransmisDefinitif

\* The analysis only takes an invoice out of reception, and leaves its visa.
LEMMA AnalyseStatut ==
    ASSUME TypeOK, NEW q \in Requetes, NEW ht \in Montant, NEW ttc \in Montant,
           Analyser(q, ht, ttc), req[q].facture \in Factures,
           factures[req[q].facture].statut = req[q].statut, NEW f \in Factures
    PROVE  /\ factures'[f].statut \in {"A_VALIDER", factures[f].statut}
           /\ factures'[f].visa = factures[f].visa
<1> DEFINE g == req[q].facture
           s == IF req[q].statut = "RECUE" THEN "A_VALIDER" ELSE req[q].statut
           h == Complete(req[q].ht, ht)
           t == Complete(req[q].ttc, ttc)
<1>1. factures' = [factures EXCEPT ![g].statut = s, ![g].ht = h, ![g].ttc = t]
  BY DEF Analyser
<1>2. s \in {"A_VALIDER", factures[g].statut} /\ g \in Factures
  OBVIOUS
<1> HIDE DEF g, s, h, t
<1> QED BY <1>1, <1>2 DEF TypeOK, Facture

\* An invoice becomes paid when its payments cover what is to be paid.
THEOREM PayeeEstSoldee ==
    ASSUME UneALaFois
    PROVE  Spec => PassageSolde
<1>1. SInv /\ [Next]_vars =>
          [\A f \in Factures :
              factures[f].statut # "PAYEE" /\ factures'[f].statut = "PAYEE"
                  => saisi'[f] + vire'[f] >= MontantAPayer(f)]_vars
  <2> SUFFICES ASSUME SInv, Next, NEW f \in Factures,
                      factures[f].statut # "PAYEE", factures'[f].statut = "PAYEE"
               PROVE  saisi'[f] + vire'[f] >= MontantAPayer(f)
    OBVIOUS
  <2>1. /\ factures[f] \in Facture
        /\ saisi[f] \in Nat /\ vire[f] \in Nat
        /\ MontantAPayer(f) \in Int
        /\ MontantAPayer(f) <= Du(factures[f].ht, factures[f].ttc)
    BY MontantsEntiers DEF SInv, IInv, TypeOK
  <2>2. ASSUME NEW q \in Requetes, NEW m \in Versements, EnregistrerPaiement(q, m)
        PROVE  saisi'[f] + vire'[f] >= MontantAPayer(f)
    <3>1. /\ req[q].facture \in Factures
          /\ factures[req[q].facture] =
                [statut |-> req[q].statut, ht |-> req[q].ht, ttc |-> req[q].ttc,
               visa |-> req[q].visa]
          /\ req[q].paye = Paye(req[q].facture)
      <4>1. req[q].etat = "facture"
        BY <2>2 DEF EnregistrerPaiement, En
      <4>2. req[q] \in Requete /\ LectureFraiche
        BY DEF SInv, IInv, TypeOK
      <4>3. req[q].facture \in Factures
        BY <4>1, <4>2, FormeRequete
      <4>4. /\ factures[req[q].facture] =
                  [statut |-> req[q].statut, ht |-> req[q].ht, ttc |-> req[q].ttc,
               visa |-> req[q].visa]
            /\ req[q].paye = Paye(req[q].facture)
        BY <4>1, <4>2 DEF En, LectureFraiche
      <4> QED BY <4>3, <4>4
    <3>2. /\ f = req[q].facture
          /\ req[q].paye + m >= Du(req[q].ht, req[q].ttc)
      BY <2>1, <2>2, <3>1 DEF EnregistrerPaiement, SInv, IInv, TypeOK, Facture
    <3>3. req[q].ht = factures[f].ht /\ req[q].ttc = factures[f].ttc
      BY <3>1, <3>2
    <3>4. saisi'[f] = saisi[f] + m /\ vire'[f] = vire[f] /\ m \in Nat
      BY <2>2, <3>2, DomainesAssumption DEF EnregistrerPaiement, SInv, IInv, TypeOK
    <3>5. Du(factures[f].ht, factures[f].ttc) \in Nat
      BY <2>1, DuNat DEF Facture
    <3>6. saisi[f] + vire[f] + m >= Du(factures[f].ht, factures[f].ttc)
      BY <3>1, <3>2, <3>3 DEF Paye
    <3> QED BY <2>1, <3>4, <3>5, <3>6
  <2>3. ASSUME NEW q \in Requetes, Transmettre(q)
        PROVE  saisi'[f] + vire'[f] >= MontantAPayer(f)
    <3>1. PICK n \in Numeros : n = req[q].ordre /\ ordres[n] \in Ordre
      BY <2>3, TransmissionEcrite DEF SInv
    <3>2. f \in req[q].soldees
      BY <2>3 DEF Transmettre
    <3>3. ordres[n].lignes[f] >= Reste(f)
      BY <2>3, <3>1, <3>2 DEF Transmettre, En, SInv, LectureFraiche
    <3>4. vire'[f] = vire[f] + ordres[n].lignes[f] /\ saisi'[f] = saisi[f]
      BY <2>3, <3>1 DEF Transmettre
    <3>5. ordres[n].lignes[f] \in Nat
      BY <3>1 DEF Ordre, Lignes
    <3> QED BY <2>1, <3>3, <3>4, <3>5 DEF Reste, Paye
  <2>4. ASSUME NEW q \in Requetes, NEW ht \in Montant, NEW ttc \in Montant,
               Analyser(q, ht, ttc)
        PROVE  FALSE
    <3>1. /\ req[q].facture \in Factures
          /\ factures[req[q].facture].statut = req[q].statut
      <4>1. req[q].etat = "facture"
        BY <2>4 DEF Analyser, En
      <4>2. req[q] \in Requete /\ LectureFraiche
        BY DEF SInv, IInv, TypeOK
      <4>3. req[q].facture \in Factures
        BY <4>1, <4>2, FormeRequete
      <4>4. factures[req[q].facture] =
                [statut |-> req[q].statut, ht |-> req[q].ht, ttc |-> req[q].ttc,
               visa |-> req[q].visa]
        BY <4>1, <4>2 DEF En, LectureFraiche
      <4> QED BY <4>3, <4>4
    <3>2. factures'[f].statut \in {"A_VALIDER", factures[f].statut}
      BY <2>4, <3>1, AnalyseStatut DEF SInv, IInv
    <3> QED BY <2>1, <3>2
  <2>5. ASSUME NEW q \in Requetes, NEW ht \in Montant \cup {OMIS},
               NEW ttc \in Montant \cup {OMIS}, Modifier(q, ht, ttc)
        PROVE  FALSE
    <3> DEFINE g == req[q].facture
    <3>1. factures' = [factures EXCEPT ![g].ht = Donne(ht, factures[g].ht),
                                       ![g].ttc = Donne(ttc, factures[g].ttc)]
      BY <2>5 DEF Modifier
    <3>2. g \in Factures
      BY <2>5, FormeRequete DEF Modifier, En, SInv, IInv, TypeOK
    <3> HIDE DEF g
    <3> QED BY <2>1, <3>1, <3>2 DEF SInv, IInv, TypeOK, Facture
  <2>6. ASSUME NEW q \in Requetes,
               Valider(q) \/ \E s \in {"LITIGE", "REJETEE", "A_VALIDER"} : ChangerStatut(q, s)
        PROVE  FALSE
    BY <2>1, <2>6 DEF Valider, ChangerStatut, SInv, IInv, TypeOK, Facture
  <2>8. ASSUME NEW q \in Requetes, NEW d \in Decision, ViserDirectionTravaux(q, d)
        PROVE  FALSE
    <3> DEFINE g == req[q].facture
               s == IF d = "REFUSE" THEN "LITIGE" ELSE "A_VALIDER"
    <3>1. factures' = [factures EXCEPT ![g].visa = d, ![g].statut = s] /\ s # "PAYEE"
      BY <2>8 DEF ViserDirectionTravaux
    <3> HIDE DEF g, s
    <3> QED BY <2>1, <3>1 DEF SInv, IInv, TypeOK, Facture
  <2>7. ASSUME NEW q \in Requetes, Paiement(q), ~Transmettre(q)
        PROVE  FALSE
    BY <2>7 DEF Paiement, LireFactures, LireNumero, CreerOrdre, ConflitNumero, LireVisa,
                Viser, LireAnnulation, Annuler, LireFichier, PreparerVirements
  <2> QED BY <2>2, <2>3, <2>4, <2>5, <2>6, <2>7, <2>8
          DEF Next, Facturation, LireFacture, Interrompre, Retelecharger
<1>2. SInv /\ [Next]_vars =>
          [\A f \in Factures :
              /\ saisi'[f] > saisi[f]
              /\ Du(factures[f].ht, factures[f].ttc) # 0
              /\ saisi'[f] + vire'[f] >= Du(factures[f].ht, factures[f].ttc)
              => factures'[f].statut = "PAYEE"]_vars
  <2> SUFFICES ASSUME SInv, Next, NEW f \in Factures, saisi'[f] > saisi[f],
                      Du(factures[f].ht, factures[f].ttc) # 0,
                      saisi'[f] + vire'[f] >= Du(factures[f].ht, factures[f].ttc)
               PROVE  factures'[f].statut = "PAYEE"
    OBVIOUS
  <2>1. saisi[f] \in Nat /\ vire[f] \in Nat
    BY DEF SInv, IInv, TypeOK
  <2>2. PICK q \in Requetes, m \in Versements : EnregistrerPaiement(q, m)
    <3>1. saisi' # saisi
      BY <2>1
    <3> QED BY <3>1 DEF Next, Facturation, Paiement, Retelecharger, LireFacture, Modifier,
                Analyser, ViserDirectionTravaux, Valider, ChangerStatut, LireFactures, LireNumero, CreerOrdre,
                ConflitNumero, LireVisa, Viser, LireAnnulation, Annuler, LireFichier,
                PreparerVirements, Transmettre, Interrompre
  <2>3. /\ req[q].facture \in Factures
        /\ factures[req[q].facture] =
              [statut |-> req[q].statut, ht |-> req[q].ht, ttc |-> req[q].ttc,
               visa |-> req[q].visa]
        /\ req[q].paye = Paye(req[q].facture)
    <3>1. req[q].etat = "facture"
      BY <2>2 DEF EnregistrerPaiement, En
    <3>2. req[q] \in Requete /\ LectureFraiche
      BY DEF SInv, IInv, TypeOK
    <3> QED BY <3>1, <3>2, FormeRequete DEF En, LectureFraiche
  <2>4. f = req[q].facture
    BY <2>1, <2>2, <2>3 DEF EnregistrerPaiement, SInv, IInv, TypeOK
  <2>5. saisi'[f] = saisi[f] + m /\ vire'[f] = vire[f] /\ m \in Nat
    BY <2>2, <2>4, DomainesAssumption DEF EnregistrerPaiement, SInv, IInv, TypeOK
  <2>6. req[q].ht = factures[f].ht /\ req[q].ttc = factures[f].ttc
    BY <2>3, <2>4
  <2>7. Du(factures[f].ht, factures[f].ttc) \in Nat
    BY DuNat DEF Facture, SInv, IInv, TypeOK
  <2>8. req[q].paye + m >= Du(req[q].ht, req[q].ttc)
    BY <2>1, <2>3, <2>4, <2>5, <2>6, <2>7 DEF Paye
  <2>9. factures' = [factures EXCEPT ![f].statut = "PAYEE"]
    BY <2>2, <2>4, <2>6, <2>8 DEF EnregistrerPaiement
  <2> QED BY <2>9 DEF SInv, IInv, TypeOK, Facture
<1>3. SInv /\ [Next]_vars =>
          [\A f \in Factures :
              /\ factures[f].statut # "PAYEE" /\ factures'[f].statut = "PAYEE"
                     => saisi'[f] + vire'[f] >= MontantAPayer(f)
              /\ /\ saisi'[f] > saisi[f]
                 /\ Du(factures[f].ht, factures[f].ttc) # 0
                 /\ saisi'[f] + vire'[f] >= Du(factures[f].ht, factures[f].ttc)
                 => factures'[f].statut = "PAYEE"]_vars
  BY <1>1, <1>2
<1> QED BY <1>3, SerieInvariante, PTL DEF Spec, PassageSolde

\* The machine never overwrites what a person typed or decided.
THEOREM MachineComplete ==
    ASSUME UneALaFois
    PROVE  Spec => RienNEcrase
<1>1. SInv =>
          \A q \in Requetes : \A f \in Factures :
            (\E ht, ttc \in Montant : Analyser(q, ht, ttc)) =>
              /\ factures[f].ht # NUL => factures'[f].ht = factures[f].ht
              /\ factures[f].ttc # NUL => factures'[f].ttc = factures[f].ttc
              /\ factures[f].statut # "RECUE"
                     => factures'[f].statut = factures[f].statut
  <2> SUFFICES ASSUME SInv, NEW q \in Requetes, NEW f \in Factures,
                      NEW ht \in Montant, NEW ttc \in Montant, Analyser(q, ht, ttc)
               PROVE  /\ factures[f].ht # NUL => factures'[f].ht = factures[f].ht
                      /\ factures[f].ttc # NUL => factures'[f].ttc = factures[f].ttc
                      /\ factures[f].statut # "RECUE"
                             => factures'[f].statut = factures[f].statut
    OBVIOUS
  <2>1. /\ req[q].facture \in Factures
        /\ factures[req[q].facture] =
              [statut |-> req[q].statut, ht |-> req[q].ht, ttc |-> req[q].ttc,
               visa |-> req[q].visa]
    BY FormeRequete DEF Analyser, En, SInv, IInv, TypeOK, LectureFraiche
  <2> DEFINE g == req[q].facture
             s == IF req[q].statut = "RECUE" THEN "A_VALIDER" ELSE req[q].statut
             h == Complete(req[q].ht, ht)
             t == Complete(req[q].ttc, ttc)
  <2>2. factures' = [factures EXCEPT ![g].statut = s, ![g].ht = h, ![g].ttc = t]
    BY DEF Analyser
  <2>3. /\ factures[g].ht # NUL => h = factures[g].ht
        /\ factures[g].ttc # NUL => t = factures[g].ttc
        /\ factures[g].statut # "RECUE" => s = factures[g].statut
    BY <2>1 DEF Complete
  <2> HIDE DEF g, s, h, t
  <2> QED BY <2>2, <2>3 DEF SInv, IInv, TypeOK, Facture
<1> QED BY <1>1, SerieInvariante, PTL DEF RienNEcrase

\* What an invoice handler read is what its invoice and its payments are.
LEMMA FactureLue ==
    ASSUME SInv, NEW q \in Requetes, En(q, "facture")
    PROVE  /\ req[q].facture \in Factures
           /\ req[q].statut = factures[req[q].facture].statut
           /\ req[q].paye = Paye(req[q].facture)
<1>1. req[q].facture \in Factures
  BY FormeRequete DEF En, SInv, IInv, TypeOK
<1>2. /\ factures[req[q].facture] =
            [statut |-> req[q].statut, ht |-> req[q].ht, ttc |-> req[q].ttc,
             visa |-> req[q].visa]
      /\ req[q].paye = Paye(req[q].facture)
  BY DEF SInv, LectureFraiche
<1> QED BY <1>1, <1>2

\* Neither rejected, nor in dispute without a refusal of the site management.
Tenue(f) ==
    /\ factures[f].statut # "REJETEE"
    /\ factures[f].statut = "LITIGE" => factures[f].visa = "REFUSE"

\* A payment and a rejection do not cross: an invoice with a payment entered
\* on it is never rejected, and in dispute only by a refusal of the site
\* management, whatever is endorsed, refused, reopened and paid.
THEOREM SansOrphelin ==
    ASSUME UneALaFois
    PROVE  Spec => []PaiementsSansOrphelin
<1>1. Init => PaiementsSansOrphelin
  BY DEF Init, PaiementsSansOrphelin
<1>2. SInv /\ PaiementsSansOrphelin /\ [Next]_vars => PaiementsSansOrphelin'
  <2> SUFFICES ASSUME SInv, PaiementsSansOrphelin, [Next]_vars, NEW f \in Factures,
                      saisi'[f] > 0
               PROVE  Tenue(f)'
    BY DEF PaiementsSansOrphelin, Tenue
  <2>1. /\ factures \in [Factures -> Facture] /\ factures[f] \in Facture
        /\ saisi \in [Factures -> Nat]
        /\ saisi[f] \in Nat /\ vire[f] \in Nat
    BY DEF SInv, IInv, TypeOK
  <2>2. ASSUME saisi'[f] = saisi[f],
               factures'[f].statut \in {"A_VALIDER", "VALIDEE", "PAYEE", factures[f].statut},
               factures'[f].visa = factures[f].visa
        PROVE  Tenue(f)'
    BY <2>2 DEF PaiementsSansOrphelin, Tenue
  <2>3. ASSUME NEW q \in Requetes, NEW ht \in Montant \cup {OMIS},
               NEW ttc \in Montant \cup {OMIS}, Modifier(q, ht, ttc)
        PROVE  Tenue(f)'
    <3>1. req[q].facture \in Factures
      BY <2>3, FactureLue DEF Modifier
    <3>2. factures'[f].statut = factures[f].statut /\ factures'[f].visa = factures[f].visa
      BY <2>1, <2>3, <3>1 DEF Modifier, Facture
    <3> QED BY <2>2, <2>3, <3>2 DEF Modifier
  <2>4. ASSUME NEW q \in Requetes, NEW ht \in Montant, NEW ttc \in Montant,
               Analyser(q, ht, ttc)
        PROVE  Tenue(f)'
    <3>1. req[q].facture \in Factures /\ req[q].statut = factures[req[q].facture].statut
      BY <2>4, FactureLue DEF Analyser
    <3>2. /\ factures'[f].statut \in {"A_VALIDER", factures[f].statut}
          /\ factures'[f].visa = factures[f].visa
      BY <2>4, <3>1, AnalyseStatut DEF SInv, IInv
    <3> QED BY <2>2, <2>4, <3>2 DEF Analyser
  <2>5. ASSUME NEW q \in Requetes, Valider(q)
        PROVE  Tenue(f)'
    <3>1. /\ factures'[f].statut \in {"VALIDEE", factures[f].statut}
          /\ factures'[f].visa = factures[f].visa
      BY <2>1, <2>5 DEF Valider, Facture
    <3> QED BY <2>2, <2>5, <3>1 DEF Valider
  <2>6. ASSUME NEW q \in Requetes, NEW s \in {"LITIGE", "REJETEE", "A_VALIDER"},
               ChangerStatut(q, s)
        PROVE  Tenue(f)'
    <3>1. req[q].facture \in Factures /\ req[q].paye = Paye(req[q].facture)
      BY <2>6, FactureLue DEF ChangerStatut
    <3>2. saisi'[f] = saisi[f] /\ factures'[f].visa = factures[f].visa
      BY <2>1, <2>6, <3>1 DEF ChangerStatut, Facture
    <3>3. CASE f = req[q].facture
      <4>1. req[q].paye > 0
        BY <2>1, <3>1, <3>2, <3>3 DEF Paye
      <4>2. factures'[f].statut = "A_VALIDER"
        BY <2>1, <2>6, <3>3, <4>1 DEF ChangerStatut, Facture
      <4> QED BY <2>2, <3>2, <4>2
    <3>4. CASE f # req[q].facture
      <4>1. factures'[f] = factures[f]
        BY <2>1, <2>6, <3>4 DEF ChangerStatut
      <4> QED BY <2>2, <3>2, <4>1
    <3> QED BY <3>3, <3>4
  <2>7. ASSUME NEW q \in Requetes, NEW m \in Versements, EnregistrerPaiement(q, m)
        PROVE  Tenue(f)'
    <3>1. /\ req[q].facture \in Factures
          /\ factures[req[q].facture].statut \in {"VALIDEE", "PAYEE"}
      BY <2>7, FactureLue DEF EnregistrerPaiement
    <3>2. CASE f = req[q].facture
      BY <2>1, <2>7, <3>1, <3>2 DEF EnregistrerPaiement, Facture, Tenue
    <3>3. CASE f # req[q].facture
      <4>1. factures'[f] = factures[f] /\ saisi'[f] = saisi[f]
        BY <2>1, <2>7, <3>3 DEF EnregistrerPaiement
      <4> QED BY <2>2, <4>1
    <3> QED BY <3>2, <3>3
  <2>8. ASSUME NEW q \in Requetes, NEW d \in Decision, ViserDirectionTravaux(q, d)
        PROVE  Tenue(f)'
    <3>1. req[q].facture \in Factures
      BY <2>8, FactureLue DEF ViserDirectionTravaux
    <3>2. CASE f = req[q].facture
      BY <2>1, <2>8, <3>1, <3>2 DEF ViserDirectionTravaux, Facture, Tenue
    <3>3. CASE f # req[q].facture
      <4>1. factures'[f] = factures[f] /\ saisi'[f] = saisi[f]
        BY <2>1, <2>8, <3>3 DEF ViserDirectionTravaux
      <4> QED BY <2>2, <4>1
    <3> QED BY <3>2, <3>3
  <2>9. ASSUME NEW q \in Requetes, Transmettre(q)
        PROVE  Tenue(f)'
    <3>1. /\ factures'[f].statut \in {"PAYEE", factures[f].statut}
          /\ factures'[f].visa = factures[f].visa
      BY <2>1, <2>9 DEF Transmettre, Facture
    <3> QED BY <2>2, <2>9, <3>1 DEF Transmettre
  <2>10. ASSUME UNCHANGED <<factures, saisi>>
        PROVE  Tenue(f)'
    BY <2>2, <2>10
  <2>11. ASSUME NEW q \in Requetes, Paiement(q) PROVE Tenue(f)'
    BY <2>9, <2>10, <2>11 DEF Paiement, LireFactures, LireNumero, CreerOrdre,
       ConflitNumero, LireVisa, Viser, LireAnnulation, Annuler, LireFichier,
       PreparerVirements
  <2>12. ASSUME NEW q \in Requetes, Facturation(q) PROVE Tenue(f)'
    BY <2>3, <2>4, <2>5, <2>6, <2>7, <2>8, <2>10, <2>12 DEF Facturation, LireFacture
  <2> QED BY <2>10, <2>11, <2>12 DEF Next, Interrompre, Retelecharger, vars
<1> QED BY <1>1, <1>2, SerieInvariante, PTL DEF Spec
=============================================================================
