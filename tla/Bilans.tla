------------------------------- MODULE Bilans -------------------------------
(***************************************************************************)
(* The figures a developer decides on, which several screens and documents *)
(* work out for themselves: the balance of an operation and its printed    *)
(* estimate, the land, the shares of the lots, the cash.  Pure functions.  *)
(*                                                                         *)
(* Amounts are in centimes, rates in hundredths of a percent, indices in   *)
(* hundredths.                                                             *)
(***************************************************************************)
EXTENDS Integers, Sequences, FiniteSets, SequencesExt

CONSTANTS
    Garde,    \* how many months comblerMois lays out at most
    NUL

Ou0(x) == IF x = NUL THEN 0 ELSE x

\* n/d to the nearest unit, halves away from zero.
Arrondi(n, d) == IF n < 0 THEN -((2 * (-n) + d) \div (2 * d)) ELSE (2 * n + d) \div (2 * d)

Total(s) == FoldLeft(LAMBDA t, x : t + Ou0(x), 0, s)
Colonne(f(_), s) == [i \in DOMAIN s |-> f(s[i])]

(***************************************************************************)
(* The balance and the estimate                                            *)
(***************************************************************************)
\* couts: [groupe, racine, montant, reserve]; racine is the post of the tree
\* the line ends under.
Montants(couts) == Colonne(LAMBDA l : l.montant, couts)

\* Mutant: the provisions are left out of the groups.
ParGroupe_SansReserves(couts) ==
    [g \in {couts[i].groupe : i \in DOMAIN couts} |->
        Total(Montants(SelectSeq(couts, LAMBDA l : l.groupe = g /\ ~l.reserve)))]

ParGroupe(couts) ==
    [g \in {couts[i].groupe : i \in DOMAIN couts} |->
        Total(Montants(SelectSeq(couts, LAMBDA l : l.groupe = g)))]

\* recettes: [prix, parkings].
CalculerBilan(couts, recettes) ==
    LET total == Total(Montants(couts))
        reserves == Total(Montants(SelectSeq(couts, LAMBDA l : l.reserve)))
        lots == Total(Colonne(LAMBDA r : r.prix, recettes))
        parkings == Total(FlattenSeq(Colonne(LAMBDA r : r.parkings, recettes)))
        marge == lots + parkings - total
    IN [total |-> total, reserves |-> reserves, horsReserves |-> total - reserves,
        parGroupe |-> ParGroupe(couts), recettes |-> lots + parkings,
        nombreLots |-> Len(recettes), marge |-> marge,
        taux |-> IF lots + parkings = 0 THEN NUL ELSE Arrondi(marge * 10000, lots + parkings)]

\* pourOperation: without a lot, what the operation expects stands for one
\* that is not counted.
PourOperation(couts, lots, previsionnel) ==
    LET estimees == lots = <<>> /\ previsionnel # NUL
        recettes == IF estimees THEN <<[prix |-> previsionnel, parkings |-> <<>>]>> ELSE lots
    IN [bilan |-> [CalculerBilan(couts, recettes) EXCEPT !.nombreLots = Len(lots)],
        estimees |-> estimees]

\* donneesEstimatif: the posts at the root of the tree, and what is expected.
Estimatif(couts, previsionnel) ==
    LET racines == {couts[i].racine : i \in DOMAIN couts}
        montant(r) == Total(Montants(SelectSeq(couts, LAMBDA l : l.racine = r)))
    IN [postes |-> [r \in {x \in racines : montant(x) # 0} |-> montant(r)],
        total |-> Total(Montants(couts)),
        benefice |-> IF previsionnel = NUL THEN NUL ELSE previsionnel - Total(Montants(couts))]

(***************************************************************************)
(* The shares of the lots                                                  *)
(***************************************************************************)
\* lots: [quotePart, surface].
Poids(lot, cle) ==
    CASE cle = "QUOTE_PART_PPE" -> Ou0(lot.quotePart)
      [] cle = "SURFACE" -> Ou0(lot.surface)
      [] cle = "EGALITE" -> 1

CleEffective(lots, cle) ==
    IF Total(Colonne(LAMBDA l : Poids(l, cle), lots)) = 0 THEN "EGALITE" ELSE cle

\* Mutant: what rounding leaves over is left over.
Reliquat_Perdu(total, parts) == 0

Reliquat(total, parts) == total - Total(parts)

\* The last lot takes what rounding leaves over.
Ventiler(total, lots, cle) ==
    LET poids == Colonne(LAMBDA l : Poids(l, CleEffective(lots, cle)), lots)
        parts == Colonne(LAMBDA p : Arrondi(total * p, Total(poids)), poids)
    IN IF lots = <<>> THEN <<>>
       ELSE [parts EXCEPT ![Len(parts)] = @ + Reliquat(total, parts)]

\* registrePpe; millemes: what the deed of constitution gives, a thousand
\* without one.
Registre(lots, millemes) ==
    LET somme == Total(Colonne(LAMBDA l : l.quotePart, lots))
        attendu == IF millemes = NUL THEN 1000 ELSE millemes
    IN [total |-> attendu, ecart |-> somme - attendu, coherent |-> somme = attendu]

(***************************************************************************)
(* The land                                                                *)
(***************************************************************************)
\* parcelles: [surface, prix, ibus, zones, achetee, frais]; a zone of a
\* parcel: [surface, ibus].
Indicees(p) == SelectSeq(p.zones, LAMBDA z : z.ibus # NUL /\ z.surface # NUL)
SbpDesZones(p) == Total(Colonne(LAMBDA z : z.surface * z.ibus, Indicees(p)))

\* The screen: what the zones give as soon as one has its index.
Sbp(p) ==
    IF Indicees(p) # <<>> THEN SbpDesZones(p)
    ELSE IF p.ibus # NUL /\ p.surface # NUL THEN p.surface * p.ibus ELSE NUL

\* The document works it out again.  Mutant: on the index of the parcel.
SbpPdf_DeLaParcelle(p) == Ou0(p.surface) * Ou0(p.ibus)
SbpPdf(p) == IF Indicees(p) # <<>> THEN SbpDesZones(p) ELSE Ou0(p.surface) * Ou0(p.ibus)

\* Bought, and what it cost at the notary's is known from the deed.
Connue(p) == p.achetee /\ p.frais # NUL

\* assiette, what the screen shows.  o: [notaire, mutation]; taux: of the
\* canton, or NUL.  Fees are in ten-thousandths of a centime, exact.
Assiette(parcelles, o, taux) ==
    LET saisis == Ou0(o.notaire) + Ou0(o.mutation)
        reels == Total(Colonne(LAMBDA p : p.frais, SelectSeq(parcelles, Connue)))
        reste == Total(Colonne(LAMBDA p : p.prix, SelectSeq(parcelles, LAMBDA p : ~Connue(p))))
        estimation == IF saisis = 0 /\ taux # NUL /\ reste > 0 THEN reste * taux ELSE NUL
    IN [surface |-> Total(Colonne(LAMBDA p : p.surface, parcelles)),
        prix |-> Total(Colonne(LAMBDA p : p.prix, parcelles)),
        sbp |-> Total(Colonne(Sbp, parcelles)),
        frais |-> IF saisis > 0 THEN 10000 * saisis ELSE 10000 * reels + Ou0(estimation),
        estimes |-> estimation # NUL]

\* donneesEstimatif, what the document prints.
AssiettePdf(parcelles, o, taux) ==
    LET saisis == Ou0(o.notaire) + Ou0(o.mutation)
        prix == Total(Colonne(LAMBDA p : p.prix, parcelles))
        estimation == IF saisis = 0 /\ taux # NUL /\ prix > 0 THEN prix * taux ELSE NUL
    IN [surface |-> Total(Colonne(LAMBDA p : p.surface, parcelles)),
        prix |-> prix,
        sbp |-> Total(Colonne(SbpPdf, parcelles)),
        frais |-> IF saisis > 0 THEN 10000 * saisis ELSE Ou0(estimation),
        estimes |-> estimation # NUL]

(***************************************************************************)
(* The cash                                                                *)
(***************************************************************************)
\* Mutant: the year does not turn.
Suivant_MemeAnnee(m) == IF m.mois = 12 THEN [m EXCEPT !.mois = 1] ELSE [m EXCEPT !.mois = @ + 1]

Suivant(m) ==
    IF m.mois = 12 THEN [annee |-> m.annee + 1, mois |-> 1] ELSE [m EXCEPT !.mois = @ + 1]

Precede(m, n) == m.annee < n.annee \/ (m.annee = n.annee /\ m.mois <= n.mois)

\* comblerMois, one month after the other until the last one, or the guard.
ComblerMois(debut, fin) ==
    FoldLeft(LAMBDA s, i : IF Last(s) = fin THEN s ELSE Append(s, Suivant(Last(s))),
             <<debut>>, [i \in 1..(Garde - 1) |-> i])

\* From the first month to the last.
MoisCouverts(dates) ==
    IF dates = {} THEN <<>>
    ELSE ComblerMois(CHOOSE m \in dates : \A n \in dates : Precede(m, n),
                     CHOOSE m \in dates : \A n \in dates : Precede(n, m))

\* The lowest position, the first of them.
Creux(cumul) == CHOOSE i \in DOMAIN cumul : \A j \in DOMAIN cumul :
                    cumul[i] <= cumul[j] /\ (cumul[i] = cumul[j] => i <= j)

\* mouvements: [mois, montant, entree], over the months cles.
ParMois(mouvements, cles) ==
    LET flux(m, entree) == Total(Colonne(LAMBDA x : x.montant,
            SelectSeq(mouvements, LAMBDA x : x.mois = m /\ x.entree = entree)))
        net == Colonne(LAMBDA m : flux(m, TRUE) - flux(m, FALSE), cles)
        cumul == [i \in DOMAIN cles |-> Total(SubSeq(net, 1, i))]
    IN [mois |-> cles, net |-> net, cumul |-> cumul,
        encaisse |-> Total(Colonne(LAMBDA m : flux(m, TRUE), cles)),
        decaisse |-> Total(Colonne(LAMBDA m : flux(m, FALSE), cles)),
        position |-> IF cles = <<>> THEN 0 ELSE Last(cumul),
        creux |-> IF cles = <<>> THEN NUL ELSE Creux(cumul)]

Consolider(mouvements) ==
    ParMois(mouvements, MoisCouverts({mouvements[i].mois : i \in DOMAIN mouvements}))

\* etatAppel.
EtatAppel(a, maintenant) ==
    LET encaisse == Total(a.recus)
    IN [encaisse |-> encaisse, solde |-> a.montant - encaisse, regle |-> encaisse >= a.montant,
        partiel |-> encaisse > 0 /\ encaisse < a.montant,
        enRetard |-> encaisse < a.montant /\ a.echeance # NUL /\ a.echeance < maintenant]

\* Mutant: a call paid too much takes from what the others owe.
Vivantes_Toutes(soldes) == soldes
Vivantes(soldes) == SelectSeq(soldes, LAMBDA s : s > 0)

Ouvert(a) == a.statut \in {"EMIS", "ENVOYE", "PARTIELLEMENT_PAYE", "EN_RETARD"}

\* situation, what is expected: calls: [statut, montant, recus]; contracts:
\* [montant, avenants]; invoices: [statut, ht].
Situation(appels, contrats, factures) ==
    LET soldes == Vivantes(Colonne(LAMBDA a : a.montant - Total(a.recus),
                                   SelectSeq(appels, Ouvert)))
        commande == Total(Colonne(LAMBDA c : c.montant + Total(c.avenants), contrats))
        facture == Total(Colonne(LAMBDA f : f.ht,
                                 SelectSeq(factures, LAMBDA f : f.statut \in {"VALIDEE", "PAYEE"})))
    IN [creances |-> Total(soldes), nombre |-> Len(soldes), commande |-> commande,
        facture |-> facture, reste |-> commande - facture]

(***************************************************************************)
(* Properties                                                              *)
(***************************************************************************)
EcartAbs(a, b) == IF a < b THEN b - a ELSE a - b

\* calculerBilan and donneesEstimatif, the screen and the document a bank is
\* shown: on codes that start as the root of their post does, they give the
\* same amount to each group and the same profit while the sales are expected
\* ones; an expected sale is never counted as a lot.
BilansAccordes(couts, lots, previsionnels) ==
    \A C \in couts, L \in lots, p \in previsionnels :
        \A o \in {PourOperation(C, L, p)}, e \in {Estimatif(C, p)} :
           /\ o.bilan.total = e.total
           /\ \A g \in DOMAIN e.postes : e.postes[g] = o.bilan.parGroupe[g]
           /\ \A g \in DOMAIN o.bilan.parGroupe \ DOMAIN e.postes : o.bilan.parGroupe[g] = 0
           /\ o.estimees => o.bilan.marge = e.benefice /\ o.bilan.nombreLots = 0
           /\ o.bilan.taux # NUL => (o.bilan.taux > 0 => o.bilan.marge > 0)

\* ventiler, "la somme des parts egale exactement le montant ventile", and
\* registrePpe: the shares add up to the budget, each but the last is the
\* nearest centime to its weight, and where the register of the building is
\* coherent a share is what its thousandths say.
PartsFermees(totaux, lots, millemes) ==
    \A t \in totaux, L \in lots, c \in {"QUOTE_PART_PPE", "SURFACE", "EGALITE"}, m \in millemes :
        \A parts \in {Ventiler(t, L, c)}, r \in {Registre(L, m)} :
        LET poids(i) == Poids(L[i], CleEffective(L, c))
            somme == Total([i \in DOMAIN L |-> poids(i)])
        IN L # <<>> =>
              /\ Total(parts) = t
              /\ \A i \in 1..(Len(L) - 1) : 2 * EcartAbs(parts[i] * somme, t * poids(i)) <= somme
              /\ 2 * EcartAbs(parts[Len(L)] * somme, t * poids(Len(L))) <= somme * Len(L)
              /\ (r.coherent /\ c = "QUOTE_PART_PPE") => \A i \in 1..(Len(L) - 1) :
                    parts[i] = Arrondi(t * Ou0(L[i].quotePart), r.total)

\* donneesEstimatif, "le PDF doit porter les memes chiffres que l'ecran
\* Foncier": surfaces, price and floor area agree, and so do the fees as long
\* as no parcel is bought with fees known from its deed, or the fees of the
\* operation are typed in.
TerrainAccorde(terrains, operations, taux) ==
    \A T \in terrains, o \in operations, x \in taux :
        \A e \in {Assiette(T, o, x)}, d \in {AssiettePdf(T, o, x)} :
           /\ e.surface = d.surface /\ e.prix = d.prix /\ e.sbp = d.sbp
           /\ (\A i \in DOMAIN T : ~Connue(T[i])) \/ Ou0(o.notaire) + Ou0(o.mutation) > 0
                 => e.frais = d.frais /\ e.estimes = d.estimes

\* consolider, "un tableau qui saute de mars a juillet fausse la lecture du
\* creux": months follow one another from the first to the last, no movement
\* is left out, and the low point is the first of the lowest positions.
TresorerieSuivie(releves) ==
    \A R \in releves :
        \A c \in {Consolider(R)} :
        LET entrees == Total(Colonne(LAMBDA x : IF x.entree THEN x.montant ELSE 0, R))
            sorties == Total(Colonne(LAMBDA x : IF x.entree THEN 0 ELSE x.montant, R))
        IN /\ c.encaisse = entrees /\ c.decaisse = sorties /\ c.position = entrees - sorties
           /\ \A i \in 2..Len(c.mois) :
                 /\ c.mois[i] # c.mois[i - 1] /\ Precede(c.mois[i - 1], c.mois[i])
                 /\ 12 * c.mois[i].annee + c.mois[i].mois
                       = 12 * c.mois[i - 1].annee + c.mois[i - 1].mois + 1
           /\ \A i \in DOMAIN R : \E j \in DOMAIN c.mois : c.mois[j] = R[i].mois
           /\ \A i \in DOMAIN c.mois : i < c.creux => c.cumul[i] > c.cumul[c.creux]

\* situation and etatAppel, the treasury and the list of calls: a call its
\* own screen says is settled is expected nowhere, and what is expected is
\* what the others are short of.
CreancesVives(suivis, maintenant) ==
    \A A \in suivis :
        \A s \in {Situation(A, <<>>, <<>>)} :
        LET dus == SelectSeq(A, LAMBDA a : Ouvert(a) /\ ~EtatAppel(a, maintenant).regle)
        IN /\ s.nombre = Len(dus)
           /\ s.creances = Total(Colonne(LAMBDA a : EtatAppel(a, maintenant).solde, dus))
           /\ \A i \in DOMAIN A : EtatAppel(A[i], maintenant).enRetard /\ Ouvert(A[i])
                 => s.creances >= EtatAppel(A[i], maintenant).solde
=============================================================================
