------------------------------ MODULE Montants ------------------------------
(***************************************************************************)
(* The amounts people decide on: calls for funds, commissions, compared    *)
(* bids, scores, weighed against what they should come to.  Pure           *)
(* functions, over bounded inputs.                                         *)
(*                                                                         *)
(* Amounts are in centimes, percentages in hundredths of a percent.        *)
(***************************************************************************)
EXTENDS Integers, Sequences, SequencesExt

CONSTANTS
    Prix,          \* prices of lots, amounts of bids
    Echeanciers,   \* schedules: sequences of percentages, NUL for a milestone
    Taux,          \* percentages of commissions
    Offres,        \* sets of bids under one tender
    Criteres,      \* sequences of criteria
    Notes,         \* marks a jury may give, in hundredths out of 10
    NUL

(***************************************************************************)
(* Calls for funds                                                         *)
(***************************************************************************)
\* n/d to the nearest unit, halves up.
Arrondi(n, d) == (2 * n + d) \div (2 * d)

Somme(s) == FoldLeft(LAMBDA t, x : t + x, 0, s)

\* Mutant: truncated to the centime.
MontantAppel_Tronque(pct, prix) == (prix * pct) \div 10000

MontantAppel(pct, prix) == Arrondi(prix * pct, 10000)

Appelantes(etapes) == SelectSeq(etapes, LAMBDA p : p # NUL)

ControleEcheancier(etapes) ==
    LET somme == Somme(Appelantes(etapes))
    IN [complet |-> somme = 10000, ecart |-> somme - 10000,
        appels |-> Len(Appelantes(etapes)), jalons |-> Len(etapes) - Len(Appelantes(etapes))]

\* What a reservation taken late is shown: every finished step that calls, and
\* what is left to choose.  etapes: sequence of [pct, finie].
Finies(etapes) == {n \in DOMAIN etapes : etapes[n].finie /\ etapes[n].pct # NUL}

\* Mutant: the total is of every step shown, called already or not.
AChoisir_Tout(etapes, appelees) == Finies(etapes)

AChoisir(etapes, appelees) == Finies(etapes) \ appelees

EtapesRattrapables(etapes, prix, appelees) ==
    LET montant == [n \in Finies(etapes) |->
                       IF prix = NUL THEN NUL ELSE MontantAppel(etapes[n].pct, prix)]
    IN [montant |-> montant, attente |-> AChoisir(etapes, appelees),
        total |-> IF prix = NUL THEN 0
                  ELSE MapThenSumSet(LAMBDA n : montant[n], AChoisir(etapes, appelees))]

\* What choosing some of them creates: nothing at all when one is not such a
\* step, or when the reservation is not engaged.
Rattraper(etapes, prix, engagee, appelees, choix) ==
    IF ~engagee \/ ~(choix \subseteq Finies(etapes)) THEN [refus |-> TRUE, crees |-> <<>>]
    ELSE [refus |-> FALSE,
          crees |-> [n \in IF prix = NUL THEN {} ELSE choix \ appelees |->
                        MontantAppel(etapes[n].pct, prix)]]

(***************************************************************************)
(* Commissions                                                             *)
(***************************************************************************)
\* Mutant: the base is rounded before the rate applies.
MontantCommission_DeuxArrondis(pct, ttc, prix) ==
    Arrondi((IF ttc THEN Arrondi(prix * 1081, 1000) ELSE prix) * pct, 10000)

\* calculerCommission, at a percentage: VAT of 8.1 % is put back first when
\* the mandate says so.
MontantCommission(pct, ttc, prix) ==
    Arrondi(prix * (IF ttc THEN 1081 ELSE 1000) * pct, 10000000)

(***************************************************************************)
(* Bids                                                                    *)
(***************************************************************************)
Net(o) == IF o.montant = NUL THEN NUL ELSE Arrondi(o.montant * (10000 - o.remise), 10000)

Comparables(O) == {o \in O : ~o.ecartee /\ o.montant # NUL /\ o.montant > 0}

\* Mutant: of two equal bids, the one with the lower number goes first.
Avant_Numero(a, b) == Net(a) < Net(b) \/ (Net(a) = Net(b) /\ a.id < b.id)

\* The cheaper goes first; of two equal ones, the first that came.
Avant(a, b) ==
    \/ Net(a) < Net(b)
    \/ /\ Net(a) = Net(b)
       /\ \/ a.recue # NUL /\ (b.recue = NUL \/ a.recue < b.recue)
          \/ a.recue = b.recue /\ a.id < b.id

Classement(O) == SetToSortSeq(Comparables(O), Avant)
Rang(O, o) == IF o \in Comparables(O) THEN CHOOSE n \in DOMAIN Classement(O) : Classement(O)[n] = o
              ELSE NUL
MoinsDisant(O) == IF Comparables(O) = {} THEN NUL
                  ELSE Net(CHOOSE a \in Comparables(O) : \A b \in Comparables(O) : Net(a) <= Net(b))
Proposition(O) == IF Comparables(O) = {} THEN NUL ELSE Head(Classement(O))
EcartPct(O, o) == IF MoinsDisant(O) = 0 THEN NUL
                  ELSE Arrondi((Net(o) - MoinsDisant(O)) * 10000, MoinsDisant(O))

\* notePrix: out of 10, to the hundredth.
NotePrix(net, moins) == IF net <= 0 THEN 0 ELSE Arrondi(moins * 1000, net)

(***************************************************************************)
(* Scores                                                                  *)
(***************************************************************************)
\* criteres: sequence of [poids, prix]; notes: the marks of the jury.
CriteresValides(criteres) ==
    /\ \A i \in DOMAIN criteres : criteres[i].poids > 0
    /\ Somme([i \in DOMAIN criteres |-> criteres[i].poids]) = 10000
    /\ \A i, j \in DOMAIN criteres : criteres[i].prix /\ criteres[j].prix => i = j

\* Mutant: a criterion without a mark counts for nothing.
Points_Zero(c, note) == IF note = NUL THEN 0 ELSE Arrondi(c.poids * note, 1000)

Points(c, note) == IF note = NUL THEN NUL ELSE Arrondi(c.poids * note, 1000)

Score(criteres, notes, net, moins) ==
    LET note(i) == IF ~criteres[i].prix THEN notes[i]
                   ELSE IF net = NUL \/ moins = NUL THEN NUL ELSE NotePrix(net, moins)
        points == [i \in DOMAIN criteres |-> Points(criteres[i], note(i))]
    IN IF \E i \in DOMAIN criteres : points[i] = NUL THEN NUL ELSE Somme(points)

(***************************************************************************)
(* Properties                                                              *)
(***************************************************************************)
Ecart(a, b) == IF a < b THEN b - a ELSE a - b

\* calculerMontantAppel, "un echeancier a 95 % laisse 5 % qui ne seront jamais
\* appeles": what a complete schedule calls is the price, but for half a
\* centime per call, and an incomplete one misses what its gap says.
EcheancierEntier ==
    \A e \in Echeanciers, p \in Prix :
        LET c == ControleEcheancier(e)
            appele == Somme([i \in DOMAIN Appelantes(e) |-> MontantAppel(Appelantes(e)[i], p)])
        IN /\ c.complet => 2 * Ecart(appele, p) <= c.appels
           /\ 2 * Ecart(10000 * (appele - p), p * c.ecart) <= 10000 * c.appels

\* etapesRattrapables, "le total de ce qui reste a trancher", against
\* rattraper: choosing everything left calls the total shown, each step for the
\* amount shown; choosing in two times calls the same, and nothing twice.
RattrapageAccorde ==
    \A e \in Echeanciers, p \in Prix \cup {NUL}, f \in SUBSET (1..3) : f \subseteq DOMAIN e =>
        \A etapes \in {[n \in DOMAIN e |-> [pct |-> e[n], finie |-> n \in f]]} :
        LET crees(appelees, choix) == Rattraper(etapes, p, TRUE, appelees, choix).crees
            somme(g) == MapThenSumSet(LAMBDA n : g[n], DOMAIN g)
        IN \A appelees \in SUBSET f :
              \A ecran \in {EtapesRattrapables(etapes, p, appelees)} :
              \A tout \in {crees(appelees, ecran.attente)} :
                 /\ p # NUL => DOMAIN tout = ecran.attente
                 /\ somme(tout) = ecran.total
                 /\ \A choix \in SUBSET DOMAIN ecran.montant :
                       \A un \in {crees(appelees, choix)} :
                       \A puis \in {crees(appelees \cup DOMAIN un, ecran.attente)} :
                          /\ \A n \in DOMAIN un : un[n] = ecran.montant[n]
                          /\ DOMAIN un \cap (appelees \cup DOMAIN puis) = {}
                          /\ un @@ puis = tout

\* calculerCommission, "le calcul doit etre verifiable ligne a ligne": the
\* commission is the rate of the exact base, to the nearest centime.
CommissionExacte ==
    \A p \in Prix, t \in Taux, ttc \in BOOLEAN :
        2 * Ecart(10000000 * MontantCommission(t, ttc, p),
                  p * (IF ttc THEN 1081 ELSE 1000) * t) <= 10000000

\* comparerOffres, "a egalite l'offre recue en premier passe devant": among
\* the bids that compare, nobody is ranked before a cheaper one, nor before
\* one as cheap that came earlier; what is proposed is ranked first, and the
\* same bids rank the same without those that do not compare.
ComparaisonJuste ==
    \A O \in Offres :
        LET C == Comparables(O)
        IN /\ \A a, b \in C : Rang(O, a) <= Rang(O, b) =>
                 /\ Net(a) <= Net(b)
                 /\ MoinsDisant(O) > 0 => EcartPct(O, a) <= EcartPct(O, b)
                 /\ NotePrix(Net(a), MoinsDisant(O)) >= NotePrix(Net(b), MoinsDisant(O))
                 /\ (Net(a) = Net(b) /\ b.recue # NUL) => a.recue # NUL /\ a.recue <= b.recue
           /\ C # {} => Rang(O, Proposition(O)) = 1 /\ Net(Proposition(O)) = MoinsDisant(O)
           /\ \A o \in C : Rang(O, o) = Rang(C, o)

\* scorer, "un critere non note laisse le total vide, pas partiel": a total
\* is there when every mark is, stays within 100, and never goes down because
\* the price does (the lowest price is one of them).
ScoreComplet ==
    \A c \in Criteres : CriteresValides(c) =>
        \A n \in [DOMAIN c -> Notes \cup {NUL}], moins, p, r \in Prix : (moins <= p /\ p <= r) =>
            LET s == Score(c, n, p, moins)
                manque == \E i \in DOMAIN c : ~c[i].prix /\ n[i] = NUL
            IN /\ (s = NUL) <=> manque
               /\ ~manque => s \in 0..10000 /\ s >= Score(c, n, r, moins)
=============================================================================
