------------------------------ MODULE Echeances ------------------------------
(***************************************************************************)
(* The deadlines that still run once the keys are handed over: warranties  *)
(* of the contracts received, warranties and maintenance of equipments.    *)
(* Pure functions over calendar dates, read in UTC.                        *)
(***************************************************************************)
EXTENDS Integers, Sequences, SequencesExt

CONSTANTS
    AnneesGarantie,    \* ANNEES_GARANTIE
    SeuilProche,       \* SEUIL_PROCHE_JOURS
    Attendues,         \* categories of PIECES_ATTENDUES
    NUL

(***************************************************************************)
(* Calendar                                                                *)
(***************************************************************************)
Date(a, m, j) == [annee |-> a, mois |-> m, jour |-> j]

Bissextile(a) == a % 4 = 0 /\ (a % 100 # 0 \/ a % 400 = 0)
JoursDuMois(a, m) ==
    IF m = 2 THEN IF Bissextile(a) THEN 29 ELSE 28 ELSE IF m \in {4, 6, 9, 11} THEN 30 ELSE 31

\* Days since the end of 1999, for dates of this century.
Quantieme(d) ==
    LET y == d.annee - 2000
    IN 365 * y + ((y + 3) \div 4) + d.jour
       + FoldFunction(+, 0, [m \in 1..(d.mois - 1) |-> JoursDuMois(d.annee, m)])

\* What JavaScript makes of a day the month does not have: it runs over into
\* the next month.
Deborder(a, m, j) ==
    LET n == JoursDuMois(a, m)
    IN IF j <= n THEN Date(a, m, j) ELSE Date(a, m + 1, j - n)

PlusAns(d, ans) == Deborder(d.annee + ans, d.mois, d.jour)

\* Mutant: the year moves by the whole years of the term only.
PlusMois_AnneesEntieres(d, mois) ==
    Deborder(d.annee + (mois \div 12), ((d.mois - 1 + mois) % 12) + 1, d.jour)

PlusMois(d, mois) ==
    LET rang == d.mois - 1 + mois
    IN Deborder(d.annee + (rang \div 12), (rang % 12) + 1, d.jour)

(***************************************************************************)
(* Deadlines                                                               *)
(***************************************************************************)
\* What the reception of a contract stores (in local time, the same day).
FinDeContrat(reception) == PlusAns(reception, AnneesGarantie)

\* The end of the warranty of a maker, of a proposed equipment.
FinGarantie(service, mois) ==
    IF service = NUL \/ mois \in {NUL, 0} THEN NUL ELSE PlusMois(service, mois)

\* What of a proposal is written down about its warranty.
Proposee(p) ==
    LET fin == FinGarantie(p.service, p.garantie)
    IN [service |-> p.service, fin |-> fin, entretien |-> p.entretien, dernier |-> NUL,
        note |-> IF p.garantie \notin {NUL, 0} /\ fin = NUL THEN p.garantie ELSE NUL]

EtatDe(fin, maintenant) ==
    LET jours == Quantieme(fin) - Quantieme(maintenant)
    IN IF jours <= 0 THEN "ECHUE" ELSE IF jours <= SeuilProche THEN "PROCHE" ELSE "EN_COURS"

DeContrat(c) ==
    IF c.reception = NUL THEN <<>>
    ELSE <<[type |-> "GARANTIE_SIA", de |-> c.id,
            fin |-> IF c.fin # NUL THEN c.fin ELSE PlusAns(c.reception, 2)],
           [type |-> "PRESCRIPTION", de |-> c.id, fin |-> PlusAns(c.reception, 5)]>>

\* Mutant: maintenance is counted from the start of service, whatever was done.
Depart_Service(e) == e.service

Depart(e) == IF e.dernier # NUL THEN e.dernier ELSE e.service

DEquipement(e) ==
    (IF e.fin = NUL THEN <<>>
     ELSE <<[type |-> "GARANTIE_FABRICANT", de |-> e.id, fin |-> e.fin]>>)
    \o (IF e.entretien \in {NUL, 0} \/ Depart(e) = NUL THEN <<>>
        ELSE <<[type |-> "ENTRETIEN", de |-> e.id, fin |-> PlusMois(Depart(e), e.entretien)]>>)

\* In the order they end; those that end together in the order they were listed.
\* Each is shown with its state, EtatDe its end.
Triees(s) ==
    LET avant(i, j) == \/ Quantieme(s[i].fin) < Quantieme(s[j].fin)
                       \/ s[i].fin = s[j].fin /\ i < j
        ordre == SetToSortSeq(DOMAIN s, avant)
    IN [n \in DOMAIN s |-> s[ordre[n]]]

CalculerEcheances(contrats, equipements) ==
    Triees(FlattenSeq([i \in DOMAIN contrats |-> DeContrat(contrats[i])]
                      \o [i \in DOMAIN equipements |-> DEquipement(equipements[i])]))

\* base: [contrats, equipements (with their status), documents].
Synthese(base) ==
    LET valides == SelectSeq(base.equipements, LAMBDA e : e.statut = "VALIDE")
    IN [echeances |-> CalculerEcheances(base.contrats, valides),
        presentes |-> {c \in Attendues : \E d \in base.documents : d.courant /\ d.categorie = c}]

(***************************************************************************)
(* Properties                                                              *)
(***************************************************************************)
Retard(d, e) == Quantieme(e) - Quantieme(d)

\* contrats.service.ts:331, echeances.ts:70, "plutot que de taire une garantie
\* qui court": a contract received has its warranty and its prescription, the
\* warranty first, the same whether it was stored at the reception or not, and
\* neither a day short of the years it is due.
GarantiesEntieres(receptions) ==
    \A r \in receptions :
        LET stockee == DeContrat([id |-> 1, reception |-> r, fin |-> FinDeContrat(r)])
        IN /\ stockee = DeContrat([id |-> 1, reception |-> r, fin |-> NUL])
           /\ \A n \in 1..2 : Retard(r, stockee[n].fin) >= 365 * <<2, 5>>[n]
           /\ stockee[1].fin = PlusMois(r, 24)

\* echeances.ts:36, extraction.ts:140: a term of so many months never ends
\* before its day in the month it is due, and at most three days later (the
\* 31st of January and one month is the 3rd of March); a longer term never
\* ends before a shorter one; and of a proposal the length read is never lost.
TermesEntiers(dates, durees) ==
    \A d \in dates, n \in durees :
        LET fin == PlusMois(d, n)
            mois == d.annee * 12 + d.mois - 1 + n
            dernier == JoursDuMois(mois \div 12, (mois % 12) + 1)
            du == Date(mois \div 12, (mois % 12) + 1, IF d.jour < dernier THEN d.jour ELSE dernier)
        IN /\ Retard(du, fin) \in 0..3
           /\ \A k \in durees : k <= n => Retard(PlusMois(d, k), fin) >= 0
           /\ \A s \in {NUL, d} :
                 LET p == Proposee([service |-> s, garantie |-> n, entretien |-> NUL])
                 IN n # 0 => (p.fin = NUL) = (p.note = n) /\ (p.fin # NUL => p.fin = fin)

\* passeport.service.ts:85, "rien n'est ressaisi": the screen lists the
\* deadlines as they end, so that those past come first and those near next;
\* nothing proposed and not validated runs; maintenance done moves the next
\* one after it.
EcheancesSuivies(bases, maintenant) ==
    \A b \in bases :
        \A s \in {Synthese(b)} :
        LET rang(etat) == CASE etat = "ECHUE" -> 1 [] etat = "PROCHE" -> 2 [] OTHER -> 3
        IN /\ \A i, j \in DOMAIN s.echeances : i <= j =>
                 rang(EtatDe(s.echeances[i].fin, maintenant)) <= rang(EtatDe(s.echeances[j].fin, maintenant))
           /\ \A n \in DOMAIN s.echeances : s.echeances[n].type \in {"ENTRETIEN", "GARANTIE_FABRICANT"} =>
                 \E i \in DOMAIN b.equipements :
                     LET e == b.equipements[i]
                     IN /\ e.id = s.echeances[n].de /\ e.statut = "VALIDE"
                        /\ (s.echeances[n].type = "ENTRETIEN" /\ e.dernier # NUL) =>
                              Retard(e.dernier, s.echeances[n].fin) > 0
=============================================================================
