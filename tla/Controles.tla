------------------------------ MODULE Controles ------------------------------
(***************************************************************************)
(* What the code finds in an invoice, and the contract it suggests for it: *)
(* pure functions.  Amounts are in centimes, percentages in hundredths of  *)
(* a percent; a tax rate of 8.1 % is 810.                                  *)
(*                                                                         *)
(* A CFC code is its leading digits and what follows the first dot: 211.32 *)
(* is [tete |-> <<2, 1, 1>>, suite |-> <<32>>].                            *)
(***************************************************************************)
EXTENDS Integers, Sequences, FiniteSets, SequencesExt, FiniteSetsExt

CONSTANTS NUL

\* A field that is absent counts for nothing.
Ou0(x) == IF x = NUL THEN 0 ELSE x
Abs(x) == IF x < 0 THEN -x ELSE x
Arrondi(n, d) == (2 * n + d) \div (2 * d)

(***************************************************************************)
(* CFC codes                                                               *)
(***************************************************************************)
\* Mutant: the levels after the dot are compared on the leading digits only.
Couvre_SansPoint(p, c) == IsPrefix(p.tete, c.tete)

\* 21 covers 211, which covers 211.3 and 211.32.
Couvre(p, c) ==
    \/ p.tete = c.tete /\ IsPrefix(p.suite, c.suite)
    \/ p.suite = <<>> /\ IsStrictPrefix(p.tete, c.tete)

(***************************************************************************)
(* Amounts of an invoice                                                   *)
(***************************************************************************)
\* The amount in the base of the contract; the other side is worked out at
\* the rate read.
DansBase(f, base) ==
    LET propre == IF base = "TTC" THEN f.ttc ELSE f.ht
        autre == IF base = "TTC" THEN f.ht ELSE f.ttc
    IN IF propre # NUL THEN propre
       ELSE IF autre = NUL \/ f.tva = NUL THEN NUL
       ELSE IF base = "TTC" THEN Arrondi(autre * (10000 + f.tva), 10000)
       ELSE Arrondi(autre * 10000, 10000 + f.tva)

\* What the invoice itself says there is to pay.
NetFacture(f) == IF f.ttc = NUL THEN NUL ELSE f.ttc - Ou0(f.retenue) - Ou0(f.acomptes)

\* Mutant: what the invoice says goes before the bulletin.
APayer_Facture(f) == IF NetFacture(f) # NUL THEN NetFacture(f) ELSE f.qr

\* The bulletin goes first.
APayer(f) == IF f.qr # NUL THEN f.qr ELSE NetFacture(f)

\* controlerCumul.
Cumul(commande, deja, nouvelle) ==
    [apres |-> deja + nouvelle, reste |-> commande - deja,
     depassement |-> IF deja + nouvelle > commande THEN deja + nouvelle - commande ELSE 0]

(***************************************************************************)
(* The report                                                              *)
(***************************************************************************)
\* The tax in ten-thousandths of a centime: as read, or worked out at the rate.
TaxeLue(f) == IF f.taxe # NUL THEN 10000 * f.taxe
              ELSE IF f.tva # NUL THEN f.ht * f.tva ELSE NUL

Si(constat, condition) == IF condition THEN {constat} ELSE {}

\* f: the invoice; k: its contract, or NUL; e: what else is compared.
DeLaFacture(f, e) ==
         Si("montant_absent", f.ht = NUL \/ f.ht <= 0)
    \cup Si("numero_absent", f.numero = NUL)
    \cup Si("doublon", e.doublons # {})
    \cup Si("qr_sans_montant", f.bulletin /\ f.qr = NUL)
    \cup Si("qr_montant", /\ f.qr # NUL /\ f.ttc # NUL
                         /\ Abs(f.qr - NetFacture(f)) > 5 /\ Abs(f.qr - f.ttc) > 5)
    \cup Si("arithmetique", /\ f.ht # NUL /\ f.ttc # NUL /\ TaxeLue(f) # NUL
                           /\ Abs(10000 * (f.ht - f.ttc) + TaxeLue(f)) > 100000)
    \cup Si("tva_hors_bareme", f.tva # NUL /\ f.tva \notin {0, 260, 380, 810})
    \cup Si("iban_change", f.iban # NUL /\ e.ibans # {} /\ f.iban \notin e.ibans)

\* The deduction the contract provides for, on situations and balances.
Retenue(f, k) ==
    IF k.retenue = 0 \/ f.type \notin {"SITUATION", "SOLDE"} THEN {}
    ELSE IF Ou0(f.retenue) = 0 THEN {"retenue_absente"}
    ELSE IF f.ht # NUL /\ Abs(10 * Arrondi(f.retenue * 1000, f.ht + f.retenue) - k.retenue) > 50
         THEN {"retenue_ecart"} ELSE {}

\* Mutant: on a balance, the amount of the invoice is left out.
Solde_SansElle(f, k) ==
    IF f.type = "SOLDE" /\ DansBase(f, k.base) # NUL /\ Abs(k.deja - k.commande) > 100
    THEN {"solde_ecart"} ELSE {}

Solde(f, k) ==
    IF /\ f.type = "SOLDE" /\ DansBase(f, k.base) # NUL
       /\ Abs(k.deja + DansBase(f, k.base) - k.commande) > 100
    THEN {"solde_ecart"} ELSE {}

\* Mutant: an invoice that gives one side only is taken at that side.
Depassement_Brut(f, k) == k.deja + Ou0(IF f.ttc # NUL THEN f.ttc ELSE f.ht) - k.commande

Depassement(f, k) == k.deja + Ou0(DansBase(f, k.base)) - k.commande

Perimetre(c, k) == \E p \in k.perimetre : Couvre(p, c)

DuContrat(f, k) ==
         Si("depassement", Depassement(f, k) > 0)
    \cup Si("en_attente", k.attente > 0)
    \cup Solde(f, k)
    \cup Si("budget_depasse", k.budget # NUL /\ k.commande > k.budget)
    \cup Retenue(f, k)
    \cup Si("acomptes_ecart", f.acomptes # NUL /\ Abs(f.acomptes - k.deja) >= 100)
    \cup Si("poste_hors_contrat", \E c \in f.codes : ~Perimetre(c, k))
    \cup Si("poste_inconnu", \E c \in f.codes : /\ Perimetre(c, k)
                                               /\ c \notin k.arbre
                                               /\ Cardinality(k.perimetre) > 1)

Constats(f, k, e) ==
    DeLaFacture(f, e) \cup (IF k = NUL THEN {"sans_contrat"} ELSE DuContrat(f, k))

(***************************************************************************)
(* The contract it suggests                                                *)
(***************************************************************************)
\* Candidates are a sequence; the invoice may quote references, come from a
\* company typed by hand, or carry a name that some companies answer to.
Retenus(i, candidats) ==
    LET typee == SelectSeq(candidats, LAMBDA c : c.entreprise = i.entreprise)
    IN IF i.entreprise # NUL /\ typee # <<>> THEN typee
       ELSE SelectSeq(candidats, LAMBDA c : c.entreprise \in i.noms)

\* Mutant: what was billed before is left out.
Absorbe_Tout(c, montant) == c.commande >= montant
Absorbe(c, montant) == c.commande - c.deja >= montant

Suggestion(i, candidats) ==
    LET cites == SelectSeq(candidats, LAMBDA c : c.reference \in i.references)
        retenus == Retenus(i, candidats)
        absorbants == SelectSeq(retenus, LAMBDA c : Absorbe(c, i.ht))
        exacts == SelectSeq(candidats, LAMBDA c : c.commande - c.deja = i.ht)
        proposer(c, confiance) == [contrat |-> c, confiance |-> confiance]
    IN IF cites # <<>> THEN proposer(cites[1], 98)
       ELSE IF Len(retenus) = 1 THEN proposer(retenus[1], 90)
       ELSE IF retenus # <<>> /\ i.ht # NUL /\ Len(absorbants) = 1 THEN proposer(absorbants[1], 70)
       ELSE IF retenus # <<>> THEN proposer(retenus[1], 45)
       ELSE IF i.ht # NUL /\ Len(exacts) = 1 THEN proposer(exacts[1], 40)
       ELSE [contrat |-> NUL, confiance |-> 0]

(***************************************************************************)
(* Properties, over the inputs their parameters give                       *)
(***************************************************************************)
\* couvre, "la nomenclature est hierarchique": what covers is an order, and
\* two codes that cover a third one are in line.
CouvreOrdre(codes) ==
    \A p, q, r \in codes :
        /\ Couvre(p, p)
        /\ Couvre(p, q) /\ Couvre(q, p) => p = q
        /\ Couvre(p, q) /\ Couvre(q, r) => Couvre(p, r)
        /\ Couvre(p, r) /\ Couvre(q, r) => Couvre(p, q) \/ Couvre(q, p)

\* controler, "un ecart, c'est un bulletin qui ne correspond pas a la facture":
\* when nothing is found, what the bulletin asks for is, but for the two
\* tolerances, what the net amount and the tax come to, deductions made or not.
SilenceJuste(factures, e) ==
    \A f \in factures : (Constats(f, NUL, e) = {"sans_contrat"} /\ f.qr # NUL) =>
        LET plein == f.ht + (IF f.taxe # NUL THEN f.taxe ELSE Arrondi(f.ht * f.tva, 10000))
        IN (f.ttc # NUL /\ TaxeLue(f) # NUL) =>
              \/ Abs(f.qr - plein) <= 16
              \/ Abs(f.qr - (plein - Ou0(f.retenue) - Ou0(f.acomptes))) <= 16

\* controler and controlerCumul, which look at the same rule from the report
\* and from the validation: they find the same excess, whichever side of the
\* tax the invoice gives.
DepassementAccorde(factures, contrats) ==
    \A f \in factures, k \in contrats : DansBase(f, k.base) # NUL =>
        LET d == Cumul(k.commande, k.deja, DansBase(f, k.base)).depassement
        IN /\ (d > 0) <=> ("depassement" \in DuContrat(f, k))
           /\ d > 0 => d = Depassement(f, k)

\* controler, "cela doit correspondre au montant valide au debut": the last
\* invoice of a firm price, for exactly what is left of it, less the
\* deduction the contract provides for and the instalments already billed, is
\* not found at fault (below CHF 10 the rounded deduction may be).
SoldeJuste(commandes, dejas, taux) ==
    \A c \in commandes, d \in dejas, t \in taux : c - d >= 1000 =>
        LET retenue == Arrondi((c - d) * t, 10000)
            k == [commande |-> c - retenue, deja |-> d, base |-> "HT", retenue |-> t, attente |-> 0,
                  budget |-> NUL,
                  perimetre |-> {}, arbre |-> {}]
            f == [type |-> "SOLDE", ht |-> c - d - retenue, ttc |-> NUL, tva |-> NUL,
                  retenue |-> retenue, acomptes |-> d, codes |-> {}]
        IN DuContrat(f, k) = {}

\* suggererImputation: a contract suggested for its company is one of that
\* company, and one suggested for what is left of it bears the invoice.
ImputationJuste(indices, candidats) ==
    \A i \in indices, S \in candidats :
        LET s == Suggestion(i, S)
        IN /\ (s.confiance \in {45, 70, 90} /\ i.entreprise \in {S[n].entreprise : n \in DOMAIN S})
                 => s.contrat.entreprise = i.entreprise
           /\ s.confiance = 90 => \A n \in DOMAIN S :
                 S[n].entreprise = s.contrat.entreprise => S[n] = s.contrat
           /\ s.confiance \in {40, 70} =>
                 Cumul(s.contrat.commande, s.contrat.deja, i.ht).depassement = 0
=============================================================================
