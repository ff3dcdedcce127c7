------------------------------ MODULE Lectures ------------------------------
(***************************************************************************)
(* What the reading of a piece yields: the text of the piece, the payment  *)
(* slip on it, what the model or the patterns find, and how sure each      *)
(* field is.  Pure functions.                                              *)
(*                                                                         *)
(* A text is a sequence of what is written on it: [genre, valeur], the     *)
(* label of a line and the number, name or date it carries, NUL if it      *)
(* carries none.  Dates are day numbers, amounts centimes, rates           *)
(* hundredths of a percent.  VIDE is the empty string a model may return.  *)
(***************************************************************************)
EXTENDS Integers, Sequences, FiniteSets, SequencesExt, FiniteSetsExt

CONSTANTS
    NUL, VIDE,
    Densite,       \* what a page holds, at least, when its text layer is real
    Minimum,       \* what a text holds, at least, to be worth reading
    PagesOcr,      \* pages recognised, at most
    Resolutions,   \* how many times a page is drawn in search of a slip
    DelaiMax,      \* days of the longest condition believed
    IdeMin         \* a company number with all its digits

K == INSTANCE Controles

Sinon(x, y) == IF x # NUL THEN x ELSE y
Arrondi(n, d) == (2 * n + d) \div (2 * d)
\* The first element of s that passes, or NUL.
Premier(s, Passe(_)) ==
    LET bons == SelectSeq(s, Passe) IN IF bons = <<>> THEN NUL ELSE Head(bons)

(***************************************************************************)
(* The payment slip                                                        *)
(***************************************************************************)
\* Mutant: the first condition is the term, a discount perhaps.
Echeance_Premiere(debut, delais) ==
    LET d == Premier(delais, LAMBDA n : n # NUL /\ n \in 0..DelaiMax)
    IN IF debut = NUL \/ d = NUL THEN NUL ELSE debut + d

\* Of several conditions the longest is the net term.
Echeance(debut, delais) ==
    LET jours == {n \in ToSet(delais) \ {NUL} : n \in 0..DelaiMax}
    IN IF debut = NUL \/ jours = {} THEN NUL ELSE debut + Max(jours)

\* The billing information, if its prefix is there; debut is NUL when the six
\* digits are no date.
LireInfosFacturation(i) ==
    IF ~i.prefixe
    THEN [numero |-> NUL, dateFacture |-> NUL, ide |-> NUL, dateEcheance |-> NUL]
    ELSE [numero |-> i.numero, dateFacture |-> i.debut,
          ide |-> IF i.ide # NUL /\ i.ide >= IdeMin THEN i.ide ELSE NUL,
          dateEcheance |-> Echeance(i.debut, i.delais)]

\* Any other code affirms nothing.
LireBulletinQr(c) ==
    IF ~c.spc \/ c.iban = NUL \/ c.creancier = NUL \/ c.monnaie \notin {"CHF", "EUR"}
       \/ c.genre \notin {"QRR", "SCOR", "NON"}
    THEN NUL
    ELSE [creancier |-> c.creancier, debiteur |-> c.debiteur, iban |-> c.iban,
          montant |-> c.montant,
          reference |-> IF c.genre = "NON" THEN NUL ELSE c.reference]
         @@ LireInfosFacturation(c.infos)

(***************************************************************************)
(* The piece                                                               *)
(***************************************************************************)
Reconnu(p) == FlattenSeq([n \in 1..Min({PagesOcr, Len(p.pages)}) |-> p.pages[n].image])

\* service: "ferme", "sans_ocr" (the text layers alone) or "ouvert".
Texte(p, service) ==
    LET lu(t, m) == [texte |-> t, methode |-> m]
    IN IF service = "ferme" \/ p.mime = "autre" THEN NUL
       ELSE IF p.mime = "image"
            THEN IF service = "ouvert" THEN lu(Reconnu(p), "ocr") ELSE NUL
       ELSE IF Len(p.couche) >= Densite * Len(p.pages) THEN lu(p.couche, "texte-pdf")
       ELSE IF service = "ouvert"
            THEN lu(p.couche \o Reconnu(p), IF p.couche = <<>> THEN "ocr" ELSE "texte-pdf+ocr")
       ELSE IF p.couche = <<>> THEN NUL ELSE lu(p.couche, "texte-pdf-partiel")

\* Mutant: the slip is looked for on the last page alone.
PagesDuBulletin_Derniere(p) == <<Len(p.pages)>>

\* The last page first, then the first.
PagesDuBulletin(p) == IF Len(p.pages) = 1 THEN <<1>> ELSE <<Len(p.pages), 1>>

\* Every resolution in turn, and at each one the pages that may carry it.
LireQr(p) ==
    LET ordre == PagesDuBulletin(p)
        vus == IF p.mime = "image" THEN p.pages[1].codes[1]
               ELSE FlattenSeq([r \in 1..Resolutions |->
                        FlattenSeq([k \in DOMAIN ordre |-> p.pages[ordre[k]].codes[r]])])
        bon == Premier(vus, LAMBDA c : LireBulletinQr(c) # NUL)
    IN IF p.mime = "autre" \/ bon = NUL THEN NUL ELSE LireBulletinQr(bon)

(***************************************************************************)
(* The reading by patterns                                                 *)
(***************************************************************************)
HorsTaxe == <<"total ht", "montant ht", "net ht", "total hors taxes", "sous-total">>
TaxeIncluse == <<"total net", "net a payer", "total a payer", "montant tva incluse",
                 "total ttc", "montant ttc", "total tva incluse", "total general", "^total">>
Totaux == {"total", "total ht", "total hors taxes", "total net", "total a payer", "total ttc",
           "total tva incluse", "total general"}

\* A line is found by a label it contains, and by "total" if it begins with it.
Etiquetee(ligne, e) == ligne.genre = e \/ (e = "^total" /\ ligne.genre \in Totaux)

\* In the order of the labels, then in the order of the text.
MontantApres(t, etiquettes) ==
    LET ligne(e) == Premier(t, LAMBDA x : Etiquetee(x, e) /\ x.valeur # NUL /\ x.valeur > 0)
        e == Premier(etiquettes, LAMBDA y : ligne(y) # NUL)
    IN IF e = NUL THEN NUL ELSE ligne(e).valeur

\* What the first line of one of these kinds says.
Dit(t, genres) ==
    LET x == Premier(t, LAMBDA y : y.genre \in genres) IN IF x = NUL THEN NUL ELSE x.valeur

TauxDeduit(ht, ttc) ==
    LET t == IF ttc <= ht THEN 0 ELSE Arrondi(10000 * (ttc - ht), ht)
    IN IF t \in 1..2999 THEN t ELSE NUL

\* Mutant: the tax is taken off the amount that includes it.
HorsTaxeDeduit_Retire(ttc, taux) == Arrondi(ttc * (10000 - taux), 10000)

HorsTaxeDeduit(ttc, taux) == Arrondi(ttc * 10000, 10000 + taux)

ExtraireChamps(t) ==
    LET ht == MontantApres(t, HorsTaxe)
        ttc == MontantApres(t, TaxeIncluse)
        taux == IF Dit(t, {"taux"}) # NUL THEN Dit(t, {"taux"})
                ELSE IF ht # NUL /\ ttc # NUL THEN TauxDeduit(ht, ttc) ELSE NUL
    IN [numero |-> Dit(t, {"numero"}), dateFacture |-> Dit(t, {"date"}),
        fournisseur |-> Dit(t, {"nom"}), ttc |-> ttc, tva |-> taux,
        ht |-> IF ht = NUL /\ ttc # NUL /\ taux # NUL /\ taux > 0
               THEN HorsTaxeDeduit(ttc, taux) ELSE ht]

LireIban(t) == Dit(t, {"iban"})
LireReferenceQr(t) == Dit(t, {"reference"})

(***************************************************************************)
(* A reading and its anchors                                               *)
(***************************************************************************)
Montants == {"ht", "ttc", "taxe", "retenue", "acomptes"}
Dates == {"dateFacture", "dateEcheance"}
Noms == {"fournisseur", "ide", "numero", "contrat"}
DuBulletin == {"fournisseur", "ide", "numero", "dateFacture", "dateEcheance", "iban", "reference"}

LectureVide == [c \in Montants \cup Dates \cup Noms \cup {"tva", "type"} |-> NUL]

LectureLocale(t) == ExtraireChamps(t) @@ LectureVide

\* The value is in the text, whatever the line says it is.
EstAncree(v, t) == \E i \in DOMAIN t : t[i].valeur = v

Ancre(v, ancree) ==
    [valeur |-> v,
     ancrage |-> IF v = NUL THEN "absente" ELSE IF ancree THEN "ancree" ELSE "proposee"]

Champ(v, t) == Ancre(IF v = VIDE THEN NUL ELSE v, EstAncree(v, t))
\* A rate is followed by a percent sign, a date is written as one.
ChampPourcent(v, t) == Ancre(v, \E i \in DOMAIN t : t[i].genre = "taux" /\ t[i].valeur = v)
ChampDate(v, t) == Ancre(v, \E i \in DOMAIN t : t[i].genre = "date" /\ t[i].valeur = v)

AncrerTexte(l, t, local) ==
    [c \in DOMAIN l \cup {"iban", "reference"} |->
        IF c \in {"iban", "reference"} THEN Ancre(local[c], TRUE)
        ELSE IF c = "tva" THEN ChampPourcent(l[c], t)
        ELSE IF c \in Dates THEN ChampDate(l[c], t)
        ELSE IF c = "type" THEN Ancre(l[c], FALSE)
        ELSE Champ(l[c], t)]

\* What the slip says of a field.
Porte(b, c) == IF b = NUL THEN NUL ELSE IF c = "fournisseur" THEN b.creancier ELSE b[c]

Ancrer(l, t, local, b) ==
    [c \in DOMAIN l \cup {"iban", "reference"} |->
        IF c \in DuBulletin /\ Porte(b, c) # NUL
        THEN [valeur |-> Porte(b, c), ancrage |-> "qr"] ELSE AncrerTexte(l, t, local)[c]]

\* Mutant: the slip completes what was read.
ImposerBulletin_Complete(l, b) ==
    [c \in DOMAIN l |-> IF c \in DuBulletin THEN Sinon(l[c], Porte(b, c)) ELSE l[c]]

\* The slip prevails over what was read; it says nothing of the amounts.
ImposerBulletin(l, b) ==
    [c \in DOMAIN l |-> IF c \in DuBulletin THEN Sinon(Porte(b, c), l[c]) ELSE l[c]]

\* b: the slip; lu: the text and how it was obtained; ia: what the model says
\* of it, NUL without a model.  NUL when the reading fails.
Lire(b, lu, ia) ==
    LET lisible == lu # NUL /\ Len(lu.texte) >= Minimum
        seul == ~lisible \/ (lu.methode = "texte-pdf-partiel" /\ b # NUL)
        t == IF seul THEN <<>> ELSE lu.texte
        local == [iban |-> Sinon(Porte(b, "iban"), LireIban(t)),
                  reference |-> Sinon(Porte(b, "reference"), LireReferenceQr(t))]
        lue == IF seul THEN LectureVide ELSE IF ia # NUL THEN ia ELSE LectureLocale(t)
    IN IF ~lisible /\ b = NUL THEN NUL
       ELSE [lecture |-> ImposerBulletin(lue, b), local |-> local, texte |-> t,
             methode |-> IF seul THEN "qr" ELSE lu.methode,
             champs |-> Ancrer(ImposerBulletin(lue, b), t, local, b)]

\* Only what is empty is completed; the kind, on the first reading.
Completer(f, r) ==
    [c \in DOMAIN f \ {"premiere"} |->
        IF c = "type"
        THEN IF f.premiere /\ r.lecture.type # NUL THEN r.lecture.type ELSE f.type
        ELSE Sinon(f[c], IF c \in {"iban", "reference"} THEN r.local[c] ELSE r.lecture[c])]

\* Mutant: the first company of that name.
Designees_AuNom(l, repertoire) ==
    LET parIde == {e \in repertoire : l.ide # NUL /\ l.ide >= IdeMin /\ e.ide = l.ide}
    IN IF parIde # {} THEN parIde ELSE {e \in repertoire : e.nom = l.fournisseur}

\* The companies the reading may designate: by number, else by a name one
\* company alone has.
Designees(l, repertoire) ==
    LET parIde == {e \in repertoire : l.ide # NUL /\ l.ide >= IdeMin /\ e.ide = l.ide}
        parNom == {e \in repertoire : e.nom = l.fournisseur}
    IN IF parIde # {} THEN parIde ELSE IF Cardinality(parNom) = 1 THEN parNom ELSE {}

(***************************************************************************)
(* Properties                                                              *)
(***************************************************************************)
\* Every value the invoice keeps is either what it held already or the very
\* value the person is shown, with where it comes from: "qr" for what the slip
\* wrote, never an amount; "anchored" only for what is in the text.  (An empty
\* string of the model is kept where the screen says "absent".)
LectureTracee(bulletins, lus, ias, saisies) ==
    \A b \in bulletins, lu \in lus, ia \in ias : \A r \in {Lire(b, lu, ia)} \ {NUL} :
        /\ \A c \in DOMAIN r.champs :
               /\ r.champs[c].ancrage = "absente" <=> r.champs[c].valeur = NUL
               /\ r.champs[c].ancrage = "qr" => c \notin Montants /\ b # NUL
               /\ (r.champs[c].ancrage = "ancree" =>
                       EstAncree(r.champs[c].valeur, r.texte))
        /\ \A f \in saisies : \A g \in {Completer(f, r)} : \A c \in DOMAIN g :
               g[c] \in {f[c], r.champs[c].valeur, VIDE}
        /\ r.texte = <<>> => \A c \in Montants : r.lecture[c] = NUL

\* The supplier shown is the creditor of the slip and the company chosen is
\* his: the one with his number, or the only one with his name.
EmetteurSur(bulletins, lus, ias, repertoires) ==
    \A b \in bulletins, lu \in lus, ia \in ias, d \in repertoires :
        \A r \in {Lire(b, lu, ia)} \ {NUL} :
        /\ b # NUL => r.champs.fournisseur.valeur = b.creancier
        /\ \A e \in Designees(r.lecture, d) :
               \/ e.ide # NUL /\ e.ide = r.champs.ide.valeur
               \/ /\ e.nom = r.champs.fournisseur.valeur
                  /\ \A x \in d \ {e} : x.nom # e.nom

\* A slip that the first or the last page carries is found, at whatever
\* resolution it can be read; a reading then names its creditor even when
\* nothing else can be read.
BulletinTrouve(pieces, services) ==
    \A p \in pieces, s \in services :
        (/\ p.mime = "pdf"
         /\ \E n \in {1, Len(p.pages)}, r \in 1..Resolutions :
                \E i \in DOMAIN p.pages[n].codes[r] : LireBulletinQr(p.pages[n].codes[r][i]) # NUL)
        => \A b \in {LireQr(p)} :
               b # NUL /\ Lire(b, Texte(p, s), NUL).lecture.fournisseur = b.creancier

\* What the patterns work out themselves, the amount before tax or the rate,
\* never makes the checks find an arithmetic error in the invoice.
DeductionSansConstat(textes) ==
    \A t \in textes :
        \A c \in {ExtraireChamps(t)} :
        LET f == [ht |-> c.ht, ttc |-> c.ttc, tva |-> c.tva, taxe |-> NUL, retenue |-> NUL,
                  acomptes |-> NUL, numero |-> 1, bulletin |-> FALSE, qr |-> NUL, iban |-> NUL]
        IN (Dit(t, {"taux"}) = NUL \/ MontantApres(t, HorsTaxe) = NUL)
           => "arithmetique" \notin K!DeLaFacture(f, [doublons |-> {}, ibans |-> {}])

\* The term is no condition of the supplier shortened: every condition believed
\* ends by it.
TermeEntier(debuts, conditions) ==
    \A d \in debuts, s \in conditions : LET e == Echeance(d, s) IN
        IF d = NUL \/ \A i \in DOMAIN s : s[i] = NUL \/ s[i] \notin 0..DelaiMax
        THEN e = NUL
        ELSE /\ e - d \in ToSet(s) /\ e - d \in 0..DelaiMax
             /\ \A i \in DOMAIN s : s[i] # NUL /\ s[i] <= DelaiMax => d + s[i] <= e
=============================================================================
