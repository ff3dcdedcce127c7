----------------------------- MODULE References -----------------------------
(***************************************************************************)
(* The references and accounts that carry a key: the QR reference of a     *)
(* call for funds, made by one part of the code and checked by another,    *)
(* and the modulo 97 of accounts and creditor references, computed twice.  *)
(* Digits are numbers; a letter is a number from 10 on.                    *)
(***************************************************************************)
EXTENDS Integers, Sequences, SequencesExt

CONSTANTS
    Largeurs,    \* how many digits the operation, the reservation, the step take
    Cles,        \* sequences of numbers: the keys of calls for funds
    Comptes,     \* accounts: [pays, qr, corps]
    Corps,       \* bodies of accounts and creditor references, NUL for none
    NUL

Chiffres == 0..9

(***************************************************************************)
(* QR references                                                           *)
(***************************************************************************)
\* REPORTS of qr-reference.ts, row by row.
Reports ==
    << <<0, 9, 4, 6, 8, 2, 7, 1, 3, 5>>, <<9, 4, 6, 8, 2, 7, 1, 3, 5, 0>>,
       <<4, 6, 8, 2, 7, 1, 3, 5, 0, 9>>, <<6, 8, 2, 7, 1, 3, 5, 0, 9, 4>>,
       <<8, 2, 7, 1, 3, 5, 0, 9, 4, 6>>, <<2, 7, 1, 3, 5, 0, 9, 4, 6, 8>>,
       <<7, 1, 3, 5, 0, 9, 4, 6, 8, 2>>, <<1, 3, 5, 0, 9, 4, 6, 8, 2, 7>>,
       <<3, 5, 0, 9, 4, 6, 8, 2, 7, 1>>, <<5, 0, 9, 4, 6, 8, 2, 7, 1, 3>> >>

\* Mutant: the carry is left out, the key is a plain sum.
Reporter_Somme(r, c) == (r + c) % 10

Reporter(r, c) == Reports[r + 1][c + 1]
Cle(s) == (10 - FoldLeft(Reporter, 0, s)) % 10
Valide(s) == Cle(Front(s)) = Last(s)

\* pain001.ts, which checks what leaves: one row, read at an offset.
ReporterSortie(r, c) == Reports[1][((r + c) % 10) + 1]
ValideSortie(s) == (10 - FoldLeft(ReporterSortie, 0, Front(s))) % 10 = Last(s)

Puissance(n) == FoldLeft(LAMBDA p, i : 10 * p, 1, [i \in 1..n |-> i])

\* Mutant: a number that does not fit loses its first digits.
Tient_Toujours(x, n) == TRUE

Tient(x, n) == x < Puissance(n)

\* remplir: n digits; a number that needs more is refused.
Remplir(x, n) == [i \in 1..n |-> (x \div Puissance(n - i)) % 10]

Admise(k) == \A i \in DOMAIN k : Tient(k[i], Largeurs[i])

AvecCle(significatifs) == Append(significatifs, Cle(significatifs))
GenererReference(k) == AvecCle(FlattenSeq([i \in DOMAIN k |-> Remplir(k[i], Largeurs[i])]))

(***************************************************************************)
(* Modulo 97                                                               *)
(***************************************************************************)
\* The two digits of a letter, the one of a digit.
Ecrit(c) == IF c < 10 THEN <<c>> ELSE <<c \div 10, c % 10>>
EnChiffres(s) == FlattenSeq([i \in DOMAIN s |-> Ecrit(s[i])])

\* The first four characters go last.
Reordonne(s) == SubSeq(s, 5, Len(s)) \o SubSeq(s, 1, 4)

\* ibanValide: digit by digit.
IbanValide(s) == FoldLeft(LAMBDA r, d : (10 * r + d) % 97, 0, EnChiffres(Reordonne(s))) = 1

\* referenceScorValide: the whole number at once.
ScorValide(s) == FoldLeft(LAMBDA n, d : 10 * n + d, 0, EnChiffres(Reordonne(s))) % 97 = 1

(***************************************************************************)
(* What a letter asks for, what a file may pay                             *)
(***************************************************************************)
\* Institution numbers 30000 to 31999, in Switzerland.
EstQrIban(a) == a # NUL /\ a.pays = "CH" /\ a.qr

\* Mutant: any account takes the reference.
ChoisirReference_Toujours(a, r) == r

\* The reference goes on the bill of an account that takes one only.
ChoisirReference(a, r) == IF EstQrIban(a) THEN r ELSE NUL

\* typeDeReference.
Type(r) == IF r = NUL THEN "LIBRE" ELSE IF \A i \in DOMAIN r : r[i] \in Chiffres THEN "QRR" ELSE "SCOR"

\* verifier, on one line of an order.
Erreurs(compte, reference, montant) ==
    LET type == Type(reference)
        si(erreur, condition) == IF condition THEN {erreur} ELSE {}
    IN      si("iban", ~IbanValide(compte.corps))
       \cup si("montant", montant <= 0)
       \cup si("cle", type = "QRR" /\ ~ValideSortie(reference))
       \cup si("qr_sur_iban", type = "QRR" /\ ValideSortie(reference) /\ ~EstQrIban(compte))
       \cup si("scor", type = "SCOR" /\ ~ScorValide(reference))
       \cup si("qr_iban_nu", type = "LIBRE" /\ EstQrIban(compte))

(***************************************************************************)
(* Properties                                                              *)
(***************************************************************************)
\* genererReferenceQR, "deux appels ne peuvent donc pas partager une
\* reference": no two keys that fit share one, and both readers refuse it with
\* one digit mistyped.
ReferenceSure ==
    /\ \A j, k \in Cles : (Admise(j) /\ Admise(k) /\ j # k) =>
          GenererReference(j) # GenererReference(k)
    /\ \A r \in {GenererReference(k) : k \in {x \in Cles : Admise(x)}} :
          /\ Valide(r) /\ ValideSortie(r)
          /\ \A i \in DOMAIN r : \A faux \in {[r EXCEPT ![i] = c] : c \in Chiffres \ {r[i]}} :
                ~Valide(faux) /\ ~ValideSortie(faux)

\* ibanValide and referenceScorValide, two ways to one modulo: they agree,
\* and of the accounts that differ by one character one at most is right.
ModuloAccorde ==
    \A s \in Corps :
        /\ IbanValide(s) <=> ScorValide(s)
        /\ IbanValide(s) => \A i \in DOMAIN s : \A c \in Chiffres \ {s[i]} :
              s[i] < 10 => ~IbanValide([s EXCEPT ![i] = c])

\* choisirReference and verifier, the letter that asks for money and the file
\* that sends some: what a letter of this code prints on its bill, a file of
\* this code would pay.
BulletinPayable ==
    \A a \in Comptes, k \in Cles : (Admise(k) /\ IbanValide(a.corps)) =>
        Erreurs(a, ChoisirReference(a, GenererReference(k)), 1) = {}
=============================================================================
