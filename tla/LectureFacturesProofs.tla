----------------------- MODULE LectureFacturesProofs -----------------------
(***************************************************************************)
(* Proofs about LectureFactures: what comes by mail is retained, under any *)
(* concurrency, and what is billed was endorsed and ordered, one request   *)
(* at a time.  The amounts are those of a sum over a finite set, whose     *)
(* properties come first.                                                  *)
(*                                                                         *)
(* Proofs about Rapports, the report written on an invoice, come last: the *)
(* two components share this module and nothing else.                      *)
(***************************************************************************)
EXTENDS LectureFactures, FiniteSetTheorems, WellFoundedInduction, TLAPS

CONSTANTS Factures, Colonnes, Bulletins    \* of Rapports
VARIABLES montants, suivis

Ra == INSTANCE Rapports

(***************************************************************************)
(* Sums over finite sets                                                   *)
(***************************************************************************)
Avant == {xy \in Nat \X Nat : xy[1] < xy[2]}

\* A set of numbers has a least one.
LEMMA PlusPetit ==
    ASSUME NEW T \in SUBSET Nat, T # {}
    PROVE  \E x \in T : \A y \in T : x <= y
<1>1. IsWellFoundedOn(Avant, Nat)
  BY NatLessThanWellFounded DEF Avant, OpToRel
<1>2. \E x \in T : \A y \in T : <<y, x>> \notin Avant
  BY <1>1, WFMin
<1>3. ASSUME NEW x \in Nat, NEW y \in Nat, <<y, x>> \notin Avant PROVE x <= y
  <2>1. <<y, x>> \in Nat \X Nat /\ <<y, x>>[1] = y /\ <<y, x>>[2] = x
    OBVIOUS
  <2>2. ~(y < x)
    BY <1>3, <2>1 DEF Avant
  <2> QED BY <2>2
<1> QED
  BY <1>2, <1>3

\* A family of finite sets has one of the smallest.
LEMMA MoinsNombreux ==
    ASSUME NEW T, T # {}, \A s \in T : IsFiniteSet(s)
    PROVE  \E s \in T : \A t \in T : Cardinality(s) <= Cardinality(t)
<1> DEFINE H == {Cardinality(s) : s \in T}
<1>1. H \in SUBSET Nat /\ H # {}
  BY FS_CardinalityType
<1>2. PICK n \in H : \A m \in H : n <= m
  BY <1>1, PlusPetit
<1> QED
  BY <1>2

LEMMA UnDeMoins ==
    ASSUME NEW s, IsFiniteSet(s), NEW x \in s
    PROVE  /\ IsFiniteSet(s \ {x})
           /\ Cardinality(s) \in Nat /\ Cardinality(s \ {x}) \in Nat
           /\ Cardinality(s \ {x}) < Cardinality(s)
<1>1. IsFiniteSet(s \ {x}) /\ Cardinality(s \ {x}) = Cardinality(s) - 1
  BY FS_RemoveElement
<1>2. Cardinality(s) \in Nat /\ Cardinality(s \ {x}) \in Nat
  BY <1>1, FS_CardinalityType
<1> QED
  BY <1>1, <1>2

Pris(s) == CHOOSE x \in s : TRUE

\* The recursion behind Total: h counts every subset of D.
Terme(v, h, s) == IF s = {} THEN 0 ELSE Montant(v[Pris(s)]) + h[s \ {Pris(s)}]
Compte(v, D, h) == [s \in SUBSET D |-> Terme(v, h, s)]
Chiffrees(v, D) == IsFiniteSet(D) /\ \A p \in D : Montant(v[p]) \in Nat

LEMMA CompteExiste ==
    ASSUME NEW v, NEW D, Chiffrees(v, D)
    PROVE  \E h \in [SUBSET D -> Nat] : h = Compte(v, D, h)
<1> DEFINE S(n) == {s \in SUBSET D : Cardinality(s) < n}
           Bon(n) == \E h \in [S(n) -> Nat] : \A s \in S(n) : h[s] = Terme(v, h, s)
           T == {n \in Nat : ~Bon(n)}
<1>0. \A s \in SUBSET D : IsFiniteSet(s) /\ Cardinality(s) \in Nat
  BY FS_Subset, FS_CardinalityType DEF Chiffrees
<1>1. Bon(0)
  <2> DEFINE vide == [s \in S(0) |-> 0]
  <2>1. S(0) = {}
    BY <1>0
  <2>2. vide \in [S(0) -> Nat] /\ \A s \in S(0) : vide[s] = Terme(v, vide, s)
    BY <2>1
  <2> HIDE DEF vide
  <2> QED BY <2>2
<1>2. ASSUME NEW n \in Nat, Bon(n) PROVE Bon(n + 1)
  <2>1. PICK f \in [S(n) -> Nat] : \A s \in S(n) : f[s] = Terme(v, f, s)
    BY <1>2
  <2> DEFINE g == [s \in S(n + 1) |-> Terme(v, f, s)]
  <2>2. ASSUME NEW s \in S(n + 1), s # {}
        PROVE  Pris(s) \in D /\ s \ {Pris(s)} \in S(n) /\ s \ {Pris(s)} \in S(n + 1)
    <3>1. Pris(s) \in s
      BY <2>2 DEF Pris
    <3>2. Cardinality(s \ {Pris(s)}) < Cardinality(s) /\ Cardinality(s \ {Pris(s)}) \in Nat
      BY <3>1, <1>0, UnDeMoins
    <3> QED BY <3>1, <3>2, <1>0
  <2>3. g \in [S(n + 1) -> Nat]
    <3> SUFFICES ASSUME NEW s \in S(n + 1) PROVE Terme(v, f, s) \in Nat
      OBVIOUS
    <3>1. CASE s = {}
      BY <3>1 DEF Terme
    <3>2. CASE s # {}
      <4>1. Montant(v[Pris(s)]) \in Nat /\ f[s \ {Pris(s)}] \in Nat
        BY <3>2, <2>2, <2>1 DEF Chiffrees
      <4> QED BY <3>2, <4>1 DEF Terme
    <3> QED BY <3>1, <3>2
  <2>4. ASSUME NEW s \in S(n + 1) PROVE g[s] = Terme(v, g, s)
    <3>1. CASE s = {}
      BY <3>1 DEF Terme
    <3>2. CASE s # {}
      <4>1. f[s \ {Pris(s)}] = g[s \ {Pris(s)}]
        BY <3>2, <2>2, <2>1
      <4>2. g[s] = Montant(v[Pris(s)]) + f[s \ {Pris(s)}]
        BY <3>2 DEF Terme
      <4> HIDE DEF g
      <4> QED BY <3>2, <4>1, <4>2 DEF Terme
    <3> QED BY <3>1, <3>2
  <2> HIDE DEF g
  <2> QED BY <2>3, <2>4
<1>3. T = {}
  <2> SUFFICES ASSUME T # {} PROVE FALSE
    OBVIOUS
  <2> HIDE DEF Bon
  <2>1. PICK n \in T : \A m \in T : n <= m
    BY PlusPetit
  <2>2. n # 0
    BY <2>1, <1>1
  <2>3. n - 1 \in Nat /\ n - 1 \notin T
    BY <2>1, <2>2
  <2>4. Bon(n - 1 + 1)
    BY <2>3, <1>2
  <2> QED BY <2>1, <2>4
<1> DEFINE k == Cardinality(D) + 1
<1>4. k \in Nat /\ S(k) = SUBSET D
  <2>1. IsFiniteSet(D) /\ Cardinality(D) \in Nat
    BY <1>0
  <2>2. \A s \in SUBSET D : Cardinality(s) <= Cardinality(D)
    BY <2>1, FS_Subset
  <2> QED BY <2>1, <2>2, <1>0
<1>5. Bon(k)
  <2> HIDE DEF k, Bon
  <2> QED BY <1>3, <1>4
<1> HIDE DEF k
<1>6. PICK h \in [S(k) -> Nat] : \A s \in S(k) : h[s] = Terme(v, h, s)
  BY <1>5
<1> QED
  BY <1>4, <1>6 DEF Compte

\* Two counts agree on the sets they share, when the amounts do.
LEMMA CompteUnique ==
    ASSUME NEW v, NEW D, NEW h, h = Compte(v, D, h),
           NEW w, NEW E, NEW g, g = Compte(w, E, g),
           NEW A, IsFiniteSet(A), A \subseteq D, A \subseteq E,
           \A p \in A : Montant(v[p]) = Montant(w[p])
    PROVE  h[A] = g[A]
<1> DEFINE T == {s \in SUBSET A : h[s] # g[s]}
<1> SUFFICES ASSUME T # {} PROVE FALSE
  OBVIOUS
<1>1. \A s \in T : IsFiniteSet(s)
  BY FS_Subset
<1>2. PICK s \in T : \A t \in T : Cardinality(s) <= Cardinality(t)
  BY <1>1, MoinsNombreux
<1>3. h[s] = Terme(v, h, s) /\ g[s] = Terme(w, g, s)
  <2>1. s \in SUBSET D /\ s \in SUBSET E
    OBVIOUS
  <2>2. Compte(v, D, h)[s] = Terme(v, h, s) /\ Compte(w, E, g)[s] = Terme(w, g, s)
    BY <2>1 DEF Compte
  <2> QED BY <2>2
<1>4. s # {}
  BY <1>2, <1>3 DEF Terme
<1>5. Pris(s) \in s
  BY <1>4 DEF Pris
<1>6. s \ {Pris(s)} \notin T
  <2>1. Cardinality(s \ {Pris(s)}) < Cardinality(s)
        /\ Cardinality(s) \in Nat /\ Cardinality(s \ {Pris(s)}) \in Nat
    BY <1>1, <1>5, UnDeMoins
  <2> QED BY <2>1, <1>2
<1>7. h[s \ {Pris(s)}] = g[s \ {Pris(s)}] /\ Montant(v[Pris(s)]) = Montant(w[Pris(s)])
  BY <1>5, <1>6
<1> QED
  BY <1>2, <1>3, <1>4, <1>7 DEF Terme

LEMMA TotalCompte ==
    ASSUME NEW v, NEW D, Chiffrees(v, D)
    PROVE  \E h \in [SUBSET D -> Nat] :
               h = Compte(v, D, h) /\ \A A \in SUBSET D : Total(v, A) = h[A]
<1> DEFINE Iter(A) == CHOOSE h : h = Compte(v, A, h)
<1>1. ASSUME NEW A PROVE Total(v, A) = Iter(A)[A]
  BY DEF Total, MapThenSumSet, MapThenFoldSet, Compte, Terme, Pris
<1>2. PICK h \in [SUBSET D -> Nat] : h = Compte(v, D, h)
  BY CompteExiste
<1>3. ASSUME NEW A \in SUBSET D PROVE Total(v, A) = h[A]
  <2>1. Chiffrees(v, A)
    BY FS_Subset DEF Chiffrees
  <2>2. \E g : g = Compte(v, A, g)
    BY <2>1, CompteExiste
  <2>3. Iter(A) = Compte(v, A, Iter(A))
    BY <2>2
  <2>4. IsFiniteSet(A)
    BY <2>1 DEF Chiffrees
  <2> DEFINE g == Iter(A)
  <2> HIDE DEF g
  <2>5. g[A] = h[A]
    <3>1. g = Compte(v, A, g)
      BY <2>3 DEF g
    <3> QED BY <3>1, <2>4, <1>2, CompteUnique
  <2> QED BY <1>1, <2>5 DEF g
<1> QED
  BY <1>2, <1>3

\* What Total comes to: nothing for no invoice, and one invoice after another.
LEMMA TotalVide == ASSUME NEW v PROVE Total(v, {}) = 0
<1>1. Chiffrees(v, {})
  BY FS_EmptySet DEF Chiffrees
<1>2. PICK h \in [SUBSET {} -> Nat] :
          h = Compte(v, {}, h) /\ \A A \in SUBSET {} : Total(v, A) = h[A]
  BY <1>1, TotalCompte
<1>3. Total(v, {}) = h[{}] /\ {} \in SUBSET {}
  BY <1>2
<1>4. Compte(v, {}, h)[{}] = 0
  BY DEF Compte, Terme
<1> QED BY <1>2, <1>3, <1>4

LEMMA TotalNaturel == ASSUME NEW v, NEW D, Chiffrees(v, D) PROVE Total(v, D) \in Nat
<1>1. PICK h \in [SUBSET D -> Nat] :
          h = Compte(v, D, h) /\ \A A \in SUBSET D : Total(v, A) = h[A]
  BY TotalCompte
<1>2. Total(v, D) = h[D]
  BY <1>1
<1> QED BY <1>1, <1>2

LEMMA TotalEgal ==
    ASSUME NEW v, NEW w, NEW D, Chiffrees(v, D), \A p \in D : Montant(v[p]) = Montant(w[p])
    PROVE  Total(v, D) = Total(w, D)
<1>1. Chiffrees(w, D) /\ IsFiniteSet(D)
  BY DEF Chiffrees
<1>2. PICK h \in [SUBSET D -> Nat] :
          h = Compte(v, D, h) /\ \A A \in SUBSET D : Total(v, A) = h[A]
  BY TotalCompte
<1>3. PICK g \in [SUBSET D -> Nat] :
          g = Compte(w, D, g) /\ \A A \in SUBSET D : Total(w, A) = g[A]
  BY <1>1, TotalCompte
<1>4. h[D] = g[D]
  BY <1>1, <1>2, <1>3, CompteUnique
<1> QED BY <1>2, <1>3, <1>4

LEMMA TotalPris ==
    ASSUME NEW v, NEW D, Chiffrees(v, D), D # {}
    PROVE  Pris(D) \in D /\ Total(v, D) = Montant(v[Pris(D)]) + Total(v, D \ {Pris(D)})
<1>1. PICK h \in [SUBSET D -> Nat] :
          h = Compte(v, D, h) /\ \A A \in SUBSET D : Total(v, A) = h[A]
  BY TotalCompte
<1>2. Compte(v, D, h)[D] = Terme(v, h, D)
  BY DEF Compte
<1>3. Total(v, D) = h[D] /\ Total(v, D \ {Pris(D)}) = h[D \ {Pris(D)}]
  BY <1>1
<1>4. h[D] = Montant(v[Pris(D)]) + h[D \ {Pris(D)}]
  BY <1>1, <1>2 DEF Terme
<1> QED BY <1>3, <1>4 DEF Pris

\* Whichever is taken first.
LEMMA TotalUn ==
    ASSUME NEW v, NEW D, Chiffrees(v, D), NEW x \in D
    PROVE  Total(v, D) = Montant(v[x]) + Total(v, D \ {x})
<1> DEFINE Faux(s) == \E y \in s : Total(v, s) # Montant(v[y]) + Total(v, s \ {y})
           T == {s \in SUBSET D : Faux(s)}
<1> SUFFICES ASSUME T # {} PROVE FALSE
  OBVIOUS
<1>1. \A s \in SUBSET D : Chiffrees(v, s) /\ IsFiniteSet(s)
  BY FS_Subset DEF Chiffrees
<1>2. PICK s \in T : \A t \in T : Cardinality(s) <= Cardinality(t)
  <2> HIDE DEF Faux
  <2> QED BY <1>1, MoinsNombreux
<1>3. PICK y \in s : Total(v, s) # Montant(v[y]) + Total(v, s \ {y})
  BY <1>2
<1> DEFINE z == Pris(s)
           a == s \ {y}
           b == s \ {z}
           c == s \ {y, z}
<1>4. z \in s /\ Total(v, s) = Montant(v[z]) + Total(v, b)
  BY <1>1, <1>2, <1>3, TotalPris
<1>5. z # y
  BY <1>3, <1>4
<1>6. a \notin T /\ b \notin T
  <2> HIDE DEF Faux
  <2>1. Cardinality(a) < Cardinality(s) /\ Cardinality(b) < Cardinality(s)
    BY <1>1, <1>3, <1>4, UnDeMoins
  <2>2. Cardinality(a) \in Nat /\ Cardinality(b) \in Nat /\ Cardinality(s) \in Nat
    BY <1>1, <1>3, <1>4, UnDeMoins
  <2> QED BY <2>1, <2>2, <1>2
<1>7. a \ {z} = c /\ b \ {y} = c /\ z \in a /\ y \in b /\ a \in SUBSET D /\ b \in SUBSET D
      /\ c \in SUBSET D
  BY <1>3, <1>4, <1>5
<1>8. Total(v, a) = Montant(v[z]) + Total(v, c) /\ Total(v, b) = Montant(v[y]) + Total(v, c)
  BY <1>6, <1>7
<1>9. Total(v, c) \in Nat /\ Montant(v[y]) \in Nat /\ Montant(v[z]) \in Nat
  BY <1>1, <1>3, <1>4, <1>7, TotalNaturel DEF Chiffrees
<1> HIDE DEF a, b, c, z
<1> QED
  BY <1>3, <1>4, <1>8, <1>9 DEF a

\* A part comes to no more than the whole.
LEMMA TotalCroissant ==
    ASSUME NEW v, NEW D, Chiffrees(v, D), NEW A \in SUBSET D
    PROVE  Total(v, A) <= Total(v, D)
<1> DEFINE T == {s \in SUBSET D : A \subseteq s /\ ~(Total(v, A) <= Total(v, s))}
<1> SUFFICES ASSUME T # {} PROVE FALSE
  OBVIOUS
<1>1. \A s \in SUBSET D : Chiffrees(v, s) /\ IsFiniteSet(s) /\ Total(v, s) \in Nat
  BY FS_Subset, TotalNaturel DEF Chiffrees
<1>2. PICK s \in T : \A t \in T : Cardinality(s) <= Cardinality(t)
  BY <1>1, MoinsNombreux
<1>3. PICK x \in s : x \notin A
  BY <1>1, <1>2
<1>4. Total(v, s) = Montant(v[x]) + Total(v, s \ {x})
  BY <1>1, <1>3, TotalUn
<1>5. Cardinality(s \ {x}) < Cardinality(s) /\ Cardinality(s \ {x}) \in Nat
      /\ Cardinality(s) \in Nat
  BY <1>1, <1>3, UnDeMoins
<1>6. s \ {x} \notin T /\ s \ {x} \in SUBSET D /\ A \subseteq s \ {x}
  BY <1>2, <1>3, <1>5
<1>7. Montant(v[x]) \in Nat /\ Total(v, s \ {x}) \in Nat /\ Total(v, A) \in Nat
  BY <1>1, <1>6 DEF Chiffrees
<1> QED
  BY <1>2, <1>4, <1>6, <1>7

(***************************************************************************)
(* What each request knows, whatever the others do                         *)
(***************************************************************************)
\* No step takes back a message, an invoice, or the door it came through.
Stable ==
    /\ \A m \in Messages : messages[m] # NUL => messages'[m] # NUL
    /\ \A porte : Retenu(porte) => Retenu(porte)'
    /\ \A p \in Pieces : Existe(p) => Existe(p)'
    /\ \A p \in Pieces : Existe(p)' =>
          (Existe(p) /\ factures'[p].porte = factures[p].porte) \/ Retenu(factures[p].porte)'

LEMMA SuiviStable ==
    ASSUME Domaines, Stable, NEW r \in Requete, Suivi(r)
    PROVE  Suivi(r)'
<1>1. r.etat \in {"lecture", "facture", "relance", "controle", "validation"} => Existe(r.p)'
  <2>1. r.etat \in {"lecture", "facture", "relance", "controle", "validation"} => r.p \in Pieces
    BY DEF Requete
  <2> QED BY <2>1 DEF Suivi, Stable
<1>2. r.etat = "liberation" => messages'[r.m] # NUL
  <2>1. r.etat = "liberation" => r.m \in Messages
    BY DEF Requete
  <2> QED BY <2>1 DEF Suivi, Stable
<1>3. r.etat \in {"versement", "piece"} =>
          Retenu(r.porte)' /\ \A p \in r.aLire : Existe(p)'
  <2>1. r.etat \in {"versement", "piece"} => r.aLire \subseteq Pieces
    BY DEF Requete
  <2> QED BY <2>1 DEF Suivi, Stable
<1> QED BY <1>1, <1>2, <1>3 DEF Suivi

LEMMA Avance ==
    ASSUME Domaines, IInv, TypeOK', Stable, NEW q,
           \A s \in Requetes : s # q => req'[s] = req[s],
           \A r \in Requete : q \in Requetes /\ req'[q] = r /\ r # req[q] => Suivi(r)',
           \A p \in Pieces : ~Existe(p)' => planifiees'[p] = 0,
           \A p \in Pieces : q \in Requetes /\ AReceveur(req'[q], p) =>
               planifiees'[p] <= MaxLectures
               /\ \A s \in Requetes : s # q => ~AReceveur(req[s], p),
           \A p \in Pieces : planifiees'[p] <= planifiees[p] \/ planifiees'[p] <= MaxLectures
               \/ \A s \in Requetes : s # q => ~AReceveur(req[s], p)
    PROVE  IInv'
<1>1. ASSUME NEW s \in Requetes PROVE Suivi(req[s])'
  <2>1. PICK r \in Requete : r = req'[s]
    BY DEF TypeOK
  <2>2. Suivi(r)'
    <3>1. CASE r = req[s]
      <4>1. Suivi(r)
        BY <3>1 DEF IInv
      <4> QED BY <4>1, SuiviStable
    <3>2. CASE r # req[s]
      BY <2>1, <3>2
    <3> QED BY <3>1, <3>2
  <2> QED BY <2>1, <2>2 DEF Suivi, Existe, Retenu
<1>2. PremiereLecture'
  <2> SUFFICES ASSUME NEW p \in Pieces
               PROVE /\ ~Existe(p)' => planifiees'[p] = 0
                     /\ \A s \in Requetes : AReceveur(req'[s], p) =>
                           /\ planifiees'[p] <= MaxLectures
                           /\ \A t \in Requetes : AReceveur(req'[t], p) => t = s
    BY DEF PremiereLecture, AReceveur
  <2>1. SUFFICES ASSUME NEW s \in Requetes, AReceveur(req'[s], p)
                 PROVE  /\ planifiees'[p] <= MaxLectures
                        /\ \A t \in Requetes : AReceveur(req'[t], p) => t = s
    OBVIOUS
  <2>2. CASE s = q
    BY <2>1, <2>2
  <2>3. CASE s # q
    <3>1. AReceveur(req[s], p)
      BY <2>1, <2>3
    <3>2. planifiees[p] <= MaxLectures /\ \A t \in Requetes : AReceveur(req[t], p) => t = s
      BY <3>1 DEF IInv, PremiereLecture
    <3>3. planifiees[p] \in Int /\ planifiees'[p] \in Int /\ MaxLectures \in Int
      BY DEF IInv, TypeOK, Domaines
    <3>4. planifiees'[p] <= MaxLectures
      BY <2>3, <3>1, <3>2, <3>3
    <3>5. ~(q \in Requetes /\ AReceveur(req'[q], p))
      BY <2>3, <3>1
    <3> QED BY <3>2, <3>4, <3>5
  <2> QED BY <2>2, <2>3
<1>3. ASSUME NEW p \in Pieces, Existe(p)' PROVE Retenu(factures[p].porte)'
  <2>1. CASE Existe(p) /\ factures'[p].porte = factures[p].porte
    <3>1. PICK porte : porte = factures[p].porte
      OBVIOUS
    <3>2. Retenu(porte)'
      BY <2>1, <3>1 DEF IInv, Stable, Retenu
    <3> QED BY <2>1, <3>1, <3>2 DEF Retenu
  <2> QED BY <2>1, <1>3 DEF Stable
<1> QED BY <1>1, <1>2, <1>3 DEF IInv

\* The value of an invoice in the base of its contract is an amount or none.
LEMMA ArrondiEntier == ASSUME NEW n \in Nat, NEW d \in Nat \ {0} PROVE Arrondi(n, d) \in Nat
<1>1. 2 * n + d \in Nat /\ 2 * d \in Nat /\ 2 * d > 0
  OBVIOUS
<1> QED BY <1>1 DEF Arrondi

LEMMA ValeurDansBase ==
    ASSUME Domaines, NEW m \in Chiffres
    PROVE  Valeur(m) \in Nat \cup {NUL}
<1>1. m.ht \in Nat \cup {NUL} /\ m.ttc \in Nat \cup {NUL} /\ m.taux \in Nat \cup {NUL}
  BY DEF Chiffres
<1>2. AvecTaxe(m) \in Nat \cup {NUL}
  <2>1. CASE m.ht # NUL /\ m.taux # NUL
    <3>1. m.ht * (100 + m.taux) \in Nat
      BY <1>1, <2>1
    <3> QED BY <2>1, <3>1, ArrondiEntier DEF AvecTaxe
  <2> QED BY <2>1 DEF AvecTaxe
<1>3. SansTaxe(m) \in Nat \cup {NUL}
  <2>1. CASE m.ttc # NUL /\ m.taux # NUL
    <3>1. m.ttc * 100 \in Nat /\ 100 + m.taux \in Nat \ {0}
      BY <1>1, <2>1
    <3> QED BY <2>1, <3>1, ArrondiEntier DEF SansTaxe
  <2> QED BY <2>1 DEF SansTaxe
<1> QED BY <1>1, <1>2, <1>3 DEF Valeur, Complete

(***************************************************************************)
(* The steps that only read, and those that correct one invoice            *)
(***************************************************************************)
LEMMA Lit ==
    ASSUME Domaines, IInv, NEW q \in Requetes, NEW r \in Requete, Garder(q, r), Suivi(r),
           UNCHANGED <<messages, lus, factures, planifiees>>,
           \A p \in Pieces : AReceveur(r, p) => AReceveur(req[q], p)
    PROVE  IInv'
<1>1. req' = [req EXCEPT ![q] = r] /\ req \in [Requetes -> Requete]
  BY DEF Garder, IInv, TypeOK
<1>2. TypeOK'
  BY <1>1 DEF IInv, TypeOK
<1>3. Stable
  BY DEF Stable, Retenu, Existe, IInv
<1>4. req'[q] = r /\ \A s \in Requetes : s # q => req'[s] = req[s]
  BY <1>1
<1>5. Suivi(r)'
  BY DEF Suivi, Retenu, Existe
<1>6. ASSUME NEW p \in Pieces
      PROVE  /\ ~Existe(p)' => planifiees'[p] = 0
             /\ planifiees'[p] <= planifiees[p]
             /\ AReceveur(r, p) => planifiees'[p] <= MaxLectures
                   /\ \A s \in Requetes : s # q => ~AReceveur(req[s], p)
  <2>1. planifiees[p] \in Int
    BY DEF IInv, TypeOK
  <2>2. ~Existe(p)' => planifiees'[p] = 0
    BY DEF IInv, PremiereLecture, Existe
  <2>3. AReceveur(r, p) => planifiees'[p] <= MaxLectures
                   /\ \A s \in Requetes : s # q => ~AReceveur(req[s], p)
    BY DEF IInv, PremiereLecture
  <2> QED BY <2>1, <2>2, <2>3
<1> QED
  BY <1>2, <1>3, <1>4, <1>5, <1>6, Avance

\* No invoice is deleted.
Demeurent == \A s \in Pieces : Existe(s) => Existe(s)'

LEMMA Corrige ==
    ASSUME Domaines, IInv, NEW q \in Requetes, NEW p \in Pieces, Existe(p),
           NEW f \in Facture, f.porte = factures[p].porte,
           factures' = [factures EXCEPT ![p] = f],
           NEW r \in Requete, Garder(q, r), r.etat \in {"libre", "controle"},
           r.etat = "controle" => r.p = p,
           UNCHANGED <<messages, lus>>,
           planifiees' \in [Pieces -> 0..(MaxLectures + 1)],
           \A s \in Pieces : planifiees'[s] = planifiees[s]
                                  \/ (Existe(s) /\ planifiees'[s] <= MaxLectures)
    PROVE  IInv' /\ Demeurent
<1>1. req' = [req EXCEPT ![q] = r] /\ req \in [Requetes -> Requete]
      /\ factures \in [Pieces -> Facture \cup {NUL}]
  BY DEF Garder, IInv, TypeOK
<1>2. TypeOK'
  BY <1>1 DEF IInv, TypeOK
<1>3. f # NUL
  BY DEF Domaines
<1>4. \A s \in Pieces : /\ Existe(s)' <=> Existe(s)
                        /\ Existe(s) => factures'[s].porte = factures[s].porte
  BY <1>1, <1>3 DEF Existe
<1>5. Stable
  BY <1>4 DEF Stable, Retenu
<1>6. req'[q] = r /\ \A s \in Requetes : s # q => req'[s] = req[s]
  BY <1>1
<1>7. Suivi(r)'
  BY <1>4 DEF Suivi
<1>8. ASSUME NEW s \in Pieces
      PROVE  /\ ~Existe(s)' => planifiees'[s] = 0
             /\ planifiees'[s] <= planifiees[s] \/ planifiees'[s] <= MaxLectures
             /\ ~AReceveur(r, s)
  <2>1. planifiees[s] \in Int
    BY DEF IInv, TypeOK
  <2>2. ~Existe(s)' => planifiees'[s] = 0
    BY <1>4 DEF IInv, PremiereLecture
  <2> QED BY <2>1, <2>2 DEF AReceveur
<1> QED
  BY <1>2, <1>4, <1>5, <1>6, <1>7, <1>8, Avance DEF Demeurent

(***************************************************************************)
(* What one action leaves                                                  *)
(***************************************************************************)
LEMMA Lectures ==
    ASSUME Domaines, IInv, NEW q \in Requetes,
           \/ \E m \in Messages : LireMessage(q, m) \/ LireLiberation(q, m)
           \/ \E P \in SUBSET Pieces : Deposer(q, P)
           \/ \E p \in Pieces : LireRelance(q, p) \/ LireFacture(q, p) \/ ChercherPiece(q, p)
           \/ \E p \in Pieces, c, f \in BOOLEAN : LireValidation(q, p, c, f)
           \/ Interrompre(q)
    PROVE  IInv'
<1>1. ASSUME NEW m \in Messages, LireMessage(q, m) PROVE IInv'
  <2> DEFINE r == [etat |-> "message", m |-> m]
  <2>1. r \in Requete /\ Suivi(r) /\ \A p : ~AReceveur(r, p)
    BY DEF Requete, Suivi, AReceveur
  <2>2. Garder(q, r) /\ UNCHANGED <<messages, lus, factures, planifiees>>
    BY <1>1 DEF LireMessage
  <2> HIDE DEF r
  <2> QED BY <2>1, <2>2, Lit
<1>2. ASSUME NEW m \in Messages, LireLiberation(q, m) PROVE IInv'
  <2> DEFINE r == [etat |-> "liberation", m |-> m]
  <2>1. r \in Requete /\ Suivi(r) /\ \A p : ~AReceveur(r, p)
    BY <1>2 DEF Requete, Suivi, AReceveur, LireLiberation
  <2>2. Garder(q, r) /\ UNCHANGED <<messages, lus, factures, planifiees>>
    BY <1>2 DEF LireLiberation
  <2> HIDE DEF r
  <2> QED BY <2>1, <2>2, Lit
<1>3. ASSUME NEW P \in SUBSET Pieces, Deposer(q, P) PROVE IInv'
  <2> DEFINE r == [etat |-> "versement", porte |-> "DEPOT", reste |-> P, aLire |-> {}]
  <2>1. r \in Requete /\ Suivi(r) /\ \A p : ~AReceveur(r, p)
    BY DEF Requete, Suivi, AReceveur, Retenu, Domaines
  <2>2. Garder(q, r) /\ UNCHANGED <<messages, lus, factures, planifiees>>
    BY <1>3 DEF Deposer
  <2> HIDE DEF r
  <2> QED BY <2>1, <2>2, Lit
<1>4. ASSUME NEW p \in Pieces, LireRelance(q, p) PROVE IInv'
  <2> DEFINE r == [etat |-> "relance", p |-> p]
  <2>1. r \in Requete /\ Suivi(r) /\ \A x : ~AReceveur(r, x)
    BY <1>4 DEF Requete, Suivi, AReceveur, LireRelance
  <2>2. Garder(q, r) /\ UNCHANGED <<messages, lus, factures, planifiees>>
    BY <1>4 DEF LireRelance
  <2> HIDE DEF r
  <2> QED BY <2>1, <2>2, Lit
<1>5. ASSUME NEW p \in Pieces, LireFacture(q, p) PROVE IInv'
  <2> DEFINE r == Lue("facture", p)
  <2>1. factures[p] \in Facture
    BY <1>5 DEF LireFacture, Existe, IInv, TypeOK
  <2>2. r \in Requete
    BY <2>1 DEF Requete, Lue, Facture
  <2>3. Suivi(r) /\ \A x : ~AReceveur(r, x)
    BY <1>5 DEF Suivi, AReceveur, LireFacture, Lue
  <2>4. Garder(q, r) /\ UNCHANGED <<messages, lus, factures, planifiees>>
    BY <1>5 DEF LireFacture
  <2> HIDE DEF r
  <2> QED BY <2>2, <2>3, <2>4, Lit
<1>6. ASSUME NEW p \in Pieces, ChercherPiece(q, p) PROVE IInv'
  <2>1. req[q] \in Requete /\ Suivi(req[q]) /\ req[q].etat = "versement"
    BY <1>6 DEF ChercherPiece, En, IInv, TypeOK
  <2>2. req[q] \in [etat: {"versement"}, porte: {"DEPOT"} \cup Messages, reste: SUBSET Pieces,
                    aLire: SUBSET Pieces]
    BY <2>1 DEF Requete
  <2>3. CASE Existe(p)
    <3> DEFINE r == [req[q] EXCEPT !.reste = @ \ {p}]
    <3>1. r \in Requete
      BY <2>2 DEF Requete
    <3>2. Suivi(r)
      BY <2>1, <2>2 DEF Suivi
    <3>3. \A x : AReceveur(r, x) => AReceveur(req[q], x)
      BY <2>2 DEF AReceveur
    <3>4. Garder(q, r) /\ UNCHANGED <<messages, lus, factures, planifiees>>
      BY <1>6, <2>3 DEF ChercherPiece
    <3> HIDE DEF r
    <3> QED BY <3>1, <3>2, <3>3, <3>4, Lit
  <2>4. CASE ~Existe(p)
    <3> DEFINE r == [etat |-> "piece", porte |-> req[q].porte, reste |-> req[q].reste \ {p},
                     aLire |-> req[q].aLire, p |-> p]
    <3>1. r \in Requete
      BY <2>2 DEF Requete
    <3>2. Suivi(r)
      BY <2>1, <2>2 DEF Suivi
    <3>3. \A x : AReceveur(r, x) => AReceveur(req[q], x)
      BY <2>2 DEF AReceveur
    <3>4. Garder(q, r) /\ UNCHANGED <<messages, lus, factures, planifiees>>
      BY <1>6, <2>4 DEF ChercherPiece
    <3> HIDE DEF r
    <3> QED BY <3>1, <3>2, <3>3, <3>4, Lit
  <2> QED BY <2>3, <2>4
<1>7. ASSUME NEW p \in Pieces, NEW c \in BOOLEAN, NEW f \in BOOLEAN, LireValidation(q, p, c, f)
      PROVE  IInv'
  <2> DEFINE b == c \/ factures[p].contrat
             n == IF b THEN Valeur(factures[p].montant) ELSE NUL
             r == [etat |-> "validation", p |-> p, contrat |-> b, compare |-> n, force |-> f]
  <2>1. factures[p] \in Facture
    BY <1>7 DEF LireValidation, Existe, IInv, TypeOK
  <2>2. b \in BOOLEAN /\ n \in Nat \cup {NUL}
    BY <2>1, ValeurDansBase DEF Facture
  <2>3. r \in Requete
    <3> HIDE DEF b, n
    <3> QED BY <2>2 DEF Requete
  <2>4. Suivi(r) /\ \A x : ~AReceveur(r, x)
    BY <1>7 DEF Suivi, AReceveur, LireValidation
  <2>5. Garder(q, r) /\ UNCHANGED <<messages, lus, factures, planifiees>>
    BY <1>7 DEF LireValidation
  <2> HIDE DEF r
  <2> QED BY <2>3, <2>4, <2>5, Lit
<1>8. ASSUME Interrompre(q) PROVE IInv'
  <2>1. Libre \in Requete /\ Suivi(Libre) /\ \A x : ~AReceveur(Libre, x)
    BY DEF Libre, Requete, Suivi, AReceveur
  <2>2. Garder(q, Libre) /\ UNCHANGED <<messages, lus, factures, planifiees>>
    BY <1>8 DEF Interrompre, Finir
  <2> QED BY <2>1, <2>2, Lit
<1> QED BY <1>1, <1>2, <1>3, <1>4, <1>5, <1>6, <1>7, <1>8

\* Amounts given, and the empties of a row filled with them.
LEMMA ChiffresDonnes ==
    ASSUME Domaines, NEW m \in Montants \cup {Vide}
    PROVE  m \in Chiffres
<1>1. CASE m = Vide
  BY <1>1 DEF Vide, Chiffres
<1>2. CASE m \in Montants
  BY <1>2 DEF Domaines
<1> QED BY <1>1, <1>2

LEMMA ChiffresCompletes ==
    ASSUME Domaines, NEW a \in Chiffres, NEW b \in Chiffres
    PROVE  Completes(a, b) \in Chiffres
<1> QED BY DEF Chiffres, Completes, Complete

\* The invoice a correction leaves: what was read has its shape, so has it.
LEMMA LigneLue ==
    ASSUME Domaines, IInv, NEW q \in Requetes,
           req[q].etat \in {"lecture", "facture", "relance", "controle", "validation"}
    PROVE  /\ req[q].p \in Pieces /\ Existe(req[q].p) /\ factures[req[q].p] \in Facture
           /\ req[q].etat \in {"lecture", "facture"} =>
                 /\ req[q].montant \in Chiffres /\ req[q].contrat \in BOOLEAN
                 /\ req[q].statut \in FactureStatut
           /\ req[q].etat = "validation" => /\ req[q].contrat \in BOOLEAN /\ req[q].force \in BOOLEAN
                                            /\ req[q].compare \in Nat \cup {NUL}
<1>1. req[q] \in Requete /\ Suivi(req[q])
  BY DEF IInv, TypeOK
<1>2. req[q].p \in Pieces
  BY <1>1 DEF Requete
<1>3. Existe(req[q].p)
  BY <1>1 DEF Suivi
<1>4. factures[req[q].p] \in Facture
  BY <1>2, <1>3 DEF Existe, IInv, TypeOK
<1>5. req[q].etat \in {"lecture", "facture"} =>
                 /\ req[q].montant \in Chiffres /\ req[q].contrat \in BOOLEAN
                 /\ req[q].statut \in FactureStatut
  BY <1>1 DEF Requete
<1>6. req[q].etat = "validation" => /\ req[q].contrat \in BOOLEAN /\ req[q].force \in BOOLEAN
                                    /\ req[q].compare \in Nat \cup {NUL}
  BY <1>1 DEF Requete
<1> QED BY <1>2, <1>3, <1>4, <1>5, <1>6

LEMMA Ecritures ==
    ASSUME Domaines, IInv, NEW q \in Requetes,
           \/ \E m \in Montants \cup {Vide}, c \in BOOLEAN :
                 EcrireLecture(q, m, c) \/ Modifier(q, m, c) \/ Analyser(q, m, c)
           \/ EchouerLecture(q)
           \/ \E c \in BOOLEAN : Controler(q, c)
           \/ \E d \in Visa : Viser(q, d)
           \/ Valider(q)
           \/ \E s \in {"LITIGE", "REJETEE", "A_VALIDER"} : ChangerStatut(q, s)
           \/ \E s \in BOOLEAN : EnregistrerPaiement(q, s)
           \/ Relancer(q)
    PROVE  IInv' /\ Demeurent
<1> DEFINE p == req[q].p
           g == factures[p]
           Bonne(f) == f \in Facture /\ f.porte = g.porte
<1>0. req[q].etat \in {"lecture", "facture", "relance", "controle", "validation"}
  BY DEF EcrireLecture, Modifier, Analyser, EchouerLecture, Controler, Viser, Valider, ChangerStatut,
         EnregistrerPaiement, Relancer, En
<1>p. p \in Pieces /\ Existe(p) /\ g \in Facture
  BY <1>0, LigneLue
<1> DEFINE Controlee(b) == [etat |-> "controle", p |-> p, lecture |-> b]
<1>k. (\A b \in BOOLEAN : Controlee(b) \in Requete) /\ Libre \in Requete
  BY <1>p DEF Requete, Libre
<1>m. /\ planifiees \in [Pieces -> 0..(MaxLectures + 1)]
      /\ factures \in [Pieces -> Facture \cup {NUL}]
  BY DEF IInv, TypeOK
<1>n. ASSUME NEW f, Bonne(f), factures' = [factures EXCEPT ![p] = f],
             Finir(q) \/ \E b \in BOOLEAN : Garder(q, Controlee(b)),
             UNCHANGED <<messages, lus, planifiees>>
      PROVE  IInv' /\ Demeurent
  <2>1. CASE Finir(q)
    <3>1. Libre.etat = "libre"
      BY DEF Libre
    <3> QED BY <1>n, <1>p, <1>k, <1>m, <2>1, <3>1, Corrige DEF Finir
  <2>2. ASSUME NEW b \in BOOLEAN, Garder(q, Controlee(b)) PROVE IInv' /\ Demeurent
    <3> DEFINE r == Controlee(b)
    <3>1. r \in Requete /\ r.etat = "controle" /\ r.p = p /\ Garder(q, r)
      BY <1>k, <2>2
    <3> HIDE DEF r, p
    <3> QED BY <1>n, <1>p, <1>m, <3>1, Corrige
  <2> QED BY <1>n, <2>1, <2>2
<1>1. ASSUME NEW m \in Montants \cup {Vide}, NEW c \in BOOLEAN, EcrireLecture(q, m, c)
      PROVE IInv' /\ Demeurent
  <2> DEFINE n == Completes(req[q].montant, m)
             f == [g EXCEPT !.montant = n, !.contrat = req[q].contrat \/ c,
                       !.statut = "A_VALIDER"]
  <2>0. req[q].montant \in Chiffres /\ req[q].contrat \in BOOLEAN
        /\ req[q].statut \in FactureStatut
    BY <1>0, <1>1, LigneLue DEF EcrireLecture, En
  <2>1. Bonne(f)
    <3>1. n \in Chiffres
      BY <2>0, ChiffresDonnes, ChiffresCompletes
    <3> HIDE DEF n
    <3> QED BY <2>0, <3>1, <1>p, <1>1 DEF Facture, FactureStatut
  <2>2. factures' = [factures EXCEPT ![p] = f]
    BY <1>m, <1>p, <1>1 DEF EcrireLecture
  <2>3. Garder(q, Controlee(TRUE)) /\ UNCHANGED <<messages, lus, planifiees>>
    BY <1>1 DEF EcrireLecture
  <2> HIDE DEF f, Bonne, Controlee
  <2> QED BY <2>1, <2>2, <2>3, <1>n
<1>2. ASSUME EchouerLecture(q) PROVE IInv' /\ Demeurent
  <2> DEFINE f == [g EXCEPT !.statut = "RECUE"]
  <2>1. Bonne(f)
    BY <1>p, <1>2 DEF Facture, FactureStatut
  <2>2. factures' = [factures EXCEPT ![p] = f]
    BY <1>m, <1>p, <1>2 DEF EchouerLecture
  <2>3. Finir(q) /\ UNCHANGED <<messages, lus, planifiees>>
    BY <1>2 DEF EchouerLecture
  <2> HIDE DEF f, Bonne
  <2> QED BY <2>1, <2>2, <2>3, <1>n
<1>3. ASSUME NEW c \in BOOLEAN, Controler(q, c) PROVE IInv' /\ Demeurent
  <2> DEFINE f == [g EXCEPT !.critique = c]
  <2>1. Bonne(f)
    BY <1>p, <1>3 DEF Facture, FactureStatut
  <2>2. factures' = [factures EXCEPT ![p] = f]
    BY <1>m, <1>p, <1>3 DEF Controler
  <2>3. Finir(q) /\ UNCHANGED <<messages, lus, planifiees>>
    BY <1>3 DEF Controler
  <2> HIDE DEF f, Bonne
  <2> QED BY <2>1, <2>2, <2>3, <1>n
<1>4. ASSUME NEW m \in Montants \cup {Vide}, NEW c \in BOOLEAN, Modifier(q, m, c)
      PROVE IInv' /\ Demeurent
  <2> DEFINE f == [g EXCEPT !.montant = m, !.contrat = c]
  <2>1. Bonne(f)
    BY <1>p, <1>4, ChiffresDonnes DEF Facture, FactureStatut
  <2>2. factures' = [factures EXCEPT ![p] = f]
    BY <1>m, <1>p, <1>4 DEF Modifier
  <2>3. Garder(q, Controlee(FALSE)) /\ UNCHANGED <<messages, lus, planifiees>>
    BY <1>4 DEF Modifier
  <2> HIDE DEF f, Bonne, Controlee
  <2> QED BY <2>1, <2>2, <2>3, <1>n
<1>5. ASSUME NEW m \in Montants \cup {Vide}, NEW c \in BOOLEAN, Analyser(q, m, c)
      PROVE IInv' /\ Demeurent
  <2> DEFINE f == [g EXCEPT !.montant = Completes(req[q].montant, m), !.contrat = req[q].contrat \/ c,
                       !.statut = IF req[q].statut = "RECUE" THEN "A_VALIDER" ELSE req[q].statut]
  <2>0. req[q].montant \in Chiffres /\ req[q].contrat \in BOOLEAN
        /\ req[q].statut \in FactureStatut
    BY <1>0, <1>5, LigneLue DEF Analyser, En
  <2>1. Bonne(f)
    <3> DEFINE t == IF req[q].statut = "RECUE" THEN "A_VALIDER" ELSE req[q].statut
               n == Completes(req[q].montant, m)
               b == req[q].contrat \/ c
    <3>1. t \in FactureStatut /\ n \in Chiffres /\ b \in BOOLEAN
      BY <2>0, ChiffresDonnes, ChiffresCompletes DEF FactureStatut
    <3>2. f = [g EXCEPT !.montant = n, !.contrat = b, !.statut = t]
      OBVIOUS
    <3> HIDE DEF f, t, n, b
    <3> QED BY <3>1, <3>2, <1>p DEF Facture
  <2>2. factures' = [factures EXCEPT ![p] = f]
    BY <1>m, <1>p, <1>5 DEF Analyser
  <2>3. Finir(q) /\ UNCHANGED <<messages, lus, planifiees>>
    BY <1>5 DEF Analyser
  <2> HIDE DEF f, Bonne
  <2> QED BY <2>1, <2>2, <2>3, <1>n
<1>6. ASSUME NEW d \in Visa, Viser(q, d) PROVE IInv' /\ Demeurent
  <2> DEFINE f == [g EXCEPT !.visas = Append(@, d),
                            !.statut = IF d = "REFUSE" THEN "LITIGE" ELSE "A_VALIDER"]
  <2>0. Append(g.visas, d) \in Seq(Visa)
    BY <1>p, <1>6 DEF Facture
  <2>1. Bonne(f)
    <3> DEFINE v == Append(g.visas, d)
    <3> HIDE DEF v
    <3>1. v \in Seq(Visa)
          /\ f = [g EXCEPT !.visas = v, !.statut = IF d = "REFUSE" THEN "LITIGE" ELSE "A_VALIDER"]
      BY <2>0 DEF v
    <3> HIDE DEF f
    <3> QED BY <3>1, <1>p DEF Facture, FactureStatut
  <2>2. factures' = [factures EXCEPT ![p] = f]
    BY <1>m, <1>p, <1>6 DEF Viser
  <2>3. Finir(q) /\ UNCHANGED <<messages, lus, planifiees>>
    BY <1>6 DEF Viser
  <2> HIDE DEF f, Bonne
  <2> QED BY <2>1, <2>2, <2>3, <1>n
<1>7. ASSUME Valider(q) PROVE IInv' /\ Demeurent
  <2> DEFINE f == [g EXCEPT !.statut = "VALIDEE", !.contrat = req[q].contrat,
                            !.cumul = req[q].contrat, !.compare = req[q].compare,
                            !.force = req[q].force]
  <2>0. req[q].contrat \in BOOLEAN /\ req[q].force \in BOOLEAN /\ req[q].compare \in Nat \cup {NUL}
    BY <1>0, <1>7, LigneLue DEF Valider, En
  <2>1. Bonne(f)
    BY <2>0, <1>p, <1>7 DEF Facture, FactureStatut
  <2>2. factures' = [factures EXCEPT ![p] = f]
    BY <1>m, <1>p, <1>7 DEF Valider
  <2>3. Finir(q) /\ UNCHANGED <<messages, lus, planifiees>>
    BY <1>7 DEF Valider
  <2> HIDE DEF f, Bonne
  <2> QED BY <2>1, <2>2, <2>3, <1>n
<1>8. ASSUME NEW s \in {"LITIGE", "REJETEE", "A_VALIDER"}, ChangerStatut(q, s)
      PROVE IInv' /\ Demeurent
  <2> DEFINE f == [g EXCEPT !.statut = s]
  <2>1. Bonne(f)
    BY <1>p, <1>8 DEF Facture, FactureStatut
  <2>2. factures' = [factures EXCEPT ![p] = f]
    BY <1>m, <1>p, <1>8 DEF ChangerStatut
  <2>3. Finir(q) /\ UNCHANGED <<messages, lus, planifiees>>
    BY <1>8 DEF ChangerStatut
  <2> HIDE DEF f, Bonne
  <2> QED BY <2>1, <2>2, <2>3, <1>n
<1>9. ASSUME NEW s \in BOOLEAN, EnregistrerPaiement(q, s) PROVE IInv' /\ Demeurent
  <2> DEFINE f == [g EXCEPT !.paye = TRUE, !.statut = IF s THEN "PAYEE" ELSE @]
  <2>1. Bonne(f)
    BY <1>p, <1>9 DEF Facture, FactureStatut
  <2>2. factures' = [factures EXCEPT ![p] = f]
    BY <1>m, <1>p, <1>9 DEF EnregistrerPaiement
  <2>3. Finir(q) /\ UNCHANGED <<messages, lus, planifiees>>
    BY <1>9 DEF EnregistrerPaiement
  <2> HIDE DEF f, Bonne
  <2> QED BY <2>1, <2>2, <2>3, <1>n
<1>10. ASSUME Relancer(q) PROVE IInv' /\ Demeurent
  <2> DEFINE f == [g EXCEPT !.statut = "EN_LECTURE"]
  <2>1. Bonne(f)
    BY <1>p, <1>10 DEF Facture, FactureStatut
  <2>2. factures' = [factures EXCEPT ![p] = f]
    BY <1>m, <1>p, <1>10 DEF Relancer
  <2>3. Finir(q) /\ UNCHANGED <<messages, lus>>
        /\ planifiees[p] < MaxLectures /\ planifiees' = [planifiees EXCEPT ![p] = @ + 1]
    BY <1>10 DEF Relancer
  <2>4. planifiees' \in [Pieces -> 0..(MaxLectures + 1)]
        /\ \A s \in Pieces : planifiees'[s] = planifiees[s]
                                  \/ (Existe(s) /\ planifiees'[s] <= MaxLectures)
    <3>1. \A s \in Pieces : planifiees[s] \in 0..(MaxLectures + 1)
      BY <1>m
    <3> HIDE DEF p
    <3> QED BY <2>3, <3>1, <1>p, <1>m DEF Domaines
  <2>5. Libre \in Requete /\ Libre.etat = "libre" /\ Garder(q, Libre)
    BY <2>3, <1>k DEF Finir, Libre
  <2> HIDE DEF f, p
  <2> QED BY <2>1, <2>2, <2>3, <2>4, <2>5, <1>p, Corrige
<1> QED BY <1>1, <1>2, <1>3, <1>4, <1>5, <1>6, <1>7, <1>8, <1>9, <1>10

\* A message is recorded or let out, and its pieces wait to be poured in.
LEMMA Messagerie ==
    ASSUME Domaines, IInv, NEW q \in Requetes,
           \/ \E echec, connu, ouverte \in BOOLEAN : EnregistrerMessage(q, echec, connu, ouverte)
           \/ Liberer(q)
    PROVE  IInv'
<1>a. PICK m : m = req[q].m
  OBVIOUS
<1>b. PICK r : r = [etat |-> "versement", porte |-> m, reste |-> PiecesDe[m], aLire |-> {}]
  OBVIOUS
<1>1. m \in Messages /\ req[q] \in Requete /\ Suivi(req[q])
  <2>1. req[q] \in Requete /\ Suivi(req[q])
    BY DEF IInv, TypeOK
  <2>2. req[q].etat \in {"message", "liberation"}
    BY DEF EnregistrerMessage, Liberer, En
  <2> QED BY <1>a, <2>1, <2>2 DEF Requete
<1>2. r \in Requete /\ Libre \in Requete /\ \A x : ~AReceveur(r, x) /\ ~AReceveur(Libre, x)
  BY <1>1, <1>b DEF Requete, Libre, AReceveur, Domaines
<1>3. ASSUME NEW ligne \in Message, messages' = [messages EXCEPT ![m] = ligne],
             Garder(q, Libre) \/ (Garder(q, r) /\ ligne.statut = "ACCEPTE"),
             UNCHANGED <<lus, factures, planifiees>>,
             ligne.statut = "ACCEPTE" =>
                 ligne.libere \/ (~ligne.echec /\ (ligne.connu \/ ligne.ouverte)),
             Retenu(m) => ligne.statut = "ACCEPTE"
      PROVE  IInv'
  <2>1. ligne # NUL
    BY DEF Domaines
  <2>2. messages \in [Messages -> Message \cup {NUL}] /\ req \in [Requetes -> Requete]
    BY DEF IInv, TypeOK
  <2>3. \E e \in {r, Libre} : req' = [req EXCEPT ![q] = e]
    BY <1>3 DEF Garder
  <2>4. messages' \in [Messages -> Message \cup {NUL}] /\ req' \in [Requetes -> Requete]
    BY <1>2, <2>2, <2>3, <1>3
  <2>5. TypeOK'
    BY <2>4, <1>3 DEF IInv, TypeOK
  <2>6. \A p \in Pieces : Existe(p)' <=> Existe(p)
    BY <1>3 DEF Existe
  <2>7. messages'[m] = ligne /\ \A n \in Messages : n # m => messages'[n] = messages[n]
    BY <1>1, <1>3, <2>2
  <2>8. ASSUME NEW porte, Retenu(porte) PROVE Retenu(porte)'
    BY <1>3, <2>1, <2>7, <2>8 DEF Retenu
  <2>9. Stable
    BY <1>3, <2>1, <2>6, <2>7, <2>8 DEF Stable
  <2>10. req'[q] \in {r, Libre} /\ \A s \in Requetes : s # q => req'[s] = req[s]
    BY <2>2, <2>3
  <2>11. ASSUME NEW e \in Requete, req'[q] = e PROVE Suivi(e)'
    <3>1. CASE e = Libre
      BY <3>1 DEF Suivi, Libre
    <3>2. CASE e # Libre
      <4>1. e = r /\ Garder(q, r)
        BY <2>10, <2>11, <3>2, <1>3, <2>2 DEF Garder
      <4>2. ligne.statut = "ACCEPTE"
        <5>1. ~Garder(q, Libre)
          BY <3>2, <2>11, <2>2 DEF Garder
        <5> QED BY <5>1, <1>3
      <4>3. Retenu(m)'
        BY <4>2, <1>3, <2>1, <2>7 DEF Retenu
      <4> QED BY <1>b, <4>1, <4>3 DEF Suivi, Retenu
    <3> QED BY <3>1, <3>2
  <2>12. ASSUME NEW p \in Pieces
         PROVE  /\ ~Existe(p)' => planifiees'[p] = 0
                /\ planifiees'[p] <= planifiees[p]
                /\ ~AReceveur(req'[q], p)
    <3>1. planifiees[p] \in Int /\ planifiees' = planifiees
      BY <1>3 DEF IInv, TypeOK
    <3>2. ~Existe(p)' => planifiees'[p] = 0
      BY <2>6, <3>1 DEF IInv, PremiereLecture
    <3> QED BY <3>1, <3>2, <2>10, <1>2
  <2> QED BY <2>5, <2>9, <2>10, <2>11, <2>12, Avance
<1>4. ASSUME NEW echec \in BOOLEAN, NEW connu \in BOOLEAN, NEW ouverte \in BOOLEAN,
             EnregistrerMessage(q, echec, connu, ouverte)
      PROVE  IInv'
  <2> DEFINE decision == Decider(echec, connu, ouverte)
             statut == IF decision = "ACCEPTE" /\ PiecesDe[m] = {} THEN "REJETE" ELSE decision
             ligne == [statut |-> statut, echec |-> echec, connu |-> connu, ouverte |-> ouverte,
                       libere |-> FALSE]
  <2>1. /\ ligne \in Message /\ ligne.statut = statut
        /\ ligne.statut = "ACCEPTE" => ~ligne.echec /\ (ligne.connu \/ ligne.ouverte)
    BY DEF Message, Decider
  <2>2. ~Retenu(m)
    BY <1>a, <1>1, <1>4 DEF EnregistrerMessage, Retenu
  <2>3. /\ messages' = [messages EXCEPT ![m] = ligne]
        /\ IF statut = "ACCEPTE" THEN Garder(q, r) ELSE Finir(q)
        /\ UNCHANGED <<lus, factures, planifiees>>
    BY <1>a, <1>b, <1>4 DEF EnregistrerMessage
  <2> HIDE DEF ligne, statut
  <2> QED BY <2>1, <2>2, <2>3, <1>3 DEF Finir
<1>5. ASSUME Liberer(q) PROVE IInv'
  <2> DEFINE ligne == [messages[m] EXCEPT !.statut = "ACCEPTE", !.libere = TRUE]
  <2>1. messages[m] \in Message /\ messages \in [Messages -> Message \cup {NUL}]
    <3>1. messages[m] # NUL
      BY <1>a, <1>1, <1>5 DEF Suivi, Liberer, En
    <3> QED BY <3>1, <1>1 DEF IInv, TypeOK
  <2>2. ligne \in Message /\ ligne.statut = "ACCEPTE" /\ ligne.libere
    BY <2>1 DEF Message
  <2>3. messages' = [messages EXCEPT ![m] = ligne] /\ Garder(q, r)
        /\ UNCHANGED <<lus, factures, planifiees>>
    BY <1>a, <1>b, <1>1, <2>1, <1>5 DEF Liberer
  <2> HIDE DEF ligne
  <2> QED BY <2>2, <2>3, <1>3
<1> QED BY <1>4, <1>5

\* The key on the hash of a file: a piece comes in once, by one request.
LEMMA ReceptionPiece == ASSUME Domaines, IInv, NEW q \in Requetes, Recevoir(q) PROVE IInv'
<1>a. PICK a : a = req[q]
  OBVIOUS
<1>b. PICK p : p = a.p
  OBVIOUS
<1>c. PICK f : f = Nouvelle("EN_LECTURE", a.porte, Vide)
  OBVIOUS
<1>d. PICK r : r = [etat |-> "versement", porte |-> a.porte, reste |-> a.reste,
                    aLire |-> a.aLire \cup {p}]
  OBVIOUS
<1>1. a \in Requete /\ Suivi(a) /\ a.etat = "piece"
  BY <1>a DEF Recevoir, En, IInv, TypeOK
<1>2. a \in [etat: {"piece"}, porte: {"DEPOT"} \cup Messages, reste: SUBSET Pieces,
             aLire: SUBSET Pieces, p: Pieces]
  BY <1>1 DEF Requete
<1>3. p \in Pieces /\ a.porte \in {"DEPOT"} \cup Messages
      /\ a.reste \in SUBSET Pieces /\ a.aLire \in SUBSET Pieces
  BY <1>b, <1>2
<1>4. r \in Requete
  BY <1>d, <1>3 DEF Requete
<1>5. f \in Facture /\ f # NUL /\ f.porte = a.porte
  <2>1. <<>> \in Seq(Visa)
    OBVIOUS
  <2>2. f \in Facture
    BY <1>c, <1>3, <2>1, ChiffresDonnes DEF Nouvelle, Facture, FactureStatut
  <2> QED BY <1>c, <2>2 DEF Domaines, Nouvelle
<1>6. /\ ~Existe(p)
      /\ factures' = [factures EXCEPT ![p] = f]
      /\ req' = [req EXCEPT ![q] = r]
      /\ UNCHANGED <<messages, lus, planifiees>>
  BY <1>a, <1>b, <1>c, <1>d DEF Recevoir, Garder
<1>7. /\ factures \in [Pieces -> Facture \cup {NUL}] /\ req \in [Requetes -> Requete]
      /\ planifiees \in [Pieces -> 0..(MaxLectures + 1)]
  BY DEF IInv, TypeOK
<1>8. r.etat = "versement" /\ r.porte = a.porte /\ r.aLire = a.aLire \cup {p}
  BY <1>d
<1>9. TypeOK'
  BY <1>3, <1>4, <1>5, <1>6, <1>7 DEF IInv, TypeOK
<1>10. /\ \A x \in Pieces : Existe(x)' <=> Existe(x) \/ x = p
       /\ \A x \in Pieces : x # p => factures'[x] = factures[x]
       /\ factures'[p] = f
  BY <1>3, <1>5, <1>6, <1>7 DEF Existe
<1>11. Retenu(a.porte)
  BY <1>1 DEF Suivi
<1>12. \A porte : Retenu(porte) => Retenu(porte)'
  BY <1>6 DEF Retenu
<1>13. Retenu(factures[p].porte)'
  <2>1. f.porte \in Messages => /\ messages[f.porte] # NUL /\ messages[f.porte].statut = "ACCEPTE"
                                /\ \/ messages[f.porte].libere
                                   \/ /\ ~messages[f.porte].echec
                                      /\ messages[f.porte].connu \/ messages[f.porte].ouverte
    BY <1>5, <1>11 DEF Retenu
  <2> QED BY <2>1, <1>10, <1>6 DEF Retenu
<1>14. Stable
  BY <1>6, <1>10, <1>12, <1>13 DEF Stable
<1>15. req'[q] = r /\ \A s \in Requetes : s # q => req'[s] = req[s]
  BY <1>6, <1>7
<1>16. Suivi(r)'
  <2>1. \A x \in r.aLire : Existe(x)'
    BY <1>1, <1>3, <1>8, <1>10 DEF Suivi
  <2>2. Retenu(r.porte)'
    BY <1>6, <1>8, <1>11 DEF Retenu
  <2> QED BY <2>1, <2>2, <1>8 DEF Suivi
<1>17. ASSUME NEW x \in Pieces
       PROVE  /\ ~Existe(x)' => planifiees'[x] = 0
              /\ planifiees'[x] <= planifiees[x]
              /\ AReceveur(r, x) => planifiees'[x] <= MaxLectures
                    /\ \A s \in Requetes : s # q => ~AReceveur(req[s], x)
  <2>1. planifiees[x] \in Int /\ planifiees' = planifiees /\ MaxLectures \in Nat
    BY <1>6, <1>7 DEF Domaines
  <2>2. ~Existe(x)' => planifiees'[x] = 0
    BY <2>1, <1>10 DEF IInv, PremiereLecture
  <2>3. AReceveur(r, x) => planifiees'[x] <= MaxLectures
                    /\ \A s \in Requetes : s # q => ~AReceveur(req[s], x)
    <3>1. CASE x = p
      <4>1. planifiees[x] = 0
        BY <3>1, <1>6 DEF IInv, PremiereLecture
      <4>2. \A s \in Requetes : AReceveur(req[s], x) => Existe(x)
        BY DEF IInv, Suivi, AReceveur
      <4> QED BY <3>1, <4>1, <4>2, <2>1, <1>6
    <3>2. CASE x # p
      <4>1. AReceveur(r, x) => AReceveur(a, x)
        BY <3>2, <1>a, <1>1, <1>8 DEF AReceveur
      <4> QED BY <4>1, <1>a, <2>1 DEF IInv, PremiereLecture
    <3> QED BY <3>1, <3>2
  <2> QED BY <2>1, <2>2, <2>3
<1> QED BY <1>9, <1>14, <1>15, <1>16, <1>17, Avance

\* The readings of the pieces that came in: one more for each, and of nobody
\* else's.
LEMMA Planification == ASSUME Domaines, IInv, NEW q \in Requetes, Planifier(q) PROVE IInv'
<1>a. PICK a : a = req[q]
  OBVIOUS
<1>1. a \in Requete /\ Suivi(a) /\ a.etat = "versement"
  BY <1>a DEF Planifier, En, IInv, TypeOK
<1>2. a.aLire \in SUBSET Pieces
  BY <1>1 DEF Requete
<1>3. /\ planifiees' = [p \in Pieces |-> IF p \in a.aLire THEN planifiees[p] + 1 ELSE planifiees[p]]
      /\ req' = [req EXCEPT ![q] = Libre] /\ UNCHANGED <<messages, lus, factures>>
  BY <1>a DEF Planifier, Finir, Garder
<1>4. planifiees \in [Pieces -> 0..(MaxLectures + 1)] /\ req \in [Requetes -> Requete]
      /\ Libre \in Requete
  BY DEF IInv, TypeOK, Libre, Requete
<1>5. ASSUME NEW p \in Pieces
      PROVE  /\ planifiees'[p] \in 0..(MaxLectures + 1)
             /\ ~Existe(p)' => planifiees'[p] = 0
             /\ planifiees'[p] <= planifiees[p] \/ \A s \in Requetes : s # q => ~AReceveur(req[s], p)
  <2>1. planifiees[p] \in 0..(MaxLectures + 1) /\ MaxLectures \in Nat
        /\ (Existe(p)' <=> Existe(p))
    BY <1>3, <1>4 DEF Domaines, Existe
  <2>2. CASE p \in a.aLire
    <3>1. Existe(p) /\ AReceveur(req[q], p)
      BY <1>a, <1>1, <2>2 DEF Suivi, AReceveur
    <3>2. planifiees[p] <= MaxLectures /\ \A s \in Requetes : s # q => ~AReceveur(req[s], p)
      BY <3>1 DEF IInv, PremiereLecture
    <3>3. planifiees'[p] = planifiees[p] + 1
      BY <1>3, <2>2
    <3> QED BY <2>1, <3>1, <3>2, <3>3
  <2>3. CASE p \notin a.aLire
    <3>1. planifiees'[p] = planifiees[p]
      BY <1>3, <2>3
    <3> QED BY <2>1, <3>1 DEF IInv, PremiereLecture
  <2> QED BY <2>2, <2>3
<1>6. planifiees' \in [Pieces -> 0..(MaxLectures + 1)]
  BY <1>3, <1>5
<1>7. TypeOK'
  BY <1>3, <1>4, <1>6 DEF IInv, TypeOK
<1>8. Stable
  BY <1>3 DEF Stable, Retenu, Existe
<1>9. req'[q] = Libre /\ \A s \in Requetes : s # q => req'[s] = req[s]
  BY <1>3, <1>4
<1>10. Suivi(Libre)' /\ \A p : ~AReceveur(Libre, p)
  BY DEF Suivi, Libre, AReceveur
<1> QED BY <1>5, <1>7, <1>8, <1>9, <1>10, Avance

LEMMA LectureDeFond ==
    ASSUME Domaines, IInv, NEW q \in Requetes, NEW p \in Pieces, LireFond(q, p)
    PROVE  IInv'
<1>1. planifiees[p] > 0 /\ Existe(p)
  BY DEF LireFond, IInv, PremiereLecture
<1>2. factures[p] \in Facture
  BY <1>1 DEF Existe, IInv, TypeOK
<1>3. PICK r : r = Lue("lecture", p)
  OBVIOUS
<1>4. r \in Requete
  BY <1>2, <1>3 DEF Requete, Lue, Facture
<1>5. Suivi(r) /\ \A x : ~AReceveur(r, x)
  BY <1>1, <1>3 DEF Suivi, Lue, AReceveur
<1>6. /\ planifiees' = [planifiees EXCEPT ![p] = @ - 1] /\ req' = [req EXCEPT ![q] = r]
      /\ UNCHANGED <<messages, lus, factures>>
  BY <1>3 DEF LireFond, Garder
<1>7. planifiees \in [Pieces -> 0..(MaxLectures + 1)] /\ req \in [Requetes -> Requete]
      /\ MaxLectures \in Nat
  BY DEF IInv, TypeOK, Domaines
<1>8. /\ planifiees' \in [Pieces -> 0..(MaxLectures + 1)]
      /\ \A x \in Pieces : planifiees'[x] <= planifiees[x]
  <2>1. \A x \in Pieces : planifiees[x] \in 0..(MaxLectures + 1)
    BY <1>7
  <2> QED BY <1>1, <1>6, <1>7, <2>1
<1>9. TypeOK'
  BY <1>4, <1>6, <1>7, <1>8 DEF IInv, TypeOK
<1>10. Stable
  BY <1>6 DEF Stable, Retenu, Existe
<1>11. req'[q] = r /\ \A s \in Requetes : s # q => req'[s] = req[s]
  BY <1>6, <1>7
<1>12. Suivi(r)'
  BY <1>5, <1>6 DEF Suivi, Existe, Retenu
<1>13. \A x \in Pieces : ~Existe(x)' => planifiees'[x] = 0
  <2>1. \A x \in Pieces : ~Existe(x)' => ~Existe(x) /\ x # p
    BY <1>1, <1>6 DEF Existe
  <2> QED BY <2>1, <1>6, <1>7 DEF IInv, PremiereLecture
<1> QED BY <1>5, <1>8, <1>9, <1>10, <1>11, <1>12, <1>13, Avance

\* What is done in one statement, whoever is at work.
LEMMA EnUnCoup ==
    ASSUME Domaines, IInv,
           (\E m \in Messages : MarquerLu(m) \/ Rejeter(m))
           \/ \E p \in Pieces, m \in Montants \cup {Vide} : Creer(p, m)
    PROVE  IInv'
<1>0. /\ planifiees' = planifiees /\ planifiees \in [Pieces -> 0..(MaxLectures + 1)]
      /\ req' = req
  BY DEF MarquerLu, Rejeter, Creer, IInv, TypeOK
<1>n. ASSUME TypeOK', Stable PROVE IInv'
  <2>1. \A p \in Pieces : ~Existe(p)' => planifiees'[p] = 0
    BY <1>0, <1>n DEF Stable, IInv, PremiereLecture
  <2>2. \A p \in Pieces : planifiees'[p] <= planifiees[p]
    <3>1. \A p \in Pieces : planifiees[p] \in Int
      BY <1>0
    <3> QED BY <1>0, <3>1
  <2>3. \A p \in Pieces, q \in Requetes : AReceveur(req'[q], p) =>
               planifiees'[p] <= MaxLectures
               /\ \A s \in Requetes : s # q => ~AReceveur(req[s], p)
    BY <1>0 DEF IInv, PremiereLecture
  <2> QED BY <1>0, <1>n, <2>1, <2>2, <2>3, Avance
<1>1. ASSUME NEW m \in Messages, MarquerLu(m) PROVE IInv'
  <2>1. TypeOK' /\ Stable
    BY <1>1 DEF MarquerLu, IInv, TypeOK, Stable, Retenu, Existe
  <2> QED BY <2>1, <1>n
<1>2. ASSUME NEW m \in Messages, Rejeter(m) PROVE IInv'
  <2> DEFINE l == [messages[m] EXCEPT !.statut = "REJETE"]
  <2>1. messages \in [Messages -> Message \cup {NUL}] /\ messages[m] \in Message
        /\ messages[m].statut = "QUARANTAINE"
    BY <1>2 DEF Rejeter, IInv, TypeOK
  <2>2. l \in Message /\ l # NUL
    BY <2>1 DEF Message, Domaines
  <2>3. messages' = [messages EXCEPT ![m] = l] /\ UNCHANGED <<lus, factures, planifiees, req>>
    BY <1>2, <2>1 DEF Rejeter
  <2> HIDE DEF l
  <2>4. TypeOK'
    BY <2>1, <2>2, <2>3 DEF IInv, TypeOK
  <2>5. messages'[m] # NUL /\ \A n \in Messages : n # m => messages'[n] = messages[n]
    BY <2>1, <2>2, <2>3
  <2>6. ASSUME NEW porte, Retenu(porte) PROVE Retenu(porte)'
    BY <2>1, <2>5, <2>6 DEF Retenu
  <2>7. Stable
    BY <2>3, <2>5, <2>6 DEF Stable, Existe
  <2> QED BY <2>4, <2>7, <1>n
<1>3. ASSUME NEW p \in Pieces, NEW m \in Montants \cup {Vide}, Creer(p, m) PROVE IInv'
  <2> DEFINE f == Nouvelle("RECUE", "SAISIE", m)
  <2>1. f \in Facture /\ f # NUL /\ f.porte = "SAISIE"
    <3>1. <<>> \in Seq(Visa)
      OBVIOUS
    <3>2. f \in Facture
      BY <3>1, ChiffresDonnes DEF Nouvelle, Facture, FactureStatut
    <3> QED BY <3>2 DEF Domaines, Nouvelle
  <2>2. factures' = [factures EXCEPT ![p] = f] /\ ~Existe(p) /\ UNCHANGED <<messages, lus, planifiees, req>>
    BY <1>3 DEF Creer
  <2> HIDE DEF f
  <2>3. factures \in [Pieces -> Facture \cup {NUL}]
    BY DEF IInv, TypeOK
  <2>4. TypeOK'
    BY <2>1, <2>2, <2>3 DEF IInv, TypeOK
  <2>5. factures'[p] = f /\ \A x \in Pieces : x # p => factures'[x] = factures[x]
    BY <2>2, <2>3
  <2>6. Retenu(factures[p].porte)'
    BY <2>1, <2>5 DEF Retenu, Domaines
  <2>7. Stable
    BY <2>1, <2>2, <2>5, <2>6 DEF Stable, Existe, Retenu
  <2> QED BY <2>4, <2>7, <1>n
<1> QED BY <1>1, <1>2, <1>3

LEMMA Redemarrage == ASSUME Domaines, IInv, Redemarrer PROVE IInv'
<1>1. /\ req' = [q \in Requetes |-> Libre] /\ planifiees' = [p \in Pieces |-> 0]
      /\ UNCHANGED <<messages, lus, factures>>
  BY DEF Redemarrer
<1>2. Libre \in Requete /\ Libre.etat = "libre"
  BY DEF Requete, Libre
<1>3. TypeOK'
  BY <1>1, <1>2 DEF IInv, TypeOK, Domaines
<1>4. \A q \in Requetes : Suivi(req[q])'
  BY <1>1, <1>2 DEF Suivi
<1>5. PremiereLecture'
  BY <1>1, <1>2 DEF PremiereLecture, AReceveur
<1>6. \A p \in Pieces : Existe(p)' => Retenu(factures[p].porte)'
  BY <1>1 DEF IInv, Existe, Retenu
<1> QED BY <1>3, <1>4, <1>5, <1>6 DEF IInv

LEMMA Depart == ASSUME Domaines, Init PROVE IInv
<1>1. Libre \in Requete /\ Libre.etat = "libre"
  BY DEF Requete, Libre
<1>2. TypeOK
  BY <1>1 DEF Init, TypeOK, Domaines
<1> QED BY <1>1, <1>2 DEF Init, IInv, Suivi, PremiereLecture, AReceveur, Existe

LEMMA Suite == ASSUME Domaines, IInv, [Next]_vars PROVE IInv'
<1>1. CASE Immediat
  BY <1>1, EnUnCoup, Redemarrage DEF Immediat
<1>2. ASSUME NEW q \in Requetes, Courrier(q) PROVE IInv'
  BY <1>2, Lectures, Messagerie DEF Courrier
<1>3. ASSUME NEW q \in Requetes, Reception(q) PROVE IInv'
  BY <1>3, Lectures, ReceptionPiece, Planification, Ecritures DEF Reception
<1>4. ASSUME NEW q \in Requetes, Lecture(q) PROVE IInv'
  BY <1>4, LectureDeFond, Ecritures DEF Lecture
<1>5. ASSUME NEW q \in Requetes, Decision(q) PROVE IInv'
  BY <1>5, Lectures, Ecritures DEF Decision
<1>6. ASSUME NEW q \in Requetes, Interrompre(q) PROVE IInv'
  BY <1>6, Lectures
<1>7. CASE UNCHANGED vars
  BY <1>7 DEF vars, IInv, TypeOK, Suivi, PremiereLecture, Existe, Retenu, AReceveur
<1> QED BY <1>1, <1>2, <1>3, <1>4, <1>5, <1>6, <1>7 DEF Next

\* IInv holds in every reachable state, however many requests and readings are
\* at work and wherever the process stops.
THEOREM Invariance == ASSUME Domaines PROVE Spec => []IInv
<1>1. Init => IInv
  BY Depart
<1>2. IInv /\ [Next]_vars => IInv'
  BY Suite
<1> QED BY <1>1, <1>2, PTL DEF Spec

\* decider, liberer, rejeter, recevoir: an invoice that came by mail came by a
\* message that is accepted, let out by a person or sent from an address that is
\* not usurped to a mailbox that knows it or is open to anybody, whoever
\* releases, rejects and pours in at the same time.
THEOREM PiecesRetenues == ASSUME Domaines PROVE Spec => []QuarantaineRetenue
<1>1. IInv => QuarantaineRetenue
  BY DEF IInv, QuarantaineRetenue, Retenu
<1> QED BY <1>1, Invariance, PTL

(***************************************************************************)
(* One request at a time                                                   *)
(***************************************************************************)
UneALaFois == \A p, q \in Requetes : p = q

\* Billed on the contract, and what of it still counts for what was compared
\* without forcing.
Engagees(l) == {p \in Pieces : l[p] # NUL /\ l[p].contrat /\ l[p].statut \in Validees}
Libres(l) ==
    {p \in Pieces : /\ l[p] # NUL /\ l[p].statut \in Validees
                    /\ l[p].contrat /\ ~l[p].force /\ l[p].compare # NUL
                    /\ Valeur(l[p].montant) = l[p].compare}

Lignes == [Pieces -> Facture \cup {NUL}]

LEMMA Chiffrage ==
    ASSUME Domaines, NEW l \in Lignes, NEW D \in SUBSET Pieces, \A p \in D : l[p] # NUL
    PROVE  Chiffrees(l, D)
<1>1. IsFiniteSet(D)
  BY FS_Subset DEF Domaines
<1>2. ASSUME NEW p \in D PROVE Montant(l[p]) \in Nat
  <2>1. l[p] \in Facture
    BY DEF Lignes
  <2>2. l[p].montant \in Chiffres
    BY <2>1 DEF Facture
  <2>3. Valeur(l[p].montant) \in Nat \cup {NUL}
    BY <2>2, ValeurDansBase
  <2> QED BY <2>3 DEF Montant, Complete
<1> QED BY <1>1, <1>2 DEF Chiffrees

\* Nothing enters what is compared, and nothing in it changes amount.
LEMMA SommeTenue ==
    ASSUME Domaines, NEW l \in Lignes, NEW m \in Lignes, Libres(m) \subseteq Libres(l),
           \A p \in Libres(m) : Montant(m[p]) = Montant(l[p]),
           Total(l, Libres(l)) <= Commande
    PROVE  Total(m, Libres(m)) <= Commande
<1>1. Chiffrees(l, Libres(l)) /\ Chiffrees(m, Libres(m)) /\ Chiffrees(l, Libres(m))
  BY Chiffrage DEF Libres
<1>2. Total(m, Libres(m)) = Total(l, Libres(m))
  BY <1>1, TotalEgal
<1>3. Total(l, Libres(m)) <= Total(l, Libres(l))
  BY <1>1, TotalCroissant
<1>4. Total(l, Libres(m)) \in Nat /\ Total(l, Libres(l)) \in Nat /\ Commande \in Nat
  BY <1>1, TotalNaturel DEF Domaines
<1> QED BY <1>2, <1>3, <1>4

\* One invoice enters, that fits under what the contract was billed.
LEMMA SommeAjoutee ==
    ASSUME Domaines, NEW l \in Lignes, NEW m \in Lignes, NEW p \in Pieces,
           l[p] # NUL, p \notin Engagees(l),
           Libres(m) \subseteq Engagees(l) \cup {p},
           \A s \in Libres(m) : Montant(m[s]) = Montant(l[s]),
           Total(l, Engagees(l)) + Montant(l[p]) <= Commande
    PROVE  Total(m, Libres(m)) <= Commande
<1> DEFINE E == Engagees(l) \cup {p}
<1>1. Chiffrees(l, E) /\ Chiffrees(m, Libres(m)) /\ Chiffrees(l, Libres(m))
      /\ Chiffrees(l, Engagees(l))
  <2>1. E \in SUBSET Pieces /\ \A s \in E : l[s] # NUL
    BY DEF Engagees
  <2>2. Libres(m) \in SUBSET Pieces /\ Engagees(l) \in SUBSET Pieces
        /\ \A s \in Libres(m) : m[s] # NUL
    BY DEF Engagees, Libres
  <2> QED BY <2>1, <2>2, Chiffrage
<1>2. Total(m, Libres(m)) = Total(l, Libres(m))
  BY <1>1, TotalEgal
<1>3. Total(l, Libres(m)) <= Total(l, E)
  BY <1>1, TotalCroissant
<1>4. E \ {p} = Engagees(l)
  OBVIOUS
<1>5. Total(l, E) = Montant(l[p]) + Total(l, Engagees(l))
  <2> HIDE DEF E
  <2>1. p \in E
    BY DEF E
  <2> QED BY <1>1, <1>4, <2>1, TotalUn
<1>6. /\ Total(l, Libres(m)) \in Nat /\ Total(l, Engagees(l)) \in Nat /\ Total(l, E) \in Nat
      /\ Commande \in Nat /\ Montant(l[p]) \in Nat
  BY <1>1, TotalNaturel DEF Domaines, Chiffrees
<1> HIDE DEF E
<1> QED BY <1>2, <1>3, <1>5, <1>6

Tenues(l) ==
    \A p \in Pieces : l[p] # NUL /\ l[p].statut \in Validees =>
        l[p].montant.ht # NUL /\ (DtNommee => Visee(l[p])) /\ Comparee(l[p])

\* SInv, by the invoices and by the request.
LEMMA Parties ==
    /\ SInv <=> /\ IInv /\ (\A q \in Requetes : Actuel(req[q]))
               /\ Tenues(factures) /\ Total(factures, Libres(factures)) <= Commande
    /\ SInv' <=> /\ IInv' /\ (\A q \in Requetes : Actuel(req[q])')
                /\ Tenues(factures') /\ Total(factures', Libres(factures')) <= Commande
<1>1. {p \in Pieces : SansForcer(p)} = Libres(factures)
      /\ {p \in Pieces : SansForcer(p)}' = Libres(factures')
  BY DEF SansForcer, Libres, Existe
<1> QED BY <1>1 DEF SInv, Tenues, Somme, Existe

\* Nothing is written on the invoices.
LEMMA SansEcrire ==
    ASSUME Domaines, UneALaFois, SInv, IInv', factures' = factures, NEW q,
           \A s \in Requetes : s = q, NEW r, q \in Requetes => req'[q] = r /\ Actuel(r)
    PROVE  SInv'
<1>1. ASSUME NEW s \in Requetes PROVE Actuel(req[s])'
  <2>1. s = q /\ req'[s] = r /\ Actuel(r)
    OBVIOUS
  <2> QED BY <2>1 DEF Actuel, Lue, Comptees, Somme, Existe
<1> QED BY <1>1, Parties

\* One invoice is written, and the request keeps nothing of what it read.
LEMMA Ecrite ==
    ASSUME Domaines, UneALaFois, SInv, IInv', NEW q \in Requetes, NEW p \in Pieces,
           NEW f \in Facture, factures' = [factures EXCEPT ![p] = f],
           req'[q].etat \notin {"lecture", "facture", "relance", "validation"},
           f.statut \in Validees =>
               f.montant.ht # NUL /\ (DtNommee => Visee(f)) /\ Comparee(f),
           Total(factures', Libres(factures')) <= Commande
    PROVE  SInv'
<1>1. ASSUME NEW s \in Requetes PROVE Actuel(req[s])'
  <2>1. s = q
    BY DEF UneALaFois
  <2> QED BY <2>1 DEF Actuel
<1>2. factures \in Lignes
  BY DEF SInv, IInv, TypeOK, Lignes
<1>3. factures'[p] = f /\ \A s \in Pieces : s # p => factures'[s] = factures[s]
  BY <1>2 DEF Lignes
<1>4. Tenues(factures')
  BY <1>3, Parties DEF Tenues
<1> QED BY <1>1, <1>4, Parties

\* ... out of what is validated.
LEMMA EcriteHors ==
    ASSUME Domaines, UneALaFois, SInv, IInv', NEW q \in Requetes, NEW p \in Pieces,
           NEW f \in Facture, factures' = [factures EXCEPT ![p] = f],
           req'[q].etat \notin {"lecture", "facture", "relance", "validation"},
           f.statut \notin Validees
    PROVE  SInv'
<1>1. factures \in Lignes /\ factures' \in Lignes
  BY DEF SInv, IInv, TypeOK, Lignes
<1>2. factures'[p] = f /\ \A s \in Pieces : s # p => factures'[s] = factures[s]
  BY <1>1 DEF Lignes
<1>3. Libres(factures') \subseteq Libres(factures)
      /\ \A s \in Libres(factures') : factures'[s] = factures[s]
  BY <1>2 DEF Libres
<1>4. Total(factures', Libres(factures')) <= Commande
  <2>1. \A s \in Libres(factures') : Montant(factures'[s]) = Montant(factures[s])
    BY <1>3
  <2>2. Total(factures, Libres(factures)) <= Commande
    BY Parties
  <2> QED BY <1>1, <1>3, <2>1, <2>2, SommeTenue
<1> QED BY <1>4, Ecrite

\* What may become of the amounts of a validated invoice: its value stays, or
\* it is given an amount with tax it had not.
Poursuit(g, f) ==
    /\ f.montant.ht # NUL
    /\ g.montant.ttc # NUL => f.montant.ttc # NUL
    /\ g.compare # NUL =>
          \/ Valeur(f.montant) = Valeur(g.montant)
          \/ Base = "TTC" /\ g.montant.ttc = NUL /\ f.montant.ttc # NUL

\* Filling the empties is one of the two.
LEMMA Remplie ==
    ASSUME Domaines, NEW g \in Facture, g.montant.ht # NUL, Comparee(g), NEW m \in Chiffres,
           NEW f, f.montant = Completes(g.montant, m)
    PROVE  Poursuit(g, f)
<1> DEFINE a == g.montant
           b == f.montant
<1>1. b.ht = a.ht /\ (a.ttc # NUL => b.ttc = a.ttc) /\ (a.taux # NUL => b.taux = a.taux)
  BY DEF Completes, Complete
<1>2. ASSUME g.compare # NUL
      PROVE  Valeur(b) = Valeur(a) \/ (Base = "TTC" /\ a.ttc = NUL /\ b.ttc # NUL)
  <2>1. CASE Base # "TTC"
    <3>1. Valeur(a) = a.ht /\ Valeur(b) = b.ht
      BY <1>1, <2>1 DEF Valeur, Complete
    <3> QED BY <1>1, <3>1
  <2>2. CASE Base = "TTC" /\ a.ttc # NUL
    <3>1. Valeur(a) = a.ttc /\ Valeur(b) = b.ttc
      BY <1>1, <2>2 DEF Valeur, Complete
    <3> QED BY <1>1, <2>2, <3>1
  <2>3. CASE Base = "TTC" /\ a.ttc = NUL
    <3>1. Valeur(a) = AvecTaxe(a) /\ Valeur(a) # NUL
      BY <1>2, <2>3 DEF Valeur, Complete, Comparee
    <3>2. a.taux # NUL
      BY <3>1 DEF AvecTaxe
    <3>3. AvecTaxe(b) = AvecTaxe(a)
      BY <1>1, <3>2 DEF AvecTaxe
    <3>4. b.ttc = NUL => Valeur(b) = AvecTaxe(b)
      BY <2>3 DEF Valeur, Complete
    <3> QED BY <2>3, <3>1, <3>3, <3>4
  <2> QED BY <2>1, <2>2, <2>3
<1> QED BY <1>1, <1>2 DEF Poursuit

\* ... within it, what was compared being kept or left for good.
LEMMA EcriteDedans ==
    ASSUME Domaines, UneALaFois, SInv, IInv', NEW q \in Requetes, NEW p \in Pieces, Existe(p),
           NEW f \in Facture, factures' = [factures EXCEPT ![p] = f],
           req'[q].etat \notin {"lecture", "facture", "relance", "validation"},
           factures[p].statut \in Validees, Poursuit(factures[p], f),
           f.visas = factures[p].visas, f.compare = factures[p].compare,
           f.force = factures[p].force, factures[p].contrat => f.contrat
    PROVE  SInv'
<1>1. factures \in Lignes /\ factures' \in Lignes
  BY DEF SInv, IInv, TypeOK, Lignes
<1>2. factures'[p] = f /\ \A s \in Pieces : s # p => factures'[s] = factures[s]
  BY <1>1 DEF Lignes
<1>3. (DtNommee => Visee(factures[p])) /\ Comparee(factures[p])
  BY Parties DEF Tenues, Existe
<1>7. f.compare # NUL /\ Valeur(f.montant) = f.compare
          => Valeur(factures[p].montant) = f.compare /\ factures[p].contrat
  BY <1>3 DEF Poursuit, Comparee
<1>4. Libres(factures') \subseteq Libres(factures)
      /\ \A s \in Libres(factures') : Montant(factures'[s]) = Montant(factures[s])
  BY <1>2, <1>7 DEF Libres, Existe, Montant
<1>8. Comparee(f) /\ f.montant.ht # NUL
  BY <1>3 DEF Poursuit, Comparee
<1>5. Total(factures', Libres(factures')) <= Commande
  <2>1. Total(factures, Libres(factures)) <= Commande
    BY Parties
  <2> QED BY <1>1, <1>4, <2>1, SommeTenue
<1>6. Visee(factures[p]) => Visee(f)
  BY DEF Visee
<1> QED BY <1>3, <1>5, <1>6, <1>8, Ecrite

LEMMA SeLit ==
    ASSUME Domaines, UneALaFois, SInv, IInv', NEW q \in Requetes,
           \/ \E m \in Messages : LireMessage(q, m) \/ LireLiberation(q, m)
           \/ \E echec, connu, ouverte \in BOOLEAN : EnregistrerMessage(q, echec, connu, ouverte)
           \/ Liberer(q)
           \/ \E P \in SUBSET Pieces : Deposer(q, P)
           \/ \E p \in Pieces : LireRelance(q, p) \/ LireFacture(q, p) \/ ChercherPiece(q, p)
                                   \/ LireFond(q, p)
           \/ \E p \in Pieces, c, f \in BOOLEAN : LireValidation(q, p, c, f)
           \/ Planifier(q) \/ Interrompre(q)
    PROVE  SInv'
<1>1. /\ req \in [Requetes -> Requete] /\ factures \in Lignes
      /\ \A s \in Requetes : s = q
  BY DEF SInv, IInv, TypeOK, Lignes, UneALaFois
<1>2. factures' = factures
  BY DEF LireMessage, LireLiberation, EnregistrerMessage, Liberer, Deposer, LireRelance, LireFacture,
         ChercherPiece, LireFond, LireValidation, Planifier, Interrompre
<1>3. ASSUME NEW r, Garder(q, r), Actuel(r) PROVE SInv'
  <2>1. req'[q] = r
    BY <1>1, <1>3 DEF Garder
  <2> QED BY <1>1, <1>2, <1>3, <2>1, SansEcrire
<1>4. ASSUME NEW r, Garder(q, r), r.etat \in {"libre", "message", "liberation", "versement", "piece"}
      PROVE  SInv'
  <2>1. Actuel(r)
    BY <1>4 DEF Actuel
  <2> QED BY <1>3, <1>4, <2>1
<1>5. ASSUME Finir(q) PROVE SInv'
  BY <1>4, <1>5 DEF Finir, Libre
<1>6. ASSUME NEW m \in Messages, LireMessage(q, m) \/ LireLiberation(q, m) PROVE SInv'
  BY <1>4, <1>6 DEF LireMessage, LireLiberation
<1>7. ASSUME NEW echec \in BOOLEAN, NEW connu \in BOOLEAN, NEW ouverte \in BOOLEAN,
             EnregistrerMessage(q, echec, connu, ouverte)
      PROVE  SInv'
  <2>1. \/ Finir(q)
        \/ Garder(q, [etat |-> "versement", porte |-> req[q].m, reste |-> PiecesDe[req[q].m],
                      aLire |-> {}])
    BY <1>7 DEF EnregistrerMessage
  <2> QED BY <2>1, <1>4, <1>5
<1>8. ASSUME Liberer(q) PROVE SInv'
  BY <1>4, <1>8 DEF Liberer
<1>9. ASSUME NEW P \in SUBSET Pieces, Deposer(q, P) PROVE SInv'
  BY <1>4, <1>9 DEF Deposer
<1>10. ASSUME NEW p \in Pieces, LireRelance(q, p) PROVE SInv'
  <2> DEFINE r == [etat |-> "relance", p |-> p]
  <2>1. Garder(q, r) /\ Actuel(r)
    BY <1>10 DEF LireRelance, Actuel
  <2> QED BY <2>1, <1>3
<1>11. ASSUME NEW p \in Pieces, LireFacture(q, p) PROVE SInv'
  <2>1. Garder(q, Lue("facture", p)) /\ Actuel(Lue("facture", p))
    BY <1>11 DEF LireFacture, Actuel, Lue
  <2> QED BY <2>1, <1>3
<1>12. ASSUME NEW p \in Pieces, LireFond(q, p) PROVE SInv'
  <2>1. Garder(q, Lue("lecture", p)) /\ Actuel(Lue("lecture", p))
    BY <1>12 DEF LireFond, Actuel, Lue
  <2> QED BY <2>1, <1>3
<1>13. ASSUME NEW p \in Pieces, ChercherPiece(q, p) PROVE SInv'
  <2>1. req[q] \in [etat: {"versement"}, porte: {"DEPOT"} \cup Messages, reste: SUBSET Pieces,
                    aLire: SUBSET Pieces]
    BY <1>1, <1>13 DEF ChercherPiece, En, Requete
  <2> DEFINE a == [req[q] EXCEPT !.reste = @ \ {p}]
             b == [etat |-> "piece", porte |-> req[q].porte, reste |-> req[q].reste \ {p},
                   aLire |-> req[q].aLire, p |-> p]
  <2>2. Garder(q, a) \/ Garder(q, b)
    BY <1>13 DEF ChercherPiece
  <2>3. a.etat = "versement" /\ b.etat = "piece"
    BY <2>1
  <2> HIDE DEF a, b
  <2> QED BY <2>2, <2>3, <1>4
<1>14. ASSUME NEW p \in Pieces, NEW c \in BOOLEAN, NEW f \in BOOLEAN, LireValidation(q, p, c, f)
       PROVE  SInv'
  <2> DEFINE a == factures[p].montant
             r == [etat |-> "validation", p |-> p, contrat |-> c \/ factures[p].contrat,
                   compare |-> IF c \/ factures[p].contrat THEN Valeur(a) ELSE NUL, force |-> f]
  <2>1. /\ Garder(q, r) /\ factures[p].statut \notin Validees /\ a.ht # NUL
        /\ DtNommee => Visee(factures[p])
        /\ (c \/ factures[p].contrat) /\ Somme(Comptees) + Ajoute(a) > Commande => f
    BY <1>14 DEF LireValidation
  <2>2. factures[p] \in Facture
    BY <1>1, <1>14 DEF LireValidation, Existe, Lignes
  <2>3. Ajoute(a) \in Nat
    <3>1. a \in Chiffres
      BY <2>2 DEF Facture
    <3>2. a.ht \in Nat
      BY <2>1, <3>1 DEF Chiffres
    <3>3. Valeur(a) \in Nat \cup {NUL}
      BY <3>1, ValeurDansBase
    <3> QED BY <3>2, <3>3 DEF Ajoute, Complete
  <2>4. Somme(Comptees) \in Nat
    <3>1. Chiffrees(factures, Comptees)
      BY <1>1, Chiffrage DEF Comptees, Existe
    <3> QED BY <3>1, TotalNaturel DEF Somme
  <2>5. r.contrat /\ ~r.force => Somme(Comptees) + Ajoute(a) <= Commande
    BY <2>1, <2>3, <2>4 DEF Domaines
  <2>6. r.etat = "validation" /\ r.p = p /\ r.compare = IF r.contrat THEN Valeur(a) ELSE NUL
    OBVIOUS
  <2> HIDE DEF r
  <2>7. Actuel(r)
    BY <2>1, <2>5, <2>6 DEF Actuel
  <2> QED BY <2>1, <2>7, <1>3
<1>15. ASSUME Planifier(q) \/ Interrompre(q) PROVE SInv'
  BY <1>5, <1>15 DEF Planifier, Interrompre
<1> QED BY <1>6, <1>7, <1>8, <1>9, <1>10, <1>11, <1>12, <1>13, <1>14, <1>15

LEMMA SEcrit ==
    ASSUME Domaines, UneALaFois, SInv, IInv', NEW q \in Requetes, Demeurent,
           \/ \E m \in Montants \cup {Vide}, c \in BOOLEAN :
                 EcrireLecture(q, m, c) \/ Modifier(q, m, c) \/ Analyser(q, m, c)
           \/ EchouerLecture(q)
           \/ \E c \in BOOLEAN : Controler(q, c)
           \/ \E d \in Visa : Viser(q, d)
           \/ Valider(q)
           \/ \E s \in {"LITIGE", "REJETEE", "A_VALIDER"} : ChangerStatut(q, s)
           \/ \E s \in BOOLEAN : EnregistrerPaiement(q, s)
           \/ Relancer(q)
    PROVE  SInv'
<1>a. PICK p : p = req[q].p
  OBVIOUS
<1>b. PICK g : g = factures[p]
  OBVIOUS
<1>c. PICK f : f = factures'[p]
  OBVIOUS
<1>0. IInv /\ req[q].etat \in {"lecture", "facture", "relance", "controle", "validation"}
  BY DEF EcrireLecture, Modifier, Analyser, EchouerLecture, Controler, Viser, Valider, ChangerStatut,
         EnregistrerPaiement, Relancer, En, SInv
<1>1. p \in Pieces /\ Existe(p) /\ g \in Facture
  BY <1>0, <1>a, <1>b, LigneLue
<1>2. f \in Facture
  BY <1>1, <1>c DEF Demeurent, Existe, IInv, TypeOK
<1>3. factures \in Lignes /\ factures' \in Lignes /\ req \in [Requetes -> Requete]
  BY <1>0 DEF IInv, TypeOK, Lignes
<1>4. factures' = [factures EXCEPT ![p] = f]
  <2>1. \A x \in Pieces : x # p => factures'[x] = factures[x]
    BY <1>1, <1>3, <1>a DEF EcrireLecture, Modifier, Analyser, EchouerLecture, Controler, Viser,
                            Valider, ChangerStatut, EnregistrerPaiement, Relancer, Lignes
  <2> QED BY <2>1, <1>1, <1>3, <1>c DEF Lignes
<1>5. req'[q].etat \in {"libre", "controle"}
  <2>1. Finir(q) \/ \E b \in BOOLEAN : Garder(q, [etat |-> "controle", p |-> req[q].p, lecture |-> b])
    BY DEF EcrireLecture, Modifier, Analyser, EchouerLecture, Controler, Viser, Valider,
           ChangerStatut, EnregistrerPaiement, Relancer
  <2> QED BY <2>1, <1>3 DEF Garder, Finir, Libre
<1>6. Actuel(req[q])
  BY DEF SInv
<1>7. ASSUME f.statut \notin Validees PROVE SInv'
  BY <1>1, <1>2, <1>4, <1>5, <1>7, EcriteHors
<1>8. ASSUME g.statut \in Validees, Poursuit(g, f), f.visas = g.visas, f.compare = g.compare,
             f.force = g.force, g.contrat => f.contrat
      PROVE  SInv'
  BY <1>1, <1>2, <1>4, <1>5, <1>8, <1>b, EcriteDedans
<1>10. ASSUME g.statut \in Validees PROVE g.montant.ht # NUL /\ Comparee(g)
  BY <1>1, <1>b, <1>10, Parties DEF Tenues, Existe
<1>21. ASSUME g.statut \in Validees, f.montant = g.montant PROVE Poursuit(g, f)
  BY <1>10, <1>21 DEF Poursuit
<1>9. req[q].etat \in {"lecture", "facture"} =>
          /\ req[q].statut = g.statut /\ req[q].montant = g.montant /\ req[q].contrat = g.contrat
  BY <1>6, <1>a, <1>b DEF Actuel, Lue
<1>11. ASSUME NEW m \in Montants \cup {Vide}, NEW c \in BOOLEAN, EcrireLecture(q, m, c) PROVE SInv'
  <2>1. f.statut = "A_VALIDER"
    BY <1>1, <1>3, <1>11, <1>a, <1>b, <1>c DEF EcrireLecture, Lignes, Facture
  <2> QED BY <2>1, <1>7 DEF Validees
<1>12. ASSUME NEW m \in Montants \cup {Vide}, NEW c \in BOOLEAN, Modifier(q, m, c) PROVE SInv'
  <2>1. f.statut = g.statut /\ req[q].etat = "facture" /\ req[q].statut \in Modifiables
    BY <1>1, <1>3, <1>12, <1>a, <1>b, <1>c DEF Modifier, En, Lignes, Facture
  <2> QED BY <2>1, <1>7, <1>9 DEF Validees, Modifiables
<1>13. ASSUME NEW m \in Montants \cup {Vide}, NEW c \in BOOLEAN, Analyser(q, m, c) PROVE SInv'
  <2>0. req[q].etat = "facture"
    BY <1>13 DEF Analyser, En
  <2>1. f = [g EXCEPT !.montant = Completes(g.montant, m), !.contrat = g.contrat \/ c,
                      !.statut = IF g.statut = "RECUE" THEN "A_VALIDER" ELSE g.statut]
    <3>1. factures' = [factures EXCEPT ![p].montant = Completes(g.montant, m),
                                        ![p].contrat = g.contrat \/ c,
                                        ![p].statut = IF g.statut = "RECUE" THEN "A_VALIDER"
                                                      ELSE g.statut]
      BY <1>9, <1>13, <2>0, <1>a DEF Analyser
    <3> QED BY <3>1, <1>1, <1>3, <1>b, <1>c DEF Lignes
  <2>2. CASE g.statut \in Validees
    <3>1. /\ f.montant = Completes(g.montant, m) /\ f.visas = g.visas /\ f.compare = g.compare
          /\ f.force = g.force /\ (g.contrat => f.contrat)
      BY <2>1, <1>1 DEF Facture
    <3>2. Poursuit(g, f)
      BY <2>2, <3>1, <1>1, <1>10, ChiffresDonnes, Remplie
    <3> QED BY <2>2, <3>1, <3>2, <1>8
  <2>3. CASE g.statut \notin Validees
    <3>1. f.statut \notin Validees
      BY <2>1, <2>3, <1>1 DEF Facture, Validees
    <3> QED BY <3>1, <1>7
  <2> QED BY <2>2, <2>3
<1>14. ASSUME EchouerLecture(q) PROVE SInv'
  <2>1. f.statut = "RECUE"
    BY <1>1, <1>3, <1>14, <1>a, <1>b, <1>c DEF EchouerLecture, Lignes, Facture
  <2> QED BY <2>1, <1>7 DEF Validees
<1>15. ASSUME NEW c \in BOOLEAN, Controler(q, c) PROVE SInv'
  <2>1. f = [g EXCEPT !.critique = c]
    BY <1>1, <1>3, <1>15, <1>a, <1>b, <1>c DEF Controler, Lignes
  <2>2. /\ f.montant = g.montant /\ f.visas = g.visas /\ f.compare = g.compare /\ f.force = g.force
        /\ f.contrat = g.contrat /\ f.statut = g.statut
    BY <2>1, <1>1 DEF Facture
  <2> QED BY <2>2, <1>7, <1>8, <1>21
<1>16. ASSUME NEW d \in Visa, Viser(q, d) PROVE SInv'
  <2>1. f = [g EXCEPT !.visas = Append(@, d),
                      !.statut = IF d = "REFUSE" THEN "LITIGE" ELSE "A_VALIDER"]
    BY <1>1, <1>3, <1>16, <1>a, <1>b, <1>c DEF Viser, Lignes
  <2>2. f.statut \in {"LITIGE", "A_VALIDER"}
    BY <2>1, <1>1 DEF Facture
  <2> QED BY <2>2, <1>7 DEF Validees
<1>17. ASSUME Valider(q) PROVE SInv'
  <2>0. req[q].etat = "validation" /\ req[q].contrat \in BOOLEAN /\ req[q].force \in BOOLEAN
    BY <1>0, <1>17, LigneLue DEF Valider, En
  <2>1. f = [g EXCEPT !.statut = "VALIDEE", !.contrat = req[q].contrat,
                      !.cumul = req[q].contrat, !.compare = req[q].compare,
                      !.force = req[q].force]
    BY <1>1, <1>3, <1>17, <1>a, <1>b, <1>c DEF Valider, Lignes
  <2>2. /\ f.montant = g.montant /\ f.visas = g.visas /\ f.statut = "VALIDEE"
        /\ f.contrat = req[q].contrat /\ f.compare = req[q].compare /\ f.force = req[q].force
    BY <2>1, <1>1 DEF Facture
  <2>3. /\ g.statut \notin Validees /\ g.montant.ht # NUL /\ (DtNommee => Visee(g))
        /\ f.compare = IF f.contrat THEN Valeur(f.montant) ELSE NUL
        /\ f.contrat /\ ~f.force => Somme(Comptees) + Ajoute(g.montant) <= Commande
    BY <1>6, <2>0, <2>2, <1>a, <1>b DEF Actuel
  <2>4. Visee(g) => Visee(f)
    BY <2>2 DEF Visee
  <2>5. /\ factures'[p] = f /\ factures[p] = g /\ g # NUL
        /\ \A s \in Pieces : s # p => factures'[s] = factures[s]
    BY <1>1, <1>3, <1>4, <1>b DEF Lignes, Existe
  <2>6. Total(factures', Libres(factures')) <= Commande
    <3>1. CASE f.contrat /\ ~f.force /\ f.compare # NUL
      <4>1. Somme(Comptees) = Total(factures, Engagees(factures))
        <5>1. Comptees = Engagees(factures)
          BY DEF Comptees, Engagees, Existe
        <5> QED BY <5>1 DEF Somme
      <4>2. Montant(factures[p]) = Ajoute(g.montant)
        BY <2>2, <2>3, <2>5, <3>1 DEF Montant, Ajoute, Complete
      <4>3. Total(factures, Engagees(factures)) + Montant(factures[p]) <= Commande
        BY <2>3, <3>1, <4>1, <4>2
      <4>4. p \notin Engagees(factures)
        BY <2>3, <2>5 DEF Engagees
      <4>5. Libres(factures') \subseteq Engagees(factures) \cup {p}
        BY <2>5 DEF Libres, Engagees
      <4>6. \A s \in Libres(factures') : Montant(factures'[s]) = Montant(factures[s])
        BY <2>2, <2>5 DEF Libres, Montant
      <4> QED BY <1>1, <1>3, <2>5, <4>3, <4>4, <4>5, <4>6, SommeAjoutee
    <3>2. CASE ~(f.contrat /\ ~f.force /\ f.compare # NUL)
      <4>1. Libres(factures') \subseteq Libres(factures)
            /\ \A s \in Libres(factures') : Montant(factures'[s]) = Montant(factures[s])
        BY <2>5, <3>2 DEF Libres, Montant
      <4>2. Total(factures, Libres(factures)) <= Commande
        BY Parties
      <4> QED BY <1>3, <4>1, <4>2, SommeTenue
    <3> QED BY <3>1, <3>2
  <2>7. f.montant.ht # NUL /\ (DtNommee => Visee(f)) /\ Comparee(f)
    BY <2>2, <2>3, <2>4 DEF Comparee
  <2> QED BY <1>1, <1>2, <1>4, <1>5, <2>6, <2>7, Ecrite
<1>18. ASSUME NEW s \in {"LITIGE", "REJETEE", "A_VALIDER"}, ChangerStatut(q, s) PROVE SInv'
  <2>1. f.statut = s
    BY <1>1, <1>3, <1>18, <1>a, <1>b, <1>c DEF ChangerStatut, Lignes, Facture
  <2> QED BY <2>1, <1>7 DEF Validees
<1>19. ASSUME NEW s \in BOOLEAN, EnregistrerPaiement(q, s) PROVE SInv'
  <2>1. f = [g EXCEPT !.paye = TRUE, !.statut = IF s THEN "PAYEE" ELSE @]
    BY <1>1, <1>3, <1>19, <1>a, <1>b, <1>c DEF EnregistrerPaiement, Lignes
  <2>2. /\ f.montant = g.montant /\ f.visas = g.visas /\ f.compare = g.compare /\ f.force = g.force
        /\ f.contrat = g.contrat
    BY <2>1, <1>1 DEF Facture
  <2>3. g.statut \in Validees
    BY <1>9, <1>19 DEF EnregistrerPaiement, En
  <2> QED BY <2>2, <2>3, <1>8, <1>21
<1>20. ASSUME Relancer(q) PROVE SInv'
  <2>1. f.statut = "EN_LECTURE"
    BY <1>1, <1>3, <1>20, <1>a, <1>b, <1>c DEF Relancer, Lignes, Facture
  <2> QED BY <2>1, <1>7 DEF Validees
<1> QED BY <1>11, <1>12, <1>13, <1>14, <1>15, <1>16, <1>17, <1>18, <1>19, <1>20

LEMMA SRecu == ASSUME Domaines, UneALaFois, SInv, IInv', NEW q \in Requetes, Recevoir(q) PROVE SInv'
<1>a. PICK p : p = req[q].p
  OBVIOUS
<1>b. PICK f : f = Nouvelle("EN_LECTURE", req[q].porte, Vide)
  OBVIOUS
<1>1. req[q] \in Requete /\ req \in [Requetes -> Requete]
  BY DEF SInv, IInv, TypeOK
<1>2. p \in Pieces /\ req[q].porte \in {"DEPOT"} \cup Messages
  BY <1>1, <1>a DEF Recevoir, En, Requete
<1>3. f \in Facture /\ f.statut = "EN_LECTURE"
  <2>1. <<>> \in Seq(Visa)
    OBVIOUS
  <2> QED BY <2>1, <1>2, <1>b, ChiffresDonnes DEF Nouvelle, Facture, FactureStatut
<1>4. factures' = [factures EXCEPT ![p] = f]
  BY <1>a, <1>b DEF Recevoir
<1>5. req'[q].etat = "versement"
  BY <1>1 DEF Recevoir, Garder
<1> QED BY <1>2, <1>3, <1>4, <1>5, EcriteHors DEF Validees

\* An invoice typed in leaves what is being read and compared as it is.
LEMMA SCree ==
    ASSUME Domaines, SInv, IInv', NEW p \in Pieces, NEW m \in Montants \cup {Vide}, Creer(p, m)
    PROVE  SInv'
<1>a. PICK f : f = Nouvelle("RECUE", "SAISIE", m)
  OBVIOUS
<1>1. f.statut = "RECUE" /\ ~f.contrat
  BY <1>a DEF Nouvelle
<1>2. /\ factures' = [factures EXCEPT ![p] = f] /\ req' = req /\ ~Existe(p)
      /\ factures \in Lignes /\ factures' \in Lignes /\ req \in [Requetes -> Requete]
  BY <1>a DEF Creer, SInv, IInv, TypeOK, Lignes
<1>3. factures'[p] = f /\ \A s \in Pieces : s # p => factures'[s] = factures[s]
  BY <1>2 DEF Lignes
<1>4. Tenues(factures')
  BY <1>1, <1>3, Parties DEF Tenues, Validees
<1>5. Libres(factures') \subseteq Libres(factures)
      /\ \A s \in Libres(factures') : Montant(factures'[s]) = Montant(factures[s])
  BY <1>1, <1>3 DEF Libres, Validees
<1>6. Total(factures', Libres(factures')) <= Commande
  BY <1>2, <1>5, Parties, SommeTenue
<1>7. Total(factures', Engagees(factures')) = Total(factures, Engagees(factures))
  <2>1. Engagees(factures') = Engagees(factures)
        /\ \A s \in Engagees(factures) : Montant(factures[s]) = Montant(factures'[s])
    BY <1>1, <1>2, <1>3 DEF Engagees, Existe
  <2>2. Chiffrees(factures, Engagees(factures))
    BY <1>2, Chiffrage DEF Engagees
  <2> QED BY <2>1, <2>2, TotalEgal
<1>8. ASSUME NEW q \in Requetes PROVE Actuel(req[q])'
  <2>1. PICK r : r = req[q]
    OBVIOUS
  <2>2. r \in Requete /\ Suivi(r) /\ Actuel(r) /\ req'[q] = r
    BY <2>1, <1>2 DEF SInv, IInv
  <2>3. r.etat \in {"lecture", "facture", "relance", "validation"} => factures'[r.p] = factures[r.p]
    <3>1. r.etat \in {"lecture", "facture", "relance", "validation"} => r.p \in Pieces /\ Existe(r.p)
      BY <2>2 DEF Requete, Suivi
    <3> QED BY <3>1, <1>2, <1>3
  <2>4. Somme(Comptees)' = Somme(Comptees)
    <3>1. Comptees = Engagees(factures) /\ Comptees' = Engagees(factures')
      BY DEF Comptees, Engagees, Existe
    <3> QED BY <3>1, <1>7 DEF Somme
  <2>5. CASE r.etat \in {"lecture", "facture"}
    <3>1. r = Lue(r.etat, r.p)'
      BY <2>2, <2>3, <2>5 DEF Actuel, Lue
    <3> QED BY <2>2, <2>5, <3>1 DEF Actuel, Lue
  <2>6. CASE r.etat \notin {"lecture", "facture"}
    BY <2>2, <2>3, <2>4, <2>6 DEF Actuel
  <2> QED BY <2>5, <2>6
<1> QED BY <1>4, <1>6, <1>8, Parties

LEMMA SCoup ==
    ASSUME Domaines, UneALaFois, SInv, IInv',
           (\E m \in Messages : MarquerLu(m) \/ Rejeter(m)) \/ Redemarrer \/ UNCHANGED vars
    PROVE  SInv'
<1>1. factures' = factures
  BY DEF MarquerLu, Rejeter, Redemarrer, vars
<1>2. ASSUME NEW q \in Requetes PROVE Actuel(req[q])'
  <2>1. Actuel(req[q])
    BY DEF SInv
  <2>2. req'[q] = req[q] \/ req'[q] = Libre
    BY DEF MarquerLu, Rejeter, Redemarrer, vars
  <2>3. CASE req'[q] = req[q]
    BY <1>1, <2>1, <2>3 DEF Actuel, Lue, Comptees, Somme, Existe
  <2>4. CASE req'[q] = Libre
    BY <2>4 DEF Actuel, Libre
  <2> QED BY <2>2, <2>3, <2>4
<1> QED BY <1>1, <1>2, Parties

\* SInv holds in every reachable state when one request is served at a time.
THEOREM InvarianceSequentielle == ASSUME Domaines, UneALaFois PROVE Spec => []SInv
<1>1. Init => SInv
  <2> SUFFICES ASSUME Init PROVE SInv
    OBVIOUS
  <2>1. IInv
    BY Depart
  <2>2. (\A q \in Requetes : Actuel(req[q])) /\ Tenues(factures) /\ Libres(factures) = {}
    BY DEF Init, Actuel, Libre, Tenues, Libres
  <2>3. Total(factures, {}) = 0
    BY TotalVide
  <2> QED BY <2>1, <2>2, <2>3, Parties DEF Domaines
<1>2. SInv /\ [Next]_vars => SInv'
  <2> SUFFICES ASSUME SInv, [Next]_vars PROVE SInv'
    OBVIOUS
  <2>0. IInv /\ IInv'
    BY Suite DEF SInv
  <2>1. CASE Immediat
    BY <2>0, <2>1, SCree, SCoup DEF Immediat
  <2>2. ASSUME NEW q \in Requetes, Courrier(q) PROVE SInv'
    BY <2>0, <2>2, SeLit DEF Courrier
  <2>3. ASSUME NEW q \in Requetes, Reception(q) PROVE SInv'
    <3>1. CASE Relancer(q)
      BY <2>0, <3>1, Ecritures, SEcrit
    <3> QED BY <2>0, <2>3, <3>1, SeLit, SRecu DEF Reception
  <2>4. ASSUME NEW q \in Requetes, Lecture(q) PROVE SInv'
    <3>1. CASE \E p \in Pieces : LireFond(q, p)
      BY <2>0, <3>1, SeLit
    <3> QED BY <2>0, <2>4, <3>1, Ecritures, SEcrit DEF Lecture
  <2>5. ASSUME NEW q \in Requetes, Decision(q) PROVE SInv'
    <3>1. CASE \/ \E p \in Pieces : LireFacture(q, p)
               \/ \E p \in Pieces, c, f \in BOOLEAN : LireValidation(q, p, c, f)
      BY <2>0, <3>1, SeLit
    <3> QED BY <2>0, <2>5, <3>1, Ecritures, SEcrit DEF Decision
  <2>6. ASSUME NEW q \in Requetes, Interrompre(q) PROVE SInv'
    BY <2>0, <2>6, SeLit
  <2>7. CASE UNCHANGED vars
    BY <2>0, <2>7, SCoup
  <2> QED BY <2>1, <2>2, <2>3, <2>4, <2>5, <2>6, <2>7 DEF Next
<1> QED BY <1>1, <1>2, PTL DEF Spec

\* valider, analyser, modifier, enregistrerPaiement: one request at a time, an
\* invoice in the billed column has the last word of the site management for
\* it, and what was validated on the contract without forcing, and still counts
\* for the value compared then, stays within what the contract orders, whatever
\* the order, the amounts and the number of invoices.
THEOREM FacturesDues == ASSUME Domaines, UneALaFois PROVE Spec => []FactureJustifiee
<1>1. SInv => FactureJustifiee
  <2> SUFFICES ASSUME SInv PROVE FactureJustifiee
    OBVIOUS
  <2> DEFINE validees == {p \in Pieces : Existe(p) /\ factures[p].statut \in Validees}
             imputees == {p \in validees :
                             /\ factures[p].contrat /\ factures[p].compare # NUL
                             /\ Valeur(factures[p].montant) = factures[p].compare}
  <2>1. ASSUME DtNommee, NEW p \in validees
        PROVE  LET v == factures[p].visas IN v # <<>> /\ v[Len(v)] = "APPROUVE"
    BY <2>1, Parties DEF Tenues, Existe, Visee
  <2>2. ASSUME \A p \in imputees : ~factures[p].force PROVE Somme(imputees) <= Commande
    <3>1. imputees = Libres(factures)
      BY <2>2 DEF Libres, Existe
    <3> QED BY <3>1, Parties DEF Somme
  <2> QED BY <2>1, <2>2 DEF FactureJustifiee
<1> QED BY <1>1, InvarianceSequentielle, PTL

(***************************************************************************)
(* Rapports, one request at a time: the amount an order takes.             *)
(***************************************************************************)
LEMMA Formes ==
    ASSUME NEW r \in Ra!Requete
    PROVE  /\ r.etat \in {"libre", "lecture", "a_controler", "controle"}
           /\ r.etat # "libre" => r.f \in Factures
           /\ r.etat \in {"lecture", "controle"} => r.colonnes \in Colonnes
           /\ r.etat \in {"a_controler", "controle"} => r.fond \in BOOLEAN
           /\ r.etat = "controle" => r.qr \in Bulletins
BY DEF Ra!Requete

LEMMA Gardee ==
    ASSUME NEW q \in Requetes, NEW r \in Ra!Requete,
           req \in [Requetes -> Ra!Requete], Ra!Garder(q, r)
    PROVE  req' \in [Requetes -> Ra!Requete] /\ req'[q] = r
BY DEF Ra!Garder

LEMMA ActuelPrime ==
    ASSUME NEW q, NEW r, req'[q] = r, Ra!Actuel(r)'
    PROVE  Ra!Actuel(req[q])'
BY DEF Ra!Actuel

LEMMA LibreVaut == Ra!Libre \in Ra!Requete /\ Ra!Libre.etat = "libre"
BY DEF Ra!Libre, Ra!Requete

LEMMA Muette == ASSUME NEW r, r.etat = "libre" PROVE Ra!Actuel(r)'
BY DEF Ra!Actuel

LEMMA Rangee ==
    ASSUME NEW m \in Ra!Facture
    PROVE  /\ m.statut \in Ra!FactureStatut /\ m.colonnes \in Colonnes /\ m.qr \in Bulletins
           /\ m.rapport \in Int \cup {NUL}
BY DEF Ra!Facture

\* One row changes, or none.
LEMMA Cloture ==
    ASSUME Ra!Domaines, Ra!SInv, NEW f \in Factures, NEW m \in Ra!Facture \cup {NUL},
           montants' = [montants EXCEPT ![f] = m], suivis' \subseteq Factures,
           suivis' \ {f} \subseteq suivis,
           f \in suivis' => m # NUL /\ Ra!Accord(m),
           req' \in [Requetes -> Ra!Requete],
           \A q \in Requetes : Ra!Actuel(req[q])'
    PROVE  Ra!SInv'
<1>1. Ra!TypeOK'
  BY DEF Ra!SInv, Ra!TypeOK
<1>2. ASSUME NEW g \in suivis' PROVE Ra!Existe(g)' /\ Ra!Accord(montants'[g])
  <2>1. CASE g = f
    <3>1. montants'[g] = m
      BY <2>1 DEF Ra!SInv, Ra!TypeOK
    <3>2. m # NUL /\ Ra!Accord(m)
      BY <1>2, <2>1
    <3> QED BY <3>1, <3>2 DEF Ra!Existe
  <2>2. CASE g # f
    <3>1. g \in suivis /\ montants'[g] = montants[g]
      BY <1>2, <2>2 DEF Ra!SInv, Ra!TypeOK
    <3> QED BY <3>1 DEF Ra!SInv, Ra!Existe
  <2> QED BY <2>1, <2>2
<1>3. \A g \in suivis' : Ra!Accord(montants'[g]) = Ra!Accord(montants[g])'
  BY DEF Ra!Accord
<1> QED BY <1>1, <1>2, <1>3 DEF Ra!SInv

(***************************************************************************)
(* What changes a row without a request                                    *)
(***************************************************************************)
\* The row m becomes n, and what was read of m is still good.
Suit(m, n) ==
    /\ n \in Ra!Facture
    /\ Ra!Accord(m) => Ra!Accord(n)
    /\ \A r \in Ra!Requete : r.etat = "controle" /\ Ra!Relu(r, m) => Ra!Relu(r, n)

LEMMA Ecran ==
    ASSUME Ra!Domaines, Ra!SInv, NEW f \in Factures, Ra!Existe(f), NEW n, Suit(montants[f], n),
           montants' = [montants EXCEPT ![f] = n], UNCHANGED <<suivis, req>>
    PROVE  Ra!SInv'
<1>1. n \in Ra!Facture /\ n # NUL /\ montants \in [Factures -> Ra!Facture \cup {NUL}]
      /\ montants' \in [Factures -> Ra!Facture \cup {NUL}] /\ montants'[f] = n
      /\ \A g \in Factures : g # f => montants'[g] = montants[g]
  BY DEF Suit, Ra!SInv, Ra!TypeOK, Ra!Domaines
<1>2. ASSUME NEW q \in Requetes PROVE Ra!Actuel(req[q])'
  <2>1. PICK r \in Ra!Requete : r = req[q] /\ Ra!Actuel(r)
    BY DEF Ra!SInv, Ra!TypeOK
  <2>2. CASE r.etat = "libre"
    BY <2>1, <2>2, Muette, ActuelPrime
  <2>3. CASE r.etat # "libre"
    <3>1. r.f \in Factures /\ Ra!Existe(r.f) /\ (r.etat = "controle" => Ra!Relu(r, montants[r.f]))
      BY <2>1, <2>3, Formes DEF Ra!Actuel
    <3>2. montants'[r.f] # NUL
      BY <1>1, <3>1 DEF Ra!Existe
    <3>3. r.etat = "controle" => Ra!Relu(r, montants'[r.f])
      BY <1>1, <2>1, <3>1 DEF Suit
    <3>4. PICK w : w = montants'[r.f]
      OBVIOUS
    <3>5. r.etat = "controle" => Ra!Relu(r, montants[r.f])'
      BY <3>3, <3>4 DEF Ra!Relu
    <3>6. Ra!Actuel(r)'
      BY <3>2, <3>5 DEF Ra!Actuel, Ra!Existe
    <3> QED BY <2>1, <3>6, ActuelPrime
  <2> QED BY <2>2, <2>3
<1>3. f \in suivis' => Ra!Accord(n)
  BY DEF Suit, Ra!SInv
<1> QED BY <1>1, <1>2, <1>3, Cloture DEF Ra!SInv, Ra!TypeOK

LEMMA Creation ==
    ASSUME Ra!Domaines, Ra!SInv, NEW f \in Factures, NEW c \in Colonnes, Ra!Creer(f, c)
    PROVE  Ra!SInv'
<1> DEFINE n == [statut |-> "RECUE", colonnes |-> c, qr |-> NUL, rapport |-> NUL]
<1>1. /\ montants[f] = NUL /\ montants' = [montants EXCEPT ![f] = n]
      /\ suivis' = suivis \cup {f} /\ req' = req
  BY DEF Ra!Creer, Ra!Existe
<1>2. n \in Ra!Facture /\ n # NUL /\ n.rapport = NUL /\ n.qr = NUL
  BY DEF Ra!Facture, Ra!FactureStatut, Ra!Domaines
<1> HIDE DEF n
<1>3. Ra!Accord(n)
  BY <1>2 DEF Ra!Accord
<1>4. ASSUME NEW q \in Requetes PROVE Ra!Actuel(req[q])'
  <2>1. PICK r \in Ra!Requete : r = req[q] /\ Ra!Actuel(r)
    BY DEF Ra!SInv, Ra!TypeOK
  <2>2. CASE r.etat = "libre"
    BY <1>1, <2>1, <2>2, Muette, ActuelPrime
  <2>3. CASE r.etat # "libre"
    <3>1. r.f \in Factures /\ r.f # f
      BY <1>1, <2>1, <2>3, Formes DEF Ra!Actuel, Ra!Existe
    <3>2. montants'[r.f] = montants[r.f]
      BY <1>1, <3>1 DEF Ra!SInv, Ra!TypeOK
    <3>3. Ra!Actuel(r)'
      BY <2>1, <3>2 DEF Ra!Actuel, Ra!Existe, Ra!Relu
    <3> QED BY <1>1, <2>1, <3>3, ActuelPrime
  <2> QED BY <2>2, <2>3
<1> QED BY <1>1, <1>2, <1>3, <1>4, Cloture DEF Ra!SInv, Ra!TypeOK

LEMMA Statut ==
    ASSUME Ra!SInv, NEW f \in Factures, Ra!Existe(f), NEW s \in Ra!FactureStatut
    PROVE  Suit(montants[f], [montants[f] EXCEPT !.statut = s])
<1>1. PICK m \in Ra!Facture : m = montants[f]
  BY DEF Ra!SInv, Ra!TypeOK, Ra!Existe
<1>2. PICK n : n = [m EXCEPT !.statut = s]
  OBVIOUS
<1>3. n \in Ra!Facture /\ n.colonnes = m.colonnes /\ n.qr = m.qr /\ n.rapport = m.rapport
  BY <1>2 DEF Ra!Facture
<1>4. Suit(m, n)
  BY <1>3 DEF Suit, Ra!Accord, Ra!Relu
<1> QED BY <1>1, <1>2, <1>4

LEMMA Analyse ==
    ASSUME Ra!Domaines, Ra!SInv, NEW f \in Factures, NEW lues \in Colonnes, Ra!Analyser(f, lues)
    PROVE  Ra!SInv'
<1>1. PICK m \in Ra!Facture : m = montants[f]
  BY DEF Ra!SInv, Ra!TypeOK, Ra!Analyser, Ra!Existe
<1>2. PICK c : c = Ra!Completees(m.colonnes, Ra!SansDeductions(lues))
  OBVIOUS
<1>3. PICK n : n = [m EXCEPT !.colonnes = c, !.statut = IF @ = "RECUE" THEN "A_VALIDER" ELSE @]
  OBVIOUS
<1>4. Ra!Existe(f) /\ montants' = [montants EXCEPT ![f] = n] /\ UNCHANGED <<suivis, req>>
  BY <1>1, <1>2, <1>3 DEF Ra!Analyser, Ra!SInv, Ra!TypeOK
<1>5. m.colonnes \in Colonnes /\ m.statut \in Ra!FactureStatut
  BY Rangee
<1>6. /\ c.retenue = m.colonnes.retenue /\ c.acomptes = m.colonnes.acomptes
      /\ m.colonnes.ttc # NUL => c.ttc = m.colonnes.ttc
  <2>1. PICK l : l = Ra!SansDeductions(lues)
    OBVIOUS
  <2>2. l.retenue = NUL /\ l.acomptes = NUL
    BY <2>1 DEF Ra!SansDeductions, Ra!Domaines
  <2> QED BY <1>2, <2>1, <2>2 DEF Ra!Completees, Ra!Colonne
<1>7. c \in Colonnes
  BY <1>2, <1>5 DEF Ra!Domaines
<1>8. n \in Ra!Facture /\ n.colonnes = c /\ n.qr = m.qr /\ n.rapport = m.rapport
  BY <1>3, <1>5, <1>7 DEF Ra!Facture, Ra!FactureStatut
<1>9. Suit(m, n)
  BY <1>6, <1>8 DEF Suit, Ra!Accord, Ra!Relu
<1> QED BY <1>1, <1>4, <1>9, Ecran

LEMMA PasEcrans == ASSUME Ra!Domaines, Ra!SInv, Ra!Ecrans PROVE Ra!SInv'
<1>1. ASSUME NEW f \in Factures, NEW s \in Ra!FactureStatut, Ra!Existe(f),
             montants' = [montants EXCEPT ![f].statut = s], UNCHANGED <<suivis, req>>
      PROVE  Ra!SInv'
  <2>1. montants' = [montants EXCEPT ![f] = [montants[f] EXCEPT !.statut = s]]
    BY <1>1 DEF Ra!SInv, Ra!TypeOK
  <2> QED BY <1>1, <2>1, Statut, Ecran
<1>2. ASSUME NEW f \in Factures, Ra!Valider(f) \/ Ra!Relancer(f) PROVE Ra!SInv'
  BY <1>1, <1>2 DEF Ra!Valider, Ra!Relancer, Ra!FactureStatut
<1>3. ASSUME NEW f \in Factures, NEW s \in {"LITIGE", "REJETEE", "A_VALIDER"},
             Ra!ChangerStatut(f, s)
      PROVE  Ra!SInv'
  BY <1>1, <1>3 DEF Ra!ChangerStatut, Ra!FactureStatut
<1> QED BY <1>2, <1>3, Creation, Analyse DEF Ra!Ecrans

(***************************************************************************)
(* The only request                                                        *)
(***************************************************************************)
LEMMA SuiteRapport ==
    ASSUME Ra!SInv, UneALaFois, NEW q \in Requetes, NEW r \in Ra!Requete, Ra!Garder(q, r),
           Ra!Actuel(r)'
    PROVE  req' \in [Requetes -> Ra!Requete] /\ \A p \in Requetes : Ra!Actuel(req[p])'
<1>1. req' \in [Requetes -> Ra!Requete] /\ req'[q] = r /\ \A p \in Requetes : p = q
  BY Gardee DEF Ra!SInv, Ra!TypeOK, UneALaFois
<1>2. Ra!Actuel(req[q])'
  BY <1>1, ActuelPrime
<1> QED BY <1>1, <1>2

LEMMA SansEcriture ==
    ASSUME Ra!Domaines, Ra!SInv, UneALaFois, NEW q \in Requetes, NEW r \in Ra!Requete,
           Ra!Garder(q, r),
           Ra!Actuel(r)', UNCHANGED <<montants, suivis>>
    PROVE  Ra!SInv'
<1>1. req' \in [Requetes -> Ra!Requete] /\ \A p \in Requetes : Ra!Actuel(req[p])'
  BY SuiteRapport
<1>2. \A g \in suivis' : (Ra!Existe(g) /\ Ra!Accord(montants[g]))'
  BY DEF Ra!SInv, Ra!Existe, Ra!Accord
<1> QED BY <1>1, <1>2 DEF Ra!SInv, Ra!TypeOK

\* A row is rewritten, and its report is still to come or no request is left.
LEMMA Ecriture ==
    ASSUME Ra!Domaines, Ra!SInv, UneALaFois, NEW q \in Requetes, NEW f \in Factures,
           NEW n \in Ra!Facture,
           NEW r \in Ra!Requete, Ra!Garder(q, r),
           r.etat = "libre" \/ (r.etat = "a_controler" /\ r.f = f),
           montants' = [montants EXCEPT ![f] = n], suivis' \subseteq Factures,
           suivis' \ {f} \subseteq suivis, f \in suivis' => Ra!Accord(n)
    PROVE  Ra!SInv'
<1>1. n # NUL
  BY DEF Ra!Domaines
<1>2. montants'[f] = n
  BY DEF Ra!SInv, Ra!TypeOK
<1>3. Ra!Actuel(r)'
  BY <1>1, <1>2 DEF Ra!Actuel, Ra!Existe
<1>4. req' \in [Requetes -> Ra!Requete] /\ \A p \in Requetes : Ra!Actuel(req[p])'
  BY <1>3, SuiteRapport
<1> QED BY <1>1, <1>4, Cloture

LEMMA LecturesRapport ==
    ASSUME Ra!Domaines, Ra!SInv, UneALaFois, NEW q \in Requetes,
           (\E f \in Factures : Ra!LireFacture(q, f)) \/ Ra!LireControle(q) \/ Ra!Interrompre(q)
    PROVE  Ra!SInv'
<1>1. ASSUME NEW f \in Factures, Ra!LireFacture(q, f) PROVE Ra!SInv'
  <2>1. PICK r : r = [etat |-> "lecture", f |-> f, colonnes |-> montants[f].colonnes]
    OBVIOUS
  <2>2. Ra!Garder(q, r) /\ UNCHANGED <<montants, suivis>> /\ montants[f] # NUL
    BY <1>1, <2>1 DEF Ra!LireFacture, Ra!Existe
  <2>3. montants[f].colonnes \in Colonnes
    BY <2>2, Rangee DEF Ra!SInv, Ra!TypeOK
  <2>4. r \in Ra!Requete /\ r.etat = "lecture" /\ r.f = f
    BY <2>1, <2>3 DEF Ra!Requete
  <2>5. Ra!Actuel(r)'
    BY <2>2, <2>4 DEF Ra!Actuel, Ra!Existe
  <2> QED BY <2>2, <2>4, <2>5, SansEcriture
<1>2. CASE Ra!LireControle(q)
  <2>1. PICK o \in Ra!Requete : o = req[q] /\ o.etat = "a_controler" /\ Ra!Actuel(o)
    BY <1>2 DEF Ra!LireControle, Ra!En, Ra!SInv, Ra!TypeOK
  <2>2. o.f \in Factures /\ o.fond \in BOOLEAN /\ montants[o.f] # NUL
    BY <2>1, Formes DEF Ra!Actuel, Ra!Existe
  <2>3. PICK m \in Ra!Facture : m = montants[o.f]
    BY <2>2 DEF Ra!SInv, Ra!TypeOK
  <2>4. PICK r : r = [etat |-> "controle", f |-> o.f, fond |-> o.fond,
                      colonnes |-> m.colonnes, qr |-> m.qr]
    OBVIOUS
  <2>5. Ra!Garder(q, r) /\ UNCHANGED <<montants, suivis>>
    BY <1>2, <2>1, <2>3, <2>4 DEF Ra!LireControle
  <2>6. r \in Ra!Requete /\ r.f = o.f /\ r.colonnes = m.colonnes /\ r.qr = m.qr
    BY <2>2, <2>4, Rangee DEF Ra!Requete
  <2>7. Ra!Actuel(r)'
    BY <2>2, <2>3, <2>5, <2>6 DEF Ra!Actuel, Ra!Existe, Ra!Relu
  <2> QED BY <2>5, <2>6, <2>7, SansEcriture
<1>3. CASE Ra!Interrompre(q)
  BY <1>3, LibreVaut, Muette, SansEcriture DEF Ra!Interrompre, Ra!Finir
<1> QED BY <1>1, <1>2, <1>3

LEMMA Correction ==
    ASSUME Ra!Domaines, Ra!SInv, UneALaFois, NEW q \in Requetes, NEW f \in Factures,
           NEW c \in Colonnes,
           Ra!Modifier(q, f, c)
    PROVE  Ra!SInv'
<1>1. PICK m \in Ra!Facture : m = montants[f]
  BY DEF Ra!SInv, Ra!TypeOK, Ra!Modifier, Ra!Existe
<1>2. PICK n : n = [m EXCEPT !.colonnes = c]
  OBVIOUS
<1>3. PICK r : r = [etat |-> "a_controler", f |-> f, fond |-> FALSE]
  OBVIOUS
<1>4. /\ montants' = [montants EXCEPT ![f] = n] /\ suivis' = suivis \ {f} /\ Ra!Garder(q, r)
  BY <1>1, <1>2, <1>3 DEF Ra!Modifier, Ra!SInv, Ra!TypeOK
<1>5. n \in Ra!Facture
  BY <1>2 DEF Ra!Facture
<1>6. r \in Ra!Requete /\ r.etat = "a_controler" /\ r.f = f
  BY <1>3 DEF Ra!Requete
<1> QED BY <1>4, <1>5, <1>6, Ecriture DEF Ra!SInv, Ra!TypeOK

LEMMA LectureEcrite ==
    ASSUME Ra!Domaines, Ra!SInv, UneALaFois, NEW q \in Requetes, NEW l \in Colonnes,
           NEW b \in Bulletins,
           Ra!EcrireLecture(q, l, b)
    PROVE  Ra!SInv'
<1>1. PICK o \in Ra!Requete : o = req[q] /\ o.etat = "lecture" /\ Ra!Actuel(o)
  BY DEF Ra!EcrireLecture, Ra!En, Ra!SInv, Ra!TypeOK
<1>2. o.f \in Factures /\ o.colonnes \in Colonnes /\ montants[o.f] # NUL
  BY <1>1, Formes DEF Ra!Actuel, Ra!Existe
<1>3. PICK m \in Ra!Facture : m = montants[o.f]
  BY <1>2 DEF Ra!SInv, Ra!TypeOK
<1>4. PICK c \in Colonnes : c = Ra!Completees(o.colonnes, l)
  BY <1>2 DEF Ra!Domaines
<1>5. PICK n : n = [m EXCEPT !.colonnes = c, !.qr = b, !.statut = "A_VALIDER"]
  OBVIOUS
<1>6. PICK r : r = [etat |-> "a_controler", f |-> o.f, fond |-> TRUE]
  OBVIOUS
<1>7. /\ montants' = [montants EXCEPT ![o.f] = n] /\ suivis' = suivis \ {o.f} /\ Ra!Garder(q, r)
  BY <1>1, <1>2, <1>3, <1>4, <1>5, <1>6 DEF Ra!EcrireLecture, Ra!SInv, Ra!TypeOK
<1>8. n \in Ra!Facture
  BY <1>5 DEF Ra!Facture, Ra!FactureStatut
<1>9. r \in Ra!Requete /\ r.etat = "a_controler" /\ r.f = o.f
  BY <1>2, <1>6 DEF Ra!Requete
<1> QED BY <1>2, <1>7, <1>8, <1>9, Ecriture DEF Ra!SInv, Ra!TypeOK

\* The amount of a report.
LEMMA MontantRapport ==
    ASSUME Ra!Domaines, NEW r \in Ra!Requete, r.etat = "controle", NEW m \in Ra!Facture,
           Ra!Relu(r, m)
    PROVE  \E a \in Int \cup {NUL} :
              /\ a = Ra!Controle!APayer([ttc |-> r.colonnes.ttc, retenue |-> r.colonnes.retenue,
                                      acomptes |-> r.colonnes.acomptes, qr |-> r.qr])
              /\ Ra!Accord([m EXCEPT !.rapport = a])
<1>1. PICK k \in Colonnes : k = r.colonnes
  BY Formes
<1>2. r.qr \in Bulletins /\ r.qr = m.qr /\ m.colonnes.retenue = k.retenue
      /\ m.colonnes.acomptes = k.acomptes /\ k.ttc \in {NUL, m.colonnes.ttc}
  BY <1>1, Formes DEF Ra!Relu
<1>3. /\ k.ttc \in Nat \cup {NUL} /\ k.retenue \in Nat \cup {NUL} /\ k.acomptes \in Nat \cup {NUL}
      /\ NUL \notin Int /\ r.qr \in Nat \cup {NUL}
  BY <1>2 DEF Ra!Domaines
<1> DEFINE net == IF k.ttc = NUL THEN NUL
                  ELSE k.ttc - Ra!Controle!Ou0(k.retenue) - Ra!Controle!Ou0(k.acomptes)
           a == IF r.qr # NUL THEN r.qr ELSE net
<1>4. a = Ra!Controle!APayer([ttc |-> k.ttc, retenue |-> k.retenue, acomptes |-> k.acomptes,
                           qr |-> r.qr])
  BY DEF Ra!Controle!APayer, Ra!Controle!NetFacture, Ra!Controle!Ou0
<1>5. Ra!Controle!Ou0(k.retenue) \in Int /\ Ra!Controle!Ou0(k.acomptes) \in Int
  BY <1>3 DEF Ra!Controle!Ou0
<1>6. a \in Int \cup {NUL}
  BY <1>3, <1>5
<1>7. PICK n : n = [m EXCEPT !.rapport = a]
  OBVIOUS
<1>8. n.rapport = a /\ n.qr = m.qr /\ n.colonnes = m.colonnes
  BY <1>7 DEF Ra!Facture
<1>9. Ra!Accord(n)
  BY <1>2, <1>3, <1>5, <1>8 DEF Ra!Accord
<1> QED BY <1>1, <1>4, <1>6, <1>7, <1>9

LEMMA ControleEcrit ==
    ASSUME Ra!Domaines, Ra!SInv, UneALaFois, NEW q \in Requetes, Ra!EcrireControle(q)
    PROVE  Ra!SInv'
<1>1. PICK o \in Ra!Requete : o = req[q] /\ o.etat = "controle" /\ Ra!Actuel(o)
  BY DEF Ra!EcrireControle, Ra!En, Ra!SInv, Ra!TypeOK
<1>2. o.f \in Factures /\ montants[o.f] # NUL /\ Ra!Relu(o, montants[o.f])
  BY <1>1, Formes DEF Ra!Actuel, Ra!Existe
<1>3. PICK m \in Ra!Facture : m = montants[o.f]
  BY <1>2 DEF Ra!SInv, Ra!TypeOK
<1>4. PICK a \in Int \cup {NUL} :
         /\ a = Ra!Controle!APayer([ttc |-> o.colonnes.ttc, retenue |-> o.colonnes.retenue,
                                 acomptes |-> o.colonnes.acomptes, qr |-> o.qr])
         /\ Ra!Accord([m EXCEPT !.rapport = a])
  BY <1>1, <1>2, <1>3, MontantRapport
<1>5. PICK n : n = [m EXCEPT !.rapport = a]
  OBVIOUS
<1>6. montants' = [montants EXCEPT ![o.f].rapport = a] /\ suivis' = suivis \cup {o.f} /\ Ra!Finir(q)
  BY <1>1, <1>4 DEF Ra!EcrireControle
<1>7. montants' = [montants EXCEPT ![o.f] = n]
  BY <1>2, <1>3, <1>5, <1>6 DEF Ra!SInv, Ra!TypeOK
<1>8. n \in Ra!Facture /\ Ra!Accord(n)
  BY <1>4, <1>5 DEF Ra!Facture
<1> QED BY <1>2, <1>6, <1>7, <1>8, LibreVaut, Ecriture DEF Ra!Finir, Ra!SInv, Ra!TypeOK

LEMMA Echec ==
    ASSUME Ra!Domaines, Ra!SInv, UneALaFois, NEW q \in Requetes, Ra!Echouer(q)
    PROVE  Ra!SInv'
<1>1. PICK o \in Ra!Requete : o = req[q] /\ o.etat # "libre" /\ Ra!Actuel(o)
  BY DEF Ra!Echouer, Ra!En, Ra!SInv, Ra!TypeOK
<1>2. o.f \in Factures /\ montants[o.f] # NUL
  BY <1>1, Formes DEF Ra!Actuel, Ra!Existe
<1>3. PICK m \in Ra!Facture : m = montants[o.f]
  BY <1>2 DEF Ra!SInv, Ra!TypeOK
<1>4. PICK n : n = [m EXCEPT !.statut = "RECUE"]
  OBVIOUS
<1>5. montants' = [montants EXCEPT ![o.f] = n] /\ Ra!Finir(q) /\ UNCHANGED suivis
  BY <1>1, <1>2, <1>3, <1>4 DEF Ra!Echouer, Ra!SInv, Ra!TypeOK
<1>6. n \in Ra!Facture /\ (Ra!Accord(m) => Ra!Accord(n))
  BY <1>4, Statut DEF Ra!Facture, Ra!FactureStatut, Ra!Accord
<1>7. o.f \in suivis' => Ra!Accord(n)
  BY <1>3, <1>5, <1>6 DEF Ra!SInv
<1> QED BY <1>2, <1>5, <1>6, <1>7, LibreVaut, Ecriture DEF Ra!Finir, Ra!SInv, Ra!TypeOK

LEMMA DepartRapport == ASSUME Ra!Domaines, Ra!Init PROVE Ra!SInv
BY LibreVaut DEF Ra!Init, Ra!SInv, Ra!TypeOK, Ra!Actuel

\* modifier, analyser and controler, one request at a time: what a request read
\* of an invoice is what the row says when the report is written.
THEOREM RapportsEnSerie == ASSUME Ra!Domaines, UneALaFois PROVE Ra!Spec => []Ra!SInv
<1>1. Ra!Init => Ra!SInv
  BY DepartRapport
<1>2. ASSUME Ra!SInv, [Ra!Next]_Ra!vars PROVE Ra!SInv'
  <2>1. CASE UNCHANGED Ra!vars
    <3>1. \A q \in Requetes : Ra!Actuel(req[q])'
      BY <1>2, <2>1 DEF Ra!SInv, Ra!vars, Ra!Actuel, Ra!Existe, Ra!Relu
    <3>2. \A g \in suivis' : (Ra!Existe(g) /\ Ra!Accord(montants[g]))'
      BY <1>2, <2>1 DEF Ra!SInv, Ra!vars, Ra!Existe, Ra!Accord
    <3> QED BY <1>2, <2>1, <3>1, <3>2 DEF Ra!SInv, Ra!vars, Ra!TypeOK
  <2>2. CASE Ra!Next
    BY <1>2, <2>2, PasEcrans, LecturesRapport, Correction, LectureEcrite, ControleEcrit, Echec
       DEF Ra!Next, Ra!Traitements
  <2> QED BY <1>2, <2>1, <2>2
<1> QED BY <1>1, <1>2, PTL DEF Ra!Spec

\* modifier and montantAPayer, one request at a time: an order takes for an
\* invoice what its bulletin asks for, else what its corrected columns come to.
THEOREM MontantsSuivis == ASSUME Ra!Domaines, UneALaFois PROVE Ra!Spec => []Ra!MontantSuivi
<1>1. Ra!SInv => Ra!MontantSuivi
  <2> SUFFICES ASSUME Ra!SInv, NEW f \in suivis
               PROVE  Ra!MontantAPayer(f) = IF montants[f].qr # NUL THEN montants[f].qr
                                            ELSE Ra!Net(montants[f].colonnes)
    BY DEF Ra!MontantSuivi
  <2>1. PICK m \in Ra!Facture : m = montants[f] /\ Ra!Accord(m)
    BY DEF Ra!SInv, Ra!TypeOK, Ra!Existe
  <2> QED BY <2>1 DEF Ra!MontantAPayer, Ra!Accord, Ra!Net, Ra!Brut
<1> QED BY <1>1, RapportsEnSerie, PTL
=============================================================================
