------------------------- MODULE CloisonnementProofs -------------------------
(***************************************************************************)
(* The isolation of the companies, for any companies, rows, connections    *)
(* and number of requests.                                                 *)
(*                                                                         *)
(* Policies, cascades and the company of a row are computed by going up    *)
(* the chain of the tables.  Tables have ranks (Etagees): every proof by   *)
(* induction below takes a row of lowest rank that would make it fail.     *)
(***************************************************************************)
EXTENDS Cloisonnement, WellFoundedInduction, TLAPS

(***************************************************************************)
(* Functions that go up                                                    *)
(***************************************************************************)
Avant == {pq \in Nat \X Nat : pq[1] < pq[2]}

LEMMA PlusPetit ==
    ASSUME NEW T \in SUBSET Nat, T # {}
    PROVE  \E n \in T : \A m \in T : n <= m
<1>1. IsWellFoundedOn(Avant, Nat)
  BY NatLessThanWellFounded DEF Avant, OpToRel
<1>2. \E x \in T : \A y \in T : <<y, x>> \notin Avant
  BY <1>1, WFMin
<1>3. ASSUME NEW x \in Nat, NEW y \in Nat, <<y, x>> \notin Avant PROVE x <= y
  <2>1. <<y, x>> \in Nat \X Nat /\ <<y, x>>[1] = y /\ <<y, x>>[2] = x
    OBVIOUS
  <2>2. ~(y < x)
    BY <1>3, <2>1 DEF Avant
  <2> QED BY <2>2
<1> QED
  BY <1>2, <1>3

\* A function defined over rows by going up to parents.
Suit(f, P, B, b, p) == \A j \in P : f[j] = IF j \in B THEN b[j] ELSE f[p[j]]

LEMMA Descente ==
    ASSUME NEW P, NEW h \in [P -> Nat], NEW T \in SUBSET P, T # {}
    PROVE  \E i \in T : \A j \in T : h[i] <= h[j]
<1> DEFINE H == {h[i] : i \in T}
<1>1. H \in SUBSET Nat /\ H # {}
  OBVIOUS
<1>2. PICK n \in H : \A m \in H : n <= m
  BY <1>1, PlusPetit
<1> QED
  BY <1>2

LEMMA Existence ==
    ASSUME NEW P, NEW h \in [P -> Nat], NEW B \in SUBSET P, NEW V, NEW b, NEW p, NEW k \in Nat,
           \A j \in P : h[j] < k,
           \A j \in B : b[j] \in V,
           \A j \in P \ B : p[j] \in P /\ h[p[j]] < h[j]
    PROVE  \E f \in [P -> V] : Suit(f, P, B, b, p)
<1> DEFINE Q(n) == {j \in P : h[j] < n}
           Bon(n) == \E f \in [Q(n) -> V] : Suit(f, Q(n), B, b, p)
           T == {n \in Nat : ~Bon(n)}
<1>1. Bon(0)
  <2> DEFINE vide == [j \in Q(0) |-> b[j]]
  <2>1. Q(0) = {}
    OBVIOUS
  <2>2. vide \in [Q(0) -> V] /\ Suit(vide, Q(0), B, b, p)
    BY <2>1 DEF Suit
  <2> HIDE DEF vide
  <2> QED BY <2>2
<1>2. ASSUME NEW n \in Nat, Bon(n) PROVE Bon(n + 1)
  <2>1. PICK f \in [Q(n) -> V] : Suit(f, Q(n), B, b, p)
    BY <1>2
  <2> DEFINE g == [j \in Q(n + 1) |-> IF j \in B THEN b[j] ELSE f[p[j]]]
  <2>2. ASSUME NEW j \in Q(n + 1), j \notin B PROVE p[j] \in Q(n) /\ p[j] \in Q(n + 1)
    <3>1. p[j] \in P /\ h[p[j]] < h[j] /\ h[j] < n + 1
      BY <2>2
    <3>2. h[p[j]] \in Nat /\ h[j] \in Nat
      BY <3>1, <2>2
    <3> QED BY <3>1, <3>2
  <2>3. g \in [Q(n + 1) -> V]
    <3> SUFFICES ASSUME NEW j \in Q(n + 1) PROVE g[j] \in V
      OBVIOUS
    <3>1. CASE j \in B
      BY <3>1
    <3>2. CASE j \notin B
      BY <3>2, <2>2
    <3> QED BY <3>1, <3>2
  <2>4. Suit(g, Q(n + 1), B, b, p)
    <3> SUFFICES ASSUME NEW j \in Q(n + 1) PROVE g[j] = IF j \in B THEN b[j] ELSE g[p[j]]
      BY DEF Suit
    <3>1. CASE j \in B
      BY <3>1
    <3>2. CASE j \notin B
      <4>1. p[j] \in Q(n) /\ p[j] \in Q(n + 1)
        BY <3>2, <2>2
      <4>2. f[p[j]] = IF p[j] \in B THEN b[p[j]] ELSE f[p[p[j]]]
        BY <4>1, <2>1 DEF Suit
      <4>3. g[p[j]] = IF p[j] \in B THEN b[p[j]] ELSE f[p[p[j]]]
        BY <4>1
      <4> QED BY <3>2, <4>2, <4>3
    <3> QED BY <3>1, <3>2
  <2> HIDE DEF g
  <2> QED BY <2>3, <2>4
<1>3. T = {}
  <2> SUFFICES ASSUME T # {} PROVE FALSE
    OBVIOUS
  <2> HIDE DEF Bon
  <2>1. PICK n \in T : \A m \in T : n <= m
    BY PlusPetit
  <2>2. n # 0
    BY <2>1, <1>1
  <2>3. n - 1 \in Nat /\ n - 1 \notin T
    BY <2>1, <2>2
  <2>4. Bon(n - 1 + 1)
    BY <2>3, <1>2
  <2> QED BY <2>1, <2>4
<1>4. Bon(k)
  BY <1>3
<1>5. Q(k) = P
  OBVIOUS
<1> QED BY <1>4, <1>5

(***************************************************************************)
(* The rows, and the company of each                                       *)
(***************************************************************************)
Rangees(l) == {i \in Ids : l[i] # NUL}
Hauteur(l) == [j \in Rangees(l) |-> Rang[l[j].table]]
Racines(l) == {j \in Rangees(l) : Direct(l[j].table)}
Pere(l) == [j \in Rangees(l) |-> l[j].parent]

Arbre(l) ==
    /\ l \in [Ids -> Ligne \cup {NUL}]
    /\ \A j \in Rangees(l) :
          IF Direct(l[j].table) THEN l[j].parent \in Societes
          ELSE l[j].parent \in Rangees(l) /\ l[l[j].parent].table = Rattachement[l[j].table]

\* SocieteDe, the recursive function it is read from.
Remonte(l) ==
    CHOOSE f : f = [j \in Rangees(l) |->
        IF Direct(l[j].table) THEN l[j].parent ELSE f[l[j].parent]]

LEMMA SocieteRemontee == ASSUME NEW i PROVE SocieteDe(i) = Remonte(lignes)[i]
BY DEF SocieteDe, Remonte, Presentes, Rangees

LEMMA SocieteRemonteeEnsuite == ASSUME NEW i PROVE SocieteDe(i)' = Remonte(lignes')[i]
BY DEF SocieteDe, Remonte, Presentes, Rangees

LEMMA FormeLigne ==
    ASSUME Domaines, NEW l, Arbre(l), NEW j \in Rangees(l)
    PROVE  /\ j \in Ids /\ l[j] \in Ligne
           /\ l[j].table \in Suivies /\ l[j].table \in DOMAIN Rattachement
           /\ Rang[l[j].table] \in 0..3
           /\ ~Direct(l[j].table) =>
                 /\ l[j].parent \in Rangees(l)
                 /\ Rang[l[l[j].parent].table] < Rang[l[j].table]
<1>1. j \in Ids /\ l[j] \in Ligne
  BY DEF Arbre, Rangees
<1>2. l[j].table \in Suivies /\ l[j].table \in DOMAIN Rattachement
  BY <1>1 DEF Ligne, Domaines
<1>3. Rang[l[j].table] \in 0..3
  BY <1>2 DEF Domaines, Etagees
<1>4. ASSUME ~Direct(l[j].table)
      PROVE  /\ l[j].parent \in Rangees(l)
             /\ Rang[l[l[j].parent].table] < Rang[l[j].table]
  <2>1. l[j].parent \in Rangees(l) /\ l[l[j].parent].table = Rattachement[l[j].table]
    BY <1>4 DEF Arbre
  <2>2. Rang[Rattachement[l[j].table]] < Rang[l[j].table]
    BY <1>2, <1>4 DEF Domaines, Etagees, Direct
  <2> QED BY <2>1, <2>2
<1> QED BY <1>1, <1>2, <1>3, <1>4

LEMMA Hauteurs ==
    ASSUME Domaines, NEW l, Arbre(l)
    PROVE  /\ Hauteur(l) \in [Rangees(l) -> Nat]
           /\ \A j \in Rangees(l) : Hauteur(l)[j] < 4
           /\ \A j \in Rangees(l) \ Racines(l) :
                 /\ Pere(l)[j] = l[j].parent
                 /\ Pere(l)[j] \in Rangees(l)
                 /\ Hauteur(l)[Pere(l)[j]] < Hauteur(l)[j]
<1>1. ASSUME NEW j \in Rangees(l) PROVE Hauteur(l)[j] = Rang[l[j].table] /\ Hauteur(l)[j] \in 0..3
  BY FormeLigne DEF Hauteur
<1>2. Hauteur(l) = [j \in Rangees(l) |-> Hauteur(l)[j]]
  BY DEF Hauteur
<1>3. ASSUME NEW j \in Rangees(l) \ Racines(l)
      PROVE  /\ Pere(l)[j] = l[j].parent
             /\ Pere(l)[j] \in Rangees(l)
             /\ Hauteur(l)[Pere(l)[j]] < Hauteur(l)[j]
  <2>1. Pere(l)[j] = l[j].parent /\ ~Direct(l[j].table)
    BY DEF Pere, Racines
  <2>2. l[j].parent \in Rangees(l) /\ Rang[l[l[j].parent].table] < Rang[l[j].table]
    BY <2>1, FormeLigne
  <2> QED BY <2>1, <2>2, <1>1
<1>4. Hauteur(l) \in [Rangees(l) -> Nat]
  BY <1>1, <1>2
<1>5. \A j \in Rangees(l) : Hauteur(l)[j] < 4
  BY <1>1
<1> QED BY <1>3, <1>4, <1>5

\* Every row has a company, its own or that of the row it hangs from.
LEMMA Remontee ==
    ASSUME Domaines, NEW l, Arbre(l)
    PROVE  /\ Remonte(l) \in [Rangees(l) -> Societes]
           /\ \A j \in Rangees(l) : Remonte(l)[j] =
                 IF Direct(l[j].table) THEN l[j].parent ELSE Remonte(l)[l[j].parent]
<1> DEFINE F(f) == [j \in Rangees(l) |-> IF Direct(l[j].table) THEN l[j].parent ELSE f[l[j].parent]]
<1>1. \A j \in Racines(l) : Pere(l)[j] \in Societes
  BY DEF Racines, Pere, Arbre
<1>2. PICK f \in [Rangees(l) -> Societes] : Suit(f, Rangees(l), Racines(l), Pere(l), Pere(l))
  <2>1. Racines(l) \in SUBSET Rangees(l) /\ 4 \in Nat
    BY DEF Racines
  <2> QED BY <1>1, <2>1, Hauteurs, Existence
<1>3. f = F(f)
  <2>1. ASSUME NEW j \in Rangees(l) PROVE f[j] = F(f)[j]
    <3>1. Pere(l)[j] = l[j].parent /\ (j \in Racines(l) <=> Direct(l[j].table))
      BY DEF Pere, Racines
    <3> QED BY <1>2, <3>1 DEF Suit
  <2> QED BY <2>1
<1>4. Remonte(l) = CHOOSE g : g = F(g)
  BY DEF Remonte
<1> HIDE DEF F
<1>5. Remonte(l) = F(Remonte(l))
  BY <1>3, <1>4
<1> USE DEF F
<1>6. \A j \in Rangees(l) : Remonte(l)[j] =
          IF Direct(l[j].table) THEN l[j].parent ELSE Remonte(l)[l[j].parent]
  BY <1>5
<1>7. \A j \in Rangees(l) : Remonte(l)[j] \in Societes
  <2> DEFINE T == {j \in Rangees(l) : Remonte(l)[j] \notin Societes}
  <2> SUFFICES ASSUME T # {} PROVE FALSE
    OBVIOUS
  <2>1. PICK i \in T : \A j \in T : Hauteur(l)[i] <= Hauteur(l)[j]
    BY Hauteurs, Descente
  <2>2. ~Direct(l[i].table)
    BY <1>6 DEF Arbre
  <2>3. l[i].parent \in Rangees(l) /\ Hauteur(l)[l[i].parent] < Hauteur(l)[i]
    BY <2>2, Hauteurs DEF Racines
  <2>4. l[i].parent \in T
    BY <1>6, <2>2, <2>3
  <2>5. Hauteur(l)[l[i].parent] \in Nat /\ Hauteur(l)[i] \in Nat
    BY <2>3, Hauteurs
  <2> QED BY <2>1, <2>3, <2>4, <2>5
<1>8. Remonte(l) = [j \in Rangees(l) |-> Remonte(l)[j]]
  BY <1>5
<1> QED BY <1>6, <1>7, <1>8

\* A row keeps its company when what it hangs from now has that company.
LEMMA Concorde ==
    ASSUME Domaines, NEW m, Arbre(m), NEW S \in SUBSET Rangees(m), NEW C,
           \A j \in S : IF Direct(m[j].table) THEN m[j].parent = C[j]
                        ELSE m[j].parent \in S /\ C[m[j].parent] = C[j]
    PROVE  \A j \in S : Remonte(m)[j] = C[j]
<1> DEFINE T == {j \in S : Remonte(m)[j] # C[j]}
<1> SUFFICES ASSUME T # {} PROVE FALSE
  OBVIOUS
<1>1. PICK i \in T : \A j \in T : Hauteur(m)[i] <= Hauteur(m)[j]
  BY Hauteurs, Descente
<1>2. ~Direct(m[i].table)
  BY Remontee
<1>3. m[i].parent \in Rangees(m) /\ Hauteur(m)[m[i].parent] < Hauteur(m)[i]
  BY <1>2, Hauteurs DEF Racines
<1>4. m[i].parent \in T
  BY <1>2, Remontee
<1>5. Hauteur(m)[m[i].parent] \in Nat /\ Hauteur(m)[i] \in Nat
  BY <1>3, Hauteurs
<1> QED BY <1>1, <1>3, <1>4, <1>5

(***************************************************************************)
(* The policies                                                            *)
(***************************************************************************)
Tient(l, s) ==
    CHOOSE f : f = [j \in Rangees(l) |->
        IF Direct(l[j].table) THEN l[j].parent = s ELSE f[l[j].parent]]

\* A policy holds on a row when the row belongs to the company it is given.
LEMMA TientJuste ==
    ASSUME Domaines, NEW l, Arbre(l), NEW s
    PROVE  \A j \in Rangees(l) : Tient(l, s)[j] = (Remonte(l)[j] = s)
<1> DEFINE F(f) == [j \in Rangees(l) |-> IF Direct(l[j].table) THEN l[j].parent = s ELSE f[l[j].parent]]
           R == [j \in Rangees(l) |-> (Remonte(l)[j] = s)]
<1>1. R = F(R)
  <2>1. ASSUME NEW j \in Rangees(l) PROVE R[j] = F(R)[j]
    <3>1. CASE Direct(l[j].table)
      BY <3>1, Remontee
    <3>2. CASE ~Direct(l[j].table)
      <4>1. l[j].parent \in Rangees(l)
        BY <3>2 DEF Arbre
      <4>2. Remonte(l)[j] = Remonte(l)[l[j].parent]
        BY <3>2, Remontee
      <4>3. R[l[j].parent] = (Remonte(l)[l[j].parent] = s)
        BY <4>1
      <4>4. F(R)[j] = R[l[j].parent]
        BY <3>2
      <4> QED BY <4>2, <4>3, <4>4
    <3> QED BY <3>1, <3>2
  <2> QED BY <2>1
<1>2. Tient(l, s) = CHOOSE g : g = F(g)
  BY DEF Tient
<1> HIDE DEF F
<1>3. Tient(l, s) = F(Tient(l, s))
  BY <1>1, <1>2
<1> USE DEF F
<1> DEFINE T == {j \in Rangees(l) : Tient(l, s)[j] # R[j]}
<1>4. \A j \in Rangees(l) : Tient(l, s)[j] =
          IF Direct(l[j].table) THEN l[j].parent = s ELSE Tient(l, s)[l[j].parent]
  BY <1>3
<1>5. \A j \in Rangees(l) : R[j] =
          IF Direct(l[j].table) THEN l[j].parent = s ELSE R[l[j].parent]
  BY <1>1
<1> HIDE DEF R, F
<1>6. T = {}
  <2> SUFFICES ASSUME T # {} PROVE FALSE
    OBVIOUS
  <2>1. PICK i \in T : \A j \in T : Hauteur(l)[i] <= Hauteur(l)[j]
    BY Hauteurs, Descente
  <2>2. ~Direct(l[i].table)
    BY <1>4, <1>5
  <2>3. l[i].parent \in Rangees(l) /\ Hauteur(l)[l[i].parent] < Hauteur(l)[i]
    BY <2>2, Hauteurs DEF Racines
  <2>4. l[i].parent \in T
    BY <1>4, <1>5, <2>2, <2>3
  <2>5. Hauteur(l)[l[i].parent] \in Nat /\ Hauteur(l)[i] \in Nat
    BY <2>3, Hauteurs
  <2> QED BY <2>1, <2>3, <2>4, <2>5
<1>7. \A j \in Rangees(l) : R[j] = (Remonte(l)[j] = s)
  BY DEF R
<1> QED BY <1>6, <1>7

LEMMA RejointJuste ==
    ASSUME Domaines, Arbre(lignes), NEW s, NEW t, NEW parent,
           ~Direct(t) => parent \in Rangees(lignes)
    PROVE  Rejoint(s, t, parent) <=>
              IF Direct(t) THEN parent = s ELSE Remonte(lignes)[parent] = s
<1>1. Rejoint(s, t, parent) = IF Direct(t) THEN parent = s ELSE Tient(lignes, s)[parent]
  BY DEF Rejoint, Tient, Presentes, Rangees
<1> QED BY <1>1, TientJuste

\* What the policies let a connection see.
LEMMA VisiblesJustes ==
    ASSUME Domaines, Arbre(lignes), NEW c
    PROVE  Visibles(c) = {i \in Rangees(lignes) : Remonte(lignes)[i] = Courante(c)}
<1>1. Presentes = Rangees(lignes)
  BY DEF Presentes, Rangees
<1>2. ASSUME NEW i \in Rangees(lignes) PROVE Visible(c, i) <=> Remonte(lignes)[i] = Courante(c)
  <2>1. ~Direct(lignes[i].table) => lignes[i].parent \in Rangees(lignes)
    BY DEF Arbre
  <2>2. Visible(c, i) <=> IF Direct(lignes[i].table) THEN lignes[i].parent = Courante(c)
                         ELSE Remonte(lignes)[lignes[i].parent] = Courante(c)
    BY <2>1, RejointJuste DEF Visible
  <2> QED BY <2>2, Remontee
<1> QED BY <1>1, <1>2 DEF Visibles

(***************************************************************************)
(* The cascades                                                            *)
(***************************************************************************)
Sous(l, i) ==
    CHOOSE f : f = [j \in Rangees(l) |->
        j = i \/ (~Direct(l[j].table) /\ f[l[j].parent])]

\* What goes with a row is closed under cascades, and is of its company.
LEMMA SousJuste ==
    ASSUME Domaines, NEW l, Arbre(l), NEW i \in Rangees(l)
    PROVE  /\ \A j \in Rangees(l) : Sous(l, i)[j] <=>
                 j = i \/ (~Direct(l[j].table) /\ Sous(l, i)[l[j].parent])
           /\ \A j \in Rangees(l) : Sous(l, i)[j] => Remonte(l)[j] = Remonte(l)[i]
<1> DEFINE F(f) == [j \in Rangees(l) |-> j = i \/ (~Direct(l[j].table) /\ f[l[j].parent])]
           B == {i} \cup Racines(l)
           b == [j \in Rangees(l) |-> (j = i)]
<1>1. PICK f \in [Rangees(l) -> BOOLEAN] : Suit(f, Rangees(l), B, b, Pere(l))
  <2>1. B \in SUBSET Rangees(l) /\ 4 \in Nat
    BY DEF Racines
  <2>2. \A j \in B : b[j] \in BOOLEAN
    BY <2>1
  <2>3. \A j \in Rangees(l) \ B : Pere(l)[j] \in Rangees(l) /\ Hauteur(l)[Pere(l)[j]] < Hauteur(l)[j]
    BY Hauteurs
  <2> HIDE DEF B, b
  <2> QED BY <2>1, <2>2, <2>3, Hauteurs, Existence
<1>2. f = F(f)
  <2>1. ASSUME NEW j \in Rangees(l) PROVE f[j] = (j = i \/ (~Direct(l[j].table) /\ f[l[j].parent]))
    <3>1. f[j] = IF j \in B THEN b[j] ELSE f[Pere(l)[j]]
      BY <1>1 DEF Suit
    <3>2. CASE j = i
      BY <3>1, <3>2
    <3>3. CASE j # i /\ Direct(l[j].table)
      BY <3>1, <3>3 DEF Racines
    <3>4. CASE j # i /\ ~Direct(l[j].table)
      <4>1. j \notin B /\ Pere(l)[j] = l[j].parent
        BY <3>4 DEF Racines, Pere
      <4>2. l[j].parent \in Rangees(l)
        BY <3>4 DEF Arbre
      <4>3. f[l[j].parent] \in BOOLEAN
        BY <4>2, <1>1
      <4>4. f[j] = f[l[j].parent]
        BY <3>1, <4>1
      <4> HIDE DEF B, b, F
      <4> QED BY <3>4, <4>3, <4>4
    <3> QED BY <3>2, <3>3, <3>4
  <2> QED BY <2>1
<1>3. Sous(l, i) = CHOOSE g : g = F(g)
  BY DEF Sous
<1> HIDE DEF F
<1>4. Sous(l, i) = F(Sous(l, i))
  BY <1>2, <1>3
<1> USE DEF F
<1>5. \A j \in Rangees(l) : Sous(l, i)[j] =
          (j = i \/ (~Direct(l[j].table) /\ Sous(l, i)[l[j].parent]))
  BY <1>4
<1>6. \A j \in Rangees(l) : Sous(l, i)[j] <=>
          j = i \/ (~Direct(l[j].table) /\ Sous(l, i)[l[j].parent])
  BY <1>5
<1> HIDE DEF F, b, B
<1>7. \A j \in Rangees(l) : Sous(l, i)[j] => Remonte(l)[j] = Remonte(l)[i]
  <2> DEFINE T == {j \in Rangees(l) : Sous(l, i)[j] /\ Remonte(l)[j] # Remonte(l)[i]}
  <2> SUFFICES ASSUME T # {} PROVE FALSE
    OBVIOUS
  <2>1. PICK k \in T : \A j \in T : Hauteur(l)[k] <= Hauteur(l)[j]
    BY Hauteurs, Descente
  <2>2. ~Direct(l[k].table) /\ Sous(l, i)[l[k].parent]
    BY <1>6
  <2>3. l[k].parent \in Rangees(l) /\ Hauteur(l)[l[k].parent] < Hauteur(l)[k]
    BY <2>2, Hauteurs DEF Racines
  <2>4. l[k].parent \in T
    BY <2>2, <2>3, Remontee
  <2>5. Hauteur(l)[l[k].parent] \in Nat /\ Hauteur(l)[k] \in Nat
    BY <2>3, Hauteurs
  <2> QED BY <2>1, <2>3, <2>4, <2>5
<1> QED BY <1>6, <1>7

LEMMA DessousSous ==
    ASSUME NEW i PROVE Dessous(i) = {j \in Rangees(lignes) : Sous(lignes, i)[j]}
BY DEF Dessous, Sous, Presentes, Rangees

(***************************************************************************)
(* Connections                                                             *)
(***************************************************************************)
PoolTenu ==
    /\ pool \in [Connexions -> [session: Societes \cup {NUL}, locale: Societes \cup {NUL},
                                 prise: Requetes \cup {NUL}]]
    /\ req \in [Requetes -> Requete]
    /\ ConnexionsTenues

LEMMA FormeRequete ==
    ASSUME NEW r \in Requete
    PROVE  /\ r.etat \in {"resolue", "ouverte"} => r.societe \in Societes
           /\ r.etat = "ouverte" => r.connexion \in Connexions
BY DEF Requete

LEMMA Gardee ==
    ASSUME req \in [Requetes -> Requete], NEW q \in Requetes, NEW r \in Requete, Garder(q, r)
    PROVE  /\ req' \in [Requetes -> Requete]
           /\ req'[q] = r
           /\ \A p \in Requetes : p # q => req'[p] = req[p]
BY DEF Garder

\* A request that holds no connection and takes none leaves them as they are.
LEMMA PoolIntact ==
    ASSUME PoolTenu, NEW q \in Requetes, NEW r \in Requete, r.etat # "ouverte",
           Garder(q, r), UNCHANGED pool
    PROVE  PoolTenu'
<1>1. /\ req' \in [Requetes -> Requete]
      /\ req'[q] = r
      /\ \A p \in Requetes : p # q => req'[p] = req[p]
  BY Gardee DEF PoolTenu
<1>2. ConnexionsTenues'
  <2>1. ASSUME NEW p \in Requetes, req'[p].etat = "ouverte"
        PROVE  /\ pool'[req'[p].connexion].prise = p
               /\ pool'[req'[p].connexion].locale = req'[p].societe
    <3>1. p # q /\ req'[p] = req[p]
      BY <2>1, <1>1
    <3> QED BY <3>1, <2>1 DEF PoolTenu, ConnexionsTenues, En
  <2>2. \A c \in Connexions : pool'[c].session = NUL /\ (pool'[c].prise = NUL => pool'[c].locale = NUL)
    BY DEF PoolTenu, ConnexionsTenues, Inoccupee
  <2> QED BY <2>1, <2>2 DEF ConnexionsTenues, Inoccupee, En
<1> QED BY <1>1, <1>2 DEF PoolTenu

LEMMA PoolOuvert ==
    ASSUME Domaines, PoolTenu, NEW q \in Requetes, NEW c \in Connexions, Ouvrir(q, c)
    PROVE  PoolTenu'
<1> DEFINE s == req[q].societe
           r == [etat |-> "ouverte", societe |-> s, connexion |-> c]
<1>1. s \in Societes /\ req[q].etat = "resolue"
  <2>1. req[q] \in Requete
    BY DEF PoolTenu
  <2> QED BY <2>1, FormeRequete DEF Ouvrir, En
<1>2. r \in Requete
  BY <1>1 DEF Requete
<1>3. Garder(q, r)
  BY DEF Ouvrir
<1> HIDE DEF r
<1>4. /\ req' \in [Requetes -> Requete]
      /\ req'[q] = r
      /\ \A p \in Requetes : p # q => req'[p] = req[p]
  BY <1>2, <1>3, Gardee DEF PoolTenu
<1>5. /\ pool[c].prise = NUL
      /\ pool' = [pool EXCEPT ![c] = [[pool[c] EXCEPT !.locale = s] EXCEPT !.prise = q]]
  BY DEF Ouvrir, Poser, Inoccupee
<1> HIDE DEF s
<1>6. /\ pool' \in [Connexions -> [session: Societes \cup {NUL}, locale: Societes \cup {NUL},
                                 prise: Requetes \cup {NUL}]]
      /\ pool'[c].session = pool[c].session /\ pool'[c].locale = s /\ pool'[c].prise = q
      /\ \A d \in Connexions : d # c => pool'[d] = pool[d]
  <2>1. pool[c] \in [session: Societes \cup {NUL}, locale: Societes \cup {NUL},
                     prise: Requetes \cup {NUL}]
    BY DEF PoolTenu
  <2> QED BY <1>1, <1>5, <2>1 DEF PoolTenu
<1>7. q # NUL
  BY DEF Domaines
<1>8. ASSUME NEW p \in Requetes, req'[p].etat = "ouverte"
      PROVE  /\ pool'[req'[p].connexion].prise = p
             /\ pool'[req'[p].connexion].locale = req'[p].societe
  <2>1. CASE p = q
    BY <2>1, <1>4, <1>6 DEF r
  <2>2. CASE p # q
    <3>1. req'[p] = req[p] /\ req[p] \in Requete /\ req[p].etat = "ouverte"
      BY <2>2, <1>4, <1>8 DEF PoolTenu
    <3>2. req[p].connexion \in Connexions /\ pool[req[p].connexion].prise = p
          /\ pool[req[p].connexion].locale = req[p].societe
      BY <3>1, FormeRequete DEF PoolTenu, ConnexionsTenues, En
    <3>3. req[p].connexion # c
      BY <3>2, <1>5 DEF Domaines
    <3> QED BY <3>1, <3>2, <3>3, <1>6
  <2> QED BY <2>1, <2>2
<1>9. \A d \in Connexions : pool'[d].session = NUL /\ (pool'[d].prise = NUL => pool'[d].locale = NUL)
  BY <1>6, <1>7 DEF PoolTenu, ConnexionsTenues, Inoccupee
<1> QED BY <1>4, <1>6, <1>8, <1>9 DEF PoolTenu, ConnexionsTenues, Inoccupee, En

LEMMA PoolRendu ==
    ASSUME Domaines, PoolTenu, NEW q \in Requetes, En(q, "ouverte"), Rendre(q)
    PROVE  PoolTenu'
<1> DEFINE c == req[q].connexion
<1>1. c \in Connexions /\ pool[c].prise = q
  <2>1. req[q] \in Requete
    BY DEF PoolTenu
  <2> QED BY <2>1, FormeRequete DEF PoolTenu, ConnexionsTenues, En
<1>2. Libre \in Requete /\ Garder(q, Libre)
  BY DEF Libre, Requete, Rendre
<1>3. /\ req' \in [Requetes -> Requete]
      /\ req'[q] = Libre
      /\ \A p \in Requetes : p # q => req'[p] = req[p]
  BY <1>2, Gardee DEF PoolTenu
<1>4. pool' = [pool EXCEPT ![c].locale = NUL, ![c].prise = NUL]
  BY DEF Rendre
<1> HIDE DEF c
<1>5. /\ pool' \in [Connexions -> [session: Societes \cup {NUL}, locale: Societes \cup {NUL},
                                 prise: Requetes \cup {NUL}]]
      /\ pool'[c].session = pool[c].session /\ pool'[c].locale = NUL /\ pool'[c].prise = NUL
      /\ \A d \in Connexions : d # c => pool'[d] = pool[d]
  <2>1. pool[c] \in [session: Societes \cup {NUL}, locale: Societes \cup {NUL},
                     prise: Requetes \cup {NUL}]
    BY <1>1 DEF PoolTenu
  <2> QED BY <1>1, <1>4, <2>1 DEF PoolTenu
<1>6. ASSUME NEW p \in Requetes, req'[p].etat = "ouverte"
      PROVE  /\ pool'[req'[p].connexion].prise = p
             /\ pool'[req'[p].connexion].locale = req'[p].societe
  <2>1. p # q
    BY <1>3, <1>6 DEF Libre
  <2>2. req'[p] = req[p] /\ req[p] \in Requete /\ req[p].etat = "ouverte"
    BY <2>1, <1>3, <1>6 DEF PoolTenu
  <2>3. req[p].connexion \in Connexions /\ pool[req[p].connexion].prise = p
        /\ pool[req[p].connexion].locale = req[p].societe
    BY <2>2, FormeRequete DEF PoolTenu, ConnexionsTenues, En
  <2>4. req[p].connexion # c
    BY <2>1, <2>3, <1>1
  <2> QED BY <2>2, <2>3, <2>4, <1>5
<1>7. \A d \in Connexions : pool'[d].session = NUL /\ (pool'[d].prise = NUL => pool'[d].locale = NUL)
  BY <1>5 DEF PoolTenu, ConnexionsTenues, Inoccupee
<1> QED BY <1>3, <1>5, <1>6, <1>7 DEF PoolTenu, ConnexionsTenues, Inoccupee, En

\* The setting of a transaction is the company of its request.
LEMMA ReglageJuste ==
    ASSUME Domaines, PoolTenu
    PROVE  /\ \A q \in Requetes : En(q, "ouverte") =>
                 Courante(req[q].connexion) = req[q].societe /\ req[q].societe \in Societes
           /\ \A c \in Inoccupee : Courante(c) = NUL
<1>1. ASSUME NEW q \in Requetes, En(q, "ouverte")
      PROVE  Courante(req[q].connexion) = req[q].societe /\ req[q].societe \in Societes
  <2>1. req[q] \in Requete
    BY DEF PoolTenu
  <2>2. req[q].societe \in Societes /\ pool[req[q].connexion].locale = req[q].societe
    BY <1>1, <2>1, FormeRequete DEF En, PoolTenu, ConnexionsTenues
  <2> QED BY <2>2 DEF Courante, Domaines
<1>2. \A c \in Inoccupee : Courante(c) = NUL
  BY DEF PoolTenu, ConnexionsTenues, Courante, Inoccupee
<1> QED BY <1>1, <1>2

(***************************************************************************)
(* Rows                                                                    *)
(***************************************************************************)
LignesTenues == Arbre(lignes) /\ ecrites \in 0..MaxLignes /\ NumerosPris

\* A step between l and m that a transaction of company s may take.
Passage(l, m, s) ==
    /\ \A i \in Rangees(l) : m[i] # NUL => Remonte(m)[i] = Remonte(l)[i]
    /\ \A i \in Rangees(l) : m[i] = NUL => Remonte(l)[i] = s
    /\ \A i \in Ids \ Rangees(l) : m[i] # NUL => Remonte(m)[i] = s

LEMMA ParentsJustes ==
    ASSUME NEW t, NEW parent \in Parents(t)
    PROVE  IF Direct(t) THEN parent \in Societes
           ELSE parent \in Rangees(lignes) /\ lignes[parent].table = Rattachement[t]
BY DEF Parents, Presentes, Rangees

LEMMA AdmiseJuste ==
    ASSUME Domaines, Arbre(lignes), NEW c, NEW t, NEW parent \in Parents(t), Admise(c, t, parent)
    PROVE  IF Direct(t) THEN parent = Courante(c) ELSE Remonte(lignes)[parent] = Courante(c)
<1>1. ~Direct(t) => parent \in Rangees(lignes)
  BY ParentsJustes
<1> QED BY <1>1, RejointJuste DEF Admise

LEMMA PasInserer ==
    ASSUME Domaines, LignesTenues, PoolTenu, NEW q \in Requetes, NEW t \in Suivies,
           NEW parent \in Societes \cup Ids, Inserer(q, t, parent)
    PROVE  LignesTenues' /\ Passage(lignes, lignes', req[q].societe)
<1> DEFINE l == lignes
           i == ecrites + 1
           r == [table |-> t, parent |-> parent]
           m == [l EXCEPT ![i] = r]
           s == req[q].societe
<1>1. i \in Ids /\ l[i] = NUL /\ ecrites' = i
  <2>1. ecrites \in Nat /\ ecrites < MaxLignes /\ MaxLignes \in Nat
    BY DEF LignesTenues, Inserer, Domaines
  <2>2. i \in Ids
    BY <2>1 DEF Ids
  <2>3. i \notin Presentes
    BY <2>1 DEF LignesTenues, NumerosPris
  <2> QED BY <2>2, <2>3 DEF Presentes, Inserer
<1>2. lignes' = m /\ parent \in Parents(t)
  BY DEF Inserer
<1>3. r \in Ligne /\ r # NUL /\ r.table = t /\ r.parent = parent
  BY DEF Ligne, Domaines
<1>4. l \in [Ids -> Ligne \cup {NUL}]
  BY DEF LignesTenues, Arbre
<1> HIDE DEF r, i
<1>5. /\ m \in [Ids -> Ligne \cup {NUL}] /\ m[i] = r
      /\ \A j \in Ids : j # i => m[j] = l[j]
  BY <1>1, <1>3, <1>4
<1> HIDE DEF m
<1>6. Rangees(m) = Rangees(l) \cup {i} /\ i \notin Rangees(l)
  BY <1>1, <1>3, <1>5 DEF Rangees
<1>7. \A j \in Rangees(l) : m[j] = l[j]
  BY <1>5, <1>6 DEF Rangees
<1>8. Arbre(m)
  <2> SUFFICES ASSUME NEW j \in Rangees(m)
               PROVE  IF Direct(m[j].table) THEN m[j].parent \in Societes
                      ELSE /\ m[j].parent \in Rangees(m)
                           /\ m[m[j].parent].table = Rattachement[m[j].table]
    BY <1>5 DEF Arbre
  <2>1. CASE j = i
    BY <2>1, <1>2, <1>3, <1>5, <1>6, <1>7, ParentsJustes
  <2>2. CASE j # i
    <3>1. j \in Rangees(l) /\ m[j] = l[j]
      BY <2>2, <1>6, <1>7
    <3>2. IF Direct(l[j].table) THEN l[j].parent \in Societes
          ELSE l[j].parent \in Rangees(l) /\ l[l[j].parent].table = Rattachement[l[j].table]
      BY <3>1 DEF LignesTenues, Arbre
    <3> QED BY <3>1, <3>2, <1>6, <1>7
  <2> QED BY <2>1, <2>2
<1>9. Arbre(l)
  BY DEF LignesTenues
<1>10. \A j \in Rangees(l) : Remonte(m)[j] = Remonte(l)[j]
  <2>1. ASSUME NEW j \in Rangees(l)
        PROVE  IF Direct(m[j].table) THEN m[j].parent = Remonte(l)[j]
               ELSE m[j].parent \in Rangees(l) /\ Remonte(l)[m[j].parent] = Remonte(l)[j]
    <3>1. m[j] = l[j]
      BY <1>7
    <3>2. ~Direct(l[j].table) => l[j].parent \in Rangees(l)
      BY <1>9 DEF Arbre
    <3> QED BY <3>1, <3>2, <1>9, Remontee
  <2>2. Rangees(l) \in SUBSET Rangees(m)
    BY <1>6
  <2> QED BY <2>1, <2>2, <1>8, Concorde
<1>11. Remonte(m)[i] = s
  <2>1. Courante(req[q].connexion) = s
    BY ReglageJuste DEF Inserer
  <2>2. IF Direct(t) THEN parent = s ELSE Remonte(l)[parent] = s
    BY <2>1, <1>2, <1>9, AdmiseJuste DEF Inserer
  <2>3. Remonte(m)[i] = IF Direct(t) THEN parent ELSE Remonte(m)[parent]
    BY <1>3, <1>5, <1>6, <1>8, Remontee
  <2>4. ~Direct(t) => parent \in Rangees(l)
    BY <1>2, ParentsJustes
  <2> QED BY <2>2, <2>3, <2>4, <1>10
<1>12. Passage(l, m, s)
  BY <1>5, <1>7, <1>10, <1>11 DEF Passage, Rangees
<1>13. ecrites' \in 0..MaxLignes
  BY <1>1 DEF Ids
<1>14. NumerosPris'
  <2> SUFFICES ASSUME NEW j \in Rangees(m) PROVE j <= ecrites'
    BY <1>2 DEF NumerosPris, Presentes, Rangees
  <2>1. CASE j = i
    BY <2>1, <1>1 DEF Ids
  <2>2. CASE j # i
    <3>1. j \in Presentes /\ j \in Ids
      BY <2>2, <1>6 DEF Presentes, Rangees
    <3>2. j <= ecrites
      BY <3>1 DEF LignesTenues, NumerosPris
    <3>3. j \in Int /\ ecrites \in Int
      BY <3>1 DEF Ids, LignesTenues
    <3> QED BY <3>2, <3>3, <1>1 DEF i
  <2> QED BY <2>1, <2>2
<1> QED BY <1>2, <1>8, <1>12, <1>13, <1>14 DEF LignesTenues

LEMMA PasDeplacer ==
    ASSUME Domaines, LignesTenues, PoolTenu, NEW q \in Requetes, NEW i \in Ids,
           NEW parent \in Societes \cup Ids, Deplacer(q, i, parent)
    PROVE  LignesTenues' /\ Passage(lignes, lignes', req[q].societe)
<1> DEFINE l == lignes
           t == l[i].table
           m == [l EXCEPT ![i].parent = parent]
           s == req[q].societe
<1>1. Arbre(l) /\ l \in [Ids -> Ligne \cup {NUL}]
  BY DEF LignesTenues, Arbre
<1>2. Courante(req[q].connexion) = s
  BY ReglageJuste DEF Deplacer
<1>3. i \in Rangees(l) /\ Remonte(l)[i] = s
  BY <1>1, <1>2, VisiblesJustes DEF Deplacer
<1>4. lignes' = m /\ parent \in Parents(t)
  BY DEF Deplacer
<1>5. IF Direct(t) THEN parent = s ELSE Remonte(l)[parent] = s
  BY <1>1, <1>2, <1>4, AdmiseJuste DEF Deplacer
<1>6. l[i] \in Ligne /\ t \in Suivies
  BY <1>1, <1>3, FormeLigne
<1> HIDE DEF t
<1>7. /\ m \in [Ids -> Ligne \cup {NUL}]
      /\ m[i] \in Ligne /\ m[i].table = t /\ m[i].parent = parent
      /\ \A j \in Ids : j # i => m[j] = l[j]
  <2> DEFINE r == [l[i] EXCEPT !.parent = parent]
  <2>1. r \in Ligne /\ r.table = t /\ r.parent = parent
    BY <1>6 DEF Ligne, t
  <2>2. m = [l EXCEPT ![i] = r]
    OBVIOUS
  <2> HIDE DEF r, m
  <2> QED BY <2>1, <2>2, <1>1
<1> HIDE DEF m
<1>8. Rangees(m) = Rangees(l) /\ \A j \in Rangees(l) : m[j].table = l[j].table
  <2>1. NUL \notin Ligne
    BY DEF Domaines
  <2> QED BY <1>3, <1>7, <2>1 DEF Rangees, t
<1>9. Arbre(m)
  <2> SUFFICES ASSUME NEW j \in Rangees(m)
               PROVE  IF Direct(m[j].table) THEN m[j].parent \in Societes
                      ELSE /\ m[j].parent \in Rangees(m)
                           /\ m[m[j].parent].table = Rattachement[m[j].table]
    BY <1>7 DEF Arbre
  <2>1. CASE j = i
    BY <2>1, <1>4, <1>7, <1>8, ParentsJustes
  <2>2. CASE j # i
    <3>1. j \in Rangees(l) /\ m[j] = l[j]
      BY <2>2, <1>7, <1>8 DEF Rangees
    <3>2. IF Direct(l[j].table) THEN l[j].parent \in Societes
          ELSE l[j].parent \in Rangees(l) /\ l[l[j].parent].table = Rattachement[l[j].table]
      BY <3>1, <1>1 DEF Arbre
    <3> QED BY <3>1, <3>2, <1>8
  <2> QED BY <2>1, <2>2
<1>10. \A j \in Rangees(m) : Remonte(m)[j] = Remonte(l)[j]
  <2>1. ASSUME NEW j \in Rangees(m)
        PROVE  IF Direct(m[j].table) THEN m[j].parent = Remonte(l)[j]
               ELSE m[j].parent \in Rangees(m) /\ Remonte(l)[m[j].parent] = Remonte(l)[j]
    <3>1. ~Direct(m[j].table) => m[j].parent \in Rangees(m)
      BY <1>9 DEF Arbre
    <3>2. CASE j = i
      BY <3>1, <3>2, <1>3, <1>5, <1>7
    <3>3. CASE j # i
      <4>1. m[j] = l[j] /\ j \in Rangees(l)
        BY <3>3, <1>7, <1>8 DEF Rangees
      <4> QED BY <3>1, <4>1, <1>1, Remontee
    <3> QED BY <3>2, <3>3
  <2> QED BY <2>1, <1>9, Concorde
<1>11. Passage(l, m, s)
  <2>1. \A j \in Ids : m[j] # NUL <=> l[j] # NUL
    BY <1>8 DEF Rangees
  <2> QED BY <2>1, <1>8, <1>10 DEF Passage, Rangees
<1>12. ecrites' = ecrites /\ NumerosPris'
  <2>1. Presentes' = Presentes
    BY <1>4, <1>8 DEF Presentes, Rangees
  <2> QED BY <2>1 DEF NumerosPris, LignesTenues, Deplacer
<1> QED BY <1>4, <1>9, <1>11, <1>12 DEF LignesTenues

LEMMA PasEffacer ==
    ASSUME Domaines, LignesTenues, PoolTenu, NEW q \in Requetes, NEW i \in Ids, Effacer(q, i)
    PROVE  LignesTenues' /\ Passage(lignes, lignes', req[q].societe)
<1> DEFINE l == lignes
           m == [j \in Ids |-> IF l[j] # NUL /\ j \in Dessous(i) THEN NUL ELSE l[j]]
           s == req[q].societe
<1>1. Arbre(l) /\ l \in [Ids -> Ligne \cup {NUL}]
  BY DEF LignesTenues, Arbre
<1>2. Courante(req[q].connexion) = s
  BY ReglageJuste DEF Effacer
<1>3. i \in Rangees(l) /\ Remonte(l)[i] = s
  BY <1>1, <1>2, VisiblesJustes DEF Effacer
<1>4. lignes' = m
  BY DEF Effacer
<1>5. \A j \in Ids : j \in Dessous(i) <=> j \in Rangees(l) /\ Sous(l, i)[j]
  BY DessousSous DEF Rangees
<1>6. /\ m \in [Ids -> Ligne \cup {NUL}]
      /\ \A j \in Ids : m[j] = IF l[j] # NUL /\ Sous(l, i)[j] THEN NUL ELSE l[j]
  BY <1>1, <1>5 DEF Rangees
<1> HIDE DEF m
<1>7. \A j \in Rangees(m) : j \in Rangees(l) /\ m[j] = l[j] /\ ~Sous(l, i)[j]
  BY <1>6 DEF Rangees
<1>8. \A j \in Rangees(l) : ~Sous(l, i)[j] => j \in Rangees(m)
  BY <1>6 DEF Rangees
<1>9. \A j \in Rangees(m) : ~Direct(l[j].table) =>
          /\ l[j].parent \in Rangees(m)
          /\ l[l[j].parent].table = Rattachement[l[j].table]
  <2> SUFFICES ASSUME NEW j \in Rangees(m), ~Direct(l[j].table)
               PROVE  /\ l[j].parent \in Rangees(m)
                      /\ l[l[j].parent].table = Rattachement[l[j].table]
    OBVIOUS
  <2>1. l[j].parent \in Rangees(l) /\ l[l[j].parent].table = Rattachement[l[j].table]
    BY <1>1, <1>7 DEF Arbre
  <2>2. ~Sous(l, i)[l[j].parent]
    BY <1>1, <1>3, <1>7, SousJuste
  <2> QED BY <2>1, <2>2, <1>8
<1>10. Arbre(m)
  <2> SUFFICES ASSUME NEW j \in Rangees(m)
               PROVE  IF Direct(m[j].table) THEN m[j].parent \in Societes
                      ELSE /\ m[j].parent \in Rangees(m)
                           /\ m[m[j].parent].table = Rattachement[m[j].table]
    BY <1>6 DEF Arbre
  <2>1. j \in Rangees(l) /\ m[j] = l[j]
    BY <1>7
  <2>2. CASE Direct(l[j].table)
    BY <2>1, <2>2, <1>1 DEF Arbre
  <2>3. CASE ~Direct(l[j].table)
    BY <2>1, <2>3, <1>7, <1>9
  <2> QED BY <2>2, <2>3
<1>11. \A j \in Rangees(m) : Remonte(m)[j] = Remonte(l)[j]
  <2>1. ASSUME NEW j \in Rangees(m)
        PROVE  IF Direct(m[j].table) THEN m[j].parent = Remonte(l)[j]
               ELSE m[j].parent \in Rangees(m) /\ Remonte(l)[m[j].parent] = Remonte(l)[j]
    <3>1. j \in Rangees(l) /\ m[j] = l[j]
      BY <1>7
    <3>2. Remonte(l)[j] = IF Direct(l[j].table) THEN l[j].parent ELSE Remonte(l)[l[j].parent]
      BY <3>1, <1>1, Remontee
    <3> QED BY <3>1, <3>2, <1>9
  <2> DEFINE S == Rangees(m)
             C == Remonte(l)
  <2>2. /\ S \in SUBSET Rangees(m)
        /\ \A j \in S : IF Direct(m[j].table) THEN m[j].parent = C[j]
                        ELSE m[j].parent \in S /\ C[m[j].parent] = C[j]
    BY <2>1
  <2> HIDE DEF S, C
  <2>3. \A j \in S : Remonte(m)[j] = C[j]
    BY <2>2, <1>10, Concorde
  <2> QED BY <2>3 DEF S, C
<1>12. \A j \in Rangees(l) : m[j] = NUL => Remonte(l)[j] = s
  <2> SUFFICES ASSUME NEW j \in Rangees(l), m[j] = NUL PROVE Remonte(l)[j] = s
    OBVIOUS
  <2>1. Sous(l, i)[j]
    BY <1>6 DEF Rangees
  <2> QED BY <2>1, <1>1, <1>3, SousJuste
<1>13. Passage(l, m, s)
  <2>1. \A j \in Ids \ Rangees(l) : m[j] = NUL
    BY <1>6 DEF Rangees
  <2>2. \A j \in Rangees(l) : m[j] # NUL => j \in Rangees(m)
    BY DEF Rangees
  <2> QED BY <2>1, <2>2, <1>11, <1>12 DEF Passage
<1>14. ecrites' = ecrites /\ NumerosPris'
  <2>1. \A j \in Presentes' : j \in Presentes
    BY <1>4, <1>7 DEF Presentes, Rangees
  <2> QED BY <2>1 DEF NumerosPris, LignesTenues, Effacer
<1> QED BY <1>4, <1>10, <1>13, <1>14 DEF LignesTenues

(***************************************************************************)
(* Every step                                                              *)
(***************************************************************************)
LEMMA Parties == IInv <=> LignesTenues /\ PoolTenu
BY DEF IInv, TypeOK, LignesTenues, PoolTenu, Arbre, Rattachees, Presentes, Rangees

\* The rows stay: nothing passes.
LEMMA Immobile ==
    ASSUME LignesTenues, UNCHANGED <<lignes, ecrites>>
    PROVE  LignesTenues' /\ \A s : Passage(lignes, lignes', s)
<1>1. lignes' = lignes /\ ecrites' = ecrites
  OBVIOUS
<1>2. LignesTenues'
  BY <1>1 DEF LignesTenues, NumerosPris, Presentes
<1>3. \A s : Passage(lignes, lignes', s)
  BY <1>1 DEF Passage, Rangees
<1> QED BY <1>2, <1>3

LEMMA PasseAvecQ ==
    ASSUME NEW q \in Requetes, En(q, "ouverte"), Passage(lignes, lignes', req[q].societe)
    PROVE  Etanche
<1>1. Presentes = Rangees(lignes)
  BY DEF Presentes, Rangees
<1>2. \A i : SocieteDe(i) = Remonte(lignes)[i] /\ SocieteDe(i)' = Remonte(lignes')[i]
  BY SocieteRemontee, SocieteRemonteeEnsuite
<1> QED BY <1>1, <1>2 DEF Etanche, Passage

LEMMA RienNeBouge ==
    ASSUME LignesTenues, UNCHANGED lignes
    PROVE  Etanche
<1>1. \A i : SocieteDe(i) = Remonte(lignes)[i] /\ SocieteDe(i)' = Remonte(lignes')[i]
  BY SocieteRemontee, SocieteRemonteeEnsuite
<1>2. \A i \in Presentes : lignes'[i] # NUL
  BY DEF Presentes
<1>3. \A i \in Ids \ Presentes : lignes'[i] = NUL
  BY DEF Presentes
<1> QED BY <1>1, <1>2, <1>3 DEF Etanche

LEMMA Pas ==
    ASSUME Domaines, LignesTenues, PoolTenu, Next
    PROVE  LignesTenues' /\ PoolTenu' /\ Etanche
<1> SUFFICES ASSUME NEW q \in Requetes,
                    \/ \E i \in Ids : Resoudre(q, i)
                    \/ \E s \in Societes : Entrer(q, s)
                    \/ \E c \in Connexions : Ouvrir(q, c)
                    \/ Fermer(q)
                    \/ \E t \in Suivies, parent \in Societes \cup Ids : Inserer(q, t, parent)
                    \/ \E i \in Ids, parent \in Societes \cup Ids : Deplacer(q, i, parent)
                    \/ \E i \in Ids : Effacer(q, i)
             PROVE  LignesTenues' /\ PoolTenu' /\ Etanche
  BY DEF Next
<1>1. ASSUME NEW i \in Ids, Resoudre(q, i) PROVE LignesTenues' /\ PoolTenu' /\ Etanche
  <2> DEFINE r == [etat |-> "resolue", societe |-> SocieteDe(i)]
  <2>1. SocieteDe(i) \in Societes
    <3>1. i \in Rangees(lignes)
      BY <1>1 DEF Resoudre, Presentes, Rangees
    <3> QED BY <3>1, Remontee, SocieteRemontee DEF LignesTenues
  <2>2. r \in Requete /\ r.etat # "ouverte"
    BY <2>1 DEF Requete
  <2>3. Garder(q, r) /\ UNCHANGED <<lignes, ecrites, pool>>
    BY <1>1 DEF Resoudre
  <2> HIDE DEF r
  <2> QED BY <2>2, <2>3, PoolIntact, Immobile, RienNeBouge
<1>2. ASSUME NEW s \in Societes, Entrer(q, s) PROVE LignesTenues' /\ PoolTenu' /\ Etanche
  <2> DEFINE r == [etat |-> "resolue", societe |-> s]
  <2>1. r \in Requete /\ r.etat # "ouverte"
    BY DEF Requete
  <2>2. Garder(q, r) /\ UNCHANGED <<lignes, ecrites, pool>>
    BY <1>2 DEF Entrer
  <2> HIDE DEF r
  <2> QED BY <2>1, <2>2, PoolIntact, Immobile, RienNeBouge
<1>3. ASSUME NEW c \in Connexions, Ouvrir(q, c) PROVE LignesTenues' /\ PoolTenu' /\ Etanche
  <2>1. UNCHANGED <<lignes, ecrites>>
    BY <1>3 DEF Ouvrir
  <2> QED BY <1>3, <2>1, PoolOuvert, Immobile, RienNeBouge
<1>4. ASSUME Fermer(q) PROVE LignesTenues' /\ PoolTenu' /\ Etanche
  <2>1. UNCHANGED <<lignes, ecrites>> /\ En(q, "ouverte") /\ Rendre(q)
    BY <1>4 DEF Fermer
  <2> QED BY <2>1, PoolRendu, Immobile, RienNeBouge
<1>5. ASSUME NEW t \in Suivies, NEW parent \in Societes \cup Ids, Inserer(q, t, parent)
      PROVE  LignesTenues' /\ PoolTenu' /\ Etanche
  <2>1. En(q, "ouverte") /\ Rendre(q)
    BY <1>5 DEF Inserer
  <2>2. LignesTenues' /\ Passage(lignes, lignes', req[q].societe)
    BY <1>5, PasInserer
  <2> QED BY <2>1, <2>2, PoolRendu, PasseAvecQ
<1>6. ASSUME NEW i \in Ids, NEW parent \in Societes \cup Ids, Deplacer(q, i, parent)
      PROVE  LignesTenues' /\ PoolTenu' /\ Etanche
  <2>1. En(q, "ouverte") /\ Rendre(q)
    BY <1>6 DEF Deplacer
  <2>2. LignesTenues' /\ Passage(lignes, lignes', req[q].societe)
    BY <1>6, PasDeplacer
  <2> QED BY <2>1, <2>2, PoolRendu, PasseAvecQ
<1>7. ASSUME NEW i \in Ids, Effacer(q, i) PROVE LignesTenues' /\ PoolTenu' /\ Etanche
  <2>1. En(q, "ouverte") /\ Rendre(q)
    BY <1>7 DEF Effacer
  <2>2. LignesTenues' /\ Passage(lignes, lignes', req[q].societe)
    BY <1>7, PasEffacer
  <2> QED BY <2>1, <2>2, PoolRendu, PasseAvecQ
<1> QED BY <1>1, <1>2, <1>3, <1>4, <1>5, <1>6, <1>7

LEMMA Depart == ASSUME Domaines, Init PROVE LignesTenues /\ PoolTenu
<1>1. Rangees(lignes) = {} /\ Presentes = {}
  BY DEF Init, Rangees, Presentes
<1>2. Arbre(lignes)
  BY <1>1 DEF Arbre, Init
<1>3. ecrites \in 0..MaxLignes /\ NumerosPris
  BY <1>1 DEF Init, Domaines, NumerosPris
<1>4. Libre \in Requete /\ Libre.etat # "ouverte"
  BY DEF Libre, Requete
<1>5. PoolTenu
  BY <1>4 DEF Init, PoolTenu, ConnexionsTenues, Inoccupee, En
<1> QED BY <1>2, <1>3, <1>5 DEF LignesTenues

(***************************************************************************)
(* Theorems                                                                *)
(***************************************************************************)
\* The inductive invariant: rows hang from rows of the table above, and a
\* connection carries the company of the one transaction that holds it.
THEOREM Invariance == ASSUME Domaines PROVE Spec => []IInv
<1>1. Init => IInv
  BY Depart, Parties
<1>2. IInv /\ [Next]_vars => IInv'
  <2> SUFFICES ASSUME IInv, [Next]_vars PROVE IInv'
    OBVIOUS
  <2>1. LignesTenues /\ PoolTenu
    BY Parties
  <2>2. CASE Next
    <3>1. LignesTenues' /\ PoolTenu'
      BY <2>1, <2>2, Pas
    <3> QED BY <3>1, Parties, PTL
  <2>3. CASE UNCHANGED vars
    BY <2>3 DEF vars, IInv, TypeOK, Rattachees, NumerosPris, ConnexionsTenues, Presentes,
                Inoccupee, En
  <2> QED BY <2>2, <2>3
<1> QED BY <1>1, <1>2, PTL DEF Spec

LEMMA Vues == ASSUME Domaines, IInv PROVE VoitLesSiennes /\ RefusParDefaut
<1>1. LignesTenues /\ PoolTenu
  BY Parties
<1>2. Arbre(lignes)
  BY <1>1 DEF LignesTenues
<1>3. Presentes = Rangees(lignes)
  BY DEF Presentes, Rangees
<1>4. ASSUME NEW q \in Requetes, En(q, "ouverte")
      PROVE  Visibles(req[q].connexion) = {i \in Presentes : SocieteDe(i) = req[q].societe}
  <2>1. Courante(req[q].connexion) = req[q].societe
    BY <1>1, <1>4, ReglageJuste
  <2>2. \A i : SocieteDe(i) = Remonte(lignes)[i]
    BY SocieteRemontee
  <2>3. Visibles(req[q].connexion) =
           {i \in Rangees(lignes) : Remonte(lignes)[i] = Courante(req[q].connexion)}
    BY <1>2, VisiblesJustes
  <2> QED BY <2>1, <2>2, <2>3, <1>3
<1>5. ASSUME NEW c \in Inoccupee PROVE Visibles(c) = {}
  <2>1. Courante(c) = NUL
    BY <1>1, ReglageJuste
  <2>2. Visibles(c) = {i \in Rangees(lignes) : Remonte(lignes)[i] = Courante(c)}
    BY <1>2, VisiblesJustes
  <2>3. \A i \in Rangees(lignes) : Remonte(lignes)[i] # NUL
    <3>1. NUL \notin Societes
      BY DEF Domaines
    <3> QED BY <3>1, <1>2, Remontee
  <2> QED BY <2>1, <2>2, <2>3
<1> QED BY <1>4, <1>5 DEF VoitLesSiennes, RefusParDefaut

\* runInTenant and the policies: whatever connections requests of every
\* company take turns to use, an open transaction sees the rows of its
\* company, all of them and no other.
THEOREM VueJuste == ASSUME Domaines PROVE Spec => []VoitLesSiennes
<1>1. IInv => VoitLesSiennes
  BY Vues
<1> QED BY <1>1, Invariance, PTL

\* "Refus par defaut": a connection that has served and is held by nobody
\* shows no row.
THEOREM SansSocieteRien == ASSUME Domaines PROVE Spec => []RefusParDefaut
<1>1. IInv => RefusParDefaut
  BY Vues
<1> QED BY <1>1, Invariance, PTL

\* WITH CHECK, USING and the cascades: no step gives a row to another
\* company, and rows only come and go by a transaction of their company.
THEOREM AucunPassage == ASSUME Domaines PROVE Spec => RienNePasse
<1>1. IInv /\ [Next]_vars => [Etanche]_vars
  <2> SUFFICES ASSUME IInv, Next PROVE Etanche
    OBVIOUS
  <2>1. LignesTenues /\ PoolTenu
    BY Parties
  <2> QED BY <2>1, Pas
<1> QED BY <1>1, Invariance, PTL DEF Spec, RienNePasse
=============================================================================
