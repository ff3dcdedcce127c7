------------------------------- MODULE Budget -------------------------------
(***************************************************************************)
(* The budget of one operation: versions of it, one of which is current,   *)
(* lines on the posts of a CFC tree, and the consolidated view that adds   *)
(* them up from the leaves to the root.                                    *)
(*                                                                         *)
(* Nothing in the schema makes the current version unique.  A request      *)
(* reads, keeps what it has read, and writes later; the view reads the     *)
(* posts, then the lines, in two statements.                               *)
(***************************************************************************)
EXTENDS Integers, FiniteSetsExt, SequencesExt

CONSTANTS
    Postes,          \* CFC posts, by code
    Trame,           \* the tree to start from: post -> its parent, or NUL
    Montants,        \* amounts of a line
    MaxVersions,     \* bound: versions written
    MaxLignes,       \* bound: lines written
    Requetes,        \* request slots
    NUL, OMIS        \* SQL NULL, and a field left out of a body

VARIABLES
    postes,          \* post -> its row, or NUL
    versions,        \* versions, by identifier, NUL once removed
    lignes,          \* lines, by identifier, NUL once removed
    req              \* what each request in flight has read

vars == <<postes, versions, lignes, req>>

(***************************************************************************)
(* Rows                                                                    *)
(***************************************************************************)
Statut == {"BROUILLON", "VALIDE", "ARCHIVE"}
Poste == [parent: Postes \cup {NUL}, niveau: Nat \ {0}]
Version == [statut: Statut, courant: BOOLEAN]
Ligne == [version: 1..MaxVersions, poste: Postes, montant: Montants]

\* What the constants stand for.
Domaines ==
    /\ DOMAIN Trame \subseteq Postes
    /\ Montants \subseteq Nat \ {0}
    /\ MaxVersions \in Nat /\ MaxLignes \in Nat
    /\ NUL \notin Postes \cup Nat \cup Version /\ OMIS \notin BOOLEAN

\* What a screen sends for a post: an amount, or nothing to clear it.
Saisie == [p: Postes, montant: Montants \cup {0}]

Requete ==
         [etat: {"libre"}]
    \cup [etat: {"poste"}, p: Postes, parent: Postes \cup {NUL}, niveau: Nat]
    \cup [etat: {"trame"}]
    \cup [etat: {"poste retire"}, p: Postes]
    \cup [etat: {"version"}, copiees: Seq(Postes \X Montants)]
    \cup [etat: {"modification"}, v: 1..MaxVersions, statut: Statut \cup {OMIS},
          courant: BOOLEAN \cup {OMIS}]
    \cup [etat: {"adoption"}, v: 1..MaxVersions, statut: Statut \cup {OMIS}, courant: {TRUE},
          ecartees: SUBSET (1..MaxVersions)]
    \cup [etat: {"version retiree"}, v: 1..MaxVersions]
    \cup [etat: {"ligne"}, ligne: Ligne]
    \cup [etat: {"ligne changee"}, l: 1..MaxLignes, p: Postes, montant: Montants \cup {NUL}]
    \cup [etat: {"saisie"}, v: 1..MaxVersions, efface: SUBSET Postes,
          lignes: SUBSET (Postes \X Montants)]
    \cup [etat: {"arbre"}, v: 1..MaxVersions, postes: [Postes -> Poste \cup {NUL}]]
    \cup [etat: {"vue"}, total: Nat, somme: Nat]

Libre == [etat |-> "libre"]

Garder(q, r) == req' = [req EXCEPT ![q] = r]
Finir(q) == Garder(q, Libre)
En(q, etat) == req[q].etat = etat

EstLa(v) == v \in DOMAIN versions /\ versions[v] # NUL
Presentes == {v \in DOMAIN versions : versions[v] # NUL}
LignesEcrites == {l \in DOMAIN lignes : lignes[l] # NUL}
LignesDe(v) == {l \in LignesEcrites : lignes[l].version = v}
Enfants(p) == {e \in Postes : postes[e] # NUL /\ postes[e].parent = p}

\* Removes some lines and adds others, each a post and an amount.
EcrireLignes(retirees, v, nouvelles) ==
    /\ Len(lignes) + Len(nouvelles) <= MaxLignes
    /\ lignes' = [l \in DOMAIN lignes |-> IF l \in retirees THEN NUL ELSE lignes[l]]
                    \o [i \in DOMAIN nouvelles |->
                          [version |-> v, poste |-> nouvelles[i][1], montant |-> nouvelles[i][2]]]

(***************************************************************************)
(* CfcService                                                              *)
(***************************************************************************)
\* The level is that of the parent, plus one.
LirePoste(q, p, parent) ==
    /\ En(q, "libre")
    /\ postes[p] = NUL
    /\ parent # NUL => postes[parent] # NUL
    /\ Garder(q, [etat |-> "poste", p |-> p, parent |-> parent,
                  niveau |-> IF parent = NUL THEN 1 ELSE postes[parent].niveau + 1])
    /\ UNCHANGED <<postes, versions, lignes>>

\* The code is free and the parent there: the keys see to it.
CreerPoste(q) ==
    LET r == req[q]
    IN /\ En(q, "poste")
       /\ postes[r.p] = NUL
       /\ r.parent # NUL => postes[r.parent] # NUL
       /\ postes' = [postes EXCEPT ![r.p] = [parent |-> r.parent, niveau |-> r.niveau]]
       /\ Finir(q)
       /\ UNCHANGED <<versions, lignes>>

LireTrame(q) ==
    /\ En(q, "libre")
    /\ \A p \in Postes : postes[p] = NUL
    /\ Garder(q, [etat |-> "trame"])
    /\ UNCHANGED <<postes, versions, lignes>>

\* The whole tree, or nothing if one code was taken meanwhile.
ImporterTrame(q) ==
    LET niveau[p \in DOMAIN Trame] == IF Trame[p] = NUL THEN 1 ELSE niveau[Trame[p]] + 1
    IN /\ En(q, "trame")
       /\ \A p \in DOMAIN Trame : postes[p] = NUL
       /\ postes' = [p \in Postes |-> IF p \in DOMAIN Trame
                                      THEN [parent |-> Trame[p], niveau |-> niveau[p]]
                                      ELSE postes[p]]
       /\ Finir(q)
       /\ UNCHANGED <<versions, lignes>>

LireRetraitPoste(q, p) ==
    /\ En(q, "libre")
    /\ postes[p] # NUL /\ Enfants(p) = {}
    /\ \A l \in LignesEcrites : lignes[l].poste # p
    /\ Garder(q, [etat |-> "poste retire", p |-> p])
    /\ UNCHANGED <<postes, versions, lignes>>

\* A line written meanwhile refuses it; a sub-post loses its parent.
SupprimerPoste(q) ==
    LET p == req[q].p
    IN /\ En(q, "poste retire")
       /\ postes[p] # NUL
       /\ \A l \in LignesEcrites : lignes[l].poste # p
       /\ postes' = [e \in Postes |-> IF e = p THEN NUL
                                      ELSE IF e \in Enfants(p)
                                      THEN [postes[e] EXCEPT !.parent = NUL]
                                      ELSE postes[e]]
       /\ Finir(q)
       /\ UNCHANGED <<versions, lignes>>

(***************************************************************************)
(* BudgetService: versions                                                 *)
(***************************************************************************)
\* From nothing, or from the lines of another version.
LireVersion(q, source) ==
    LET ids == IF source = NUL THEN <<>> ELSE SetToSeq(LignesDe(source))
    IN /\ En(q, "libre")
       /\ source # NUL => EstLa(source)
       /\ Garder(q, [etat |-> "version",
                     copiees |-> [i \in DOMAIN ids |->
                                    <<lignes[ids[i]].poste, lignes[ids[i]].montant>>]])
       /\ UNCHANGED <<postes, versions, lignes>>

CreerVersion(q) ==
    /\ En(q, "version") /\ Len(versions) < MaxVersions
    /\ versions' = Append(versions, [statut |-> "BROUILLON", courant |-> FALSE])
    /\ EcrireLignes({}, Len(versions) + 1, req[q].copiees)
    /\ Finir(q)
    /\ UNCHANGED postes

\* A draft does not become current, and the current one is only replaced.
LireModification(q, v, statut, courant) ==
    /\ En(q, "libre")
    /\ EstLa(v)
    /\ courant = TRUE => (IF statut = OMIS THEN versions[v].statut ELSE statut) # "BROUILLON"
    /\ courant = FALSE => ~versions[v].courant
    /\ Garder(q, [etat |-> "modification", v |-> v, statut |-> statut, courant |-> courant])
    /\ UNCHANGED <<postes, versions, lignes>>

Donne(champ, courant) == IF champ = OMIS THEN courant ELSE champ

\* A row an adoption has written is locked until that adoption ends.
Verrouillee(q, w) ==
    \E s \in Requetes \ {q} : En(s, "adoption") /\ w \in req[s].ecartees

\* The first statement of an adoption writes every other version there is, and
\* waits for those another adoption holds.  Nothing of it is seen before the
\* request ends.
EcarterAutres(q) ==
    LET r == req[q]
        autres == Presentes \ {r.v}
    IN /\ En(q, "modification") /\ r.courant = TRUE
       /\ \A w \in autres : ~Verrouillee(q, w)
       /\ Garder(q, [etat |-> "adoption", v |-> r.v, statut |-> r.statut, courant |-> TRUE,
                     ecartees |-> autres])
       /\ UNCHANGED <<postes, versions, lignes>>

\* Mutant: the version that was current keeps its flag.
Adoptee_Seule(r, w) ==
    IF versions[w] = NUL THEN NUL
    ELSE IF w = r.v THEN [statut |-> Donne(r.statut, versions[w].statut),
                          courant |-> Donne(r.courant, versions[w].courant)]
    ELSE versions[w]

\* What a modification leaves of a version: its own fields on the one asked
\* for, the flag down on those it has set aside.
Adoptee(r, w) ==
    IF versions[w] = NUL THEN NUL
    ELSE IF w = r.v THEN [statut |-> Donne(r.statut, versions[w].statut),
                          courant |-> Donne(r.courant, versions[w].courant)]
    ELSE IF r.etat = "adoption" /\ w \in r.ecartees THEN [versions[w] EXCEPT !.courant = FALSE]
    ELSE versions[w]

\* The second statement of an adoption, the only one of another modification.
\* Two adoptions that hold each other's version end by Interrompre.
ModifierVersion(q) ==
    /\ En(q, "adoption") \/ (En(q, "modification") /\ req[q].courant # TRUE)
    /\ EstLa(req[q].v) /\ ~Verrouillee(q, req[q].v)
    /\ versions' = [w \in DOMAIN versions |-> Adoptee(req[q], w)]
    /\ Finir(q)
    /\ UNCHANGED <<postes, lignes>>

LireRetraitVersion(q, v) ==
    /\ En(q, "libre")
    /\ EstLa(v) /\ ~versions[v].courant /\ versions[v].statut = "BROUILLON"
    /\ Garder(q, [etat |-> "version retiree", v |-> v])
    /\ UNCHANGED <<postes, versions, lignes>>

SupprimerVersion(q) ==
    LET v == req[q].v
    IN /\ En(q, "version retiree") /\ EstLa(v) /\ ~Verrouillee(q, v)
       /\ versions' = [versions EXCEPT ![v] = NUL]
       /\ EcrireLignes(LignesDe(v), v, <<>>)
       /\ Finir(q)
       /\ UNCHANGED postes

(***************************************************************************)
(* BudgetService: lines                                                    *)
(***************************************************************************)
LireLigne(q, v, p, montant) ==
    /\ En(q, "libre")
    /\ EstLa(v) /\ versions[v].statut # "ARCHIVE"
    /\ postes[p] # NUL
    /\ Garder(q, [etat |-> "ligne", ligne |-> [version |-> v, poste |-> p, montant |-> montant]])
    /\ UNCHANGED <<postes, versions, lignes>>

CreerLigne(q) ==
    LET n == req[q].ligne
    IN /\ En(q, "ligne")
       /\ EstLa(n.version) /\ postes[n.poste] # NUL
       /\ EcrireLignes({}, n.version, <<<<n.poste, n.montant>>>>)
       /\ Finir(q)
       /\ UNCHANGED <<postes, versions>>

\* An amount and a post, or the removal of the line.
LireChangement(q, l, p, montant) ==
    /\ En(q, "libre")
    /\ lignes[l] # NUL /\ versions[lignes[l].version].statut # "ARCHIVE"
    /\ postes[p] # NUL
    /\ Garder(q, [etat |-> "ligne changee", l |-> l, p |-> p, montant |-> montant])
    /\ UNCHANGED <<postes, versions, lignes>>

ChangerLigne(q) ==
    LET r == req[q]
    IN /\ En(q, "ligne changee")
       /\ lignes[r.l] # NUL
       /\ r.montant # NUL => postes[r.p] # NUL
       /\ lignes' = [lignes EXCEPT ![r.l] =
             IF r.montant = NUL THEN NUL
             ELSE [version |-> @.version, poste |-> r.p, montant |-> r.montant]]
       /\ Finir(q)
       /\ UNCHANGED <<postes, versions>>

\* remplacerLignes: the posts presented, those without amount being cleared.
LireRemplacement(q, v, saisies) ==
    /\ En(q, "libre")
    /\ EstLa(v)
    /\ \A s \in saisies : postes[s.p] # NUL
    /\ Garder(q, [etat |-> "saisie", v |-> v, efface |-> {s.p : s \in saisies},
                  lignes |-> {<<s.p, s.montant>> : s \in {x \in saisies : x.montant # 0}}])
    /\ UNCHANGED <<postes, versions, lignes>>

\* ventiler: the line of a post is replaced by lines on its own sub-posts.
LireVentilation(q, v, p, saisies) ==
    /\ En(q, "libre")
    /\ EstLa(v)
    /\ postes[p] # NUL
    /\ \A s \in saisies : s.p \in Enfants(p)
    /\ Garder(q, [etat |-> "saisie", v |-> v, efface |-> {p},
                  lignes |-> {<<s.p, s.montant>> : s \in {x \in saisies : x.montant # 0}}])
    /\ UNCHANGED <<postes, versions, lignes>>

Saisir(q) ==
    LET r == req[q]
    IN /\ En(q, "saisie")
       /\ EstLa(r.v) /\ \A n \in r.lignes : postes[n[1]] # NUL
       /\ EcrireLignes({l \in LignesDe(r.v) : lignes[l].poste \in r.efface}, r.v,
                       SetToSeq(r.lignes))
       /\ Finir(q)
       /\ UNCHANGED <<postes, versions>>

(***************************************************************************)
(* The consolidated view                                                   *)
(***************************************************************************)
Somme(L) == MapThenSumSet(LAMBDA l : lignes[l].montant, L)
Propre(v, p) == Somme({l \in LignesDe(v) : lignes[l].poste = p})

\* A post whose parent is not among the posts read is a root.
Racine(arbre, p) == arbre[p] # NUL /\ (arbre[p].parent = NUL \/ arbre[arbre[p].parent] = NUL)

\* Mutant: the total of a post is its own amount and that of its sub-posts,
\* not of what lies below.
TotalArbre_DeuxNiveaux(arbre, v) ==
    LET racines == {p \in Postes : Racine(arbre, p)}
        enfants == {p \in Postes : arbre[p] # NUL /\ arbre[p].parent \in racines}
    IN MapThenSumSet(LAMBDA p : Propre(v, p), racines \cup enfants)

\* construireArbreCfc: amounts go up from the leaves, each post adding its
\* own to the totals of its sub-posts, and the roots are added up.  The
\* recursion goes down one level at a time.
TotalArbre(arbre, v) ==
    LET sous(p) == {e \in Postes : arbre[e] # NUL /\ arbre[e].parent = p}
        total[n \in 0..Cardinality(Postes)] ==
            [p \in Postes |->
                IF n = 0 THEN 0
                ELSE Propre(v, p) + MapThenSumSet(LAMBDA e : total[n - 1][e], sous(p))]
    IN MapThenSumSet(LAMBDA p : total[Cardinality(Postes)][p], {p \in Postes : Racine(arbre, p)})

\* The version shown: the one asked for, else the current one, else the
\* first.
VersionAffichee(demandee) ==
    IF demandee # NUL THEN {demandee} \cap Presentes
    ELSE LET courantes == {v \in Presentes : versions[v].courant}
         IN IF courantes # {} THEN {Min(courantes)}
            ELSE IF Presentes # {} THEN {Min(Presentes)} ELSE {}

LireArbre(q, demandee) ==
    /\ En(q, "libre")
    /\ \E v \in VersionAffichee(demandee) :
          Garder(q, [etat |-> "arbre", v |-> v, postes |-> postes])
    /\ UNCHANGED <<postes, versions, lignes>>

Consolider(q) ==
    LET r == req[q]
    IN /\ En(q, "arbre")
       /\ Garder(q, [etat |-> "vue", total |-> TotalArbre(r.postes, r.v),
                     somme |-> Somme(LignesDe(r.v))])
       /\ UNCHANGED <<postes, versions, lignes>>

\* The end of a view, a refusal or a crash.
Interrompre(q) ==
    /\ ~En(q, "libre")
    /\ Finir(q)
    /\ UNCHANGED <<postes, versions, lignes>>

(***************************************************************************)
(* Specification                                                           *)
(***************************************************************************)
Init ==
    /\ postes = [p \in Postes |-> NUL]
    /\ versions = <<>> /\ lignes = <<>>
    /\ req = [q \in Requetes |-> Libre]

Cfc(q) ==
    \/ \E p \in Postes : \/ \E parent \in Postes \cup {NUL} : LirePoste(q, p, parent)
                         \/ LireRetraitPoste(q, p)
    \/ CreerPoste(q) \/ SupprimerPoste(q)
    \/ LireTrame(q) \/ ImporterTrame(q)

Versions(q) ==
    \/ \E s \in DOMAIN versions \cup {NUL} : LireVersion(q, s)
    \/ CreerVersion(q)
    \/ \E v \in DOMAIN versions, s \in Statut \cup {OMIS}, c \in BOOLEAN \cup {OMIS} :
          LireModification(q, v, s, c)
    \/ EcarterAutres(q) \/ ModifierVersion(q)
    \/ \E v \in DOMAIN versions : LireRetraitVersion(q, v)
    \/ SupprimerVersion(q)

Lignes(q) ==
    \/ \E v \in DOMAIN versions, p \in Postes :
          \/ \E m \in Montants : LireLigne(q, v, p, m)
          \/ \E S \in SUBSET Saisie : LireVentilation(q, v, p, S)
    \/ \E v \in DOMAIN versions, S \in SUBSET Saisie : LireRemplacement(q, v, S)
    \/ CreerLigne(q) \/ Saisir(q)
    \/ \E l \in DOMAIN lignes, p \in Postes, m \in Montants \cup {NUL} : LireChangement(q, l, p, m)
    \/ ChangerLigne(q)

Vue(q) ==
    \/ \E v \in DOMAIN versions \cup {NUL} : LireArbre(q, v)
    \/ Consolider(q)

Next == \E q \in Requetes : Cfc(q) \/ Versions(q) \/ Lignes(q) \/ Vue(q) \/ Interrompre(q)

Spec == Init /\ [][Next]_vars

(***************************************************************************)
(* Properties                                                              *)
(***************************************************************************)
\* Every row and every request in flight has its shape.
TypeOK ==
    /\ postes \in [Postes -> Poste \cup {NUL}]
    /\ versions \in Seq(Version \cup {NUL}) /\ Len(versions) <= MaxVersions
    /\ lignes \in Seq(Ligne \cup {NUL}) /\ Len(lignes) <= MaxLignes
    /\ req \in [Requetes -> Requete]

\* modifierVersion: "une seule isCourant par operation n'est pas porte par le
\* schema : c'est ici qu'il tient".  One request at a time.  With two it does
\* not: the adoption of the only version sets nothing aside, and ends after
\* another was created, validated and adopted.
UneSeuleCourante ==
    \A v, w \in Presentes : versions[v].courant /\ versions[w].courant => v = w

\* modifierVersion, whatever runs at the same time: a second version becomes
\* current only at the end of an adoption, beside one it has not set aside,
\* which was not there yet when it set the others aside.
AdoptionsExclusives ==
    UneSeuleCourante /\ ~UneSeuleCourante' =>
        \E q \in Requetes :
            /\ En(q, "adoption")
            /\ \E w \in Presentes : versions[w].courant /\ w \notin req[q].ecartees \cup {req[q].v}

\* What a request writes of its version.
Suivi(r) ==
    r.etat \in {"modification", "adoption"} =>
        /\ r.statut \in Statut \cup {OMIS} /\ r.courant \in BOOLEAN \cup {OMIS}
        /\ r.etat = "adoption" => r.courant = TRUE

IInv ==
    /\ DOMAIN req = Requetes
    /\ versions \in Seq(Version \cup {NUL})
    /\ \A q \in Requetes : Suivi(req[q])

\* The version whose flag is about to fall, or that is about to go, is not the
\* current one, and an adoption has set aside all the others.
Actuel(r) ==
    /\ r.etat = "version retiree" \/ (r.etat = "modification" /\ r.courant = FALSE)
           => (EstLa(r.v) => ~versions[r.v].courant)
    /\ r.etat = "adoption" => Presentes \subseteq r.ecartees \cup {r.v}

SInv ==
    /\ IInv
    /\ UneSeuleCourante
    /\ \A q \in Requetes : Actuel(req[q])

\* modifierVersion, supprimerVersion: "une operation doit garder une version
\* courante" once it has one.  One request at a time.
CouranteGardee ==
    (\E v \in Presentes : versions[v].courant)
        => \E v \in DOMAIN versions' : versions'[v] # NUL /\ versions'[v].courant

\* construireArbreCfc: a post that appears nowhere would falsify the total.
\* One request at a time, whatever was added to and taken off the tree
\* and the lines, the view adds up to the lines of the version it shows.
FilRouge == \A q \in Requetes : En(q, "vue") => req[q].total = req[q].somme
=============================================================================
