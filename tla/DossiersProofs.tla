--------------------------- MODULE DossiersProofs ---------------------------
(***************************************************************************)
(* What a file keeps over time: the trace of the nightly pass, the         *)
(* mandates and the commissions of an operation, its documents, its        *)
(* equipment passport, the regulation of its commune, its budget, its      *)
(* land and its meetings.                                                  *)
(*                                                                         *)
(* Each theorem is about one component, for any values of its constants:   *)
(* the components share this module, the names they have in common         *)
(* included, and nothing else.                                             *)
(***************************************************************************)
EXTENDS Passe, Sequences, FiniteSetTheorems, WellFoundedInduction, TLAPS

CONSTANTS NUL, OMIS
CONSTANTS Lots, Reservations, MaxMandats, MaxCommissions                  \* of Courtage
CONSTANTS MaxDocuments                                                    \* of Ged
CONSTANTS
    Equipements, Documents, Passages, Contenu, EntrepriseDe, Membres      \* of Passeport
CONSTANTS Noms, Forme, Codes, MaxReglements, MaxFichiers, MaxLectures     \* of Reglements
CONSTANTS Postes, Trame, Montants, MaxVersions, MaxLignes                 \* of Budget
CONSTANTS
    Designations, Prix, Places, Parcelles, Acteurs, Roles, MaxCles        \* of Foncier
CONSTANTS
    Operations, NoeudDe, Seances, MaxPoints, Rangs, Echeances, Aujourdhui \* of Seances

VARIABLES reservations, mandats, commissions
VARIABLES documents, deposes, cles, fichiers
VARIABLES equipements, attribues
VARIABLES communes, reglements, zones, extractions, gestes
VARIABLES postes, versions, lignes
VARIABLES lots, parkings, ventes, parcelles, creees, rattachements
VARIABLES seances, points, personnes
VARIABLES req

Co == INSTANCE Courtage
Ge == INSTANCE Ged
Pa == INSTANCE Passeport
Rg == INSTANCE Reglements
Bu == INSTANCE Budget
Fo == INSTANCE Foncier
Se == INSTANCE Seances

\* One request at a time.
UneALaFois == \A p, q \in Requetes : p = q

(***************************************************************************)
(* Passe.                                                                  *)
(* The trace of the nightly pass tells the truth, for any reminders, any   *)
(* number of passes at once and any number of stops.                       *)
(***************************************************************************)
(***************************************************************************)
(* The inductive invariant                                                 *)
(***************************************************************************)
EnBoucle == {"boucle", "inscription", "envoi"}

\* What the task under way still has to treat.
Restants(q) == IF passes[q].etat \in EnBoucle THEN passes[q].reste ELSE {}

\* Whatever was found due does not wait for its date any more.  A pass under
\* way has not written its end; as long as no task failed, what it found due
\* and still is lies in the loop it is in.
Suivie(q) ==
    /\ \A c \in lues[q] : cibles[c] # "attente"
    /\ passes[q].etat # "repos" => ~traces[q].fin
    /\ passes[q].etat # "repos" /\ ~erreurs[q] =>
          \A c \in lues[q] : cibles[c] = "due" => c \in Restants(q)
    /\ traces[q].fin /\ ~traces[q].erreur => \A c \in lues[q] : cibles[c] # "due"

Inv == TypeOK /\ \A q \in Requetes : Suivie(q)

(***************************************************************************)
(* Type correctness                                                        *)
(***************************************************************************)
LEMMA FormePasse ==
    ASSUME NEW p \in Passe
    PROVE  /\ p.etat \in {"repos", "conclusion", "tache", "boucle", "inscription", "envoi"}
           /\ p.etat \in {"tache", "boucle", "inscription", "envoi"} => p.tache \in Tache
           /\ p.etat \in EnBoucle => p.reste \in SUBSET Cibles
           /\ p.etat \in {"inscription", "envoi"} => p.c \in Cibles
BY DEF Passe, EnBoucle

LEMMA FormeApres == \A t \in Tache : Apres(t) \in Passe
<1>1. [etat |-> "conclusion"] \in Passe
  BY DEF Passe
<1>2. [etat |-> "tache", tache |-> "relancesSoumissions"] \in Passe
  BY DEF Passe, Tache
<1> QED BY <1>1, <1>2 DEF Apres

LEMMA FormeBoucle ==
    ASSUME NEW t \in Tache, NEW R \in SUBSET Cibles, NEW c \in Cibles
    PROVE  /\ [etat |-> "boucle", tache |-> t, reste |-> R] \in Passe
           /\ [etat |-> "inscription", tache |-> t, reste |-> R, c |-> c] \in Passe
           /\ [etat |-> "envoi", tache |-> t, reste |-> R, c |-> c] \in Passe
BY DEF Passe

LEMMA TypeInit == Init => TypeOK
BY DomainesAssumption DEF Init, TypeOK, Etat, Trace, Passe

\* What the reminders become keeps their type.
LEMMA TypeStep == TypeOK /\ [Next]_vars => TypeOK'
<1> SUFFICES ASSUME TypeOK, [Next]_vars PROVE TypeOK'
  OBVIOUS
<1> USE DEF TypeOK
<1>t. /\ "finsEssai" \in Tache
      /\ \A t \in Tache : Cible(t) \subseteq Cibles
  BY DEF Tache, Cible, Cibles
<1>g. ASSUME NEW q \in Requetes, NEW p \in Passe, Garder(q, p)
      PROVE  passes' \in [Requetes -> Passe]
  BY <1>g DEF Garder
<1>1. ASSUME NEW c \in Cibles, Echoir(c) \/ Clore(c) PROVE TypeOK'
  BY <1>1 DEF Echoir, Clore, memoire, Etat
<1>2. ASSUME NEW q \in Requetes, Ouvrir(q) PROVE TypeOK'
  <2>1. [etat |-> "tache", tache |-> "finsEssai"] \in Passe
    BY <1>t DEF Passe
  <2>2. [fin |-> FALSE, erreur |-> FALSE] \in Trace
    BY DEF Trace
  <2> QED BY <1>2, <2>1, <2>2, <1>g DEF Ouvrir
<1>3. ASSUME NEW q \in Requetes, NEW t \in Tache, LireCibles(q, t) PROVE TypeOK'
  <2> DEFINE dues == {c \in Cible(t) : cibles[c] = "due"}
  <2>1. dues \in SUBSET Cibles
    BY <1>t
  <2>2. [etat |-> "boucle", tache |-> t, reste |-> dues] \in Passe
    BY <2>1 DEF Passe
  <2>3. Garder(q, [etat |-> "boucle", tache |-> t, reste |-> dues])
        /\ lues' = [lues EXCEPT ![q] = @ \cup dues]
        /\ UNCHANGED <<cibles, traces, erreurs, arrets>>
    BY <1>3 DEF LireCibles
  <2> HIDE DEF dues
  <2> QED BY <2>1, <2>2, <2>3, <1>g
<1>4. ASSUME NEW q \in Requetes, Echouer(q) PROVE TypeOK'
  <2>1. passes[q].tache \in Tache
    BY <1>4, FormePasse DEF Echouer
  <2>2. Apres(passes[q].tache) \in Passe
    BY <2>1, FormeApres
  <2> QED BY <1>4, <2>2, <1>g DEF Echouer
<1>5. ASSUME NEW q \in Requetes, Suivre(q) PROVE TypeOK'
  <2>1. passes[q].tache \in Tache
    BY <1>5, FormePasse DEF Suivre, En
  <2>2. Apres(passes[q].tache) \in Passe
    BY <2>1, FormeApres
  <2> QED BY <1>5, <2>2, <1>g DEF Suivre, memoire
<1>6. ASSUME NEW q \in Requetes, Conclure(q) PROVE TypeOK'
  <2>1. [etat |-> "repos"] \in Passe
    BY DEF Passe
  <2>2. [fin |-> TRUE, erreur |-> erreurs[q]] \in Trace
    BY DEF Trace
  <2> QED BY <1>6, <2>1, <2>2, <1>g DEF Conclure
<1>v. ASSUME NEW q \in Requetes, NEW c \in Cibles, passes[q].etat \in EnBoucle
      PROVE  /\ Traitee(q, c) \in Passe
             /\ Vers(q, c, "envoi") \in Passe
             /\ Vers(q, c, "inscription") \in Passe
  <2>1. passes[q].tache \in Tache /\ passes[q].reste \in SUBSET Cibles
    BY <1>v, FormePasse DEF EnBoucle
  <2>2. passes[q].reste \ {c} \in SUBSET Cibles
    BY <2>1
  <2> QED BY <2>1, <2>2, FormeBoucle DEF Traitee, Vers
<1>7. ASSUME NEW q \in Requetes, NEW c \in Cibles, Marquer(q, c) \/ LireDeja(q, c) PROVE TypeOK'
  <2>1. passes[q].etat \in EnBoucle
    BY <1>7 DEF Marquer, LireDeja, En, EnBoucle
  <2>2. PICK p \in Passe : Garder(q, p)
    BY <1>7, <1>v, <2>1 DEF Marquer, LireDeja
  <2>3. UNCHANGED <<cibles, traces, memoire, arrets>>
    BY <1>7 DEF Marquer, LireDeja
  <2> QED BY <2>2, <2>3, <1>g DEF memoire
<1>8. ASSUME NEW q \in Requetes, Inscrire(q) PROVE TypeOK'
  <2>1. passes[q].etat \in EnBoucle /\ passes[q].c \in Cibles
    BY <1>8, FormePasse DEF Inscrire, En, EnBoucle
  <2>2. Vers(q, passes[q].c, "envoi") \in Passe
    BY <2>1, <1>v
  <2> QED BY <1>8, <2>2, <1>g DEF Inscrire, memoire
<1>9. ASSUME NEW q \in Requetes, NEW c \in Cibles, Envoyer(q, c) PROVE TypeOK'
  <2>1. passes[q].etat \in EnBoucle
    BY <1>9 DEF Envoyer, En, EnBoucle
  <2>2. Traitee(q, c) \in Passe
    BY <2>1, <1>v
  <2> QED BY <1>9, <2>2, <1>g DEF Envoyer, memoire, Etat
<1>10. ASSUME Arreter PROVE TypeOK'
  <2>1. [etat |-> "repos"] \in Passe
    BY DEF Passe
  <2> QED BY <1>10, <2>1, DomainesAssumption DEF Arreter, memoire
<1>11. ASSUME UNCHANGED vars PROVE TypeOK'
  BY <1>11 DEF vars
<1> QED
  BY <1>1, <1>2, <1>3, <1>4, <1>5, <1>6, <1>7, <1>8, <1>9, <1>10, <1>11 DEF Next, Avancer

\* Every row and every pass has the shape the schema and the code give it.
THEOREM TypeCorrect == Spec => []TypeOK
<1> QED BY TypeInit, TypeStep, PTL DEF Spec

(***************************************************************************)
(* The trace                                                               *)
(***************************************************************************)
\* A reminder never waits again, and is not due again.
Avance ==
    \A c \in Cibles :
        /\ cibles'[c] = "attente" => cibles[c] = "attente"
        /\ cibles'[c] = "due" => cibles[c] \in {"attente", "due"}

LEMMA AvanceStep == TypeOK /\ [Next]_vars => Avance
<1> SUFFICES ASSUME TypeOK, [Next]_vars PROVE Avance
  OBVIOUS
<1> USE DEF TypeOK, Avance
<1>1. ASSUME NEW c \in Cibles, Echoir(c) \/ Clore(c) PROVE Avance
  BY <1>1 DEF Echoir, Clore
<1>2. ASSUME NEW q \in Requetes, NEW c \in Cibles, Envoyer(q, c) PROVE Avance
  BY <1>2 DEF Envoyer
<1>3. ASSUME UNCHANGED cibles PROVE Avance
  BY <1>3
<1> QED
  BY <1>1, <1>2, <1>3
  DEF Next, Avancer, Ouvrir, LireCibles, Echouer, Suivre, Conclure, Marquer, LireDeja,
      Inscrire, Arreter, vars

\* What another pass does leaves a pass where it is.
LEMMA Ailleurs ==
    ASSUME TypeOK, Avance, NEW p \in Requetes, Suivie(p),
           passes'[p] = passes[p], traces'[p] = traces[p], lues'[p] = lues[p],
           erreurs'[p] = erreurs[p]
    PROVE  Suivie(p)'
<1>1. lues[p] \subseteq Cibles
  BY DEF TypeOK
<1>2. Restants(p)' = Restants(p)
  BY DEF Restants
<1> QED BY <1>1, <1>2 DEF Suivie, Avance

LEMMA SuiviStep ==
    ASSUME TypeOK, [Next]_vars, NEW p \in Requetes, Suivie(p)
    PROVE  Suivie(p)'
<1>a. Avance
  BY AvanceStep
<1>l. lues[p] \subseteq Cibles
  BY DEF TypeOK
<1>f. ASSUME NEW q \in Requetes, q # p,
             NEW v, passes' = [passes EXCEPT ![q] = v], UNCHANGED <<traces, memoire>>
      PROVE  Suivie(p)'
  BY <1>f, <1>a, Ailleurs DEF memoire, TypeOK
<1>1. ASSUME NEW c \in Cibles, Echoir(c) \/ Clore(c) PROVE Suivie(p)'
  BY <1>1, <1>a, Ailleurs DEF Echoir, Clore, memoire
<1>2. ASSUME NEW q \in Requetes, Ouvrir(q) PROVE Suivie(p)'
  <2>1. CASE q # p
    BY <1>2, <2>1, <1>a, Ailleurs DEF Ouvrir, Garder, TypeOK
  <2>2. CASE q = p
    <3>1. lues'[p] = {} /\ ~traces'[p].fin
      BY <1>2, <2>2 DEF Ouvrir, TypeOK
    <3> QED BY <3>1 DEF Suivie
  <2> QED BY <2>1, <2>2
<1>3. ASSUME NEW q \in Requetes, NEW t \in Tache, LireCibles(q, t) PROVE Suivie(p)'
  <2>1. CASE q # p
    BY <1>3, <2>1, <1>a, Ailleurs DEF LireCibles, Garder, TypeOK
  <2>2. CASE q = p
    <3> DEFINE dues == {c \in Cible(t) : cibles[c] = "due"}
    <3>1. /\ passes[p].etat = "tache"
          /\ passes' = [passes EXCEPT ![p] = [etat |-> "boucle", tache |-> t, reste |-> dues]]
          /\ lues' = [lues EXCEPT ![p] = lues[p] \cup dues]
          /\ UNCHANGED <<cibles, traces, erreurs>>
      BY <1>3, <2>2 DEF LireCibles, En, Garder
    <3>2. /\ passes'[p] = [etat |-> "boucle", tache |-> t, reste |-> dues]
          /\ lues'[p] = lues[p] \cup dues
      BY <3>1 DEF TypeOK
    <3>3. Restants(p)' = dues
      BY <3>2 DEF Restants, EnBoucle
    <3>4. Restants(p) = {}
      BY <3>1 DEF Restants, EnBoucle
    <3>5. ~traces[p].fin
      BY <3>1 DEF Suivie
    <3>6. \A c \in dues : cibles[c] = "due"
      OBVIOUS
    <3> HIDE DEF dues
    <3> QED BY <3>1, <3>2, <3>3, <3>4, <3>5, <3>6 DEF Suivie
  <2> QED BY <2>1, <2>2
<1>4. ASSUME NEW q \in Requetes, Echouer(q) PROVE Suivie(p)'
  <2>1. CASE q # p
    BY <1>4, <2>1, <1>a, Ailleurs DEF Echouer, Garder, TypeOK
  <2>2. CASE q = p
    <3>1. /\ erreurs'[p] /\ passes[p].etat # "repos"
          /\ UNCHANGED <<cibles, traces, lues>>
      BY <1>4, <2>2 DEF Echouer, TypeOK
    <3> QED BY <3>1 DEF Suivie
  <2> QED BY <2>1, <2>2
<1>5. ASSUME NEW q \in Requetes, Suivre(q) PROVE Suivie(p)'
  <2>1. CASE q # p
    BY <1>5, <2>1, <1>f DEF Suivre, Garder
  <2>2. CASE q = p
    <3>1. /\ passes[p].etat = "boucle" /\ passes[p].reste = {}
          /\ UNCHANGED <<cibles, traces, lues, erreurs>>
      BY <1>5, <2>2 DEF Suivre, En, memoire
    <3>2. Restants(p) = {}
      BY <3>1 DEF Restants
    <3> QED BY <3>1, <3>2 DEF Suivie
  <2> QED BY <2>1, <2>2
<1>6. ASSUME NEW q \in Requetes, Conclure(q) PROVE Suivie(p)'
  <2>1. CASE q # p
    BY <1>6, <2>1, <1>a, Ailleurs DEF Conclure, Garder, TypeOK
  <2>2. CASE q = p
    <3>1. /\ passes[p].etat = "conclusion"
          /\ passes' = [passes EXCEPT ![p] = [etat |-> "repos"]]
          /\ traces' = [traces EXCEPT ![p] = [fin |-> TRUE, erreur |-> erreurs[p]]]
          /\ UNCHANGED <<cibles, lues, erreurs>>
      BY <1>6, <2>2 DEF Conclure, En, Garder
    <3>2. passes'[p].etat = "repos" /\ traces'[p].erreur = erreurs[p]
      BY <3>1 DEF TypeOK
    <3>3. Restants(p) = {}
      BY <3>1 DEF Restants, EnBoucle
    <3> QED BY <3>1, <3>2, <3>3 DEF Suivie
  <2> QED BY <2>1, <2>2
<1>7. ASSUME NEW q \in Requetes, NEW c \in Cibles, Marquer(q, c) \/ LireDeja(q, c)
      PROVE  Suivie(p)'
  <2>1. CASE q # p
    BY <1>7, <2>1, <1>f DEF Marquer, LireDeja, Garder
  <2>2. CASE q = p
    <3>1. /\ passes[p].etat = "boucle"
          /\ UNCHANGED <<cibles, traces, lues, erreurs>>
      BY <1>7, <2>2 DEF Marquer, LireDeja, En, memoire
    <3>2. ASSUME NEW v, passes' = [passes EXCEPT ![q] = v] PROVE passes'[p] = v
      BY <3>2, <2>2 DEF TypeOK
    <3>3. \/ cibles[c] # "due" /\ passes'[p] = Traitee(q, c)
          \/ passes'[p] = Vers(q, c, "envoi")
          \/ passes'[p] = Vers(q, c, "inscription")
      <4>1. CASE Marquer(q, c)
        <5>1. /\ cibles[c] = "marquee" => passes' = [passes EXCEPT ![q] = Traitee(q, c)]
              /\ cibles[c] # "marquee" => passes' = [passes EXCEPT ![q] = Vers(q, c, "envoi")]
          BY <4>1 DEF Marquer, Garder
        <5> QED BY <5>1, <3>2
      <4>2. CASE LireDeja(q, c)
        <5>1. /\ cibles[c] # "due" => passes' = [passes EXCEPT ![q] = Traitee(q, c)]
              /\ cibles[c] = "due" => passes' = [passes EXCEPT ![q] = Vers(q, c, "inscription")]
          BY <4>2 DEF LireDeja, Garder
        <5> QED BY <5>1, <3>2
      <4> QED BY <1>7, <4>1, <4>2
    <3>4. /\ Restants(p) = passes[p].reste
          /\ \/ Restants(p)' = Restants(p)
             \/ cibles[c] # "due" /\ Restants(p)' = Restants(p) \ {c}
      BY <3>1, <3>3, <2>2 DEF Restants, EnBoucle, Traitee, Vers
    <3> QED BY <3>1, <3>4 DEF Suivie
  <2> QED BY <2>1, <2>2
<1>8. ASSUME NEW q \in Requetes, Inscrire(q) PROVE Suivie(p)'
  <2>1. CASE q # p
    BY <1>8, <2>1, <1>f DEF Inscrire, Garder
  <2>2. CASE q = p
    <3>1. /\ passes[p].etat = "inscription"
          /\ passes' = [passes EXCEPT ![p] = Vers(p, passes[p].c, "envoi")]
          /\ UNCHANGED <<cibles, traces, lues, erreurs>>
      BY <1>8, <2>2 DEF Inscrire, En, Garder, memoire
    <3>2. passes'[p] = Vers(p, passes[p].c, "envoi")
      BY <3>1 DEF TypeOK
    <3>3. Restants(p)' = Restants(p)
      BY <3>1, <3>2 DEF Restants, EnBoucle, Vers
    <3> QED BY <3>1, <3>3 DEF Suivie
  <2> QED BY <2>1, <2>2
<1>9. ASSUME NEW q \in Requetes, NEW c \in Cibles, Envoyer(q, c) PROVE Suivie(p)'
  <2>1. CASE q # p
    BY <1>9, <2>1, <1>a, Ailleurs DEF Envoyer, Garder, memoire, TypeOK
  <2>2. CASE q = p
    <3>1. /\ passes[p].etat = "envoi"
          /\ passes' = [passes EXCEPT ![p] = Traitee(p, c)]
          /\ UNCHANGED <<traces, lues, erreurs>>
      BY <1>9, <2>2 DEF Envoyer, En, Garder, memoire
    <3>2. passes'[p] = Traitee(p, c)
      BY <3>1 DEF TypeOK
    <3>3. Restants(p)' = Restants(p) \ {c}
      BY <3>1, <3>2 DEF Restants, EnBoucle, Traitee
    <3>4. cibles'[c] # "due"
      BY <1>9 DEF Envoyer, TypeOK
    <3> QED BY <3>1, <3>3, <3>4, <1>a, <1>l DEF Suivie, Avance
  <2> QED BY <2>1, <2>2
<1>10. ASSUME Arreter PROVE Suivie(p)'
  <2>1. passes'[p].etat = "repos" /\ UNCHANGED <<cibles, traces, lues, erreurs>>
    BY <1>10 DEF Arreter, memoire
  <2> QED BY <2>1 DEF Suivie
<1>11. ASSUME UNCHANGED vars PROVE Suivie(p)'
  BY <1>11, <1>a, Ailleurs DEF vars
<1> QED
  BY <1>1, <1>2, <1>3, <1>4, <1>5, <1>6, <1>7, <1>8, <1>9, <1>10, <1>11 DEF Next, Avancer

\* A trace that ends without an error says that nothing the pass found due
\* still is, whatever other passes do at the same time and wherever the
\* process stops.
THEOREM TraceVraie == Spec => []TraceFidele
<1>1. Init => Inv
  <2>1. ASSUME Init, NEW p \in Requetes PROVE Suivie(p)
    BY <2>1 DEF Init, Suivie
  <2> QED BY <2>1, TypeInit DEF Inv
<1>2. Inv /\ [Next]_vars => Inv'
  BY TypeStep, SuiviStep DEF Inv
<1>3. Inv => TraceFidele
  BY DEF Inv, Suivie, TraceFidele
<1> QED BY <1>1, <1>2, <1>3, PTL DEF Spec

(***************************************************************************)
(* Courtage, one request at a time.                                        *)
(***************************************************************************)
\* A set has the size that the component gives it.
LEMMA TailleCourtage == \A S : Co!Cardinality(S) = Cardinality(S)
BY DEF Co!Cardinality, Cardinality

(***************************************************************************)
(* A set as a sequence                                                     *)
(***************************************************************************)
\* A finite set has as many elements as its sequence, each of them once.
LEMMA EnSequence ==
    ASSUME NEW S, IsFiniteSet(S)
    PROVE  /\ Cardinality(S) \in Nat
           /\ Co!SetToSeq(S) \in [1..Cardinality(S) -> S]
           /\ \A a, b \in 1..Cardinality(S) : Co!SetToSeq(S)[a] = Co!SetToSeq(S)[b] => a = b
<1>1. Cardinality(S) \in Nat /\ ExistsBijection(1..Cardinality(S), S)
  BY FS_CardinalityType
<1>2. \E f \in [1..Cardinality(S) -> S] : Co!IsInjective(f)
  BY <1>1 DEF ExistsBijection, Bijection, Injection, Surjection, IsInjective,
             Co!IsInjective
<1>3. Co!SetToSeq(S) \in [1..Cardinality(S) -> S] /\ Co!IsInjective(Co!SetToSeq(S))
  BY <1>2, TailleCourtage DEF Co!SetToSeq
<1> QED BY <1>1, <1>3 DEF Co!IsInjective

(***************************************************************************)
(* The shape of a request and of a row                                     *)
(***************************************************************************)
LEMMA FormesCourtage ==
    ASSUME NEW r \in Co!Requete
    PROVE  /\ r.etat \in {"libre", "mandat", "statut", "constat"}
           /\ r.etat = "mandat" => r.nouveau \in Co!Mandat
           /\ r.etat = "statut" => r.mandat \in 1..MaxMandats /\ r.statut \in Co!MandatStatut
           /\ r.etat = "constat" => r.reservation \in Reservations
                                    /\ r.dus \in SUBSET (1..MaxMandats)
BY DEF Co!Requete

\* Rows are numbered from one, within the bound.
LEMMA LignesCourtage ==
    ASSUME Co!Domaines, Co!TypeOK
    PROVE  /\ Len(mandats) \in Nat /\ DOMAIN mandats = 1..Len(mandats)
           /\ DOMAIN mandats \subseteq 1..MaxMandats
           /\ \A i \in DOMAIN mandats : mandats[i] \in Co!Mandat
           /\ Len(commissions) \in Nat /\ DOMAIN commissions = 1..Len(commissions)
           /\ \A c \in DOMAIN commissions : commissions[c] \in Co!Commission
<1>1. /\ Len(mandats) \in Nat /\ DOMAIN mandats = 1..Len(mandats) /\ Len(mandats) <= MaxMandats
      /\ \A i \in DOMAIN mandats : mandats[i] \in Co!Mandat
  BY DEF Co!TypeOK
<1>2. /\ Len(commissions) \in Nat /\ DOMAIN commissions = 1..Len(commissions)
      /\ \A c \in DOMAIN commissions : commissions[c] \in Co!Commission
  BY DEF Co!TypeOK
<1>3. DOMAIN mandats \subseteq 1..MaxMandats
  BY <1>1 DEF Co!Domaines
<1> QED BY <1>1, <1>2, <1>3

LEMMA LibreVautCourtage == Co!Libre \in Co!Requete /\ Co!Libre.etat = "libre"
BY DEF Co!Libre, Co!Requete

\* A request that has read is alone: the others say nothing.
LEMMA Ecriture ==
    ASSUME NEW q \in Requetes, UneALaFois, req \in [Requetes -> Co!Requete], Co!Finir(q)
    PROVE  req' \in [Requetes -> Co!Requete] /\ \A p \in Requetes : Co!Actuel(req[p])'
<1>1. req' = [req EXCEPT ![q] = Co!Libre]
  BY DEF Co!Finir, Co!Garder
<1>2. req' \in [Requetes -> Co!Requete] /\ \A p \in Requetes : req'[p] = Co!Libre
  BY <1>1, LibreVautCourtage DEF UneALaFois
<1>3. \A p \in Requetes : req'[p].etat = "libre"
  BY <1>2, LibreVautCourtage
<1> QED BY <1>2, <1>3 DEF Co!Actuel

\* A reading keeps what it finds.
LEMMA Lecture ==
    ASSUME NEW q \in Requetes, UneALaFois, req \in [Requetes -> Co!Requete],
           NEW r \in Co!Requete, Co!Garder(q, r), UNCHANGED <<mandats, commissions>>, Co!Actuel(r)
    PROVE  req' \in [Requetes -> Co!Requete] /\ \A p \in Requetes : Co!Actuel(req[p])'
<1>1. req' = [req EXCEPT ![q] = r]
  BY DEF Co!Garder
<1>2. req' \in [Requetes -> Co!Requete] /\ \A p \in Requetes : req'[p] = r
  BY <1>1 DEF UneALaFois
<1>3. ASSUME NEW p \in Requetes PROVE Co!Actuel(req[p])'
  <2>1. req'[p] = r
    BY <1>2
  <2> QED BY <2>1 DEF Co!Actuel, Co!EnForce, Co!SansConflit, Co!Incompatibles, Co!Constatee
<1> QED BY <1>2, <1>3

(***************************************************************************)
(* Mandates                                                                *)
(***************************************************************************)
LEMMA PasLireMandat ==
    ASSUME Co!SInv, UneALaFois, NEW q \in Requetes, NEW m \in Co!Mandat, Co!LireMandat(q, m)
    PROVE  Co!SInv'
<1> DEFINE r == [etat |-> "mandat", nouveau |-> m]
<1>1. r \in Co!Requete /\ Co!Actuel(r)
  BY DEF Co!Requete, Co!Actuel
<1>2. Co!Garder(q, r) /\ UNCHANGED <<reservations, mandats, commissions>>
  BY DEF Co!LireMandat
<1> HIDE DEF r
<1>3. req' \in [Requetes -> Co!Requete] /\ \A p \in Requetes : Co!Actuel(req[p])'
  BY <1>1, <1>2, Lecture DEF Co!SInv, Co!TypeOK
<1> QED BY <1>2, <1>3 DEF Co!SInv, Co!TypeOK, Co!ExclusiviteTenue, Co!CommissionUnique, Co!EnForce

\* A draft is not in force.
LEMMA PasCreerMandat ==
    ASSUME Co!Domaines, Co!SInv, UneALaFois, NEW q \in Requetes, Co!CreerMandat(q)
    PROVE  Co!SInv'
<1>1. PICK m \in Co!Mandat : m = [req[q].nouveau EXCEPT !.statut = "BROUILLON"]
  BY FormesCourtage DEF Co!CreerMandat, Co!En, Co!SInv, Co!TypeOK, Co!Mandat, Co!MandatStatut
<1>2. /\ mandats' = Append(mandats, m) /\ Co!Finir(q) /\ UNCHANGED <<reservations, commissions>>
      /\ Len(mandats) < MaxMandats
  BY <1>1 DEF Co!CreerMandat
<1>3. m.statut = "BROUILLON"
  BY <1>1, FormesCourtage DEF Co!CreerMandat, Co!En, Co!SInv, Co!TypeOK, Co!Mandat
<1>4. /\ mandats' \in Seq(Co!Mandat) /\ Len(mandats') = Len(mandats) + 1
      /\ DOMAIN mandats = 1..Len(mandats) /\ DOMAIN mandats' = 1..(Len(mandats) + 1)
      /\ \A i \in DOMAIN mandats : mandats'[i] = mandats[i]
      /\ mandats'[Len(mandats) + 1] = m
  BY <1>2 DEF Co!SInv, Co!TypeOK
<1>5. \A i \in DOMAIN mandats' : Co!EnForce(i)' => i \in DOMAIN mandats /\ Co!EnForce(i)
  BY <1>3, <1>4 DEF Co!EnForce, Co!EnVigueur
<1>6. Co!ExclusiviteTenue'
  BY <1>4, <1>5 DEF Co!SInv, Co!ExclusiviteTenue
<1>7. Len(mandats') <= MaxMandats
  BY <1>2, <1>4 DEF Co!SInv, Co!TypeOK, Co!Domaines
<1>8. req' \in [Requetes -> Co!Requete] /\ \A p \in Requetes : Co!Actuel(req[p])'
  BY <1>2, Ecriture DEF Co!SInv, Co!TypeOK
<1> QED BY <1>2, <1>4, <1>6, <1>7, <1>8 DEF Co!SInv, Co!TypeOK, Co!CommissionUnique

LEMMA PasLireStatut ==
    ASSUME Co!Domaines, Co!SInv, UneALaFois, NEW q \in Requetes, NEW i \in DOMAIN mandats,
           NEW s \in Co!MandatStatut, Co!LireStatut(q, i, s)
    PROVE  Co!SInv'
<1> DEFINE r == [etat |-> "statut", mandat |-> i, statut |-> s]
<1>1. i \in 1..MaxMandats
  BY LignesCourtage DEF Co!SInv
<1>2. r \in Co!Requete
  BY <1>1 DEF Co!Requete
<1>3. Co!Actuel(r)
  BY DEF Co!LireStatut, Co!Actuel
<1>4. Co!Garder(q, r) /\ UNCHANGED <<reservations, mandats, commissions>>
  BY DEF Co!LireStatut
<1> HIDE DEF r
<1>5. req' \in [Requetes -> Co!Requete] /\ \A p \in Requetes : Co!Actuel(req[p])'
  BY <1>2, <1>3, <1>4, Lecture DEF Co!SInv, Co!TypeOK
<1> QED BY <1>4, <1>5 DEF Co!SInv, Co!TypeOK, Co!ExclusiviteTenue, Co!CommissionUnique, Co!EnForce

\* The mandate that comes into force meets no other on its lots.
LEMMA PasStatutMandat ==
    ASSUME Co!Domaines, Co!SInv, UneALaFois, NEW q \in Requetes, Co!ChangerStatutMandat(q)
    PROVE  Co!SInv'
<1>1. PICK k, s : k = req[q].mandat /\ s = req[q].statut
  OBVIOUS
<1>2. /\ k \in DOMAIN mandats /\ s \in Co!MandatStatut
      /\ s \in Co!EnVigueur /\ ~Co!EnForce(k) => Co!SansConflit(mandats[k], {k})
  BY <1>1, FormesCourtage DEF Co!ChangerStatutMandat, Co!En, Co!SInv, Co!TypeOK, Co!Actuel
<1>3. /\ mandats' = [mandats EXCEPT ![k].statut = s]
      /\ Co!Finir(q) /\ UNCHANGED <<reservations, commissions>>
  BY <1>1 DEF Co!ChangerStatutMandat
<1>a. mandats[k] \in Co!Mandat
  BY <1>2, LignesCourtage DEF Co!SInv
<1>4. PICK n \in Co!Mandat : n = [mandats[k] EXCEPT !.statut = s]
  BY <1>2, <1>a DEF Co!Mandat
<1>5. /\ n.statut = s /\ n.lots = mandats[k].lots /\ n.exclusif = mandats[k].exclusif
  BY <1>4, <1>a DEF Co!Mandat
<1>6. mandats' = [mandats EXCEPT ![k] = n]
  BY <1>3, <1>4
<1>7. /\ mandats' \in Seq(Co!Mandat) /\ Len(mandats') = Len(mandats)
      /\ DOMAIN mandats' = DOMAIN mandats
      /\ mandats'[k] = n
      /\ \A i \in DOMAIN mandats : i # k => mandats'[i] = mandats[i]
  BY <1>2, <1>6 DEF Co!SInv, Co!TypeOK
<1>8. \A i \in DOMAIN mandats : mandats'[i].lots = mandats[i].lots
                                /\ mandats'[i].exclusif = mandats[i].exclusif
  BY <1>5, <1>7
<1>9. ASSUME NEW i \in DOMAIN mandats, NEW j \in DOMAIN mandats, i # j,
             Co!EnForce(i)', Co!EnForce(j)', mandats'[i].exclusif
      PROVE  mandats'[i].lots \cap mandats'[j].lots = {}
  <2>1. CASE Co!EnForce(i) /\ Co!EnForce(j)
    BY <1>8, <1>9, <2>1 DEF Co!SInv, Co!ExclusiviteTenue
  <2>2. CASE ~Co!EnForce(k) /\ k \in {i, j}
    <3>1. s \in Co!EnVigueur
      BY <1>5, <1>7, <1>9, <2>2 DEF Co!EnForce
    <3>2. Co!SansConflit(mandats[k], {k})
      BY <1>2, <2>2, <3>1
    <3>3. CASE k = i
      <4>1. Co!EnForce(j) /\ j \in DOMAIN mandats \ {k}
        BY <1>7, <1>9, <3>3 DEF Co!EnForce
      <4>2. ~Co!Incompatibles(mandats[k], mandats[j])
        BY <3>2, <4>1 DEF Co!SansConflit
      <4> QED BY <1>8, <1>9, <3>3, <4>2 DEF Co!Incompatibles
    <3>4. CASE k = j
      <4>1. Co!EnForce(i) /\ i \in DOMAIN mandats \ {k}
        BY <1>7, <1>9, <3>4 DEF Co!EnForce
      <4>2. ~Co!Incompatibles(mandats[k], mandats[i])
        BY <3>2, <4>1 DEF Co!SansConflit
      <4> QED BY <1>8, <1>9, <3>4, <4>2 DEF Co!Incompatibles
    <3> QED BY <2>2, <3>3, <3>4
  <2>3. \A x \in DOMAIN mandats : x # k /\ Co!EnForce(x)' => Co!EnForce(x)
    BY <1>7 DEF Co!EnForce
  <2> QED BY <1>9, <2>1, <2>2, <2>3
<1>10. Co!ExclusiviteTenue'
  BY <1>7, <1>9 DEF Co!ExclusiviteTenue
<1>11. req' \in [Requetes -> Co!Requete] /\ \A p \in Requetes : Co!Actuel(req[p])'
  BY <1>3, Ecriture DEF Co!SInv, Co!TypeOK
<1> QED BY <1>3, <1>7, <1>10, <1>11 DEF Co!SInv, Co!TypeOK, Co!CommissionUnique

(***************************************************************************)
(* Commissions                                                             *)
(***************************************************************************)
LEMMA PasLireConstat ==
    ASSUME Co!Domaines, Co!SInv, UneALaFois, NEW q \in Requetes, NEW x \in Reservations,
           Co!LireConstat(q, x)
    PROVE  Co!SInv'
<1>1. PICK D : D = Co!Dus(x)
  OBVIOUS
<1>2. D \in SUBSET (1..MaxMandats) /\ \A i \in D : ~Co!Constatee(i, x)
  BY <1>1, LignesCourtage DEF Co!SInv, Co!Dus
<1> DEFINE r == [etat |-> "constat", reservation |-> x, dus |-> D]
<1>3. r \in Co!Requete
  BY <1>2 DEF Co!Requete
<1>4. Co!Actuel(r)
  BY <1>2 DEF Co!Actuel
<1>5. Co!Garder(q, r) /\ UNCHANGED <<reservations, mandats, commissions>>
  BY <1>1 DEF Co!LireConstat
<1> HIDE DEF r
<1>6. req' \in [Requetes -> Co!Requete] /\ \A p \in Requetes : Co!Actuel(req[p])'
  BY <1>3, <1>4, <1>5, Lecture DEF Co!SInv, Co!TypeOK
<1> QED BY <1>5, <1>6 DEF Co!SInv, Co!TypeOK, Co!ExclusiviteTenue, Co!CommissionUnique, Co!EnForce

\* The commissions written are of one sale, each of a mandate of its own that
\* had none on that sale.
LEMMA PasConstater ==
    ASSUME Co!Domaines, Co!SInv, UneALaFois, NEW q \in Requetes, Co!ConstaterCommissions(q)
    PROVE  Co!SInv'
<1>1. PICK x, D : x = req[q].reservation /\ D = req[q].dus
  OBVIOUS
<1>2. /\ x \in Reservations /\ D \in SUBSET (1..MaxMandats)
      /\ \A i \in D : ~Co!Constatee(i, x)
  BY <1>1, FormesCourtage DEF Co!ConstaterCommissions, Co!En, Co!SInv, Co!TypeOK, Co!Actuel
<1>3. PICK N : N = {[mandat |-> i, reservation |-> x, statut |-> "DUE"] : i \in D}
  OBVIOUS
<1>4. N \subseteq Co!Commission /\ \A n \in N : n.mandat \in D /\ n.reservation = x
  <2> SUFFICES ASSUME NEW n \in N
               PROVE  n \in Co!Commission /\ n.mandat \in D /\ n.reservation = x
    OBVIOUS
  <2>1. PICK i \in D : n = [mandat |-> i, reservation |-> x, statut |-> "DUE"]
    BY <1>3
  <2> QED BY <1>2, <2>1 DEF Co!Commission
<1>5. \A m, n \in N : m.mandat = n.mandat => m = n
  BY <1>3
<1>6. IsFiniteSet(N)
  <2>1. IsFiniteSet(1..MaxMandats)
    BY FS_Interval DEF Co!Domaines
  <2>2. IsFiniteSet(D)
    BY <1>2, <2>1, FS_Subset
  <2>3. PICK f : f = [i \in D |-> [mandat |-> i, reservation |-> x, statut |-> "DUE"]]
    OBVIOUS
  <2>4. f \in Surjection(D, N)
    BY <1>3, <2>3 DEF Surjection
  <2> QED BY <2>2, <2>4, FS_Surjection
<1>l. PICK l \in Nat : l = Cardinality(N)
  BY <1>6, EnSequence
<1>7. PICK t \in [1..l -> N] :
         t = Co!SetToSeq(N) /\ \A a, b \in 1..l : t[a] = t[b] => a = b
  BY <1>6, <1>l, EnSequence
<1>8. /\ commissions' = commissions \o t /\ Len(commissions) + l <= MaxCommissions
      /\ Co!Finir(q) /\ UNCHANGED <<reservations, mandats>>
  BY <1>1, <1>3, <1>7, <1>l, TailleCourtage DEF Co!ConstaterCommissions
<1>9. t \in Seq(Co!Commission) /\ Len(t) = l
  BY <1>4, <1>7
<1>10. /\ commissions' \in Seq(Co!Commission) /\ Len(commissions') = Len(commissions) + l
       /\ \A c \in 1..Len(commissions) : commissions'[c] = commissions[c]
       /\ \A c \in (Len(commissions) + 1)..(Len(commissions) + l) :
             commissions'[c] = t[c - Len(commissions)]
  <2>1. commissions \in Seq(Co!Commission)
    BY DEF Co!SInv, Co!TypeOK
  <2>2. commissions \o t \in Seq(Co!Commission) /\ Len(commissions \o t) = Len(commissions) + Len(t)
    BY <1>9, <2>1
  <2>3. \A c \in 1..(Len(commissions) + Len(t)) :
           (commissions \o t)[c] = IF c <= Len(commissions) THEN commissions[c]
                                   ELSE t[c - Len(commissions)]
    BY <1>9, <2>1
  <2>4. Len(commissions) \in Nat
    BY <2>1
  <2> QED BY <1>8, <1>9, <2>2, <2>3, <2>4
<1>11. \A c \in (Len(commissions) + 1)..(Len(commissions) + l) :
          /\ commissions'[c] \in N /\ c - Len(commissions) \in 1..l
  <2>1. Len(commissions) \in Nat
    BY DEF Co!SInv, Co!TypeOK
  <2> QED BY <1>7, <1>10, <2>1
<1>12. Co!CommissionUnique'
  <2>1. Len(commissions) \in Nat /\ DOMAIN commissions = 1..Len(commissions)
        /\ DOMAIN commissions' = 1..(Len(commissions) + l)
    BY <1>10 DEF Co!SInv, Co!TypeOK
  <2> DEFINE Ancienne(c) == c \in 1..Len(commissions)
             Nouvelle(c) == c \in (Len(commissions) + 1)..(Len(commissions) + l)
  <2>2. \A c \in DOMAIN commissions' : Ancienne(c) \/ Nouvelle(c)
    BY <2>1
  <2>3. ASSUME NEW c, NEW d, Ancienne(c), Nouvelle(d)
        PROVE  ~(/\ commissions'[c].mandat = commissions'[d].mandat
                 /\ commissions'[c].reservation = commissions'[d].reservation)
    <3>1. commissions'[d].mandat \in D /\ commissions'[d].reservation = x
      BY <1>4, <1>11, <2>3
    <3>2. ~Co!Constatee(commissions'[d].mandat, x)
      BY <1>2, <3>1
    <3>3. commissions'[c] = commissions[c] /\ c \in DOMAIN commissions
      BY <1>10, <2>1, <2>3
    <3> QED BY <3>1, <3>2, <3>3 DEF Co!Constatee
  <2>4. ASSUME NEW c, NEW d, Ancienne(c), Ancienne(d),
               commissions'[c].mandat = commissions'[d].mandat,
               commissions'[c].reservation = commissions'[d].reservation
        PROVE  c = d
    BY <1>10, <2>1, <2>4 DEF Co!SInv, Co!CommissionUnique
  <2>5. ASSUME NEW c, NEW d, Nouvelle(c), Nouvelle(d),
               commissions'[c].mandat = commissions'[d].mandat
        PROVE  c = d
    <3>1. commissions'[c] = commissions'[d]
      BY <1>5, <1>11, <2>5
    <3>2. c - Len(commissions) = d - Len(commissions)
      BY <1>7, <1>10, <1>11, <2>5, <3>1
    <3> QED BY <2>1, <2>5, <3>2
  <2> HIDE DEF Ancienne, Nouvelle
  <2> QED BY <2>2, <2>3, <2>4, <2>5 DEF Co!CommissionUnique
<1>13. req' \in [Requetes -> Co!Requete] /\ \A p \in Requetes : Co!Actuel(req[p])'
  BY <1>8, Ecriture DEF Co!SInv, Co!TypeOK
<1>14. Len(commissions') <= MaxCommissions
  BY <1>8, <1>10
<1>15. Co!ExclusiviteTenue'
  BY <1>8 DEF Co!SInv, Co!ExclusiviteTenue, Co!EnForce
<1> QED BY <1>8, <1>10, <1>12, <1>13, <1>14, <1>15 DEF Co!SInv, Co!TypeOK

(***************************************************************************)
(* What is written at once                                                 *)
(***************************************************************************)
\* A commission that changes status stays that of its mandate and of its sale.
LEMMA PasStatutCommission ==
    ASSUME Co!Domaines, Co!SInv, NEW c \in DOMAIN commissions,
           NEW s \in {"DUE", "FACTUREE", "PAYEE", "ANNULEE"}, Co!ChangerStatutCommission(c, s)
    PROVE  Co!SInv'
<1>1. /\ commissions' = [commissions EXCEPT ![c].statut = s]
      /\ UNCHANGED <<reservations, mandats, req>>
  BY DEF Co!ChangerStatutCommission
<1>a. commissions[c] \in Co!Commission
  BY LignesCourtage DEF Co!SInv
<1>2. PICK n \in Co!Commission : n = [commissions[c] EXCEPT !.statut = s]
  BY <1>a DEF Co!Commission
<1>3. n.mandat = commissions[c].mandat /\ n.reservation = commissions[c].reservation
  BY <1>2, <1>a DEF Co!Commission
<1>4. commissions' = [commissions EXCEPT ![c] = n]
  BY <1>1, <1>2
<1>5. /\ commissions' \in Seq(Co!Commission) /\ Len(commissions') = Len(commissions)
      /\ DOMAIN commissions' = DOMAIN commissions
      /\ \A d \in DOMAIN commissions :
            /\ commissions'[d].mandat = commissions[d].mandat
            /\ commissions'[d].reservation = commissions[d].reservation
  BY <1>3, <1>4 DEF Co!SInv, Co!TypeOK
<1>6. Co!CommissionUnique'
  BY <1>5 DEF Co!SInv, Co!CommissionUnique
<1>7. ASSUME NEW q \in Requetes PROVE Co!Actuel(req[q])'
  BY <1>1, <1>5 DEF Co!SInv, Co!Actuel, Co!EnForce, Co!SansConflit, Co!Incompatibles, Co!Constatee
<1> QED BY <1>1, <1>5, <1>6, <1>7 DEF Co!SInv, Co!TypeOK, Co!ExclusiviteTenue, Co!EnForce

LEMMA PasReservation ==
    ASSUME Co!SInv, UNCHANGED <<mandats, commissions, req>>,
           reservations' \in [Reservations -> Co!Reservation]
    PROVE  Co!SInv'
<1>1. ASSUME NEW q \in Requetes PROVE Co!Actuel(req[q])'
  BY DEF Co!SInv, Co!Actuel, Co!EnForce, Co!SansConflit, Co!Incompatibles, Co!Constatee
<1> QED BY <1>1 DEF Co!SInv, Co!TypeOK, Co!ExclusiviteTenue, Co!CommissionUnique, Co!EnForce

LEMMA PasInterrompreCourtage ==
    ASSUME Co!SInv, UneALaFois, NEW q \in Requetes, Co!Interrompre(q)
    PROVE  Co!SInv'
<1>1. Co!Finir(q) /\ UNCHANGED <<reservations, mandats, commissions>>
  BY DEF Co!Interrompre
<1>2. req' \in [Requetes -> Co!Requete] /\ \A p \in Requetes : Co!Actuel(req[p])'
  BY <1>1, Ecriture DEF Co!SInv, Co!TypeOK
<1> QED BY <1>1, <1>2 DEF Co!SInv, Co!TypeOK, Co!ExclusiviteTenue, Co!CommissionUnique, Co!EnForce

LEMMA DepartCourtage == ASSUME Co!Domaines, Co!Init PROVE Co!SInv
<1>1. reservations \in [Reservations -> Co!Reservation]
  BY DEF Co!Init, Co!Reservation
<1>2. mandats = <<>> /\ commissions = <<>> /\ req \in [Requetes -> Co!Requete]
  BY LibreVautCourtage DEF Co!Init
<1>3. \A q \in Requetes : Co!Actuel(req[q])
  BY LibreVautCourtage DEF Co!Init, Co!Actuel
<1> QED BY <1>1, <1>2, <1>3 DEF Co!SInv, Co!TypeOK, Co!ExclusiviteTenue, Co!CommissionUnique,
           Co!Domaines

(***************************************************************************)
(* Theorems                                                                *)
(***************************************************************************)
\* changerStatutMandat and constaterCommissions, one request at a time: what
\* allowed a mandate into force, and what was found due, is still so when the
\* row is written.
THEOREM CourtageEnSerie == ASSUME Co!Domaines, UneALaFois PROVE Co!Spec => []Co!SInv
<1>1. Co!Init => Co!SInv
  BY DepartCourtage
<1>2. ASSUME Co!SInv, [Co!Next]_Co!vars PROVE Co!SInv'
  <2>1. CASE UNCHANGED Co!vars
    <3>1. UNCHANGED <<reservations, mandats, commissions, req>>
      BY <2>1 DEF Co!vars
    <3> QED BY <1>2, <3>1, PasReservation DEF Co!SInv, Co!TypeOK
  <2>2. CASE Co!Immediat
    <3>1. ASSUME NEW x \in Reservations, NEW y \in Co!Reservation, Co!ModifierReservation(x, y)
          PROVE  Co!SInv'
      <4>1. reservations' \in [Reservations -> Co!Reservation]
        BY <1>2, <3>1 DEF Co!ModifierReservation, Co!SInv, Co!TypeOK
      <4> QED BY <1>2, <3>1, <4>1, PasReservation DEF Co!ModifierReservation
    <3> QED BY <1>2, <2>2, <3>1, PasStatutCommission DEF Co!Immediat
  <2>3. ASSUME NEW q \in Requetes, Co!Mandats(q) PROVE Co!SInv'
    BY <1>2, <2>3, PasLireMandat, PasCreerMandat, PasLireStatut, PasStatutMandat DEF Co!Mandats
  <2>4. ASSUME NEW q \in Requetes, Co!Commissions(q) PROVE Co!SInv'
    BY <1>2, <2>4, PasLireConstat, PasConstater DEF Co!Commissions
  <2> QED BY <1>2, <2>1, <2>2, <2>3, <2>4, PasInterrompreCourtage DEF Co!Next
<1> QED BY <1>1, <1>2, PTL DEF Co!Spec

\* refuserConflitExclusivite, one request at a time: no lot is under two
\* mandates in force of which one is exclusive, whatever order mandates are
\* written, signed, ended and put back in.
THEOREM ExclusivitesTenues == ASSUME Co!Domaines, UneALaFois PROVE Co!Spec => []Co!ExclusiviteTenue
<1>1. Co!SInv => Co!ExclusiviteTenue
  BY DEF Co!SInv
<1> QED BY <1>1, CourtageEnSerie, PTL

\* constaterCommissions, one request at a time: a mandate states one commission
\* on a sale, whatever happens to the sale, the mandate and the commission
\* meanwhile.
THEOREM CommissionsUniques == ASSUME Co!Domaines, UneALaFois PROVE Co!Spec => []Co!CommissionUnique
<1>1. Co!SInv => Co!CommissionUnique
  BY DEF Co!SInv
<1> QED BY <1>1, CourtageEnSerie, PTL

(***************************************************************************)
(* Ged.                                                                    *)
(***************************************************************************)
\* A set has the size that the component gives it.
LEMMA TailleGed == \A S : Ge!Cardinality(S) = Cardinality(S)
BY DEF Ge!Cardinality, Cardinality

(***************************************************************************)
(* Documents: the shape of a request and of a row                          *)
(***************************************************************************)
Natures == {"piece", "pv", "redige"}

LEMMA FormesGed ==
    ASSUME NEW r \in Ge!Requete
    PROVE  /\ r.etat \in {"libre", "pv", "depot", "depose", "version", "stockee", "numero",
                          "suppression", "effacement"}
           /\ r.etat = "pv" => r.d \in Ge!Numeros \cup {NUL}
           /\ r.etat \in {"depot", "depose"} => r.nature \in Natures
           /\ r.etat \in {"version", "stockee", "numero"} =>
                 r.racine \in Ge!Numeros /\ r.nature \in {"piece", "pv"}
           /\ r.etat \in {"version", "stockee"} => r.lue \in Nat
           /\ r.etat = "numero" => r.version \in Nat /\ r.chaine \in SUBSET Ge!Numeros
           /\ r.etat = "suppression" => r.d \in Ge!Numeros
           /\ Ge!Tient(r) \/ r.etat \in {"suppression", "effacement"} => r.fichier \in Ge!Cles
BY DEF Ge!Requete, Natures, Ge!Tient

LEMMA LibreVautGed == Ge!Libre \in Ge!Requete /\ Ge!Libre.etat = "libre"
BY DEF Ge!Libre, Ge!Requete

LEMMA LignesGed ==
    ASSUME Ge!Domaines, Ge!TypeOK
    PROVE  /\ MaxDocuments \in Nat /\ deposes \in Nat /\ cles \in Nat
           /\ deposes <= MaxDocuments /\ cles <= MaxDocuments + 1
           /\ Ge!Presents \subseteq Ge!Numeros /\ NUL \notin Ge!Numeros
           /\ \A d \in Ge!Presents :
                 /\ documents[d] \in Ge!Document /\ documents[d].fichier \in Nat
                 /\ documents[d].version \in Nat /\ documents[d].version >= 1
                 /\ documents[d].nature \in Natures
                 /\ documents[d].parent \in Ge!Numeros \cup {NUL}
           /\ \A d \in Ge!Numeros : d \notin Ge!Presents => documents[d] = NUL
<1>1. /\ MaxDocuments \in Nat /\ deposes \in Nat /\ cles \in Nat
      /\ deposes <= MaxDocuments /\ cles <= MaxDocuments + 1
  BY DEF Ge!Domaines, Ge!TypeOK
<1>2. NUL \notin Ge!Numeros
  BY DEF Ge!Domaines, Ge!Numeros
<1>3. ASSUME NEW d \in Ge!Presents
      PROVE  /\ documents[d] \in Ge!Document /\ documents[d].fichier \in Nat
             /\ documents[d].version \in Nat /\ documents[d].version >= 1
             /\ documents[d].nature \in Natures
             /\ documents[d].parent \in Ge!Numeros \cup {NUL}
  <2>1. documents[d] \in Ge!Document
    BY DEF Ge!TypeOK, Ge!Presents
  <2> QED BY <1>1, <2>1 DEF Ge!Document, Ge!Cles, Natures
<1> QED BY <1>1, <1>2, <1>3 DEF Ge!Presents

(***************************************************************************)
(* What a step of one request leaves to the others                         *)
(***************************************************************************)
\* A request that keeps r: its own part, and the files the others hold.
LEMMA Suite ==
    ASSUME NEW q \in Requetes, NEW r \in Ge!Requete, Ge!Garder(q, r),
           req \in [Requetes -> Ge!Requete],
           \A p \in Requetes, o \in Ge!Requete : p # q /\ o = req[p] => Ge!Suivi(o)',
           Ge!Suivi(r)',
           \A p, o \in Requetes :
              p # o /\ Ge!Tient(req[p]) /\ (Ge!Tient(req[o]) \/ Ge!En(o, "effacement"))
                => req[p].fichier # req[o].fichier,
           \A p \in Requetes : p # q /\ Ge!Tient(req[p]) /\ (Ge!Tient(r) \/ r.etat = "effacement")
                => req[p].fichier # r.fichier,
           \A p \in Requetes : p # q /\ Ge!En(p, "effacement") /\ Ge!Tient(r)
                => req[p].fichier # r.fichier
    PROVE  /\ req' \in [Requetes -> Ge!Requete]
           /\ \A p \in Requetes : Ge!Suivi(req[p])'
           /\ \A p, o \in Requetes :
                 (p # o /\ Ge!Tient(req[p]) /\ (Ge!Tient(req[o]) \/ Ge!En(o, "effacement"))
                   => req[p].fichier # req[o].fichier)'
<1>1. req' = [req EXCEPT ![q] = r]
  BY DEF Ge!Garder
<1>2. /\ req' \in [Requetes -> Ge!Requete] /\ req'[q] = r
      /\ \A p \in Requetes : p # q => req'[p] = req[p]
  BY <1>1
<1>3. ASSUME NEW p \in Requetes PROVE Ge!Suivi(req[p])'
  <2>1. CASE p = q
    <3>1. req'[p] = r
      BY <1>2, <2>1
    <3> QED BY <3>1 DEF Ge!Suivi
  <2>2. CASE p # q
    <3>1. PICK o \in Ge!Requete : o = req[p]
      OBVIOUS
    <3>2. Ge!Suivi(o)' /\ req'[p] = o
      BY <1>2, <2>2, <3>1
    <3> QED BY <3>2 DEF Ge!Suivi
  <2> QED BY <2>1, <2>2
<1>4. ASSUME NEW p \in Requetes, NEW o \in Requetes, p # o,
             Ge!Tient(req'[p]), Ge!Tient(req'[o]) \/ req'[o].etat = "effacement"
      PROVE  req'[p].fichier # req'[o].fichier
  <2>1. CASE p = q
    <3>1. req'[o] = req[o] /\ req'[p] = r
      BY <1>2, <1>4, <2>1
    <3>2. CASE Ge!Tient(req[o])
      BY <1>4, <2>1, <3>1, <3>2
    <3>3. CASE req[o].etat = "effacement"
      BY <1>4, <2>1, <3>1, <3>3 DEF Ge!En
    <3> QED BY <1>4, <3>1, <3>2, <3>3
  <2>2. CASE o = q
    <3>1. req'[p] = req[p] /\ req'[o] = r
      BY <1>2, <1>4, <2>2
    <3> QED BY <1>4, <2>2, <3>1
  <2>3. CASE p # q /\ o # q
    <3>1. req'[p] = req[p] /\ req'[o] = req[o]
      BY <1>2, <2>3
    <3> QED BY <1>4, <3>1 DEF Ge!En
  <2> QED BY <2>1, <2>2, <2>3
<1> QED BY <1>2, <1>3, <1>4 DEF Ge!En, Ge!Tient

\* What a request knows it still knows, as long as nobody takes its file, its
\* row or gives its file to another row.
LEMMA Stable ==
    ASSUME Ge!Domaines, Ge!TypeOK, NEW o \in Ge!Requete, Ge!Suivi(o),
           deposes' \in Nat, cles' \in Nat, deposes <= deposes', cles <= cles',
           Ge!Tient(o) => o.fichier \in fichiers',
           Ge!Tient(o) \/ o.etat = "effacement" => ~Ge!Nomme(o.fichier)',
           o.etat = "suppression" /\ o.d \in Ge!Presents' =>
              o.d \in Ge!Presents /\ documents'[o.d].fichier = documents[o.d].fichier
    PROVE  Ge!Suivi(o)'
<1>1. deposes \in Nat /\ cles \in Nat
  BY LignesGed
<1>2. o.etat \in {"version", "stockee"} => o.lue <= deposes'
  BY <1>1, FormesGed DEF Ge!Suivi
<1>3. o.etat = "numero" => o.version \in 1..deposes' + 1
  BY <1>1 DEF Ge!Suivi
<1>4. o.etat = "effacement" => o.fichier <= cles'
  <2>1. o.etat = "effacement" => o.fichier \in Nat /\ o.fichier <= cles
    BY FormesGed DEF Ge!Suivi, Ge!Cles
  <2> QED BY <1>1, <2>1
<1>5. o.etat = "suppression" => o.d <= deposes' /\ o.fichier <= cles'
  <2>1. o.etat = "suppression" =>
           o.fichier \in Nat /\ o.fichier <= cles /\ o.d \in Nat /\ o.d <= deposes
    BY FormesGed DEF Ge!Suivi, Ge!Cles, Ge!Numeros
  <2> QED BY <1>1, <2>1
<1>6. o.etat = "suppression" /\ o.d \in Ge!Presents' => documents'[o.d].fichier = o.fichier
  BY DEF Ge!Suivi
<1> QED BY <1>2, <1>3, <1>4, <1>5, <1>6 DEF Ge!Suivi, Ge!Tient

\* A reading, a refusal or a stop: no file changes hands.
LEMMA Calme ==
    ASSUME Ge!Domaines, Ge!IInv, NEW q \in Requetes, NEW r \in Ge!Requete, Ge!Garder(q, r),
           UNCHANGED <<documents, deposes, cles, fichiers>>, Ge!Suivi(r), r.etat # "effacement",
           Ge!Tient(r) => Ge!Tient(req[q]) /\ req[q].fichier = r.fichier
    PROVE  Ge!IInv'
<1>1. Ge!Presents' = Ge!Presents /\ \A f : Ge!Nomme(f)' <=> Ge!Nomme(f)
  BY DEF Ge!Presents, Ge!Nomme
<1>2. \A o \in Ge!Requete : Ge!Suivi(o) => Ge!Suivi(o)'
  BY <1>1 DEF Ge!Suivi, Ge!Tient
<1>3. /\ req' \in [Requetes -> Ge!Requete]
      /\ \A p \in Requetes : Ge!Suivi(req[p])'
      /\ \A p, o \in Requetes :
            (p # o /\ Ge!Tient(req[p]) /\ (Ge!Tient(req[o]) \/ Ge!En(o, "effacement"))
              => req[p].fichier # req[o].fichier)'
  <2>1. \A p \in Requetes : p # q /\ Ge!Tient(req[p]) /\ (Ge!Tient(r) \/ r.etat = "effacement")
                => req[p].fichier # r.fichier
    BY DEF Ge!IInv
  <2>2. \A p \in Requetes : p # q /\ Ge!En(p, "effacement") /\ Ge!Tient(r)
                => req[p].fichier # r.fichier
    BY DEF Ge!IInv
  <2>3. \A p \in Requetes, o \in Ge!Requete : p # q /\ o = req[p] => Ge!Suivi(o)'
    BY <1>2 DEF Ge!IInv
  <2> QED BY <1>2, <2>1, <2>2, <2>3, Suite DEF Ge!IInv, Ge!TypeOK
<1>4. Ge!TypeOK'
  BY <1>3 DEF Ge!IInv, Ge!TypeOK
<1>5. Ge!FichePresente'
  BY <1>1 DEF Ge!IInv, Ge!FichePresente
<1>6. \A d \in Ge!Presents' : d <= deposes' /\ documents'[d].version <= deposes'
  BY <1>1 DEF Ge!IInv
<1> QED BY <1>3, <1>4, <1>5, <1>6 DEF Ge!IInv

\* A file is written under a key nobody has.
LEMMA Stockage ==
    ASSUME Ge!Domaines, Ge!IInv, NEW q \in Requetes, NEW r \in Ge!Requete, Ge!Garder(q, r),
           Ge!Stocker,
           UNCHANGED <<documents, deposes>>, Ge!Tient(r), r.fichier = cles + 1,
           r.etat # "numero", r.etat = "stockee" => r.lue <= deposes
    PROVE  Ge!IInv'
<1>1. Ge!Presents' = Ge!Presents /\ \A f : Ge!Nomme(f)' <=> Ge!Nomme(f)
  BY DEF Ge!Presents, Ge!Nomme
<1>2. /\ cles \in Nat /\ cles' = cles + 1 /\ cles < MaxDocuments + 1 /\ deposes \in Nat
      /\ fichiers' = fichiers \cup {cles + 1} /\ fichiers \subseteq 1..cles
      /\ MaxDocuments \in Nat
  BY LignesGed DEF Ge!Stocker, Ge!IInv, Ge!TypeOK
<1>3. ~Ge!Nomme(cles + 1)
  BY <1>2 DEF Ge!IInv, Ge!FichePresente, Ge!Nomme
<1>4. Ge!Suivi(r)'
  BY <1>1, <1>2, <1>3 DEF Ge!Suivi, Ge!Tient
<1>5. ASSUME NEW p \in Requetes, NEW o \in Ge!Requete, o = req[p], p # q PROVE Ge!Suivi(o)'
  <2>1. Ge!Suivi(o)
    BY <1>5 DEF Ge!IInv
  <2>2. Ge!Tient(o) => o.fichier \in fichiers'
    BY <1>2, <2>1 DEF Ge!Suivi
  <2>3. Ge!Tient(o) \/ o.etat = "effacement" => ~Ge!Nomme(o.fichier)'
    BY <1>1, <2>1 DEF Ge!Suivi
  <2> QED BY <1>1, <1>2, <2>1, <2>2, <2>3, Stable DEF Ge!IInv
<1>6. \A p \in Requetes : Ge!Tient(req[p]) \/ Ge!En(p, "effacement") => req[p].fichier # cles + 1
  <2>1. ASSUME NEW p \in Requetes, Ge!Tient(req[p]) PROVE req[p].fichier # cles + 1
    BY <1>2, <2>1 DEF Ge!IInv, Ge!Suivi
  <2>2. ASSUME NEW p \in Requetes, Ge!En(p, "effacement") PROVE req[p].fichier # cles + 1
    <3>1. req[p].fichier <= cles /\ req[p].fichier \in Nat
      BY <2>2, FormesGed DEF Ge!IInv, Ge!TypeOK, Ge!Suivi, Ge!En, Ge!Cles
    <3> QED BY <1>2, <3>1
  <2> QED BY <2>1, <2>2
<1>7. /\ req' \in [Requetes -> Ge!Requete]
      /\ \A p \in Requetes : Ge!Suivi(req[p])'
      /\ \A p, o \in Requetes :
            (p # o /\ Ge!Tient(req[p]) /\ (Ge!Tient(req[o]) \/ Ge!En(o, "effacement"))
              => req[p].fichier # req[o].fichier)'
  BY <1>4, <1>5, <1>6, Suite DEF Ge!IInv, Ge!TypeOK
<1>8. Ge!TypeOK'
  <2>1. fichiers' \subseteq 1..cles' /\ cles' \in 0..MaxDocuments + 1
    BY <1>2
  <2> QED BY <1>7, <2>1 DEF Ge!IInv, Ge!TypeOK
<1>9. Ge!FichePresente'
  BY <1>1, <1>2 DEF Ge!IInv, Ge!FichePresente
<1>10. \A d \in Ge!Presents' : d <= deposes' /\ documents'[d].version <= deposes'
  BY <1>1 DEF Ge!IInv
<1> QED BY <1>7, <1>8, <1>9, <1>10 DEF Ge!IInv

(***************************************************************************)
(* A row written                                                           *)
(***************************************************************************)
\* What a row written changes, with C no longer current.
Ligne(l, C, n) ==
    /\ n \in Ge!Numeros /\ n = deposes + 1 /\ n \notin Ge!Presents
    /\ deposes' = n
    /\ documents' \in [Ge!Numeros -> Ge!Document \cup {NUL}]
    /\ Ge!Presents' = Ge!Presents \cup {n}
    /\ documents'[n] = l
    /\ \A d \in Ge!Presents :
          /\ documents'[d].parent = documents[d].parent
          /\ documents'[d].version = documents[d].version
          /\ documents'[d].fichier = documents[d].fichier
          /\ documents'[d].nature = documents[d].nature
          /\ documents'[d].courant = (documents[d].courant /\ d \notin C)

LEMMA Ecrit ==
    ASSUME Ge!Domaines, Ge!IInv, NEW l \in Ge!Document, NEW C \in SUBSET Ge!Numeros, Ge!Ecrire(l,
           C)
    PROVE  \E n \in Ge!Numeros : Ligne(l, C, n)
<1>1. PICK n : n = deposes + 1
  OBVIOUS
<1>2. /\ deposes \in Nat /\ MaxDocuments \in Nat /\ deposes < MaxDocuments
  BY LignesGed DEF Ge!Ecrire, Ge!IInv
<1>3. n \in Ge!Numeros /\ n \notin Ge!Presents
  BY <1>1, <1>2 DEF Ge!Numeros, Ge!IInv
<1>4. /\ deposes' = n
      /\ documents' = [d \in Ge!Numeros |->
             IF d = n THEN l
             ELSE IF d \in C \cap Ge!Presents THEN [documents[d] EXCEPT !.courant = FALSE]
             ELSE documents[d]]
  BY <1>1 DEF Ge!Ecrire
<1>5. documents'[n] = l
  BY <1>3, <1>4
<1>6. ASSUME NEW d \in Ge!Presents
      PROVE  /\ documents'[d] \in Ge!Document
             /\ documents'[d].parent = documents[d].parent
             /\ documents'[d].version = documents[d].version
             /\ documents'[d].fichier = documents[d].fichier
             /\ documents'[d].nature = documents[d].nature
             /\ documents'[d].courant = (documents[d].courant /\ d \notin C)
  <2>1. documents[d] \in Ge!Document /\ d \in Ge!Numeros /\ d # n
    BY <1>3, LignesGed DEF Ge!IInv
  <2>2. CASE d \in C
    <3>1. documents'[d] = [documents[d] EXCEPT !.courant = FALSE]
      BY <1>4, <2>1, <2>2
    <3> QED BY <2>1, <2>2, <3>1 DEF Ge!Document
  <2>3. CASE d \notin C
    <3>1. documents'[d] = documents[d]
      BY <1>4, <2>1, <2>3
    <3> QED BY <2>1, <2>3, <3>1 DEF Ge!Document
  <2> QED BY <2>2, <2>3
<1>7. \A d \in Ge!Numeros \ (Ge!Presents \cup {n}) : documents'[d] = NUL
  BY <1>4, LignesGed DEF Ge!IInv
<1>8. documents' \in [Ge!Numeros -> Ge!Document \cup {NUL}]
  <2>1. \A d \in Ge!Numeros : documents'[d] \in Ge!Document \cup {NUL}
    BY <1>5, <1>6, <1>7
  <2> QED BY <1>4, <2>1
<1>9. Ge!Presents' = Ge!Presents \cup {n}
  <2>1. \A d \in Ge!Presents : documents'[d] # NUL
    BY <1>6 DEF Ge!Domaines
  <2>2. documents'[n] # NUL
    BY <1>5 DEF Ge!Domaines
  <2> QED BY <1>3, <1>7, <2>1, <2>2 DEF Ge!Presents
<1> QED BY <1>1, <1>3, <1>4, <1>5, <1>6, <1>8, <1>9 DEF Ligne

\* The file that waited gets its row.
LEMMA Inscription ==
    ASSUME Ge!Domaines, Ge!IInv, NEW q \in Requetes, NEW l \in Ge!Document,
           NEW C \in SUBSET Ge!Numeros,
           Ge!Ecrire(l, C), Ge!Tient(req[q]), l.fichier = req[q].fichier,
           l.version <= deposes + 1,
           Ge!Finir(q), UNCHANGED <<cles, fichiers>>
    PROVE  Ge!IInv'
<1>1. PICK n \in Ge!Numeros : Ligne(l, C, n)
  BY Ecrit
<1>2. l.fichier \in fichiers /\ ~Ge!Nomme(l.fichier)
  BY DEF Ge!IInv, Ge!Suivi
<1>3. \A f : Ge!Nomme(f)' => Ge!Nomme(f) \/ f = l.fichier
  BY <1>1 DEF Ligne, Ge!Nomme
<1>4. deposes \in Nat /\ cles \in Nat /\ deposes' = deposes + 1 /\ n = deposes + 1
      /\ MaxDocuments \in Nat
  BY <1>1, LignesGed DEF Ligne, Ge!IInv
<1>5. ASSUME NEW p \in Requetes, NEW o \in Ge!Requete, o = req[p], p # q PROVE Ge!Suivi(o)'
  <2>1. Ge!Suivi(o)
    BY <1>5 DEF Ge!IInv
  <2>2. Ge!Tient(o) \/ o.etat = "effacement" => o.fichier # l.fichier
    BY <1>5 DEF Ge!IInv, Ge!En
  <2>3. Ge!Tient(o) \/ o.etat = "effacement" => ~Ge!Nomme(o.fichier)'
    BY <1>3, <2>1, <2>2 DEF Ge!Suivi
  <2>4. o.etat = "suppression" /\ o.d \in Ge!Presents' =>
           o.d \in Ge!Presents /\ documents'[o.d].fichier = documents[o.d].fichier
    <3>1. o.etat = "suppression" => o.d # n
      BY <1>4, <2>1, FormesGed DEF Ge!Suivi, Ge!Numeros
    <3> QED BY <1>1, <3>1 DEF Ligne
  <2>5. Ge!Tient(o) => o.fichier \in fichiers'
    BY <2>1 DEF Ge!Suivi
  <2> QED BY <1>4, <2>1, <2>3, <2>4, <2>5, Stable DEF Ge!IInv
<1>6. Ge!Suivi(Ge!Libre)' /\ ~Ge!Tient(Ge!Libre) /\ Ge!Libre.etat # "effacement"
  BY LibreVautGed DEF Ge!Suivi, Ge!Tient
<1>7. /\ req' \in [Requetes -> Ge!Requete]
      /\ \A p \in Requetes : Ge!Suivi(req[p])'
      /\ \A p, o \in Requetes :
            (p # o /\ Ge!Tient(req[p]) /\ (Ge!Tient(req[o]) \/ Ge!En(o, "effacement"))
              => req[p].fichier # req[o].fichier)'
  BY <1>5, <1>6, LibreVautGed, Suite DEF Ge!IInv, Ge!TypeOK, Ge!Finir
<1>8. Ge!TypeOK'
  <2>1. deposes' \in 0..MaxDocuments
    BY <1>1, <1>4 DEF Ge!Numeros
  <2> QED BY <1>1, <1>7, <2>1 DEF Ge!IInv, Ge!TypeOK, Ligne
<1>9. Ge!FichePresente'
  <2>1. \A d \in Ge!Presents : documents'[d].fichier = documents[d].fichier
    BY <1>1 DEF Ligne
  <2>2. \A d \in Ge!Presents : documents'[d].fichier # l.fichier
    BY <1>2, <2>1 DEF Ge!Nomme
  <2>3. Ge!Presents' = Ge!Presents \cup {n} /\ documents'[n].fichier = l.fichier
    BY <1>1 DEF Ligne
  <2> QED BY <1>2, <2>1, <2>2, <2>3 DEF Ge!IInv, Ge!FichePresente
<1>10. \A d \in Ge!Presents' : d <= deposes' /\ documents'[d].version <= deposes'
  <2>1. \A d \in Ge!Presents : d \in Nat /\ d <= deposes /\ documents[d].version \in Nat
                               /\ documents[d].version <= deposes
    BY LignesGed DEF Ge!IInv, Ge!Numeros
  <2> QED BY <1>1, <1>4, <2>1 DEF Ligne
<1> QED BY <1>7, <1>8, <1>9, <1>10 DEF Ge!IInv

(***************************************************************************)
(* The highest number of a chain                                           *)
(***************************************************************************)
Plus == {xy \in Nat \X Nat : xy[1] < xy[2]}

\* A bounded set of numbers has a greatest one.
LEMMA PlusGrand ==
    ASSUME NEW n \in Nat, NEW T \in SUBSET (0..n), T # {}
    PROVE  Ge!Max(T) \in T /\ \A y \in T : y <= Ge!Max(T)
<1>1. PICK H : H = {n - x : x \in T}
  OBVIOUS
<1>2. H \in SUBSET Nat /\ H # {}
  <2>1. \A x \in T : x \in 0..n
    OBVIOUS
  <2>2. \A x \in T : n - x \in Nat
    BY <2>1
  <2> QED BY <1>1, <2>2
<1>3. IsWellFoundedOn(Plus, Nat)
  BY NatLessThanWellFounded DEF Plus, OpToRel
<1>4. PICK h \in H : \A k \in H : <<k, h>> \notin Plus
  BY <1>2, <1>3, WFMin
<1>5. \A k \in H : h <= k
  <2>1. ASSUME NEW k \in H PROVE h <= k
    <3>1. <<k, h>> \in Nat \X Nat /\ <<k, h>>[1] = k /\ <<k, h>>[2] = h
      BY <1>2
    <3>2. ~(k < h)
      BY <1>4, <3>1 DEF Plus
    <3> QED BY <1>2, <3>2
  <2> QED BY <2>1
<1>6. PICK x \in T : h = n - x
  BY <1>1
<1>7. \A y \in T : x >= y
  <2>1. ASSUME NEW y \in T PROVE x >= y
    <3>1. n - y \in H
      BY <1>1
    <3>2. n - x <= n - y
      BY <1>5, <1>6, <3>1
    <3> QED BY <3>2
  <2> QED BY <2>1
<1>8. \E z \in T : \A y \in T : z >= y
  BY <1>7
<1>9. Ge!Max(T) \in T /\ \A y \in T : Ge!Max(T) >= y
  BY <1>8 DEF Ge!Max
<1>10. Ge!Max(T) \in Int /\ \A y \in T : y \in Int
  <2>1. \A y \in T : y \in 0..n
    OBVIOUS
  <2>2. \A y \in T : y \in Int
    BY <2>1
  <2> QED BY <1>9, <2>2
<1> QED BY <1>9, <1>10

(***************************************************************************)
(* Removal                                                                 *)
(***************************************************************************)
\* A row goes, and its file belongs to none.
LEMMA PasSupprimer ==
    ASSUME Ge!Domaines, Ge!IInv, NEW q \in Requetes, Ge!Supprimer(q)
    PROVE  Ge!IInv'
<1>1. PICK k, f : k = req[q].d /\ f = req[q].fichier
  OBVIOUS
<1>2. /\ req[q].etat = "suppression" /\ k \in Ge!Numeros /\ k \in Ge!Presents /\ f \in Ge!Cles
      /\ documents[k].fichier = f /\ f <= cles
  BY <1>1, FormesGed DEF Ge!Supprimer, Ge!En, Ge!Presents, Ge!IInv, Ge!TypeOK, Ge!Suivi
<1>3. /\ documents' = [d \in Ge!Numeros |->
             IF d = k THEN NUL
             ELSE IF d \in Ge!Enfants(k) THEN [documents[d] EXCEPT !.parent = NUL]
             ELSE documents[d]]
      /\ Ge!Garder(q, [etat |-> "effacement", fichier |-> f])
      /\ UNCHANGED <<deposes, cles, fichiers>>
  BY <1>1 DEF Ge!Supprimer
<1>4. ASSUME NEW d \in Ge!Presents, d # k
      PROVE  /\ documents'[d] \in Ge!Document
             /\ documents'[d].version = documents[d].version
             /\ documents'[d].fichier = documents[d].fichier
  <2>1. documents[d] \in Ge!Document /\ d \in Ge!Numeros
    BY LignesGed DEF Ge!IInv
  <2>2. CASE d \in Ge!Enfants(k)
    <3>1. documents'[d] = [documents[d] EXCEPT !.parent = NUL]
      BY <1>3, <1>4, <2>1, <2>2
    <3> QED BY <2>1, <3>1 DEF Ge!Document
  <2>3. CASE d \notin Ge!Enfants(k)
    <3>1. documents'[d] = documents[d]
      BY <1>3, <1>4, <2>1, <2>3
    <3> QED BY <2>1, <3>1
  <2> QED BY <2>2, <2>3
<1>5. documents'[k] = NUL /\ \A d \in Ge!Numeros \ Ge!Presents : documents'[d] = NUL
  <2>1. \A d \in Ge!Numeros \ Ge!Presents : documents[d] = NUL /\ d \notin Ge!Enfants(k)
    BY LignesGed DEF Ge!IInv, Ge!Enfants
  <2> QED BY <1>2, <1>3, <2>1
<1>6. documents' \in [Ge!Numeros -> Ge!Document \cup {NUL}]
  <2>1. \A d \in Ge!Numeros : documents'[d] \in Ge!Document \cup {NUL}
    BY <1>4, <1>5
  <2> QED BY <1>3, <2>1
<1>7. Ge!Presents' = Ge!Presents \ {k}
  <2>1. \A d \in Ge!Presents \ {k} : documents'[d] # NUL
    BY <1>4 DEF Ge!Domaines
  <2> QED BY <1>5, <2>1, LignesGed DEF Ge!Presents, Ge!IInv
<1>8. \A g : Ge!Nomme(g)' => Ge!Nomme(g) /\ g # f
  <2>1. ASSUME NEW g, NEW d \in Ge!Presents', documents'[d].fichier = g PROVE Ge!Nomme(g) /\ g # f
    <3>1. d \in Ge!Presents /\ d # k /\ documents[d].fichier = g
      BY <1>4, <1>7, <2>1
    <3> QED BY <1>2, <3>1 DEF Ge!Nomme, Ge!IInv, Ge!FichePresente
  <2> QED BY <2>1 DEF Ge!Nomme
<1>9. PICK r \in Ge!Requete : r = [etat |-> "effacement", fichier |-> f]
  BY <1>2 DEF Ge!Requete
<1>10. r.etat = "effacement" /\ r.fichier = f /\ ~Ge!Tient(r) /\ Ge!Suivi(r)'
  BY <1>2, <1>3, <1>8, <1>9 DEF Ge!Suivi, Ge!Tient
<1>11. ASSUME NEW p \in Requetes, NEW o \in Ge!Requete, o = req[p], p # q PROVE Ge!Suivi(o)'
  <2>1. Ge!Suivi(o)
    BY <1>11 DEF Ge!IInv
  <2>2. Ge!Tient(o) \/ o.etat = "effacement" => ~Ge!Nomme(o.fichier)'
    BY <1>8, <2>1 DEF Ge!Suivi
  <2>3. o.etat = "suppression" /\ o.d \in Ge!Presents' =>
           o.d \in Ge!Presents /\ documents'[o.d].fichier = documents[o.d].fichier
    BY <1>4, <1>7
  <2>4. Ge!Tient(o) => o.fichier \in fichiers'
    BY <1>3, <2>1 DEF Ge!Suivi
  <2>5. deposes \in Nat /\ cles \in Nat
    BY LignesGed DEF Ge!IInv
  <2> QED BY <1>3, <2>1, <2>2, <2>3, <2>4, <2>5, Stable DEF Ge!IInv
<1>12. \A p \in Requetes : Ge!Tient(req[p]) => req[p].fichier # f
  <2>1. Ge!Nomme(f)
    BY <1>2 DEF Ge!Nomme
  <2> QED BY <2>1 DEF Ge!IInv, Ge!Suivi
<1>13. /\ req' \in [Requetes -> Ge!Requete]
       /\ \A p \in Requetes : Ge!Suivi(req[p])'
       /\ \A p, o \in Requetes :
             (p # o /\ Ge!Tient(req[p]) /\ (Ge!Tient(req[o]) \/ Ge!En(o, "effacement"))
               => req[p].fichier # req[o].fichier)'
  <2>1. Ge!Garder(q, r)
    BY <1>3, <1>9
  <2> QED BY <2>1, <1>10, <1>11, <1>12, Suite DEF Ge!IInv, Ge!TypeOK
<1>14. Ge!TypeOK'
  BY <1>3, <1>6, <1>13 DEF Ge!IInv, Ge!TypeOK
<1>15. Ge!FichePresente'
  <2>1. \A d \in Ge!Presents' : d \in Ge!Presents /\ documents'[d].fichier = documents[d].fichier
    BY <1>4, <1>7
  <2> QED BY <1>3, <2>1 DEF Ge!IInv, Ge!FichePresente
<1>16. \A d \in Ge!Presents' : d <= deposes' /\ documents'[d].version <= deposes'
  BY <1>3, <1>4, <1>7 DEF Ge!IInv
<1> QED BY <1>13, <1>14, <1>15, <1>16 DEF Ge!IInv

LEMMA PasEffacer ==
    ASSUME Ge!Domaines, Ge!IInv, NEW q \in Requetes, Ge!Effacer(q)
    PROVE  Ge!IInv'
<1>1. PICK f : f = req[q].fichier
  OBVIOUS
<1>2. /\ Ge!En(q, "effacement") /\ fichiers' = fichiers \ {f} /\ Ge!Garder(q, Ge!Libre)
      /\ UNCHANGED <<documents, deposes, cles>>
  BY <1>1 DEF Ge!Effacer, Ge!Finir
<1>3. ~Ge!Nomme(f)
  BY <1>1, <1>2 DEF Ge!IInv, Ge!Suivi, Ge!En
<1>4. Ge!Presents' = Ge!Presents /\ \A g : Ge!Nomme(g)' <=> Ge!Nomme(g)
  BY <1>2 DEF Ge!Presents, Ge!Nomme
<1>5. ASSUME NEW p \in Requetes, NEW o \in Ge!Requete, o = req[p], p # q PROVE Ge!Suivi(o)'
  <2>1. Ge!Suivi(o)
    BY <1>5 DEF Ge!IInv
  <2>2. Ge!Tient(o) => o.fichier # f
    BY <1>1, <1>2, <1>5 DEF Ge!IInv
  <2>3. Ge!Tient(o) => o.fichier \in fichiers'
    BY <1>2, <2>1, <2>2 DEF Ge!Suivi
  <2>4. deposes \in Nat /\ cles \in Nat
    BY LignesGed DEF Ge!IInv
  <2> QED BY <1>2, <1>4, <2>1, <2>3, <2>4, Stable DEF Ge!IInv, Ge!Suivi
<1>6. Ge!Suivi(Ge!Libre)' /\ ~Ge!Tient(Ge!Libre) /\ Ge!Libre.etat # "effacement"
  BY LibreVautGed DEF Ge!Suivi, Ge!Tient
<1>7. /\ req' \in [Requetes -> Ge!Requete]
      /\ \A p \in Requetes : Ge!Suivi(req[p])'
      /\ \A p, o \in Requetes :
            (p # o /\ Ge!Tient(req[p]) /\ (Ge!Tient(req[o]) \/ Ge!En(o, "effacement"))
              => req[p].fichier # req[o].fichier)'
  BY <1>2, <1>5, <1>6, LibreVautGed, Suite DEF Ge!IInv, Ge!TypeOK
<1>8. Ge!TypeOK'
  BY <1>2, <1>7 DEF Ge!IInv, Ge!TypeOK
<1>9. Ge!FichePresente'
  <2>1. \A d \in Ge!Presents : documents[d].fichier # f
    BY <1>3 DEF Ge!Nomme
  <2> QED BY <1>2, <1>4, <2>1 DEF Ge!IInv, Ge!FichePresente
<1>10. \A d \in Ge!Presents' : d <= deposes' /\ documents'[d].version <= deposes'
  BY <1>2, <1>4 DEF Ge!IInv
<1> QED BY <1>7, <1>8, <1>9, <1>10 DEF Ge!IInv

(***************************************************************************)
(* Each step, whatever runs at the same time                               *)
(***************************************************************************)
LEMMA PasLireDepot ==
    ASSUME Ge!Domaines, Ge!IInv, NEW q \in Requetes, NEW k \in Natures, Ge!LireDepot(q, k)
    PROVE  Ge!IInv'
<1>1. PICK r \in Ge!Requete : r = [etat |-> "depot", nature |-> k]
  BY DEF Ge!Requete, Natures
<1>2. Ge!Suivi(r) /\ ~Ge!Tient(r) /\ r.etat # "effacement"
  BY <1>1 DEF Ge!Suivi, Ge!Tient
<1> QED BY <1>1, <1>2, Calme DEF Ge!LireDepot

\* A version is about a row that is there: its number has been given.
LEMMA Version ==
    ASSUME Ge!Domaines, Ge!IInv, NEW d \in Ge!Presents, NEW r,
           r = [etat |-> "version",
                racine |-> IF documents[d].parent = NUL THEN d ELSE documents[d].parent,
                nature |-> Ge!NatureDe(d), lue |-> documents[d].version]
    PROVE  r \in Ge!Requete /\ Ge!Suivi(r) /\ ~Ge!Tient(r) /\ r.etat # "effacement"
<1>1. /\ d \in Ge!Numeros /\ documents[d].version \in Nat /\ documents[d].version <= deposes
      /\ documents[d].parent \in Ge!Numeros \cup {NUL}
  BY LignesGed DEF Ge!IInv
<1>2. Ge!NatureDe(d) \in {"piece", "pv"}
  BY DEF Ge!NatureDe
<1>3. r.etat = "version" /\ r.lue = documents[d].version
  OBVIOUS
<1>4. r \in Ge!Requete
  BY <1>1, <1>2 DEF Ge!Requete
<1> QED BY <1>1, <1>3, <1>4 DEF Ge!Suivi, Ge!Tient

LEMMA PasLireVersion ==
    ASSUME Ge!Domaines, Ge!IInv, NEW q \in Requetes, NEW d \in Ge!Numeros, Ge!LireVersion(q, d)
    PROVE  Ge!IInv'
<1>1. PICK r : r = [etat |-> "version",
                    racine |-> IF documents[d].parent = NUL THEN d ELSE documents[d].parent,
                    nature |-> Ge!NatureDe(d), lue |-> documents[d].version]
  OBVIOUS
<1>2. r \in Ge!Requete /\ Ge!Suivi(r) /\ ~Ge!Tient(r) /\ r.etat # "effacement"
  BY <1>1, Version DEF Ge!LireVersion, Ge!Presents
<1> QED BY <1>1, <1>2, Calme DEF Ge!LireVersion

LEMMA PasLirePv ==
    ASSUME Ge!Domaines, Ge!IInv, NEW q \in Requetes, Ge!LirePv(q)
    PROVE  Ge!IInv'
<1>1. PICK d \in Ge!Numeros \cup {NUL} : Ge!Garder(q, [etat |-> "pv", d |-> d])
  BY LignesGed DEF Ge!LirePv, Ge!Pvs, Ge!IInv
<1>2. PICK r \in Ge!Requete : r = [etat |-> "pv", d |-> d]
  BY DEF Ge!Requete
<1>3. Ge!Suivi(r) /\ ~Ge!Tient(r) /\ r.etat # "effacement"
  BY <1>2 DEF Ge!Suivi, Ge!Tient
<1> QED BY <1>1, <1>2, <1>3, Calme DEF Ge!LirePv

LEMMA PasRedigerPv ==
    ASSUME Ge!Domaines, Ge!IInv, NEW q \in Requetes, Ge!RedigerPv(q)
    PROVE  Ge!IInv'
<1>1. PICK d : d = req[q].d
  OBVIOUS
<1>2. CASE d = NUL
  <2>1. PICK r \in Ge!Requete : r = [etat |-> "depot", nature |-> "redige"]
    BY DEF Ge!Requete
  <2>2. Ge!Suivi(r) /\ ~Ge!Tient(r) /\ r.etat # "effacement"
    BY <2>1 DEF Ge!Suivi, Ge!Tient
  <2> QED BY <1>1, <1>2, <2>1, <2>2, Calme DEF Ge!RedigerPv
<1>3. CASE d # NUL
  <2>1. d \in Ge!Presents
    BY <1>1, <1>3, FormesGed DEF Ge!RedigerPv, Ge!En, Ge!Presents, Ge!IInv, Ge!TypeOK
  <2>2. PICK r : r = [etat |-> "version",
                      racine |-> IF documents[d].parent = NUL THEN d ELSE documents[d].parent,
                      nature |-> Ge!NatureDe(d), lue |-> documents[d].version]
    OBVIOUS
  <2>3. r \in Ge!Requete /\ Ge!Suivi(r) /\ ~Ge!Tient(r) /\ r.etat # "effacement"
    BY <2>1, <2>2, Version
  <2>4. Ge!Garder(q, r) /\ UNCHANGED <<documents, deposes, cles, fichiers>>
    BY <1>1, <1>3, <2>2 DEF Ge!RedigerPv
  <2> QED BY <2>3, <2>4, Calme
<1> QED BY <1>2, <1>3

LEMMA PasStockerDepot ==
    ASSUME Ge!Domaines, Ge!IInv, NEW q \in Requetes, Ge!StockerDepot(q)
    PROVE  Ge!IInv'
<1>1. PICK k, f : k = req[q].nature /\ f = cles + 1
  OBVIOUS
<1>2. k \in Natures /\ f \in Ge!Cles
  BY <1>1, FormesGed, LignesGed DEF Ge!StockerDepot, Ge!Stocker, Ge!En, Ge!IInv, Ge!TypeOK,
     Ge!Cles
<1>3. PICK r \in Ge!Requete : r = [etat |-> "depose", nature |-> k, fichier |-> f]
  BY <1>2 DEF Ge!Requete, Natures
<1>4. /\ Ge!Garder(q, r) /\ Ge!Stocker /\ UNCHANGED <<documents, deposes>>
  BY <1>1, <1>3 DEF Ge!StockerDepot
<1>5. Ge!Tient(r) /\ r.fichier = cles + 1 /\ r.etat = "depose"
  BY <1>1, <1>3 DEF Ge!Tient
<1> QED BY <1>4, <1>5, Stockage

LEMMA PasStockerVersion ==
    ASSUME Ge!Domaines, Ge!IInv, NEW q \in Requetes, Ge!StockerVersion(q)
    PROVE  Ge!IInv'
<1>1. PICK a, k, n, f : /\ a = req[q].racine /\ k = req[q].nature /\ n = req[q].lue
                        /\ f = cles + 1
  OBVIOUS
<1>2. a \in Ge!Numeros /\ k \in {"piece", "pv"} /\ n \in Nat /\ n <= deposes /\ f \in Ge!Cles
  BY <1>1, FormesGed, LignesGed DEF Ge!StockerVersion, Ge!Stocker, Ge!En, Ge!IInv, Ge!TypeOK,
     Ge!Cles, Ge!Suivi
<1>3. PICK r \in Ge!Requete :
         r = [etat |-> "stockee", racine |-> a, nature |-> k, lue |-> n, fichier |-> f]
  BY <1>2 DEF Ge!Requete
<1>4. /\ Ge!Garder(q, r) /\ Ge!Stocker /\ UNCHANGED <<documents, deposes>>
  BY <1>1, <1>3 DEF Ge!StockerVersion
<1>5. Ge!Tient(r) /\ r.fichier = cles + 1 /\ r.etat = "stockee" /\ r.lue = n
  BY <1>1, <1>3 DEF Ge!Tient
<1> QED BY <1>2, <1>4, <1>5, Stockage

\* What a chain has as its highest number.
LEMMA Numero ==
    ASSUME Ge!Domaines, Ge!IInv, NEW C \in SUBSET Ge!Presents, C # {}
    PROVE  Ge!Max({documents[d].version : d \in C}) \in 0..deposes
<1>1. PICK T : T = {documents[d].version : d \in C}
  OBVIOUS
<1>2. T \in SUBSET (0..deposes) /\ T # {} /\ deposes \in Nat
  BY <1>1, LignesGed DEF Ge!IInv
<1> QED BY <1>1, <1>2, PlusGrand

LEMMA PasNumeroter ==
    ASSUME Ge!Domaines, Ge!IInv, NEW q \in Requetes, Ge!Numeroter(q)
    PROVE  Ge!IInv'
<1>1. PICK a, k, f, C, n :
         /\ a = req[q].racine /\ k = req[q].nature /\ f = req[q].fichier /\ C = Ge!Chaine(a)
         /\ n = IF C = {} THEN req[q].lue + 1
                ELSE Ge!Max({documents[d].version : d \in C}) + 1
  OBVIOUS
<1>2. /\ req[q].etat = "stockee" /\ a \in Ge!Numeros /\ k \in {"piece", "pv"} /\ f \in Ge!Cles
      /\ req[q].lue \in Nat /\ req[q].lue <= deposes /\ Ge!Suivi(req[q])
  BY <1>1, FormesGed DEF Ge!Numeroter, Ge!En, Ge!IInv, Ge!TypeOK, Ge!Suivi, Ge!Tient
<1>3. C \in SUBSET Ge!Presents /\ C \in SUBSET Ge!Numeros
  BY <1>1, LignesGed DEF Ge!IInv, Ge!Chaine, Ge!Enfants
<1>4. n \in 1..deposes + 1 /\ n \in Nat
  <2>1. deposes \in Nat
    BY LignesGed DEF Ge!IInv
  <2>2. CASE C = {}
    BY <1>1, <1>2, <2>1, <2>2
  <2>3. CASE C # {}
    <3>1. Ge!Max({documents[d].version : d \in C}) \in 0..deposes
      BY <1>3, <2>3, Numero
    <3> QED BY <1>1, <2>1, <2>3, <3>1
  <2> QED BY <2>2, <2>3
<1>5. PICK r \in Ge!Requete :
         r = [etat |-> "numero", racine |-> a, nature |-> k, chaine |-> C, version |-> n,
              fichier |-> f]
  BY <1>2, <1>3, <1>4 DEF Ge!Requete
<1>6. Ge!Garder(q, r) /\ UNCHANGED <<documents, deposes, cles, fichiers>>
  BY <1>1, <1>5 DEF Ge!Numeroter
<1>7. r.etat = "numero" /\ r.version = n /\ r.fichier = f
  BY <1>5
<1>8. Ge!Tient(req[q]) /\ req[q].fichier = r.fichier
  BY <1>1, <1>2, <1>7 DEF Ge!Tient
<1>9. Ge!Suivi(r)
  BY <1>1, <1>2, <1>4, <1>7, <1>8 DEF Ge!Suivi
<1> QED BY <1>6, <1>7, <1>8, <1>9, Calme

LEMMA PasDeposer ==
    ASSUME Ge!Domaines, Ge!IInv, NEW q \in Requetes, Ge!Deposer(q)
    PROVE  Ge!IInv'
<1>1. PICK k, f : k = req[q].nature /\ f = req[q].fichier
  OBVIOUS
<1>2. req[q].etat = "depose" /\ k \in Natures /\ f \in Ge!Cles /\ Ge!Tient(req[q])
  BY <1>1, FormesGed DEF Ge!Deposer, Ge!En, Ge!IInv, Ge!TypeOK, Ge!Tient
<1>3. 1 \in 1..MaxDocuments + 1 /\ deposes \in Nat
  BY LignesGed DEF Ge!IInv
<1>4. PICK l \in Ge!Document :
         l = [parent |-> NUL, version |-> 1, courant |-> TRUE, fichier |-> f, nature |-> k]
  BY <1>2, <1>3 DEF Ge!Document, Natures
<1>5. Ge!Ecrire(l, {}) /\ Ge!Finir(q) /\ UNCHANGED <<cles, fichiers>>
  BY <1>1, <1>4 DEF Ge!Deposer
<1>6. l.fichier = req[q].fichier /\ l.version <= deposes + 1
  BY <1>1, <1>3, <1>4
<1> QED BY <1>2, <1>5, <1>6, Inscription

LEMMA PasDeposerVersion ==
    ASSUME Ge!Domaines, Ge!IInv, NEW q \in Requetes, Ge!DeposerVersion(q)
    PROVE  Ge!IInv'
<1>1. PICK a, k, f, n : /\ a = req[q].racine /\ k = req[q].nature /\ f = req[q].fichier
                        /\ n = req[q].version
  OBVIOUS
<1>2. /\ req[q].etat = "numero" /\ a \in Ge!Numeros /\ k \in {"piece", "pv"} /\ f \in Ge!Cles
      /\ n \in 1..deposes + 1 /\ Ge!Tient(req[q]) /\ req[q].chaine \in SUBSET Ge!Numeros
  BY <1>1, FormesGed DEF Ge!DeposerVersion, Ge!En, Ge!IInv, Ge!TypeOK, Ge!Tient, Ge!Suivi
<1>3. deposes \in Nat /\ MaxDocuments \in Nat /\ deposes <= MaxDocuments
  BY LignesGed DEF Ge!IInv
<1>4. n \in 1..MaxDocuments + 1 /\ n <= deposes + 1
  BY <1>2, <1>3
<1>5. PICK l \in Ge!Document :
         l = [parent |-> a, version |-> n, courant |-> TRUE, fichier |-> f, nature |-> k]
  BY <1>2, <1>4 DEF Ge!Document
<1>6. PICK C \in SUBSET Ge!Numeros : Ge!Ecrire(l, C)
  <2>1. PICK C \in {req[q].chaine, Ge!Chaine(a)} : Ge!Ecrire(l, C)
    BY <1>1, <1>5 DEF Ge!DeposerVersion
  <2>2. Ge!Chaine(a) \in SUBSET Ge!Numeros
    BY LignesGed DEF Ge!IInv, Ge!Chaine, Ge!Enfants
  <2> QED BY <1>2, <2>1, <2>2
<1>7. Ge!Finir(q) /\ UNCHANGED <<cles, fichiers>>
  BY DEF Ge!DeposerVersion
<1>8. l.fichier = req[q].fichier /\ l.version <= deposes + 1
  BY <1>1, <1>4, <1>5
<1> QED BY <1>2, <1>6, <1>7, <1>8, Inscription

LEMMA PasLireSuppression ==
    ASSUME Ge!Domaines, Ge!IInv, NEW q \in Requetes, NEW d \in Ge!Numeros, Ge!LireSuppression(q,
           d)
    PROVE  Ge!IInv'
<1>1. PICK f : f = documents[d].fichier
  OBVIOUS
<1>2. d \in Ge!Presents /\ d <= deposes /\ f \in Ge!Cles /\ f <= cles
  <2>1. d \in Ge!Presents
    BY DEF Ge!LireSuppression, Ge!Racines
  <2>2. f \in Ge!Cles
    BY <1>1, <2>1, LignesGed DEF Ge!IInv, Ge!Document
  <2>3. f \in fichiers /\ fichiers \subseteq 1..cles
    BY <1>1, <2>1 DEF Ge!IInv, Ge!FichePresente, Ge!TypeOK
  <2> QED BY <2>1, <2>2, <2>3, LignesGed DEF Ge!IInv
<1>3. PICK r \in Ge!Requete : r = [etat |-> "suppression", d |-> d, fichier |-> f]
  BY <1>2 DEF Ge!Requete
<1>4. Ge!Suivi(r) /\ ~Ge!Tient(r) /\ r.etat # "effacement"
  BY <1>1, <1>2, <1>3 DEF Ge!Suivi, Ge!Tient
<1> QED BY <1>1, <1>3, <1>4, Calme DEF Ge!LireSuppression

LEMMA PasInterrompreGed ==
    ASSUME Ge!Domaines, Ge!IInv, NEW q \in Requetes, Ge!Interrompre(q)
    PROVE  Ge!IInv'
<1>1. Ge!Suivi(Ge!Libre) /\ ~Ge!Tient(Ge!Libre) /\ Ge!Libre.etat # "effacement"
  BY LibreVautGed DEF Ge!Suivi, Ge!Tient
<1> QED BY <1>1, LibreVautGed, Calme DEF Ge!Interrompre, Ge!Finir

LEMMA DepartGed == ASSUME Ge!Domaines, Ge!Init PROVE Ge!IInv
<1>1. Ge!Presents = {}
  BY DEF Ge!Init, Ge!Presents
<1>2. Ge!Suivi(Ge!Libre) /\ ~Ge!Tient(Ge!Libre)
  BY LibreVautGed DEF Ge!Suivi, Ge!Tient
<1>3. Ge!TypeOK
  BY LibreVautGed DEF Ge!Init, Ge!TypeOK, Ge!Domaines
<1> QED BY <1>1, <1>2, <1>3 DEF Ge!Init, Ge!IInv, Ge!FichePresente

LEMMA Repos == ASSUME Ge!Domaines, Ge!IInv, UNCHANGED Ge!vars PROVE Ge!IInv'
<1>1. /\ Ge!Presents' = Ge!Presents /\ \A f : Ge!Nomme(f)' <=> Ge!Nomme(f)
      /\ UNCHANGED <<documents, deposes, cles, fichiers, req>>
  BY DEF Ge!vars, Ge!Presents, Ge!Nomme
<1>2. \A q \in Requetes : Ge!Suivi(req[q])'
  BY <1>1 DEF Ge!IInv, Ge!Suivi
<1>3. Ge!FichePresente'
  BY <1>1 DEF Ge!IInv, Ge!FichePresente
<1> QED BY <1>1, <1>2, <1>3 DEF Ge!IInv, Ge!TypeOK, Ge!En

LEMMA Pas ==
    ASSUME Ge!Domaines, Ge!IInv, NEW q \in Requetes, Ge!Traitement(q)
    PROVE  Ge!IInv'
BY PasLireDepot, PasLireVersion, PasLirePv, PasRedigerPv, PasStockerDepot, PasStockerVersion,
   PasNumeroter, PasDeposer, PasDeposerVersion, PasLireSuppression, PasSupprimer, PasEffacer,
   PasInterrompreGed
   DEF Ge!Traitement, Natures

\* deposer, deposerVersion, supprimer: whatever runs at the same time, a file
\* waits for one row, or is about to go, and no row names it.
THEOREM InvarianceGed == ASSUME Ge!Domaines PROVE Ge!Spec => []Ge!IInv
<1>1. Ge!Init => Ge!IInv
  BY DepartGed
<1>2. Ge!IInv /\ [Ge!Next]_Ge!vars => Ge!IInv'
  BY Pas, Repos DEF Ge!Next
<1> QED BY <1>1, <1>2, PTL DEF Ge!Spec

\* deposer, deposerVersion, supprimer: whatever runs at the same time and
\* wherever the process stops, no row names a file that is not there, and no
\* two rows name the same.
THEOREM FichesPresentes == ASSUME Ge!Domaines PROVE Ge!Spec => []Ge!FichePresente
<1>1. Ge!IInv => Ge!FichePresente
  BY DEF Ge!IInv
<1> QED BY <1>1, InvarianceGed, PTL

(***************************************************************************)
(* Documents, one request at a time: chains and minutes                    *)
(***************************************************************************)
\* Rows that do not change keep their chains.
LEMMA Chaines ==
    ASSUME UNCHANGED documents
    PROVE  /\ Ge!Presents' = Ge!Presents /\ Ge!Racines' = Ge!Racines /\ Ge!Pvs' = Ge!Pvs
           /\ \A d : Ge!Chaine(d)' = Ge!Chaine(d) /\ Ge!Enfants(d)' = Ge!Enfants(d)
BY DEF Ge!Presents, Ge!Racines, Ge!Pvs, Ge!Chaine, Ge!Enfants

\* The only request keeps r.
LEMMA Seule ==
    ASSUME UneALaFois, NEW q \in Requetes, NEW r, Ge!Garder(q, r),
           req \in [Requetes -> Ge!Requete],
           Ge!Actuel(r)'
    PROVE  \A p \in Requetes : Ge!Actuel(req[p])'
<1>1. \A p \in Requetes : req'[p] = r
  BY DEF Ge!Garder, UneALaFois
<1>2. ASSUME NEW p \in Requetes PROVE Ge!Actuel(req[p])'
  <2>1. req'[p] = r
    BY <1>1
  <2> QED BY <2>1 DEF Ge!Actuel
<1> QED BY <1>2

\* Nothing is written: what was read is still so, and what is read is so.
LEMMA LectureSerie ==
    ASSUME UneALaFois, Ge!SInv, Ge!IInv', UNCHANGED documents, NEW q \in Requetes, NEW r,
           Ge!Garder(q, r), Ge!Actuel(r)
    PROVE  Ge!SInv'
<1>1. /\ Ge!Presents' = Ge!Presents /\ Ge!Racines' = Ge!Racines /\ Ge!Pvs' = Ge!Pvs
      /\ \A d : Ge!Chaine(d)' = Ge!Chaine(d) /\ Ge!Enfants(d)' = Ge!Enfants(d)
  BY Chaines
<1>2. Ge!Actuel(r)'
  BY <1>1 DEF Ge!Actuel
<1>3. \A p \in Requetes : Ge!Actuel(req[p])'
  BY <1>2, Seule DEF Ge!SInv, Ge!IInv, Ge!TypeOK
<1>4. Ge!ChaineSuivie'
  BY <1>1 DEF Ge!SInv, Ge!ChaineSuivie
<1>5. Ge!PvSansSecond'
  BY <1>1 DEF Ge!SInv, Ge!PvSansSecond
<1> QED BY <1>3, <1>4, <1>5 DEF Ge!SInv

\* A request at rest knows nothing.
LEMMA Oublie == Ge!Actuel(Ge!Libre)
BY LibreVautGed DEF Ge!Actuel

\* The number that follows those of a chain.
LEMMA Suivant ==
    ASSUME Ge!Domaines, Ge!SInv, NEW a \in Ge!Racines
    PROVE  /\ Ge!Chaine(a) # {} /\ IsFiniteSet(Ge!Chaine(a)) /\ Ge!Cardinality(Ge!Chaine(a)) \in Nat
           /\ Ge!Max({documents[d].version : d \in Ge!Chaine(a)}) = Ge!Cardinality(Ge!Chaine(a))
<1>1. a \in Ge!Presents /\ a \in Ge!Chaine(a) /\ Ge!Chaine(a) \subseteq 1..MaxDocuments
  BY LignesGed DEF Ge!Racines, Ge!Chaine, Ge!Enfants, Ge!SInv, Ge!IInv, Ge!Numeros
<1>2. IsFiniteSet(Ge!Chaine(a))
  <2>1. IsFiniteSet(1..MaxDocuments)
    BY FS_Interval, LignesGed DEF Ge!SInv, Ge!IInv
  <2> QED BY <1>1, <2>1, FS_Subset
<1>3. PICK c \in Nat : c = Ge!Cardinality(Ge!Chaine(a))
  BY <1>2, FS_CardinalityType, TailleGed
<1>4. PICK T : T = {documents[d].version : d \in Ge!Chaine(a)}
  OBVIOUS
<1>5. T = 1..c /\ T # {}
  BY <1>1, <1>3, <1>4 DEF Ge!SInv, Ge!ChaineSuivie
<1>6. T \in SUBSET (0..c) /\ c \in T
  BY <1>5
<1>7. Ge!Max(T) \in 1..c /\ c <= Ge!Max(T)
  BY <1>5, <1>6, PlusGrand
<1>8. Ge!Max(T) = c
  BY <1>7
<1> QED BY <1>1, <1>2, <1>3, <1>4, <1>8

\* The minutes and what may be drawn up: a row more.
LEMMA PvLigne ==
    ASSUME Ge!Domaines, Ge!SInv, NEW l \in Ge!Document, NEW C, NEW n \in Ge!Numeros, Ligne(l, C,
           n),
           l.nature = "redige" => Ge!Pvs = {}
    PROVE  Ge!PvSansSecond'
<1>1. Ge!Pvs' \subseteq Ge!Pvs \cup {n}
  BY DEF Ligne, Ge!Pvs
<1>2. \A d \in Ge!Presents : d \in Nat /\ d < n
  BY LignesGed DEF Ligne, Ge!SInv, Ge!IInv, Ge!Numeros
<1>3. ASSUME NEW d \in Ge!Presents', documents'[d].nature = "redige", NEW e \in Ge!Pvs'
      PROVE  e >= d
  <2>1. n \in Nat /\ Ge!Pvs \subseteq Ge!Presents
    BY DEF Ge!Numeros, Ge!Pvs
  <2>2. CASE d = n
    <3>1. e = n
      BY <1>1, <1>3, <2>2 DEF Ligne
    <3> QED BY <2>1, <2>2, <3>1
  <2>3. CASE d # n
    <3>1. d \in Ge!Presents /\ documents[d].nature = "redige"
      BY <1>3, <2>3 DEF Ligne
    <3>2. CASE e = n
      BY <1>2, <2>1, <3>1, <3>2
    <3>3. CASE e \in Ge!Pvs
      BY <3>1, <3>3 DEF Ge!SInv, Ge!PvSansSecond
    <3> QED BY <1>1, <3>2, <3>3
  <2> QED BY <2>2, <2>3
<1> QED BY <1>3 DEF Ge!PvSansSecond

\* A document more.
LEMMA ChaineNeuve ==
    ASSUME Ge!Domaines, Ge!SInv, NEW l \in Ge!Document, NEW n \in Ge!Numeros, Ligne(l, {}, n),
           l.parent = NUL, l.version = 1, l.courant
    PROVE  Ge!ChaineSuivie'
<1>1. NUL \notin Ge!Numeros /\ n \notin Ge!Presents
  BY DEF Ge!Domaines, Ge!Numeros, Ligne
<1>2. /\ Ge!Presents' = Ge!Presents \cup {n} /\ documents'[n] = l
      /\ \A d \in Ge!Presents :
            /\ documents'[d].parent = documents[d].parent
            /\ documents'[d].version = documents[d].version
            /\ documents'[d].courant = documents[d].courant
  BY LignesGed DEF Ligne, Ge!SInv, Ge!IInv, Ge!Document
<1>3. \A d \in Ge!Presents : documents[d].parent # NUL => documents[d].parent \in Ge!Racines
  BY DEF Ge!SInv, Ge!ChaineSuivie
<1>4. Ge!Racines' = Ge!Racines \cup {n} /\ Ge!Racines \subseteq Ge!Presents
  BY <1>2 DEF Ge!Racines
<1>5. ASSUME NEW d \in Ge!Racines
      PROVE  /\ Ge!Chaine(d)' = Ge!Chaine(d)
             /\ {documents'[e].version : e \in Ge!Chaine(d)} =
                   {documents[e].version : e \in Ge!Chaine(d)}
             /\ \A e \in Ge!Chaine(d) : documents'[e].courant = documents[e].courant
                                        /\ documents'[e].version = documents[e].version
  <2>a. d # NUL
    BY <1>1, <1>4, LignesGed DEF Ge!SInv, Ge!IInv
  <2>1. Ge!Enfants(d)' = Ge!Enfants(d)
    BY <1>1, <1>2, <1>4, <2>a DEF Ge!Enfants
  <2>2. Ge!Chaine(d)' = Ge!Chaine(d) /\ Ge!Chaine(d) \subseteq Ge!Presents
    BY <1>1, <1>2, <1>4, <2>1 DEF Ge!Chaine, Ge!Enfants
  <2> QED BY <1>2, <2>2
<1>6. Ge!Chaine(n)' = {n}
  <2>1. Ge!Enfants(n)' = {}
    BY <1>1, <1>2, <1>3, <1>4 DEF Ge!Enfants
  <2> QED BY <1>2, <2>1 DEF Ge!Chaine
<1>7. Ge!Cardinality({n}) = 1
  BY FS_Singleton, TailleGed
<1>8. ASSUME NEW d \in Ge!Presents'
      PROVE  documents'[d].parent # NUL => documents'[d].parent \in Ge!Racines'
  BY <1>2, <1>3, <1>4
<1>9. ASSUME NEW d \in Ge!Racines', NEW S, S = Ge!Chaine(d)'
      PROVE  /\ {documents'[e].version : e \in S} = 1..Ge!Cardinality(S)
             /\ \A e \in S : documents'[e].courant <=> documents'[e].version = Ge!Cardinality(S)
  <2>1. CASE d = n
    <3>1. S = {n} /\ Ge!Cardinality(S) = 1
      BY <1>6, <1>7, <1>9, <2>1
    <3> QED BY <1>2, <3>1
  <2>2. CASE d \in Ge!Racines
    <3>1. S = Ge!Chaine(d)
      BY <1>5, <1>9, <2>2
    <3>2. /\ {documents[e].version : e \in S} = 1..Ge!Cardinality(S)
          /\ \A e \in S : documents[e].courant <=> documents[e].version = Ge!Cardinality(S)
      BY <1>4, <2>2, <3>1 DEF Ge!SInv, Ge!ChaineSuivie
    <3> QED BY <1>5, <2>2, <3>1, <3>2
  <2> QED BY <1>4, <2>1, <2>2
<1> QED BY <1>8, <1>9 DEF Ge!ChaineSuivie

\* A version more: the last one, and the only current one.
LEMMA ChainePlus ==
    ASSUME Ge!Domaines, Ge!SInv, NEW l \in Ge!Document, NEW n \in Ge!Numeros,
           NEW a \in Ge!Racines,
           Ligne(l, Ge!Chaine(a), n), l.parent = a, l.version = Ge!Cardinality(Ge!Chaine(a)) + 1,
           l.courant
    PROVE  Ge!ChaineSuivie'
<1>1. NUL \notin Ge!Numeros /\ n \notin Ge!Presents /\ a \in Ge!Presents /\ a # NUL
  BY LignesGed DEF Ge!Domaines, Ge!Numeros, Ligne, Ge!Racines, Ge!SInv, Ge!IInv
<1>a. PICK C : C = Ge!Chaine(a)
  OBVIOUS
<1>2. /\ Ge!Presents' = Ge!Presents \cup {n} /\ documents'[n] = l
      /\ \A d \in Ge!Presents :
            /\ documents'[d].parent = documents[d].parent
            /\ documents'[d].version = documents[d].version
            /\ d \in C => ~documents'[d].courant
            /\ d \notin C => documents'[d].courant = documents[d].courant
  <2>1. \A d \in Ge!Presents : documents[d].courant \in BOOLEAN
    BY LignesGed DEF Ge!SInv, Ge!IInv, Ge!Document
  <2> QED BY <1>a, <2>1 DEF Ligne
<1>3. \A d \in Ge!Presents : documents[d].parent # NUL => documents[d].parent \in Ge!Racines
  BY DEF Ge!SInv, Ge!ChaineSuivie
<1>4. Ge!Racines' = Ge!Racines /\ Ge!Racines \subseteq Ge!Presents
  BY <1>1, <1>2 DEF Ge!Racines
<1>5. ASSUME NEW d \in Ge!Racines, d # a
      PROVE  /\ Ge!Chaine(d)' = Ge!Chaine(d) /\ Ge!Chaine(d) \subseteq Ge!Presents
             /\ Ge!Chaine(d) \cap C = {}
  <2>1. Ge!Enfants(d)' = Ge!Enfants(d)
    BY <1>1, <1>2, <1>4, <1>5 DEF Ge!Enfants
  <2>2. Ge!Chaine(d)' = Ge!Chaine(d) /\ Ge!Chaine(d) \subseteq Ge!Presents
    BY <1>1, <1>2, <1>4, <2>1 DEF Ge!Chaine, Ge!Enfants
  <2>3. \A e \in Ge!Chaine(d) : e = d \/ documents[e].parent = d
    BY DEF Ge!Chaine, Ge!Enfants
  <2>4. \A e \in C : e = a \/ documents[e].parent = a
    BY <1>a DEF Ge!Chaine, Ge!Enfants
  <2>5. documents[d].parent = NUL /\ documents[a].parent = NUL
    BY DEF Ge!Racines
  <2>6. d # NUL
    BY <1>1, <1>4, LignesGed DEF Ge!SInv, Ge!IInv
  <2> QED BY <1>1, <1>5, <2>2, <2>3, <2>4, <2>5, <2>6
<1>6. Ge!Chaine(a)' = C \cup {n} /\ C \subseteq Ge!Presents
  <2>1. Ge!Enfants(a)' = Ge!Enfants(a) \cup {n}
    BY <1>1, <1>2 DEF Ge!Enfants
  <2> QED BY <1>1, <1>a, <1>2, <2>1 DEF Ge!Chaine, Ge!Enfants
<1>7. PICK c \in Nat : /\ c = Ge!Cardinality(C) /\ Ge!Cardinality(C \cup {n}) = c + 1
                       /\ {documents[e].version : e \in C} = 1..c
  <2>1. IsFiniteSet(C) /\ Ge!Cardinality(C) \in Nat
    BY <1>a, Suivant
  <2>2. n \notin C
    BY <1>1, <1>6
  <2>3. Ge!Cardinality(C \cup {n}) = Ge!Cardinality(C) + 1
    BY <2>1, <2>2, FS_AddElement, TailleGed
  <2>4. {documents[e].version : e \in C} = 1..Ge!Cardinality(C)
    BY <1>1, <1>a DEF Ge!SInv, Ge!ChaineSuivie
  <2> QED BY <2>1, <2>3, <2>4
<1>8. ASSUME NEW d \in Ge!Presents'
      PROVE  documents'[d].parent # NUL => documents'[d].parent \in Ge!Racines'
  BY <1>2, <1>3, <1>4
<1>9. ASSUME NEW d \in Ge!Racines', NEW S, S = Ge!Chaine(d)'
      PROVE  /\ {documents'[e].version : e \in S} = 1..Ge!Cardinality(S)
             /\ \A e \in S : documents'[e].courant <=> documents'[e].version = Ge!Cardinality(S)
  <2>1. CASE d = a
    <3>1. S = C \cup {n} /\ Ge!Cardinality(S) = c + 1
      BY <1>6, <1>7, <1>9, <2>1
    <3>2. /\ \A e \in C : documents'[e].version = documents[e].version
                          /\ ~documents'[e].courant
          /\ documents'[n].version = c + 1 /\ documents'[n].courant
      BY <1>a, <1>2, <1>6, <1>7
    <3>3. {documents'[e].version : e \in S} = 1..c + 1
      <4>1. {documents'[e].version : e \in S} = {documents[e].version : e \in C} \cup {c + 1}
        BY <3>1, <3>2
      <4> QED BY <1>7, <4>1
    <3>4. \A e \in C : documents[e].version # c + 1
      <4>1. \A e \in C : documents[e].version \in 1..c
        BY <1>7
      <4> QED BY <4>1
    <3> QED BY <3>1, <3>2, <3>3, <3>4
  <2>2. CASE d # a
    <3>1. S = Ge!Chaine(d) /\ S \subseteq Ge!Presents /\ S \cap C = {}
      BY <1>4, <1>5, <1>9, <2>2
    <3>2. /\ {documents[e].version : e \in S} = 1..Ge!Cardinality(S)
          /\ \A e \in S : documents[e].courant <=> documents[e].version = Ge!Cardinality(S)
      BY <1>4, <3>1 DEF Ge!SInv, Ge!ChaineSuivie
    <3>3. \A e \in S : documents'[e].version = documents[e].version
                       /\ documents'[e].courant = documents[e].courant
      BY <1>2, <3>1
    <3> QED BY <3>2, <3>3
  <2> QED BY <2>1, <2>2
<1> QED BY <1>8, <1>9 DEF Ge!ChaineSuivie

\* Only a document without versions goes.
LEMMA ChaineMoins ==
    ASSUME Ge!Domaines, UneALaFois, Ge!SInv, NEW q \in Requetes, Ge!Supprimer(q)
    PROVE  Ge!ChaineSuivie' /\ Ge!PvSansSecond'
<1>1. PICK k : k = req[q].d
  OBVIOUS
<1>2. k \in Ge!Racines /\ Ge!Enfants(k) = {} /\ k \in Ge!Numeros /\ k \in Ge!Presents
  BY <1>1, FormesGed DEF Ge!Supprimer, Ge!En, Ge!SInv, Ge!IInv, Ge!TypeOK, Ge!Actuel, Ge!Racines
<1>3. documents' = [d \in Ge!Numeros |-> IF d = k THEN NUL ELSE documents[d]]
  BY <1>1, <1>2 DEF Ge!Supprimer
<1>4. /\ Ge!Presents' = Ge!Presents \ {k}
      /\ \A d \in Ge!Presents' : documents'[d] = documents[d]
  BY <1>2, <1>3 DEF Ge!Presents
<1>5. Ge!Racines' = Ge!Racines \ {k} /\ Ge!Racines \subseteq Ge!Presents
  BY <1>4 DEF Ge!Racines
<1>6. \A d \in Ge!Presents : documents[d].parent # k
  BY <1>2 DEF Ge!Enfants
<1>7. \A d \in Ge!Presents' : documents'[d].parent # NUL => documents'[d].parent \in Ge!Racines'
  BY <1>4, <1>5, <1>6 DEF Ge!SInv, Ge!ChaineSuivie
<1>8. ASSUME NEW d \in Ge!Racines'
      PROVE  Ge!Chaine(d)' = Ge!Chaine(d) /\ Ge!Chaine(d) \subseteq Ge!Presents'
  <2>1. documents[k].parent = NUL /\ d # NUL
    BY <1>2, <1>5, LignesGed DEF Ge!Racines, Ge!SInv, Ge!IInv
  <2>2. Ge!Enfants(d)' = Ge!Enfants(d)
    BY <1>4, <1>5, <2>1 DEF Ge!Enfants
  <2> QED BY <1>4, <1>5, <2>1, <2>2 DEF Ge!Chaine, Ge!Enfants
<1>9. ASSUME NEW d \in Ge!Racines', NEW S, S = Ge!Chaine(d)'
      PROVE  /\ {documents'[e].version : e \in S} = 1..Ge!Cardinality(S)
             /\ \A e \in S : documents'[e].courant <=> documents'[e].version = Ge!Cardinality(S)
  <2>1. S = Ge!Chaine(d) /\ S \subseteq Ge!Presents'
    BY <1>8, <1>9
  <2>2. /\ {documents[e].version : e \in S} = 1..Ge!Cardinality(S)
        /\ \A e \in S : documents[e].courant <=> documents[e].version = Ge!Cardinality(S)
    BY <1>5, <2>1 DEF Ge!SInv, Ge!ChaineSuivie
  <2> QED BY <1>4, <2>1, <2>2
<1>10. Ge!ChaineSuivie'
  BY <1>7, <1>9 DEF Ge!ChaineSuivie
<1>11. Ge!Pvs' \subseteq Ge!Pvs
  BY <1>4 DEF Ge!Pvs
<1>12. Ge!PvSansSecond'
  BY <1>4, <1>11 DEF Ge!SInv, Ge!PvSansSecond
<1> QED BY <1>10, <1>12

(***************************************************************************)
(* Each step of the only request                                           *)
(***************************************************************************)
LEMMA VersionSerie ==
    ASSUME Ge!Domaines, Ge!SInv, NEW d \in Ge!Presents, NEW r,
           r = [etat |-> "version",
                racine |-> IF documents[d].parent = NUL THEN d ELSE documents[d].parent,
                nature |-> Ge!NatureDe(d), lue |-> documents[d].version]
    PROVE  Ge!Actuel(r)
<1>1. documents[d].parent # NUL => documents[d].parent \in Ge!Racines
  BY DEF Ge!SInv, Ge!ChaineSuivie
<1>2. documents[d].parent = NUL => d \in Ge!Racines
  BY DEF Ge!Racines
<1>3. r.etat = "version" /\ r.racine \in Ge!Racines
  BY <1>1, <1>2
<1> QED BY <1>3 DEF Ge!Actuel

LEMMA SerieLire ==
    ASSUME Ge!Domaines, UneALaFois, Ge!SInv, Ge!IInv', NEW q \in Requetes,
           \/ \E k \in {"piece", "pv"} : Ge!LireDepot(q, k)
           \/ \E d \in Ge!Numeros : Ge!LireVersion(q, d) \/ Ge!LireSuppression(q, d)
           \/ Ge!LirePv(q) \/ Ge!RedigerPv(q)
    PROVE  Ge!SInv'
<1>1. ASSUME NEW k \in {"piece", "pv"}, Ge!LireDepot(q, k) PROVE Ge!SInv'
  <2>1. PICK r : r = [etat |-> "depot", nature |-> k]
    OBVIOUS
  <2>2. Ge!Actuel(r)
    BY <2>1 DEF Ge!Actuel
  <2> QED BY <1>1, <2>1, <2>2, LectureSerie DEF Ge!LireDepot
<1>2. ASSUME NEW d \in Ge!Numeros, Ge!LireVersion(q, d) PROVE Ge!SInv'
  <2>1. PICK r : r = [etat |-> "version",
                      racine |-> IF documents[d].parent = NUL THEN d ELSE documents[d].parent,
                      nature |-> Ge!NatureDe(d), lue |-> documents[d].version]
    OBVIOUS
  <2>2. Ge!Actuel(r)
    BY <1>2, <2>1, VersionSerie DEF Ge!LireVersion, Ge!Presents
  <2> QED BY <1>2, <2>1, <2>2, LectureSerie DEF Ge!LireVersion
<1>3. ASSUME NEW d \in Ge!Numeros, Ge!LireSuppression(q, d) PROVE Ge!SInv'
  <2>1. PICK r : r = [etat |-> "suppression", d |-> d, fichier |-> documents[d].fichier]
    OBVIOUS
  <2>2. r.etat = "suppression" /\ r.d = d
    BY <2>1
  <2>3. Ge!Actuel(r)
    BY <1>3, <2>2 DEF Ge!LireSuppression, Ge!Actuel
  <2> QED BY <1>3, <2>1, <2>3, LectureSerie DEF Ge!LireSuppression
<1>4. ASSUME Ge!LirePv(q) PROVE Ge!SInv'
  <2>1. PICK d : Ge!Garder(q, [etat |-> "pv", d |-> d]) /\ (d = NUL => Ge!Pvs = {})
    BY <1>4, LignesGed DEF Ge!LirePv, Ge!Pvs, Ge!SInv, Ge!IInv
  <2>2. PICK r : r = [etat |-> "pv", d |-> d]
    OBVIOUS
  <2>3. r.etat = "pv" /\ r.d = d
    BY <2>2
  <2>4. Ge!Actuel(r)
    BY <2>1, <2>3 DEF Ge!Actuel
  <2> QED BY <1>4, <2>1, <2>2, <2>4, LectureSerie DEF Ge!LirePv
<1>5. ASSUME Ge!RedigerPv(q) PROVE Ge!SInv'
  <2>1. PICK d : d = req[q].d
    OBVIOUS
  <2>2. CASE d = NUL
    <3>1. Ge!Pvs = {}
      BY <1>5, <2>1, <2>2 DEF Ge!RedigerPv, Ge!En, Ge!SInv, Ge!Actuel
    <3>2. PICK r : r = [etat |-> "depot", nature |-> "redige"]
      OBVIOUS
    <3>3. Ge!Actuel(r)
      BY <3>1, <3>2 DEF Ge!Actuel
    <3> QED BY <1>5, <2>1, <2>2, <3>2, <3>3, LectureSerie DEF Ge!RedigerPv
  <2>3. CASE d # NUL
    <3>1. d \in Ge!Presents
      BY <1>5, <2>1, <2>3, FormesGed DEF Ge!RedigerPv, Ge!En, Ge!Presents, Ge!SInv, Ge!IInv,
         Ge!TypeOK
    <3>2. PICK r : r = [etat |-> "version",
                        racine |-> IF documents[d].parent = NUL THEN d ELSE documents[d].parent,
                        nature |-> Ge!NatureDe(d), lue |-> documents[d].version]
      OBVIOUS
    <3>3. Ge!Actuel(r)
      BY <3>1, <3>2, VersionSerie
    <3>4. Ge!Garder(q, r) /\ UNCHANGED documents
      BY <1>5, <2>1, <2>3, <3>2 DEF Ge!RedigerPv
    <3> QED BY <3>3, <3>4, LectureSerie
  <2> QED BY <2>2, <2>3
<1> QED BY <1>1, <1>2, <1>3, <1>4, <1>5

LEMMA SerieStocker ==
    ASSUME Ge!Domaines, UneALaFois, Ge!SInv, Ge!IInv', NEW q \in Requetes,
           Ge!StockerDepot(q) \/ Ge!StockerVersion(q)
    PROVE  Ge!SInv'
<1>1. CASE Ge!StockerDepot(q)
  <2>1. PICK r : r = [etat |-> "depose", nature |-> req[q].nature, fichier |-> cles + 1]
    OBVIOUS
  <2>2. r.etat = "depose" /\ r.nature = req[q].nature /\ req[q].etat = "depot"
    BY <1>1, <2>1 DEF Ge!StockerDepot, Ge!En
  <2>3. Ge!Actuel(r)
    BY <2>2 DEF Ge!SInv, Ge!Actuel
  <2> QED BY <1>1, <2>1, <2>3, LectureSerie DEF Ge!StockerDepot
<1>2. CASE Ge!StockerVersion(q)
  <2>1. PICK r : r = [etat |-> "stockee", racine |-> req[q].racine, nature |-> req[q].nature,
                      lue |-> req[q].lue, fichier |-> cles + 1]
    OBVIOUS
  <2>2. r.etat = "stockee" /\ r.racine = req[q].racine /\ req[q].etat = "version"
    BY <1>2, <2>1 DEF Ge!StockerVersion, Ge!En
  <2>3. Ge!Actuel(r)
    BY <2>2 DEF Ge!SInv, Ge!Actuel
  <2> QED BY <1>2, <2>1, <2>3, LectureSerie DEF Ge!StockerVersion
<1> QED BY <1>1, <1>2

LEMMA SerieNumeroter ==
    ASSUME Ge!Domaines, UneALaFois, Ge!SInv, Ge!IInv', NEW q \in Requetes, Ge!Numeroter(q)
    PROVE  Ge!SInv'
<1>1. PICK a, C : a = req[q].racine /\ C = Ge!Chaine(a)
  OBVIOUS
<1>2. a \in Ge!Racines
  BY <1>1 DEF Ge!Numeroter, Ge!En, Ge!SInv, Ge!Actuel
<1>3. C # {} /\ Ge!Max({documents[d].version : d \in C}) = Ge!Cardinality(C)
  BY <1>1, <1>2, Suivant
<1>4. PICK r : r = [etat |-> "numero", racine |-> a, nature |-> req[q].nature, chaine |-> C,
                    version |-> Ge!Cardinality(C) + 1, fichier |-> req[q].fichier]
  OBVIOUS
<1>5. Ge!Garder(q, r) /\ UNCHANGED documents
  BY <1>1, <1>3, <1>4 DEF Ge!Numeroter
<1>6. r.etat = "numero" /\ r.racine = a /\ r.chaine = C /\ r.version = Ge!Cardinality(C) + 1
  BY <1>4
<1>7. Ge!Actuel(r)
  BY <1>1, <1>2, <1>6 DEF Ge!Actuel
<1> QED BY <1>5, <1>7, LectureSerie

LEMMA SerieDeposer ==
    ASSUME Ge!Domaines, UneALaFois, Ge!SInv, Ge!IInv', NEW q \in Requetes, Ge!Deposer(q)
    PROVE  Ge!SInv'
<1>1. PICK k, f : k = req[q].nature /\ f = req[q].fichier
  OBVIOUS
<1>2. /\ req[q].etat = "depose" /\ k \in Natures /\ f \in Ge!Cles
      /\ k = "redige" => Ge!Pvs = {}
  BY <1>1, FormesGed DEF Ge!Deposer, Ge!En, Ge!SInv, Ge!IInv, Ge!TypeOK, Ge!Tient, Ge!Actuel
<1>3. 1 \in 1..MaxDocuments + 1
  BY LignesGed DEF Ge!SInv, Ge!IInv
<1>4. PICK l \in Ge!Document :
         l = [parent |-> NUL, version |-> 1, courant |-> TRUE, fichier |-> f, nature |-> k]
  BY <1>2, <1>3 DEF Ge!Document, Natures
<1>5. Ge!Ecrire(l, {}) /\ Ge!Garder(q, Ge!Libre)
  BY <1>1, <1>4 DEF Ge!Deposer, Ge!Finir
<1>6. PICK n \in Ge!Numeros : Ligne(l, {}, n)
  BY <1>5, Ecrit DEF Ge!SInv
<1>7. Ge!ChaineSuivie'
  BY <1>4, <1>6, ChaineNeuve
<1>8. Ge!PvSansSecond'
  BY <1>2, <1>4, <1>6, PvLigne
<1>9. Ge!Actuel(Ge!Libre)'
  BY LibreVautGed DEF Ge!Actuel
<1>10. \A p \in Requetes : Ge!Actuel(req[p])'
  BY <1>5, <1>9, Seule DEF Ge!SInv, Ge!IInv, Ge!TypeOK
<1> QED BY <1>7, <1>8, <1>10 DEF Ge!SInv

LEMMA SerieDeposerVersion ==
    ASSUME Ge!Domaines, UneALaFois, Ge!SInv, Ge!IInv', NEW q \in Requetes, Ge!DeposerVersion(q)
    PROVE  Ge!SInv'
<1>1. PICK a, k, f, n : /\ a = req[q].racine /\ k = req[q].nature /\ f = req[q].fichier
                        /\ n = req[q].version
  OBVIOUS
<1>2. /\ req[q].etat = "numero" /\ a \in Ge!Numeros /\ k \in {"piece", "pv"} /\ f \in Ge!Cles
      /\ n \in 1..deposes + 1
      /\ a \in Ge!Racines /\ req[q].chaine = Ge!Chaine(a) /\ n = Ge!Cardinality(Ge!Chaine(a)) + 1
  BY <1>1, FormesGed DEF Ge!DeposerVersion, Ge!En, Ge!SInv, Ge!IInv, Ge!TypeOK, Ge!Tient,
     Ge!Suivi, Ge!Actuel
<1>3. deposes \in Nat /\ MaxDocuments \in Nat /\ deposes <= MaxDocuments
  BY LignesGed DEF Ge!SInv, Ge!IInv
<1>4. n \in 1..MaxDocuments + 1
  BY <1>2, <1>3
<1>5. PICK l \in Ge!Document :
         l = [parent |-> a, version |-> n, courant |-> TRUE, fichier |-> f, nature |-> k]
  BY <1>2, <1>4 DEF Ge!Document
<1>6. Ge!Ecrire(l, Ge!Chaine(a)) /\ Ge!Garder(q, Ge!Libre)
  BY <1>1, <1>2, <1>5 DEF Ge!DeposerVersion, Ge!Finir
<1>7. Ge!Chaine(a) \in SUBSET Ge!Numeros
  BY LignesGed DEF Ge!SInv, Ge!IInv, Ge!Chaine, Ge!Enfants
<1>8. PICK m \in Ge!Numeros : Ligne(l, Ge!Chaine(a), m)
  BY <1>6, <1>7, Ecrit DEF Ge!SInv
<1>9. l.parent = a /\ l.version = Ge!Cardinality(Ge!Chaine(a)) + 1 /\ l.courant
      /\ l.nature # "redige"
  BY <1>2, <1>5
<1>10. Ge!ChaineSuivie'
  BY <1>2, <1>8, <1>9, ChainePlus
<1>11. Ge!PvSansSecond'
  BY <1>8, <1>9, PvLigne
<1>12. Ge!Actuel(Ge!Libre)'
  BY LibreVautGed DEF Ge!Actuel
<1>13. \A p \in Requetes : Ge!Actuel(req[p])'
  BY <1>6, <1>12, Seule DEF Ge!SInv, Ge!IInv, Ge!TypeOK
<1> QED BY <1>10, <1>11, <1>13 DEF Ge!SInv

LEMMA SerieRetirer ==
    ASSUME Ge!Domaines, UneALaFois, Ge!SInv, Ge!IInv', NEW q \in Requetes,
           Ge!Supprimer(q) \/ Ge!Effacer(q) \/ Ge!Interrompre(q)
    PROVE  Ge!SInv'
<1>1. CASE Ge!Supprimer(q)
  <2>1. PICK r : r = [etat |-> "effacement", fichier |-> req[q].fichier]
    OBVIOUS
  <2>2. Ge!Garder(q, r) /\ r.etat = "effacement"
    BY <1>1, <2>1 DEF Ge!Supprimer
  <2>3. Ge!Actuel(r)'
    BY <2>2 DEF Ge!Actuel
  <2>4. \A p \in Requetes : Ge!Actuel(req[p])'
    BY <2>2, <2>3, Seule DEF Ge!SInv, Ge!IInv, Ge!TypeOK
  <2> QED BY <1>1, <2>4, ChaineMoins DEF Ge!SInv
<1>2. CASE Ge!Effacer(q) \/ Ge!Interrompre(q)
  BY <1>2, Oublie, LectureSerie DEF Ge!Effacer, Ge!Interrompre, Ge!Finir
<1> QED BY <1>1, <1>2

\* deposerVersion and genererPv, one request at a time: the chain, the root and
\* the minutes a request has read are still so when it writes.
THEOREM GedEnSerie == ASSUME Ge!Domaines, UneALaFois PROVE Ge!Spec => []Ge!SInv
<1>1. Ge!Init => Ge!SInv
  <2>1. ASSUME Ge!Init PROVE Ge!SInv
    <3>1. Ge!Presents = {}
      BY <2>1 DEF Ge!Init, Ge!Presents
    <3>2. \A q \in Requetes : Ge!Actuel(req[q])
      BY <2>1, Oublie DEF Ge!Init
    <3> QED BY <2>1, <3>1, <3>2, DepartGed DEF Ge!SInv, Ge!ChaineSuivie, Ge!PvSansSecond
  <2> QED BY <2>1
<1>2. ASSUME Ge!SInv, [Ge!Next]_Ge!vars PROVE Ge!SInv'
  <2>1. Ge!IInv'
    BY <1>2, Pas, Repos DEF Ge!SInv, Ge!Next
  <2>2. ASSUME NEW q \in Requetes, Ge!Traitement(q) PROVE Ge!SInv'
    BY <1>2, <2>1, <2>2, SerieLire, SerieStocker, SerieNumeroter, SerieDeposer,
       SerieDeposerVersion, SerieRetirer
       DEF Ge!Traitement
  <2>3. CASE UNCHANGED Ge!vars
    <3>1. UNCHANGED <<documents, req>>
      BY <2>3 DEF Ge!vars
    <3>2. /\ Ge!Presents' = Ge!Presents /\ Ge!Racines' = Ge!Racines /\ Ge!Pvs' = Ge!Pvs
          /\ \A d : Ge!Chaine(d)' = Ge!Chaine(d) /\ Ge!Enfants(d)' = Ge!Enfants(d)
      BY <3>1, Chaines
    <3>3. Ge!ChaineSuivie' /\ Ge!PvSansSecond'
      BY <1>2, <3>1, <3>2 DEF Ge!SInv, Ge!ChaineSuivie, Ge!PvSansSecond
    <3>4. \A q \in Requetes : Ge!Actuel(req[q])'
      BY <1>2, <3>1, <3>2 DEF Ge!SInv, Ge!Actuel
    <3> QED BY <2>1, <3>3, <3>4 DEF Ge!SInv
  <2> QED BY <1>2, <2>2, <2>3 DEF Ge!Next
<1> QED BY <1>1, <1>2, PTL DEF Ge!Spec

\* deposerVersion, one request at a time: a document is one chain, numbered
\* without a hole, and its last version alone is current.
THEOREM ChainesSuivies == ASSUME Ge!Domaines, UneALaFois PROVE Ge!Spec => []Ge!ChaineSuivie
<1>1. Ge!SInv => Ge!ChaineSuivie
  BY DEF Ge!SInv
<1> QED BY <1>1, GedEnSerie, PTL

\* genererPv, one request at a time: minutes drawn up make a document of their
\* own only when the meeting has none.
THEOREM PvUnique == ASSUME Ge!Domaines, UneALaFois PROVE Ge!Spec => []Ge!PvSansSecond
<1>1. Ge!SInv => Ge!PvSansSecond
  BY DEF Ge!SInv
<1> QED BY <1>1, GedEnSerie, PTL

(***************************************************************************)
(* Passeport.                                                              *)
(* Nothing in the passport that a person has not put there, whatever runs  *)
(* at the same time; one request at a time, nothing validated is set       *)
(* aside.                                                                  *)
(***************************************************************************)
\* The shapes of a request.
LEMMA FormePasseport ==
    ASSUME NEW r \in Pa!Requete
    PROVE  /\ r.etat \in {"libre", "lecture", "reponse"} \cup Pa!Gestes
           /\ r.etat \in Pa!Gestes => /\ r.e \in Equipements /\ r.par \in Membres
                                      /\ r.saisie \in Pa!Saisie
           /\ r.etat = "lecture" => r.d \in Documents
           /\ r.etat = "reponse" => r.d \in Documents /\ r.retenues \in SUBSET Passages
BY DEF Pa!Requete, Pa!Gestes

LEMMA GardePasseport ==
    ASSUME NEW q \in Requetes, NEW r \in Pa!Requete,
           req \in [Requetes -> Pa!Requete], Pa!Garder(q, r)
    PROVE  /\ req' \in [Requetes -> Pa!Requete]
           /\ req'[q] = r
           /\ \A p \in Requetes : p # q => req'[p] = req[p]
BY DEF Pa!Garder

\* A row, corrected or not.
LEMMA LigneCorrigee ==
    ASSUME NEW l \in Pa!Equipement, NEW s \in Pa!Saisie
    PROVE  /\ Pa!Corrige(l, s) \in Pa!Equipement
           /\ Pa!Corrige(l, s).statut = l.statut /\ Pa!Corrige(l, s).valideur = l.valideur
           /\ Pa!Corrige(l, s).source = l.source /\ Pa!Corrige(l, s).extrait = l.extrait
<1>1. s.contrat # OMIS /\ s.entreprise = OMIS => EntrepriseDe[s.contrat] \in Pa!Entreprises
  BY DEF Pa!Saisie, Pa!Entreprises, Pa!Contrats
<1>2. /\ Pa!Saisi(Pa!Liens(s).contrat, l.contrat) \in Pa!Contrats \cup {NUL}
      /\ Pa!Saisi(Pa!Liens(s).entreprise, l.entreprise) \in Pa!Entreprises \cup {NUL}
  BY <1>1 DEF Pa!Saisi, Pa!Liens, Pa!Saisie, Pa!Equipement
<1>3. Pa!Corrige(l, s) = [l EXCEPT !.contrat = Pa!Saisi(Pa!Liens(s).contrat, l.contrat),
                                   !.entreprise = Pa!Saisi(Pa!Liens(s).entreprise, l.entreprise)]
  BY DEF Pa!Corrige
<1> QED BY <1>2, <1>3 DEF Pa!Equipement

LEMMA LigneValidee ==
    ASSUME NEW l \in Pa!Equipement, NEW par \in Membres
    PROVE  /\ Pa!Validee(l, par) \in Pa!Equipement
           /\ Pa!Validee(l, par).statut = "VALIDE" /\ Pa!Validee(l, par).valideur = par
BY DEF Pa!Validee, Pa!Equipement

\* What a row of the passport must be.
Fondee(l) ==
    /\ l.statut = "VALIDE" <=> l.valideur # NUL
    /\ l.statut = "PROPOSE" /\ l.source # NUL => l.extrait \in Contenu[l.source]

LEMMA Lues ==
    ASSUME Pa!TypeOK, NEW e \in Equipements, Pa!Existe(e)
    PROVE  equipements[e] \in Pa!Equipement /\ e \in attribues
BY DEF Pa!TypeOK, Pa!Existe

\* A step writes rows that have the shape, and that say who put them there.
LEMMA LignesEcrites ==
    ASSUME Pa!Domaines, Pa!TypeOK, Pa!RienDInvente,
           equipements' \in [Equipements -> Pa!Equipement \cup {NUL}],
           \A e \in Equipements :
              \/ equipements'[e] = equipements[e]
              \/ equipements'[e] = NUL
              \/ equipements'[e] \in Pa!Equipement /\ Fondee(equipements'[e])
    PROVE  Pa!RienDInvente'
BY DEF Pa!RienDInvente, Pa!Existe, Fondee

LEMMA DepartPasseport == ASSUME Pa!Domaines, Pa!Init PROVE Pa!SInv
<1> Pa!Libre \in Pa!Requete
  BY DEF Pa!Libre, Pa!Requete
<1> QED BY DEF Pa!Init, Pa!SInv, Pa!IInv, Pa!TypeOK, Pa!RienDInvente, Pa!Existe, Pa!Suivi, Pa!Actuel, Pa!Libre

\* A request that looks, answers or gives up writes nothing.
LEMMA SansEcrire ==
    ASSUME Pa!IInv, NEW q \in Requetes, NEW r \in Pa!Requete, Pa!Garder(q, r), Pa!Suivi(r),
           UNCHANGED <<documents, equipements, attribues>>
    PROVE  Pa!IInv'
<1>1. /\ req' \in [Requetes -> Pa!Requete] /\ req'[q] = r
      /\ \A p \in Requetes : p # q => req'[p] = req[p]
  BY GardePasseport DEF Pa!IInv, Pa!TypeOK
<1>2. Pa!TypeOK'
  BY <1>1 DEF Pa!IInv, Pa!TypeOK, Pa!Existe
<1>3. Pa!RienDInvente'
  BY DEF Pa!IInv, Pa!RienDInvente, Pa!Existe
<1>4. \A p \in Requetes : Pa!Suivi(req'[p])
  BY <1>1 DEF Pa!IInv
<1> QED BY <1>2, <1>3, <1>4 DEF Pa!IInv, Pa!Suivi

\* A request that ends by writing rows.
LEMMA EnEcrivant ==
    ASSUME Pa!Domaines, Pa!IInv,
           req' \in [Requetes -> Pa!Requete],
           \A p \in Requetes : req'[p] = req[p] \/ req'[p] = Pa!Libre,
           documents' \subseteq documents,
           attribues \subseteq attribues', attribues' \subseteq Equipements,
           equipements' \in [Equipements -> Pa!Equipement \cup {NUL}],
           \A e \in Equipements \ attribues' : equipements'[e] = NUL,
           \A e \in Equipements :
              \/ equipements'[e] = equipements[e]
              \/ equipements'[e] = NUL
              \/ equipements'[e] \in Pa!Equipement /\ Fondee(equipements'[e])
    PROVE  Pa!IInv'
<1>1. Pa!TypeOK'
  BY DEF Pa!IInv, Pa!TypeOK, Pa!Existe
<1>2. Pa!RienDInvente'
  BY LignesEcrites DEF Pa!IInv
<1>3. \A p \in Requetes : Pa!Suivi(req'[p])
  BY DEF Pa!IInv, Pa!Suivi, Pa!Libre
<1> QED BY <1>1, <1>2, <1>3 DEF Pa!IInv, Pa!Suivi

LEMMA Finie ==
    ASSUME Pa!TypeOK, NEW q \in Requetes, Pa!Finir(q)
    PROVE  /\ req' \in [Requetes -> Pa!Requete]
           /\ \A p \in Requetes : req'[p] = req[p] \/ req'[p] = Pa!Libre
<1> Pa!Libre \in Pa!Requete
  BY DEF Pa!Libre, Pa!Requete
<1> QED BY GardePasseport DEF Pa!Finir, Pa!TypeOK

LEMMA PasCreer ==
    ASSUME Pa!Domaines, Pa!IInv, NEW e \in Equipements, NEW par \in Membres, NEW s \in Pa!Saisie,
           Pa!Creer(e, par, s)
    PROVE  Pa!IInv'
<1> DEFINE l == [statut |-> "VALIDE", valideur |-> par, contrat |-> NUL, entreprise |-> NUL,
                 source |-> NUL, extrait |-> NUL]
           c == Pa!Corrige(l, s)
<1>1. l \in Pa!Equipement /\ l.statut = "VALIDE" /\ l.valideur = par
  BY DEF Pa!Equipement
<1>2. c \in Pa!Equipement /\ c.statut = "VALIDE" /\ c.valideur = par
  <2> HIDE DEF l
  <2> QED BY <1>1, LigneCorrigee
<1>3. equipements' = [equipements EXCEPT ![e] = c] /\ attribues' = attribues \cup {e}
      /\ req' = req /\ documents' = documents
  BY DEF Pa!Creer
<1>4. Fondee(c)
  BY <1>2 DEF Fondee, Pa!Domaines
<1> HIDE DEF c
<1>5. equipements' \in [Equipements -> Pa!Equipement \cup {NUL}]
  BY <1>2, <1>3 DEF Pa!IInv, Pa!TypeOK
<1>6. \A x \in Equipements : equipements'[x] = IF x = e THEN c ELSE equipements[x]
  BY <1>3 DEF Pa!IInv, Pa!TypeOK
<1>7. \A x \in Equipements \ attribues' : equipements'[x] = NUL
  BY <1>3, <1>6 DEF Pa!IInv, Pa!TypeOK, Pa!Existe
<1> QED BY <1>2, <1>3, <1>4, <1>5, <1>6, <1>7, EnEcrivant DEF Pa!IInv, Pa!TypeOK

LEMMA PasLire ==
    ASSUME Pa!IInv, NEW q \in Requetes, NEW g \in Pa!Gestes, NEW e \in Equipements,
           NEW par \in Membres, NEW s \in Pa!Saisie, Pa!Lire(q, g, e, par, s)
    PROVE  Pa!IInv'
<1> DEFINE r == [etat |-> g, e |-> e, par |-> par, saisie |-> s]
<1>1. r \in Pa!Requete /\ Pa!Suivi(r)
  BY DEF Pa!Requete, Pa!Suivi, Pa!Gestes
<1>2. Pa!Garder(q, r) /\ UNCHANGED <<documents, equipements, attribues>>
  BY DEF Pa!Lire, Pa!lignes
<1> HIDE DEF r
<1> QED BY <1>1, <1>2, SansEcrire

\* One row is written over, by a request that ends.
LEMMA UneLigne ==
    ASSUME Pa!Domaines, Pa!IInv, NEW q \in Requetes, NEW e \in Equipements, NEW l,
           Pa!Existe(e), l = NUL \/ (l \in Pa!Equipement /\ Fondee(l)),
           equipements' = [equipements EXCEPT ![e] = l],
           Pa!Finir(q), UNCHANGED <<documents, attribues>>
    PROVE  Pa!IInv'
<1>1. e \in attribues
  BY Lues DEF Pa!IInv
<1>2. equipements' \in [Equipements -> Pa!Equipement \cup {NUL}]
  BY DEF Pa!IInv, Pa!TypeOK
<1>3. \A x \in Equipements : equipements'[x] = IF x = e THEN l ELSE equipements[x]
  BY DEF Pa!IInv, Pa!TypeOK
<1>4. \A x \in Equipements \ attribues' : equipements'[x] = NUL
  BY <1>1, <1>3 DEF Pa!IInv, Pa!TypeOK, Pa!Existe
<1>5. /\ req' \in [Requetes -> Pa!Requete]
      /\ \A p \in Requetes : req'[p] = req[p] \/ req'[p] = Pa!Libre
  BY Finie DEF Pa!IInv
<1> QED BY <1>2, <1>3, <1>4, <1>5, EnEcrivant DEF Pa!IInv, Pa!TypeOK

LEMMA PasModifier ==
    ASSUME Pa!Domaines, Pa!IInv, NEW q \in Requetes, Pa!Modifier(q)
    PROVE  Pa!IInv'
<1> PICK e, s : e = req[q].e /\ s = req[q].saisie
  OBVIOUS
<1> PICK l : l = equipements[e]
  OBVIOUS
<1> PICK c : c = Pa!Corrige(l, s)
  OBVIOUS
<1>1. e \in Equipements /\ s \in Pa!Saisie
  BY FormePasseport DEF Pa!Modifier, Pa!En, Pa!Gestes, Pa!IInv, Pa!TypeOK
<1>2. Pa!Existe(e) /\ equipements' = [equipements EXCEPT ![e] = c]
      /\ Pa!Finir(q) /\ UNCHANGED <<documents, attribues>>
  BY DEF Pa!Modifier
<1>3. l \in Pa!Equipement
  BY <1>1, <1>2, Lues DEF Pa!IInv
<1>4. /\ c \in Pa!Equipement
      /\ c.statut = l.statut /\ c.valideur = l.valideur
      /\ c.source = l.source /\ c.extrait = l.extrait
  BY <1>1, <1>3, LigneCorrigee
<1>5. Fondee(l)
  BY <1>1, <1>2 DEF Fondee, Pa!IInv, Pa!RienDInvente
<1>6. Fondee(c)
  BY <1>4, <1>5 DEF Fondee
<1> QED BY <1>1, <1>2, <1>4, <1>6, UneLigne

LEMMA PasValider ==
    ASSUME Pa!Domaines, Pa!IInv, NEW q \in Requetes, Pa!Valider(q)
    PROVE  Pa!IInv'
<1> PICK e, s, par : e = req[q].e /\ s = req[q].saisie /\ par = req[q].par
  OBVIOUS
<1> PICK l : l = equipements[e]
  OBVIOUS
<1> PICK c : c = Pa!Corrige(l, s)
  OBVIOUS
<1> PICK v : v = Pa!Validee(c, par)
  OBVIOUS
<1>1. e \in Equipements /\ s \in Pa!Saisie /\ par \in Membres
  BY FormePasseport DEF Pa!Valider, Pa!En, Pa!Gestes, Pa!IInv, Pa!TypeOK
<1>2. Pa!Existe(e) /\ equipements' = [equipements EXCEPT ![e] = v]
      /\ Pa!Finir(q) /\ UNCHANGED <<documents, attribues>>
  BY DEF Pa!Valider
<1>3. l \in Pa!Equipement
  BY <1>1, <1>2, Lues DEF Pa!IInv
<1>4. c \in Pa!Equipement
  BY <1>1, <1>3, LigneCorrigee
<1>5. v \in Pa!Equipement /\ v.statut = "VALIDE" /\ v.valideur = par
  BY <1>1, <1>4, LigneValidee
<1>6. Fondee(v)
  BY <1>1, <1>5 DEF Fondee, Pa!Domaines
<1> QED BY <1>1, <1>2, <1>5, <1>6, UneLigne

LEMMA PasRetirer ==
    ASSUME Pa!Domaines, Pa!IInv, NEW q \in Requetes, Pa!Retirer(q)
    PROVE  Pa!IInv'
<1> PICK e : e = req[q].e
  OBVIOUS
<1>1. e \in Equipements
  BY FormePasseport DEF Pa!Retirer, Pa!Gestes, Pa!IInv, Pa!TypeOK
<1>2. Pa!Existe(e) /\ equipements' = [equipements EXCEPT ![e] = NUL]
      /\ Pa!Finir(q) /\ UNCHANGED <<documents, attribues>>
  BY DEF Pa!Retirer
<1> QED BY <1>1, <1>2, UneLigne

LEMMA PasDocument ==
    ASSUME Pa!IInv, NEW q \in Requetes,
           \/ \E d \in Documents : Pa!LireDocument(q, d)
           \/ \E cites \in SUBSET Passages : Pa!Repondre(q, cites)
           \/ Pa!Interrompre(q)
    PROVE  Pa!IInv'
<1>1. \E r \in Pa!Requete : Pa!Garder(q, r) /\ Pa!Suivi(r)
  <2>1. CASE \E d \in Documents : Pa!LireDocument(q, d)
    <3> PICK d \in Documents : Pa!LireDocument(q, d)
      BY <2>1
    <3>1. Pa!Garder(q, [etat |-> "lecture", d |-> d])
      BY DEF Pa!LireDocument
    <3>2. [etat |-> "lecture", d |-> d] \in Pa!Requete
      BY DEF Pa!Requete
    <3>3. Pa!Suivi([etat |-> "lecture", d |-> d])
      BY DEF Pa!Suivi
    <3> QED BY <3>1, <3>2, <3>3
  <2>2. CASE \E cites \in SUBSET Passages : Pa!Repondre(q, cites)
    <3> PICK cites \in SUBSET Passages : Pa!Repondre(q, cites)
      BY <2>2
    <3> PICK d, x : d = req[q].d /\ x = Pa!Retenues(d, cites)
      OBVIOUS
    <3>1. d \in Documents /\ x \in SUBSET Passages /\ x \subseteq Contenu[d]
      BY FormePasseport DEF Pa!Repondre, Pa!En, Pa!IInv, Pa!TypeOK, Pa!Retenues
    <3>2. Pa!Garder(q, [etat |-> "reponse", d |-> d, retenues |-> x])
      BY DEF Pa!Repondre
    <3>3. [etat |-> "reponse", d |-> d, retenues |-> x] \in Pa!Requete
      BY <3>1 DEF Pa!Requete
    <3>4. Pa!Suivi([etat |-> "reponse", d |-> d, retenues |-> x])
      BY <3>1 DEF Pa!Suivi
    <3> QED BY <3>2, <3>3, <3>4
  <2>3. CASE Pa!Interrompre(q)
    <3>1. Pa!Libre \in Pa!Requete /\ Pa!Suivi(Pa!Libre)
      BY DEF Pa!Libre, Pa!Requete, Pa!Suivi
    <3> QED BY <2>3, <3>1 DEF Pa!Interrompre, Pa!Finir
  <2> QED BY <2>1, <2>2, <2>3
<1>2. UNCHANGED <<documents, equipements, attribues>>
  BY DEF Pa!LireDocument, Pa!Repondre, Pa!Interrompre, Pa!lignes
<1> QED BY <1>1, <1>2, SansEcrire

\* The rows an answer becomes, one for each passage it retains.
Proposee(d, X, place, e) ==
    [statut |-> "PROPOSE", valideur |-> NUL, contrat |-> NUL, entreprise |-> NUL,
     source |-> d, extrait |-> CHOOSE x \in X : place[x] = e]

LEMMA Propositions ==
    ASSUME NEW q \in Requetes, Pa!Proposer(q)
    PROVE  \E place \in [req[q].retenues -> Equipements \ attribues] :
              /\ attribues' = attribues \cup {place[x] : x \in req[q].retenues}
              /\ equipements' = [e \in Equipements |->
                    IF \E x \in req[q].retenues : place[x] = e
                    THEN Proposee(req[q].d, req[q].retenues, place, e) ELSE equipements[e]]
<1>1. PICK place \in [req[q].retenues -> Equipements \ attribues] :
         /\ attribues' = attribues \cup {place[x] : x \in req[q].retenues}
         /\ equipements' = [e \in Equipements |->
               IF \E x \in req[q].retenues : place[x] = e
               THEN [statut |-> "PROPOSE", valideur |-> NUL, contrat |-> NUL,
                     entreprise |-> NUL, source |-> req[q].d,
                     extrait |-> CHOOSE x \in req[q].retenues : place[x] = e]
               ELSE equipements[e]]
  BY Zenon DEF Pa!Proposer
<1>2. equipements' = [e \in Equipements |->
               IF \E x \in req[q].retenues : place[x] = e
               THEN Proposee(req[q].d, req[q].retenues, place, e) ELSE equipements[e]]
  BY <1>1, Zenon DEF Proposee
<1> QED BY <1>1, <1>2, Zenon

\* A proposal quotes the document that is its source.
LEMMA PasProposer ==
    ASSUME Pa!Domaines, Pa!IInv, NEW q \in Requetes, Pa!Proposer(q)
    PROVE  Pa!IInv'
<1> PICK d, X : d = req[q].d /\ X = req[q].retenues
  OBVIOUS
<1>1. d \in Documents /\ X \in SUBSET Passages /\ X \subseteq Contenu[d]
  BY FormePasseport DEF Pa!Proposer, Pa!En, Pa!IInv, Pa!TypeOK, Pa!Suivi
<1>2. PICK place \in [X -> Equipements \ attribues] :
         /\ attribues' = attribues \cup {place[x] : x \in X}
         /\ equipements' = [e \in Equipements |->
               IF \E x \in X : place[x] = e THEN Proposee(d, X, place, e) ELSE equipements[e]]
  BY Propositions
<1>3. Pa!Finir(q) /\ documents' = documents
  BY DEF Pa!Proposer
<1>4. ASSUME NEW e \in Equipements, \E x \in X : place[x] = e
      PROVE  Proposee(d, X, place, e) \in Pa!Equipement /\ Fondee(Proposee(d, X, place, e))
  <2> PICK y : y = CHOOSE x \in X : place[x] = e
    OBVIOUS
  <2>1. y \in X
    BY <1>4
  <2>2. Proposee(d, X, place, e) =
            [statut |-> "PROPOSE", valideur |-> NUL, contrat |-> NUL, entreprise |-> NUL,
             source |-> d, extrait |-> y]
    BY DEF Proposee
  <2> QED BY <1>1, <2>1, <2>2 DEF Pa!Equipement, Fondee
<1>5. equipements' \in [Equipements -> Pa!Equipement \cup {NUL}]
  BY <1>2, <1>4 DEF Pa!IInv, Pa!TypeOK
<1>6. \A e \in Equipements : equipements'[e] =
          IF \E x \in X : place[x] = e THEN Proposee(d, X, place, e) ELSE equipements[e]
  BY <1>2
<1>7. attribues \subseteq attribues' /\ attribues' \subseteq Equipements
  BY <1>2 DEF Pa!IInv, Pa!TypeOK
<1>8. \A e \in Equipements \ attribues' : equipements'[e] = NUL
  BY <1>2, <1>6 DEF Pa!IInv, Pa!TypeOK, Pa!Existe
<1>9. /\ req' \in [Requetes -> Pa!Requete]
      /\ \A p \in Requetes : req'[p] = req[p] \/ req'[p] = Pa!Libre
  BY <1>3, Finie DEF Pa!IInv
<1>10. \A e \in Equipements :
          \/ equipements'[e] = equipements[e]
          \/ equipements'[e] \in Pa!Equipement /\ Fondee(equipements'[e])
  BY <1>4, <1>6
<1> QED BY <1>3, <1>5, <1>7, <1>8, <1>9, <1>10, EnEcrivant

LEMMA PasSupprimerDocument ==
    ASSUME Pa!Domaines, Pa!IInv, NEW d \in Documents, Pa!SupprimerDocument(d)
    PROVE  Pa!IInv'
<1> DEFINE Sans(e) == [equipements[e] EXCEPT !.source = NUL]
<1>1. equipements' = [e \in Equipements |->
          IF Pa!Existe(e) /\ equipements[e].source = d THEN Sans(e) ELSE equipements[e]]
  BY DEF Pa!SupprimerDocument
<1>2. ASSUME NEW e \in Equipements, Pa!Existe(e)
      PROVE  Sans(e) \in Pa!Equipement /\ Fondee(Sans(e)) /\ e \in attribues
  <2>1. equipements[e] \in Pa!Equipement /\ e \in attribues
    BY <1>2, Lues DEF Pa!IInv
  <2>2. Fondee(equipements[e])
    BY <1>2 DEF Fondee, Pa!IInv, Pa!RienDInvente
  <2> QED BY <2>1, <2>2 DEF Fondee, Pa!Equipement
<1> HIDE DEF Sans
<1>3. \A e \in Equipements : equipements'[e] =
          IF Pa!Existe(e) /\ equipements[e].source = d THEN Sans(e) ELSE equipements[e]
  BY <1>1
<1>4. equipements' \in [Equipements -> Pa!Equipement \cup {NUL}]
  BY <1>1, <1>2 DEF Pa!IInv, Pa!TypeOK
<1>5. /\ attribues' = attribues /\ req' = req /\ documents' \subseteq documents
  BY DEF Pa!SupprimerDocument
<1>6. \A e \in Equipements \ attribues' : equipements'[e] = NUL
  BY <1>2, <1>3, <1>5 DEF Pa!IInv, Pa!TypeOK, Pa!Existe
<1>7. \A e \in Equipements :
          \/ equipements'[e] = equipements[e]
          \/ equipements'[e] \in Pa!Equipement /\ Fondee(equipements'[e])
  BY <1>2, <1>3
<1>8. req' \in [Requetes -> Pa!Requete] /\ attribues' \subseteq Equipements
  BY <1>5 DEF Pa!IInv, Pa!TypeOK
<1> QED BY <1>4, <1>5, <1>6, <1>7, <1>8, EnEcrivant

LEMMA PasPasseport == ASSUME Pa!Domaines, Pa!IInv, [Pa!Next]_Pa!vars PROVE Pa!IInv'
<1>1. CASE UNCHANGED Pa!vars
  BY <1>1 DEF Pa!vars, Pa!lignes, Pa!IInv, Pa!TypeOK, Pa!RienDInvente, Pa!Existe, Pa!Suivi
<1>2. CASE Pa!Next
  BY <1>2, PasCreer, PasLire, PasModifier, PasValider, PasRetirer, PasDocument, PasProposer,
     PasSupprimerDocument DEF Pa!Next
<1> QED BY <1>1, <1>2

THEOREM InvariancePasseport == ASSUME Pa!Domaines PROVE Pa!Spec => []Pa!IInv
<1>1. Pa!Init => Pa!IInv
  BY DepartPasseport DEF Pa!SInv
<1>2. Pa!IInv /\ [Pa!Next]_Pa!vars => Pa!IInv'
  BY PasPasseport
<1> QED BY <1>1, <1>2, PTL DEF Pa!Spec

\* proposer, valider: whatever runs at the same time, nothing is in the
\* passport that a person has not put there, and a proposal quotes the document
\* it names.
THEOREM RienQuUnePersonne == ASSUME Pa!Domaines PROVE Pa!Spec => []Pa!RienDInvente
<1>1. Pa!IInv => Pa!RienDInvente
  BY DEF Pa!IInv
<1> QED BY <1>1, InvariancePasseport, PTL

(***************************************************************************)
(* One request at a time.                                                  *)
(***************************************************************************)
\* What was looked at is as it was, unless the step is its own.
LEMMA PasseportActuel ==
    ASSUME Pa!Domaines, UneALaFois, Pa!SInv, [Pa!Next]_Pa!vars, Pa!IInv'
    PROVE  \A q \in Requetes : Pa!Actuel(req[q])'
<1> SUFFICES ASSUME NEW q \in Requetes, req[q].etat' \in {"valider", "rejeter"}
             PROVE  /\ equipements'[req'[q].e] # NUL
                    /\ equipements'[req'[q].e].statut = "PROPOSE"
  BY DEF Pa!Actuel, Pa!Existe
<1>0. req \in [Requetes -> Pa!Requete]
  BY DEF Pa!SInv, Pa!IInv, Pa!TypeOK
<1>1. \A p \in Requetes : p = q
  BY DEF UneALaFois
<1>2. CASE \E g \in Pa!Gestes, e \in Equipements, par \in Membres, s \in Pa!Saisie :
              Pa!Lire(q, g, e, par, s)
  <2> PICK g \in Pa!Gestes, e \in Equipements, par \in Membres, s \in Pa!Saisie :
              Pa!Lire(q, g, e, par, s)
    BY <1>2
  <2>1. req'[q] = [etat |-> g, e |-> e, par |-> par, saisie |-> s] /\ equipements' = equipements
    BY <1>0 DEF Pa!Lire, Pa!Garder, Pa!lignes
  <2> QED BY <2>1 DEF Pa!Lire, Pa!Permis, Pa!Existe
<1>3. CASE Pa!Modifier(q) \/ Pa!Valider(q) \/ Pa!Retirer(q) \/ Pa!Proposer(q) \/ Pa!Interrompre(q)
           \/ (\E d \in Documents : Pa!LireDocument(q, d))
           \/ \E cites \in SUBSET Passages : Pa!Repondre(q, cites)
  BY <1>0, <1>3 DEF Pa!Modifier, Pa!Valider, Pa!Retirer, Pa!Proposer, Pa!Interrompre,
     Pa!LireDocument, Pa!Repondre, Pa!Finir, Pa!Garder, Pa!Libre
<1>4. ASSUME req' = req
      PROVE  /\ Pa!Existe(req[q].e) /\ equipements[req[q].e].statut = "PROPOSE"
             /\ req[q].e \in Equipements /\ req[q].e \in attribues
             /\ equipements[req[q].e] \in Pa!Equipement
  BY <1>0, <1>4, FormePasseport, Lues DEF Pa!SInv, Pa!Actuel, Pa!Gestes, Pa!IInv
<1>5. CASE UNCHANGED Pa!vars
  BY <1>4, <1>5 DEF Pa!vars, Pa!lignes, Pa!Existe
<1>6. CASE \E e \in Equipements, par \in Membres, s \in Pa!Saisie : Pa!Creer(e, par, s)
  <2> PICK e, l : /\ e \in Equipements /\ e \notin attribues /\ req' = req
                  /\ equipements' = [equipements EXCEPT ![e] = l]
    BY <1>6 DEF Pa!Creer
  <2> QED BY <1>4 DEF Pa!Existe
<1>7. CASE \E d \in Documents : Pa!SupprimerDocument(d)
  <2> PICK d \in Documents : Pa!SupprimerDocument(d)
    BY <1>7
  <2> PICK e : e = req[q].e
    OBVIOUS
  <2>1. /\ req' = req
        /\ equipements'[e] = IF Pa!Existe(e) /\ equipements[e].source = d
                             THEN [equipements[e] EXCEPT !.source = NUL] ELSE equipements[e]
    BY <1>4 DEF Pa!SupprimerDocument
  <2>2. equipements'[e] = equipements[e] \/ equipements'[e].statut = equipements[e].statut
    BY <2>1, <1>4 DEF Pa!Equipement
  <2>3. equipements'[e] # NUL
    BY <2>1, <1>4 DEF Pa!Equipement, Pa!Existe, Pa!Domaines
  <2> QED BY <2>1, <2>2, <2>3, <1>4
<1> QED BY <1>1, <1>2, <1>3, <1>5, <1>6, <1>7 DEF Pa!Next

THEOREM PasseportEnSerie == ASSUME Pa!Domaines, UneALaFois PROVE Pa!Spec => []Pa!SInv
<1>1. Pa!Init => Pa!SInv
  BY DepartPasseport
<1>2. Pa!SInv /\ [Pa!Next]_Pa!vars => Pa!SInv'
  BY PasPasseport, PasseportActuel DEF Pa!SInv
<1> QED BY <1>1, <1>2, PTL DEF Pa!Spec

\* rejeter, one request at a time: an equipment of the passport goes when its
\* removal is asked for, never as a proposal set aside, and who validated it
\* stays.
THEOREM RienDePerdu == ASSUME Pa!Domaines, UneALaFois PROVE Pa!Spec => [][Pa!PasDePerte]_Pa!vars
<1>1. ASSUME Pa!SInv, Pa!Next PROVE Pa!PasDePerte
  <2> SUFFICES ASSUME NEW e \in Equipements, Pa!Existe(e), equipements[e].statut = "VALIDE"
               PROVE  IF equipements'[e] = NUL
                      THEN \E q \in Requetes : Pa!En(q, "supprimer") /\ req[q].e = e
                      ELSE equipements'[e].valideur = equipements[e].valideur
    BY DEF Pa!PasDePerte
  <2>0. /\ equipements \in [Equipements -> Pa!Equipement \cup {NUL}]
        /\ equipements[e] \in Pa!Equipement /\ e \in attribues
        /\ req \in [Requetes -> Pa!Requete]
    BY <1>1, Lues DEF Pa!SInv, Pa!IInv, Pa!TypeOK
  <2>1. ASSUME equipements'[e] = equipements[e]
        PROVE  equipements'[e] # NUL /\ equipements'[e].valideur = equipements[e].valideur
    BY <2>1 DEF Pa!Existe
  <2>2. ASSUME NEW x \in Equipements, NEW par \in Membres, NEW s \in Pa!Saisie, Pa!Creer(x, par, s)
        PROVE  equipements'[e] = equipements[e]
    BY <2>0, <2>2 DEF Pa!Creer
  <2>3. ASSUME NEW d \in Documents, Pa!SupprimerDocument(d)
        PROVE  equipements'[e] # NUL /\ equipements'[e].valideur = equipements[e].valideur
    <3>1. equipements'[e] = IF equipements[e].source = d
                            THEN [equipements[e] EXCEPT !.source = NUL] ELSE equipements[e]
      BY <2>3 DEF Pa!SupprimerDocument
    <3>2. [equipements[e] EXCEPT !.source = NUL] \in Pa!Equipement
      BY <2>0 DEF Pa!Equipement
    <3> QED BY <2>0, <3>1, <3>2, <1>1 DEF Pa!Equipement, Pa!Existe, Pa!Domaines
  <2>4. ASSUME NEW q \in Requetes, Pa!Modifier(q)
        PROVE  equipements'[e] # NUL /\ equipements'[e].valideur = equipements[e].valideur
    <3> PICK x, s : x = req[q].e /\ s = req[q].saisie
      OBVIOUS
    <3> PICK c : c = Pa!Corrige(equipements[x], s)
      OBVIOUS
    <3>1. s \in Pa!Saisie
      BY <2>0, <2>4, FormePasseport DEF Pa!Modifier, Pa!En, Pa!Gestes
    <3>2. equipements' = [equipements EXCEPT ![x] = c]
      BY <2>4 DEF Pa!Modifier
    <3>3. CASE x = e
      <4>1. c \in Pa!Equipement /\ c.valideur = equipements[e].valideur
        BY <2>0, <3>1, <3>3, LigneCorrigee
      <4> QED BY <2>0, <3>2, <3>3, <4>1 DEF Pa!Domaines
    <3> QED BY <2>0, <2>1, <3>2, <3>3
  <2>5. ASSUME NEW q \in Requetes, Pa!Valider(q) PROVE equipements'[e] = equipements[e]
    <3>1. req[q].e # e
      BY <1>1, <2>5 DEF Pa!SInv, Pa!Actuel, Pa!Valider, Pa!En
    <3> QED BY <2>0, <2>5, <3>1 DEF Pa!Valider
  <2>6. ASSUME NEW q \in Requetes, Pa!Retirer(q)
        PROVE  equipements'[e] = equipements[e] \/ (Pa!En(q, "supprimer") /\ req[q].e = e)
    <3>1. req[q].etat = "rejeter" => req[q].e # e
      BY <1>1, <2>6 DEF Pa!SInv, Pa!Actuel
    <3> QED BY <2>0, <2>6, <3>1 DEF Pa!Retirer, Pa!En
  <2>7. ASSUME NEW q \in Requetes, Pa!Retirer(q), Pa!En(q, "supprimer"), req[q].e = e
        PROVE  equipements'[e] = NUL
    BY <2>0, <2>7 DEF Pa!Retirer
  <2>8. ASSUME NEW q \in Requetes, Pa!Proposer(q) PROVE equipements'[e] = equipements[e]
    <3> PICK d, X : d = req[q].d /\ X = req[q].retenues
      OBVIOUS
    <3>1. PICK place \in [X -> Equipements \ attribues] :
             equipements' = [y \in Equipements |->
                IF \E x \in X : place[x] = y THEN Proposee(d, X, place, y) ELSE equipements[y]]
      BY <2>8, Propositions
    <3> QED BY <2>0, <3>1
  <2>9. ASSUME NEW q \in Requetes,
               \/ \E g \in Pa!Gestes, x \in Equipements, par \in Membres, s \in Pa!Saisie :
                     Pa!Lire(q, g, x, par, s)
               \/ \E d \in Documents : Pa!LireDocument(q, d)
               \/ \E cites \in SUBSET Passages : Pa!Repondre(q, cites)
               \/ Pa!Interrompre(q)
        PROVE  equipements'[e] = equipements[e]
    BY <2>9 DEF Pa!Lire, Pa!LireDocument, Pa!Repondre, Pa!Interrompre, Pa!lignes
  <2> QED BY <1>1, <2>1, <2>2, <2>3, <2>4, <2>5, <2>6, <2>7, <2>8, <2>9 DEF Pa!Next
<1>2. Pa!SInv /\ [Pa!Next]_Pa!vars => [Pa!PasDePerte]_Pa!vars
  BY <1>1
<1> QED BY <1>2, PasseportEnSerie, PTL DEF Pa!Spec

(***************************************************************************)
(* Reglements.                                                             *)
(* A zone applies once a person has validated it, whatever runs at the     *)
(* same time; one request at a time, one commune per name, the text of the *)
(* file and the zones of one reading.                                      *)
(***************************************************************************)
\* The shapes of a request.
LEMMA FormeReglement ==
    ASSUME NEW r \in Rg!Requete
    PROVE  /\ r.etat \in {"libre", "commune", "depot", "lecture", "zones", "efface"}
           /\ r.etat = "commune" => r.nom \in Noms
           /\ r.etat = "depot" => r.r \in Rg!Ids /\ r.cle \in Rg!Cles
           /\ r.etat = "lecture" => r.r \in Rg!Ids /\ r.source \in Rg!Textes
           /\ r.etat = "zones" => r.r \in Rg!Ids /\ r.texte \in Rg!Textes
           /\ r.etat = "efface" => /\ r.r \in Rg!Ids /\ r.texte \in Rg!Textes
                                   /\ r.trouves \in SUBSET Codes /\ r.vues \in SUBSET Rg!Zone
BY DEF Rg!Requete

LEMMA RequetesReglement ==
    /\ Rg!Libre \in Rg!Requete
    /\ \A n \in Noms : [etat |-> "commune", nom |-> n] \in Rg!Requete
    /\ \A r \in Rg!Ids, c \in Rg!Cles : [etat |-> "depot", r |-> r, cle |-> c] \in Rg!Requete
    /\ \A r \in Rg!Ids, s \in Rg!Textes :
          /\ [etat |-> "lecture", r |-> r, source |-> s] \in Rg!Requete
          /\ [etat |-> "zones", r |-> r, texte |-> s] \in Rg!Requete
    /\ \A r \in Rg!Ids, s \in Rg!Textes, T \in SUBSET Codes, V \in SUBSET Rg!Zone :
          [etat |-> "efface", r |-> r, texte |-> s, trouves |-> T, vues |-> V] \in Rg!Requete
BY DEF Rg!Requete, Rg!Libre

LEMMA GardeReglement ==
    ASSUME NEW q \in Requetes, NEW r \in Rg!Requete,
           req \in [Requetes -> Rg!Requete], Rg!Garder(q, r)
    PROVE  /\ req' \in [Requetes -> Rg!Requete]
           /\ req'[q] = r
           /\ \A p \in Requetes : p # q => req'[p] = req[p]
BY DEF Rg!Garder

\* What the zones are among themselves.
Tirees ==
    /\ \A z \in zones : z.lecture <= extractions /\ (z.valide => Rg!Cle(z) \in gestes)
    /\ \A z, t \in zones : Rg!Cle(z) = Rg!Cle(t) => z = t

LEMMA DepartReglement == ASSUME Rg!Domaines, Rg!Init PROVE Rg!SInv
BY RequetesReglement DEF Rg!Init, Rg!SInv, Rg!IInv, Rg!TypeOK, Rg!CommuneUnique, Rg!TexteDuFichier,
   Rg!UneLecture, Rg!Suivi, Rg!Actuel, Rg!Libre, Rg!Domaines, Rg!Presents

(***************************************************************************)
(* Whatever runs at the same time                                          *)
(***************************************************************************)
\* A request that looks, draws a key or ends without touching the zones.
LEMMA HorsDesZones ==
    ASSUME Rg!IInv, NEW q \in Requetes, NEW r \in Rg!Requete, Rg!Garder(q, r),
           communes' \subseteq Noms, cles' \in 0..MaxFichiers,
           reglements' \in [Rg!Ids -> Rg!Reglement \cup {NUL}],
           \A i \in Rg!Ids : reglements[i] # NUL => reglements'[i] # NUL,
           UNCHANGED <<zones, extractions, gestes>>,
           Rg!Suivi(r)
    PROVE  Rg!IInv'
<1>1. /\ req' \in [Requetes -> Rg!Requete] /\ req'[q] = r
      /\ \A p \in Requetes : p # q => req'[p] = req[p]
  BY GardeReglement DEF Rg!IInv, Rg!TypeOK
<1>2. Rg!TypeOK'
  BY <1>1 DEF Rg!IInv, Rg!TypeOK
<1>3. \A p \in Requetes : Rg!Suivi(req'[p])
  BY <1>1 DEF Rg!IInv
<1>4. \A p \in Requetes : Rg!Suivi(req[p])'
  BY <1>3 DEF Rg!Suivi, Rg!Presents
<1> QED BY <1>2, <1>4 DEF Rg!IInv, Rg!Cle

LEMMA PasChercher ==
    ASSUME Rg!IInv, NEW q \in Requetes, NEW n \in Noms, Rg!ChercherCommune(q, n)
    PROVE  Rg!IInv'
<1> DEFINE r == [etat |-> "commune", nom |-> n]
<1>1. r \in Rg!Requete /\ Rg!Suivi(r)
  BY RequetesReglement DEF Rg!Suivi
<1>2. Rg!Garder(q, r) /\ UNCHANGED <<communes, reglements, zones, cles, extractions, gestes>>
  BY DEF Rg!ChercherCommune
<1> HIDE DEF r
<1> QED BY <1>1, <1>2, HorsDesZones DEF Rg!IInv, Rg!TypeOK

LEMMA FinReglement == Rg!Libre \in Rg!Requete /\ Rg!Suivi(Rg!Libre)
BY RequetesReglement DEF Rg!Suivi, Rg!Libre

LEMMA PasCreerCommune ==
    ASSUME Rg!IInv, NEW q \in Requetes, Rg!CreerCommune(q)
    PROVE  Rg!IInv'
<1>1. req[q].nom \in Noms
  BY FormeReglement DEF Rg!CreerCommune, Rg!En, Rg!IInv, Rg!TypeOK
<1> QED BY <1>1, FinReglement, HorsDesZones DEF Rg!CreerCommune, Rg!Finir, Rg!IInv, Rg!TypeOK

LEMMA PasStocker ==
    ASSUME Rg!Domaines, Rg!IInv, NEW q \in Requetes, NEW i \in Rg!Ids, Rg!Stocker(q, i)
    PROVE  Rg!IInv'
<1> DEFINE r == [etat |-> "depot", r |-> i, cle |-> cles + 1]
<1>0. cles \in 0..MaxFichiers /\ cles < MaxFichiers /\ cles' = cles + 1 /\ i \in Rg!Presents
  BY DEF Rg!Stocker, Rg!IInv, Rg!TypeOK
<1>1. cles + 1 \in Rg!Cles /\ cles' \in 0..MaxFichiers
  BY <1>0 DEF Rg!Cles, Rg!Domaines
<1>2. r \in Rg!Requete /\ Rg!Suivi(r)
  BY <1>0, <1>1, RequetesReglement DEF Rg!Suivi
<1>3. Rg!Garder(q, r) /\ UNCHANGED <<communes, reglements, zones, extractions, gestes>>
  BY DEF Rg!Stocker
<1> HIDE DEF r
<1> QED BY <1>1, <1>2, <1>3, HorsDesZones DEF Rg!IInv, Rg!TypeOK

\* A row that is there stays a row.
LEMMA LigneReglement ==
    ASSUME Rg!Domaines, NEW l \in Rg!Reglement
    PROVE  /\ \A c \in Rg!Cles : /\ Rg!AvecFichier(l, c) \in Rg!Reglement
                                 /\ Rg!AvecFichier(l, c).texte = NUL
           /\ \A s \in Rg!Textes : /\ Rg!AvecTexte(l, s) \in Rg!Reglement
                                   /\ Rg!AvecTexte(l, s).texte = s
                                   /\ Rg!AvecTexte(l, s).fichier = l.fichier
           /\ [l EXCEPT !.erreur = TRUE] \in Rg!Reglement
           /\ l # NUL
BY DEF Rg!AvecFichier, Rg!AvecTexte, Rg!Reglement, Rg!Domaines

LEMMA LigneLue ==
    ASSUME Rg!IInv, NEW q \in Requetes, req[q].etat \in {"depot", "lecture", "zones", "efface"}
    PROVE  /\ req[q].r \in Rg!Ids /\ reglements[req[q].r] \in Rg!Reglement
           /\ req[q].r \in Rg!Presents
BY FormeReglement DEF Rg!IInv, Rg!TypeOK, Rg!Suivi, Rg!Presents

\* A request that ends by writing its regulation.
LEMMA PasLigne ==
    ASSUME Rg!Domaines, Rg!IInv, NEW q \in Requetes,
           Rg!DeposerFichier(q) \/ Rg!EcrireTexte(q) \/ Rg!EcrireErreur(q)
    PROVE  Rg!IInv'
<1>1. PICK i \in Rg!Ids, l \in Rg!Reglement : reglements' = [reglements EXCEPT ![i] = l]
  <2>1. req[q].r \in Rg!Ids /\ reglements[req[q].r] \in Rg!Reglement
    BY LigneLue DEF Rg!DeposerFichier, Rg!EcrireTexte, Rg!EcrireErreur, Rg!En
  <2>2. req[q].etat = "depot" => req[q].cle \in Rg!Cles
    BY FormeReglement DEF Rg!IInv, Rg!TypeOK
  <2>3. req[q].etat = "lecture" => req[q].source \in Rg!Textes
    BY FormeReglement DEF Rg!IInv, Rg!TypeOK
  <2>4. CASE Rg!DeposerFichier(q)
    BY <2>1, <2>2, <2>4, LigneReglement DEF Rg!DeposerFichier, Rg!En
  <2>5. CASE Rg!EcrireTexte(q)
    BY <2>1, <2>3, <2>5, LigneReglement DEF Rg!EcrireTexte, Rg!En
  <2>6. CASE Rg!EcrireErreur(q)
    BY <2>1, <2>6, LigneReglement DEF Rg!EcrireErreur
  <2> QED BY <2>4, <2>5, <2>6
<1>2. Rg!Garder(q, Rg!Libre) /\ UNCHANGED <<communes, zones, cles, extractions, gestes>>
  BY DEF Rg!DeposerFichier, Rg!EcrireTexte, Rg!EcrireErreur, Rg!Finir
<1>3. /\ reglements' \in [Rg!Ids -> Rg!Reglement \cup {NUL}]
      /\ \A j \in Rg!Ids : reglements[j] # NUL => reglements'[j] # NUL
  BY <1>1, LigneReglement DEF Rg!IInv, Rg!TypeOK
<1> QED BY <1>2, <1>3, FinReglement, HorsDesZones DEF Rg!IInv, Rg!TypeOK

LEMMA PasLireReglement ==
    ASSUME Rg!IInv, NEW q \in Requetes, NEW i \in Rg!Ids, Rg!LireReglement(q, i)
    PROVE  Rg!IInv'
<1> DEFINE r == [etat |-> "lecture", r |-> i, source |-> Rg!Source(reglements[i])]
<1>0. i \in Rg!Presents /\ reglements[i] \in Rg!Reglement
  BY DEF Rg!LireReglement, Rg!IInv, Rg!TypeOK, Rg!Presents
<1>1. Rg!Source(reglements[i]) \in Rg!Textes
  BY <1>0 DEF Rg!Source, Rg!Reglement, Rg!Textes
<1>2. r \in Rg!Requete /\ Rg!Suivi(r)
  BY <1>0, <1>1, RequetesReglement DEF Rg!Suivi
<1>3. Rg!Garder(q, r) /\ UNCHANGED <<communes, reglements, zones, cles, extractions, gestes>>
  BY DEF Rg!LireReglement
<1> HIDE DEF r
<1> QED BY <1>2, <1>3, HorsDesZones DEF Rg!IInv, Rg!TypeOK

LEMMA PasLireTexte ==
    ASSUME Rg!IInv, NEW q \in Requetes, NEW i \in Rg!Ids, Rg!LireTexte(q, i)
    PROVE  Rg!IInv'
<1> DEFINE r == [etat |-> "zones", r |-> i, texte |-> reglements[i].texte]
<1>0. i \in Rg!Presents /\ reglements[i] \in Rg!Reglement /\ reglements[i].texte # NUL
  BY DEF Rg!LireTexte, Rg!IInv, Rg!TypeOK, Rg!Presents
<1>1. reglements[i].texte \in Rg!Textes
  BY <1>0 DEF Rg!Reglement
<1>2. r \in Rg!Requete /\ Rg!Suivi(r)
  BY <1>0, <1>1, RequetesReglement DEF Rg!Suivi
<1>3. Rg!Garder(q, r) /\ UNCHANGED <<communes, reglements, zones, cles, extractions, gestes>>
  BY DEF Rg!LireTexte
<1> HIDE DEF r
<1> QED BY <1>2, <1>3, HorsDesZones DEF Rg!IInv, Rg!TypeOK

LEMMA PasEffacerZones ==
    ASSUME Rg!IInv, NEW q \in Requetes, NEW T \in SUBSET Codes, Rg!EffacerZones(q, T)
    PROVE  Rg!IInv'
<1> PICK i, s, V : i = req[q].r /\ s = req[q].texte /\ V = Rg!ZonesDe(req[q].r)
  OBVIOUS
<1> DEFINE r == [etat |-> "efface", r |-> i, texte |-> s, trouves |-> T, vues |-> V]
<1>0. i \in Rg!Ids /\ s \in Rg!Textes /\ i \in Rg!Presents
  BY FormeReglement, LigneLue DEF Rg!EffacerZones, Rg!En, Rg!IInv, Rg!TypeOK
<1>1. V \subseteq zones /\ zones \subseteq Rg!Zone
  BY DEF Rg!ZonesDe, Rg!IInv, Rg!TypeOK
<1>2. r \in Rg!Requete
  BY <1>0, <1>1, RequetesReglement
<1>3. Rg!Suivi(r)
  BY <1>0, <1>1 DEF Rg!Suivi, Rg!IInv
<1>4. Rg!Garder(q, r) /\ UNCHANGED <<communes, reglements, zones, cles, extractions, gestes>>
  BY DEF Rg!EffacerZones, Rg!Remplacees
<1> HIDE DEF r
<1> QED BY <1>2, <1>3, <1>4, HorsDesZones DEF Rg!IInv, Rg!TypeOK

LEMMA PasInterrompreReglement ==
    ASSUME Rg!IInv, NEW q \in Requetes, Rg!Interrompre(q)
    PROVE  Rg!IInv'
BY FinReglement, HorsDesZones DEF Rg!Interrompre, Rg!Finir, Rg!IInv, Rg!TypeOK

LEMMA PasEnregistrer ==
    ASSUME Rg!Domaines, Rg!IInv, NEW c \in Noms, Rg!Enregistrer(c)
    PROVE  Rg!IInv'
<1> DEFINE l == [commune |-> c, lien |-> TRUE, fichier |-> NUL, texte |-> NUL, erreur |-> FALSE]
<1>1. l \in Rg!Reglement
  BY DEF Rg!Reglement
<1>2. PICK i \in Rg!Ids : reglements' = [reglements EXCEPT ![i] = l]
  BY DEF Rg!Enregistrer
<1>3. UNCHANGED <<communes, zones, cles, extractions, gestes, req>>
  BY DEF Rg!Enregistrer
<1>4. l # NUL
  BY <1>1 DEF Rg!Domaines
<1> HIDE DEF l
<1>5. /\ reglements' \in [Rg!Ids -> Rg!Reglement \cup {NUL}]
      /\ \A j \in Rg!Ids : reglements[j] # NUL => reglements'[j] # NUL
  BY <1>1, <1>2, <1>4 DEF Rg!IInv, Rg!TypeOK
<1>6. Rg!TypeOK'
  BY <1>3, <1>5 DEF Rg!IInv, Rg!TypeOK
<1>7. \A p \in Requetes : Rg!Suivi(req[p])'
  BY <1>3, <1>5 DEF Rg!IInv, Rg!Suivi, Rg!Presents
<1> QED BY <1>3, <1>6, <1>7 DEF Rg!IInv, Rg!Cle

\* The fields of a zone.
LEMMA FormeZone ==
    ASSUME NEW z \in Rg!Zone
    PROVE  /\ z.reglement \in Rg!Ids /\ z.code \in Codes /\ z.lecture \in 1..MaxLectures
           /\ Rg!Cle(z) \in Rg!Ids \X Codes \X (1..MaxLectures)
           /\ \A v \in BOOLEAN : /\ [z EXCEPT !.valide = v] \in Rg!Zone
                                 /\ [z EXCEPT !.valide = v].valide = v
                                 /\ [z EXCEPT !.valide = v].reglement = z.reglement
                                 /\ [z EXCEPT !.valide = v].lecture = z.lecture
                                 /\ [z EXCEPT !.valide = v].source = z.source
                                 /\ Rg!Cle([z EXCEPT !.valide = v]) = Rg!Cle(z)
BY DEF Rg!Zone, Rg!Cle

\* A gesture on a zone leaves its key, and does not reach a zone that a
\* transaction is removing.
LEMMA PasValiderZone ==
    ASSUME Rg!Domaines, Rg!IInv, NEW z \in zones, NEW v \in BOOLEAN, Rg!ValiderZone(z, v)
    PROVE  Rg!IInv'
<1> PICK n : n = [z EXCEPT !.valide = v]
  OBVIOUS
<1>0. zones \subseteq Rg!Zone /\ z \in Rg!Zone
  BY DEF Rg!IInv, Rg!TypeOK
<1>1. /\ n \in Rg!Zone /\ n.valide = v /\ n.lecture = z.lecture /\ Rg!Cle(n) = Rg!Cle(z)
      /\ Rg!Cle(z) \in Rg!Ids \X Codes \X (1..MaxLectures)
  BY <1>0, FormeZone
<1>2. /\ zones' = (zones \ {z}) \cup {n}
      /\ gestes' = IF v THEN gestes \cup {Rg!Cle(z)} ELSE gestes \ {Rg!Cle(z)}
      /\ UNCHANGED <<communes, reglements, cles, extractions, req>>
      /\ \A q \in Requetes : req[q].etat = "efface" => z \notin req[q].vues
  BY DEF Rg!ValiderZone, Rg!En
<1>3. Rg!TypeOK'
  BY <1>0, <1>1, <1>2 DEF Rg!IInv, Rg!TypeOK
<1>4. \A x, t \in zones' : Rg!Cle(x) = Rg!Cle(t) => x = t
  BY <1>1, <1>2 DEF Rg!IInv
<1>5. \A x \in zones' : x.lecture <= extractions' /\ (x.valide => Rg!Cle(x) \in gestes')
  BY <1>1, <1>2 DEF Rg!IInv
<1>6. ASSUME NEW q \in Requetes PROVE Rg!Suivi(req[q])'
  <2>1. req[q].etat = "efface" =>
           \A w \in req[q].vues : \A x \in zones' : Rg!Cle(x) = Rg!Cle(w) => x = w
    BY <1>1, <1>2 DEF Rg!IInv, Rg!Suivi
  <2> QED BY <1>2, <2>1 DEF Rg!IInv, Rg!Suivi, Rg!Presents, Rg!Cle
<1> QED BY <1>3, <1>4, <1>5, <1>6 DEF Rg!IInv, Rg!Cle

\* The zones of an answer have keys that none had.
LEMMA ZonesLues ==
    ASSUME Rg!Domaines, Rg!IInv, NEW q \in Requetes, NEW C \in SUBSET Codes, Rg!EcrireZones(q, C)
    PROVE  \A c \in req[q].trouves :
              LET n == Rg!Lue(q, c, C)
              IN  /\ n \in Rg!Zone /\ ~n.valide /\ n.lecture = extractions + 1
                  /\ n.code = c /\ n.reglement = req[q].r /\ n.source = req[q].texte
<1> SUFFICES ASSUME NEW c \in req[q].trouves
             PROVE  LET n == Rg!Lue(q, c, C)
                    IN  /\ n \in Rg!Zone /\ ~n.valide /\ n.lecture = extractions + 1
                        /\ n.code = c /\ n.reglement = req[q].r /\ n.source = req[q].texte
  OBVIOUS
<1>1. /\ req[q].r \in Rg!Ids /\ req[q].texte \in Rg!Textes /\ c \in Codes
      /\ extractions + 1 \in 1..MaxLectures
  BY FormeReglement DEF Rg!EcrireZones, Rg!En, Rg!IInv, Rg!TypeOK, Rg!Domaines
<1> QED BY <1>1 DEF Rg!Lue, Rg!Zone

LEMMA PasEcrireZones ==
    ASSUME Rg!Domaines, Rg!IInv, NEW q \in Requetes, NEW C \in SUBSET Codes, Rg!EcrireZones(q, C)
    PROVE  Rg!IInv'
<1> PICK V, T : V = req[q].vues /\ T = req[q].trouves
  OBVIOUS
<1> DEFINE N == {Rg!Lue(q, c, C) : c \in T}
<1>0. /\ zones \subseteq Rg!Zone /\ V \subseteq Rg!Zone /\ extractions \in 0..MaxLectures
      /\ extractions + 1 \in 0..MaxLectures
      /\ req \in [Requetes -> Rg!Requete]
  BY FormeReglement DEF Rg!EcrireZones, Rg!En, Rg!IInv, Rg!TypeOK, Rg!Domaines
<1>1. \A n \in N : n \in Rg!Zone /\ ~n.valide /\ n.lecture = extractions + 1
                  /\ n = Rg!Lue(q, n.code, C)
  BY ZonesLues
<1>1a. \A n \in N : n.reglement = req[q].r
  BY ZonesLues
<1>2. /\ zones' = (zones \ V) \cup N
      /\ gestes' = gestes \ {Rg!Cle(z) : z \in V}
      /\ extractions' = extractions + 1
      /\ Rg!Garder(q, Rg!Libre) /\ UNCHANGED <<communes, reglements, cles>>
  BY DEF Rg!EcrireZones, Rg!Finir
<1> HIDE DEF N
<1>3. /\ req' \in [Requetes -> Rg!Requete] /\ req'[q] = Rg!Libre
      /\ \A p \in Requetes : p # q => req'[p] = req[p]
  BY <1>0, <1>2, GardeReglement, RequetesReglement
<1>4. Rg!TypeOK'
  BY <1>0, <1>1, <1>2, <1>3 DEF Rg!IInv, Rg!TypeOK
<1>5. \A x \in zones : x.lecture <= extractions /\ x.lecture \in Int
  BY <1>0, FormeZone DEF Rg!IInv
<1>6. \A n \in N, x \in zones : Rg!Cle(n) # Rg!Cle(x)
  BY <1>0, <1>1, <1>5 DEF Rg!Cle
<1>7. \A n, m \in N : Rg!Cle(n) = Rg!Cle(m) => n = m
  BY <1>1 DEF Rg!Cle
<1>8. \A x, t \in zones' : Rg!Cle(x) = Rg!Cle(t) => x = t
  BY <1>2, <1>6, <1>7 DEF Rg!IInv
<1>9. \A w \in V : \A x \in zones : Rg!Cle(x) = Rg!Cle(w) => x = w
  BY DEF Rg!IInv, Rg!Suivi, Rg!EcrireZones, Rg!En
<1>10. \A x \in zones' : x.lecture <= extractions' /\ (x.valide => Rg!Cle(x) \in gestes')
  <2>1. \A x \in zones \ V : x.valide => Rg!Cle(x) \in gestes'
    BY <1>2, <1>9 DEF Rg!IInv
  <2> QED BY <1>0, <1>1, <1>2, <1>5, <2>1
<1>11. ASSUME NEW p \in Requetes PROVE Rg!Suivi(req[p])'
  <2>1. CASE p = q
    BY <1>3, <2>1 DEF Rg!Suivi, Rg!Libre
  <2>2. CASE p # q
    <3>1. req'[p] = req[p]
      BY <1>3, <2>2
    <3>2. ASSUME req[p].etat = "efface", NEW w \in req[p].vues
          PROVE  w.lecture <= extractions' /\ \A x \in zones' : Rg!Cle(x) = Rg!Cle(w) => x = w
      <4>1. /\ w.lecture <= extractions /\ w.lecture \in Int
            /\ \A x \in zones : Rg!Cle(x) = Rg!Cle(w) => x = w
        BY <1>0, <3>2, FormeReglement, FormeZone DEF Rg!IInv, Rg!Suivi
      <4>2. \A n \in N : Rg!Cle(n) # Rg!Cle(w)
        BY <1>0, <1>1, <4>1 DEF Rg!Cle
      <4> QED BY <1>0, <1>2, <4>1, <4>2
    <3> QED BY <1>2, <3>1, <3>2 DEF Rg!IInv, Rg!Suivi, Rg!Presents, Rg!Cle
  <2> QED BY <2>1, <2>2
<1> QED BY <1>4, <1>8, <1>10, <1>11 DEF Rg!IInv, Rg!Cle

LEMMA PasReglement == ASSUME Rg!Domaines, Rg!IInv, [Rg!Next]_Rg!vars PROVE Rg!IInv'
<1>1. CASE UNCHANGED Rg!vars
  BY <1>1 DEF Rg!vars, Rg!IInv, Rg!TypeOK, Rg!Suivi, Rg!Presents, Rg!Cle
<1>2. CASE Rg!Next
  BY <1>2, PasEnregistrer, PasValiderZone, PasChercher, PasCreerCommune, PasStocker,
     PasLireReglement, PasLireTexte, PasLigne, PasEffacerZones, PasEcrireZones,
     PasInterrompreReglement DEF Rg!Next
<1> QED BY <1>1, <1>2

THEOREM InvarianceReglement == ASSUME Rg!Domaines PROVE Rg!Spec => []Rg!IInv
<1>1. Rg!Init => Rg!IInv
  BY DepartReglement DEF Rg!SInv
<1>2. Rg!IInv /\ [Rg!Next]_Rg!vars => Rg!IInv'
  BY PasReglement
<1> QED BY <1>1, <1>2, PTL DEF Rg!Spec

\* validerZone: whatever runs at the same time, what reaches a parcel was
\* validated by a person since it was last read.
THEOREM ZonesValidees == ASSUME Rg!Domaines PROVE Rg!Spec => []Rg!ZoneValidee
<1>1. Rg!IInv => Rg!ZoneValidee
  BY DEF Rg!IInv, Rg!ZoneValidee, Rg!Applicables
<1> QED BY <1>1, InvarianceReglement, PTL

(***************************************************************************)
(* One request at a time                                                   *)
(***************************************************************************)
\* A step of the only request.
LEMMA SerieReglement ==
    ASSUME Rg!Domaines, UneALaFois, Rg!SInv, NEW q \in Requetes,
           \/ \E n \in Noms : Rg!ChercherCommune(q, n)
           \/ Rg!CreerCommune(q)
           \/ \E r \in Rg!Ids : Rg!Stocker(q, r) \/ Rg!LireReglement(q, r) \/ Rg!LireTexte(q, r)
           \/ Rg!DeposerFichier(q) \/ Rg!EcrireTexte(q) \/ Rg!EcrireErreur(q)
           \/ \E T \in SUBSET Codes : Rg!EffacerZones(q, T)
           \/ Rg!Interrompre(q),
           Rg!IInv'
    PROVE  Rg!SInv'
<1>0. req \in [Requetes -> Rg!Requete] /\ \A p \in Requetes : p = q
  BY DEF Rg!SInv, Rg!IInv, Rg!TypeOK, UneALaFois
<1>1. Rg!CommuneUnique'
  BY DEF Rg!SInv, Rg!CommuneUnique, Rg!Actuel, Rg!ChercherCommune, Rg!CreerCommune, Rg!Stocker,
     Rg!LireReglement, Rg!LireTexte, Rg!DeposerFichier, Rg!EcrireTexte, Rg!EcrireErreur,
     Rg!EffacerZones, Rg!Interrompre, Rg!En
<1>2. Rg!UneLecture'
  BY DEF Rg!SInv, Rg!UneLecture, Rg!ChercherCommune, Rg!CreerCommune, Rg!Stocker,
     Rg!LireReglement, Rg!LireTexte, Rg!DeposerFichier, Rg!EcrireTexte, Rg!EcrireErreur,
     Rg!EffacerZones, Rg!Interrompre
<1>3. Rg!TexteDuFichier'
  <2>1. CASE UNCHANGED reglements
    BY <2>1 DEF Rg!SInv, Rg!TexteDuFichier, Rg!Presents
  <2>2. CASE Rg!DeposerFichier(q) \/ Rg!EcrireTexte(q) \/ Rg!EcrireErreur(q)
    <3> PICK i, l : i = req[q].r /\ l = reglements[req[q].r]
      OBVIOUS
    <3>1. i \in Rg!Ids /\ l \in Rg!Reglement /\ i \in Rg!Presents
      BY <2>2, LigneLue DEF Rg!SInv, Rg!DeposerFichier, Rg!EcrireTexte, Rg!EcrireErreur, Rg!En
    <3>2. reglements \in [Rg!Ids -> Rg!Reglement \cup {NUL}]
      BY DEF Rg!SInv, Rg!IInv, Rg!TypeOK
    <3>3. l.fichier # NUL /\ l.texte # NUL => l.texte = l.fichier
      BY <3>1 DEF Rg!SInv, Rg!TexteDuFichier
    <3>4. PICK n : /\ reglements' = [reglements EXCEPT ![i] = n]
                   /\ n.fichier # NUL /\ n.texte # NUL => n.texte = n.fichier
      <4>1. CASE Rg!DeposerFichier(q)
        <5>1. req[q].cle \in Rg!Cles
          BY <1>0, <4>1, FormeReglement DEF Rg!DeposerFichier, Rg!En
        <5> PICK n : n = Rg!AvecFichier(l, req[q].cle)
          OBVIOUS
        <5>2. reglements' = [reglements EXCEPT ![i] = n]
          BY <4>1 DEF Rg!DeposerFichier
        <5>3. n.texte = NUL
          BY <3>1, <5>1, LigneReglement
        <5> QED BY <5>2, <5>3
      <4>2. CASE Rg!EcrireTexte(q)
        <5>1. req[q].source \in Rg!Textes /\ req[q].source = Rg!Source(l)
          BY <1>0, <4>2, FormeReglement DEF Rg!EcrireTexte, Rg!En, Rg!SInv, Rg!Actuel
        <5> PICK n : n = Rg!AvecTexte(l, req[q].source)
          OBVIOUS
        <5>2. reglements' = [reglements EXCEPT ![i] = n]
          BY <4>2 DEF Rg!EcrireTexte
        <5>3. n.texte = Rg!Source(l) /\ n.fichier = l.fichier
          BY <3>1, <5>1, LigneReglement
        <5> QED BY <5>2, <5>3 DEF Rg!Source
      <4>3. CASE Rg!EcrireErreur(q)
        <5> PICK n : n = [l EXCEPT !.erreur = TRUE]
          OBVIOUS
        <5>2. reglements' = [reglements EXCEPT ![i] = n]
          BY <4>3 DEF Rg!EcrireErreur
        <5>3. n.texte = l.texte /\ n.fichier = l.fichier
          BY <3>1 DEF Rg!Reglement
        <5> QED BY <3>3, <5>2, <5>3
      <4> QED BY <2>2, <4>1, <4>2, <4>3
    <3> QED BY <3>2, <3>4 DEF Rg!SInv, Rg!TexteDuFichier, Rg!Presents
  <2> QED BY <2>1, <2>2 DEF Rg!ChercherCommune, Rg!CreerCommune, Rg!Stocker, Rg!LireReglement,
             Rg!LireTexte, Rg!EffacerZones, Rg!Interrompre
<1>4. Rg!Actuel(req[q])'
  <2>1. CASE \E n \in Noms : Rg!ChercherCommune(q, n)
    BY <1>0, <2>1 DEF Rg!ChercherCommune, Rg!Garder, Rg!Actuel
  <2>2. CASE \E r \in Rg!Ids : Rg!Stocker(q, r) \/ Rg!LireReglement(q, r) \/ Rg!LireTexte(q, r)
    BY <1>0, <2>2 DEF Rg!Stocker, Rg!LireReglement, Rg!LireTexte, Rg!Garder, Rg!Actuel, Rg!Source
  <2>3. CASE \E T \in SUBSET Codes : Rg!EffacerZones(q, T)
    BY <1>0, <2>3 DEF Rg!EffacerZones, Rg!Garder, Rg!Actuel, Rg!Remplacees, Rg!ZonesDe
  <2>4. CASE \/ Rg!CreerCommune(q) \/ Rg!Interrompre(q)
             \/ Rg!DeposerFichier(q) \/ Rg!EcrireTexte(q) \/ Rg!EcrireErreur(q)
    <3>1. req'[q] = Rg!Libre
      BY <1>0, <2>4 DEF Rg!CreerCommune, Rg!Interrompre, Rg!DeposerFichier, Rg!EcrireTexte,
         Rg!EcrireErreur, Rg!Finir, Rg!Garder
    <3> QED BY <3>1 DEF Rg!Actuel, Rg!Libre
  <2> QED BY <2>1, <2>2, <2>3, <2>4
<1> QED BY <1>0, <1>1, <1>2, <1>3, <1>4 DEF Rg!SInv

\* What the zones are replaced by is one answer.
LEMMA SerieZones ==
    ASSUME Rg!Domaines, UneALaFois, Rg!SInv, NEW q \in Requetes, NEW C \in SUBSET Codes,
           Rg!EcrireZones(q, C), Rg!IInv'
    PROVE  Rg!SInv'
<1>0. req \in [Requetes -> Rg!Requete] /\ \A p \in Requetes : p = q
  BY DEF Rg!SInv, Rg!IInv, Rg!TypeOK, UneALaFois
<1> PICK V, T, r, s, k : /\ V = req[q].vues /\ T = req[q].trouves /\ r = req[q].r
                         /\ s = req[q].texte /\ k = extractions + 1
  OBVIOUS
<1> PICK N : N = {Rg!Lue(q, c, C) : c \in T}
  OBVIOUS
<1>1. \A n \in N : n.lecture = k /\ n.reglement = r /\ n.source = s
  BY ZonesLues DEF Rg!SInv
<1>2. zones' = (zones \ V) \cup N /\ req'[q] = Rg!Libre /\ UNCHANGED <<communes, reglements>>
  BY <1>0 DEF Rg!EcrireZones, Rg!Finir, Rg!Garder
<1>3. \A z \in zones \ V : z.reglement # r
  BY DEF Rg!SInv, Rg!Actuel, Rg!EcrireZones, Rg!En, Rg!ZonesDe
<1>4. Rg!UneLecture'
  BY <1>1, <1>2, <1>3 DEF Rg!SInv, Rg!UneLecture
<1>5. Rg!Actuel(req[q])'
  BY <1>2 DEF Rg!Actuel, Rg!Libre
<1> QED BY <1>0, <1>2, <1>4, <1>5 DEF Rg!SInv, Rg!CommuneUnique, Rg!TexteDuFichier, Rg!Presents

LEMMA SerieEnregistrer ==
    ASSUME Rg!Domaines, Rg!SInv, Rg!IInv', NEW c \in Noms, Rg!Enregistrer(c)
    PROVE  Rg!SInv'
<1>0. reglements \in [Rg!Ids -> Rg!Reglement \cup {NUL}]
  BY DEF Rg!SInv, Rg!IInv, Rg!TypeOK
<1> DEFINE l == [commune |-> c, lien |-> TRUE, fichier |-> NUL, texte |-> NUL, erreur |-> FALSE]
<1>1. PICK i \in Rg!Ids : reglements' = [reglements EXCEPT ![i] = l] /\ i \notin Rg!Presents
  BY DEF Rg!Enregistrer
<1>2. UNCHANGED <<communes, zones, cles, extractions, gestes, req>>
  BY DEF Rg!Enregistrer
<1>3. l.texte = NUL
  OBVIOUS
<1> HIDE DEF l
<1>4. Rg!TexteDuFichier'
  BY <1>0, <1>1, <1>3 DEF Rg!SInv, Rg!TexteDuFichier, Rg!Presents
<1>5. \A q \in Requetes : req[q].etat = "lecture" =>
         req[q].r # i /\ reglements'[req[q].r] = reglements[req[q].r]
  BY <1>0, <1>1, LigneLue DEF Rg!SInv
<1>6. \A q \in Requetes : Rg!Actuel(req[q])'
  BY <1>2, <1>5 DEF Rg!SInv, Rg!Actuel, Rg!ZonesDe, Rg!Source
<1> QED BY <1>2, <1>4, <1>6 DEF Rg!SInv, Rg!CommuneUnique, Rg!UneLecture

LEMMA SerieValider ==
    ASSUME Rg!Domaines, Rg!SInv, Rg!IInv', NEW z \in zones, NEW v \in BOOLEAN,
           Rg!ValiderZone(z, v)
    PROVE  Rg!SInv'
<1> PICK n : n = [z EXCEPT !.valide = v]
  OBVIOUS
<1>0. z \in Rg!Zone
  BY DEF Rg!SInv, Rg!IInv, Rg!TypeOK
<1>1. n.reglement = z.reglement /\ n.lecture = z.lecture /\ n.source = z.source
  BY <1>0, FormeZone
<1>2. zones' = (zones \ {z}) \cup {n}
  BY DEF Rg!ValiderZone
<1>3. UNCHANGED <<communes, reglements, cles, extractions, req>>
  BY DEF Rg!ValiderZone
<1>4. \A q \in Requetes : req[q].etat = "efface" => z \notin req[q].vues
  BY DEF Rg!ValiderZone, Rg!En
<1>5. \A x \in zones' : \E y \in zones :
         x.reglement = y.reglement /\ x.lecture = y.lecture /\ x.source = y.source
  BY <1>1, <1>2
<1>6. Rg!UneLecture'
  BY <1>5 DEF Rg!SInv, Rg!UneLecture
<1>7. ASSUME NEW q \in Requetes, req[q].etat = "efface", NEW x \in zones', x.reglement = req[q].r
      PROVE  x \in req[q].vues
  <2>1. Rg!ZonesDe(req[q].r) \subseteq req[q].vues
    BY <1>7 DEF Rg!SInv, Rg!Actuel
  <2>2. \A y \in zones : y.reglement = req[q].r => y \in req[q].vues
    BY <2>1 DEF Rg!ZonesDe
  <2> QED BY <1>1, <1>2, <1>4, <1>7, <2>2
<1>8. \A q \in Requetes : Rg!Actuel(req[q])'
  <2> SUFFICES ASSUME NEW q \in Requetes PROVE Rg!Actuel(req[q])'
    OBVIOUS
  <2>1. req'[q] = req[q] /\ Rg!Actuel(req[q])
    BY <1>3 DEF Rg!SInv
  <2>2. (req[q].etat = "efface" => Rg!ZonesDe(req[q].r) \subseteq req[q].vues)'
    BY <1>7, <2>1 DEF Rg!ZonesDe
  <2> QED BY <1>3, <2>1, <2>2 DEF Rg!Actuel, Rg!Source
<1> QED BY <1>3, <1>6, <1>8 DEF Rg!SInv, Rg!CommuneUnique, Rg!TexteDuFichier, Rg!Presents

LEMMA SerieDehors ==
    ASSUME Rg!Domaines, Rg!SInv, Rg!IInv',
           \/ \E c \in Noms : Rg!Enregistrer(c)
           \/ \E z \in zones, v \in BOOLEAN : Rg!ValiderZone(z, v)
           \/ UNCHANGED Rg!vars
    PROVE  Rg!SInv'
<1>1. CASE UNCHANGED Rg!vars
  BY <1>1 DEF Rg!vars, Rg!SInv, Rg!CommuneUnique, Rg!TexteDuFichier, Rg!UneLecture, Rg!Presents,
     Rg!Actuel, Rg!ZonesDe, Rg!Source
<1> QED BY <1>1, SerieEnregistrer, SerieValider

THEOREM ReglementsEnSerie == ASSUME Rg!Domaines, UneALaFois PROVE Rg!Spec => []Rg!SInv
<1>1. Rg!Init => Rg!SInv
  BY DepartReglement
<1>2. ASSUME Rg!SInv, [Rg!Next]_Rg!vars PROVE Rg!SInv'
  <2>1. Rg!IInv'
    BY <1>2, PasReglement DEF Rg!SInv
  <2> QED BY <1>2, <2>1, SerieReglement, SerieZones, SerieDehors DEF Rg!Next
<1> QED BY <1>1, <1>2, PTL DEF Rg!Spec

\* deposerFichier, lire, extraireZones and trouverOuCreerCommune, one request
\* at a time: the text of a regulation is the one of the file it shows, its
\* zones come from one answer on one text, and a name has one commune whatever
\* its case.
THEOREM ReglementsTenus ==
    ASSUME Rg!Domaines, UneALaFois
    PROVE  Rg!Spec => [](Rg!TexteDuFichier /\ Rg!UneLecture /\ Rg!CommuneUnique)
<1>1. Rg!SInv => Rg!TexteDuFichier /\ Rg!UneLecture /\ Rg!CommuneUnique
  BY DEF Rg!SInv
<1> QED BY <1>1, ReglementsEnSerie, PTL

(***************************************************************************)
(* Budget.                                                                 *)
(* One request at a time, at most one version is current and an operation  *)
(* that has one keeps one; with more, a second becomes current only beside *)
(* one its adoption could not set aside.                                   *)
(***************************************************************************)
LEMMA RequeteNeutre ==
    ASSUME NEW r, r.etat \notin {"modification", "adoption", "version retiree"}
    PROVE  Bu!Suivi(r) /\ Bu!Actuel(r)
BY DEF Bu!Suivi, Bu!Actuel

LEMMA RequeteLibre == Bu!Suivi(Bu!Libre) /\ Bu!Actuel(Bu!Libre)
<1>1. Bu!Libre.etat = "libre"
  BY DEF Bu!Libre
<1> QED BY <1>1, RequeteNeutre

LEMMA DepartBudget == ASSUME Bu!Init PROVE Bu!SInv
<1>1. /\ DOMAIN req = Requetes /\ \A q \in Requetes : req[q] = Bu!Libre
      /\ versions \in Seq(Bu!Version \cup {NUL}) /\ DOMAIN versions = {}
  BY DEF Bu!Init
<1>2. Bu!UneSeuleCourante
  BY <1>1 DEF Bu!UneSeuleCourante, Bu!Presentes
<1> QED BY <1>1, <1>2, RequeteLibre DEF Bu!SInv, Bu!IInv

LEMMA GardeBudget ==
    ASSUME NEW q \in Requetes, NEW r, DOMAIN req = Requetes, Bu!Garder(q, r)
    PROVE  /\ DOMAIN req' = Requetes /\ req'[q] = r
           /\ \A p \in Requetes : p # q => req'[p] = req[p]
BY DEF Bu!Garder

\* A step that leaves the versions alone.
SansVersions(q) ==
    /\ DOMAIN req' = Requetes
    /\ \A p \in Requetes : p # q => req'[p] = req[p]
    /\ \E r : req'[q] = r /\ Bu!Suivi(r) /\ Bu!Actuel(r)
    /\ UNCHANGED versions

LEMMA NeutreBudget ==
    ASSUME DOMAIN req = Requetes, NEW q \in Requetes, NEW r, Bu!Garder(q, r),
           Bu!Suivi(r), Bu!Actuel(r), UNCHANGED versions
    PROVE  SansVersions(q)
BY GardeBudget DEF SansVersions

LEMMA PasCfc ==
    ASSUME DOMAIN req = Requetes, NEW q \in Requetes, Bu!Cfc(q)
    PROVE  SansVersions(q)
<1>1. CASE \E p \in Postes, parent \in Postes \cup {NUL} : Bu!LirePoste(q, p, parent)
  <2>1. PICK r : Bu!Garder(q, r) /\ UNCHANGED versions /\ r.etat = "poste"
    BY <1>1 DEF Bu!LirePoste
  <2> QED BY <2>1, NeutreBudget, RequeteNeutre
<1>2. CASE \E p \in Postes : Bu!LireRetraitPoste(q, p)
  <2>0. PICK p \in Postes : Bu!LireRetraitPoste(q, p)
    BY <1>2
  <2> PICK r : r = [etat |-> "poste retire", p |-> p]
    OBVIOUS
  <2>1. Bu!Garder(q, r) /\ UNCHANGED versions /\ r.etat = "poste retire"
    BY <2>0 DEF Bu!LireRetraitPoste
  <2> QED BY <2>1, NeutreBudget, RequeteNeutre
<1>3. CASE Bu!LireTrame(q)
  <2>1. PICK r : Bu!Garder(q, r) /\ UNCHANGED versions /\ r.etat = "trame"
    BY <1>3 DEF Bu!LireTrame
  <2> QED BY <2>1, NeutreBudget, RequeteNeutre
<1>4. CASE Bu!CreerPoste(q) \/ Bu!SupprimerPoste(q) \/ Bu!ImporterTrame(q)
  BY <1>4, NeutreBudget, RequeteLibre DEF Bu!CreerPoste, Bu!SupprimerPoste, Bu!ImporterTrame, Bu!Finir
<1> QED BY <1>1, <1>2, <1>3, <1>4 DEF Bu!Cfc

LEMMA PasLignes ==
    ASSUME DOMAIN req = Requetes, NEW q \in Requetes, Bu!Lignes(q)
    PROVE  SansVersions(q)
<1>1. CASE \E v \in DOMAIN versions, p \in Postes, m \in Montants : Bu!LireLigne(q, v, p, m)
  <2>1. PICK r : Bu!Garder(q, r) /\ UNCHANGED versions /\ r.etat = "ligne"
    BY <1>1 DEF Bu!LireLigne
  <2> QED BY <2>1, NeutreBudget, RequeteNeutre
<1>2. CASE \E v \in DOMAIN versions, p \in Postes, S \in SUBSET Bu!Saisie :
              Bu!LireVentilation(q, v, p, S)
  <2>1. PICK r : Bu!Garder(q, r) /\ UNCHANGED versions /\ r.etat = "saisie"
    BY <1>2 DEF Bu!LireVentilation
  <2> QED BY <2>1, NeutreBudget, RequeteNeutre
<1>3. CASE \E v \in DOMAIN versions, S \in SUBSET Bu!Saisie : Bu!LireRemplacement(q, v, S)
  <2>1. PICK r : Bu!Garder(q, r) /\ UNCHANGED versions /\ r.etat = "saisie"
    BY <1>3 DEF Bu!LireRemplacement
  <2> QED BY <2>1, NeutreBudget, RequeteNeutre
<1>4. CASE \E l \in DOMAIN lignes, p \in Postes, m \in Montants \cup {NUL} :
              Bu!LireChangement(q, l, p, m)
  <2>0. PICK l \in DOMAIN lignes, p \in Postes, m \in Montants \cup {NUL} :
           Bu!LireChangement(q, l, p, m)
    BY <1>4
  <2> PICK r : r = [etat |-> "ligne changee", l |-> l, p |-> p, montant |-> m]
    OBVIOUS
  <2>1. Bu!Garder(q, r) /\ UNCHANGED versions /\ r.etat = "ligne changee"
    BY <2>0 DEF Bu!LireChangement
  <2> QED BY <2>1, NeutreBudget, RequeteNeutre
<1>5. CASE Bu!CreerLigne(q) \/ Bu!Saisir(q) \/ Bu!ChangerLigne(q)
  BY <1>5, NeutreBudget, RequeteLibre DEF Bu!CreerLigne, Bu!Saisir, Bu!ChangerLigne, Bu!Finir
<1> QED BY <1>1, <1>2, <1>3, <1>4, <1>5 DEF Bu!Lignes

LEMMA PasVue ==
    ASSUME DOMAIN req = Requetes, NEW q \in Requetes, Bu!Vue(q) \/ Bu!Interrompre(q)
    PROVE  SansVersions(q)
<1>1. CASE \E v \in DOMAIN versions \cup {NUL} : Bu!LireArbre(q, v)
  <2>1. PICK r : Bu!Garder(q, r) /\ UNCHANGED versions /\ r.etat = "arbre"
    BY <1>1 DEF Bu!LireArbre
  <2> QED BY <2>1, NeutreBudget, RequeteNeutre
<1>2. CASE Bu!Consolider(q)
  <2>1. PICK r : Bu!Garder(q, r) /\ UNCHANGED versions /\ r.etat = "vue"
    BY <1>2 DEF Bu!Consolider
  <2> QED BY <2>1, NeutreBudget, RequeteNeutre
<1>3. CASE Bu!Interrompre(q)
  BY <1>3, NeutreBudget, RequeteLibre DEF Bu!Interrompre, Bu!Finir
<1> QED BY <1>1, <1>2, <1>3 DEF Bu!Vue

\* What is read before a version is written: the flag that would fall is not
\* the one of the current version.
LEMMA PasLireVersions ==
    ASSUME DOMAIN req = Requetes, NEW q \in Requetes, Bu!Suivi(req[q]),
           \/ \E s \in DOMAIN versions \cup {NUL} : Bu!LireVersion(q, s)
           \/ \E v \in DOMAIN versions, s \in Bu!Statut \cup {OMIS}, c \in BOOLEAN \cup {OMIS} :
                 Bu!LireModification(q, v, s, c)
           \/ \E v \in DOMAIN versions : Bu!LireRetraitVersion(q, v)
           \/ Bu!EcarterAutres(q)
    PROVE  SansVersions(q)
<1>1. CASE \E s \in DOMAIN versions \cup {NUL} : Bu!LireVersion(q, s)
  <2>1. PICK r : Bu!Garder(q, r) /\ UNCHANGED versions /\ r.etat = "version"
    BY <1>1 DEF Bu!LireVersion
  <2> QED BY <2>1, NeutreBudget, RequeteNeutre
<1>2. CASE \E v \in DOMAIN versions, s \in Bu!Statut \cup {OMIS}, c \in BOOLEAN \cup {OMIS} :
              Bu!LireModification(q, v, s, c)
  <2>1. PICK v \in DOMAIN versions, s \in Bu!Statut \cup {OMIS}, c \in BOOLEAN \cup {OMIS} :
           Bu!LireModification(q, v, s, c)
    BY <1>2
  <2>2. PICK r : r = [etat |-> "modification", v |-> v, statut |-> s, courant |-> c]
    OBVIOUS
  <2>3. Bu!Garder(q, r) /\ UNCHANGED versions /\ (c = FALSE => ~versions[v].courant)
    BY <2>1, <2>2 DEF Bu!LireModification
  <2>4. r.etat = "modification" /\ r.v = v /\ r.statut = s /\ r.courant = c
    BY <2>2
  <2>5. Bu!Suivi(r)
    BY <2>1, <2>4 DEF Bu!Suivi
  <2>6. Bu!Actuel(r)
    BY <2>3, <2>4 DEF Bu!Actuel
  <2> QED BY <2>3, <2>5, <2>6, NeutreBudget
<1>3. CASE \E v \in DOMAIN versions : Bu!LireRetraitVersion(q, v)
  <2>1. PICK v \in DOMAIN versions : Bu!LireRetraitVersion(q, v)
    BY <1>3
  <2>2. PICK r : r = [etat |-> "version retiree", v |-> v]
    OBVIOUS
  <2>3. Bu!Garder(q, r) /\ UNCHANGED versions /\ ~versions[v].courant
    BY <2>1, <2>2 DEF Bu!LireRetraitVersion
  <2>4. r.etat = "version retiree" /\ r.v = v
    BY <2>2
  <2>5. Bu!Suivi(r) /\ Bu!Actuel(r)
    BY <2>3, <2>4 DEF Bu!Suivi, Bu!Actuel
  <2> QED BY <2>3, <2>5, NeutreBudget
<1>4. CASE Bu!EcarterAutres(q)
  <2>1. PICK r : r = [etat |-> "adoption", v |-> req[q].v, statut |-> req[q].statut,
                      courant |-> TRUE, ecartees |-> Bu!Presentes \ {req[q].v}]
    OBVIOUS
  <2>2. Bu!Garder(q, r) /\ UNCHANGED versions /\ req[q].statut \in Bu!Statut \cup {OMIS}
    BY <1>4, <2>1 DEF Bu!EcarterAutres, Bu!En, Bu!Suivi
  <2>3. /\ r.etat = "adoption" /\ r.statut = req[q].statut /\ r.courant = TRUE
        /\ r.ecartees \cup {r.v} = Bu!Presentes \cup {r.v}
    BY <2>1
  <2>4. Bu!Suivi(r) /\ Bu!Actuel(r)
    BY <2>2, <2>3 DEF Bu!Suivi, Bu!Actuel
  <2> QED BY <2>2, <2>4, NeutreBudget
<1> QED BY <1>1, <1>2, <1>3, <1>4

LEMMA PasHorsVersions ==
    ASSUME Bu!IInv, NEW q \in Requetes, SansVersions(q)
    PROVE  Bu!IInv' /\ (Bu!UneSeuleCourante => Bu!UneSeuleCourante')
BY DEF Bu!IInv, SansVersions, Bu!UneSeuleCourante, Bu!Presentes, Bu!Suivi

\* A request that ends by writing the versions.
LEMMA VersionsEcrites ==
    ASSUME Bu!IInv, NEW q \in Requetes, Bu!Garder(q, Bu!Libre),
           versions' \in Seq(Bu!Version \cup {NUL})
    PROVE  Bu!IInv' /\ req'[q] = Bu!Libre
<1>1. /\ DOMAIN req' = Requetes /\ req'[q] = Bu!Libre
      /\ \A p \in Requetes : p # q => req'[p] = req[p]
  BY GardeBudget DEF Bu!IInv
<1>2. \A p \in Requetes : Bu!Suivi(req'[p])
  BY <1>1, RequeteLibre DEF Bu!IInv
<1>3. \A p \in Requetes : Bu!Suivi(req[p])'
  BY <1>2 DEF Bu!Suivi
<1> QED BY <1>1, <1>2, <1>3 DEF Bu!IInv

\* An adoption about to end has set aside whatever is current.
Complete(r) ==
    r.etat = "adoption" =>
        \A w \in Bu!Presentes : versions[w].courant => w \in r.ecartees \cup {r.v}

LEMMA PasCreerVersion ==
    ASSUME Bu!IInv, NEW q \in Requetes, Bu!CreerVersion(q)
    PROVE  Bu!IInv' /\ req'[q] = Bu!Libre /\ (Bu!UneSeuleCourante => Bu!UneSeuleCourante')
<1> PICK n : n = [statut |-> "BROUILLON", courant |-> FALSE]
  OBVIOUS
<1>1. n \in Bu!Version /\ ~n.courant
  BY DEF Bu!Version, Bu!Statut
<1>2. versions' = Append(versions, n) /\ Bu!Garder(q, Bu!Libre)
  BY DEF Bu!CreerVersion, Bu!Finir
<1>3. /\ versions \in Seq(Bu!Version \cup {NUL}) /\ versions' \in Seq(Bu!Version \cup {NUL})
      /\ DOMAIN versions' = DOMAIN versions \cup {Len(versions) + 1}
      /\ \A v \in DOMAIN versions : versions'[v] = versions[v]
      /\ versions'[Len(versions) + 1] = n
  BY <1>1, <1>2 DEF Bu!IInv
<1>4. Bu!UneSeuleCourante => Bu!UneSeuleCourante'
  BY <1>1, <1>3 DEF Bu!UneSeuleCourante, Bu!Presentes
<1> QED BY <1>2, <1>3, <1>4, VersionsEcrites

LEMMA PasSupprimerVersion ==
    ASSUME Bu!IInv, NEW q \in Requetes, Bu!SupprimerVersion(q)
    PROVE  Bu!IInv' /\ req'[q] = Bu!Libre /\ (Bu!UneSeuleCourante => Bu!UneSeuleCourante')
<1> PICK v : v = req[q].v
  OBVIOUS
<1>1. v \in DOMAIN versions /\ versions' = [versions EXCEPT ![v] = NUL] /\ Bu!Garder(q, Bu!Libre)
  BY DEF Bu!SupprimerVersion, Bu!Finir, Bu!EstLa
<1>2. /\ versions \in Seq(Bu!Version \cup {NUL}) /\ versions' \in Seq(Bu!Version \cup {NUL})
      /\ DOMAIN versions' = DOMAIN versions /\ versions'[v] = NUL
      /\ \A w \in DOMAIN versions : w # v => versions'[w] = versions[w]
  BY <1>1 DEF Bu!IInv
<1>3. Bu!UneSeuleCourante => Bu!UneSeuleCourante'
  BY <1>1, <1>2 DEF Bu!UneSeuleCourante, Bu!Presentes
<1> QED BY <1>1, <1>2, <1>3, VersionsEcrites

\* What a modification makes of each version.
LEMMA Adoption ==
    ASSUME Bu!Domaines, Bu!IInv, NEW q \in Requetes, req[q].etat \in {"modification", "adoption"},
           NEW w \in DOMAIN versions, versions[w] # NUL
    PROVE  LET a == Bu!Adoptee(req[q], w)
           IN  /\ a \in Bu!Version /\ a # NUL
               /\ w = req[q].v =>
                     a.courant = IF req[q].courant = OMIS THEN versions[w].courant
                                                          ELSE req[q].courant
               /\ w # req[q].v =>
                     a.courant = (versions[w].courant
                                    /\ ~(req[q].etat = "adoption" /\ w \in req[q].ecartees))
<1> PICK r : r = req[q]
  OBVIOUS
<1>1. r.statut \in Bu!Statut \cup {OMIS} /\ r.courant \in BOOLEAN \cup {OMIS}
  BY DEF Bu!IInv, Bu!Suivi
<1>2. versions[w] \in Bu!Version
  BY DEF Bu!IInv
<1>3. /\ versions[w].statut \in Bu!Statut /\ versions[w].courant \in BOOLEAN
      /\ versions[w] = [statut |-> versions[w].statut, courant |-> versions[w].courant]
  BY <1>2 DEF Bu!Version
<1>4. CASE w = r.v
  <2> PICK s, c : /\ s = Bu!Donne(r.statut, versions[w].statut)
                  /\ c = Bu!Donne(r.courant, versions[w].courant)
    OBVIOUS
  <2>1. s \in Bu!Statut /\ c \in BOOLEAN
    BY <1>1, <1>3 DEF Bu!Donne
  <2>2. Bu!Adoptee(r, w) = [statut |-> s, courant |-> c]
    BY <1>4 DEF Bu!Adoptee
  <2>3. c = IF r.courant = OMIS THEN versions[w].courant ELSE r.courant
    BY DEF Bu!Donne
  <2>4. [statut |-> s, courant |-> c] \in Bu!Version
    BY <2>1 DEF Bu!Version
  <2> QED BY <1>4, <2>2, <2>3, <2>4 DEF Bu!Domaines
<1>5. CASE w # r.v /\ r.etat = "adoption" /\ w \in r.ecartees
  <2>1. Bu!Adoptee(r, w) = [versions[w] EXCEPT !.courant = FALSE]
    BY <1>5 DEF Bu!Adoptee
  <2>2. /\ [versions[w] EXCEPT !.courant = FALSE] \in Bu!Version
        /\ ~[versions[w] EXCEPT !.courant = FALSE].courant
        /\ [versions[w] EXCEPT !.courant = FALSE].courant \in BOOLEAN
    BY <1>2 DEF Bu!Version
  <2> QED BY <1>5, <2>1, <2>2 DEF Bu!Domaines
<1>6. CASE w # r.v /\ ~(r.etat = "adoption" /\ w \in r.ecartees)
  <2>1. Bu!Adoptee(r, w) = versions[w]
    BY <1>6 DEF Bu!Adoptee
  <2> QED BY <1>3, <1>6, <2>1, <1>2 DEF Bu!Domaines
<1> QED BY <1>4, <1>5, <1>6

LEMMA PasModifierVersion ==
    ASSUME Bu!Domaines, Bu!IInv, NEW q \in Requetes, Bu!ModifierVersion(q)
    PROVE  /\ Bu!IInv' /\ req'[q] = Bu!Libre
           /\ Bu!UneSeuleCourante /\ Complete(req[q]) => Bu!UneSeuleCourante'
<1> PICK r : r = req[q]
  OBVIOUS
<1>1. /\ r.v \in DOMAIN versions /\ versions[r.v] # NUL
      /\ r.etat = "adoption" \/ (r.etat = "modification" /\ r.courant # TRUE)
      /\ versions' = [w \in DOMAIN versions |-> Bu!Adoptee(r, w)]
      /\ Bu!Garder(q, Bu!Libre)
  BY DEF Bu!ModifierVersion, Bu!EstLa, Bu!Finir, Bu!En
<1>2. \A w \in DOMAIN versions : versions[w] = NUL => Bu!Adoptee(r, w) = NUL
  BY DEF Bu!Adoptee
<1>3. \A w \in DOMAIN versions : Bu!Adoptee(r, w) \in Bu!Version \cup {NUL}
  BY <1>1, <1>2, Adoption
<1>4. versions \in Seq(Bu!Version \cup {NUL}) /\ versions' \in Seq(Bu!Version \cup {NUL})
  BY <1>1, <1>3 DEF Bu!IInv
<1>5. r.courant \in BOOLEAN \cup {OMIS} /\ OMIS \notin BOOLEAN
  BY <1>1 DEF Bu!IInv, Bu!Suivi, Bu!Domaines
<1>6. ASSUME NEW w \in Bu!Presentes', versions'[w].courant, Complete(r)
      PROVE  /\ w \in Bu!Presentes
             /\ r.etat = "adoption" => w = r.v
             /\ r.etat # "adoption" => versions[w].courant
  <2>1. w \in DOMAIN versions /\ versions[w] # NUL /\ versions'[w] = Bu!Adoptee(r, w)
    BY <1>1, <1>2, <1>6 DEF Bu!Presentes
  <2>2. w \in Bu!Presentes
    BY <2>1 DEF Bu!Presentes
  <2>3. CASE w = r.v
    BY <1>1, <1>5, <1>6, <2>1, <2>2, <2>3, Adoption
  <2>4. CASE w # r.v
    <3>1. versions[w].courant /\ ~(r.etat = "adoption" /\ w \in r.ecartees)
      BY <1>1, <1>6, <2>1, <2>4, Adoption
    <3> QED BY <1>6, <2>2, <2>4, <3>1 DEF Complete
  <2> QED BY <2>3, <2>4
<1>7. Bu!UneSeuleCourante /\ Complete(r) => Bu!UneSeuleCourante'
  BY <1>6 DEF Bu!UneSeuleCourante
<1> QED BY <1>1, <1>4, <1>7, VersionsEcrites

\* One step: the versions are written by their request, or by nobody.
LEMMA PasBudget ==
    ASSUME Bu!Domaines, Bu!IInv, [Bu!Next]_Bu!vars
    PROVE  /\ Bu!IInv'
           /\ \/ Bu!UneSeuleCourante => Bu!UneSeuleCourante'
              \/ \E q \in Requetes : Bu!ModifierVersion(q) /\ ~Complete(req[q])
<1>1. CASE UNCHANGED Bu!vars
  BY <1>1 DEF Bu!vars, Bu!IInv, Bu!UneSeuleCourante, Bu!Presentes, Bu!Suivi
<1>2. CASE Bu!Next
  <2>1. PICK q \in Requetes :
           Bu!Cfc(q) \/ Bu!Versions(q) \/ Bu!Lignes(q) \/ Bu!Vue(q) \/ Bu!Interrompre(q)
    BY <1>2 DEF Bu!Next
  <2>2. CASE Bu!CreerVersion(q) \/ Bu!ModifierVersion(q) \/ Bu!SupprimerVersion(q)
    BY <2>2, PasCreerVersion, PasModifierVersion, PasSupprimerVersion
  <2>3. CASE ~(Bu!CreerVersion(q) \/ Bu!ModifierVersion(q) \/ Bu!SupprimerVersion(q))
    <3>1. SansVersions(q)
      BY <2>1, <2>3, PasCfc, PasLignes, PasVue, PasLireVersions DEF Bu!IInv, Bu!Versions
    <3> QED BY <3>1, PasHorsVersions
  <2> QED BY <2>2, <2>3
<1> QED BY <1>1, <1>2

THEOREM InvarianceBudget == ASSUME Bu!Domaines PROVE Bu!Spec => []Bu!IInv
<1>1. Bu!Init => Bu!IInv
  BY DepartBudget DEF Bu!SInv
<1> QED BY <1>1, PasBudget, PTL DEF Bu!Spec

\* modifierVersion, whatever runs at the same time: a second version becomes
\* current only by an adoption that ends beside one it has not set aside, which
\* was created since it set the others aside.
THEOREM UneCourante == ASSUME Bu!Domaines PROVE Bu!Spec => [][Bu!AdoptionsExclusives]_Bu!vars
<1>1. Bu!IInv /\ [Bu!Next]_Bu!vars => Bu!AdoptionsExclusives
  <2> SUFFICES ASSUME Bu!IInv, [Bu!Next]_Bu!vars, Bu!UneSeuleCourante, ~Bu!UneSeuleCourante'
               PROVE  \E q \in Requetes :
                         /\ Bu!En(q, "adoption")
                         /\ \E w \in Bu!Presentes : versions[w].courant
                                               /\ w \notin req[q].ecartees \cup {req[q].v}
    BY DEF Bu!AdoptionsExclusives
  <2>1. PICK q \in Requetes : ~Complete(req[q])
    BY PasBudget
  <2> QED BY <2>1 DEF Complete, Bu!En
<1> QED BY <1>1, InvarianceBudget, PTL DEF Bu!Spec

LEMMA SerieBudget ==
    ASSUME Bu!Domaines, UneALaFois, Bu!SInv, [Bu!Next]_Bu!vars
    PROVE  Bu!SInv'
<1>1. Bu!IInv' /\ Bu!UneSeuleCourante'
  <2>1. \A q \in Requetes : Complete(req[q])
    BY DEF Bu!SInv, Bu!Actuel, Complete
  <2> QED BY <2>1, PasBudget DEF Bu!SInv
<1>2. CASE UNCHANGED Bu!vars
  BY <1>1, <1>2 DEF Bu!vars, Bu!SInv, Bu!Actuel, Bu!EstLa, Bu!Presentes
<1>3. CASE Bu!Next
  <2>1. PICK q \in Requetes :
           Bu!Cfc(q) \/ Bu!Versions(q) \/ Bu!Lignes(q) \/ Bu!Vue(q) \/ Bu!Interrompre(q)
    BY <1>3 DEF Bu!Next
  <2>2. CASE Bu!CreerVersion(q) \/ Bu!ModifierVersion(q) \/ Bu!SupprimerVersion(q)
    <3>1. req'[q] = Bu!Libre
      BY <2>2, PasCreerVersion, PasModifierVersion, PasSupprimerVersion DEF Bu!SInv
    <3>2. Bu!Actuel(req[q])'
      BY <3>1 DEF Bu!Actuel, Bu!Libre
    <3> QED BY <1>1, <3>2 DEF Bu!SInv, UneALaFois
  <2>3. CASE ~(Bu!CreerVersion(q) \/ Bu!ModifierVersion(q) \/ Bu!SupprimerVersion(q))
    <3>1. SansVersions(q)
      BY <2>1, <2>3, PasCfc, PasLignes, PasVue, PasLireVersions DEF Bu!SInv, Bu!IInv, Bu!Versions
    <3>2. Bu!Actuel(req[q])'
      BY <3>1 DEF SansVersions, Bu!Actuel, Bu!EstLa, Bu!Presentes
    <3> QED BY <1>1, <3>2 DEF Bu!SInv, UneALaFois
  <2> QED BY <2>2, <2>3
<1> QED BY <1>2, <1>3

\* A step that writes the versions leaves one current.
LEMMA CouranteReste ==
    ASSUME Bu!Domaines, Bu!SInv, [Bu!Next]_Bu!vars
    PROVE  Bu!CouranteGardee
<1> SUFFICES ASSUME NEW v0 \in Bu!Presentes, versions[v0].courant
             PROVE  \E v \in DOMAIN versions' : versions'[v] # NUL /\ versions'[v].courant
  BY DEF Bu!CouranteGardee
<1>0. v0 \in DOMAIN versions /\ versions[v0] # NUL /\ versions \in Seq(Bu!Version \cup {NUL})
  BY DEF Bu!SInv, Bu!IInv, Bu!Presentes
<1>1. CASE UNCHANGED Bu!vars
  BY <1>0, <1>1 DEF Bu!vars
<1>2. CASE Bu!Next
  <2>1. PICK q \in Requetes :
           Bu!Cfc(q) \/ Bu!Versions(q) \/ Bu!Lignes(q) \/ Bu!Vue(q) \/ Bu!Interrompre(q)
    BY <1>2 DEF Bu!Next
  <2>2. CASE Bu!CreerVersion(q)
    <3>1. PICK n : versions' = Append(versions, n)
      BY <2>2 DEF Bu!CreerVersion
    <3> QED BY <1>0, <3>1
  <2>3. CASE Bu!SupprimerVersion(q)
    <3>1. /\ versions' = [versions EXCEPT ![req[q].v] = NUL]
          /\ ~versions[req[q].v].courant
      BY <2>3 DEF Bu!SupprimerVersion, Bu!SInv, Bu!Actuel, Bu!En
    <3> QED BY <1>0, <3>1
  <2>4. CASE Bu!ModifierVersion(q)
    <3> PICK r : r = req[q]
      OBVIOUS
    <3>1. /\ r.v \in DOMAIN versions /\ versions[r.v] # NUL
          /\ r.etat \in {"modification", "adoption"} /\ (r.etat = "adoption" <=> r.courant = TRUE)
          /\ versions' = [w \in DOMAIN versions |-> Bu!Adoptee(r, w)]
          /\ r.courant = FALSE => ~versions[r.v].courant
          /\ r.courant \in BOOLEAN \cup {OMIS} /\ OMIS \notin BOOLEAN
      BY <2>4 DEF Bu!ModifierVersion, Bu!EstLa, Bu!SInv, Bu!IInv, Bu!Suivi, Bu!Actuel, Bu!En, Bu!Domaines
    <3>2. CASE r.courant = TRUE
      <4>1. versions'[r.v] # NUL /\ versions'[r.v].courant
        BY <3>1, <3>2, Adoption DEF Bu!SInv
      <4> QED BY <3>1, <4>1
    <3>3. CASE r.courant # TRUE
      <4>1. v0 = r.v => r.courant = OMIS
        BY <3>1, <3>3
      <4>2. versions'[v0] # NUL /\ versions'[v0].courant
        BY <1>0, <3>1, <3>3, <4>1, Adoption DEF Bu!SInv
      <4> QED BY <1>0, <3>1, <4>2
    <3> QED BY <3>2, <3>3
  <2>5. CASE ~(Bu!CreerVersion(q) \/ Bu!ModifierVersion(q) \/ Bu!SupprimerVersion(q))
    <3>1. SansVersions(q)
      BY <2>1, <2>5, PasCfc, PasLignes, PasVue, PasLireVersions DEF Bu!SInv, Bu!IInv, Bu!Versions
    <3> QED BY <1>0, <3>1 DEF SansVersions
  <2> QED BY <2>2, <2>3, <2>4, <2>5
<1> QED BY <1>1, <1>2

THEOREM BudgetEnSerie == ASSUME Bu!Domaines, UneALaFois PROVE Bu!Spec => []Bu!SInv
<1>1. Bu!Init => Bu!SInv
  BY DepartBudget
<1> QED BY <1>1, SerieBudget, PTL DEF Bu!Spec

\* modifierVersion and supprimerVersion, one request at a time: at most one
\* version of an operation is current, and an operation that has one never
\* loses it without another taking its place.
THEOREM CouranteTenue ==
    ASSUME Bu!Domaines, UneALaFois
    PROVE  Bu!Spec => []Bu!UneSeuleCourante /\ [][Bu!CouranteGardee]_Bu!vars
<1>1. Bu!SInv /\ [Bu!Next]_Bu!vars => [Bu!CouranteGardee]_Bu!vars
  BY CouranteReste
<1>2. Bu!SInv => Bu!UneSeuleCourante
  BY DEF Bu!SInv
<1> QED BY <1>1, <1>2, BudgetEnSerie, PTL DEF Bu!Spec

(***************************************************************************)
(* Foncier.                                                                *)
(* Whatever runs at the same time, what a parcel points at is stored and   *)
(* the base a reservation froze stays; one request at a time, one general  *)
(* contractor acts.                                                        *)
(***************************************************************************)
LEMMA FormeFoncier ==
    ASSUME NEW r \in Fo!Requete
    PROVE  /\ r.etat \in {"libre", "reference", "lot", "piece", "deposee", "mandat"}
           /\ r.etat \in {"piece", "deposee"} =>
                 /\ r.p \in Parcelles /\ r.nature \in Fo!Pieces /\ r.cle \in Fo!Cles
                 /\ [r EXCEPT !.etat = "deposee"] \in Fo!Requete
                 /\ [r EXCEPT !.etat = "deposee"].etat = "deposee"
                 /\ [r EXCEPT !.etat = "deposee"].cle = r.cle
           /\ r.etat = "mandat" => r.paire \in Fo!Paires /\ r.general \in BOOLEAN
<1>1. CASE r.etat \in {"piece", "deposee"}
  <2>1. r \in [etat : {"piece", "deposee"}, p : Parcelles, nature : Fo!Pieces, cle : Fo!Cles]
    BY <1>1 DEF Fo!Requete
  <2>2. PICK d : d = [r EXCEPT !.etat = "deposee"]
    OBVIOUS
  <2>3. /\ d \in [etat : {"piece", "deposee"}, p : Parcelles, nature : Fo!Pieces, cle : Fo!Cles]
        /\ d.etat = "deposee" /\ d.cle = r.cle
    BY <2>1, <2>2
  <2>4. d \in Fo!Requete
    BY <2>3 DEF Fo!Requete
  <2> QED BY <1>1, <2>1, <2>2, <2>3, <2>4
<1>2. CASE r.etat \notin {"piece", "deposee"}
  BY <1>2 DEF Fo!Requete
<1> QED BY <1>1, <1>2

LEMMA RequetesFoncier ==
    /\ Fo!Libre \in Fo!Requete
    /\ \A l \in Lots, d \in Designations, p \in Prix \cup {NUL} :
          [etat |-> "reference", l |-> l, reference |-> d, prix |-> p] \in Fo!Requete
    /\ \A l \in Lots, s \in Fo!Saisie : [etat |-> "lot", l |-> l, saisie |-> s] \in Fo!Requete
    /\ \A p \in Parcelles, n \in Fo!Pieces, c \in Fo!Cles :
          [etat |-> "piece", p |-> p, nature |-> n, cle |-> c] \in Fo!Requete
    /\ \A x \in Fo!Paires, g \in BOOLEAN :
          [etat |-> "mandat", paire |-> x, general |-> g] \in Fo!Requete
BY DEF Fo!Requete, Fo!Libre

LEMMA GardeFoncier ==
    ASSUME NEW q \in Requetes, NEW r \in Fo!Requete,
           req \in [Requetes -> Fo!Requete], Fo!Garder(q, r)
    PROVE  /\ req' \in [Requetes -> Fo!Requete]
           /\ req'[q] = r
           /\ \A p \in Requetes : p # q => req'[p] = req[p]
BY DEF Fo!Garder

LEMMA DepartFoncier == ASSUME Fo!Domaines, Fo!Init PROVE Fo!SInv
<1>1. /\ DOMAIN ventes = Lots /\ \A l \in Lots : ventes[l] = NUL
      /\ parcelles \in [Parcelles -> Fo!Parcelle \cup {NUL}] /\ \A p \in Parcelles : parcelles[p] = NUL
      /\ rattachements \in [Fo!Paires -> BOOLEAN \cup {NUL}]
      /\ \A x \in Fo!Paires : rattachements[x] = NUL
      /\ cles \in 0..MaxCles /\ fichiers = {}
      /\ req \in [Requetes -> Fo!Requete] /\ \A q \in Requetes : req[q].etat = "libre"
  BY RequetesFoncier DEF Fo!Init, Fo!Domaines, Fo!Libre
<1>2. Fo!Existants(parcelles) = {} /\ Fo!Existants(rattachements) = {}
  BY <1>1 DEF Fo!Existants
<1> QED BY <1>1, <1>2 DEF Fo!SInv, Fo!IInv, Fo!PiecePresente, Fo!Suivi, Fo!MandataireUnique, Fo!Actuel

\* A request that ends, or that keeps what it has read.
LectureSeule(r) == r \in Fo!Requete /\ r.etat \notin {"deposee", "mandat"}

\* A step that leaves the parcels, the files and the general contractors
\* alone.
HorsDuFoncier ==
    /\ UNCHANGED <<parcelles, fichiers, rattachements>>
    /\ cles' \in 0..MaxCles
    /\ DOMAIN ventes' = Lots
    /\ \A l \in Lots : ventes'[l] # NUL => DOMAIN ventes'[l] = {"assiette", "signee"}
    /\ \/ UNCHANGED req
       \/ \E q \in Requetes, r \in Fo!Requete : LectureSeule(r) /\ Fo!Garder(q, r)

LEMMA PasAilleurs == ASSUME Fo!IInv, HorsDuFoncier PROVE Fo!IInv'
<1>1. /\ req' \in [Requetes -> Fo!Requete]
      /\ \A p \in Requetes : req'[p] = req[p] \/ req'[p].etat # "deposee"
  <2>1. CASE UNCHANGED req
    BY <2>1 DEF Fo!IInv
  <2>2. CASE \E q \in Requetes, r \in Fo!Requete : LectureSeule(r) /\ Fo!Garder(q, r)
    <3>1. PICK q \in Requetes, r \in Fo!Requete : LectureSeule(r) /\ Fo!Garder(q, r)
      BY <2>2
    <3>2. /\ req' \in [Requetes -> Fo!Requete] /\ req'[q] = r
          /\ \A p \in Requetes : p # q => req'[p] = req[p]
      BY <3>1, GardeFoncier DEF Fo!IInv
    <3> QED BY <3>1, <3>2 DEF LectureSeule
  <2> QED BY <2>1, <2>2 DEF HorsDuFoncier
<1>2. \A q \in Requetes : Fo!Suivi(req[q])'
  BY <1>1 DEF Fo!IInv, Fo!Suivi, HorsDuFoncier
<1> QED BY <1>1, <1>2 DEF Fo!IInv, HorsDuFoncier, Fo!PiecePresente, Fo!Existants

LEMMA LibreNeutre == LectureSeule(Fo!Libre) /\ Fo!Libre \in Fo!Requete
BY RequetesFoncier DEF LectureSeule, Fo!Libre

LEMMA PasCatalogue ==
    ASSUME Fo!IInv, NEW q \in Requetes, Fo!Catalogue(q)
    PROVE  HorsDuFoncier /\ UNCHANGED ventes
<1>1. UNCHANGED <<parcelles, cles, fichiers, rattachements, ventes>>
  BY DEF Fo!Catalogue, Fo!ChercherReference, Fo!CreerLot, Fo!LireLot, Fo!ModifierLot, Fo!desLots,
     Fo!desParcelles
<1>2. CASE \E l \in Lots, d \in Designations, p \in Prix \cup {NUL} : Fo!ChercherReference(q, l, d, p)
  <2>1. PICK l \in Lots, d \in Designations, p \in Prix \cup {NUL} : Fo!ChercherReference(q, l, d, p)
    BY <1>2
  <2> PICK r : r = [etat |-> "reference", l |-> l, reference |-> d, prix |-> p]
    OBVIOUS
  <2>2. LectureSeule(r) /\ Fo!Garder(q, r) /\ r \in Fo!Requete
    BY <2>1, RequetesFoncier DEF Fo!ChercherReference, LectureSeule
  <2> QED BY <1>1, <2>2 DEF HorsDuFoncier, Fo!IInv
<1>3. CASE \E l \in Lots, s \in Fo!Saisie : Fo!LireLot(q, l, s)
  <2>1. PICK l \in Lots, s \in Fo!Saisie : Fo!LireLot(q, l, s)
    BY <1>3
  <2> PICK r : r = [etat |-> "lot", l |-> l, saisie |-> s]
    OBVIOUS
  <2>2. LectureSeule(r) /\ Fo!Garder(q, r) /\ r \in Fo!Requete
    BY <2>1, RequetesFoncier DEF Fo!LireLot, LectureSeule
  <2> QED BY <1>1, <2>2 DEF HorsDuFoncier, Fo!IInv
<1>4. CASE Fo!CreerLot(q) \/ Fo!ModifierLot(q)
  <2>1. Fo!Garder(q, Fo!Libre)
    BY <1>4 DEF Fo!CreerLot, Fo!ModifierLot, Fo!Finir
  <2> QED BY <1>1, <2>1, LibreNeutre DEF HorsDuFoncier, Fo!IInv
<1> QED BY <1>1, <1>2, <1>3, <1>4 DEF Fo!Catalogue

LEMMA PasPrix ==
    ASSUME Fo!IInv, Fo!Parkings \/ Fo!Kolabimo
    PROVE  HorsDuFoncier /\ UNCHANGED ventes
<1>1. CASE Fo!Parkings
  <2>1. UNCHANGED <<ventes, parcelles, cles, fichiers, rattachements, req>>
    BY <1>1 DEF Fo!Parkings, Fo!CreerParking, Fo!ModifierParking, Fo!SupprimerParking, Fo!desParcelles
  <2> QED BY <2>1 DEF HorsDuFoncier, Fo!IInv
<1>2. CASE Fo!Kolabimo
  <2>1. UNCHANGED <<ventes, parcelles, cles, fichiers, rattachements, req>>
    BY <1>2 DEF Fo!Kolabimo, Fo!AppliquerLot, Fo!Reportee, Fo!desParcelles
  <2> QED BY <2>1 DEF HorsDuFoncier, Fo!IInv
<1> QED BY <1>1, <1>2

LEMMA PasVentes ==
    ASSUME Fo!IInv, Fo!Ventes
    PROVE  HorsDuFoncier /\ Fo!AssietteGardee
<1>1. UNCHANGED <<parcelles, cles, fichiers, rattachements, req>>
  BY DEF Fo!Ventes, Fo!Reserver, Fo!Signer, Fo!desParcelles
<1>2. PICK l \in Lots : Fo!Signer(l) \/ \E p \in Prix \cup {OMIS} : Fo!Reserver(l, p)
  BY DEF Fo!Ventes
<1>3. CASE Fo!Signer(l)
  <2>1. ventes[l] # NUL /\ ventes' = [ventes EXCEPT ![l] = [ventes[l] EXCEPT !.signee = TRUE]]
    BY <1>3 DEF Fo!Signer
  <2> PICK a, v : a = ventes[l] /\ v = [ventes[l] EXCEPT !.signee = TRUE]
    OBVIOUS
  <2>2. DOMAIN a = {"assiette", "signee"} /\ v = [a EXCEPT !.signee = TRUE]
    BY <2>1 DEF Fo!IInv
  <2>3. DOMAIN v = {"assiette", "signee"} /\ v.assiette = a.assiette
    BY <2>2
  <2>4. /\ DOMAIN ventes' = Lots /\ ventes'[l] = v
        /\ \A m \in Lots : m # l => ventes'[m] = ventes[m]
    BY <2>1 DEF Fo!IInv
  <2> QED BY <1>1, <2>3, <2>4 DEF Fo!IInv, Fo!AssietteGardee, HorsDuFoncier
<1>4. CASE \E p \in Prix \cup {OMIS} : Fo!Reserver(l, p)
  <2>1. PICK p \in Prix \cup {OMIS} : Fo!Reserver(l, p)
    BY <1>4
  <2> PICK a : a = Fo!Saisi(p, Fo!PrixTotalActe(l))
    OBVIOUS
  <2> PICK v : v = [assiette |-> a, signee |-> FALSE]
    OBVIOUS
  <2>2. ventes[l] = NUL /\ ventes' = [ventes EXCEPT ![l] = v]
    BY <2>1 DEF Fo!Reserver
  <2>3. /\ DOMAIN ventes' = Lots /\ ventes'[l] = v /\ DOMAIN v = {"assiette", "signee"}
        /\ \A m \in Lots : m # l => ventes'[m] = ventes[m]
    BY <2>2 DEF Fo!IInv
  <2> QED BY <1>1, <2>2, <2>3 DEF Fo!IInv, Fo!AssietteGardee, HorsDuFoncier
<1> QED BY <1>2, <1>3, <1>4

LEMMA PasSuppression ==
    ASSUME Fo!IInv, NEW p \in Parcelles, Fo!CreerParcelle(p) \/ Fo!SupprimerParcelle(p)
    PROVE  Fo!IInv' /\ UNCHANGED <<ventes, rattachements, req>>
<1> PICK vide : vide = [acte |-> NUL, extrait |-> NUL]
  OBVIOUS
<1>1. /\ UNCHANGED <<ventes, cles, fichiers, rattachements, req>>
      /\ parcelles' = [parcelles EXCEPT ![p] = vide] \/ parcelles' = [parcelles EXCEPT ![p] = NUL]
  BY DEF Fo!CreerParcelle, Fo!SupprimerParcelle, Fo!desLots
<1>2. vide \in Fo!Parcelle /\ vide.acte = NUL /\ vide.extrait = NUL
  BY DEF Fo!Parcelle
<1>3. /\ parcelles' \in [Parcelles -> Fo!Parcelle \cup {NUL}]
      /\ parcelles'[p] \in {vide, NUL} /\ \A x \in Parcelles : x # p => parcelles'[x] = parcelles[x]
  BY <1>1, <1>2 DEF Fo!IInv
<1>4. Fo!PiecePresente'
  <2> SUFFICES ASSUME NEW x \in Parcelles, parcelles'[x] # NUL
               PROVE  {parcelles'[x].acte, parcelles'[x].extrait} \ {NUL} \subseteq fichiers'
    BY <1>3 DEF Fo!PiecePresente, Fo!Existants
  <2>1. CASE x = p
    BY <1>2, <1>3, <2>1
  <2>2. CASE x # p
    BY <1>1, <1>3, <2>2 DEF Fo!IInv, Fo!PiecePresente, Fo!Existants
  <2> QED BY <2>1, <2>2
<1>5. \A q \in Requetes : Fo!Suivi(req[q])'
  BY <1>1 DEF Fo!IInv, Fo!Suivi
<1> QED BY <1>1, <1>3, <1>4, <1>5 DEF Fo!IInv

LEMMA PasLireParcelle ==
    ASSUME Fo!Domaines, Fo!IInv, NEW q \in Requetes, NEW p \in Parcelles, NEW n \in Fo!Pieces,
           Fo!LireParcelle(q, p, n)
    PROVE  HorsDuFoncier /\ UNCHANGED ventes
<1> PICK r : r = [etat |-> "piece", p |-> p, nature |-> n, cle |-> cles + 1]
  OBVIOUS
<1>1. cles + 1 \in Fo!Cles /\ cles' \in 0..MaxCles
  BY DEF Fo!LireParcelle, Fo!IInv, Fo!Cles, Fo!Domaines
<1>2. LectureSeule(r) /\ r \in Fo!Requete
  BY <1>1, RequetesFoncier DEF LectureSeule
<1>3. Fo!Garder(q, r) /\ UNCHANGED <<ventes, parcelles, fichiers, rattachements>>
  BY DEF Fo!LireParcelle, Fo!desLots
<1> QED BY <1>1, <1>2, <1>3 DEF HorsDuFoncier, Fo!IInv

\* The key that is kept once the file is there is the one of that file.
LEMMA PasStockerPiece ==
    ASSUME Fo!IInv, NEW q \in Requetes, Fo!StockerPiece(q)
    PROVE  Fo!IInv' /\ UNCHANGED <<ventes, rattachements>> /\ req'[q].etat # "mandat"
<1> PICK d : d = [req[q] EXCEPT !.etat = "deposee"]
  OBVIOUS
<1>1. /\ d \in Fo!Requete /\ d.etat = "deposee" /\ d.cle = req[q].cle /\ req[q].cle \in Fo!Cles
  BY FormeFoncier DEF Fo!StockerPiece, Fo!En, Fo!IInv
<1>2. /\ fichiers' = fichiers \cup {req[q].cle} /\ Fo!Garder(q, d)
      /\ UNCHANGED <<ventes, parcelles, cles, rattachements>>
  BY DEF Fo!StockerPiece, Fo!desLots
<1>3. /\ req' \in [Requetes -> Fo!Requete] /\ req'[q] = d
      /\ \A p \in Requetes : p # q => req'[p] = req[p]
  BY <1>1, <1>2, GardeFoncier DEF Fo!IInv
<1>4. \A p \in Requetes : Fo!Suivi(req[p])'
  BY <1>1, <1>2, <1>3 DEF Fo!IInv, Fo!Suivi
<1>5. Fo!PiecePresente'
  BY <1>2 DEF Fo!IInv, Fo!PiecePresente, Fo!Existants
<1> QED BY <1>1, <1>2, <1>3, <1>4, <1>5 DEF Fo!IInv

\* A parcel that is given a piece.
LEMMA PieceEcrite ==
    ASSUME NEW l \in Fo!Parcelle, NEW c \in Fo!Cles
    PROVE  /\ [l EXCEPT !.acte = c] \in Fo!Parcelle /\ [l EXCEPT !.extrait = c] \in Fo!Parcelle
           /\ [l EXCEPT !.acte = c].acte = c /\ [l EXCEPT !.acte = c].extrait = l.extrait
           /\ [l EXCEPT !.extrait = c].extrait = c /\ [l EXCEPT !.extrait = c].acte = l.acte
BY DEF Fo!Parcelle

LEMMA PasEcrirePiece ==
    ASSUME Fo!IInv, NEW q \in Requetes, Fo!EcrirePiece(q)
    PROVE  Fo!IInv' /\ UNCHANGED <<ventes, rattachements>> /\ req'[q].etat # "mandat"
<1> PICK p, c, l : p = req[q].p /\ c = req[q].cle /\ l = parcelles[req[q].p]
  OBVIOUS
<1>1. /\ p \in Parcelles /\ c \in Fo!Cles /\ c \in fichiers
      /\ parcelles[p] = l /\ l \in Fo!Parcelle /\ l # NUL /\ p \in Fo!Existants(parcelles)
  BY FormeFoncier DEF Fo!EcrirePiece, Fo!Ecrivable, Fo!Existants, Fo!IInv, Fo!Suivi
<1> PICK n : n = IF req[q].nature = "acte" THEN [l EXCEPT !.acte = c] ELSE [l EXCEPT !.extrait = c]
  OBVIOUS
<1>2. /\ parcelles' = [parcelles EXCEPT ![p] = n] /\ Fo!Garder(q, Fo!Libre)
      /\ UNCHANGED <<ventes, cles, fichiers, rattachements>>
  BY <1>1 DEF Fo!EcrirePiece, Fo!Finir, Fo!desLots
<1>3. n \in Fo!Parcelle /\ {n.acte, n.extrait} \subseteq {l.acte, l.extrait, c}
  BY <1>1, PieceEcrite
<1>4. /\ req' \in [Requetes -> Fo!Requete] /\ req'[q] = Fo!Libre
      /\ \A x \in Requetes : x # q => req'[x] = req[x]
  BY <1>2, LibreNeutre, GardeFoncier DEF Fo!IInv
<1>5. \A x \in Requetes : Fo!Suivi(req[x])'
  BY <1>2, <1>4 DEF Fo!IInv, Fo!Suivi, Fo!Libre
<1>6. /\ parcelles' \in [Parcelles -> Fo!Parcelle \cup {NUL}]
      /\ parcelles'[p] = n /\ \A x \in Parcelles : x # p => parcelles'[x] = parcelles[x]
  BY <1>1, <1>2, <1>3 DEF Fo!IInv
<1>7. Fo!PiecePresente'
  <2>1. {l.acte, l.extrait} \ {NUL} \subseteq fichiers
    BY <1>1 DEF Fo!IInv, Fo!PiecePresente
  <2>2. {n.acte, n.extrait} \ {NUL} \subseteq fichiers
    BY <1>1, <1>3, <2>1
  <2> QED BY <1>2, <1>6, <2>2 DEF Fo!IInv, Fo!PiecePresente, Fo!Existants
<1>8. req'[q].etat # "mandat"
  BY <1>4 DEF Fo!Libre
<1> QED BY <1>2, <1>4, <1>5, <1>6, <1>7, <1>8 DEF Fo!IInv

LEMMA PasAnnuaire ==
    ASSUME Fo!IInv, NEW q \in Requetes, Fo!Annuaire(q)
    PROVE  Fo!IInv' /\ UNCHANGED ventes
<1>1. UNCHANGED <<ventes, parcelles, cles, fichiers>>
  BY DEF Fo!Annuaire, Fo!LireRattachement, Fo!Rattacher, Fo!Detacher, Fo!desLots, Fo!desParcelles
<1>2. /\ rattachements' \in [Fo!Paires -> BOOLEAN \cup {NUL}]
      /\ req' \in [Requetes -> Fo!Requete]
      /\ \A p \in Requetes : req'[p] = req[p] \/ req'[p].etat # "deposee"
  <2>1. CASE \E x \in Fo!Paires, g \in BOOLEAN : Fo!LireRattachement(q, x, g)
    <3>1. PICK x \in Fo!Paires, g \in BOOLEAN : Fo!LireRattachement(q, x, g)
      BY <2>1
    <3> PICK r : r = [etat |-> "mandat", paire |-> x, general |-> g]
      OBVIOUS
    <3>2. r \in Fo!Requete /\ r.etat = "mandat" /\ Fo!Garder(q, r) /\ UNCHANGED rattachements
      BY <3>1, RequetesFoncier DEF Fo!LireRattachement
    <3> QED BY <3>2, GardeFoncier DEF Fo!IInv
  <2>2. CASE Fo!Rattacher(q)
    <3>1. req[q].paire \in Fo!Paires /\ req[q].general \in BOOLEAN
      BY <2>2, FormeFoncier DEF Fo!Rattacher, Fo!En, Fo!IInv
    <3>2. rattachements' \in [Fo!Paires -> BOOLEAN \cup {NUL}]
      BY <2>2, <3>1 DEF Fo!Rattacher, Fo!IInv
    <3>3. Fo!Garder(q, Fo!Libre) /\ Fo!Libre.etat = "libre"
      BY <2>2 DEF Fo!Rattacher, Fo!Finir, Fo!Libre
    <3> QED BY <3>2, <3>3, LibreNeutre, GardeFoncier DEF Fo!IInv
  <2>3. CASE \E x \in Fo!Paires : Fo!Detacher(x)
    BY <2>3 DEF Fo!Detacher, Fo!IInv
  <2> QED BY <2>1, <2>2, <2>3 DEF Fo!Annuaire
<1>3. \A p \in Requetes : Fo!Suivi(req[p])'
  BY <1>1, <1>2 DEF Fo!IInv, Fo!Suivi
<1> QED BY <1>1, <1>2, <1>3 DEF Fo!IInv, Fo!PiecePresente, Fo!Existants

LEMMA PasAbandonFoncier ==
    ASSUME Fo!IInv, NEW q \in Requetes, Fo!Interrompre(q)
    PROVE  HorsDuFoncier /\ UNCHANGED ventes
<1>1. Fo!Garder(q, Fo!Libre) /\ UNCHANGED <<ventes, parcelles, cles, fichiers, rattachements>>
  BY DEF Fo!Interrompre, Fo!Finir, Fo!desLots, Fo!desParcelles
<1> QED BY <1>1, LibreNeutre DEF HorsDuFoncier, Fo!IInv

LEMMA PasFoncier ==
    ASSUME Fo!Domaines, Fo!IInv, [Fo!Next]_Fo!vars
    PROVE  Fo!IInv' /\ Fo!AssietteGardee
<1>1. CASE UNCHANGED Fo!vars
  <2>1. UNCHANGED <<ventes, parcelles, cles, fichiers, rattachements, req>>
    BY <1>1 DEF Fo!vars
  <2>2. HorsDuFoncier
    BY <2>1 DEF HorsDuFoncier, Fo!IInv
  <2> QED BY <2>1, <2>2, PasAilleurs DEF Fo!AssietteGardee
<1>2. CASE Fo!Ventes
  BY <1>2, PasVentes, PasAilleurs
<1>3. CASE Fo!Parkings \/ Fo!Kolabimo
  BY <1>3, PasPrix, PasAilleurs DEF Fo!AssietteGardee
<1>4. ASSUME NEW q \in Requetes, Fo!Catalogue(q) \/ Fo!Interrompre(q)
      PROVE  Fo!IInv' /\ Fo!AssietteGardee
  BY <1>4, PasCatalogue, PasAbandonFoncier, PasAilleurs DEF Fo!AssietteGardee
<1>5. ASSUME NEW q \in Requetes, Fo!Terrain(q)
      PROVE  Fo!IInv' /\ Fo!AssietteGardee
  <2>1. CASE \E p \in Parcelles : Fo!CreerParcelle(p) \/ Fo!SupprimerParcelle(p)
    BY <2>1, PasSuppression DEF Fo!AssietteGardee
  <2>2. CASE \E p \in Parcelles, n \in Fo!Pieces : Fo!LireParcelle(q, p, n)
    BY <2>2, PasLireParcelle, PasAilleurs DEF Fo!AssietteGardee
  <2>3. CASE Fo!StockerPiece(q) \/ Fo!EcrirePiece(q)
    BY <2>3, PasStockerPiece, PasEcrirePiece DEF Fo!AssietteGardee
  <2> QED BY <1>5, <2>1, <2>2, <2>3 DEF Fo!Terrain
<1>6. ASSUME NEW q \in Requetes, Fo!Annuaire(q)
      PROVE  Fo!IInv' /\ Fo!AssietteGardee
  BY <1>6, PasAnnuaire DEF Fo!AssietteGardee
<1> QED BY <1>1, <1>2, <1>3, <1>4, <1>5, <1>6 DEF Fo!Next

THEOREM InvarianceFoncier == ASSUME Fo!Domaines PROVE Fo!Spec => []Fo!IInv
<1>1. Fo!Init => Fo!IInv
  BY DepartFoncier DEF Fo!SInv
<1> QED BY <1>1, PasFoncier, PTL DEF Fo!Spec

\* deposerActe and RdppfService.lire, appliquerLot and modifierLot, whatever
\* runs at the same time: what a parcel points at is in the storage, and the
\* base a reservation froze stays whatever price moves.
THEOREM FoncierTenu ==
    ASSUME Fo!Domaines
    PROVE  Fo!Spec => []Fo!PiecePresente /\ [][Fo!AssietteGardee]_Fo!vars
<1>1. Fo!IInv => Fo!PiecePresente
  BY DEF Fo!IInv
<1>2. Fo!IInv /\ [Fo!Next]_Fo!vars => [Fo!AssietteGardee]_Fo!vars
  BY PasFoncier
<1> QED BY <1>1, <1>2, InvarianceFoncier, PTL DEF Fo!Spec

\* One request at a time: what a request read of the general contractors holds
\* until it writes.
LEMMA SerieRattacher ==
    ASSUME UneALaFois, Fo!SInv, NEW q \in Requetes, Fo!Rattacher(q)
    PROVE  Fo!MandataireUnique' /\ Fo!Actuel(req[q])'
<1> PICK x, g : x = req[q].paire /\ g = req[q].general
  OBVIOUS
<1>1. /\ x \in Fo!Paires /\ g \in BOOLEAN
      /\ g => Fo!Autres(x[1]) = {}
  BY FormeFoncier DEF Fo!Rattacher, Fo!En, Fo!SInv, Fo!IInv, Fo!Actuel
<1>2. /\ rattachements \in [Fo!Paires -> BOOLEAN \cup {NUL}]
      /\ rattachements' = [rattachements EXCEPT ![x] = g]
      /\ req'[q] = Fo!Libre
  BY DEF Fo!Rattacher, Fo!SInv, Fo!IInv, Fo!Finir, Fo!Garder
<1>3. g => \A y \in Fo!Existants(rattachements) : rattachements[y] => y[1] = x[1]
  BY <1>1 DEF Fo!Autres
<1>4. Fo!MandataireUnique'
  BY <1>1, <1>2, <1>3 DEF Fo!SInv, Fo!MandataireUnique, Fo!Existants
<1>5. Fo!Actuel(req[q])'
  BY <1>2 DEF Fo!Actuel, Fo!Libre
<1> QED BY <1>4, <1>5

LEMMA SerieAnnuaire ==
    ASSUME UneALaFois, Fo!SInv, NEW q \in Requetes, Fo!Annuaire(q)
    PROVE  Fo!MandataireUnique' /\ Fo!Actuel(req[q])'
<1>1. CASE \E x \in Fo!Paires, g \in BOOLEAN : Fo!LireRattachement(q, x, g)
  <2>1. PICK x \in Fo!Paires, g \in BOOLEAN : Fo!LireRattachement(q, x, g)
    BY <1>1
  <2> PICK r : r = [etat |-> "mandat", paire |-> x, general |-> g]
    OBVIOUS
  <2>2. /\ r \in Fo!Requete /\ r.paire = x /\ r.general = g /\ Fo!Garder(q, r)
        /\ UNCHANGED rattachements /\ (g => Fo!Autres(x[1]) = {})
    BY <2>1, RequetesFoncier DEF Fo!LireRattachement
  <2>3. req'[q] = r
    BY <2>2, GardeFoncier DEF Fo!SInv, Fo!IInv
  <2>4. (r.general => Fo!Autres(r.paire[1]) = {})'
    BY <2>2 DEF Fo!Autres, Fo!Existants
  <2> QED BY <2>2, <2>3, <2>4 DEF Fo!SInv, Fo!MandataireUnique, Fo!Existants, Fo!Actuel
<1>2. CASE Fo!Rattacher(q)
  BY <1>2, SerieRattacher
<1>3. CASE \E x \in Fo!Paires : Fo!Detacher(x)
  <2>1. PICK x \in Fo!Paires : rattachements' = [rattachements EXCEPT ![x] = NUL] /\ UNCHANGED req
    BY <1>3 DEF Fo!Detacher
  <2>2. /\ rattachements \in [Fo!Paires -> BOOLEAN \cup {NUL}]
        /\ Fo!Existants(rattachements)' \subseteq Fo!Existants(rattachements)
        /\ \A y \in Fo!Existants(rattachements)' : rattachements'[y] = rattachements[y]
    BY <2>1 DEF Fo!SInv, Fo!IInv, Fo!Existants
  <2>3. Fo!MandataireUnique'
    BY <2>2 DEF Fo!SInv, Fo!MandataireUnique
  <2>4. ASSUME NEW a PROVE Fo!Autres(a)' \subseteq Fo!Autres(a)
    BY <2>2 DEF Fo!Autres
  <2>5. Fo!Actuel(req[q])'
    BY <2>1, <2>4 DEF Fo!SInv, Fo!Actuel
  <2> QED BY <2>3, <2>5
<1> QED BY <1>1, <1>2, <1>3 DEF Fo!Annuaire

\* A step that touches no general contractor.
LEMMA SerieAilleurs ==
    ASSUME Fo!SInv, UNCHANGED rattachements,
           \A q \in Requetes : req'[q] = req[q] \/ req'[q].etat # "mandat"
    PROVE  Fo!MandataireUnique' /\ \A q \in Requetes : Fo!Actuel(req[q])'
<1>1. \A a : Fo!Autres(a)' = Fo!Autres(a)
  BY DEF Fo!Autres, Fo!Existants
<1> QED BY <1>1 DEF Fo!SInv, Fo!MandataireUnique, Fo!Existants, Fo!Actuel

LEMMA AilleursSansMandat ==
    ASSUME Fo!SInv, HorsDuFoncier
    PROVE  /\ UNCHANGED rattachements
           /\ \A q \in Requetes : req'[q] = req[q] \/ req'[q].etat # "mandat"
<1>1. CASE UNCHANGED req
  BY <1>1 DEF HorsDuFoncier
<1>2. CASE \E q \in Requetes, r \in Fo!Requete : LectureSeule(r) /\ Fo!Garder(q, r)
  BY <1>2, GardeFoncier DEF Fo!SInv, Fo!IInv, LectureSeule, HorsDuFoncier
<1> QED BY <1>1, <1>2 DEF HorsDuFoncier

LEMMA SerieFoncier ==
    ASSUME Fo!Domaines, UneALaFois, Fo!SInv, [Fo!Next]_Fo!vars
    PROVE  Fo!SInv'
<1>0. Fo!IInv /\ Fo!IInv'
  BY PasFoncier DEF Fo!SInv
<1> SUFFICES Fo!MandataireUnique' /\ \A q \in Requetes : Fo!Actuel(req[q])'
  BY <1>0 DEF Fo!SInv
<1>1. CASE HorsDuFoncier
  BY <1>1, AilleursSansMandat, SerieAilleurs
<1>2. CASE UNCHANGED Fo!vars
  BY <1>2, SerieAilleurs DEF Fo!vars
<1>3. CASE \E q \in Requetes : Fo!Annuaire(q)
  <2>1. PICK q \in Requetes : Fo!Annuaire(q)
    BY <1>3
  <2>2. Fo!MandataireUnique' /\ Fo!Actuel(req[q])'
    BY <2>1, SerieAnnuaire
  <2> QED BY <2>2 DEF UneALaFois
<1>4. CASE \E p \in Parcelles : Fo!CreerParcelle(p) \/ Fo!SupprimerParcelle(p)
  BY <1>0, <1>4, PasSuppression, SerieAilleurs
<1>5. CASE \E q \in Requetes : Fo!StockerPiece(q) \/ Fo!EcrirePiece(q)
  <2>1. PICK q \in Requetes : Fo!StockerPiece(q) \/ Fo!EcrirePiece(q)
    BY <1>5
  <2>2. UNCHANGED rattachements /\ req'[q].etat # "mandat"
    BY <1>0, <2>1, PasStockerPiece, PasEcrirePiece
  <2> QED BY <2>2, SerieAilleurs DEF UneALaFois
<1>6. HorsDuFoncier \/ UNCHANGED Fo!vars \/ (\E q \in Requetes : Fo!Annuaire(q))
      \/ (\E p \in Parcelles : Fo!CreerParcelle(p) \/ Fo!SupprimerParcelle(p))
      \/ \E q \in Requetes : Fo!StockerPiece(q) \/ Fo!EcrirePiece(q)
  BY <1>0, PasVentes, PasPrix, PasCatalogue, PasAbandonFoncier, PasLireParcelle
     DEF Fo!Next, Fo!Terrain
<1> QED BY <1>1, <1>2, <1>3, <1>4, <1>5, <1>6

THEOREM FoncierEnSerie == ASSUME Fo!Domaines, UneALaFois PROVE Fo!Spec => []Fo!SInv
<1>1. Fo!Init => Fo!SInv
  BY DepartFoncier
<1> QED BY <1>1, SerieFoncier, PTL DEF Fo!Spec

\* ActeursService.rattacher, one request at a time: the general contractor of
\* an operation is one actor.
THEOREM MandataireTenu == ASSUME Fo!Domaines, UneALaFois PROVE Fo!Spec => []Fo!MandataireUnique
<1>1. Fo!SInv => Fo!MandataireUnique
  BY DEF Fo!SInv
<1> QED BY <1>1, FoncierEnSerie, PTL

(***************************************************************************)
(* Seances.                                                                *)
(* Whatever runs at the same time, a point hangs on a post of the          *)
(* operation its meeting is held for, and the three places that say what   *)
(* is still to be done agree; one request at a time, a meeting is held on  *)
(* a date.                                                                 *)
(***************************************************************************)
\* A set has the size that the component gives it.
LEMMA TailleSeances == \A S : Se!Cardinality(S) = Cardinality(S)
BY DEF Se!Cardinality, Cardinality

LEMMA DepartSeances == ASSUME Se!Domaines, Se!Init PROVE Se!SInv
<1>1. /\ seances \in [Seances -> Se!Seance \cup {NUL}] /\ DOMAIN points = {}
      /\ DOMAIN req = Requetes /\ \A q \in Requetes : req[q].etat = "libre"
  BY DEF Se!Init, Se!Libre
<1>2. 0 \in 0..MaxPoints /\ DOMAIN points = 1..0
  BY <1>1 DEF Se!Domaines
<1> QED BY <1>1, <1>2 DEF Se!SInv, Se!IInv, Se!Valable, Se!Actuel

\* The rows that are there keep their operation.
Gardees == \A s \in Seances : seances[s] # NUL =>
              seances'[s] # NUL /\ seances'[s].operation = seances[s].operation

\* What hangs on a meeting goes on hanging on it.
LEMMA RattacheGarde ==
    ASSUME Gardees, NEW s, NEW n, Se!Rattache(s, n)
    PROVE  Se!Rattache(s, n)'
BY DEF Gardees, Se!Rattache

LEMMA ResteTenu ==
    ASSUME Gardees, NEW p, Se!Tenu(p)
    PROVE  Se!Tenu(p)'
BY RattacheGarde DEF Se!Tenu

LEMMA ResteValable ==
    ASSUME Gardees, NEW r, Se!Valable(r)
    PROVE  Se!Valable(r)'
<1>1. r.etat = "point" => Se!Rattache(r.s, r.noeud)'
  BY RattacheGarde DEF Se!Valable
<1>2. r.etat = "seance" => r.s \in Seances /\ seances'[r.s] # NUL /\ r.patch \in Se!Patch
  BY DEF Se!Valable, Gardees
<1> QED BY <1>1, <1>2 DEF Se!Valable

\* A step that leaves the points alone.
LEMMA SansPoints ==
    ASSUME Se!IInv, Gardees, seances' \in [Seances -> Se!Seance \cup {NUL}],
           DOMAIN req' = Requetes,
           \A q \in Requetes : req'[q] = req[q] \/ Se!Valable(req'[q]),
           UNCHANGED points
    PROVE  Se!IInv'
<1>1. \A q \in Requetes : Se!Valable(req'[q])
  BY DEF Se!IInv
<1>2. \A q \in Requetes : Se!Valable(req[q])'
  <2> SUFFICES ASSUME NEW q \in Requetes PROVE Se!Valable(req[q])'
    OBVIOUS
  <2> PICK r : r = req'[q]
    OBVIOUS
  <2>1. Se!Valable(r)'
    BY <1>1, ResteValable
  <2> QED BY <2>1 DEF Se!Valable, Se!Rattache
<1>3. \A i \in DOMAIN points' : Se!Tenu(points[i])'
  <2> SUFFICES ASSUME NEW i \in DOMAIN points PROVE Se!Tenu(points[i])'
    OBVIOUS
  <2> PICK p : p = points[i]
    OBVIOUS
  <2>1. Se!Tenu(p)'
    BY ResteTenu DEF Se!IInv
  <2> QED BY <2>1 DEF Se!Tenu, Se!Rattache
<1> QED BY <1>2, <1>3 DEF Se!IInv

LEMMA GardeSeances ==
    ASSUME NEW q \in Requetes, NEW r, DOMAIN req = Requetes, Se!Garder(q, r)
    PROVE  /\ DOMAIN req' = Requetes /\ req'[q] = r
           /\ \A p \in Requetes : p # q => req'[p] = req[p]
BY DEF Se!Garder

LEMMA LibreSeances == Se!Valable(Se!Libre) /\ Se!Actuel(Se!Libre) /\ Se!Libre.etat = "libre"
BY DEF Se!Valable, Se!Actuel, Se!Libre

LEMMA PasCreerSeance ==
    ASSUME Se!Domaines, Se!IInv, NEW o \in Operations, NEW s \in Seances, NEW d \in BOOLEAN,
           Se!Creer(o, s, d)
    PROVE  Se!IInv'
<1> PICK n : n = [operation |-> o, statut |-> "PLANIFIEE", datee |-> d]
  OBVIOUS
<1>1. n \in Se!Seance
  BY DEF Se!Seance
<1>2. seances[s] = NUL /\ seances' = [seances EXCEPT ![s] = n] /\ UNCHANGED <<points, req>>
  BY DEF Se!Creer
<1>3. seances' \in [Seances -> Se!Seance \cup {NUL}] /\ Gardees
  BY <1>1, <1>2 DEF Se!IInv, Gardees
<1> QED BY <1>2, <1>3, SansPoints DEF Se!IInv

LEMMA PasLireSeance ==
    ASSUME Se!IInv, NEW q \in Requetes, NEW o \in Operations, NEW s \in Seances,
           NEW patch \in Se!Patch, Se!LireSeance(q, o, s, patch)
    PROVE  /\ Se!IInv' /\ UNCHANGED seances
           /\ \E r : req'[q] = r /\ Se!Actuel(r)
<1> PICK r : r = [etat |-> "seance", s |-> s, patch |-> patch]
  OBVIOUS
<1>1. r.etat = "seance" /\ r.s = s /\ r.patch = patch
  OBVIOUS
<1>2. /\ seances[s] # NUL /\ Se!Garder(q, r) /\ UNCHANGED <<seances, points>>
      /\ patch.statut = "TENUE" => patch.datee = TRUE \/ seances[s].datee
  BY DEF Se!LireSeance, Se!ExigerSeance
<1>3. Se!Valable(r)
  BY <1>1, <1>2 DEF Se!Valable
<1>4. Se!Actuel(r)
  BY <1>1, <1>2 DEF Se!Actuel
<1>5. DOMAIN req' = Requetes /\ req'[q] = r /\ \A p \in Requetes : p # q => req'[p] = req[p]
  BY <1>2, GardeSeances DEF Se!IInv
<1>6. Gardees
  BY <1>2 DEF Gardees
<1> QED BY <1>2, <1>3, <1>4, <1>5, <1>6, SansPoints DEF Se!IInv

\* A patch changes the status and the date, and nothing else.
LEMMA ModifiePar ==
    ASSUME Se!Domaines, Se!IInv, NEW q \in Requetes, Se!Modifier(q)
    PROVE  /\ req[q].s \in Seances /\ seances[req[q].s] \in Se!Seance
           /\ req[q].patch \in Se!Patch
           /\ \E y \in Se!Seance :
                /\ seances' = [seances EXCEPT ![req[q].s] = y]
                /\ y.operation = seances[req[q].s].operation
                /\ y.statut # seances[req[q].s].statut => y.statut = req[q].patch.statut
                /\ y.datee = IF req[q].patch.datee = OMIS THEN seances[req[q].s].datee
                                                         ELSE req[q].patch.datee
<1> PICK s, a, x : s = req[q].s /\ a = req[q].patch /\ x = seances[req[q].s]
  OBVIOUS
<1>1. s \in Seances /\ seances[s] # NUL /\ a \in Se!Patch
  BY DEF Se!Modifier, Se!En, Se!IInv, Se!Valable
<1>2. x \in Se!Seance
  BY <1>1 DEF Se!IInv
<1> PICK t, d : t = Se!Saisi(a.statut, x.statut) /\ d = Se!Saisi(a.datee, x.datee)
  OBVIOUS
<1>3. /\ t = x.statut \/ t = a.statut
      /\ t \in {"PLANIFIEE", "TENUE", "ANNULEE"}
      /\ d = IF a.datee = OMIS THEN x.datee ELSE a.datee
      /\ d \in BOOLEAN
  BY <1>1, <1>2 DEF Se!Saisi, Se!Patch, Se!Seance
<1> PICK y : y = [[x EXCEPT !.statut = t] EXCEPT !.datee = d]
  OBVIOUS
<1>4. y \in Se!Seance /\ y.operation = x.operation /\ y.statut = t /\ y.datee = d
  BY <1>2, <1>3 DEF Se!Seance
<1>5. seances' = [seances EXCEPT ![s] = y]
  <2>1. seances' = [seances EXCEPT ![s].statut = Se!Saisi(a.statut, x.statut),
                                   ![s].datee = Se!Saisi(a.datee, x.datee)]
    BY <1>2 DEF Se!Modifier, Se!Seance, Se!IInv
  <2> QED BY <1>1, <1>2, <2>1 DEF Se!IInv, Se!Seance
<1> QED BY <1>1, <1>2, <1>3, <1>4, <1>5

LEMMA PasModifierSeance ==
    ASSUME Se!Domaines, Se!IInv, NEW q \in Requetes, Se!Modifier(q)
    PROVE  Se!IInv' /\ req'[q] = Se!Libre
<1>1. Se!Garder(q, Se!Libre) /\ UNCHANGED points
  BY DEF Se!Modifier, Se!Finir
<1>2. DOMAIN req' = Requetes /\ req'[q] = Se!Libre /\ \A p \in Requetes : p # q => req'[p] = req[p]
  BY <1>1, GardeSeances DEF Se!IInv
<1>3. PICK s \in Seances, y \in Se!Seance :
         /\ seances' = [seances EXCEPT ![s] = y] /\ seances[s] \in Se!Seance
         /\ y.operation = seances[s].operation
  BY ModifiePar
<1>4. seances' \in [Seances -> Se!Seance \cup {NUL}] /\ Gardees
  BY <1>3 DEF Se!IInv, Gardees, Se!Domaines
<1> QED BY <1>1, <1>2, <1>4, SansPoints, LibreSeances

LEMMA PasLirePoint ==
    ASSUME Se!IInv, NEW q \in Requetes, NEW o, NEW s \in Seances, NEW ordre, NEW n, NEW e,
           Se!LirePoint(q, o, s, ordre, n, e)
    PROVE  Se!IInv' /\ UNCHANGED seances /\ \E r : req'[q] = r /\ Se!Actuel(r)
<1> PICK d, k : d = (ordre = OMIS) /\ k = IF ordre = OMIS THEN Se!Suite(s) ELSE ordre
  OBVIOUS
<1> PICK r : r = [etat |-> "point", s |-> s, donne |-> d, noeud |-> n, ordre |-> k, echeance |-> e]
  OBVIOUS
<1>1. r.etat = "point" /\ r.s = s /\ r.noeud = n
  OBVIOUS
<1>2. /\ seances[s] # NUL /\ seances[s].operation = o /\ (n # NUL => NoeudDe[n] = o)
      /\ Se!Garder(q, r) /\ UNCHANGED <<seances, points>>
  BY DEF Se!LirePoint, Se!ExigerSeance, Se!NoeudAdmis
<1>3. Se!Valable(r)
  BY <1>1, <1>2 DEF Se!Valable, Se!Rattache
<1>4. Se!Actuel(r)
  BY <1>1 DEF Se!Actuel
<1>5. DOMAIN req' = Requetes /\ req'[q] = r /\ \A p \in Requetes : p # q => req'[p] = req[p]
  BY <1>2, GardeSeances DEF Se!IInv
<1>6. Gardees
  BY <1>2 DEF Gardees
<1> QED BY <1>2, <1>3, <1>4, <1>5, <1>6, SansPoints DEF Se!IInv

\* Points written in the meetings that are there.
LEMMA AvecPoints ==
    ASSUME Se!IInv, UNCHANGED seances, DOMAIN req' = Requetes,
           \A q \in Requetes : req'[q] = req[q] \/ req'[q] = Se!Libre,
           \E n \in 0..MaxPoints : DOMAIN points' = 1..n,
           \A i \in DOMAIN points' : Se!Tenu(points'[i])
    PROVE  Se!IInv'
<1>1. \A q \in Requetes : Se!Valable(req[q])'
  <2> SUFFICES ASSUME NEW q \in Requetes PROVE Se!Valable(req[q])'
    OBVIOUS
  <2>1. Se!Valable(req'[q])
    BY LibreSeances DEF Se!IInv
  <2> QED BY <2>1 DEF Se!Valable, Se!Rattache
<1>2. \A i \in DOMAIN points' : Se!Tenu(points[i])'
  BY DEF Se!Tenu, Se!Rattache
<1> QED BY <1>1, <1>2 DEF Se!IInv

LEMMA PasAjouterPoint ==
    ASSUME Se!Domaines, Se!IInv, NEW q \in Requetes, Se!AjouterPoint(q)
    PROVE  Se!IInv' /\ req'[q] = Se!Libre /\ UNCHANGED seances
<1>1. PICK n \in 0..MaxPoints : DOMAIN points = 1..n
  BY DEF Se!IInv
<1>2. n \in Nat /\ Se!Cardinality(DOMAIN points) = n
  BY <1>1, FS_Interval, TailleSeances DEF Se!Domaines
<1> PICK p : p = [seance |-> req[q].s, ordre |-> req[q].ordre, noeud |-> req[q].noeud,
                  statut |-> "OUVERT", echeance |-> req[q].echeance]
  OBVIOUS
<1>3. /\ n < MaxPoints
      /\ points' = [i \in DOMAIN points \cup {n + 1} |-> IF i \in DOMAIN points THEN points[i] ELSE p]
      /\ Se!Garder(q, Se!Libre) /\ UNCHANGED seances
  BY <1>2 DEF Se!AjouterPoint, Se!Finir
<1>4. /\ Se!Rattache(req[q].s, req[q].noeud)
      /\ DOMAIN p = {"seance", "ordre", "noeud", "statut", "echeance"}
      /\ p.seance = req[q].s /\ p.noeud = req[q].noeud /\ p.statut = "OUVERT"
  BY DEF Se!AjouterPoint, Se!En, Se!IInv, Se!Valable
<1>5. Se!Tenu(p)
  BY <1>4 DEF Se!Tenu
<1>6. n + 1 \in 0..MaxPoints /\ DOMAIN points' = 1..(n + 1)
  BY <1>1, <1>2, <1>3 DEF Se!Domaines
<1>7. \A i \in DOMAIN points' : Se!Tenu(points'[i])
  BY <1>3, <1>5 DEF Se!IInv
<1>8. DOMAIN req' = Requetes /\ req'[q] = Se!Libre /\ \A x \in Requetes : x # q => req'[x] = req[x]
  BY <1>3, GardeSeances DEF Se!IInv
<1> QED BY <1>3, <1>6, <1>7, <1>8, AvecPoints

LEMMA PasModifierPoint ==
    ASSUME Se!IInv, NEW o, NEW s, NEW i \in DOMAIN points, NEW ordre, NEW e,
           NEW t \in {"OUVERT", "EN_COURS", "CLOS", OMIS}, Se!ModifierPoint(o, s, i, ordre, e, t)
    PROVE  Se!IInv' /\ UNCHANGED <<seances, req>>
<1> PICK a, b, c : /\ a = Se!Saisi(ordre, points[i].ordre) /\ b = Se!Saisi(e, points[i].echeance)
                   /\ c = Se!Saisi(t, points[i].statut)
  OBVIOUS
<1> PICK p : p = points[i]
  OBVIOUS
<1> PICK y : y = [[[p EXCEPT !.ordre = a] EXCEPT !.echeance = b] EXCEPT !.statut = c]
  OBVIOUS
<1>1. /\ Se!Tenu(p) /\ DOMAIN p = {"seance", "ordre", "noeud", "statut", "echeance"}
      /\ p.statut \in {"OUVERT", "EN_COURS", "CLOS"}
  BY DEF Se!IInv, Se!Tenu
<1>2. c \in {"OUVERT", "EN_COURS", "CLOS"}
  BY <1>1 DEF Se!Saisi
<1>3. /\ DOMAIN y = {"seance", "ordre", "noeud", "statut", "echeance"}
      /\ y.seance = p.seance /\ y.noeud = p.noeud /\ y.statut = c
  BY <1>1
<1>4. Se!Tenu(y)
  BY <1>1, <1>2, <1>3 DEF Se!Tenu
<1>5. DOMAIN points' = DOMAIN points /\ points'[i] = y
      /\ \A j \in DOMAIN points : j # i => points'[j] = points[j]
  BY <1>1 DEF Se!ModifierPoint
<1>6. UNCHANGED <<seances, req>>
  BY DEF Se!ModifierPoint
<1>7. \A j \in DOMAIN points' : Se!Tenu(points'[j])
  BY <1>4, <1>5 DEF Se!IInv
<1> QED BY <1>5, <1>6, <1>7, AvecPoints DEF Se!IInv

LEMMA PasAbandonSeance ==
    ASSUME Se!IInv, NEW q \in Requetes, Se!Interrompre(q)
    PROVE  Se!IInv' /\ req'[q] = Se!Libre /\ UNCHANGED seances
<1>1. Se!Garder(q, Se!Libre) /\ UNCHANGED <<seances, points>>
  BY DEF Se!Interrompre, Se!Finir
<1>2. DOMAIN req' = Requetes /\ req'[q] = Se!Libre /\ \A x \in Requetes : x # q => req'[x] = req[x]
  BY <1>1, GardeSeances DEF Se!IInv
<1>3. Gardees
  BY <1>1 DEF Gardees
<1> QED BY <1>1, <1>2, <1>3, SansPoints, LibreSeances DEF Se!IInv

\* A step that changes neither the meetings, nor the points, nor the requests.
LEMMA PasImmobile ==
    ASSUME Se!IInv, UNCHANGED <<seances, points, req>>
    PROVE  Se!IInv'
BY SansPoints DEF Se!IInv, Gardees

LEMMA PasSeances ==
    ASSUME Se!Domaines, Se!IInv, [Se!Next]_Se!vars
    PROVE  Se!IInv'
<1>1. CASE UNCHANGED Se!vars
  BY <1>1, PasImmobile DEF Se!vars
<1>2. CASE Se!Presences
  BY <1>2, PasImmobile DEF Se!Presences, Se!AjouterParticipant, Se!RetirerParticipant
<1>3. ASSUME NEW q \in Requetes, Se!Agenda(q) PROVE Se!IInv'
  BY <1>3, PasCreerSeance, PasLireSeance, PasLirePoint, PasModifierPoint, PasModifierSeance,
     PasAjouterPoint DEF Se!Agenda
<1> QED BY <1>1, <1>2, <1>3, PasAbandonSeance DEF Se!Next

THEOREM InvarianceSeances == ASSUME Se!Domaines PROVE Se!Spec => []Se!IInv
<1>1. Se!Init => Se!IInv
  BY DepartSeances DEF Se!SInv
<1> QED BY <1>1, PasSeances, PTL DEF Se!Spec

LEMMA PosteSuivi == Se!IInv => Se!PosteDeLOperation
BY DEF Se!IInv, Se!Tenu, Se!Rattache, Se!PosteDeLOperation

\* The meeting of a point is one of an operation, and one only.
LEMMA SuiviCompte == Se!IInv => Se!SuiviAccorde
<1> SUFFICES ASSUME Se!IInv, NEW o \in Operations, NEW S, NEW a,
                    S = {s \in Seances : seances[s] # NUL /\ seances[s].operation = o},
                    a = Se!ActionsOuvertes(o)
             PROVE  /\ a.points = UNION {Se!Pv(s).ouverts : s \in S}
                    /\ a.enRetard = Se!Cardinality({i \in DOMAIN points :
                               \E s \in S : i \in DOMAIN Se!Detail(s) /\ Se!Detail(s)[i]})
                    /\ a.enRetard + a.sansEcheance <= a.total
  BY DEF Se!SuiviAccorde
<1> PICK O : O = {i \in DOMAIN points : seances[points[i].seance].operation = o
                                        /\ points[i].statut \in {"OUVERT", "EN_COURS"}}
  OBVIOUS
<1> PICK R, E : R = {i \in O : Se!EnRetard(i)} /\ E = {i \in O : points[i].echeance = NUL}
  OBVIOUS
<1>1. a = [points |-> O, total |-> Se!Cardinality(O),
           enRetard |-> Se!Cardinality(R), sansEcheance |-> Se!Cardinality(E)]
  BY DEF Se!ActionsOuvertes, Se!Suivi
<1>2. \A i \in DOMAIN points : /\ points[i].seance \in Seances /\ seances[points[i].seance] # NUL
                               /\ points[i].statut \in {"OUVERT", "EN_COURS", "CLOS"}
  BY DEF Se!IInv, Se!Tenu, Se!Rattache
<1>3. \A i \in DOMAIN points : points[i].seance \in S <=> seances[points[i].seance].operation = o
  BY <1>2
<1>4. O = UNION {Se!Pv(s).ouverts : s \in S}
  <2>1. \A s : Se!Pv(s).ouverts = {i \in DOMAIN points : points[i].seance = s /\ points[i].statut # "CLOS"}
    BY DEF Se!Pv, Se!DeLaSeance
  <2>2. \A i \in DOMAIN points : i \in O <=> points[i].seance \in S /\ points[i].statut # "CLOS"
    BY <1>2, <1>3
  <2> QED BY <2>1, <2>2
<1>5. R = {i \in DOMAIN points : \E s \in S : i \in DOMAIN Se!Detail(s) /\ Se!Detail(s)[i]}
  <2>1. \A i \in DOMAIN points : Se!EnRetard(i) => points[i].statut # "CLOS"
    BY DEF Se!EnRetard
  <2>2. \A i \in DOMAIN points, s \in S : i \in DOMAIN Se!Detail(s) /\ Se!Detail(s)[i]
                                      <=> points[i].seance = s /\ Se!EnRetard(i)
    BY DEF Se!Detail, Se!DeLaSeance
  <2>3. \A i \in DOMAIN points : i \in R <=> points[i].seance \in S /\ Se!EnRetard(i)
    BY <1>2, <1>3, <2>1
  <2>4. R \subseteq DOMAIN points
    OBVIOUS
  <2> QED BY <2>2, <2>3, <2>4
<1>6. Cardinality(R) + Cardinality(E) <= Cardinality(O) /\ Cardinality(R) \in Nat
  <2>1. PICK n \in Nat : DOMAIN points = 1..n
    BY DEF Se!IInv
  <2>2. IsFiniteSet(O)
    BY <2>1, FS_Interval, FS_Subset
  <2>3. IsFiniteSet(R) /\ IsFiniteSet(E) /\ IsFiniteSet(R \cup E) /\ R \cup E \subseteq O
    BY <2>2, FS_Subset
  <2>4. R \cap E = {}
    BY DEF Se!EnRetard
  <2>5. Cardinality(R \cup E) = Cardinality(R) + Cardinality(E)
    <3>1. Cardinality(R \cap E) = 0
      BY <2>4, FS_EmptySet
    <3>2. Cardinality(R \cup E) = Cardinality(R) + Cardinality(E) - Cardinality(R \cap E)
      BY <2>3, FS_Union
    <3>3. Cardinality(R) \in Nat /\ Cardinality(E) \in Nat
      BY <2>3, FS_CardinalityType
    <3> QED BY <3>1, <3>2, <3>3
  <2>6. Cardinality(R \cup E) <= Cardinality(O)
    BY <2>2, <2>3, FS_Subset
  <2> QED BY <2>3, <2>5, <2>6, FS_CardinalityType
<1>7. a.points = O /\ a.enRetard = Cardinality(R) /\ a.sansEcheance = Cardinality(E)
      /\ a.total = Cardinality(O)
  BY <1>1, TailleSeances
<1> QED BY <1>4, <1>5, <1>6, <1>7, TailleSeances

\* ajouterPoint, detail, redigerPv and actionsOuvertes, whatever runs at the
\* same time: a point hangs on a post of the operation of its meeting, and what
\* the meetings leave open is what the list of the operation holds.
THEOREM PointsSuivis ==
    ASSUME Se!Domaines
    PROVE  Se!Spec => [](Se!PosteDeLOperation /\ Se!SuiviAccorde)
BY PosteSuivi, SuiviCompte, InvarianceSeances, PTL

\* One request at a time: the date a request read is still there when it
\* writes.
LEMMA SerieSeances ==
    ASSUME Se!Domaines, UneALaFois, Se!SInv, [Se!Next]_Se!vars
    PROVE  Se!SInv'
<1>0. Se!IInv /\ Se!IInv'
  BY PasSeances DEF Se!SInv
<1> SUFFICES ASSUME NEW q \in Requetes PROVE Se!Actuel(req[q])'
  BY <1>0 DEF Se!SInv
<1>1. CASE UNCHANGED <<seances, req>>
  BY <1>1 DEF Se!SInv, Se!Actuel
<1>2. CASE \E p \in Requetes : req'[p] = Se!Libre
  <2>1. req'[q] = Se!Libre
    BY <1>2 DEF UneALaFois
  <2> QED BY <2>1 DEF Se!Actuel, Se!Libre
<1>3. CASE UNCHANGED seances /\ \E p \in Requetes : \E r : req'[p] = r /\ Se!Actuel(r)
  <2>1. PICK r : req'[q] = r /\ Se!Actuel(r)
    BY <1>3 DEF UneALaFois
  <2> QED BY <1>3, <2>1 DEF Se!Actuel
<1>4. CASE \E o \in Operations, s \in Seances, d \in BOOLEAN : Se!Creer(o, s, d)
  <2>1. PICK s, n : /\ s \in Seances /\ seances[s] = NUL /\ UNCHANGED req
                    /\ seances' = [seances EXCEPT ![s] = n]
    BY <1>4 DEF Se!Creer
  <2>2. req[q].etat = "seance" => seances'[req[q].s] = seances[req[q].s]
    BY <1>0, <2>1 DEF Se!IInv, Se!Valable
  <2> QED BY <2>1, <2>2 DEF Se!SInv, Se!Actuel
<1>5. CASE Se!Presences
  BY <1>1, <1>5 DEF Se!Presences, Se!AjouterParticipant, Se!RetirerParticipant
<1>6. ASSUME NEW p \in Requetes, Se!Agenda(p) \/ Se!Interrompre(p) PROVE Se!Actuel(req[q])'
  BY <1>0, <1>1, <1>2, <1>3, <1>4, <1>6, PasLireSeance, PasLirePoint, PasModifierPoint,
     PasModifierSeance, PasAjouterPoint, PasAbandonSeance DEF Se!Agenda
<1> QED BY <1>1, <1>5, <1>6 DEF Se!Next, Se!vars

THEOREM SeancesEnSerie == ASSUME Se!Domaines, UneALaFois PROVE Se!Spec => []Se!SInv
<1>1. Se!Init => Se!SInv
  BY DepartSeances
<1> QED BY <1>1, SerieSeances, PTL DEF Se!Spec

LEMMA Datee ==
    ASSUME Se!Domaines, Se!SInv, [Se!Next]_Se!vars
    PROVE  Se!TenueDatee
<1>0. Se!IInv
  BY DEF Se!SInv
<1> SUFFICES ASSUME NEW s \in Seances, seances[s] # NUL, seances[s].statut # "TENUE",
                    seances'[s].statut = "TENUE"
             PROVE  seances'[s].datee \/ \E q \in Requetes :
                       Se!En(q, "seance") /\ req[q].patch.datee = FALSE
  BY DEF Se!TenueDatee
<1>1. CASE UNCHANGED seances
  BY <1>1
<1>2. CASE \E o \in Operations, t \in Seances, d \in BOOLEAN : Se!Creer(o, t, d)
  BY <1>0, <1>2 DEF Se!Creer, Se!IInv
<1>3. ASSUME NEW q \in Requetes, Se!Modifier(q)
      PROVE  seances'[s].datee \/ (Se!En(q, "seance") /\ req[q].patch.datee = FALSE)
  <2> PICK x, a : x = seances[s] /\ a = req[q].patch
    OBVIOUS
  <2>1. Se!En(q, "seance") /\ a \in Se!Patch /\ OMIS \notin BOOLEAN
    BY <1>0, <1>3, ModifiePar DEF Se!Modifier, Se!Domaines
  <2>2. PICK y \in Se!Seance :
           /\ seances' = [seances EXCEPT ![req[q].s] = y]
           /\ y.statut # seances[req[q].s].statut => y.statut = a.statut
           /\ y.datee = IF a.datee = OMIS THEN seances[req[q].s].datee ELSE a.datee
    BY <1>0, <1>3, ModifiePar
  <2>3. s = req[q].s /\ seances'[s] = y
    BY <1>0, <2>2 DEF Se!IInv
  <2>4. a.statut = "TENUE"
    BY <2>2, <2>3
  <2>5. a.datee = TRUE \/ x.datee
    BY <2>1, <2>3, <2>4 DEF Se!SInv, Se!Actuel, Se!En
  <2>6. a.datee \in BOOLEAN \cup {OMIS}
    BY <2>1 DEF Se!Patch
  <2> QED BY <2>1, <2>2, <2>3, <2>5, <2>6
<1>4. ASSUME NEW q \in Requetes, Se!Agenda(q) \/ Se!Interrompre(q), ~Se!Modifier(q),
             ~\E o \in Operations, t \in Seances, d \in BOOLEAN : Se!Creer(o, t, d)
      PROVE  UNCHANGED seances
  BY <1>0, <1>4, PasLireSeance, PasLirePoint, PasModifierPoint, PasAjouterPoint, PasAbandonSeance
     DEF Se!Agenda
<1>5. CASE Se!Presences \/ UNCHANGED Se!vars
  BY <1>1, <1>5 DEF Se!Presences, Se!AjouterParticipant, Se!RetirerParticipant, Se!vars
<1> QED BY <1>1, <1>2, <1>3, <1>4, <1>5 DEF Se!Next

\* modifier, one request at a time: a meeting becomes held on a date, unless
\* the same request erases it.
THEOREM SeancesDatees ==
    ASSUME Se!Domaines, UneALaFois
    PROVE  Se!Spec => [][Se!TenueDatee]_Se!vars
<1>1. Se!SInv /\ [Se!Next]_Se!vars => [Se!TenueDatee]_Se!vars
  BY Datee
<1> QED BY <1>1, SeancesEnSerie, PTL DEF Se!Spec
=============================================================================
