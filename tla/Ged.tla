--------------------------------- MODULE Ged ---------------------------------
(***************************************************************************)
(* The documents of one operation: each is a chain of versions whose files *)
(* are kept outside the database.                                          *)
(*                                                                         *)
(* A request checks, writes its file, then its row, in three steps between *)
(* which anything may run or the process may stop.  Nothing in the schema  *)
(* makes the number of a version or the current one unique.                *)
(***************************************************************************)
EXTENDS Integers, FiniteSetsExt

CONSTANTS
    MaxDocuments,    \* bound: rows written
    Requetes,        \* request slots
    NUL              \* SQL NULL

Numeros == 1..MaxDocuments

VARIABLES
    documents,       \* identifier -> row, or NUL
    deposes,         \* rows written so far
    cles,            \* keys of storage drawn so far
    fichiers,        \* files in the storage
    req              \* what each request in flight has read

vars == <<documents, deposes, cles, fichiers, req>>

(***************************************************************************)
(* Rows                                                                    *)
(***************************************************************************)
Cles == 1..MaxDocuments + 1
Document == [parent: Numeros \cup {NUL}, version: 1..MaxDocuments + 1, courant: BOOLEAN,
             fichier: Cles, nature: {"piece", "pv", "redige"}]

Domaines == MaxDocuments \in Nat /\ NUL \notin Nat \cup Document

Requete ==
         [etat: {"libre"}]
    \cup [etat: {"pv"}, d: Numeros \cup {NUL}]
    \cup [etat: {"depot"}, nature: {"piece", "pv", "redige"}]
    \cup [etat: {"depose"}, nature: {"piece", "pv", "redige"}, fichier: Cles]
    \cup [etat: {"version"}, racine: Numeros, nature: {"piece", "pv"}, lue: Nat]
    \cup [etat: {"stockee"}, racine: Numeros, nature: {"piece", "pv"}, lue: Nat, fichier: Cles]
    \cup [etat: {"numero"}, racine: Numeros, nature: {"piece", "pv"}, version: Nat,
          chaine: SUBSET Numeros, fichier: Cles]
    \cup [etat: {"suppression"}, d: Numeros, fichier: Cles]
    \cup [etat: {"effacement"}, fichier: Cles]

Libre == [etat |-> "libre"]

Garder(q, r) == req' = [req EXCEPT ![q] = r]
Finir(q) == Garder(q, Libre)
En(q, etat) == req[q].etat = etat

Presents == {d \in Numeros : documents[d] # NUL}
Enfants(d) == {e \in Presents : documents[e].parent = d}
Racines == {d \in Presents : documents[d].parent = NUL}
Chaine(d) == (Presents \cap {d}) \cup Enfants(d)
\* The minutes of the meeting, deposited by hand or drawn up by the server.
Pvs == {d \in Presents : documents[d].nature # "piece"}
\* A version keeps the category and the meeting of the row it follows.
NatureDe(d) == IF documents[d].nature = "piece" THEN "piece" ELSE "pv"

\* StockageService.deposer: a key of its own for each file.
Stocker ==
    /\ cles < MaxDocuments + 1
    /\ cles' = cles + 1
    /\ fichiers' = fichiers \cup {cles + 1}

Ecrire(ligne, courants) ==
    /\ deposes < MaxDocuments
    /\ deposes' = deposes + 1
    /\ documents' = [d \in Numeros |->
           IF d = deposes + 1 THEN ligne
           ELSE IF d \in courants \cap Presents THEN [documents[d] EXCEPT !.courant = FALSE]
           ELSE documents[d]]

(***************************************************************************)
(* Deposits                                                                *)
(***************************************************************************)
LireDepot(q, nature) ==
    /\ En(q, "libre")
    /\ Garder(q, [etat |-> "depot", nature |-> nature])
    /\ UNCHANGED <<documents, deposes, cles, fichiers>>

StockerDepot(q) ==
    /\ En(q, "depot")
    /\ Stocker
    /\ Garder(q, [etat |-> "depose", nature |-> req[q].nature, fichier |-> cles + 1])
    /\ UNCHANGED <<documents, deposes>>

Deposer(q) ==
    /\ En(q, "depose")
    /\ Ecrire([parent |-> NUL, version |-> 1, courant |-> TRUE, fichier |-> req[q].fichier,
               nature |-> req[q].nature], {})
    /\ Finir(q)
    /\ UNCHANGED <<cles, fichiers>>

\* Mutant: the version hangs on the document that was shown.
LireVersion_Maillon(q, d) ==
    /\ En(q, "libre")
    /\ documents[d] # NUL
    /\ Garder(q, [etat |-> "version", racine |-> d, nature |-> NatureDe(d),
                  lue |-> documents[d].version])
    /\ UNCHANGED <<documents, deposes, cles, fichiers>>

\* A version hangs on the root of the chain, never on a link of it.
LireVersion(q, d) ==
    /\ En(q, "libre")
    /\ documents[d] # NUL
    /\ Garder(q, [etat |-> "version",
                  racine |-> IF documents[d].parent = NUL THEN d ELSE documents[d].parent,
                  nature |-> NatureDe(d), lue |-> documents[d].version])
    /\ UNCHANGED <<documents, deposes, cles, fichiers>>

StockerVersion(q) ==
    /\ En(q, "version")
    /\ Stocker
    /\ Garder(q, [etat |-> "stockee", racine |-> req[q].racine, nature |-> req[q].nature,
                  lue |-> req[q].lue, fichier |-> cles + 1])
    /\ UNCHANGED <<documents, deposes>>

\* The highest number of the chain, and the rows the update will find.
Numeroter(q) ==
    LET r == req[q]
        chaine == Chaine(r.racine)
    IN /\ En(q, "stockee")
       /\ Garder(q, [etat |-> "numero", racine |-> r.racine, nature |-> r.nature,
                     chaine |-> chaine,
                     version |-> IF chaine = {} THEN r.lue + 1
                                 ELSE Max({documents[d].version : d \in chaine}) + 1,
                     fichier |-> r.fichier])
       /\ UNCHANGED <<documents, deposes, cles, fichiers>>

\* The rows of the chain stop being current, as they were found or as they
\* are now, and the new one is.  The root must still be there.
DeposerVersion(q) ==
    LET r == req[q]
    IN /\ En(q, "numero")
       /\ documents[r.racine] # NUL
       /\ \E vues \in {r.chaine, Chaine(r.racine)} :
             Ecrire([parent |-> r.racine, version |-> r.version, courant |-> TRUE,
                     fichier |-> r.fichier, nature |-> r.nature], vues)
       /\ Finir(q)
       /\ UNCHANGED <<cles, fichiers>>

(***************************************************************************)
(* SeancesService.genererPv                                                *)
(***************************************************************************)
\* Mutant: only the minutes that were drawn up count.
LirePv_Rediges(q) ==
    LET anciens == {d \in Pvs : documents[d].nature = "redige"}
    IN /\ En(q, "libre")
       /\ \E d \in IF anciens = {} THEN {NUL} ELSE anciens :
             Garder(q, [etat |-> "pv", d |-> d])
       /\ UNCHANGED <<documents, deposes, cles, fichiers>>

\* The minutes of the meeting, a row of the highest version first.
LirePv(q) ==
    LET derniers == {d \in Pvs : \A e \in Pvs : documents[e].version <= documents[d].version}
    IN /\ En(q, "libre")
       /\ \E d \in IF Pvs = {} THEN {NUL} ELSE derniers :
             Garder(q, [etat |-> "pv", d |-> d])
       /\ UNCHANGED <<documents, deposes, cles, fichiers>>

\* The minutes go through the deposits above: a document, or a version.
RedigerPv(q) ==
    LET r == req[q]
    IN /\ En(q, "pv")
       /\ IF r.d = NUL THEN Garder(q, [etat |-> "depot", nature |-> "redige"])
          ELSE /\ documents[r.d] # NUL
               /\ Garder(q, [etat |-> "version", nature |-> NatureDe(r.d),
                             racine |-> IF documents[r.d].parent = NUL THEN r.d
                                        ELSE documents[r.d].parent,
                             lue |-> documents[r.d].version])
       /\ UNCHANGED <<documents, deposes, cles, fichiers>>

(***************************************************************************)
(* Removal                                                                 *)
(***************************************************************************)
\* Neither a version nor a document that has some.
LireSuppression(q, d) ==
    /\ En(q, "libre")
    /\ d \in Racines /\ Enfants(d) = {}
    /\ Garder(q, [etat |-> "suppression", d |-> d, fichier |-> documents[d].fichier])
    /\ UNCHANGED <<documents, deposes, cles, fichiers>>

\* A version deposited meanwhile loses its parent.
Supprimer(q) ==
    LET r == req[q]
    IN /\ En(q, "suppression")
       /\ documents[r.d] # NUL
       /\ documents' = [d \in Numeros |->
              IF d = r.d THEN NUL
              ELSE IF d \in Enfants(r.d) THEN [documents[d] EXCEPT !.parent = NUL]
              ELSE documents[d]]
       /\ Garder(q, [etat |-> "effacement", fichier |-> r.fichier])
       /\ UNCHANGED <<deposes, cles, fichiers>>

\* The file goes once the row is gone.
Effacer(q) ==
    /\ En(q, "effacement")
    /\ fichiers' = fichiers \ {req[q].fichier}
    /\ Finir(q)
    /\ UNCHANGED <<documents, deposes, cles>>

\* A refusal or a crash: a file may remain that no row names.
Interrompre(q) ==
    /\ ~En(q, "libre")
    /\ Finir(q)
    /\ UNCHANGED <<documents, deposes, cles, fichiers>>

(***************************************************************************)
(* Specification                                                           *)
(***************************************************************************)
Init ==
    /\ documents = [d \in Numeros |-> NUL]
    /\ deposes = 0 /\ cles = 0 /\ fichiers = {}
    /\ req = [q \in Requetes |-> Libre]

Traitement(q) ==
    \/ \E nature \in {"piece", "pv"} : LireDepot(q, nature)
    \/ LirePv(q) \/ RedigerPv(q)
    \/ StockerDepot(q) \/ Deposer(q)
    \/ \E d \in Numeros : LireVersion(q, d) \/ LireSuppression(q, d)
    \/ StockerVersion(q) \/ Numeroter(q) \/ DeposerVersion(q)
    \/ Supprimer(q) \/ Effacer(q)
    \/ Interrompre(q)

Next == \E q \in Requetes : Traitement(q)

Spec == Init /\ [][Next]_vars

(***************************************************************************)
(* Properties                                                              *)
(***************************************************************************)
\* Every row and every request in flight has its shape.
TypeOK ==
    /\ documents \in [Numeros -> Document \cup {NUL}]
    /\ deposes \in 0..MaxDocuments /\ cles \in 0..MaxDocuments + 1
    /\ fichiers \subseteq 1..cles
    /\ req \in [Requetes -> Requete]

\* deposer, supprimer: "on valide d'abord, on ecrit le fichier ensuite, on
\* enregistre la fiche en dernier", and the file goes after the commit.  No
\* row ever names a file that is not there, and no two rows the same one,
\* whatever runs at once and wherever the process stops.
FichePresente ==
    /\ \A d \in Presents : documents[d].fichier \in fichiers
    /\ \A d, e \in Presents : documents[d].fichier = documents[e].fichier => d = e

\* deposerVersion: "sinon les versions formeraient un arbre".  One request at
\* a time, a document is one chain, numbered without a hole, and its last
\* version alone is current.
ChaineSuivie ==
    \A d \in Presents :
        /\ documents[d].parent # NUL => documents[d].parent \in Racines
        /\ d \in Racines =>
              /\ {documents[e].version : e \in Chaine(d)} = 1..Cardinality(Chaine(d))
              /\ \A e \in Chaine(d) :
                    documents[e].courant <=> documents[e].version = Cardinality(Chaine(d))

\* genererPv: drawing the minutes up again deposits "une nouvelle version,
\* jamais un second document".  One request at a time, minutes drawn up make
\* a document of their own only when the meeting has none.
PvSansSecond ==
    \A d \in Presents : documents[d].nature = "redige" => \A e \in Pvs : e >= d

(***************************************************************************)
(* The inductive invariant behind FichePresente, and the one ChaineSuivie  *)
(* and PvSansSecond need besides, one request at a time                    *)
(***************************************************************************)
\* A file that waits for its row.
Tient(r) == r.etat \in {"depose", "stockee", "numero"}
Nomme(f) == \E d \in Presents : documents[d].fichier = f

\* A number that was read has been given.  A file that waits, or is about to
\* go, is that of no row; the row to be removed keeps its file.
Suivi(r) ==
    /\ r.etat \in {"version", "stockee"} => r.lue <= deposes
    /\ r.etat = "numero" => r.version \in 1..deposes + 1
    /\ Tient(r) => r.fichier \in fichiers /\ ~Nomme(r.fichier)
    /\ r.etat = "effacement" => r.fichier <= cles /\ ~Nomme(r.fichier)
    /\ r.etat = "suppression" =>
          /\ r.d <= deposes /\ r.fichier <= cles
          /\ r.d \in Presents => documents[r.d].fichier = r.fichier

IInv ==
    /\ TypeOK /\ FichePresente
    /\ \A d \in Presents : d <= deposes /\ documents[d].version <= deposes
    /\ \A q \in Requetes : Suivi(req[q])
    /\ \A p, q \in Requetes :
          p # q /\ Tient(req[p]) /\ (Tient(req[q]) \/ En(q, "effacement"))
             => req[p].fichier # req[q].fichier

\* What was read of the chain, of the minutes and of the root is still so.
Actuel(r) ==
    /\ r.etat \in {"version", "stockee", "numero"} => r.racine \in Racines
    /\ r.etat = "numero" => /\ r.chaine = Chaine(r.racine)
                            /\ r.version = Cardinality(r.chaine) + 1
    /\ \/ r.etat = "pv" /\ r.d = NUL
       \/ r.etat \in {"depot", "depose"} /\ r.nature = "redige"
       => Pvs = {}
    /\ r.etat = "suppression" => r.d \in Racines /\ Enfants(r.d) = {}

SInv == IInv /\ ChaineSuivie /\ PvSansSecond /\ \A q \in Requetes : Actuel(req[q])
=============================================================================
