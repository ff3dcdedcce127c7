------------------------------ MODULE Passeport ------------------------------
(***************************************************************************)
(* The equipments of the passport of one operation: typed by a person, or  *)
(* proposed by the reading of a document and then validated or rejected.   *)
(*                                                                         *)
(* A request looks at the equipment, then writes it by its identifier; the *)
(* reading of a document is two transactions with the model in between.    *)
(***************************************************************************)
EXTENDS Integers, FiniteSetsExt

CONSTANTS
    Equipements,         \* identifiers of rows
    Documents,           \* documents of the operation
    Passages,            \* passages a reading may quote
    Contenu,             \* document -> the passages it holds
    EntrepriseDe,        \* contract -> its company
    Membres,             \* who acts
    Requetes,            \* request slots
    NUL, OMIS            \* SQL NULL, field left out


VARIABLES
    documents,       \* the documents there are
    equipements,     \* identifier -> row, or NUL
    attribues,       \* identifiers drawn; none is drawn twice
    req              \* what each request in flight has read

lignes == <<equipements, attribues>>
vars == <<documents, lignes, req>>

(***************************************************************************)
(* Rows                                                                    *)
(***************************************************************************)
Contrats == DOMAIN EntrepriseDe
Entreprises == {EntrepriseDe[c] : c \in Contrats}

Equipement ==
    [statut: {"PROPOSE", "VALIDE"}, valideur: Membres \cup {NUL},
     contrat: Contrats \cup {NUL}, entreprise: Entreprises \cup {NUL},
     source: Documents \cup {NUL}, extrait: Passages \cup {NUL}]

\* What the constants stand for.
Domaines ==
    /\ Contenu \in [Documents -> SUBSET Passages]
    /\ NUL \notin Membres \cup Documents \cup Equipement

Saisie == [contrat: Contrats \cup {OMIS}, entreprise: Entreprises \cup {OMIS}]
Gestes == {"modifier", "supprimer", "valider", "rejeter"}

Requete ==
         [etat: {"libre"}]
    \cup [etat: Gestes, e: Equipements, par: Membres, saisie: Saisie]
    \cup [etat: {"lecture"}, d: Documents]
    \cup [etat: {"reponse"}, d: Documents, retenues: SUBSET Passages]

Libre == [etat |-> "libre"]
Garder(q, r) == req' = [req EXCEPT ![q] = r]
Finir(q) == Garder(q, Libre)
En(q, etat) == req[q].etat = etat

Existe(e) == equipements[e] # NUL
Saisi(valeur, avant) == IF valeur = OMIS THEN avant ELSE valeur

\* A contract named without a company brings its own.
Liens(saisie) ==
    IF saisie.contrat # OMIS /\ saisie.entreprise = OMIS
    THEN [saisie EXCEPT !.entreprise = EntrepriseDe[saisie.contrat]] ELSE saisie

Corrige(ligne, saisie) ==
    [ligne EXCEPT !.contrat = Saisi(Liens(saisie).contrat, @),
                  !.entreprise = Saisi(Liens(saisie).entreprise, @)]

(***************************************************************************)
(* What a person does                                                      *)
(***************************************************************************)
\* What a person types is validated as it is written.
Creer(e, par, saisie) ==
    /\ e \notin attribues
    /\ attribues' = attribues \cup {e}
    /\ equipements' = [equipements EXCEPT ![e] =
          Corrige([statut |-> "VALIDE", valideur |-> par, contrat |-> NUL, entreprise |-> NUL,
                   source |-> NUL, extrait |-> NUL], saisie)]
    /\ UNCHANGED <<documents, req>>

\* Mutant: the status is not looked at.
Permis_Toujours(geste, e) == TRUE

\* Only a proposal is validated or rejected.
Permis(geste, e) == geste \in {"valider", "rejeter"} => equipements[e].statut = "PROPOSE"

Lire(q, geste, e, par, saisie) ==
    /\ En(q, "libre")
    /\ Existe(e) /\ Permis(geste, e)
    /\ Garder(q, [etat |-> geste, e |-> e, par |-> par, saisie |-> saisie])
    /\ UNCHANGED <<documents, lignes>>

Modifier(q) ==
    /\ En(q, "modifier") /\ Existe(req[q].e)
    /\ equipements' = [equipements EXCEPT ![req[q].e] = Corrige(@, req[q].saisie)]
    /\ Finir(q)
    /\ UNCHANGED <<documents, attribues>>

\* Mutant: a proposal that is corrected keeps being a proposal.
Validee_Corrigee(ligne, par) == [ligne EXCEPT !.valideur = par]

Validee(ligne, par) == [ligne EXCEPT !.statut = "VALIDE", !.valideur = par]

Valider(q) ==
    /\ En(q, "valider") /\ Existe(req[q].e)
    /\ equipements' = [equipements EXCEPT ![req[q].e] =
          Validee(Corrige(@, req[q].saisie), req[q].par)]
    /\ Finir(q)
    /\ UNCHANGED <<documents, attribues>>

\* The row goes, whatever it has become since it was looked at.
Retirer(q) ==
    /\ req[q].etat \in {"supprimer", "rejeter"} /\ Existe(req[q].e)
    /\ equipements' = [equipements EXCEPT ![req[q].e] = NUL]
    /\ Finir(q)
    /\ UNCHANGED <<documents, attribues>>

(***************************************************************************)
(* What the reading of a document proposes                                 *)
(***************************************************************************)
LireDocument(q, d) ==
    /\ En(q, "libre")
    /\ d \in documents
    /\ Garder(q, [etat |-> "lecture", d |-> d])
    /\ UNCHANGED <<documents, lignes>>

\* Mutant: every answer of the model is kept.
Retenues_Toutes(d, cites) == cites

\* A quotation that is not in the document sets the proposal aside.
Retenues(d, cites) == cites \cap Contenu[d]

\* The model answers what it wants.
Repondre(q, cites) ==
    /\ En(q, "lecture")
    /\ Garder(q, [etat |-> "reponse", d |-> req[q].d, retenues |-> Retenues(req[q].d, cites)])
    /\ UNCHANGED <<documents, lignes>>

\* One row per proposal, if the document is still there to be their source.
Proposer(q) ==
    /\ En(q, "reponse")
    /\ req[q].retenues # {} => req[q].d \in documents
    /\ \E place \in [req[q].retenues -> Equipements \ attribues] :
          /\ attribues' = attribues \cup {place[x] : x \in req[q].retenues}
          /\ \A x, y \in req[q].retenues : place[x] = place[y] => x = y
          /\ equipements' = [e \in Equipements |->
                IF \E x \in req[q].retenues : place[x] = e
                THEN [statut |-> "PROPOSE", valideur |-> NUL, contrat |-> NUL,
                      entreprise |-> NUL, source |-> req[q].d,
                      extrait |-> CHOOSE x \in req[q].retenues : place[x] = e]
                ELSE equipements[e]]
    /\ Finir(q)
    /\ UNCHANGED documents

\* The source of an equipment does not hold its document back.
SupprimerDocument(d) ==
    /\ d \in documents
    /\ documents' = documents \ {d}
    /\ equipements' = [e \in Equipements |->
          IF Existe(e) /\ equipements[e].source = d
          THEN [equipements[e] EXCEPT !.source = NUL] ELSE equipements[e]]
    /\ UNCHANGED <<attribues, req>>

Interrompre(q) ==
    /\ ~En(q, "libre")
    /\ Finir(q)
    /\ UNCHANGED <<documents, lignes>>

(***************************************************************************)
(* Specification                                                           *)
(***************************************************************************)
Init ==
    /\ documents = Documents
    /\ equipements = [e \in Equipements |-> NUL]
    /\ attribues = {}
    /\ req = [q \in Requetes |-> Libre]

Next ==
    \/ \E e \in Equipements, par \in Membres, s \in Saisie : Creer(e, par, s)
    \/ \E d \in Documents : SupprimerDocument(d)
    \/ \E q \in Requetes :
         \/ \E g \in Gestes, e \in Equipements, par \in Membres, s \in Saisie : Lire(q, g, e, par, s)
         \/ Modifier(q) \/ Valider(q) \/ Retirer(q)
         \/ \E d \in Documents : LireDocument(q, d)
         \/ \E cites \in SUBSET Passages : Repondre(q, cites)
         \/ Proposer(q)
         \/ Interrompre(q)

Spec == Init /\ [][Next]_vars

(***************************************************************************)
(* Properties                                                              *)
(***************************************************************************)
TypeOK ==
    /\ documents \subseteq Documents
    /\ equipements \in [Equipements -> Equipement \cup {NUL}]
    /\ attribues \subseteq Equipements /\ \A e \in Equipements \ attribues : ~Existe(e)
    /\ req \in [Requetes -> Requete]

\* proposer, valider: with two requests at once, nothing is in the passport
\* that a person has not put there, and what the reading proposes quotes the
\* document it names.
RienDInvente ==
    \A e \in Equipements : Existe(e) =>
        LET ligne == equipements[e]
        IN /\ ligne.statut = "VALIDE" <=> ligne.valideur # NUL
           /\ ligne.statut = "PROPOSE" /\ ligne.source # NUL =>
                ligne.extrait \in Contenu[ligne.source]

\* What was retained of an answer is in the document it was asked about.
Suivi(r) == r.etat = "reponse" => r.retenues \subseteq Contenu[r.d]

IInv == TypeOK /\ RienDInvente /\ \A q \in Requetes : Suivi(req[q])

\* What is about to be validated or rejected is still a proposal.
Actuel(r) ==
    r.etat \in {"valider", "rejeter"} => Existe(r.e) /\ equipements[r.e].statut = "PROPOSE"

SInv == IInv /\ \A q \in Requetes : Actuel(req[q])

\* rejeter: one request at a time, an equipment of the passport goes when its
\* removal is asked for, never as a proposal set aside, and who validated it
\* stays.
PasDePerte ==
    \A e \in Equipements : Existe(e) /\ equipements[e].statut = "VALIDE" =>
        IF equipements'[e] = NUL
        THEN \E q \in Requetes : En(q, "supprimer") /\ req[q].e = e
        ELSE equipements'[e].valideur = equipements[e].valideur
=============================================================================
