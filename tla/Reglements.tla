------------------------------ MODULE Reglements ------------------------------
(***************************************************************************)
(* The building regulations of the communes, shared by every company, and  *)
(* the zones a model reads in them.                                        *)
(*                                                                         *)
(* A reading fetches the document, then its text, then writes; the zones   *)
(* are asked from the model between a read of the text and the write.      *)
(* Anything may run meanwhile.  A text is named by where it was read: the  *)
(* key of the file, or the link.                                           *)
(***************************************************************************)
EXTENDS Integers, FiniteSets

CONSTANTS
    Noms,            \* names of communes as typed
    Forme,           \* name -> name without its case
    Codes,           \* codes a zone may have
    MaxReglements, MaxFichiers, MaxLectures,    \* bounds
    Requetes,        \* request slots
    NUL              \* SQL NULL

VARIABLES
    communes,        \* names written
    reglements,      \* identifier -> row, or NUL
    zones,           \* rows of zones_reglement
    cles,            \* keys of storage drawn so far
    extractions,     \* answers of the model written so far
    gestes,          \* zones a person has validated, and not withdrawn since
    req              \* what each request in flight has read

vars == <<communes, reglements, zones, cles, extractions, gestes, req>>

(***************************************************************************)
(* Rows                                                                    *)
(***************************************************************************)
Ids == 1..MaxReglements
Cles == 1..MaxFichiers
Lien == 0
Textes == Cles \cup {Lien}

Reglement == [commune: Noms, lien: BOOLEAN, fichier: Cles \cup {NUL},
              texte: Textes \cup {NUL}, erreur: BOOLEAN]

\* What the constants stand for.
Domaines == /\ MaxReglements \in Nat /\ MaxFichiers \in Nat /\ MaxLectures \in Nat
            /\ DOMAIN Forme = Noms
            /\ NUL \notin Reglement

\* lecture stands for the identifier, drawn again by each extraction.
Zone == [reglement: Ids, code: Codes, lecture: 1..MaxLectures, source: Textes,
         ancrage: {"texte", "propose"}, valide: BOOLEAN]

Requete ==
         [etat: {"libre"}]
    \cup [etat: {"commune"}, nom: Noms]
    \cup [etat: {"depot"}, r: Ids, cle: Cles]
    \cup [etat: {"lecture"}, r: Ids, source: Textes]
    \cup [etat: {"zones"}, r: Ids, texte: Textes]
    \cup [etat: {"efface"}, r: Ids, texte: Textes, trouves: SUBSET Codes,
          vues: SUBSET Zone]

Libre == [etat |-> "libre"]
Garder(q, r) == req' = [req EXCEPT ![q] = r]
Finir(q) == Garder(q, Libre)
En(q, etat) == req[q].etat = etat

Presents == {r \in Ids : reglements[r] # NUL}
ZonesDe(r) == {z \in zones : z.reglement = r}
Cle(z) == <<z.reglement, z.code, z.lecture>>

(***************************************************************************)
(* Communes and regulations                                                *)
(***************************************************************************)
\* A commune is looked for whatever its case, then written as typed; the
\* unique key compares what was typed.  Forme is what mode 'insensitive'
\* compares: the name in lower case, its accents kept, although the comment
\* of the code says the accents go too.
ChercherCommune(q, nom) ==
    /\ En(q, "libre")
    /\ \A c \in communes : Forme[c] # Forme[nom]
    /\ Garder(q, [etat |-> "commune", nom |-> nom])
    /\ UNCHANGED <<communes, reglements, zones, cles, extractions, gestes>>

CreerCommune(q) ==
    /\ En(q, "commune")
    /\ req[q].nom \notin communes
    /\ communes' = communes \cup {req[q].nom}
    /\ Finir(q)
    /\ UNCHANGED <<reglements, zones, cles, extractions, gestes>>

\* A regulation comes with a link; its file is deposited by another request.
Enregistrer(c) ==
    /\ c \in communes
    /\ \E r \in Ids \ Presents :
          /\ \A s \in Ids \ Presents : r <= s
          /\ reglements' = [reglements EXCEPT ![r] =
                [commune |-> c, lien |-> TRUE, fichier |-> NUL, texte |-> NUL, erreur |-> FALSE]]
    /\ UNCHANGED <<communes, zones, cles, extractions, gestes, req>>

\* The file is stored under a key of its own, then the row is written.
Stocker(q, r) ==
    /\ En(q, "libre")
    /\ r \in Presents
    /\ cles < MaxFichiers
    /\ cles' = cles + 1
    /\ Garder(q, [etat |-> "depot", r |-> r, cle |-> cles + 1])
    /\ UNCHANGED <<communes, reglements, zones, extractions, gestes>>

\* Mutant: the text of the previous file stays.
AvecFichier_TexteGarde(ligne, cle) == [ligne EXCEPT !.fichier = cle, !.erreur = FALSE]

\* A new file forgets the text of the one it replaces.
AvecFichier(ligne, cle) == [ligne EXCEPT !.fichier = cle, !.texte = NUL, !.erreur = FALSE]

DeposerFichier(q) ==
    /\ En(q, "depot")
    /\ reglements' = [reglements EXCEPT ![req[q].r] = AvecFichier(@, req[q].cle)]
    /\ Finir(q)
    /\ UNCHANGED <<communes, zones, cles, extractions, gestes>>

(***************************************************************************)
(* Reading                                                                 *)
(***************************************************************************)
Source(ligne) == IF ligne.fichier # NUL THEN ligne.fichier ELSE Lien

LireReglement(q, r) ==
    /\ En(q, "libre")
    /\ r \in Presents
    /\ reglements[r].fichier # NUL \/ reglements[r].lien
    /\ Garder(q, [etat |-> "lecture", r |-> r, source |-> Source(reglements[r])])
    /\ UNCHANGED <<communes, reglements, zones, cles, extractions, gestes>>

\* The text came; it is written whatever the row has become.
AvecTexte(ligne, source) == [ligne EXCEPT !.texte = source, !.erreur = FALSE]

EcrireTexte(q) ==
    /\ En(q, "lecture")
    /\ reglements' = [reglements EXCEPT ![req[q].r] = AvecTexte(@, req[q].source)]
    /\ Finir(q)
    /\ UNCHANGED <<communes, zones, cles, extractions, gestes>>

\* No document, or almost no text: only the error is written.
EcrireErreur(q) ==
    /\ En(q, "lecture")
    /\ reglements' = [reglements EXCEPT ![req[q].r].erreur = TRUE]
    /\ Finir(q)
    /\ UNCHANGED <<communes, zones, cles, extractions, gestes>>

(***************************************************************************)
(* Zones                                                                   *)
(***************************************************************************)
LireTexte(q, r) ==
    /\ En(q, "libre")
    /\ r \in Presents
    /\ reglements[r].texte # NUL
    /\ Garder(q, [etat |-> "zones", r |-> r, texte |-> reglements[r].texte])
    /\ UNCHANGED <<communes, reglements, zones, cles, extractions, gestes>>

\* Mutant: an answer only replaces the codes it found again.
Remplacees_ParCode(r, trouves) == {z \in ZonesDe(r) : z.code \in trouves}

\* The rows the answer takes the place of: all those the transaction sees.
Remplacees(r, trouves) == ZonesDe(r)

\* Mutant: a code that was validated stays validated.
Lue_Gardee(q, code, cites) ==
    [reglement |-> req[q].r, code |-> code, lecture |-> extractions + 1,
     source |-> req[q].texte, ancrage |-> IF code \in cites THEN "texte" ELSE "propose",
     valide |-> \E z \in req[q].vues : z.code = code /\ z.valide]

\* A zone of the answer waits for a person; its anchor says whether the
\* quotation was found in the text.
Lue(q, code, cites) ==
    [reglement |-> req[q].r, code |-> code, lecture |-> extractions + 1,
     source |-> req[q].texte, ancrage |-> IF code \in cites THEN "texte" ELSE "propose",
     valide |-> FALSE]

\* The deletion runs before the writes of the same transaction: it does not
\* see the zones another one has not committed.
EffacerZones(q, trouves) ==
    /\ En(q, "zones")
    /\ Garder(q, [etat |-> "efface", r |-> req[q].r, texte |-> req[q].texte,
                  trouves |-> trouves, vues |-> Remplacees(req[q].r, trouves)])
    /\ UNCHANGED <<communes, reglements, zones, cles, extractions, gestes>>

\* Two zones of one code are refused by the unique key.
EcrireZones(q, cites) ==
    /\ En(q, "efface")
    /\ extractions < MaxLectures
    /\ \A z \in ZonesDe(req[q].r) \ req[q].vues : z.code \notin req[q].trouves
    /\ extractions' = extractions + 1
    /\ zones' = (zones \ req[q].vues) \cup {Lue(q, c, cites) : c \in req[q].trouves}
    /\ gestes' = gestes \ {Cle(z) : z \in req[q].vues}
    /\ Finir(q)
    /\ UNCHANGED <<communes, reglements, cles>>

\* The gesture of a person on one zone, by its identifier; it waits for a
\* transaction that is removing the row.
ValiderZone(z, valide) ==
    /\ z \in zones
    /\ \A q \in Requetes : En(q, "efface") => z \notin req[q].vues
    /\ zones' = (zones \ {z}) \cup {[z EXCEPT !.valide = valide]}
    /\ gestes' = IF valide THEN gestes \cup {Cle(z)} ELSE gestes \ {Cle(z)}
    /\ UNCHANGED <<communes, reglements, cles, extractions, req>>

\* zonePourAffectation: only what a person validated reaches a parcel.
Applicables(c) == {z \in zones : reglements[z.reglement].commune = c /\ z.valide}

Interrompre(q) ==
    /\ ~En(q, "libre")
    /\ Finir(q)
    /\ UNCHANGED <<communes, reglements, zones, cles, extractions, gestes>>

(***************************************************************************)
(* Specification                                                           *)
(***************************************************************************)
Init ==
    /\ communes = {}
    /\ reglements = [r \in Ids |-> NUL]
    /\ zones = {}
    /\ cles = 0
    /\ extractions = 0
    /\ gestes = {}
    /\ req = [q \in Requetes |-> Libre]

Next ==
    \/ \E c \in Noms : Enregistrer(c)
    \/ \E z \in zones, valide \in BOOLEAN : ValiderZone(z, valide)
    \/ \E q \in Requetes :
         \/ \E nom \in Noms : ChercherCommune(q, nom)
         \/ CreerCommune(q)
         \/ \E r \in Ids : Stocker(q, r) \/ LireReglement(q, r) \/ LireTexte(q, r)
         \/ DeposerFichier(q)
         \/ EcrireTexte(q)
         \/ EcrireErreur(q)
         \/ \E trouves \in SUBSET Codes : EffacerZones(q, trouves)
         \/ \E cites \in SUBSET Codes : EcrireZones(q, cites)
         \/ Interrompre(q)

Spec == Init /\ [][Next]_vars

(***************************************************************************)
(* Properties                                                              *)
(***************************************************************************)
TypeOK ==
    /\ communes \subseteq Noms
    /\ reglements \in [Ids -> Reglement \cup {NUL}]
    /\ zones \subseteq Zone
    /\ cles \in 0..MaxFichiers
    /\ extractions \in 0..MaxLectures
    /\ gestes \subseteq Ids \X Codes \X (1..MaxLectures)
    /\ req \in [Requetes -> Requete]

\* ReglementsService.trouverOuCreerCommune: one request at a time, one
\* commune per name whatever its case; two names that differ by an accent are
\* two communes.
CommuneUnique == \A c, d \in communes : Forme[c] = Forme[d] => c = d

\* deposerFichier and lire: one request at a time, the text of a regulation is
\* the one of the file it shows.
TexteDuFichier ==
    \A r \in Presents : reglements[r].fichier # NUL /\ reglements[r].texte # NUL
                        => reglements[r].texte = reglements[r].fichier

\* extraireZones, "une relecture remplace": one request at a time, the zones
\* of a regulation come from one answer on one text.
UneLecture ==
    \A z, t \in zones : z.reglement = t.reglement
                        => z.lecture = t.lecture /\ z.source = t.source

\* validerZone: even with two requests at once, what reaches a parcel was
\* validated by a person since it was last read.
ZoneValidee == \A c \in communes : \A z \in Applicables(c) : Cle(z) \in gestes

\* The regulation a request works on is there; the zones it takes the place of
\* are as it saw them, or gone.
Suivi(r) ==
    /\ r.etat \in {"depot", "lecture", "zones", "efface"} => r.r \in Presents
    /\ r.etat = "efface" => \A v \in r.vues :
          v.lecture <= extractions /\ \A z \in zones : Cle(z) = Cle(v) => z = v

IInv ==
    /\ TypeOK
    /\ \A z \in zones : z.lecture <= extractions /\ (z.valide => Cle(z) \in gestes)
    /\ \A z, t \in zones : Cle(z) = Cle(t) => z = t
    /\ \A q \in Requetes : Suivi(req[q])

\* What was looked for is still what would be found.
Actuel(r) ==
    /\ r.etat = "commune" => \A c \in communes : Forme[c] # Forme[r.nom]
    /\ r.etat = "lecture" => r.source = Source(reglements[r.r])
    /\ r.etat = "efface" => ZonesDe(r.r) \subseteq r.vues

SInv == IInv /\ CommuneUnique /\ TexteDuFichier /\ UneLecture
        /\ \A q \in Requetes : Actuel(req[q])
=============================================================================
