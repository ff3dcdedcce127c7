---------------------------- MODULE Consultations ----------------------------
(***************************************************************************)
(* Who sees what of a tender: the invited companies in their space, the    *)
(* promoter in the comparison and among the documents, and what each may   *)
(* do to the pieces.  Pure functions of the rows read, a record            *)
(*   [soumission, invitations, offres, documents, questions]               *)
(* where invitations and offres are functions of the companies (NUL: no    *)
(* bid).  A piece is attached to the tender (dossier), to the bid of a     *)
(* company (offre), or to both; autre is an attachment to an object of     *)
(* another operation.                                                      *)
(***************************************************************************)
EXTENDS Integers, Sequences, FiniteSets, SequencesExt, FiniteSetsExt

CONSTANTS NUL

Sinon(x, y) == IF x # NUL THEN x ELSE y

(***************************************************************************)
(* Open and sealed                                                         *)
(***************************************************************************)
DepotOuvert(s, i, maintenant) ==
    /\ ~i.revoquee /\ ~i.refusee
    /\ s.statut \in {"ENVOYEE", "OUVERTE"}
    /\ s.dateLimite # NUL => s.dateLimite > maintenant

OffreScellee(s, o, maintenant) ==
    /\ o.source = "PORTAIL" /\ s.scellees
    /\ s.dateLimite # NUL /\ s.dateLimite > maintenant

Scellee(b, e, maintenant) ==
    b.offres[e] # NUL /\ OffreScellee(b.soumission, b.offres[e], maintenant)

\* Mutant: a tender without a deadline hides what was deposited.
HorsPlisScelles_SansDate(b, d, maintenant) ==
    \/ d.offre = NUL \/ b.offres[d.offre].source # "PORTAIL"
    \/ ~b.soumission.scellees
    \/ (b.soumission.dateLimite # NUL /\ b.soumission.dateLimite <= maintenant)

\* The same rule, as a filter on the documents.
HorsPlisScelles(b, d, maintenant) ==
    \/ d.offre = NUL \/ b.offres[d.offre].source # "PORTAIL"
    \/ ~b.soumission.scellees
    \/ b.soumission.dateLimite = NUL
    \/ (b.soumission.dateLimite # NUL /\ b.soumission.dateLimite <= maintenant)

(***************************************************************************)
(* The space of a company                                                  *)
(***************************************************************************)
Fiche(d) == [id |-> d.id, contenu |-> d.contenu]

\* Mutant: the mark the promoter put on the bid is shown at once.
StatutMontre_Aussitot(b, o) == o.statut

\* Kept or left out is said only once the tender is awarded.
StatutMontre(b, o) ==
    IF o.statut \in {"RETENUE", "ECARTEE"} /\ b.soumission.statut = "ADJUGEE"
    THEN o.statut ELSE "RECUE"

PiecesDOffre(b, e) == {d \in b.documents : d.offre = e /\ d.courant}

\* Mutant: every question with its answer.
Questions_Toutes(b, e) == b.questions

\* The questions published, and one's own.
Questions(b, e) == {q \in b.questions : q.publiee \/ q.auteur = e}

Dossier(b, e, maintenant) ==
    [soumission |-> b.soumission,
     depotOuvert |-> DepotOuvert(b.soumission, b.invitations[e], maintenant),
     documents |-> {Fiche(d) : d \in {x \in b.documents :
                        x.dossier /\ x.offre = NUL /\ x.visible /\ x.courant}},
     questions |-> {[id |-> q.id, question |-> q.question, publiee |-> q.publiee,
                     reponse |-> q.reponse, mienne |-> q.auteur = e] : q \in Questions(b, e)},
     offre |-> IF b.offres[e] = NUL THEN NUL
               ELSE [montant |-> b.offres[e].montant, statut |-> StatutMontre(b, b.offres[e]),
                     lignes |-> b.offres[e].lignes,
                     documents |-> {Fiche(d) : d \in PiecesDOffre(b, e)}]]

\* Mutant: a former version is handed out too.
Telechargeables_Anciens(b, e) ==
    {d \in b.documents : d.dossier /\ ((d.offre = NUL /\ d.visible) \/ d.offre = e)}

\* What the download of a piece hands out.
Telechargeables(b, e) ==
    {d \in b.documents : d.courant /\ d.dossier /\ ((d.offre = NUL /\ d.visible) \/ d.offre = e)}

(***************************************************************************)
(* What the promoter sees                                                  *)
(***************************************************************************)
Nets(b, E) == {b.offres[e].montant : e \in {x \in E : b.offres[x].montant # NUL
                                                     /\ b.offres[x].statut # "ECARTEE"}}

\* Mutant: the lowest bid is looked for among all of them.
Lues_Toutes(b, maintenant) == {e \in DOMAIN b.offres : b.offres[e] # NUL}

\* The bids that can be read.
Lues(b, maintenant) ==
    {e \in DOMAIN b.offres : b.offres[e] # NUL /\ ~Scellee(b, e, maintenant)}

\* The comparison: a sealed bid has its line, and nothing on it.
Comparaison(b, maintenant) ==
    LET nets == Nets(b, Lues(b, maintenant))
        moindre == IF nets = {} THEN NUL ELSE Min(nets)
        ligne(e) == LET o == b.offres[e] IN
            IF Scellee(b, e, maintenant)
            THEN [scellee |-> TRUE, montant |-> NUL, lignes |-> {}, documents |-> {},
                  rang |-> NUL, ecart |-> NUL, statut |-> o.statut]
            ELSE [scellee |-> FALSE, montant |-> o.montant, lignes |-> o.lignes,
                  documents |-> {Fiche(d) : d \in PiecesDOffre(b, e)},
                  rang |-> IF o.montant = NUL THEN NUL
                           ELSE 1 + Cardinality({n \in nets : n < o.montant}),
                  ecart |-> IF o.montant = NUL \/ moindre = NUL THEN NUL ELSE o.montant - moindre,
                  statut |-> o.statut]
    IN [offres |-> [e \in {x \in DOMAIN b.offres : b.offres[x] # NUL} |-> ligne(e)],
        moinsDisant |-> moindre,
        adjudicable |-> \A e \in DOMAIN b.offres : ~Scellee(b, e, maintenant)]

\* GedService.lister and telecharger: current versions, or all of them.
Lister(b, toutes, maintenant) ==
    {Fiche(d) : d \in {x \in b.documents :
        (toutes \/ x.courant) /\ HorsPlisScelles(b, x, maintenant)}}

\* offreDeLaSoumission: a bid that may be marked or given to the model to read.
Lisibles(b, maintenant) == {e \in DOMAIN b.offres : b.offres[e] # NUL /\ ~Scellee(b, e, maintenant)}

\* What the model says of a bid is kept where the document says it word for
\* word; a value with a NUL quotation is one the model did not find.
LireOffre(lue, source) ==
    LET cite(v) == v.valeur # NUL /\ v.extrait # NUL /\ v.extrait \in source
        lignes == SelectSeq(lue.lignes, cite)
    IN [montant |-> IF cite(lue.montant) THEN lue.montant.valeur ELSE NUL,
        remise |-> IF cite(lue.remise) THEN lue.remise.valeur ELSE NUL,
        lignes |-> lignes,
        ecartees |-> Len(lue.lignes) - Len(lignes)
                     + Cardinality({c \in {"montant", "remise"} :
                                        lue[c].valeur # NUL /\ ~cite(lue[c])})]

(***************************************************************************)
(* Answers                                                                 *)
(***************************************************************************)
\* Everyone who was sent a link and has neither declined nor been revoked.
Destinataires(b) ==
    {e \in DOMAIN b.invitations : LET i == b.invitations[e] IN
        i.lien /\ ~i.revoquee /\ ~i.refusee /\ i.email}

\* Mutant: an answer kept to its author takes back one that was published.
Publiee_Selon(q, publier) == publier

Publiee(q, publier) == publier \/ q.publiee

\* The tender after the answer, and what leaves for whom.
Repondre(b, q, reponse, publier) ==
    [apres |-> [b EXCEPT !.questions = (@ \ {q})
                    \cup {[q EXCEPT !.reponse = reponse, !.publiee = Publiee(q, publier)]}],
     envois |-> IF publier
                THEN [e \in Destinataires(b) |-> [question |-> q.question, reponse |-> reponse]]
                ELSE <<>>]

(***************************************************************************)
(* What the promoter may do to the pieces                                  *)
(***************************************************************************)
Deposee(b, d) == d.offre # NUL /\ b.offres[d.offre].source = "PORTAIL"

\* Mutant: any bid of the operation will do.
VerifierRattachements_TouteOffre(b, d) == ~d.autre /\ (d.offre # NUL => b.offres[d.offre] # NUL)

\* Every object named is of the operation, and a bid is one the promoter typed.
VerifierRattachements(b, d) ==
    /\ ~d.autre
    /\ d.offre # NUL => b.offres[d.offre] # NUL /\ b.offres[d.offre].source = "SAISIE"

Deposer(b, d) ==
    IF VerifierRattachements(b, d) THEN {[b EXCEPT !.documents = @ \cup {d}]} ELSE {}

\* A version replaces no piece of a bid; d is the current one of its chain
\* (module Ged follows the chain).
DeposerVersion(b, d, nouveau) ==
    IF ~d.courant \/ d.offre # NUL THEN {}
    ELSE {[b EXCEPT !.documents = (@ \ {d})
              \cup {[d EXCEPT !.courant = FALSE],
                    [d EXCEPT !.id = nouveau.id, !.contenu = nouveau.contenu]}]}

Modifier(b, d) ==
    IF Deposee(b, d) THEN {}
    ELSE {[b EXCEPT !.documents = (@ \ {d}) \cup {[d EXCEPT !.visible = ~@]}]}

Supprimer(b, d) == IF Deposee(b, d) THEN {} ELSE {[b EXCEPT !.documents = @ \ {d}]}

Gestes(b, nouveau) ==
    Deposer(b, nouveau)
    \cup UNION {DeposerVersion(b, d, nouveau) \cup Modifier(b, d) \cup Supprimer(b, d) :
                d \in b.documents}

(***************************************************************************)
(* Properties                                                              *)
(***************************************************************************)
\* b with another content in the bid of e: amount, lines and pieces.
Autrement(b, e, montant) ==
    [b EXCEPT !.offres[e].montant = montant, !.offres[e].lignes = {montant},
              !.documents = {IF d.offre = e THEN [d EXCEPT !.contenu = montant] ELSE d : d \in @}]

\* As long as a bid is sealed, nothing the promoter is shown depends on what it
\* holds: neither the comparison, the ranks and gaps of the other bids, nor the
\* list of the documents; and it is neither marked nor read by the model.
PliOpaque(bases, montants, maintenant) ==
    \A b \in bases : \A e \in {x \in DOMAIN b.offres : Scellee(b, x, maintenant)} :
        /\ e \notin Lisibles(b, maintenant)
        /\ ~Comparaison(b, maintenant).adjudicable
        /\ \A m \in montants : LET c == Autrement(b, e, m) IN
               /\ Comparaison(c, maintenant) = Comparaison(b, maintenant)
               /\ \A toutes \in BOOLEAN :
                      Lister(c, toutes, maintenant) = Lister(b, toutes, maintenant)

\* The documents and the comparison agree on what is sealed: a piece is kept
\* out of the list exactly as long as its bid is.
ScelleUnique(bases, maintenant) ==
    \A b \in bases : \A d \in b.documents :
        HorsPlisScelles(b, d, maintenant) <=> (d.offre = NUL \/ ~Scellee(b, d.offre, maintenant))

\* Equal treatment: what a company sees depends neither on the bid of another
\* and the mark on it, nor on a question another asked for itself, nor, before
\* the award, on the mark its own bid was given.
EgaliteDeTraitement(bases, autres, maintenant) ==
    \A b \in bases : \A e, x \in DOMAIN b.offres :
        LET vue(c) == Dossier(c, e, maintenant)
            marquee(statut) == [b EXCEPT !.offres[e].statut = statut]
        IN /\ x # e => \A o \in autres : vue([b EXCEPT !.offres[x] = o]) = vue(b)
           /\ vue([b EXCEPT !.questions = {q \in @ : q.publiee \/ q.auteur = e}]) = vue(b)
           /\ (b.offres[e] # NUL /\ b.soumission.statut # "ADJUGEE") =>
                  \A m \in {"RECUE", "RETENUE", "ECARTEE"} : vue(marquee(m)) = vue(b)

\* A company can open each piece it is shown and no other.  (A piece of a bid the
\* promoter typed carries no tender: it is shown and cannot be opened.)
PiecesOuvertes(bases, maintenant) ==
    \A b \in bases : \A e \in DOMAIN b.offres : \A vue \in {Dossier(b, e, maintenant)} :
        {Fiche(d) : d \in Telechargeables(b, e)}
        = vue.documents \cup (IF vue.offre = NUL THEN {} ELSE
              {Fiche(d) : d \in {x \in PiecesDOffre(b, e) : x.dossier}})

\* What the promoter does among the documents leaves the pieces of a bid that a
\* company deposited as they are, and shows them no sooner.
PiecesIntactes(bases, nouveaux, maintenant) ==
    \A b \in bases, n \in nouveaux : \A c \in Gestes(b, n) :
        /\ {d \in c.documents : Deposee(c, d)} = {d \in b.documents : Deposee(b, d)}
        /\ \A f \in Lister(c, TRUE, maintenant) \ Lister(b, TRUE, maintenant) :
               \E d \in c.documents : Fiche(d) = f /\ d.id = n.id

\* An answer says nothing of who asked: the message is one and the same for
\* everyone still invited, whoever the author is; once published it is in the
\* file of every company, and no later answer takes it away from one.
ReponseAnonyme(bases, reponses, maintenant) ==
    \A b \in bases : \A q \in b.questions : \A r \in reponses, publier \in BOOLEAN :
        \A fait \in {Repondre(b, q, r, publier)} :
        /\ \A e, x \in DOMAIN fait.envois : fait.envois[e] = fait.envois[x]
        /\ \A a \in DOMAIN b.offres :
               Repondre([b EXCEPT !.questions = (@ \ {q}) \cup {[q EXCEPT !.auteur = a]}],
                        [q EXCEPT !.auteur = a], r, publier).envois = fait.envois
        /\ \A e \in DOMAIN b.offres :
               LET lues(c) == {x.id : x \in Dossier(c, e, maintenant).questions}
               IN /\ lues(b) \subseteq lues(fait.apres)
                  /\ publier => q.id \in lues(fait.apres)

\* No value of a bid is proposed without the words of the document that carry
\* it, and every value left out for want of them is counted.
CitationsSures(lues, sources) ==
    \A l \in lues, s \in sources : \A r \in {LireOffre(l, s)} :
        /\ \A c \in {"montant", "remise"} : r[c] # NUL => l[c].extrait \in s
        /\ \A i \in DOMAIN r.lignes : r.lignes[i].extrait \in s
        /\ r.ecartees + Len(r.lignes) + Cardinality({c \in {"montant", "remise"} : r[c] # NUL})
           = Len(l.lignes) + Cardinality({c \in {"montant", "remise"} : l[c].valeur # NUL})
=============================================================================
