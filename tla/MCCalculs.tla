------------------------------ MODULE MCCalculs ------------------------------
(* Bounded inputs, for TLC, of the pure functions. *)
EXTENDS Integers, Sequences, FiniteSets, SequencesExt

CONSTANT NUL

(***************************************************************************)
(* Amounts                                                                 *)
(***************************************************************************)
Parts == {0, 3333, 3334, 5000, 10000, NUL}
Du(n) == [id : {n}, montant : {NUL, 0, 900, 1000}, remise : {0, 1000}, ecartee : BOOLEAN,
          recue : {NUL, 1, 2}]
MesCriteres ==
    {<<[poids |-> 10000, prix |-> FALSE]>>,
     <<[poids |-> 4000, prix |-> TRUE], [poids |-> 6000, prix |-> FALSE]>>,
     <<[poids |-> 3333, prix |-> FALSE], [poids |-> 3333, prix |-> TRUE],
       [poids |-> 3334, prix |-> FALSE]>>,
     <<[poids |-> 5000, prix |-> TRUE], [poids |-> 6000, prix |-> FALSE]>>}

M == INSTANCE Montants WITH
    Prix <- {1, 6, 7, 33, 99, 100},
    Echeanciers <- UNION {[1..n -> Parts] : n \in 0..3},
    Taux <- {0, 150, 333, 9000},
    Offres <- {{a, b} : a \in Du(1), b \in Du(2)},
    Criteres <- MesCriteres,
    Notes <- {0, 333, 1000}

(***************************************************************************)
(* Checks of an invoice                                                    *)
(***************************************************************************)
C == INSTANCE Controles

Codes == [tete : {<<2>>, <<2, 1>>, <<2, 1, 1>>, <<2, 2>>}, suite : {<<>>, <<3>>, <<3, 32>>}]

Factures ==
    [type : {"ACOMPTE", "SITUATION", "SOLDE"}, ht : {NUL, 500, 1000}, ttc : {NUL, 541, 1081},
     tva : {NUL, 810}, taxe : {NUL, 81}, retenue : {NUL, 50}, acomptes : {NUL, 1000}, codes : {{}}]

Bulletins ==
    [numero : {NUL, 1}, ht : {NUL, 0, 1000}, ttc : {NUL, 1081, 1091, 1092}, tva : {NUL, 770, 810},
     taxe : {NUL, 81, 120}, retenue : {NUL, 50}, acomptes : {NUL, 300}, iban : {1},
     bulletin : {TRUE}, qr : {NUL, 731, 781, 1031, 1081, 1096, 1100}]

MesContrats ==
    [commande : {1081, 2000}, deja : {0, 1000}, base : {"HT", "TTC"}, retenue : {0, 500},
     attente : {0, 1}, budget : {NUL, 1500}, perimetre : {{}}, arbre : {{}}]

Candidats == [entreprise : {"a", "b"}, reference : {"r", "s"}, commande : {100, 200},
              deja : {0, 100}]
Indices == [entreprise : {NUL, "a"}, noms : {{}, {"b"}, {"a", "b"}},
            references : {{}, {"r"}}, ht : {NUL, 100, 150}]

(***************************************************************************)
(* References                                                              *)
(***************************************************************************)
\* CH, two control digits and three of a body, a letter among them perhaps: the
\* number at once stays in 32 bits.
MesCorps == {<<12, 17, j, k>> \o s : j, k \in 0..9, s \in {0, 9} \X {0, 7} \X {1, 3}}
            \cup {<<12, 17, j, k, 27, 5>> : j, k \in 0..9}

R == INSTANCE References WITH
    Largeurs <- <<1, 2, 1>>,
    Cles <- {<<a, b, c>> : a \in {0, 3, 9, 12}, b \in {0, 1, 10, 99, 103}, c \in 0..11},
    Corps <- MesCorps,
    Comptes <- [pays : {"CH", "LI"}, qr : BOOLEAN, corps : {<<12, 17, 5, 2, 9, 7, 3>>}]

(***************************************************************************)
(* Readings of invoices                                                    *)
(***************************************************************************)
L == INSTANCE Lectures WITH
    VIDE <- -1, Densite <- 2, Minimum <- 1, PagesOcr <- 2, Resolutions <- 2, DelaiMax <- 365,
    IdeMin <- 900

Ecrit(genres, valeurs) == [genre : genres, valeur : valeurs]
Chiffrees == Ecrit({"total ht", "sous-total", "total", "total ttc"}, {0, 9250, 10000, 99999})
             \cup Ecrit({"taux"}, {260, 810})
Factice(g, n) == [genre |-> g, valeur |-> n]
Papiers == {<<>>, <<Factice("nom", 51)>>, <<Factice("nom", 52), Factice("total", 8100)>>,
            <<Factice("numero", 71), Factice("date", 20), Factice("iban", 81)>>,
            <<Factice("nom", 51), Factice("reference", 91), Factice("taux", 810)>>}
Textes == {NUL} \cup [texte : Papiers, methode : {"ocr", "texte-pdf-partiel"}]

Code(creancier, infos) ==
    [spc |-> TRUE, iban |-> 82, creancier |-> creancier, monnaie |-> "CHF", montant |-> 8000,
     debiteur |-> 52, genre |-> "QRR", reference |-> 92, infos |-> infos]
Infos == [prefixe |-> TRUE, numero |-> 72, debut |-> 20, ide |-> 901, delais |-> <<10, 30>>]
SansInfos == [Infos EXCEPT !.prefixe = FALSE]
Lien == [Code(51, Infos) EXCEPT !.spc = FALSE]
Slips == {Code(51, Infos), Code(53, SansInfos),
          [Code(51, [Infos EXCEPT !.ide = 12, !.debut = NUL]) EXCEPT !.genre = "NON"]}
Bulletins2 == {NUL} \cup {L!LireBulletinQr(c) : c \in Slips}

Trouve(champs) == [c \in DOMAIN L!LectureVide |-> IF c \in DOMAIN champs THEN champs[c] ELSE NUL]
Modeles ==
    {NUL, Trouve([fournisseur |-> 52, numero |-> 71, ht |-> 7500, ttc |-> 8100, type |-> "SOLDE"]),
     Trouve([fournisseur |-> 51, ide |-> 902, numero |-> -1, tva |-> 810, dateFacture |-> 19])}
Saisie(champs) ==
    [premiere |-> DOMAIN champs = {}]
    @@ [c \in {"numero", "dateFacture", "dateEcheance", "type", "ht", "tva", "taxe", "ttc",
               "retenue", "acomptes", "iban", "reference"} |->
           IF c \in DOMAIN champs THEN champs[c] ELSE IF c = "type" THEN "SITUATION" ELSE NUL]
Saisies == {Saisie(<<>>), Saisie([numero |-> 73, ttc |-> 1]), Saisie([ht |-> 5, reference |-> 93])}
Fiche(id, ide, nom) == [id |-> id, ide |-> ide, nom |-> nom]
Repertoires == SUBSET {Fiche(1, NUL, 51), Fiche(2, 901, 52), Fiche(3, NUL, 51), Fiche(4, 902, 53)}

Pages == [image : {<<Factice("nom", 51)>>},
          codes : [1..2 -> {<<>>, <<Lien>>, <<Lien, Code(51, Infos)>>}]]
Pieces == [mime : {"pdf", "image", "autre"}, pages : UNION {[1..n -> Pages] : n \in 1..3},
           couche : {<<>>, <<Factice("nom", 54)>>}]

(***************************************************************************)
(* Tenders seen by their parties, at the date 2                            *)
(***************************************************************************)
T == INSTANCE Consultations

Etats == [statut : {"ENVOYEE", "OUVERTE", "EN_COMPARAISON", "ADJUGEE"}, dateLimite : {NUL, 2, 3},
          scellees : BOOLEAN]
Invite(lien, revoquee, refusee) ==
    [lien |-> lien, revoquee |-> revoquee, refusee |-> refusee, email |-> TRUE]
Plis == {NUL} \cup [source : {"PORTAIL", "SAISIE"}, montant : {7}, statut : {"RECUE"}, lignes : {{}}]
        \cup {[source |-> "PORTAIL", montant |-> 9, statut |-> "RETENUE", lignes |-> {4}]}
Doc(n, offre, dossier, visible, courant) ==
    [id |-> n, contenu |-> n, offre |-> offre, dossier |-> dossier, visible |-> visible,
     courant |-> courant, autre |-> FALSE]
Ranges == {{Doc(1, NUL, TRUE, TRUE, TRUE), Doc(2, NUL, TRUE, FALSE, TRUE), Doc(3, "a", TRUE, FALSE, TRUE)},
           {Doc(3, "a", TRUE, FALSE, FALSE), Doc(4, "a", TRUE, FALSE, TRUE), Doc(5, "b", FALSE, TRUE, TRUE)},
           {Doc(1, NUL, TRUE, TRUE, FALSE), Doc(6, NUL, FALSE, TRUE, TRUE)}}
Question(n, auteur, publiee) ==
    [id |-> n, auteur |-> auteur, publiee |-> publiee, question |-> n, reponse |-> NUL]
Bases == {b \in
    [soumission : Etats,
     invitations : {[e \in {"a", "b"} |-> Invite(TRUE, FALSE, e = "b")],
                    [e \in {"a", "b"} |-> Invite(e = "a", FALSE, FALSE)]},
     offres : [{"a", "b"} -> Plis], documents : Ranges,
     questions : {{}, {Question(1, "a", FALSE), Question(2, "b", TRUE)}}] :
    \A d \in b.documents : d.offre # NUL => b.offres[d.offre] # NUL}
Nouveaux == {Doc(8, o, TRUE, TRUE, TRUE) : o \in {NUL, "a"}}
            \cup {[Doc(9, NUL, TRUE, TRUE, TRUE) EXCEPT !.autre = TRUE]}
Valeurs == [valeur : {NUL, 5}, extrait : {NUL, 1, 2}]
Offertes == [montant : Valeurs, remise : Valeurs, lignes : UNION {[1..n -> Valeurs] : n \in 0..2}]

(***************************************************************************)
(* Deadlines, and what leaves with a call                                  *)
(***************************************************************************)
E == INSTANCE Echeances WITH
    AnneesGarantie <- 2, SeuilProche <- 90, Attendues <- {"PLAN", "PERMIS"}

Dates == {E!Date(a, m, j) : a \in {2023, 2024}, m \in {1, 2, 8, 12}, j \in {1, 28}}
         \cup {E!Date(2024, 2, 29), E!Date(2025, 1, 31), E!Date(2024, 8, 31), E!Date(2023, 12, 31)}
Recus == [id : {1}, reception : {NUL, E!Date(2020, 2, 29), E!Date(2023, 5, 1)}, fin : {NUL}]
Poses(n) == [id : {n}, statut : {"PROPOSE", "VALIDE"}, service : {NUL, E!Date(2024, 1, 31)},
             fin : {NUL, E!Date(2025, 6, 1)}, entretien : {NUL, 12},
             dernier : {NUL, E!Date(2025, 5, 2), E!Date(2026, 3, 1)}]
Ouvrages == [contrats : {<<c>> : c \in Recus}, equipements : {<<a, b>> : a \in Poses(1), b \in Poses(2)},
             documents : {{}, {[courant |-> TRUE, categorie |-> "PLAN"]}}]

V == INSTANCE Envois

Acquereur(email, adresse) == [nom |-> 51, email |-> email, adresse |-> adresse]
Dossiers == {<<>>, <<Acquereur(NUL, <<"rue">>)>>, <<Acquereur("a", <<"rue", "npa-localite">>)>>,
             <<Acquereur("vide", <<>>), Acquereur("b", <<>>)>>,
             <<Acquereur("a", <<>>), Acquereur("b", <<>>)>>}
Dus == [id : 1..2, montant : {3333}, reference : {7}, destinataires : Dossiers]
Emettrices == [nom : {50}, iban : {NUL, "qr", "ordinaire"}, adresse : {<<>>, <<"rue">>},
               npa : BOOLEAN, localite : BOOLEAN]
Accrocs == {"lettre", "bordereau", "archive", "mail", "marque"}

(***************************************************************************)
(* Balances                                                                *)
(***************************************************************************)
B == INSTANCE Bilans WITH Garde <- 40

Couts == [groupe : {"1"}, racine : {"1"}, montant : {-5, 100}, reserve : BOOLEAN]
         \cup [groupe : {"2"}, racine : {"2"}, montant : {5, 50}, reserve : {FALSE}]
Lots == [prix : {NUL, 90}, parkings : {<<>>, <<7, NUL>>}]
Parties == [quotePart : {NUL, 333, 334, 1000}, surface : {7}]
Terrains == [surface : {NUL, 40}, prix : {NUL, 300}, ibus : {NUL, 60},
             zones : {<<>>, <<[surface |-> 30, ibus |-> 50], [surface |-> 10, ibus |-> NUL]>>},
             achetee : BOOLEAN, frais : {NUL, 9}]
Releves == [mois : {[annee |-> 2025, mois |-> 11], [annee |-> 2025, mois |-> 12],
                    [annee |-> 2026, mois |-> 2], [annee |-> 2027, mois |-> 1]},
            montant : {10}, entree : BOOLEAN]
Suivis == [statut : {"EMIS", "PARTIELLEMENT_PAYE", "PAYE", "ANNULE"}, montant : {100},
           recus : {<<>>, <<40>>, <<40, 60>>, <<120>>}, echeance : {NUL, 3}]

\* What is read off an invoice and checked on it, and the references of payments.
FacturesExactes ==
    /\ L!LectureTracee(Bulletins2, Textes, Modeles, Saisies)
    /\ L!EmetteurSur(Bulletins2, Textes, Modeles, Repertoires)
    /\ L!BulletinTrouve(Pieces, {"ferme", "sans_ocr", "ouvert"})
    /\ L!DeductionSansConstat(UNION {[1..n -> Chiffrees] : n \in 0..3})
    /\ L!TermeEntier({NUL, 20}, UNION {[1..n -> {NUL, 0, 10, 30, 366}] : n \in 0..3})
    /\ C!CouvreOrdre(Codes)
    /\ C!SilenceJuste(Bulletins, [doublons |-> {}, ibans |-> {1, 2}])
    /\ C!DepassementAccorde(Factures, MesContrats)
    /\ C!SoldeJuste({10000, 20050, 99999}, {0, 3333, 9999}, {0, 500, 1000})
    /\ C!ImputationJuste(Indices, UNION {[1..n -> Candidats] : n \in 0..2})
    /\ R!ReferenceSure /\ R!ModuloAccorde /\ R!BulletinPayable

\* Tenders as each party sees them, deadlines of a building, calls as they leave.
DossiersExacts ==
    /\ T!PliOpaque(Bases, {7, 1, 30}, 2) /\ T!ScelleUnique(Bases, 2)
    /\ T!EgaliteDeTraitement(Bases, Plis, 2) /\ T!PiecesOuvertes(Bases, 2)
    /\ T!PiecesIntactes(Bases, Nouveaux, 2) /\ T!ReponseAnonyme(Bases, {6}, 2)
    /\ T!CitationsSures(Offertes, SUBSET {1, 2})
    /\ E!GarantiesEntieres(Dates) /\ E!TermesEntiers(Dates, {0, 1, 6, 12, 24, 27})
    /\ E!EcheancesSuivies(Ouvrages, E!Date(2025, 3, 10))
    /\ V!BordereauAnnonce(Dus, Emettrices, Accrocs)
    /\ V!EnvoisComptes(Dus, {s \in Emettrices : s.npa = s.localite /\ s.adresse # <<>>},
                       {"bordereau", "mail", "marque"})

\* Amounts, and what they come to.
MontantsExacts ==
    /\ B!BilansAccordes(UNION {[1..n -> Couts] : n \in 0..2}, UNION {[1..n -> Lots] : n \in 0..2},
                        {NUL, 0, 95})
    /\ B!PartsFermees({0, 1, 1000, 99999}, UNION {[1..n -> Parties] : n \in 0..3}, {NUL, 1000, 2000})
    /\ B!TerrainAccorde(UNION {[1..n -> Terrains] : n \in 0..2},
                        [notaire : {NUL, 12}, mutation : {NUL}], {NUL, 300})
    /\ B!TresorerieSuivie(UNION {[1..n -> Releves] : n \in 0..3})
    /\ B!CreancesVives(UNION {[1..n -> Suivis] : n \in 0..2}, 5)
    /\ M!EcheancierEntier /\ M!RattrapageAccorde /\ M!CommissionExacte
    /\ M!ComparaisonJuste /\ M!ScoreComplet
=============================================================================
