----------------------------- MODULE MCServices -----------------------------
(***************************************************************************)
(* Small instances, for TLC, of the components that share no state: a      *)
(* behaviour picks one of them, a regime, and stays in it.  The variables  *)
(* of the others keep the value NUL.                                       *)
(***************************************************************************)
EXTENDS Integers, Sequences, FiniteSets, TLC

CONSTANTS q1, q2,    \* request slots
          p1, p2,    \* pieces
          m1,        \* a message
          e1, e2,    \* companies
          u1, u2, u3,    \* people
          l1, l2, r1,    \* lots and a reservation
          s1, s2,    \* companies that use the service
          NUL, OMIS

VARIABLES
    regime,
    jour, soumission, invitations, offres, adjudication, decisions, contrats, consultation,
    messages, lus, factures, planifiees, lecture,
    periode, stripe, sessions, evenements, abonnement, souscriptions, avertissement,
    envois, pannes, promesses, facturation,
    comptes, membres, acces, directionTravaux, liens, liste, adhesion,
    reservations, mandats, commissions, courtage,
    documents, deposes, cles, fichiers, ged,
    postes, versions, lignes, budget,
    montants, suivis, controle,
    compte, limites, defi, secrets, codes, prouves, servis, essais, instant, connexion,
    profil, membre, droit, offre, exploitant, jeton,
    tables, ecrites, pool, cloison,
    presents, creee, operation,
    communes, reglements, zones, textes, extractions, gestes, commune,
    lots, parkings, vendus, parcelles, creees, pieces, depots, rattachements, foncier,
    sources, equipements, attribues, passeport,
    seances, points, personnes, reunion,
    connexions, tires, valables, montres, ouvertes, kolabimo,
    lien, retiree, chiffres, tentatives, demandees, essayes, entrees, entres, visites

deSoumissions ==
    <<jour, soumission, invitations, offres, adjudication, decisions, contrats, consultation>>
deLecture == <<messages, lus, factures, planifiees, lecture>>
deFacturation == <<periode, stripe, sessions, evenements, abonnement, souscriptions,
                   avertissement, envois, pannes, promesses, facturation>>
deMembres == <<comptes, membres, acces, directionTravaux, liens, liste, adhesion>>
deCourtage == <<reservations, mandats, commissions, courtage>>
deGed == <<documents, deposes, cles, fichiers, ged>>
deBudget == <<postes, versions, lignes, budget>>
deRapports == <<montants, suivis, controle>>
deFacteur == <<compte, limites, defi, secrets, codes, prouves, servis, essais, instant,
               connexion>>
deDroits == <<profil, membre, droit, offre, exploitant, jeton>>
deCloisons == <<tables, ecrites, pool, cloison>>
deOperations == <<presents, creee, operation>>
deReglements == <<communes, reglements, zones, textes, extractions, gestes, commune>>
deFoncier == <<lots, parkings, vendus, parcelles, creees, pieces, depots, rattachements,
               foncier>>
dePasseport == <<sources, equipements, attribues, passeport>>
deSeances == <<seances, points, personnes, reunion>>
deConnexions == <<connexions, tires, valables, montres, ouvertes, kolabimo>>
deCodes == <<lien, retiree, chiffres, tentatives, demandees, essayes, entrees, entres, visites>>
toutes == <<regime, deSoumissions, deLecture, deFacturation, deMembres, deCourtage, deGed,
            deBudget, deFacteur, deRapports, deDroits, deCloisons, deOperations,
            deReglements, deFoncier, dePasseport, deSeances, deConnexions, deCodes>>

(***************************************************************************)
(* Tenders                                                                 *)
(***************************************************************************)
\* Sealed bids until a deadline that moves.
Plis == INSTANCE Soumissions WITH
    Entreprises <- {e1}, Prix <- {100}, Remises <- {0},
    Lignes <- {[type |-> "OPTION", montant |-> 20]}, Avenants <- {10},
    StatutsSaisis <- {"EN_COMPARAISON"}, StatutsContrat <- {"RESILIE"},
    Horizon <- 2, MaxOffres <- 1, MaxDecisions <- 2, Requetes <- {q1}, req <- consultation

\* Two companies, awards withdrawn and pronounced again.
Decisions == INSTANCE Soumissions WITH
    Entreprises <- {e1, e2}, Prix <- {100}, Remises <- {0}, Lignes <- {}, Avenants <- {},
    StatutsSaisis <- {}, StatutsContrat <- {},
    Horizon <- 0, MaxOffres <- 2, MaxDecisions <- 2, Requetes <- {q1}, req <- consultation

\* The same while contracts are written, two requests at once.
Contrats == INSTANCE Soumissions WITH
    Entreprises <- {e1, e2}, Prix <- {100, 200}, Remises <- {0}, Lignes <- {}, Avenants <- {},
    StatutsSaisis <- {}, StatutsContrat <- {},
    Horizon <- 0, MaxOffres <- 2, MaxDecisions <- 2, Requetes <- {q1, q2}, req <- consultation

NextContrats ==
    \/ \E e \in {e1, e2}, n \in 0..2 : Contrats!LireSaisie(q1, e, n)
    \/ \E m \in {100, 200} : Contrats!SaisirOffre(q1, m, OMIS, OMIS)
    \/ \E q \in {q1, q2} :
         \/ \E n \in DOMAIN offres : Contrats!LireAdjudication(q, n, {})
         \/ Contrats!Adjuger(q)
         \/ Contrats!LireAnnulation(q)
         \/ Contrats!Annuler(q)
         \/ Contrats!LireContrat(q)
         \/ Contrats!CreerContrat(q, "BROUILLON")
         \/ Contrats!Interrompre(q)

(***************************************************************************)
(* Invoices                                                                *)
(***************************************************************************)
\* A message that carries two pieces, received while they are also dropped.
Courriel == INSTANCE LectureFactures WITH
    Pieces <- {p1, p2}, Messages <- {m1}, PiecesDe <- [m \in {m1} |-> {p1, p2}],
    Montants <- {[ht |-> 60, ttc |-> NUL, taux |-> NUL]}, Base <- "HT", Commande <- 100,
    DtNommee <- FALSE, MaxVisas <- 0, MaxLectures <- 1,
    Requetes <- {q1, q2}, req <- lecture

\* One invoice read, endorsed, validated, one request at a time.
Visee == INSTANCE LectureFactures WITH
    Pieces <- {p1}, Messages <- {}, PiecesDe <- <<>>,
    Montants <- {[ht |-> 60, ttc |-> NUL, taux |-> NUL]}, Base <- "HT", Commande <- 100,
    DtNommee <- TRUE, MaxVisas <- 2, MaxLectures <- 1,
    Requetes <- {q1}, req <- lecture

\* Amounts before tax alone, or all three.
HorsTaxe == [ht |-> 60, ttc |-> NUL, taux |-> NUL]
Complets == [ht |-> 60, ttc |-> 66, taux |-> 10]

\* Two invoices of which the contract, reckoned with tax, can bear one.
Cumul == INSTANCE LectureFactures WITH
    Pieces <- {p1, p2}, Messages <- {}, PiecesDe <- <<>>,
    Montants <- {HorsTaxe, Complets}, Base <- "TTC", Commande <- 100,
    DtNommee <- FALSE, MaxVisas <- 0, MaxLectures <- 1,
    Requetes <- {q1}, req <- lecture

\* Usurped in an open mailbox, unknown in an open one, unknown in a closed one.
Provenances == {<<TRUE, TRUE, TRUE>>, <<FALSE, FALSE, TRUE>>, <<FALSE, FALSE, FALSE>>}

NextCourriel ==
    \/ \E q \in {q1, q2} :
         \/ Courriel!LireMessage(q, m1)
         \/ \E c \in Provenances : Courriel!EnregistrerMessage(q, c[1], c[2], c[3])
         \/ Courriel!LireLiberation(q, m1)
         \/ Courriel!Liberer(q)
         \/ \E P \in (SUBSET {p1, p2}) \ {{}} : Courriel!Deposer(q, P)
         \/ \E p \in {p1, p2} : Courriel!ChercherPiece(q, p)
         \/ Courriel!Recevoir(q)
         \/ Courriel!Planifier(q)
         \/ Courriel!Interrompre(q)
    \/ Courriel!MarquerLu(m1)
    \/ Courriel!Rejeter(m1)
    \/ Courriel!Redemarrer

NextVisee ==
    \/ Visee!Immediat
    \/ Visee!Reception(q1) \/ Visee!Lecture(q1) \/ Visee!Decision(q1) \/ Visee!Interrompre(q1)

NextCumul ==
    \/ \E p \in {p1, p2}, m \in {HorsTaxe, Complets, Cumul!Vide} : Cumul!Creer(p, m)
    \/ Cumul!Controler(q1, FALSE)
    \/ Cumul!Decision(q1)
    \/ Cumul!Interrompre(q1)

\* The amount to pay of one invoice, one request at a time.
Rapport == INSTANCE Rapports WITH
    Factures <- {p1}, Bulletins <- {NUL, 98}, Requetes <- {q1}, req <- controle,
    Colonnes <- [ht : {NUL, 100}, ttc : {NUL, 108, 216}, retenue : {NUL, 10}, acomptes : {NUL}]

(***************************************************************************)
(* Subscriptions                                                           *)
(***************************************************************************)
\* Two modules on one subscription, one handling at a time, which may fail.
Abonnee == INSTANCE Facturation WITH
    Modules <- {"chantier", "ventes"}, MaxAbonnements <- 1, MaxEvenements <- 1,
    MaxSessions <- 1, Horizon <- 2, MaxPannes <- 0, Requetes <- {q1}, req <- facturation

\* A trial that both the event and the nightly pass announce the end of.
Essai == INSTANCE Facturation WITH
    Modules <- {"ventes"}, MaxAbonnements <- 1, MaxEvenements <- 1,
    MaxSessions <- 1, Horizon <- 1, MaxPannes <- 1, Requetes <- {q1, q2}, req <- facturation

NextAbonnee ==
    Abonnee!Externe \/ Abonnee!Gestes(q1) \/ Abonnee!Synchronisation(q1) \/ Abonnee!Interrompre(q1)

NextEssai ==
    \/ Essai!Externe
    \/ \E statut \in {"ACTIF", "RESILIE"} : Essai!Exploitant("ventes", statut)
    \/ \E q \in {q1, q2} :
         \/ Essai!LireSouscription(q, {"ventes"})
         \/ Essai!Demarrer(q)
         \/ Essai!Synchronisation(q)
         \/ Essai!Avertissement(q)
         \/ Essai!Interrompre(q)

(***************************************************************************)
(* Members, brokerage, documents, budget                                   *)
(***************************************************************************)
\* Two people who come and go, one request at a time.
Adhesions == INSTANCE Membres WITH
    Personnes <- {u1, u2}, Fondateurs <- {u1}, MaxInvitations <- 3, MaxLiens <- 3,
    Requetes <- {q1}, invitations <- liste, req <- adhesion

\* Owners who put each other aside, one request at a time.
Proprietaires == INSTANCE Membres WITH
    Personnes <- {u1, u2, u3}, Fondateurs <- {u1, u2, u3}, MaxInvitations <- 0, MaxLiens <- 0,
    Requetes <- {q1}, invitations <- liste, req <- adhesion

\* One person invited, twice perhaps, two requests at once.
Entrees == INSTANCE Membres WITH
    Personnes <- {u1, u2}, Fondateurs <- {u1}, MaxInvitations <- 2, MaxLiens <- 2,
    Requetes <- {q1, q2}, invitations <- liste, req <- adhesion

\* What an author asks for u2.
Propose(M(_, _, _, _, _, _), q) ==
    \/ M(q, u1, u2, "OWNER", NUL, FALSE)
    \/ M(q, u1, u2, "EXTERNE", "FACTURES", TRUE)

NextAdhesions ==
    \/ \E i \in DOMAIN liste : Adhesions!Revoquer(i) \/ Adhesions!Expirer(i)
    \/ Propose(Adhesions!LireInvitation, q1)
    \/ Adhesions!Inviter(q1)
    \/ \E i \in DOMAIN liste : Adhesions!LireRenvoi(q1, i)
    \/ Adhesions!Renvoyer(q1)
    \/ \E l \in 1..liens : Adhesions!Resoudre(q1, l)
    \/ Adhesions!PrendreCompte(q1)
    \/ Adhesions!Accepter(q1)
    \/ \E a, p \in {u1, u2}, r \in {"OWNER", "ADMIN", OMIS}, f \in BOOLEAN \cup {OMIS} :
          Adhesions!LireMembre(q1, a, p, r, f)
    \/ Adhesions!ModifierMembre(q1)
    \/ Adhesions!Interrompre(q1)

NextProprietaires ==
    \/ \E p \in {u1, u2, u3}, n \in {"FACTURES"} : Proprietaires!AccorderAcces(p, n)
    \/ \E p \in {u1, u2, u3} : Proprietaires!RevoquerAcces(p)
    \/ Proprietaires!Administration(q1)
    \/ Proprietaires!Interrompre(q1)

NextEntrees ==
    \/ \E i \in DOMAIN liste : Entrees!Revoquer(i) \/ Entrees!Expirer(i)
    \/ \E q \in {q1, q2} :
         \/ Propose(Entrees!LireInvitation, q)
         \/ Entrees!Inviter(q)
         \/ \E i \in DOMAIN liste : Entrees!LireRenvoi(q, i)
         \/ Entrees!Renvoyer(q)
         \/ \E l \in 1..liens : Entrees!Resoudre(q, l)
         \/ Entrees!PrendreCompte(q)
         \/ Entrees!Accepter(q)
         \/ Entrees!Interrompre(q)

\* Two mandates that are signed, ended and put back in force.
Mandats == INSTANCE Courtage WITH
    Lots <- {l1, l2}, Reservations <- {}, MaxMandats <- 2, MaxCommissions <- 0,
    Requetes <- {q1}, req <- courtage

\* Two mandates on a lot where a sale comes and goes.
Ventes == INSTANCE Courtage WITH
    Lots <- {l1, l2}, Reservations <- {r1}, MaxMandats <- 2, MaxCommissions <- 3,
    Requetes <- {q1}, req <- courtage

NextVentes ==
    \/ \E f \in BOOLEAN :
          Ventes!LireMandat(q1, [lots |-> {l1}, exclusif |-> FALSE, forfait |-> f,
                                 statut |-> "BROUILLON"])
    \/ Ventes!CreerMandat(q1)
    \/ \E i \in DOMAIN mandats, s \in {"ACTIF", "TERMINE"} : Ventes!LireStatut(q1, i, s)
    \/ Ventes!ChangerStatutMandat(q1)
    \/ Ventes!Commissions(q1)
    \/ \E c \in DOMAIN commissions, s \in {"DUE", "ANNULEE"} : Ventes!ChangerStatutCommission(c, s)
    \/ \E apres \in Ventes!Reservation : Ventes!ModifierReservation(r1, apres)
    \/ Ventes!Interrompre(q1)

\* Chains of versions, one request at a time, then two.
Chaines == INSTANCE Ged WITH MaxDocuments <- 4, Requetes <- {q1}, req <- ged
Fichiers == INSTANCE Ged WITH MaxDocuments <- 2, Requetes <- {q1, q2}, req <- ged

NextFichiers ==
    \E q \in {q1, q2} :
       \/ Fichiers!LireDepot(q, "piece") \/ Fichiers!StockerDepot(q) \/ Fichiers!Deposer(q)
       \/ \E d \in Fichiers!Numeros : Fichiers!LireVersion(q, d) \/ Fichiers!LireSuppression(q, d)
       \/ Fichiers!StockerVersion(q) \/ Fichiers!Numeroter(q) \/ Fichiers!DeposerVersion(q)
       \/ Fichiers!Supprimer(q) \/ Fichiers!Effacer(q)
       \/ Fichiers!Interrompre(q)

\* Versions adopted two at a time, without lines.
Adoptions == INSTANCE Budget WITH
    Postes <- {}, Trame <- <<>>, Montants <- {}, MaxVersions <- 2, MaxLignes <- 0,
    Requetes <- {q1, q2}, req <- budget

\* Versions and their lines, on one post, one request at a time.
Copies == INSTANCE Budget WITH
    Postes <- {"1"}, Trame <- ("1" :> NUL), Montants <- {1}, MaxVersions <- 2, MaxLignes <- 2,
    Requetes <- {q1}, req <- budget

\* Lines on a tree of three levels, one request at a time.
Fil == INSTANCE Budget WITH
    Postes <- {"1", "11", "111"}, Trame <- ("1" :> NUL @@ "11" :> "1" @@ "111" :> "11"),
    Montants <- {1}, MaxVersions <- 1, MaxLignes <- 2, Requetes <- {q1}, req <- budget

NextAdoptions == \E q \in {q1, q2} : Adoptions!Versions(q) \/ Adoptions!Interrompre(q)

NextFil ==
    \/ Fil!Cfc(q1) \/ Fil!Lignes(q1) \/ Fil!Vue(q1) \/ Fil!Interrompre(q1)
    \/ Fil!LireVersion(q1, NUL) \/ Fil!CreerVersion(q1)

(***************************************************************************)
(* The second factor                                                       *)
(***************************************************************************)
\* One account, its factor activated, used and removed, one request at a time.
Facteur == INSTANCE SecondFacteur WITH
    Max <- [compte |-> 1, adresse |-> 1, mfa |-> 2], Fenetre <- 2, Blocage <- 2, Lot <- 1,
    MaxSecrets <- 2, MaxCodes <- 2, MaxEssais <- 2, Horizon <- 0, Requetes <- {q1},
    jour <- instant, req <- connexion

\* Wrong passwords and wrong codes over time.
Essais == INSTANCE SecondFacteur WITH
    Max <- [compte |-> 2, adresse |-> 3, mfa |-> 2], Fenetre <- 2, Blocage <- 2, Lot <- 1,
    MaxSecrets <- 1, MaxCodes <- 1, MaxEssais <- 4, Horizon <- 3, Requetes <- {q1},
    jour <- instant, req <- connexion

NextEssais ==
    \/ Essais!Avancer
    \/ Essais!Redemarrer
    \/ Essais!Connexion(q1)
    \/ Essais!LireEnrolement(q1)
    \/ Essais!CommencerEnrolement(q1)
    \/ \E saisie \in Essais!Saisies : Essais!LireCode(q1, "activer", saisie)
    \/ Essais!AccepterCode(q1)
    \/ Essais!RefuserCode(q1)
    \/ Essais!Interrompre(q1)

(***************************************************************************)
(* Rights on the routes, isolation of the companies                        *)
(***************************************************************************)
Droits == INSTANCE Droits WITH
    Roles <- {"ADMIN", "CHEF_PROJET"}, Volets <- {"SOUMISSIONS"},
    Souscrits <- {"APPELS_DE_FONDS", "CONTROLE_FACTURES", "APPELS_OFFRES"},
    Exploitants <- {FALSE}, acces <- droit, souscriptions <- offre

\* A member who stays; the modules and the token come and go.
NextDroits ==
    \/ Droits!Identifier \/ Droits!ChoisirWorkspace \/ Droits!Expirer
    \/ \E role \in {"ADMIN", "CHEF_PROJET"} : Droits!ModifierMembre(role, TRUE)
    \/ \E niveau \in {"READ_ONLY", "MANAGE"}, volets \in SUBSET {"SOUMISSIONS"} :
          Droits!AccorderAcces([level |-> niveau, modules |-> volets])
    \/ Droits!RevoquerAcces
    \/ \E code \in DOMAIN offre, statut \in {"ACTIF", "RESILIE"} :
          offre[code] # statut /\ Droits!ChangerModule(code, statut)

Cloisons == INSTANCE Cloisonnement WITH
    Societes <- {s1, s2}, Suivies <- {"operations", "biens", "lots"}, MaxLignes <- 3,
    Connexions <- {e1}, Requetes <- {q1, q2}, lignes <- tables, req <- cloison

(***************************************************************************)
(* The file of an operation                                                *)
(***************************************************************************)
\* An operation that fills up, then is removed; nothing is written between
\* the count and the deletions.
Presentables ==
    {"operations", "biens", "lots", "parkings", "cfc_nodes", "budget_versions", "lignes_budget",
     "factures", "mandats_courtage", "mandat_courtage_lots", "soumissions", "offres",
     "adjudications"}
Dossier == INSTANCE Operations WITH Requetes <- {q1}, req <- operation

NextDossier ==
    \/ /\ Dossier!En(q1, "libre")
       /\ Dossier!Creer \/ \E t \in Presentables : Dossier!Ecrire(t)
    \/ Dossier!LireSuppression(q1) \/ Dossier!Supprimer(q1) \/ Dossier!Interrompre(q1)

\* A regulation whose file changes, one request at a time.
Lus == INSTANCE Reglements WITH
    Noms <- {"Martigny", "martigny"}, Forme <- ("Martigny" :> "m" @@ "martigny" :> "m"),
    Codes <- {"R3", "CC"}, MaxReglements <- 1, MaxFichiers <- 1, MaxLectures <- 2,
    Requetes <- {q1}, cles <- textes, req <- commune

\* Its zones read twice while they are validated, two requests at once.
Zones == INSTANCE Reglements WITH
    Noms <- {"Martigny"}, Forme <- ("Martigny" :> "m"),
    Codes <- {"R3"}, MaxReglements <- 1, MaxFichiers <- 0, MaxLectures <- 2,
    Requetes <- {q1, q2}, cles <- textes, req <- commune

\* Two lots whose deeds are signed, one request at a time.
Catalogue == INSTANCE Foncier WITH
    Lots <- {l1, l2}, Designations <- {"A01", "A02"}, Prix <- {1}, Places <- {},
    Parcelles <- {}, Acteurs <- {}, Roles <- {}, MaxCles <- 0, Requetes <- {q1},
    ventes <- vendus, cles <- pieces, fichiers <- depots, req <- foncier

NextCatalogue ==
    \/ Catalogue!En(q1, "libre") /\ Catalogue!Ventes
    \/ Catalogue!Catalogue(q1) \/ Catalogue!Interrompre(q1)

\* One lot and its place, whose prices the gateway moves as well.
Valeurs == INSTANCE Foncier WITH
    Lots <- {l1}, Designations <- {"A01"}, Prix <- {1, 2}, Places <- {p1},
    Parcelles <- {}, Acteurs <- {}, Roles <- {}, MaxCles <- 0, Requetes <- {q1},
    ventes <- vendus, cles <- pieces, fichiers <- depots, req <- foncier

NextValeurs ==
    \/ Valeurs!Parkings \/ Valeurs!Ventes \/ Valeurs!Kolabimo
    \/ Valeurs!Catalogue(q1) \/ Valeurs!Interrompre(q1)

\* Parcels and their files, two requests at once.
Terrain == INSTANCE Foncier WITH
    Lots <- {}, Designations <- {}, Prix <- {}, Places <- {},
    Parcelles <- {p1, p2}, Acteurs <- {}, Roles <- {}, MaxCles <- 3, Requetes <- {q1, q2},
    ventes <- vendus, cles <- pieces, fichiers <- depots, req <- foncier

NextTerrain == \E q \in {q1, q2} : Terrain!Terrain(q) \/ Terrain!Interrompre(q)

\* Actors on an operation, one request at a time.
Annuaire == INSTANCE Foncier WITH
    Lots <- {}, Designations <- {}, Prix <- {}, Places <- {},
    Parcelles <- {}, Acteurs <- {e1, e2}, Roles <- {"ARCHITECTE", "ENTREPRISE_GENERALE"},
    MaxCles <- 0, Requetes <- {q1},
    ventes <- vendus, cles <- pieces, fichiers <- depots, req <- foncier

NextAnnuaire == Annuaire!Annuaire(q1) \/ Annuaire!Interrompre(q1)

\* Equipments typed, proposed and rejected, one request at a time.
Passeport == INSTANCE Passeport WITH
    Equipements <- {p1, p2}, Documents <- {m1}, Passages <- {e1, e2},
    Contenu <- [d \in {m1} |-> {e1}], EntrepriseDe <- [c \in {r1} |-> l1],
    Membres <- {u1, u2}, Requetes <- {q1}, documents <- sources, req <- passeport

\* One equipment, two requests at once.
Propositions == INSTANCE Passeport WITH
    Equipements <- {p1}, Documents <- {m1}, Passages <- {e1, e2},
    Contenu <- [d \in {m1} |-> {e1}], EntrepriseDe <- [c \in {r1} |-> l1],
    Membres <- {u1}, Requetes <- {q1, q2}, documents <- sources, req <- passeport

\* One meeting and its agenda, one request at a time.
Reunions == INSTANCE Seances WITH
    Operations <- {"o1", "o2"}, NoeudDe <- ("n1" :> "o1" @@ "n2" :> "o2"), Seances <- {1},
    MaxPoints <- 2, Rangs <- {2}, Echeances <- {}, Aujourdhui <- 5,
    Requetes <- {q1}, req <- reunion

NextReunions ==
    \/ \E o \in {"o1", "o2"} :
         \/ \E datee \in BOOLEAN : Reunions!Creer(o, 1, datee)
         \/ \E patch \in Reunions!Patch : Reunions!LireSeance(q1, o, 1, patch)
         \/ \E r \in {2, OMIS}, n \in {"n1", "n2", NUL} : Reunions!LirePoint(q1, o, 1, r, n, NUL)
         \/ /\ Reunions!En(q1, "libre")
            /\ \E i \in DOMAIN points : Reunions!ModifierPoint(o, 1, i, 2, OMIS, OMIS)
    \/ Reunions!Modifier(q1) \/ Reunions!AjouterPoint(q1) \/ Reunions!Interrompre(q1)

\* The points of two meetings, followed up.
Actions == INSTANCE Seances WITH
    Operations <- {"o1"}, NoeudDe <- <<>>, Seances <- {1, 2},
    MaxPoints <- 2, Rangs <- {}, Echeances <- {1}, Aujourdhui <- 5,
    Requetes <- {q1}, req <- reunion

NextActions ==
    \/ \E s \in {1, 2} :
         \/ Actions!Creer("o1", s, FALSE)
         \/ \E e \in {1, NUL} : Actions!LirePoint(q1, "o1", s, OMIS, NUL, e)
         \/ \E i \in DOMAIN points, e \in {NUL, OMIS}, statut \in {"EN_COURS", "CLOS", OMIS} :
               Actions!ModifierPoint("o1", s, i, OMIS, e, statut)
    \/ Actions!AjouterPoint(q1) \/ Actions!Interrompre(q1)
    \/ DOMAIN points = {} /\ Actions!Presences

\* The keys of one company, one request at a time.
CleDApi == INSTANCE ConnexionKolabimo WITH
    Societes <- {s1},
    Titulaire <- (1 :> [type |-> "PROMOTEUR", nom |-> "a"] @@ 2 :> [type |-> "PROMOTEUR", nom |-> "b"]
                  @@ 3 :> [type |-> "AGENCE", nom |-> "c"]),
    Adresses <- {[https |-> TRUE, locale |-> FALSE, www |-> TRUE],
                 [https |-> TRUE, locale |-> FALSE, www |-> FALSE],
                 [https |-> FALSE, locale |-> FALSE, www |-> FALSE],
                 [https |-> FALSE, locale |-> TRUE, www |-> FALSE]},
    MaxSecrets <- 2, Tolerance <- 3, Requetes <- {q1}, req <- kolabimo

Sure == [https |-> TRUE, locale |-> FALSE, www |-> FALSE]

\* The secrets of two companies, two requests at once.
SecretsDeWebhook == INSTANCE ConnexionKolabimo WITH
    Societes <- {s1, s2}, Titulaire <- (1 :> [type |-> "PROMOTEUR", nom |-> "a"]),
    Adresses <- {Sure},
    MaxSecrets <- 3, Tolerance <- 3, Requetes <- {q1, q2}, req <- kolabimo

NextSecrets ==
    \/ \E q \in {q1, q2} :
         \/ \E s \in {s1, s2} :
              \/ SecretsDeWebhook!RegenererSecret(q, s)
              \/ SecretsDeWebhook!LireCle(q, s, Sure, 1)
         \/ SecretsDeWebhook!EssayerCle(q) \/ SecretsDeWebhook!Enregistrer(q)
         \/ SecretsDeWebhook!Montrer(q) \/ SecretsDeWebhook!Interrompre(q)
    \/ SecretsDeWebhook!Supprimer(s1)

\* One invited company: two tries, two requests at once.
CodesDEntree == INSTANCE EspaceEntreprise WITH
    CODE_ESSAIS_MAX <- 2, MaxDemandes <- 1, MaxLiens <- 1, MaxCodes <- 2, Requetes <- {q1, q2},
    revoquee <- retiree, essais <- tentatives, demandes <- demandees, servis <- entres, code <- chiffres, ouvertes <- entrees, req <- visites

(***************************************************************************)
(* Pure functions                                                          *)
(***************************************************************************)
Calculs == INSTANCE MCCalculs

(***************************************************************************)
(* One regime per behaviour                                                *)
(***************************************************************************)
ASSUME DomainesAssumption ==
    /\ Plis!Domaines /\ Decisions!Domaines /\ Contrats!Domaines
    /\ Courriel!Domaines /\ Visee!Domaines /\ Cumul!Domaines /\ Rapport!Domaines
    /\ Abonnee!Domaines /\ Essai!Domaines
    /\ Adhesions!Domaines /\ Proprietaires!Domaines /\ Entrees!Domaines
    /\ Mandats!Domaines /\ Ventes!Domaines /\ Chaines!Domaines /\ Fichiers!Domaines
    /\ Adoptions!Domaines /\ Copies!Domaines /\ Fil!Domaines
    /\ Facteur!Domaines /\ Essais!Domaines
    /\ Droits!Domaines /\ Cloisons!Domaines /\ Dossier!Domaines
    /\ Lus!Domaines /\ Zones!Domaines
    /\ Catalogue!Domaines /\ Valeurs!Domaines /\ Terrain!Domaines /\ Annuaire!Domaines
    /\ Passeport!Domaines /\ Propositions!Domaines
    /\ Reunions!Domaines /\ Actions!Domaines
    /\ CleDApi!Domaines /\ SecretsDeWebhook!Domaines
    /\ CodesDEntree!Domaines

SansSoumissions ==
    /\ jour = NUL /\ soumission = NUL /\ invitations = NUL /\ offres = NUL
    /\ adjudication = NUL /\ decisions = NUL /\ contrats = NUL /\ consultation = NUL
SansLecture ==
    /\ messages = NUL /\ lus = NUL /\ factures = NUL /\ planifiees = NUL /\ lecture = NUL
SansFacturation ==
    /\ periode = NUL /\ stripe = NUL /\ sessions = NUL /\ evenements = NUL
    /\ abonnement = NUL /\ souscriptions = NUL /\ avertissement = NUL /\ envois = NUL
    /\ pannes = NUL /\ promesses = NUL /\ facturation = NUL
SansMembres ==
    /\ comptes = NUL /\ membres = NUL /\ acces = NUL /\ directionTravaux = NUL
    /\ liens = NUL /\ liste = NUL /\ adhesion = NUL
SansCourtage ==
    /\ reservations = NUL /\ mandats = NUL /\ commissions = NUL /\ courtage = NUL
SansGed ==
    /\ documents = NUL /\ deposes = NUL /\ cles = NUL /\ fichiers = NUL /\ ged = NUL
SansFacteur ==
    /\ compte = NUL /\ limites = NUL /\ defi = NUL /\ secrets = NUL /\ codes = NUL
    /\ prouves = NUL /\ servis = NUL /\ essais = NUL /\ instant = NUL /\ connexion = NUL
SansRapports == montants = NUL /\ suivis = NUL /\ controle = NUL
SansBudget == postes = NUL /\ versions = NUL /\ lignes = NUL /\ budget = NUL
SansDroits ==
    /\ profil = NUL /\ membre = NUL /\ droit = NUL /\ offre = NUL
    /\ exploitant = NUL /\ jeton = NUL
SansCloisons == tables = NUL /\ ecrites = NUL /\ pool = NUL /\ cloison = NUL
SansOperations == presents = NUL /\ creee = NUL /\ operation = NUL
SansReglements ==
    /\ communes = NUL /\ reglements = NUL /\ zones = NUL /\ textes = NUL
    /\ extractions = NUL /\ gestes = NUL /\ commune = NUL
SansFoncier ==
    /\ lots = NUL /\ parkings = NUL /\ vendus = NUL /\ parcelles = NUL /\ creees = NUL
    /\ pieces = NUL /\ depots = NUL /\ rattachements = NUL /\ foncier = NUL
SansPasseport == sources = NUL /\ equipements = NUL /\ attribues = NUL /\ passeport = NUL
SansSeances == seances = NUL /\ points = NUL /\ personnes = NUL /\ reunion = NUL
SansConnexions == connexions = NUL /\ tires = NUL /\ valables = NUL /\ montres = NUL /\ ouvertes = NUL /\ kolabimo = NUL
SansCodes == lien = NUL /\ retiree = NUL /\ chiffres = NUL /\ tentatives = NUL /\ demandees = NUL /\ essayes = NUL /\ entrees = NUL /\ entres = NUL /\ visites = NUL

Regimes ==
    [soumissions |-> {"plis", "decisions", "contrats"}, lecture |-> {"courriel", "visee", "cumul"},
     facturation |-> {"abonnee", "essai"}, membres |-> {"adhesions", "proprietaires", "entrees"},
     courtage |-> {"mandats", "ventes"}, ged |-> {"chaines", "fichiers"},
     budget |-> {"adoptions", "copies", "fil"}, facteur |-> {"facteur", "essais"},
     droits |-> {"droits"}, cloisons |-> {"cloisons"}, operations |-> {"dossier"},
     reglements |-> {"lus", "zones"}, foncier |-> {"catalogue", "valeurs", "terrain", "annuaire"},
     passeport |-> {"passeport", "propositions"},
     seances |-> {"reunions", "actions"},
     connexions |-> {"cles", "secrets"},
     codes |-> {"codes"},
     rapports |-> {"rapports"}, calculs |-> {"calculs"}]

Init ==
    /\ regime \in UNION {Regimes[k] : k \in DOMAIN Regimes}
    /\ IF regime \in Regimes.soumissions THEN TRUE ELSE SansSoumissions
    /\ IF regime \in Regimes.lecture THEN TRUE ELSE SansLecture
    /\ IF regime \in Regimes.facturation THEN TRUE ELSE SansFacturation
    /\ IF regime \in Regimes.membres THEN TRUE ELSE SansMembres
    /\ IF regime \in Regimes.courtage THEN TRUE ELSE SansCourtage
    /\ IF regime \in Regimes.ged THEN TRUE ELSE SansGed
    /\ IF regime \in Regimes.budget THEN TRUE ELSE SansBudget
    /\ IF regime \in Regimes.facteur THEN TRUE ELSE SansFacteur
    /\ IF regime \in Regimes.rapports THEN TRUE ELSE SansRapports
    /\ IF regime \in Regimes.droits THEN TRUE ELSE SansDroits
    /\ IF regime \in Regimes.cloisons THEN TRUE ELSE SansCloisons
    /\ IF regime \in Regimes.operations THEN TRUE ELSE SansOperations
    /\ IF regime \in Regimes.reglements THEN TRUE ELSE SansReglements
    /\ IF regime \in Regimes.foncier THEN TRUE ELSE SansFoncier
    /\ IF regime \in Regimes.passeport THEN TRUE ELSE SansPasseport
    /\ IF regime \in Regimes.seances THEN TRUE ELSE SansSeances
    /\ IF regime \in Regimes.connexions THEN TRUE ELSE SansConnexions
    /\ IF regime \in Regimes.codes THEN TRUE ELSE SansCodes
    /\ \/ regime = "plis" /\ Plis!Init
       \/ regime = "decisions" /\ Decisions!Init
       \/ regime = "contrats" /\ Contrats!Init
       \/ regime = "courriel" /\ Courriel!Init
       \/ regime = "visee" /\ Visee!Init
       \/ regime = "cumul" /\ Cumul!Init
       \/ regime = "abonnee" /\ Abonnee!Init
       \/ regime = "essai" /\ Essai!Init
       \/ regime = "adhesions" /\ Adhesions!Init
       \/ regime = "proprietaires" /\ Proprietaires!Init
       \/ regime = "entrees" /\ Entrees!Init
       \/ regime = "mandats" /\ Mandats!Init
       \/ regime = "ventes" /\ Ventes!Init
       \/ regime = "chaines" /\ Chaines!Init
       \/ regime = "fichiers" /\ Fichiers!Init
       \/ regime = "adoptions" /\ Adoptions!Init
       \/ regime = "copies" /\ Copies!Init
       \/ regime = "fil" /\ Fil!Init
       \/ regime = "facteur" /\ Facteur!Init
       \/ regime = "essais" /\ Essais!Init
       \/ regime = "rapports" /\ Rapport!Init
       \/ regime = "droits" /\ Droits!Init
       \/ regime = "cloisons" /\ Cloisons!Init
       \/ regime = "dossier" /\ Dossier!Init
       \/ regime = "lus" /\ Lus!Init
       \/ regime = "zones" /\ Zones!Init
       \/ regime = "catalogue" /\ Catalogue!Init
       \/ regime = "valeurs" /\ Valeurs!Init
       \/ regime = "terrain" /\ Terrain!Init
       \/ regime = "annuaire" /\ Annuaire!Init
       \/ regime = "passeport" /\ Passeport!Init
       \/ regime = "propositions" /\ Propositions!Init
       \/ regime = "reunions" /\ Reunions!Init
       \/ regime = "actions" /\ Actions!Init
       \/ regime = "cles" /\ CleDApi!Init
       \/ regime = "secrets" /\ SecretsDeWebhook!Init
       \/ regime = "codes" /\ CodesDEntree!Init
       \/ regime = "calculs"

\* The variables of the other families keep their value.
Figees(variables, famille) == IF regime \in famille THEN TRUE ELSE UNCHANGED variables
Hors ==
    /\ Figees(deSoumissions, Regimes.soumissions)
    /\ Figees(deLecture, Regimes.lecture)
    /\ Figees(deFacturation, Regimes.facturation)
    /\ Figees(deMembres, Regimes.membres)
    /\ Figees(deCourtage, Regimes.courtage)
    /\ Figees(deGed, Regimes.ged)
    /\ Figees(deBudget, Regimes.budget)
    /\ Figees(deFacteur, Regimes.facteur)
    /\ Figees(deRapports, Regimes.rapports)
    /\ Figees(deDroits, Regimes.droits)
    /\ Figees(deCloisons, Regimes.cloisons)
    /\ Figees(deOperations, Regimes.operations)
    /\ Figees(deReglements, Regimes.reglements)
    /\ Figees(deFoncier, Regimes.foncier)
    /\ Figees(dePasseport, Regimes.passeport)
    /\ Figees(deSeances, Regimes.seances)
    /\ Figees(deConnexions, Regimes.connexions)
    /\ Figees(deCodes, Regimes.codes)

Next ==
    /\ UNCHANGED regime
    /\ Hors
    /\ \/ regime = "plis" /\ Plis!Next
       \/ regime = "decisions" /\ Decisions!Next
       \/ regime = "contrats" /\ NextContrats
       \/ regime = "courriel" /\ NextCourriel
       \/ regime = "visee" /\ NextVisee
       \/ regime = "cumul" /\ NextCumul
       \/ regime = "abonnee" /\ NextAbonnee
       \/ regime = "essai" /\ NextEssai
       \/ regime = "adhesions" /\ NextAdhesions
       \/ regime = "proprietaires" /\ NextProprietaires
       \/ regime = "entrees" /\ NextEntrees
       \/ regime = "mandats" /\ (Mandats!Mandats(q1) \/ Mandats!Interrompre(q1))
       \/ regime = "ventes" /\ NextVentes
       \/ regime = "chaines" /\ Chaines!Next
       \/ regime = "fichiers" /\ NextFichiers
       \/ regime = "adoptions" /\ NextAdoptions
       \/ regime = "copies" /\ Copies!Next
       \/ regime = "fil" /\ NextFil
       \/ regime = "facteur" /\ Facteur!Next
       \/ regime = "essais" /\ NextEssais
       \/ regime = "rapports" /\ Rapport!Next
       \/ regime = "droits" /\ NextDroits
       \/ regime = "cloisons" /\ Cloisons!Next
       \/ regime = "dossier" /\ NextDossier
       \/ regime = "lus" /\ Lus!Next
       \/ regime = "zones" /\ Zones!Next
       \/ regime = "catalogue" /\ NextCatalogue
       \/ regime = "valeurs" /\ NextValeurs
       \/ regime = "terrain" /\ NextTerrain
       \/ regime = "annuaire" /\ NextAnnuaire
       \/ regime = "passeport" /\ Passeport!Next
       \/ regime = "propositions" /\ Propositions!Next
       \/ regime = "reunions" /\ NextReunions
       \/ regime = "actions" /\ NextActions
       \/ regime = "cles" /\ CleDApi!Next
       \/ regime = "secrets" /\ NextSecrets
       \/ regime = "codes" /\ CodesDEntree!Next

Spec == Init /\ [][Next]_toutes

(***************************************************************************)
(* Properties                                                              *)
(***************************************************************************)
\* The type invariants of the components, each in its regimes.
TypeOK ==
    /\ regime = "plis" => Plis!TypeOK
    /\ regime = "decisions" => Decisions!TypeOK
    /\ regime = "contrats" => Contrats!TypeOK
    /\ regime = "courriel" => Courriel!TypeOK
    /\ regime = "visee" => Visee!TypeOK
    /\ regime = "cumul" => Cumul!TypeOK
    /\ regime = "abonnee" => Abonnee!TypeOK
    /\ regime = "essai" => Essai!TypeOK
    /\ regime = "adhesions" => Adhesions!TypeOK
    /\ regime = "proprietaires" => Proprietaires!TypeOK
    /\ regime = "entrees" => Entrees!TypeOK
    /\ regime = "mandats" => Mandats!TypeOK
    /\ regime = "ventes" => Ventes!TypeOK
    /\ regime = "chaines" => Chaines!TypeOK
    /\ regime = "fichiers" => Fichiers!TypeOK
    /\ regime = "adoptions" => Adoptions!TypeOK
    /\ regime = "copies" => Copies!TypeOK
    /\ regime = "fil" => Fil!TypeOK
    /\ regime = "facteur" => Facteur!TypeOK
    /\ regime = "essais" => Essais!TypeOK
    /\ regime = "rapports" => Rapport!TypeOK
    /\ regime = "droits" => Droits!TypeOK
    /\ regime = "cloisons" => Cloisons!TypeOK
    /\ regime = "dossier" => Dossier!TypeOK
    /\ regime = "lus" => Lus!TypeOK
    /\ regime = "zones" => Zones!TypeOK
    /\ regime = "catalogue" => Catalogue!TypeOK
    /\ regime = "valeurs" => Valeurs!TypeOK
    /\ regime = "terrain" => Terrain!TypeOK
    /\ regime = "annuaire" => Annuaire!TypeOK
    /\ regime = "passeport" => Passeport!TypeOK
    /\ regime = "propositions" => Propositions!TypeOK
    /\ regime = "reunions" => Reunions!TypeOK
    /\ regime = "actions" => Actions!TypeOK
    /\ regime = "cles" => CleDApi!TypeOK
    /\ regime = "secrets" => SecretsDeWebhook!TypeOK
    /\ regime = "codes" => CodesDEntree!TypeOK

\* Soumissions, EspaceEntrepriseService, SoumissionsService and
\* ContratsService: a sealed bid opens when its day has come, an award, its
\* bid and its tender change together, and a contract attached to an award is
\* the one that award calls for, even with two requests at once.
SoumissionsTenues ==
    [][/\ regime = "plis" => Plis!OuvertureAHeure /\ Plis!DecisionFidele'
       /\ regime = "decisions" => Decisions!DecisionFidele'
       /\ regime = "contrats" => Contrats!ContratSuitDecision']_toutes

\* LectureFactures, EmailsEntrantsService and FacturesService.valider: with
\* two requests at once no invoice comes from a message nobody answers for,
\* and one request at a time what is billed was endorsed and ordered.
\* Lectures, Controles and References, the pure functions of an invoice: what is
\* kept of a reading comes from where the person is told, the findings agree
\* with the amounts, and a reference that is mistyped is refused.
FacturesJustifiees ==
    /\ regime = "courriel" => Courriel!IInv /\ Courriel!QuarantaineRetenue
    /\ regime = "visee" => Visee!SInv /\ Visee!FactureJustifiee
    /\ regime = "cumul" => Cumul!FactureJustifiee
    /\ regime = "rapports" => Rapport!SInv /\ Rapport!MontantSuivi
    /\ regime = "calculs" => Calculs!FacturesExactes

\* Facturation, FacturationService.synchroniser and avertirFinEssai: the
\* server ends up where Stripe is whatever fails on the way, and the end of a
\* trial is announced once although two paths announce it.
AbonnementTenu ==
    /\ regime = "abonnee" => Abonnee!SInv /\ Abonnee!AligneSurStripe
    /\ regime = "essai" => Essai!IInv /\ Essai!AvertiUneFois

\* Membres, AccesService.modifierMembre and InvitationsService: one request at
\* a time, an owner remains, and one link at most works for an address.
\* SecondFacteur, MfaService and Limiteur: a backup code serves once, a factor
\* in force has a proved secret, and no window of time holds more failures
\* than a key allows.  Droits, the guards over every route: who only reads
\* changes nothing, whatever the route.  Cloisonnement, TenantPrismaService
\* and the policies: even with two requests on one connection, a transaction
\* sees the rows of its company and no other.  ConnexionKolabimo,
\* ConnexionKolabimoService: a key in use was tried, one at a time, and a
\* secret that was shown was in force.  EspaceEntreprise, EspaceEntrepriseService: no code is
\* tried more often than it may be and one try more per request in flight.
AccesSains ==
    /\ regime = "adhesions" =>
          Adhesions!SInv /\ Adhesions!Administrable /\ Adhesions!UnSeulLien
    /\ regime = "entrees" => Entrees!IInv
    /\ regime = "proprietaires" => Proprietaires!SInv /\ Proprietaires!Administrable
    /\ regime = "facteur" => Facteur!SInv /\ Facteur!CodeUneFois /\ Facteur!FacteurProuve
    /\ regime = "essais" => Essais!EssaisBornes /\ Essais!FacteurProuve
    /\ regime = "droits" => Droits!LectureSeule /\ Droits!VoletTenu /\ Droits!ProfilTenu
    /\ regime = "cloisons" =>
          Cloisons!IInv /\ Cloisons!VoitLesSiennes /\ Cloisons!RefusParDefaut
    /\ regime = "cles" => CleDApi!SInv /\ CleDApi!CleEprouvee
    /\ regime = "secrets" => /\ SecretsDeWebhook!IInv /\ SecretsDeWebhook!SecretMontreVaut
                             /\ SecretsDeWebhook!SignatureDuMoment
    /\ regime = "codes" => CodesDEntree!EssaisBornes

\* Membres, InvitationsService.accepter: with two requests at once, a person
\* enters by one invitation that was still waiting.  Droits: a module that is
\* left stays read.  Cloisonnement: no row passes from a company to another.
AccesTenus ==
    [][/\ regime = "entrees" => Entrees!EntreeParInvitation
       /\ regime = "droits" => Droits!DonneesGardees
       /\ regime = "cloisons" => Cloisons!Etanche]_toutes

\* Courtage, CourtageService: one request at a time, no lot under two
\* exclusivities and no commission stated twice.  Ged, GedService and
\* SeancesService.genererPv: one chain per document and one document of
\* minutes, and no row without its file even with two requests at once.
\* Operations: an operation without pieces can go.  Reglements: one text and
\* one reading per regulation, and with two requests at once a zone applies
\* once validated.  Foncier: a parcel points at files that are there, and one
\* general contractor acts.  Passeport: nothing a person has not put there.
\* Seances: a point hangs on a post of its operation, and the three places
\* that say what is still to be done agree.  Consultations, Echeances and
\* Envois, the pure functions of a file: a party is shown what it may see and
\* no more, a warranty ends when it is due, and a call that leaves carries what
\* it says.
DossiersSains ==
    /\ regime = "mandats" => Mandats!SInv /\ Mandats!ExclusiviteTenue
    /\ regime = "ventes" => Ventes!SInv /\ Ventes!CommissionUnique
    /\ regime = "adoptions" => Adoptions!IInv
    /\ regime = "copies" => Copies!SInv
    /\ regime = "chaines" => /\ Chaines!SInv /\ Chaines!ChaineSuivie
                             /\ Chaines!PvSansSecond /\ Chaines!FichePresente
    /\ regime = "fichiers" => Fichiers!IInv /\ Fichiers!FichePresente
    /\ regime = "dossier" => Dossier!Effacable
    /\ regime = "lus" => Lus!SInv /\ Lus!CommuneUnique /\ Lus!TexteDuFichier /\ Lus!UneLecture
    /\ regime = "zones" => Zones!IInv /\ Zones!ZoneValidee
    /\ regime = "valeurs" => Valeurs!IInv
    /\ regime = "terrain" => Terrain!IInv /\ Terrain!PiecePresente
    /\ regime = "annuaire" => Annuaire!SInv /\ Annuaire!MandataireUnique
    /\ regime = "passeport" => Passeport!SInv
    /\ regime = "propositions" => Propositions!IInv /\ Propositions!RienDInvente
    /\ regime = "reunions" => Reunions!SInv /\ Reunions!PosteDeLOperation
    /\ regime = "actions" => Actions!SInv /\ Actions!SuiviAccorde
    /\ regime = "calculs" => Calculs!DossiersExacts

\* Montants and Bilans, and the pure functions they translate: the amounts,
\* ranks, scores, shares, balances and positions they give are those their
\* readers expect.
CalculsExacts == regime = "calculs" => Calculs!MontantsExacts

\* Budget, BudgetService and construireArbreCfc: with two requests at once, a
\* second version becomes current only beside one created since the others were
\* set aside; one at a time, one current version at most, never none again, and
\* a view that adds up.
BudgetTenu ==
    [][/\ regime = "adoptions" => Adoptions!AdoptionsExclusives
       /\ regime = "copies" => Copies!UneSeuleCourante' /\ Copies!CouranteGardee
       /\ regime = "fil" => Fil!FilRouge']_toutes

\* OperationsService.supprimer, FoncierService.modifierLot, the prices that
\* move and PasseportService.rejeter: an operation goes whole and without
\* accounting pieces, prices that are signed or reserved stay, and no
\* equipment is lost.  Seances: one request at a time, a new point takes a
\* rank of its own and a meeting that becomes held has its date.
DossiersTenus ==
    [][/\ regime = "dossier" => Dossier!PiecesGardees
       /\ regime = "catalogue" => Catalogue!PrixSigne
       /\ regime = "valeurs" => Valeurs!AssietteGardee
       /\ regime = "passeport" => Passeport!PasDePerte
       /\ regime = "reunions" => Reunions!RangNeuf /\ Reunions!TenueDatee]_toutes
=============================================================================
