-------------------------------- MODULE Routes --------------------------------
(***************************************************************************)
(* What every route of the API declares: the decorators of its handler,    *)
(* or else of its class.  `ecrit' is the method, anything but GET, and it  *)
(* is what the guard of the modules sees.                                  *)
(***************************************************************************)

AUCUN == "AUCUN"
Dirigeants == {"OWNER", "ADMIN"}
Conduite == Dirigeants \cup {"CHEF_PROJET"}
Chiffres == Dirigeants \cup {"COMPTABILITE"}

\* A route that declares nothing: an account and a workspace are enough.
Rien == [public |-> FALSE, sansEspace |-> FALSE, exploitant |-> FALSE, roles |-> {},
         module |-> AUCUN, niveau |-> AUCUN, volet |-> AUCUN,
         operation |-> FALSE, ecrit |-> FALSE, nom |-> AUCUN]

Publique == [Rien EXCEPT !.public = TRUE]
SansEspace == [Rien EXCEPT !.sansEspace = TRUE]
Exploitant == [SansEspace EXCEPT !.exploitant = TRUE]
De(roles) == [Rien EXCEPT !.roles = roles]
Module(module, roles) == [Rien EXCEPT !.module = module, !.roles = roles]
SurOperation(module, niveau, volet) ==
    [Rien EXCEPT !.operation = TRUE, !.module = module, !.niveau = niveau, !.volet = volet]
Par(roles, exigence) == [exigence EXCEPT !.roles = roles]

Lit(exigence, noms) == {[exigence EXCEPT !.nom = n] : n \in noms}
Ecrit(exigence, noms) == {[exigence EXCEPT !.nom = n, !.ecrit = TRUE] : n \in noms}

(***************************************************************************)
(* The controllers                                                         *)
(***************************************************************************)
Authentification ==
    Ecrit(Publique, {"login", "verifierMfa"})
    \cup Lit(SansEspace, {"etatMfa", "workspaces", "me"})
    \cup Ecrit(SansEspace, {"enroler", "activer", "desactiver", "choisirWorkspace"})

InvitationsPubliques ==
    Lit(Publique, {"lireInvitation"}) \cup Ecrit(Publique, {"accepterInvitation"})

Acces ==
    LET gere == SurOperation(AUCUN, "MANAGE", AUCUN)
    IN Lit(De(Dirigeants), {"listerInvitations", "listerMembres"})
       \cup Ecrit(De(Dirigeants), {"inviter", "renvoyer", "revoquerInvitation", "modifierMembre"})
       \cup Lit(Rien, {"mesDroits"})
       \cup Lit(gere, {"listerAccesOperation"})
       \cup Ecrit(gere, {"nommerDirectionTravaux", "accorderAcces", "revoquerAcces"})

Acteurs ==
    Lit(Module("ACTEURS", {}), {"listerActeurs"})
    \cup Ecrit(Module("ACTEURS", Conduite), {"creerActeur", "modifierActeur"})

OperationActeurs ==
    LET acteurs(niveau) == SurOperation("ACTEURS", niveau, "ACTEURS")
    IN Lit(acteurs("READ_ONLY"), {"listerPourOperation"})
       \cup Ecrit(acteurs("OPERATE"), {"rattacher", "detacher"})

Recherche ==
    Lit(Module("ACTEURS", Conduite), {"disponibiliteRecherche"})
    \cup Ecrit(Module("ACTEURS", Conduite), {"siteWeb"})

Budget ==
    LET cfc(niveau) == SurOperation("BUDGET_CFC", niveau, "BUDGET_CFC")
    IN Lit(cfc("READ_ONLY"), {"listerCfc", "listerVersions", "listerLignes",
                              "estimatifPdf", "vueBudget", "ventilation"})
       \cup Ecrit(cfc("OPERATE"), {"creerCfc", "modifierCfc", "creerVersion", "creerLigne",
                                   "saisirEstimatif", "ventiler", "modifierLigne",
                                   "supprimerLigne"})
       \cup Ecrit(cfc("MANAGE"), {"supprimerCfc", "importerTrame", "modifierVersion",
                                  "supprimerVersion"})

CourtageEtTresorerie ==
    LET courtage(niveau) == SurOperation("COURTAGE", niveau, "VENTES")
        vendeurs == Conduite \cup {"COMMERCIAL"}
    IN Lit(courtage("READ_ONLY"), {"listerMandats", "listerCommissions"})
       \cup Ecrit(Par(vendeurs, courtage("MANAGE")), {"creerMandat"})
       \cup Ecrit(Par(Conduite, courtage("MANAGE")), {"changerStatutMandat"})
       \cup Ecrit(Par(vendeurs, courtage("OPERATE")), {"constaterCommissions"})
       \cup Ecrit(Par(Chiffres, courtage("OPERATE")), {"changerStatutCommission"})
       \cup Lit(SurOperation("TRESORERIE", "READ_ONLY", "APPELS_FONDS"), {"tresorerie"})

Facturation ==
    Lit(De(Dirigeants), {"offre", "retour"})
    \cup Ecrit(De(Dirigeants), {"demarrer", "apercu", "ajouter", "resilier", "reprendre",
                                "portail"})
    \cup Ecrit(Publique, {"webhookStripe"})
    \cup Lit(Exploitant, {"listerTarifs"}) \cup Ecrit(Exploitant, {"fixerTarif"})

Modules ==
    Lit(Rien, {"etatModules"})
    \cup Lit(Exploitant, {"societes", "modulesDe"}) \cup Ecrit(Exploitant, {"changerModule"})

SurFactures(niveau) == SurOperation("FACTURES", niveau, "FACTURES")

Boite ==
    Lit(SurFactures("READ_ONLY"), {"boite", "emails"})
    \cup Ecrit(SurFactures("MANAGE"), {"renouvelerBoite", "ouvrirBoite", "libererEmail",
                                       "rejeterEmail"})
    \cup Ecrit(SurFactures("OPERATE"), {"deposerFactures"})

EmailsEntrants == Ecrit(Publique, {"recevoirEmail"})

\* One invoice: its file, its report, its lines and its endorsement.
Lecture ==
    Lit(SurFactures("READ_ONLY"), {"detailFacture", "fichierFacture"})
    \cup Ecrit(SurFactures("READ_ONLY"), {"recontroler"})
    \cup Ecrit(SurFactures("OPERATE"), {"relire", "fixerLignesFacture", "viserDirection"})

Factures ==
    LET decident == Conduite \cup {"COMPTABILITE"}
    IN Lit(SurFactures("READ_ONLY"), {"listerFactures", "controlerFacture"})
       \cup Ecrit(SurFactures("OPERATE"), {"creerFacture", "modifierFacture", "deposerPdf",
                                           "analyser"})
       \cup Ecrit(Par(decident, SurFactures("OPERATE")), {"validerFacture",
                                                          "changerStatutFacture"})
       \cup Ecrit(Par(Chiffres, SurFactures("OPERATE")), {"enregistrerPaiement"})

Paiements ==
    LET ordres(niveau) == SurOperation("FACTURES", niveau, "FACTURES")
    IN Lit(ordres("READ_ONLY"), {"aPayer", "listerOrdres", "lireOrdre"})
       \cup Ecrit(Par(Dirigeants, ordres("MANAGE")), {"fixerCompte", "viserOrdre"})
       \cup Ecrit(Par(Chiffres, ordres("MANAGE")), {"creerOrdre", "annulerOrdre"})
       \cup Lit(Par(Chiffres, ordres("MANAGE")), {"fichierOrdre"})

\* The decorators written for supprimerParcelle stand above deposerActe.
Terrain ==
    LET foncier(niveau) == SurOperation("FONCIER", niveau, "FONCIER")
    IN Lit(foncier("READ_ONLY"), {"listerParcelles", "listerBiens", "listerPpe", "registrePpe"})
       \cup Ecrit(foncier("OPERATE"), {"creerParcelle", "modifierParcelle", "ajouterDecoupage",
                                       "supprimerDecoupage", "lireRdppf", "creerBien",
                                       "modifierBien", "creerPpe"})
       \cup Ecrit(foncier("MANAGE"), {"deposerActe"})
       \cup Ecrit([Rien EXCEPT !.operation = TRUE], {"supprimerParcelle"})

Lots ==
    LET lots(niveau) == SurOperation("LOTS", niveau, "VENTES")
    IN Ecrit(lots("OPERATE"), {"creerLot", "modifierLot", "creerParking", "modifierParking"})
       \cup Ecrit(lots("MANAGE"), {"supprimerParking"})

Documents ==
    LET ged(niveau) == SurOperation("GED", niveau, "DOCUMENTS")
    IN Lit(ged("READ_ONLY"), {"listerDocuments", "versionsDocument", "telecharger"})
       \cup Ecrit(ged("OPERATE"), {"deposer", "deposerVersion", "modifierDocument"})
       \cup Ecrit(Par(Conduite, ged("MANAGE")), {"supprimerDocument"})

Seances ==
    LET seances(niveau) == SurOperation("SEANCES", niveau, "SEANCES")
    IN Lit(seances("READ_ONLY"), {"listerSeances", "actions", "detailSeance"})
       \cup Ecrit(seances("OPERATE"), {"creerSeance", "modifierSeance", "ajouterParticipant",
                                       "retirerParticipant", "ajouterPoint", "modifierPoint",
                                       "genererPv"})

Operations ==
    LET foncier == SurOperation("FONCIER", "MANAGE", "FONCIER")
        lue == SurOperation(AUCUN, "READ_ONLY", AUCUN)
    IN Lit(Rien, {"listerOperations"})
       \cup Ecrit(Module("FONCIER", Conduite), {"creerOperation"})
       \cup Ecrit(foncier, {"modifierOperation"})
       \cup Ecrit(Par(Dirigeants, foncier), {"supprimerOperation"})
       \cup Lit(lue, {"etapes", "lireOperation"})
       \cup Lit(SurOperation("BILAN_PROMOTEUR", "READ_ONLY", "VENTES"), {"bilan"})

Passeport ==
    LET passeport(niveau) == SurOperation("PASSEPORT", niveau, "PASSEPORT")
    IN Lit(passeport("READ_ONLY"), {"synthese", "exporter"})
       \cup Ecrit(passeport("OPERATE"), {"creerEquipement", "modifierEquipement",
                                         "validerEquipement", "rejeterEquipement", "proposer"})
       \cup Ecrit(passeport("MANAGE"), {"supprimerEquipement"})

WebhooksKolabimo == Ecrit(Publique, {"recevoirPrometis", "recevoirKolabimo"})

Passerelle ==
    Lit(De(Conduite), {"etatPasserelle", "journal"}) \cup Ecrit(De(Dirigeants), {"rejouer"})

Synchronisation ==
    Ecrit([Module("LOTS", Conduite) EXCEPT !.operation = TRUE], {"synchroniser"})

Kolabimo ==
    Lit(De(Conduite), {"etatKolabimo", "promotions", "promotion"})
    \cup Ecrit(De(Dirigeants), {"enregistrerConnexion", "testerConnexion", "regenererSecret",
                                "supprimerConnexion"})
    \cup Ecrit(Module("LOTS", Dirigeants), {"rattacherPromotion"})

Entreprises ==
    Lit(Module("SOUMISSIONS", {}), {"listerEntreprises"})
    \cup Ecrit(Module("SOUMISSIONS", Conduite \cup {"ECONOMISTE"}),
               {"creerEntreprise", "modifierEntreprise", "ajouterEmploye", "modifierEmploye",
                "retirerEmploye"})

Soumissions ==
    LET appels(niveau) == SurOperation("SOUMISSIONS", niveau, "SOUMISSIONS")
    IN Lit(appels("READ_ONLY"), {"listerSoumissions", "comparaison", "questions"})
       \cup Ecrit(appels("OPERATE"), {"creerSoumission", "modifierSoumission",
                                      "inviterEntreprise", "enregistrerOffre", "fixerCriteres",
                                      "noter", "fixerLignesOffre", "lireOffre", "repondre"})
       \cup Ecrit(appels("MANAGE"), {"envoyer", "revoquerEntreprise"})

Marches ==
    LET adjudications == SurOperation("ADJUDICATIONS", "MANAGE", "SOUMISSIONS")
        contrats(niveau) == SurOperation("CONTRATS", niveau, "CONTRATS")
    IN Ecrit(adjudications, {"adjuger", "annulerAdjudication"})
       \cup Lit(contrats("READ_ONLY"), {"listerContrats"})
       \cup Ecrit(contrats("MANAGE"), {"creerContrat", "supprimerAvenant"})
       \cup Ecrit(contrats("OPERATE"), {"modifierContrat", "creerAvenant"})

EspaceEntreprise ==
    Lit(Publique, {"dossier", "documentDossier"})
    \cup Ecrit(Publique, {"demanderCode", "ouvrirSession", "poserQuestion", "deposerOffre",
                          "decliner"})

Acquereurs ==
    LET vendeurs == Conduite \cup {"COMMERCIAL"}
    IN Lit(Module("ACQUEREURS", {}), {"listerAcquereurs"})
       \cup Ecrit(Module("ACQUEREURS", vendeurs), {"creerAcquereur", "modifierAcquereur"})

Ventes ==
    LET lots(niveau) == SurOperation("LOTS", niveau, "VENTES")
        etapes(niveau) == SurOperation("ECHEANCIER", niveau, "APPELS_FONDS")
    IN Lit(lots("READ_ONLY"), {"listerReservations"})
       \cup Ecrit(lots("OPERATE"), {"creerReservation", "modifierReservation"})
       \cup Lit(etapes("READ_ONLY"), {"listerEcheancier"})
       \cup Ecrit(etapes("MANAGE"), {"creerEtape", "modifierEtape"})
       \cup Ecrit(etapes("OPERATE"), {"changerAvancement"})

\* Mutant: calling for funds asks what reading the calls asks.
AppelsDeFonds_Ouverts ==
    LET appels(niveau) == SurOperation("APPELS_FONDS", niveau, "APPELS_FONDS")
    IN Lit(appels("READ_ONLY"), {"rattrapage", "listerAppels"})
       \cup Ecrit(appels("READ_ONLY"), {"declencher", "rattraper"})
       \cup Ecrit(appels("OPERATE"), {"encaisser", "relancer"})

AppelsDeFonds ==
    LET appels(niveau) == SurOperation("APPELS_FONDS", niveau, "APPELS_FONDS")
    IN Lit(appels("READ_ONLY"), {"rattrapage", "listerAppels"})
       \cup Ecrit(appels("MANAGE"), {"declencher", "rattraper"})
       \cup Ecrit(appels("OPERATE"), {"encaisser", "relancer"})

Societe == Lit(Rien, {"societeCourante"})
TauxAcquisition ==
    Lit(Rien, {"listerTaux"}) \cup Ecrit(De(Dirigeants), {"definirTaux", "supprimerTaux"})

\* The regulations of communes are a reference every company shares.
Reglements ==
    Lit(Rien, {"listerCommunes", "zone", "reglement"})
    \cup Ecrit(Rien, {"creerCommune", "enregistrerReglement", "deposerReglement",
                      "extraireZones", "validerZone", "lireReglement"})

Mail == Lit(De(Dirigeants), {"configurationMail"}) \cup Ecrit(De(Dirigeants), {"testerMail"})
Audit == Lit(De(Dirigeants), {"journalAudit"})
UsageIa == Lit(De(Dirigeants), {"usageIa"})
Sante == Lit(Publique, {"sante"})

Toutes ==
    UNION {Authentification, InvitationsPubliques, Acces, Acteurs, OperationActeurs, Recherche,
           Budget, CourtageEtTresorerie, Facturation, Modules, Boite, EmailsEntrants, Lecture,
           Factures, Paiements, Terrain, Lots, Documents, Seances, Operations, Passeport,
           WebhooksKolabimo, Passerelle, Synchronisation, Kolabimo, Entreprises, Soumissions,
           Marches, EspaceEntreprise, Acquereurs, Ventes, AppelsDeFonds, Societe,
           TauxAcquisition, Reglements, Mail, Audit, UsageIa, Sante}

\* Reading these changes the database: the nightly state of the modules, the
\* subscription on the way back from its payment, the invoices an order pays.
EcriventEnLisant == {"etatModules", "retour", "fichierOrdre"}
Modifie(r) == r.ecrit \/ r.nom \in EcriventEnLisant
=============================================================================
