-------------------------------- MODULE Tables --------------------------------
(***************************************************************************)
(* How the tables hang together: the row through which a row joins its     *)
(* company, which the isolation policies follow and which cascades take    *)
(* with them, and the references that hold a row back.                     *)
(***************************************************************************)
EXTENDS Integers, TLC

(***************************************************************************)
(* The parent a policy follows, one definition per migration               *)
(***************************************************************************)
\* Tables that carry the company themselves.
Directes ==
    [t \in {"memberships", "actionnaires", "api_keys", "operations", "acteurs", "entreprises",
            "acquereurs", "factures", "documents", "audit_logs", "seances"} |-> "societes"]

ParOperation ==
    [t \in {"operation_acteurs", "biens", "cfc_nodes", "budget_versions", "soumissions",
            "contrats", "reservations", "echeancier_etapes", "parcelles", "ppes",
            "mandats_courtage", "operation_accesses"} |-> "operations"]

ParParent ==
    [lots |-> "biens", parkings |-> "lots", lignes_budget |-> "budget_versions",
     soumission_invitations |-> "soumissions", offres |-> "soumissions",
     adjudications |-> "soumissions", avenants |-> "contrats",
     paiements_fournisseurs |-> "factures", appels_de_fonds |-> "reservations",
     encaissements |-> "appels_de_fonds", seance_participants |-> "seances",
     seance_points |-> "seances", mandat_courtage_lots |-> "mandats_courtage",
     commissions_courtage |-> "mandats_courtage"]

Decoupages == [parcelle_decoupages |-> "parcelles"]
Frais == [taux_frais_acquisition |-> "societes"]
Dossiers == [reservation_acquereurs |-> "reservations"]
Kolabimo == [connexions_kolabimo |-> "societes"]
Modules == [souscriptions_modules |-> "societes", historique_modules |-> "societes"]
Passeport == [equipements |-> "operations", appels_ia |-> "societes"]
Abonnements == [abonnements_societes |-> "societes", emails_facturation |-> "societes"]
Consultation ==
    [offre_lignes |-> "offres", notes_offres |-> "offres",
     criteres_soumission |-> "soumissions", questions_soumission |-> "soumissions"]
Invitations == [invitations_membres |-> "societes"]
Capture == [facture_lignes |-> "factures", facture_visas |-> "factures"]
Courriels == [emails_entrants |-> "societes"]
Ordres == [ordres_paiement |-> "societes", lignes_ordre_paiement |-> "ordres_paiement"]
Employes == [entreprise_employes |-> "entreprises"]

Rattachement ==
    Directes @@ ParOperation @@ ParParent @@ Decoupages @@ Frais @@ Dossiers @@ Kolabimo
    @@ Modules @@ Passeport @@ Abonnements @@ Consultation @@ Invitations @@ Capture
    @@ Courriels @@ Ordres @@ Employes

\* How many rows a row hangs from before the one that carries the company.
Rang[t \in DOMAIN Rattachement] ==
    IF Rattachement[t] = "societes" THEN 0 ELSE Rang[Rattachement[t]] + 1

\* Every chain goes up, and reaches a company through three rows at most.
Etagees ==
    \A t \in DOMAIN Rattachement :
        /\ Rang[t] \in 0..3
        /\ Rattachement[t] # "societes" =>
              /\ Rattachement[t] \in DOMAIN Rattachement
              /\ Rang[Rattachement[t]] < Rang[t]

(***************************************************************************)
(* References inside one operation, by what the removal of the row they    *)
(* point at does                                                           *)
(***************************************************************************)
\* ON DELETE CASCADE: the row goes with it.
Cascades ==
    LET parent == Rattachement
    IN {<<t, parent[t]>> : t \in {u \in DOMAIN parent : parent[u] # "societes"}}
       \cup {<<t, "operations">> : t \in {"factures", "documents", "seances",
                                          "emails_entrants", "ordres_paiement"}}
       \cup {<<"lignes_ordre_paiement", "factures">>}

\* ON DELETE RESTRICT, on a column that is never null: the row stays.
Retenues ==
    {<<"lignes_budget", "cfc_nodes">>, <<"adjudications", "offres">>,
     <<"reservations", "lots">>, <<"appels_de_fonds", "echeancier_etapes">>,
     <<"mandat_courtage_lots", "lots">>, <<"commissions_courtage", "reservations">>}
=============================================================================
