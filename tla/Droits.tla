-------------------------------- MODULE Droits --------------------------------
(***************************************************************************)
(* Who reaches which route: the four guards of a request, what they read   *)
(* in the token and what they read in the database.                        *)
(*                                                                         *)
(* One account, its membership of one company, its access to one           *)
(* operation, the modules the company subscribed to.  The token keeps the  *)
(* role of the day it was issued; everything else is read at each call.    *)
(***************************************************************************)
EXTENDS Integers, FiniteSets, Routes

CONSTANTS
    Roles,       \* roles the member may have
    Volets,      \* parts of an operation an access may be limited to
    Souscrits,   \* commercial modules the company may subscribe to
    Exploitants, \* whether the account may be an operator of the platform
    NUL

Domaines ==
    /\ Souscrits \subseteq {"APPELS_DE_FONDS", "CONTROLE_FACTURES", "APPELS_OFFRES", "PASSEPORT"}
    /\ Exploitants \subseteq BOOLEAN
    /\ NUL \notin Roles

VARIABLES
    profil,         \* profile of the company
    membre,         \* role and activity of the membership
    acces,          \* access to the operation, or NUL
    souscriptions,  \* commercial module -> status, or NUL
    exploitant,     \* flag and second factor of the account
    jeton           \* token the account holds, or NUL

vars == <<profil, membre, acces, souscriptions, exploitant, jeton>>

Niveau == {"READ_ONLY", "OPERATE", "MANAGE"}
Acces_ == [level: Niveau, modules: SUBSET Volets]
Jeton == [role: Roles \cup {NUL}]

(***************************************************************************)
(* The modules a subscription opens                                        *)
(***************************************************************************)
Socle == {"FONCIER", "BUDGET_CFC", "ECARTS", "SUIVI_CHANTIER", "ACTEURS", "GED", "SEANCES"}

Techniques(code) ==
    CASE code = "APPELS_DE_FONDS" -> {"LOTS", "ACQUEREURS", "BILAN_PROMOTEUR", "ECHEANCIER",
                                      "APPELS_FONDS", "TRESORERIE", "COURTAGE"}
      [] code = "CONTROLE_FACTURES" -> {"FACTURES", "CONTRATS"}
      [] code = "APPELS_OFFRES" -> {"SOUMISSIONS", "ADJUDICATIONS", "CONTRATS"}
      [] code = "PASSEPORT" -> {"PASSEPORT"}

\* Mutant: the profile of the company is not looked at.
Vendus_ATous(code) == TRUE

\* Only a developer sells lots.
Vendus(code) == code = "APPELS_DE_FONDS" => profil = "PROMOTEUR"

\* The technical modules of the subscriptions in one of the statuses.
Couverts(statuts) ==
    UNION {Techniques(code) :
              code \in {c \in Souscrits : souscriptions[c] \in statuts /\ Vendus(c)}}

Actifs == Socle \cup Couverts({"ACTIF"})

\* Mutant: a module that was left is no longer read.
EnLecture_Rien == {}

\* A module two offers share stays open while one of them is.
EnLecture == Couverts({"RESILIE"}) \ Actifs

(***************************************************************************)
(* The guards, in their order                                              *)
(***************************************************************************)
Espace == jeton # NUL /\ jeton.role # NUL

AuthGuard(r) == r.public \/ (jeton # NUL /\ (r.sansEspace \/ Espace))

RolesGuard(r) == r.roles = {} \/ (Espace /\ jeton.role \in r.roles)

\* Mutant: a module left is written to as it is read.
AppModuleGuard_EnLecture(r) == r.module \in {AUCUN} \cup Actifs \cup EnLecture

AppModuleGuard(r) ==
    \/ r.module \in {AUCUN} \cup Actifs
    \/ ~r.ecrit /\ r.module \in EnLecture

Rang(niveau) == CASE niveau = "READ_ONLY" -> 1 [] niveau = "OPERATE" -> 2 [] niveau = "MANAGE" -> 3

EstAdministrateur == Espace /\ jeton.role \in Dirigeants

\* What the account may do on the operation, or NUL.
AccesOperation ==
    IF EstAdministrateur THEN [level |-> "MANAGE", modules |-> {}]
    ELSE IF Espace THEN acces ELSE NUL

\* Mutant: the part of the operation a route is about is not compared.
OperationAccessGuard_SansVolet(r) ==
    r.niveau # AUCUN =>
        /\ AccesOperation # NUL
        /\ Rang(AccesOperation.level) >= Rang(r.niveau)

\* Mutant: any access to the operation is enough.
OperationAccessGuard_ToutNiveau(r) ==
    r.niveau # AUCUN =>
        /\ AccesOperation # NUL
        /\ r.volet \in {AUCUN} \cup AccesOperation.modules \/ AccesOperation.modules = {}

OperationAccessGuard(r) ==
    r.niveau # AUCUN =>
        /\ AccesOperation # NUL
        /\ Rang(AccesOperation.level) >= Rang(r.niveau)
        /\ r.volet \in {AUCUN} \cup AccesOperation.modules \/ AccesOperation.modules = {}

\* The operator is read in the database, with a second factor in force.
ExploitantGuard(r) == r.exploitant => exploitant.drapeau /\ exploitant.facteur

Admise(r) ==
    /\ AuthGuard(r) /\ RolesGuard(r) /\ AppModuleGuard(r) /\ OperationAccessGuard(r)
    /\ ExploitantGuard(r)

(***************************************************************************)
(* What changes between two calls                                          *)
(***************************************************************************)
\* A token without a company, then one that carries the role of the day.
Identifier ==
    /\ jeton = NUL
    /\ jeton' = [role |-> NUL]
    /\ UNCHANGED <<profil, membre, acces, souscriptions, exploitant>>

ChoisirWorkspace ==
    /\ jeton # NUL
    /\ membre.actif
    /\ jeton' = [role |-> membre.role]
    /\ UNCHANGED <<profil, membre, acces, souscriptions, exploitant>>

\* Nothing withdraws a token but its age.
Expirer ==
    /\ jeton # NUL
    /\ jeton' = NUL
    /\ UNCHANGED <<profil, membre, acces, souscriptions, exploitant>>

ModifierMembre(role, actif) ==
    /\ membre' = [role |-> role, actif |-> actif]
    /\ UNCHANGED <<profil, acces, souscriptions, exploitant, jeton>>

AccorderAcces(a) ==
    /\ acces' = a
    /\ UNCHANGED <<profil, membre, souscriptions, exploitant, jeton>>

RevoquerAcces ==
    /\ acces # NUL
    /\ acces' = NUL
    /\ UNCHANGED <<profil, membre, souscriptions, exploitant, jeton>>

ChangerModule(code, statut) ==
    /\ statut = "RESILIE" => souscriptions[code] # NUL
    /\ souscriptions' = [souscriptions EXCEPT ![code] = statut]
    /\ UNCHANGED <<profil, membre, acces, exploitant, jeton>>

ChangerFacteur(facteur) ==
    /\ exploitant.drapeau
    /\ exploitant' = [exploitant EXCEPT !.facteur = facteur]
    /\ UNCHANGED <<profil, membre, acces, souscriptions, jeton>>

Init ==
    /\ profil \in {"PROMOTEUR", "ENTREPRISE_GENERALE"}
    /\ \E role \in Roles : membre = [role |-> role, actif |-> TRUE]
    /\ acces = NUL
    /\ souscriptions = [code \in Souscrits |-> NUL]
    /\ exploitant \in [drapeau: Exploitants, facteur: {FALSE}]
    /\ jeton = NUL

Next ==
    \/ Identifier \/ ChoisirWorkspace \/ Expirer
    \/ \E role \in Roles, actif \in BOOLEAN : ModifierMembre(role, actif)
    \/ \E a \in Acces_ : AccorderAcces(a)
    \/ RevoquerAcces
    \/ \E code \in Souscrits, statut \in {"ACTIF", "RESILIE"} : ChangerModule(code, statut)
    \/ \E facteur \in BOOLEAN : ChangerFacteur(facteur)

Spec == Init /\ [][Next]_vars

(***************************************************************************)
(* Properties                                                              *)
(***************************************************************************)
TypeOK ==
    /\ profil \in {"PROMOTEUR", "ENTREPRISE_GENERALE"}
    /\ membre \in [role: Roles, actif: BOOLEAN]
    /\ acces \in Acces_ \cup {NUL}
    /\ souscriptions \in [Souscrits -> {"ACTIF", "RESILIE", NUL}]
    /\ exploitant \in [drapeau: BOOLEAN, facteur: BOOLEAN]
    /\ jeton \in Jeton \cup {NUL}

\* The routes that change an operation.  Three of them ask for less: the
\* report of an invoice is written again by its readers, and two routes name
\* no level.
SansNiveau == {"recontroler", "supprimerParcelle", "synchroniser"}
Changent == {r \in Toutes : r.operation /\ Modifie(r) /\ r.nom \notin SansNiveau}

\* access.service.ts, estAdministrateur and assertAccesOperation, with the
\* decorators of every controller: who may only read an operation, or has no
\* access to it, changes nothing of it, whatever the route.
LectureSeule ==
    jeton # NUL /\ jeton.role \notin Dirigeants /\ (acces = NUL \/ acces.level = "READ_ONLY")
        => \A r \in Changent : ~Admise(r)

\* access.service.ts:27-29: an access limited to the tenders of an operation
\* shows neither its sales nor its calls nor its invoices.
Chiffrees == {r \in Ventes \cup AppelsDeFonds \cup Factures \cup Lecture \cup Paiements \cup
                     Boite \cup CourtageEtTresorerie : r.operation}
VoletTenu ==
    jeton # NUL /\ jeton.role \notin Dirigeants /\ acces # NUL /\ acces.modules = {"SOUMISSIONS"}
        => \A r \in Chiffrees : ~Admise(r)

\* catalogue.ts:75-76, decorators.ts:27-31: a general contractor reaches no
\* sale, no brokerage and no call for funds, even if one was subscribed to.
Commerciales == {r \in Acquereurs \cup Ventes \cup AppelsDeFonds \cup CourtageEtTresorerie : ~r.public}
ProfilTenu == profil = "ENTREPRISE_GENERALE" => \A r \in Commerciales : ~Admise(r)

\* modulesTechniques and assertModuleActif: a module that is left takes away
\* no reading, and takes away what is written only where no other offer still
\* in force opens it; what is written then changes nothing but what three
\* readings write (EcriventEnLisant).
Resilie(code) == souscriptions[code] = "ACTIF" /\ souscriptions'[code] = "RESILIE"
DonneesGardees ==
    \A code \in Souscrits : Resilie(code) =>
        \A r \in Toutes :
            /\ Admise(r) /\ ~r.ecrit => Admise(r)'
            /\ r.module \in Techniques(code) /\ r.ecrit /\ Admise(r)' =>
                  \E autre \in Souscrits \ {code} :
                      souscriptions[autre] = "ACTIF" /\ r.module \in Techniques(autre)
=============================================================================
