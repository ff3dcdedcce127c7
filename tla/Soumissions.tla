---------------------------- MODULE Soumissions ----------------------------
(***************************************************************************)
(* One tender, from its invitations to the contract: the developer sends   *)
(* the file to companies, each deposits its bid under seal until the       *)
(* deadline, one bid is retained, and a contract follows the decision.     *)
(*                                                                         *)
(* As in AppelsDeFonds, a handler is a request that reads, keeps what it   *)
(* has read, and writes later in a READ COMMITTED transaction.  The        *)
(* database protects four keys: one invitation per company, one decision   *)
(* per tender, one contract per decision, and a contract's decision is     *)
(* either there or cleared.  Nothing makes the bid of a company unique.    *)
(***************************************************************************)
EXTENDS Integers, Sequences, FiniteSetsExt

CONSTANTS
    Entreprises,     \* companies of the directory
    Prix,            \* base amounts of a bid, in centimes
    Remises,         \* discounts of a bid, in per cent
    Lignes,          \* options and variants a bid may carry
    Avenants,        \* amounts of amendments, signed
    StatutsSaisis,   \* statuses a PATCH of the tender may write
    StatutsContrat,  \* statuses a PATCH of a contract may write
    Horizon,         \* bound: last day
    MaxOffres,       \* bound: bids recorded
    MaxDecisions,    \* bound: awards pronounced
    Requetes,        \* request slots: how many handlers run at once
    NUL,             \* SQL NULL
    OMIS             \* a field absent from the body of a PATCH

SoumissionStatut ==
    {"BROUILLON", "ENVOYEE", "OUVERTE", "EN_COMPARAISON", "ADJUGEE",
     "INFRUCTUEUSE", "ANNULEE"}
OffreStatut == {"ATTENDUE", "RECUE", "RELANCE", "RETENUE", "ECARTEE"}
ContratStatut == {"BROUILLON", "SIGNE", "EN_COURS", "RECEPTION", "SOLDE", "RESILIE"}

Domaines ==
    /\ Prix \subseteq Nat
    /\ Remises \subseteq 0..100 /\ 0 \in Remises
    /\ Lignes \subseteq [type: {"OPTION", "VARIANTE"}, montant: Nat]
    /\ Avenants \subseteq Int \ {0}
    /\ StatutsSaisis \subseteq SoumissionStatut
    /\ StatutsContrat \subseteq ContratStatut
    /\ Horizon \in Nat /\ MaxOffres \in Nat /\ MaxDecisions \in Nat
    /\ NUL \notin Nat
    /\ OMIS \notin Nat \cup BOOLEAN \cup SoumissionStatut \cup {NUL}

VARIABLES
    jour,            \* the calendar
    soumission,      \* the tender
    invitations,     \* company -> its invitation
    offres,          \* bids, by identifier
    adjudication,    \* the award in force, or NUL
    decisions,       \* how many awards have been pronounced
    contrats,        \* contracts, by identifier
    req              \* what each request in flight has read

vars == <<jour, soumission, invitations, offres, adjudication, decisions,
          contrats, req>>

(***************************************************************************)
(* Rows                                                                    *)
(***************************************************************************)
Date == 1..Horizon
Soumission == [statut: SoumissionStatut, limite: Date \cup {NUL}, scelle: BOOLEAN]

\* acces: what the dates of the invitation leave the company; one that has
\* declined gets no other link.  aRelancer: it neither answered nor was reminded.
Invitation == [acces: {"absente", "invitee", "envoyee", "revoquee", "refusee"},
               aRelancer: BOOLEAN]

Offre == [entreprise: Entreprises, montant: Prix \cup {NUL}, remise: Remises,
          lignes: SUBSET Lignes, retenues: SUBSET Lignes, statut: OffreStatut,
          source: {"SAISIE", "PORTAIL"}]

\* A variant replaces the base, an option comes on top, the discount is on
\* the whole, rounded to the centime.
MontantRetenu(montant, remise, retenues) ==
    LET variantes == {l \in retenues : l.type = "VARIANTE"}
        base == IF variantes = {} THEN montant ELSE (CHOOSE l \in variantes : TRUE).montant
        options == MapThenSumSet(LAMBDA l : l.montant, retenues \ variantes)
    IN ((base + options) * (100 - remise) + 50) \div 100

UneVariante(retenues) ==
    \A a, b \in retenues : a.type = "VARIANTE" /\ b.type = "VARIANTE" => a = b

Nets == {MontantRetenu(m, r, R) : m \in Prix, r \in Remises, R \in SUBSET Lignes}

\* numero: identifier of the award, never used again.
Adjudication == [numero: 1..MaxDecisions, offre: Nat, montant: Nets]

\* decision: the award the contract follows; 0 once the award is deleted.
Contrat == [entreprise: Entreprises, montant: Nets, statut: ContratStatut,
            decision: 0..MaxDecisions, avenants: SUBSET Avenants]

Requete ==
         [etat: {"libre"}]
    \cup [etat: {"session"}, e: Entreprises]
    \cup [etat: {"depot"}, e: Entreprises, offre: Nat]
    \cup [etat: {"saisie"}, e: Entreprises, offre: Nat, portail: BOOLEAN]
    \cup [etat: {"lignes"}, offre: Nat]
    \cup [etat: {"modification"}, lue: Soumission]
    \cup [etat: {"envoi"}, reste: SUBSET Entreprises, statut: SoumissionStatut,
          envoyees: BOOLEAN]
    \cup [etat: {"relance"}, e: Entreprises]
    \cup [etat: {"adjudication"}, offre: Nat, retenues: SUBSET Lignes, montant: Nets]
    \cup [etat: {"annulation"}, numero: 1..MaxDecisions]
    \cup [etat: {"contrat"}, numero: 1..MaxDecisions, entreprise: Entreprises,
          montant: Nets]
    \cup [etat: {"avenant"}, contrat: Nat]

Libre == [etat |-> "libre"]

Garder(q, r) == req' = [req EXCEPT ![q] = r]
Finir(q) == Garder(q, Libre)
En(q, etat) == req[q].etat = etat

(***************************************************************************)
(* Rules of the consultation                                               *)
(***************************************************************************)
EnConsultation == soumission.statut \in {"ENVOYEE", "OUVERTE"}
LimitePassee == soumission.limite # NUL /\ soumission.limite <= jour

\* A company with a link that still works may deposit, ask and decline.
DepotOuvert(e) ==
    /\ invitations[e].acces = "envoyee"
    /\ EnConsultation /\ ~LimitePassee

Scellee(o) ==
    /\ o.source = "PORTAIL" /\ soumission.scelle
    /\ soumission.limite # NUL /\ soumission.limite > jour

\* The bid a look-up by company finds: any of them, 0 when there is none.
OffresDe(e) == {n \in DOMAIN offres : offres[n].entreprise = e}
Trouvee(e, n) == IF OffresDe(e) = {} THEN n = 0 ELSE n \in OffresDe(e)

\* Mutant: a field left out of the body is written all the same.
Donne_Ecrase(champ, courant) == champ

\* A field left out of the body keeps its value.
Donne(champ, courant) == IF champ = OMIS THEN courant ELSE champ
Repondue(e) == [invitations EXCEPT ![e].aRelancer = FALSE]

\* Writes a bid over the one that was found, or records a new one.
Ecrire(n, o) ==
    IF n = 0 THEN /\ Len(offres) < MaxOffres
                  /\ offres' = Append(offres, o)
             ELSE offres' = [offres EXCEPT ![n] = o]

(***************************************************************************)
(* EspaceEntrepriseService: what a company does                            *)
(***************************************************************************)
\* The session is read again at each call, and the deadline checked on it.
LireSession(q, e) ==
    /\ En(q, "libre")
    /\ DepotOuvert(e)
    /\ Garder(q, [etat |-> "session", e |-> e])
    /\ UNCHANGED <<jour, soumission, invitations, offres, adjudication, decisions, contrats>>

\* The file is stored, then the transaction looks for a bid to replace.
LireDepot(q, n) ==
    /\ En(q, "session")
    /\ Trouvee(req[q].e, n)
    /\ Garder(q, [etat |-> "depot", e |-> req[q].e, offre |-> n])
    /\ UNCHANGED <<jour, soumission, invitations, offres, adjudication, decisions, contrats>>

DeposerOffre(q, montant, remise, lignes) ==
    /\ En(q, "depot")
    /\ Ecrire(req[q].offre,
              [entreprise |-> req[q].e, montant |-> montant, remise |-> remise,
               lignes |-> lignes, retenues |-> {}, statut |-> "RECUE",
               source |-> "PORTAIL"])
    /\ invitations' = Repondue(req[q].e)
    /\ Finir(q)
    /\ UNCHANGED <<jour, soumission, adjudication, decisions, contrats>>

Decliner(q) ==
    /\ En(q, "session")
    /\ invitations' = [invitations EXCEPT ![req[q].e].acces = "refusee"]
    /\ Finir(q)
    /\ UNCHANGED <<jour, soumission, offres, adjudication, decisions, contrats>>

(***************************************************************************)
(* SoumissionsService and ConsultationService: what the developer does     *)
(***************************************************************************)
\* Inviting again only changes the date of the invitation.
Inviter(e) ==
    /\ invitations[e].acces = "absente"
    /\ invitations' = [invitations EXCEPT ![e].acces = "invitee"]
    /\ UNCHANGED <<jour, soumission, offres, adjudication, decisions, contrats, req>>

Revoquer(e) ==
    /\ invitations[e].acces \in {"invitee", "envoyee"}
    /\ invitations' = [invitations EXCEPT ![e].acces = "revoquee"]
    /\ UNCHANGED <<jour, soumission, offres, adjudication, decisions, contrats, req>>

LireModification(q) ==
    /\ En(q, "libre")
    /\ soumission.statut # "ADJUGEE"
    /\ Garder(q, [etat |-> "modification", lue |-> soumission])
    /\ UNCHANGED <<jour, soumission, invitations, offres, adjudication, decisions, contrats>>

\* Mutant: the deadline may be brought forward.
Modifier_Avance(q, statut, limite, scelle) ==
    LET lue == req[q].lue
        envoyee == lue.statut \in {"ENVOYEE", "OUVERTE"}
    IN /\ En(q, "modification")
       /\ ~(envoyee /\ scelle = FALSE /\ lue.scelle)
       /\ soumission' = [statut |-> Donne(statut, soumission.statut),
                         limite |-> Donne(limite, soumission.limite),
                         scelle |-> Donne(scelle, soumission.scelle)]
       /\ Finir(q)
       /\ UNCHANGED <<jour, invitations, offres, adjudication, decisions, contrats>>

\* Once sent, the seal stays and the deadline is only put off.
Modifier(q, statut, limite, scelle) ==
    LET lue == req[q].lue
        envoyee == lue.statut \in {"ENVOYEE", "OUVERTE"}
    IN /\ En(q, "modification")
       /\ ~(envoyee /\ scelle = FALSE /\ lue.scelle)
       /\ envoyee /\ limite # OMIS /\ lue.limite # NUL
              => limite # NUL /\ limite >= lue.limite
       /\ soumission' = [statut |-> Donne(statut, soumission.statut),
                         limite |-> Donne(limite, soumission.limite),
                         scelle |-> Donne(scelle, soumission.scelle)]
       /\ Finir(q)
       /\ UNCHANGED <<jour, invitations, offres, adjudication, decisions, contrats>>

\* The companies named that have an e-mail address and have not declined.
LireEnvoi(q, E) ==
    /\ En(q, "libre")
    /\ soumission.statut \in {"BROUILLON", "ENVOYEE", "OUVERTE"}
    /\ soumission.limite # NUL /\ ~LimitePassee
    /\ \A e \in E : invitations[e].acces \notin {"absente", "refusee"}
    /\ Garder(q, [etat |-> "envoi", reste |-> E, statut |-> soumission.statut,
                  envoyees |-> FALSE])
    /\ UNCHANGED <<jour, soumission, invitations, offres, adjudication, decisions, contrats>>

\* One transaction, then one e-mail, for each company; an e-mail that does
\* not leave ends the request there.
EnvoyerUne(q, e) ==
    /\ En(q, "envoi") /\ e \in req[q].reste
    /\ invitations' = [invitations EXCEPT ![e].acces = IF @ = "refusee" THEN @ ELSE "envoyee"]
    /\ Garder(q, [req[q] EXCEPT !.reste = @ \ {e}, !.envoyees = TRUE])
    /\ UNCHANGED <<jour, soumission, offres, adjudication, decisions, contrats>>

FinEnvoi(q) ==
    /\ En(q, "envoi") /\ req[q].reste = {}
    /\ soumission' = IF req[q].envoyees /\ req[q].statut = "BROUILLON"
                     THEN [soumission EXCEPT !.statut = "ENVOYEE"] ELSE soumission
    /\ Finir(q)
    /\ UNCHANGED <<jour, invitations, offres, adjudication, decisions, contrats>>

\* The nightly pass picks the invitations without answer near the deadline,
LireRelance(q, e) ==
    /\ En(q, "libre")
    /\ EnConsultation /\ soumission.limite # NUL /\ ~LimitePassee
    /\ invitations[e].acces = "envoyee" /\ invitations[e].aRelancer
    /\ Garder(q, [etat |-> "relance", e |-> e])
    /\ UNCHANGED <<jour, soumission, invitations, offres, adjudication, decisions, contrats>>

\* and marks each of them before the e-mail leaves, if nobody did.
Relancer(q) ==
    /\ En(q, "relance")
    /\ invitations' = [invitations EXCEPT ![req[q].e].aRelancer = FALSE]
    /\ Finir(q)
    /\ UNCHANGED <<jour, soumission, offres, adjudication, decisions, contrats>>

LireSaisie(q, e, n) ==
    /\ En(q, "libre")
    /\ soumission.statut # "ADJUGEE"
    /\ Trouvee(e, n)
    /\ n # 0 => ~Scellee(offres[n])
    /\ Garder(q, [etat |-> "saisie", e |-> e, offre |-> n,
                  portail |-> n # 0 /\ offres[n].source = "PORTAIL"])
    /\ UNCHANGED <<jour, soumission, invitations, offres, adjudication, decisions, contrats>>

\* The developer records a bid it received, or corrects one; of a bid the
\* company deposited it changes the status only, never the amounts.
SaisirOffre(q, montant, remise, statut) ==
    LET n == req[q].offre
        nouvelle == [entreprise |-> req[q].e, montant |-> NUL, remise |-> 0,
                     lignes |-> {}, retenues |-> {}, statut |-> "ATTENDUE",
                     source |-> "SAISIE"]
    IN /\ En(q, "saisie")
       /\ req[q].portail => montant = OMIS /\ remise = OMIS
       /\ Ecrire(n, [(IF n = 0 THEN nouvelle ELSE offres[n])
                        EXCEPT !.montant = Donne(montant, @),
                               !.remise = Donne(remise, @),
                               !.statut = Donne(statut, @)])
       /\ invitations' = IF invitations[req[q].e].acces = "absente" THEN invitations
                         ELSE Repondue(req[q].e)
       /\ Finir(q)
       /\ UNCHANGED <<jour, soumission, adjudication, decisions, contrats>>

LireLignes(q, n) ==
    /\ En(q, "libre")
    /\ soumission.statut # "ADJUGEE"
    /\ offres[n].source = "SAISIE"
    /\ Garder(q, [etat |-> "lignes", offre |-> n])
    /\ UNCHANGED <<jour, soumission, invitations, offres, adjudication, decisions, contrats>>

FixerLignes(q, lignes) ==
    /\ En(q, "lignes")
    /\ offres' = [offres EXCEPT ![req[q].offre].lignes = lignes,
                               ![req[q].offre].retenues = {}]
    /\ Finir(q)
    /\ UNCHANGED <<jour, soumission, invitations, adjudication, decisions, contrats>>

(***************************************************************************)
(* ContratsService                                                         *)
(***************************************************************************)
SansContrat(numero) == \A n \in DOMAIN contrats : contrats[n].decision # numero

\* Nothing is awarded while a bid is sealed: it would be deciding without
\* having read everything.  The status of the tender is not looked at.
LireAdjudication(q, n, retenues) ==
    /\ En(q, "libre")
    /\ adjudication = NUL
    /\ \A o \in DOMAIN offres : ~Scellee(offres[o])
    /\ offres[n].montant # NUL /\ offres[n].montant > 0
    /\ retenues \subseteq offres[n].lignes /\ UneVariante(retenues)
    /\ Garder(q, [etat |-> "adjudication", offre |-> n, retenues |-> retenues,
                  montant |-> MontantRetenu(offres[n].montant, offres[n].remise, retenues)])
    /\ UNCHANGED <<jour, soumission, invitations, offres, adjudication, decisions, contrats>>

\* Mutant: the other bids keep their status.
Jugee_Seule(o, n, retenues) ==
    IF o = n THEN [offres[o] EXCEPT !.statut = "RETENUE", !.retenues = retenues]
             ELSE offres[o]

Jugee(o, n, retenues) ==
    IF o = n THEN [offres[o] EXCEPT !.statut = "RETENUE", !.retenues = retenues]
             ELSE [offres[o] EXCEPT !.statut = "ECARTEE"]

\* Tender, bid retained and bids set aside change together; the key of the
\* awards refuses a second one.
Adjuger(q) ==
    /\ En(q, "adjudication")
    /\ adjudication = NUL /\ decisions < MaxDecisions
    /\ decisions' = decisions + 1
    /\ adjudication' = [numero |-> decisions + 1, offre |-> req[q].offre,
                        montant |-> req[q].montant]
    /\ soumission' = [soumission EXCEPT !.statut = "ADJUGEE"]
    /\ offres' = [o \in DOMAIN offres |-> Jugee(o, req[q].offre, req[q].retenues)]
    /\ Finir(q)
    /\ UNCHANGED <<jour, invitations, contrats>>

LireAnnulation(q) ==
    /\ En(q, "libre")
    /\ adjudication # NUL /\ SansContrat(adjudication.numero)
    /\ Garder(q, [etat |-> "annulation", numero |-> adjudication.numero])
    /\ UNCHANGED <<jour, soumission, invitations, offres, adjudication, decisions, contrats>>

\* A contract written meanwhile loses its decision: the key is set to NULL.
Annuler(q) ==
    /\ En(q, "annulation")
    /\ adjudication # NUL /\ adjudication.numero = req[q].numero
    /\ adjudication' = NUL
    /\ contrats' = [n \in DOMAIN contrats |->
          IF contrats[n].decision = req[q].numero THEN [contrats[n] EXCEPT !.decision = 0]
                                                  ELSE contrats[n]]
    /\ soumission' = [soumission EXCEPT !.statut = "EN_COMPARAISON"]
    /\ offres' = [o \in DOMAIN offres |->
          [offres[o] EXCEPT !.statut = "RECUE", !.retenues = {}]]
    /\ Finir(q)
    /\ UNCHANGED <<jour, invitations, decisions>>

LireContrat(q) ==
    /\ En(q, "libre")
    /\ adjudication # NUL /\ SansContrat(adjudication.numero)
    /\ Garder(q, [etat |-> "contrat", numero |-> adjudication.numero,
                  entreprise |-> offres[adjudication.offre].entreprise,
                  montant |-> adjudication.montant])
    /\ UNCHANGED <<jour, soumission, invitations, offres, adjudication, decisions, contrats>>

\* Mutant: the contract is attached to the award in force when it is written.
CreerContrat_EnVigueur(q, statut) ==
    /\ En(q, "contrat")
    /\ adjudication # NUL /\ SansContrat(adjudication.numero)
    /\ contrats' = Append(contrats,
          [entreprise |-> req[q].entreprise, montant |-> req[q].montant,
           statut |-> statut, decision |-> adjudication.numero, avenants |-> {}])
    /\ Finir(q)
    /\ UNCHANGED <<jour, soumission, invitations, offres, adjudication, decisions>>

\* Company and amount are those of the award, which must still be there and
\* without contract: the keys see to it.
CreerContrat(q, statut) ==
    /\ En(q, "contrat")
    /\ adjudication # NUL /\ adjudication.numero = req[q].numero
    /\ SansContrat(req[q].numero)
    /\ contrats' = Append(contrats,
          [entreprise |-> req[q].entreprise, montant |-> req[q].montant,
           statut |-> statut, decision |-> req[q].numero, avenants |-> {}])
    /\ Finir(q)
    /\ UNCHANGED <<jour, soumission, invitations, offres, adjudication, decisions>>

ModifierContrat(n, statut) ==
    /\ contrats' = [contrats EXCEPT ![n].statut = statut]
    /\ UNCHANGED <<jour, soumission, invitations, offres, adjudication, decisions, req>>

LireAvenant(q, n) ==
    /\ En(q, "libre")
    /\ contrats[n].statut # "RESILIE"
    /\ Garder(q, [etat |-> "avenant", contrat |-> n])
    /\ UNCHANGED <<jour, soumission, invitations, offres, adjudication, decisions, contrats>>

CreerAvenant(q, montant) ==
    /\ En(q, "avenant")
    /\ contrats' = [contrats EXCEPT ![req[q].contrat].avenants = @ \cup {montant}]
    /\ Finir(q)
    /\ UNCHANGED <<jour, soumission, invitations, offres, adjudication, decisions>>

SupprimerAvenant(n, montant) ==
    /\ montant \in contrats[n].avenants
    /\ contrats' = [contrats EXCEPT ![n].avenants = @ \ {montant}]
    /\ UNCHANGED <<jour, soumission, invitations, offres, adjudication, decisions, req>>

\* A refusal, a key already there, an e-mail that fails or a crash: what was
\* not committed is rolled back, what was committed stays.
Interrompre(q) ==
    /\ ~En(q, "libre")
    /\ Finir(q)
    /\ UNCHANGED <<jour, soumission, invitations, offres, adjudication, decisions, contrats>>

Avancer ==
    /\ jour < Horizon
    /\ jour' = jour + 1
    /\ UNCHANGED <<soumission, invitations, offres, adjudication, decisions, contrats, req>>

(***************************************************************************)
(* Specification                                                           *)
(***************************************************************************)
\* A tender as it is created, companies not yet invited.
Init ==
    /\ jour = 0
    /\ soumission \in [statut: {"BROUILLON"}, limite: Date \cup {NUL}, scelle: BOOLEAN]
    /\ invitations = [e \in Entreprises |->
          [acces |-> "absente", aRelancer |-> TRUE]]
    /\ offres = <<>>
    /\ adjudication = NUL /\ decisions = 0
    /\ contrats = <<>>
    /\ req = [q \in Requetes |-> Libre]

Portail(q) ==
    \/ \E e \in Entreprises : LireSession(q, e)
    \/ \E n \in 0..MaxOffres : LireDepot(q, n)
    \/ \E m \in Prix, r \in Remises, L \in SUBSET Lignes : DeposerOffre(q, m, r, L)
    \/ Decliner(q)

Dossier(q) ==
    \/ LireModification(q)
    \/ \E s \in StatutsSaisis \cup {OMIS}, l \in Date \cup {NUL, OMIS}, c \in BOOLEAN \cup {OMIS} :
          Modifier(q, s, l, c)
    \/ \E E \in SUBSET Entreprises : LireEnvoi(q, E)
    \/ \E e \in Entreprises : EnvoyerUne(q, e) \/ LireRelance(q, e)
    \/ FinEnvoi(q)
    \/ Relancer(q)
    \/ \E e \in Entreprises, n \in 0..MaxOffres : LireSaisie(q, e, n)
    \/ \E m \in Prix \cup {NUL, OMIS}, r \in Remises \cup {OMIS}, s \in {"RECUE", "ECARTEE", OMIS} :
          SaisirOffre(q, m, r, s)
    \/ \E n \in DOMAIN offres : LireLignes(q, n)
    \/ \E L \in SUBSET Lignes : FixerLignes(q, L)

Decision(q) ==
    \/ \E n \in DOMAIN offres, R \in SUBSET Lignes : LireAdjudication(q, n, R)
    \/ Adjuger(q)
    \/ LireAnnulation(q)
    \/ Annuler(q)
    \/ LireContrat(q)
    \/ \E s \in {"BROUILLON", "SIGNE"} : CreerContrat(q, s)
    \/ \E n \in DOMAIN contrats : LireAvenant(q, n)
    \/ \E a \in Avenants : CreerAvenant(q, a)

Immediat ==
    \/ \E e \in Entreprises : Inviter(e) \/ Revoquer(e)
    \/ \E n \in DOMAIN contrats, s \in StatutsContrat : ModifierContrat(n, s)
    \/ \E n \in DOMAIN contrats, a \in Avenants : SupprimerAvenant(n, a)
    \/ Avancer

Next == Immediat \/ \E q \in Requetes : Portail(q) \/ Dossier(q) \/ Decision(q) \/ Interrompre(q)

Spec == Init /\ [][Next]_vars

(***************************************************************************)
(* Properties that hold whatever runs at the same time                     *)
(***************************************************************************)
\* Every row and every request in flight has the shape the schema gives it.
TypeOK ==
    /\ jour \in 0..Horizon
    /\ soumission \in Soumission
    /\ invitations \in [Entreprises -> Invitation]
    /\ offres \in Seq(Offre)
    /\ adjudication \in Adjudication \cup {NUL}
    /\ decisions \in 0..MaxDecisions
    /\ contrats \in Seq(Contrat)
    /\ req \in [Requetes -> Requete]

\* creerContratDepuisAdjudication: a contract that diverged from the award
\* would break the thread between what is awarded and what is ordered.  A
\* contract attached to an award has its company and its amount, and an award
\* has one contract, while awards are withdrawn and pronounced again.
ContratSuitDecision ==
    /\ \A n \in DOMAIN contrats : contrats[n].decision # 0 =>
          /\ adjudication # NUL /\ contrats[n].decision = adjudication.numero
          /\ contrats[n].montant = adjudication.montant
          /\ contrats[n].entreprise = offres[adjudication.offre].entreprise
    /\ \A m, n \in DOMAIN contrats :
          contrats[m].decision # 0 /\ contrats[m].decision = contrats[n].decision => m = n

(***************************************************************************)
(* Properties the handlers keep one at a time                              *)
(***************************************************************************)
\* offreScellee, modifierSoumission: as long as the tender is out, a sealed
\* bid opens because its day has come and for no other reason, whatever is
\* edited, deposited, typed in and awarded.
OuvertureAHeure ==
    \A n \in DOMAIN offres :
        Scellee(offres[n]) /\ ~Scellee(offres[n])' => LimitePassee' \/ ~EnConsultation

PliOuvertAHeure == [][OuvertureAHeure]_vars

\* adjuger, annulerAdjudication: everything changes at once, so that no
\* intermediate state remains.  While an award stands the tender is awarded,
\* its bid alone is retained, the amount is still what that bid comes to, and
\* no company is compared twice.
DecisionFidele ==
    /\ \A m, n \in DOMAIN offres : offres[m].entreprise = offres[n].entreprise => m = n
    /\ adjudication # NUL =>
          LET o == offres[adjudication.offre]
          IN /\ soumission.statut = "ADJUGEE"
             /\ adjudication.montant = MontantRetenu(o.montant, o.remise, o.retenues)
             /\ \A n \in DOMAIN offres :
                  offres[n].statut = IF n = adjudication.offre THEN "RETENUE" ELSE "ECARTEE"

(***************************************************************************)
(* The inductive invariant behind ContratSuitDecision                      *)
(***************************************************************************)
\* What a request r will write on is there, and is about the company it names;
\* the contract it will write is the one its award calls for, if that award
\* still stands.
Vise(r) == r.offre \in DOMAIN offres /\ offres[r.offre].entreprise = r.e

Sain(r) ==
    /\ r.etat \in {"depot", "saisie"} => r.offre = 0 \/ Vise(r)
    /\ r.etat \in {"lignes", "adjudication"} => r.offre \in DOMAIN offres
    /\ r.etat = "avenant" => r.contrat \in DOMAIN contrats
    /\ r.etat = "contrat" =>
          /\ r.numero <= decisions
          /\ adjudication # NUL /\ adjudication.numero = r.numero =>
                /\ r.montant = adjudication.montant
                /\ r.entreprise = offres[adjudication.offre].entreprise

\* The award that stands is the last one pronounced, on a bid that is there.
DerniereDecision ==
    adjudication # NUL => adjudication.numero = decisions /\ adjudication.offre \in DOMAIN offres

IInv == TypeOK /\ DerniereDecision /\ (\A q \in Requetes : Sain(req[q])) /\ ContratSuitDecision

(***************************************************************************)
(* The one behind DecisionFidele and PliOuvertAHeure                       *)
(***************************************************************************)
\* What a request that runs alone has read is still so when it writes: nothing
\* is awarded under a tender it edits or a bid it writes, nobody else bids
\* for its company, and the amount it awards is what the bid comes to.
Actuel(r) ==
    /\ r.etat \in {"session", "depot", "modification", "envoi", "saisie", "lignes",
                   "adjudication"} => adjudication = NUL
    /\ r.etat = "modification" => r.lue = soumission
    /\ r.etat \in {"depot", "saisie"} /\ r.offre = 0 => OffresDe(r.e) = {}
    /\ r.etat = "adjudication" =>
          r.montant = MontantRetenu(offres[r.offre].montant, offres[r.offre].remise, r.retenues)

SInv == IInv /\ (\A q \in Requetes : Actuel(req[q])) /\ DecisionFidele
=============================================================================
