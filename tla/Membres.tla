------------------------------- MODULE Membres -------------------------------
(***************************************************************************)
(* Who belongs to a company: people invited by a link, members whose role  *)
(* and activity change, their access to one operation, and the member who  *)
(* directs its works.                                                      *)
(*                                                                         *)
(* A person is an e-mail address.  The database protects the link of an    *)
(* invitation, one account per address and one membership per account; a   *)
(* request reads, keeps what it has read, and writes later.                *)
(***************************************************************************)
EXTENDS Integers, Sequences, FiniteSets

CONSTANTS
    Personnes,       \* addresses
    Fondateurs,      \* owners from the start
    MaxInvitations,  \* bound: invitations written
    MaxLiens,        \* bound: links drawn
    Requetes,        \* request slots
    NUL, OMIS        \* SQL NULL, and a field left out of a body


VARIABLES
    comptes,           \* addresses that have an account
    membres,           \* person -> membership, or NUL
    acces,             \* person -> access to the operation, or NUL
    directionTravaux,  \* member who directs the works, or NUL
    invitations,       \* invitations, by identifier
    liens,             \* links drawn
    req                \* what each request in flight has read

societe == <<comptes, membres, acces, directionTravaux>>
vars == <<societe, invitations, liens, req>>

(***************************************************************************)
(* Rows                                                                    *)
(***************************************************************************)
\* One role that owns, one that manages, one limited to what is opened.
Role == {"OWNER", "ADMIN", "EXTERNE"}
\* An access that reads, and one that endorses invoices.
Acces == {"LECTURE", "FACTURES"}

Membre == [role: Role, actif: BOOLEAN]

\* What the constants stand for.
Domaines ==
    /\ IsFiniteSet(Personnes)
    /\ Fondateurs \subseteq Personnes /\ Fondateurs # {}
    /\ MaxInvitations \in Nat /\ MaxLiens \in Nat
    /\ \A x \in {NUL, OMIS} : /\ x \notin Personnes /\ x \notin Role /\ x \notin Acces
                             /\ x \notin BOOLEAN /\ x \notin Membre

Invitation == [email: Personnes, role: Role, acces: Acces \cup {NUL}, direction: BOOLEAN,
               etat: {"attente", "acceptee", "revoquee"}, lien: 1..MaxLiens,
               expiree: BOOLEAN]

Requete ==
         [etat: {"libre"}]
    \cup [etat: {"invitation"}, email: Personnes, role: Role, acces: Acces \cup {NUL},
          direction: BOOLEAN, remplacees: SUBSET (1..MaxInvitations)]
    \cup [etat: {"renvoi"}, i: 1..MaxInvitations]
    \cup [etat: {"resolue", "compte"}, i: 1..MaxInvitations]
    \cup [etat: {"membre"}, cible: Personnes, role: Role \cup {OMIS},
          actif: BOOLEAN \cup {OMIS}]
    \cup [etat: {"direction"}, p: Personnes \cup {NUL}]

Libre == [etat |-> "libre"]

Garder(q, r) == req' = [req EXCEPT ![q] = r]
Finir(q) == Garder(q, Libre)
En(q, etat) == req[q].etat = etat

EstMembre(p) == membres[p] # NUL
Dirige(p) == EstMembre(p) /\ membres[p].actif /\ membres[p].role \in {"OWNER", "ADMIN"}
EnAttente(i) == invitations[i].etat = "attente"
Proprietaires == {p \in Personnes : EstMembre(p) /\ membres[p].role = "OWNER" /\ membres[p].actif}

(***************************************************************************)
(* InvitationsService                                                      *)
(***************************************************************************)
\* Nobody is invited twice; an owner is invited by an owner, an outsider to
\* an operation, and the direction of works with an access that endorses.
LireInvitation(q, auteur, p, role, niveau, direction) ==
    /\ En(q, "libre")
    /\ Dirige(auteur)
    /\ role = "OWNER" => membres[auteur].role = "OWNER"
    /\ role = "EXTERNE" => niveau # NUL
    /\ direction => niveau = "FACTURES"
    /\ ~EstMembre(p)
    /\ Garder(q, [etat |-> "invitation", email |-> p, role |-> role, acces |-> niveau,
                  direction |-> direction,
                  remplacees |-> {i \in DOMAIN invitations :
                                     invitations[i].email = p /\ EnAttente(i)}])
    /\ UNCHANGED <<societe, invitations, liens>>

\* The row written, in place of the ones still waiting among those replaced.
Nouvelle(r) ==
    [email |-> r.email, role |-> r.role, acces |-> r.acces, direction |-> r.direction,
     etat |-> "attente", lien |-> liens + 1, expiree |-> FALSE]

\* Mutant: the invitations that wait are left as they are.
Remplacer_Ajoute(r) == Append(invitations, Nouvelle(r))

Remplacer(r) ==
    Append([i \in DOMAIN invitations |->
               IF i \in r.remplacees /\ EnAttente(i)
               THEN [invitations[i] EXCEPT !.etat = "revoquee"] ELSE invitations[i]],
           Nouvelle(r))

Inviter(q) ==
    /\ En(q, "invitation")
    /\ Len(invitations) < MaxInvitations /\ liens < MaxLiens
    /\ invitations' = Remplacer(req[q])
    /\ liens' = liens + 1
    /\ Finir(q)
    /\ UNCHANGED societe

LireRenvoi(q, i) ==
    /\ En(q, "libre")
    /\ EnAttente(i)
    /\ Garder(q, [etat |-> "renvoi", i |-> i])
    /\ UNCHANGED <<societe, invitations, liens>>

\* A new link and fourteen more days, whatever the invitation has become.
Renvoyer(q) ==
    /\ En(q, "renvoi")
    /\ liens < MaxLiens
    /\ invitations' = [invitations EXCEPT ![req[q].i].lien = liens + 1,
                                          ![req[q].i].expiree = FALSE]
    /\ liens' = liens + 1
    /\ Finir(q)
    /\ UNCHANGED societe

Revoquer(i) ==
    /\ EnAttente(i)
    /\ invitations' = [invitations EXCEPT ![i].etat = "revoquee"]
    /\ UNCHANGED <<societe, liens, req>>

Expirer(i) ==
    /\ EnAttente(i) /\ ~invitations[i].expiree
    /\ invitations' = [invitations EXCEPT ![i].expiree = TRUE]
    /\ UNCHANGED <<societe, liens, req>>

\* The invitation a link leads to, when it still waits.
Resoudre(q, lien) ==
    /\ En(q, "libre")
    /\ \E i \in DOMAIN invitations :
          /\ invitations[i].lien = lien
          /\ EnAttente(i) /\ ~invitations[i].expiree
          /\ Garder(q, [etat |-> "resolue", i |-> i])
    /\ UNCHANGED <<societe, invitations, liens>>

\* The account stays even if the rest fails: it is in no transaction.
PrendreCompte(q) ==
    /\ En(q, "resolue")
    /\ comptes' = comptes \cup {invitations[req[q].i].email}
    /\ Garder(q, [req[q] EXCEPT !.etat = "compte"])
    /\ UNCHANGED <<membres, acces, directionTravaux, invitations, liens>>

\* What the person gets is what the invitation says.
Entrer(i) ==
    LET inv == invitations[i]
    IN /\ membres' = [membres EXCEPT ![inv.email] = [role |-> inv.role, actif |-> TRUE]]
       /\ acces' = [acces EXCEPT ![inv.email] = inv.acces]
       /\ directionTravaux' = IF inv.direction THEN inv.email ELSE directionTravaux
       /\ invitations' = [invitations EXCEPT ![i].etat = "acceptee"]

\* Mutant: the invitation is not read again in the transaction.
Accepter_SansRelire(q) ==
    /\ En(q, "compte")
    /\ ~EstMembre(invitations[req[q].i].email)
    /\ Entrer(req[q].i)
    /\ Finir(q)
    /\ UNCHANGED <<comptes, liens>>

\* One conditional update takes the invitation; an account that already is a
\* member undoes it.
Accepter(q) ==
    /\ En(q, "compte")
    /\ EnAttente(req[q].i)
    /\ ~EstMembre(invitations[req[q].i].email)
    /\ Entrer(req[q].i)
    /\ Finir(q)
    /\ UNCHANGED <<comptes, liens>>

\* An active member, who manages the company or whose access endorses.
LireDirection(q, p) ==
    /\ En(q, "libre")
    /\ p # NUL => /\ EstMembre(p) /\ membres[p].actif
                  /\ Dirige(p) \/ acces[p] # NUL
                  /\ acces[p] \in {NUL, "FACTURES"}
    /\ Garder(q, [etat |-> "direction", p |-> p])
    /\ UNCHANGED <<societe, invitations, liens>>

NommerDirectionTravaux(q) ==
    /\ En(q, "direction")
    /\ directionTravaux' = req[q].p
    /\ Finir(q)
    /\ UNCHANGED <<comptes, membres, acces, invitations, liens>>

(***************************************************************************)
(* AccesService                                                            *)
(***************************************************************************)
Donne(champ, courant) == IF champ = OMIS THEN courant ELSE champ

\* Mutant: an owner who was put aside counts as one.
DernierProprietaire_Tous == Cardinality({p \in Personnes :
                                EstMembre(p) /\ membres[p].role = "OWNER"}) <= 1

DernierProprietaire == Cardinality(Proprietaires) <= 1

\* Nobody changes their own membership, and the last owner stays.
LireMembre(q, auteur, cible, role, actif) ==
    /\ En(q, "libre")
    /\ Dirige(auteur) /\ auteur # cible /\ EstMembre(cible)
    /\ <<role, actif>> # <<OMIS, OMIS>>
    /\ membres[cible].role = "OWNER" /\ (role \notin {"OWNER", OMIS} \/ actif = FALSE)
          => ~DernierProprietaire
    /\ Garder(q, [etat |-> "membre", cible |-> cible, role |-> role, actif |-> actif])
    /\ UNCHANGED <<societe, invitations, liens>>

ModifierMembre(q) ==
    LET r == req[q]
        m == membres[r.cible]
    IN /\ En(q, "membre")
       /\ membres' = [membres EXCEPT ![r.cible] =
             [role |-> Donne(r.role, m.role), actif |-> Donne(r.actif, m.actif)]]
       /\ Finir(q)
       /\ UNCHANGED <<comptes, acces, directionTravaux, invitations, liens>>

AccorderAcces(p, niveau) ==
    /\ EstMembre(p)
    /\ acces' = [acces EXCEPT ![p] = niveau]
    /\ UNCHANGED <<comptes, membres, directionTravaux, invitations, liens, req>>

RevoquerAcces(p) ==
    /\ acces[p] # NUL
    /\ acces' = [acces EXCEPT ![p] = NUL]
    /\ UNCHANGED <<comptes, membres, directionTravaux, invitations, liens, req>>

\* A refusal, a key already there or a crash: nothing more is written.
Interrompre(q) ==
    /\ ~En(q, "libre")
    /\ Finir(q)
    /\ UNCHANGED <<societe, invitations, liens>>

(***************************************************************************)
(* Specification                                                           *)
(***************************************************************************)
Init ==
    /\ comptes = Fondateurs
    /\ membres = [p \in Personnes |->
          IF p \in Fondateurs THEN [role |-> "OWNER", actif |-> TRUE] ELSE NUL]
    /\ acces = [p \in Personnes |-> NUL]
    /\ directionTravaux = NUL
    /\ invitations = <<>> /\ liens = 0
    /\ req = [q \in Requetes |-> Libre]

Invitations(q) ==
    \/ \E a, p \in Personnes, r \in Role, n \in Acces \cup {NUL}, d \in BOOLEAN :
          LireInvitation(q, a, p, r, n, d)
    \/ Inviter(q)
    \/ \E i \in DOMAIN invitations : LireRenvoi(q, i)
    \/ Renvoyer(q)
    \/ \E l \in 1..liens : Resoudre(q, l)
    \/ PrendreCompte(q)
    \/ Accepter(q)

Administration(q) ==
    \/ \E a, p \in Personnes, r \in Role \cup {OMIS}, f \in BOOLEAN \cup {OMIS} :
          LireMembre(q, a, p, r, f)
    \/ ModifierMembre(q)
    \/ \E p \in Personnes \cup {NUL} : LireDirection(q, p)
    \/ NommerDirectionTravaux(q)

Immediat ==
    \/ \E i \in DOMAIN invitations : Revoquer(i) \/ Expirer(i)
    \/ \E p \in Personnes, n \in Acces : AccorderAcces(p, n)
    \/ \E p \in Personnes : RevoquerAcces(p)

Next ==
    \/ Immediat
    \/ \E q \in Requetes : Invitations(q) \/ Administration(q) \/ Interrompre(q)

Spec == Init /\ [][Next]_vars

(***************************************************************************)
(* Properties                                                              *)
(***************************************************************************)
\* Every row and every request in flight has its shape.
TypeOK ==
    /\ comptes \subseteq Personnes
    /\ membres \in [Personnes -> Membre \cup {NUL}]
    /\ acces \in [Personnes -> Acces \cup {NUL}]
    /\ directionTravaux \in Personnes \cup {NUL}
    /\ invitations \in Seq(Invitation) /\ Len(invitations) <= MaxInvitations
    /\ liens \in 0..MaxLiens
    /\ req \in [Requetes -> Requete]

\* accepter: "deux clics simultanes n'acceptent qu'une fois".  Whatever runs
\* at the same time, a person enters by one invitation that was still
\* waiting, with the role it says, and an invitation accepted, revoked or
\* replaced stays so.
EntreeParInvitation ==
    /\ \A p \in Personnes : membres[p] = NUL /\ membres'[p] # NUL =>
          \E i \in DOMAIN invitations :
             /\ invitations[i].email = p /\ EnAttente(i)
             /\ invitations'[i].etat = "acceptee"
             /\ membres'[p].role = invitations[i].role
    /\ \A i \in DOMAIN invitations :
          ~EnAttente(i) => invitations'[i].etat = invitations[i].etat

EntreeUnique == [][EntreeParInvitation]_vars

\* modifierMembre: "une societe sans proprietaire actif n'est plus
\* administrable par personne".  One request at a time.
Administrable == Proprietaires # {}

\* inviter: "un seul lien valable a la fois", and none for a member.  One
\* request at a time.
UnSeulLien ==
    \A i, j \in DOMAIN invitations : EnAttente(i) =>
        /\ ~EstMembre(invitations[i].email)
        /\ EnAttente(j) /\ invitations[j].email = invitations[i].email => i = j

(***************************************************************************)
(* The inductive invariant behind EntreeUnique, and the one Administrable  *)
(* and UnSeulLien need besides, one request at a time                      *)
(***************************************************************************)
\* No invitation and no member is ever deleted.
Suivi(r) ==
    /\ r.etat \in {"renvoi", "resolue", "compte"} => r.i \in DOMAIN invitations
    /\ r.etat = "membre" => EstMembre(r.cible)

IInv == TypeOK /\ \A q \in Requetes : Suivi(req[q])

\* An owner who is about to be no longer one.
Ecarte(r) == membres[r.cible].role = "OWNER"
             /\ (r.role \notin {"OWNER", OMIS} \/ r.actif = FALSE)

\* What allowed to invite, and to put an owner aside, is still so.
Actuel(r) ==
    /\ r.etat = "invitation" =>
          /\ ~EstMembre(r.email)
          /\ \A i \in DOMAIN invitations :
                EnAttente(i) /\ invitations[i].email = r.email => i \in r.remplacees
    /\ r.etat = "membre" /\ Ecarte(r) => Proprietaires \ {r.cible} # {}

SInv == IInv /\ Administrable /\ UnSeulLien /\ \A q \in Requetes : Actuel(req[q])
=============================================================================
