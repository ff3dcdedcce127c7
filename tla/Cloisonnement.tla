---------------------------- MODULE Cloisonnement ----------------------------
(***************************************************************************)
(* The isolation of the companies: row-level policies that follow the      *)
(* chain of a row, read a setting of the connection, and connections that  *)
(* requests of every company take turns to use.                            *)
(*                                                                         *)
(* A request without a session first learns its company from what it was   *)
(* handed - a key, a link - by a function that ignores the policies.       *)
(***************************************************************************)
EXTENDS Integers, FiniteSets, Tables

CONSTANTS
    Societes,        \* companies
    Suivies,         \* tables followed
    MaxLignes,       \* bound: rows written
    Connexions,     \* pooled connections
    Requetes,        \* request slots
    NUL              \* SQL NULL

Ids == 1..MaxLignes
Ligne == [table: Suivies, parent: Societes \cup Ids]

\* What the constants stand for; the chains of the tables end at a company.
Domaines ==
    /\ Suivies \subseteq DOMAIN Rattachement /\ Etagees
    /\ MaxLignes \in Nat
    /\ NUL \notin Societes \cup Requetes \cup Ligne

VARIABLES
    lignes,          \* identifier -> row, or NUL
    ecrites,         \* rows written so far
    pool,            \* connection -> its settings and who holds it
    req              \* what each request in flight has read

vars == <<lignes, ecrites, pool, req>>

(***************************************************************************)
(* Rows                                                                    *)
(***************************************************************************)
Presentes == {i \in Ids : lignes[i] # NUL}
Direct(t) == Rattachement[t] = "societes"

\* The parent a row of t may have.
Parents(t) ==
    IF Direct(t) THEN Societes ELSE {i \in Presentes : lignes[i].table = Rattachement[t]}

\* The company a row belongs to.
SocieteDe(i) ==
    LET remonte[j \in Presentes] ==
            IF Direct(lignes[j].table) THEN lignes[j].parent ELSE remonte[lignes[j].parent]
    IN  remonte[i]

(***************************************************************************)
(* The setting of a connection                                             *)
(***************************************************************************)
\* Mutant: set_config(..., false), which outlives the transaction.
Poser_Session(c, s) == [c EXCEPT !.session = s]

\* set_config('app.societe_id', s, true): until the end of the transaction.
Poser(c, s) == [c EXCEPT !.locale = s]

Courante(c) == IF pool[c].locale # NUL THEN pool[c].locale ELSE pool[c].session

\* The policies: a chain of EXISTS up to the company of the setting.
Rejoint(societe, t, parent) ==
    LET tient[j \in Presentes] ==
            IF Direct(lignes[j].table) THEN lignes[j].parent = societe
                                       ELSE tient[lignes[j].parent]
    IN  IF Direct(t) THEN parent = societe ELSE tient[parent]

Visible(c, i) == Rejoint(Courante(c), lignes[i].table, lignes[i].parent)
Visibles(c) == {i \in Presentes : Visible(c, i)}

\* Mutant: a policy without WITH CHECK.
Admise_Toujours(c, t, parent) == TRUE
Admise(c, t, parent) == Rejoint(Courante(c), t, parent)

(***************************************************************************)
(* Requests                                                                *)
(***************************************************************************)
Requete ==
         [etat: {"libre"}]
    \cup [etat: {"resolue"}, societe: Societes]
    \cup [etat: {"ouverte"}, societe: Societes, connexion: Connexions]

Libre == [etat |-> "libre"]
Garder(q, r) == req' = [req EXCEPT ![q] = r]
En(q, etat) == req[q].etat = etat
Inoccupee == {c \in Connexions : pool[c].prise = NUL}

\* societe_de_cle_api, invitation_de_jeton and the others: the company of the
\* row that was named, whatever the setting.
Resoudre(q, i) ==
    /\ En(q, "libre")
    /\ i \in Presentes
    /\ Garder(q, [etat |-> "resolue", societe |-> SocieteDe(i)])
    /\ UNCHANGED <<lignes, ecrites, pool>>

\* A session names its company itself.
Entrer(q, s) ==
    /\ En(q, "libre")
    /\ Garder(q, [etat |-> "resolue", societe |-> s])
    /\ UNCHANGED <<lignes, ecrites, pool>>

\* runInTenant: a connection, a transaction, the setting.
Ouvrir(q, c) ==
    /\ En(q, "resolue")
    /\ c \in Inoccupee
    /\ pool' = [pool EXCEPT ![c] = [Poser(@, req[q].societe) EXCEPT !.prise = q]]
    /\ Garder(q, [etat |-> "ouverte", societe |-> req[q].societe, connexion |-> c])
    /\ UNCHANGED <<lignes, ecrites>>

\* Commit or rollback: the local setting goes, the connection is given back.
Rendre(q) ==
    /\ pool' = [pool EXCEPT ![req[q].connexion].locale = NUL,
                            ![req[q].connexion].prise = NUL]
    /\ Garder(q, Libre)

\* A transaction that only read, or was rolled back.
Fermer(q) == En(q, "ouverte") /\ Rendre(q) /\ UNCHANGED <<lignes, ecrites>>

(***************************************************************************)
(* One write and its commit                                                *)
(***************************************************************************)

Inserer(q, t, parent) ==
    /\ En(q, "ouverte")
    /\ ecrites < MaxLignes
    /\ parent \in Parents(t)
    /\ Admise(req[q].connexion, t, parent)
    /\ lignes' = [lignes EXCEPT ![ecrites + 1] = [table |-> t, parent |-> parent]]
    /\ ecrites' = ecrites + 1
    /\ Rendre(q)

\* An update that moves a row: USING before, WITH CHECK after.
Deplacer(q, i, parent) ==
    /\ En(q, "ouverte")
    /\ i \in Visibles(req[q].connexion)
    /\ parent \in Parents(lignes[i].table)
    /\ Admise(req[q].connexion, lignes[i].table, parent)
    /\ lignes' = [lignes EXCEPT ![i].parent = parent]
    /\ Rendre(q)
    /\ UNCHANGED ecrites

\* The cascades below a row run without the policies.
Dessous(i) ==
    LET sous[j \in Presentes] ==
            j = i \/ (~Direct(lignes[j].table) /\ sous[lignes[j].parent])
    IN  {j \in Presentes : sous[j]}

Effacer(q, i) ==
    /\ En(q, "ouverte")
    /\ i \in Visibles(req[q].connexion)
    /\ lignes' = [j \in Ids |-> IF lignes[j] # NUL /\ j \in Dessous(i) THEN NUL ELSE lignes[j]]
    /\ Rendre(q)
    /\ UNCHANGED ecrites

(***************************************************************************)
(* Specification                                                           *)
(***************************************************************************)
Init ==
    /\ lignes = [i \in Ids |-> NUL]
    /\ ecrites = 0
    /\ pool = [c \in Connexions |-> [session |-> NUL, locale |-> NUL, prise |-> NUL]]
    /\ req = [q \in Requetes |-> Libre]

Next ==
    \E q \in Requetes :
       \/ \E i \in Ids : Resoudre(q, i)
       \/ \E s \in Societes : Entrer(q, s)
       \/ \E c \in Connexions : Ouvrir(q, c)
       \/ Fermer(q)
       \/ \E t \in Suivies, parent \in Societes \cup Ids : Inserer(q, t, parent)
       \/ \E i \in Ids, parent \in Societes \cup Ids : Deplacer(q, i, parent)
       \/ \E i \in Ids : Effacer(q, i)

Spec == Init /\ [][Next]_vars

(***************************************************************************)
(* Properties                                                              *)
(***************************************************************************)
TypeOK ==
    /\ lignes \in [Ids -> Ligne \cup {NUL}]
    /\ ecrites \in 0..MaxLignes
    /\ pool \in [Connexions -> [session: Societes \cup {NUL}, locale: Societes \cup {NUL},
                                 prise: Requetes \cup {NUL}]]
    /\ req \in [Requetes -> Requete]

\* TenantPrismaService and the policies: an open transaction sees the rows of
\* its company, all of them and no other.
VoitLesSiennes ==
    \A q \in Requetes : En(q, "ouverte") =>
        Visibles(req[q].connexion) = {i \in Presentes : SocieteDe(i) = req[q].societe}

\* "Refus par défaut": a query outside any tenant, on a connection that has
\* served requests before, sees nothing.
RefusParDefaut == \A c \in Inoccupee : Visibles(c) = {}

\* A row that stays never changes company, and one that comes or goes does by
\* a transaction of its company.
Etanche ==
    /\ \A i \in Presentes : lignes'[i] # NUL => SocieteDe(i)' = SocieteDe(i)
    /\ \A i \in Presentes : lignes'[i] = NUL =>
          \E q \in Requetes : En(q, "ouverte") /\ req[q].societe = SocieteDe(i)
    /\ \A i \in Ids \ Presentes : lignes'[i] # NUL =>
          \E q \in Requetes : En(q, "ouverte") /\ req[q].societe = SocieteDe(i)'

RienNePasse == [][Etanche]_vars

(***************************************************************************)
(* The inductive invariant behind them                                     *)
(***************************************************************************)
\* A row hangs from a row that is there, of the table its policy follows.
Rattachees ==
    \A i \in Presentes :
        LET l == lignes[i]
        IN IF Direct(l.table) THEN l.parent \in Societes
           ELSE l.parent \in Presentes /\ lignes[l.parent].table = Rattachement[l.table]

NumerosPris == \A i \in Presentes : i <= ecrites

\* A transaction alone holds its connection, which carries its company; a
\* connection nobody holds carries none.
ConnexionsTenues ==
    /\ \A q \in Requetes : En(q, "ouverte") =>
          LET c == pool[req[q].connexion] IN c.prise = q /\ c.locale = req[q].societe
    /\ \A c \in Connexions : pool[c].session = NUL
    /\ \A c \in Inoccupee : pool[c].locale = NUL

IInv == TypeOK /\ Rattachees /\ NumerosPris /\ ConnexionsTenues
=============================================================================
