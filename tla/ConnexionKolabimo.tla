-------------------------- MODULE ConnexionKolabimo --------------------------
(***************************************************************************)
(* The connection of a company to its Kolabimo account: the key it reads   *)
(* with, the secret the webhooks that reach it are signed with.            *)
(*                                                                         *)
(* A request asks Kolabimo first and opens its transaction next; an answer *)
(* that shows a secret leaves once the transaction has committed, and may  *)
(* be lost.  One row per company (societeId is unique).                    *)
(***************************************************************************)
EXTENDS Integers, FiniteSets

CONSTANTS
    Societes,
    Titulaire,       \* key of Kolabimo -> [type, nom], who it was given to
    Adresses,        \* addresses a person types: [https, locale, www]
    MaxSecrets,      \* bound: secrets and tokens drawn
    Tolerance,       \* seconds a dated signature is good for
    Requetes,        \* request slots
    NUL              \* SQL NULL

Cles == DOMAIN Titulaire

VARIABLES
    connexions,      \* company -> row, or NUL
    tires,           \* secrets drawn so far
    valables,        \* secrets that were in force, each with its company
    montres,         \* secrets shown, each with the company it was shown to
    ouvertes,        \* keys Kolabimo still accepts
    req              \* what each request in flight has read

vars == <<connexions, tires, valables, montres, ouvertes, req>>

(***************************************************************************)
(* Rows                                                                    *)
(***************************************************************************)
Secrets == 1..MaxSecrets
Noms == {Titulaire[c].nom : c \in Cles}
Connexion == [adresse: Adresses, cle: Cles, promoteur: Noms, erreur: BOOLEAN,
              secret: Secrets, jeton: Secrets]
Requete ==
         [etat: {"libre"}]
    \cup [etat: {"cle"}, s: Societes, adresse: Adresses, cle: Cles]
    \cup [etat: {"essayee"}, s: Societes, adresse: Adresses, cle: Cles, nom: Noms]
    \cup [etat: {"essai"}, s: Societes, cle: Cles]
    \cup [etat: {"essaye"}, s: Societes, nom: Noms \cup {NUL}]
    \cup [etat: {"montre"}, s: Societes, secret: Secrets]

Libre == [etat |-> "libre"]
Garder(q, r) == req' = [req EXCEPT ![q] = r]
Finir(q) == Garder(q, Libre)
En(q, etat) == req[q].etat = etat

(***************************************************************************)
(* Addresses and answers                                                   *)
(***************************************************************************)
\* Mutant: only the addresses of the network are looked at.
Admise_Toutes(a) == TRUE
\* A key never travels in clear, but on the machine itself.
Admise(a) == a.https \/ a.locale

\* normaliserBaseUrl: without its www.
NormaliserBaseUrl(a) == [a EXCEPT !.www = FALSE]

\* What the constants stand for.
Domaines ==
    /\ \A c \in Cles : Titulaire[c] = [type |-> Titulaire[c].type, nom |-> Titulaire[c].nom]
    /\ \A a \in Adresses : NormaliserBaseUrl(a) \in Adresses
    /\ Adresses \subseteq [https: BOOLEAN, locale: BOOLEAN, www: BOOLEAN]
    /\ MaxSecrets \in Nat /\ Tolerance \in Nat
    /\ NUL \notin Nat \cup Noms \cup Connexion \cup {Titulaire[c] : c \in Cles}

\* KolabimoClient.lire: an answer that is not read is a reason, never an
\* exception.  A key that was closed is refused; one that works may be
\* answered by an error, or not at all.
Moi(c) == (IF c \in ouvertes THEN {Titulaire[c]} ELSE {}) \cup {NUL}

(***************************************************************************)
(* Handlers                                                                *)
(***************************************************************************)
LireCle(q, s, a, c) ==
    /\ En(q, "libre")
    /\ Admise(a)
    /\ Garder(q, [etat |-> "cle", s |-> s, adresse |-> NormaliserBaseUrl(a), cle |-> c])
    /\ UNCHANGED <<connexions, tires, valables, montres, ouvertes>>

\* Mutant: the key of an agency will do.
EssayerCle_DeTous(q) ==
    LET r == req[q]
    IN /\ En(q, "cle")
       /\ \E moi \in Moi(r.cle) :
             IF moi = NUL THEN Finir(q)
             ELSE Garder(q, [etat |-> "essayee", s |-> r.s, adresse |-> r.adresse,
                             cle |-> r.cle, nom |-> moi.nom])
       /\ UNCHANGED <<connexions, tires, valables, montres, ouvertes>>

\* A key is tried before it is kept, and is that of a promoter.
EssayerCle(q) ==
    LET r == req[q]
    IN /\ En(q, "cle")
       /\ \E moi \in Moi(r.cle) :
             IF moi = NUL THEN Finir(q)
             ELSE IF moi.type # "PROMOTEUR" THEN Finir(q)
             ELSE Garder(q, [etat |-> "essayee", s |-> r.s, adresse |-> r.adresse,
                             cle |-> r.cle, nom |-> moi.nom])
       /\ UNCHANGED <<connexions, tires, valables, montres, ouvertes>>

\* Mutant: a key that replaces another shows a secret that is not written.
Remplacer_AvecSecret(q, r) ==
    /\ tires < MaxSecrets
    /\ tires' = tires + 1
    /\ connexions' = [connexions EXCEPT ![r.s] =
           [@ EXCEPT !.adresse = r.adresse, !.cle = r.cle, !.promoteur = r.nom, !.erreur = FALSE]]
    /\ Garder(q, [etat |-> "montre", s |-> r.s, secret |-> tires + 1])
    /\ UNCHANGED valables

\* The secret and the token of the webhook stay those they were.
Remplacer(q, r) ==
    /\ connexions' = [connexions EXCEPT ![r.s] =
           [@ EXCEPT !.adresse = r.adresse, !.cle = r.cle, !.promoteur = r.nom, !.erreur = FALSE]]
    /\ Finir(q)
    /\ UNCHANGED <<tires, valables>>

\* The secret is born with the connection.
Ouvrir(q, r) ==
    /\ tires < MaxSecrets
    /\ tires' = tires + 1
    /\ connexions' = [connexions EXCEPT ![r.s] =
           [adresse |-> r.adresse, cle |-> r.cle, promoteur |-> r.nom, erreur |-> FALSE,
            secret |-> tires + 1, jeton |-> tires + 1]]
    /\ valables' = valables \cup {<<r.s, tires + 1>>}
    /\ Garder(q, [etat |-> "montre", s |-> r.s, secret |-> tires + 1])

\* Of two requests that find no connection, the unique key refuses one.
Enregistrer(q) ==
    /\ En(q, "essayee")
    /\ IF connexions[req[q].s] = NUL THEN Ouvrir(q, req[q]) ELSE Remplacer(q, req[q])
    /\ UNCHANGED <<montres, ouvertes>>

\* The answer reaches the person who must copy the secret.
Montrer(q) ==
    /\ En(q, "montre")
    /\ montres' = montres \cup {<<req[q].s, req[q].secret>>}
    /\ Finir(q)
    /\ UNCHANGED <<connexions, tires, valables, ouvertes>>

LireTest(q, s) ==
    /\ En(q, "libre")
    /\ connexions[s] # NUL
    /\ Garder(q, [etat |-> "essai", s |-> s, cle |-> connexions[s].cle])
    /\ UNCHANGED <<connexions, tires, valables, montres, ouvertes>>

EssayerTest(q) ==
    LET r == req[q]
    IN /\ En(q, "essai")
       /\ \E moi \in Moi(r.cle) :
             Garder(q, [etat |-> "essaye", s |-> r.s, nom |-> IF moi = NUL THEN NUL ELSE moi.nom])
       /\ UNCHANGED <<connexions, tires, valables, montres, ouvertes>>

\* What the attempt gave is written on the row there is by then.
NoterTest(q) ==
    LET r == req[q]
    IN /\ En(q, "essaye")
       /\ connexions[r.s] # NUL
       /\ connexions' = [connexions EXCEPT
              ![r.s].erreur = r.nom = NUL, ![r.s].promoteur = IF r.nom = NUL THEN @ ELSE r.nom]
       /\ Finir(q)
       /\ UNCHANGED <<tires, valables, montres, ouvertes>>

\* The secret it replaces is worth nothing from then on.
RegenererSecret(q, s) ==
    /\ En(q, "libre")
    /\ connexions[s] # NUL
    /\ tires < MaxSecrets
    /\ tires' = tires + 1
    /\ connexions' = [connexions EXCEPT ![s].secret = tires + 1]
    /\ valables' = valables \cup {<<s, tires + 1>>}
    /\ Garder(q, [etat |-> "montre", s |-> s, secret |-> tires + 1])
    /\ UNCHANGED <<montres, ouvertes>>

Supprimer(s) ==
    /\ connexions[s] # NUL
    /\ connexions' = [connexions EXCEPT ![s] = NUL]
    /\ UNCHANGED <<tires, valables, montres, ouvertes, req>>

\* Kolabimo closes a key.
Fermer(c) ==
    /\ ouvertes' = ouvertes \ {c}
    /\ UNCHANGED <<connexions, tires, valables, montres, req>>

Interrompre(q) ==
    /\ ~En(q, "libre")
    /\ Finir(q)
    /\ UNCHANGED <<connexions, tires, valables, montres, ouvertes>>

(***************************************************************************)
(* Webhooks                                                                *)
(***************************************************************************)
\* resoudreJeton: the company a token stands for, and its secret.
Resoudre(jeton) ==
    {[s |-> s, secret |-> connexions[s].secret] :
        s \in {x \in Societes : connexions[x] # NUL /\ connexions[x].jeton = jeton}}

\* Mutant: a signature from the future is not looked at.
DansLaFenetre_Passe(t, maintenant) == maintenant - t <= Tolerance
DansLaFenetre(t, maintenant) ==
    (IF maintenant < t THEN t - maintenant ELSE maintenant - t) <= Tolerance

Empreinte(secret, t, corps) == [secret |-> secret, t |-> t, corps |-> corps]
Signer(secret, corps, t) == [t |-> t, empreinte |-> Empreinte(secret, t, corps)]
Nue(secret, corps) == [t |-> NUL, empreinte |-> Empreinte(secret, NUL, corps)]

\* verifier: a bare print of the body, or a dated one.
Verifier(secret, corps, entete, maintenant) ==
    /\ entete # NUL /\ secret # NUL
    /\ IF entete.t = NUL THEN TRUE ELSE DansLaFenetre(entete.t, maintenant)
    /\ entete.empreinte = Empreinte(secret, entete.t, corps)

(***************************************************************************)
(* Specification                                                           *)
(***************************************************************************)
Init ==
    /\ connexions = [s \in Societes |-> NUL]
    /\ tires = 0 /\ valables = {} /\ montres = {} /\ ouvertes = Cles
    /\ req = [q \in Requetes |-> Libre]

Gestes(q) ==
    \/ \E s \in Societes :
         \/ \E a \in Adresses, c \in Cles : LireCle(q, s, a, c)
         \/ LireTest(q, s) \/ RegenererSecret(q, s)
    \/ EssayerCle(q) \/ Enregistrer(q) \/ Montrer(q)
    \/ EssayerTest(q) \/ NoterTest(q)
    \/ Interrompre(q)

Next ==
    \/ \E q \in Requetes : Gestes(q)
    \/ \E s \in Societes : Supprimer(s)
    \/ \E c \in Cles : Fermer(c)

Spec == Init /\ [][Next]_vars

(***************************************************************************)
(* Properties                                                              *)
(***************************************************************************)
\* Every row and every request in flight has its shape.
TypeOK ==
    /\ connexions \in [Societes -> Connexion \cup {NUL}]
    /\ tires \in 0..MaxSecrets
    /\ valables \cup montres \subseteq Societes \X Secrets
    /\ ouvertes \subseteq Cles
    /\ req \in [Requetes -> Requete]

\* enregistrer, "une cle qu'on n'a pas vue marcher ne vaut pas d'etre stockee"
\* and "elle doit etre une cle de promoteur".  One request at a time: the key
\* that is kept is that of the promoter the screen names, and never travels in
\* clear.
CleEprouvee ==
    \A s \in Societes :
        connexions[s] # NUL =>
           /\ Titulaire[connexions[s].cle] = [type |-> "PROMOTEUR", nom |-> connexions[s].promoteur]
           /\ connexions[s].adresse.https \/ connexions[s].adresse.locale

\* enregistrer and regenererSecret: "il n'est rendu qu'ici".  Even with two
\* requests at once, and answers that are lost, a secret that was shown was
\* once the one webhooks are checked with, for the company it was shown to;
\* no two companies share a token.
SecretMontreVaut ==
    /\ montres \subseteq valables
    /\ \A x, y \in valables : x[2] = y[2] => x = y
    /\ \A j \in Secrets : Cardinality(Resoudre(j)) <= 1

\* resoudreJeton and verifier: of the prints of a body made with the secrets
\* that were ever in force for a company, the one its token accepts is the
\* last; a dated one is good as long as Tolerance, on either side.
SignatureDuMoment ==
    \A j \in Secrets, x \in valables, t \in {NUL, 10} :
        \A r \in Resoudre(j), maintenant \in {10 - Tolerance - 1, 10 - Tolerance, 10 + Tolerance,
                                              10 + Tolerance + 1} :
            LET entete == IF t = NUL THEN Nue(x[2], "corps") ELSE Signer(x[2], "corps", t)
            IN /\ Verifier(r.secret, "corps", entete, maintenant)
                     <=> /\ x[2] = connexions[r.s].secret
                         /\ t # NUL => maintenant \in (10 - Tolerance)..(10 + Tolerance)
               /\ ~Verifier(r.secret, "autre", entete, maintenant)

(***************************************************************************)
(* The inductive invariant behind SecretMontreVaut, and the one that       *)
(* CleEprouvee needs besides, one request at a time                        *)
(***************************************************************************)
\* A secret about to be shown was in force.
Suivi(r) == r.etat = "montre" => <<r.s, r.secret>> \in valables

\* A secret is drawn for one company; a row holds secrets of its own.
SecretsTires ==
    /\ montres \subseteq valables
    /\ \A x \in valables : x[2] <= tires
    /\ \A x, y \in valables : x[2] = y[2] => x = y
    /\ \A s \in Societes : connexions[s] # NUL =>
          {<<s, connexions[s].secret>>, <<s, connexions[s].jeton>>} \subseteq valables

IInv == TypeOK /\ SecretsTires /\ \A q \in Requetes : Suivi(req[q])

\* The key to be kept was tried, and the one on trial is that of the row.
Actuel(r) ==
    /\ r.etat \in {"cle", "essayee"} => r.adresse.https \/ r.adresse.locale
    /\ r.etat = "essayee" => Titulaire[r.cle] = [type |-> "PROMOTEUR", nom |-> r.nom]
    /\ r.etat = "essai" /\ connexions[r.s] # NUL => connexions[r.s].cle = r.cle
    /\ r.etat = "essaye" /\ connexions[r.s] # NUL /\ r.nom # NUL =>
          Titulaire[connexions[r.s].cle].nom = r.nom

SInv == IInv /\ CleEprouvee /\ \A q \in Requetes : Actuel(req[q])
=============================================================================
