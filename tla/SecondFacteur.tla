---------------------------- MODULE SecondFacteur ----------------------------
(***************************************************************************)
(* One account that logs in: its password, its second factor (a shared     *)
(* secret and backup codes), and the counters of failed attempts.          *)
(*                                                                         *)
(* The account is a row that every statement reads or writes on its own,   *)
(* without a transaction.  The counters are kept in the memory of the      *)
(* process and are lost when it restarts.                                  *)
(***************************************************************************)
EXTENDS Integers, Sequences, FiniteSets

CONSTANTS
    Max,           \* key -> failures that block it
    Fenetre,       \* length of the window failures are counted in
    Blocage,       \* length of a block
    Lot,           \* backup codes drawn by one activation
    MaxSecrets,    \* bound: secrets drawn
    MaxCodes,      \* bound: backup codes drawn
    MaxEssais,     \* bound: failures of one key
    Horizon,       \* bound: time
    Requetes,      \* request slots
    NUL            \* SQL NULL

Cles == {"compte", "adresse", "mfa"}

Domaines ==
    /\ Max \in [Cles -> Nat \ {0}]
    /\ Fenetre \in Nat /\ Blocage \in Nat /\ Fenetre <= Blocage
    /\ {Lot, MaxSecrets, MaxCodes, MaxEssais, Horizon} \subseteq Nat
    /\ NUL \notin Nat

VARIABLES
    compte,      \* the row of the account
    limites,     \* key -> failures and block, in memory
    defi,        \* a challenge token is still valid
    secrets,     \* secrets drawn
    codes,       \* backup codes drawn
    prouves,     \* secrets a right code was given for
    servis,      \* backup code -> times it was accepted
    essais,      \* key -> dates of the failures since it was last cleared
    jour,        \* date
    req          \* what each request in flight has read

vars == <<compte, limites, defi, secrets, codes, prouves, servis, essais, jour, req>>

(***************************************************************************)
(* Rows                                                                    *)
(***************************************************************************)
Secret == 1..MaxSecrets \cup {NUL}
Compte == [secret: Secret, actif: BOOLEAN, secours: SUBSET (1..MaxCodes)]
Vierge == [echecs |-> <<>>, bloque |-> NUL]

\* What a person types: a code of a secret, a backup code, or neither.
Saisie ==
         [genre: {"totp"}, valeur: 1..MaxSecrets]
    \cup [genre: {"secours"}, valeur: 1..MaxCodes]
    \cup [genre: {"autre"}]

Usage == {"activer", "desactiver", "connexion"}

Requete ==
         [etat: {"libre", "enrolement", "activation", "desactivation"}]
    \cup [etat: {"motDePasse"}, bon: BOOLEAN, actif: BOOLEAN]
    \cup [etat: {"code"}, usage: Usage, saisie: Saisie, lu: Compte]
    \cup [etat: {"retrait"}, usage: Usage, code: 1..MaxCodes, lu: Compte]

Libre == [etat |-> "libre"]

Garder(q, r) == req' = [req EXCEPT ![q] = r]
Finir(q) == Garder(q, Libre)
En(q, etat) == req[q].etat = etat

(***************************************************************************)
(* Limiteur                                                                *)
(***************************************************************************)
Autorise(k) == limites[k].bloque # NUL => limites[k].bloque <= jour
\* A block that is over takes the failures with it.
Verifiee(k) == IF limites[k].bloque # NUL /\ limites[k].bloque <= jour
               THEN Vierge ELSE limites[k]

\* Failures of the window ending today, the new one included.
Recents(l) == Append(SelectSeq(l.echecs, LAMBDA t : jour - t < Fenetre), jour)

\* Mutant: the block runs from the first failure of the window.
Echouee_Premier(k, l) ==
    [echecs |-> Recents(l),
     bloque |-> IF Len(Recents(l)) >= Max[k] THEN Recents(l)[1] + Blocage ELSE l.bloque]

Echouee(k, l) ==
    [echecs |-> Recents(l),
     bloque |-> IF Len(Recents(l)) >= Max[k] THEN jour + Blocage ELSE l.bloque]

Verifier(K) ==
    /\ \A k \in K : Autorise(k)
    /\ limites' = [k \in Cles |-> IF k \in K THEN Verifiee(k) ELSE limites[k]]
    /\ UNCHANGED essais

\* Failures that l, the counters as they were just checked, takes in.
Echec(K, l) ==
    /\ \A k \in K : Len(essais[k]) < MaxEssais
    /\ limites' = [k \in Cles |-> IF k \in K THEN Echouee(k, l[k]) ELSE limites[k]]
    /\ essais' = [k \in Cles |-> IF k \in K THEN Append(essais[k], jour) ELSE essais[k]]

Reinitialiser(k) ==
    /\ limites' = [limites EXCEPT ![k] = Vierge]
    /\ essais' = [essais EXCEPT ![k] = <<>>]

(***************************************************************************)
(* AuthService.login                                                       *)
(***************************************************************************)
\* Both barriers, then the account is read.
LireConnexion(q, bon) ==
    /\ En(q, "libre")
    /\ Verifier({"compte", "adresse"})
    /\ Garder(q, [etat |-> "motDePasse", bon |-> bon, actif |-> compte.actif])
    /\ UNCHANGED <<compte, defi, secrets, codes, prouves, servis, jour>>

\* A wrong password counts for the account and the address; a right one only
\* clears the account.
RefuserConnexion(q) ==
    /\ En(q, "motDePasse")
    /\ ~req[q].bon
    /\ Echec({"compte", "adresse"}, limites)
    /\ Finir(q)
    /\ UNCHANGED <<compte, defi, secrets, codes, prouves, servis, jour>>

AccepterConnexion(q) ==
    /\ En(q, "motDePasse")
    /\ req[q].bon
    /\ Reinitialiser("compte")
    /\ defi' = (defi \/ req[q].actif)
    /\ Finir(q)
    /\ UNCHANGED <<compte, secrets, codes, prouves, servis, jour>>

ExpirerDefi ==
    /\ defi
    /\ defi' = FALSE
    /\ UNCHANGED <<compte, limites, secrets, codes, prouves, servis, essais, jour, req>>

(***************************************************************************)
(* MfaService                                                              *)
(***************************************************************************)
LireEnrolement(q) ==
    /\ En(q, "libre")
    /\ ~compte.actif
    /\ Garder(q, [etat |-> "enrolement"])
    /\ UNCHANGED <<compte, limites, defi, secrets, codes, prouves, servis, essais, jour>>

\* A new secret, not in force yet, in place of the one before.
CommencerEnrolement(q) ==
    /\ En(q, "enrolement")
    /\ secrets < MaxSecrets
    /\ secrets' = secrets + 1
    /\ compte' = [compte EXCEPT !.secret = secrets + 1, !.secours = {}]
    /\ Finir(q)
    /\ UNCHANGED <<limites, defi, codes, prouves, servis, essais, jour>>

\* The factor is not in force for an activation, and is for the other uses.
Attendu(usage) == compte.secret # NUL /\ compte.actif = (usage # "activer")

LireCode(q, usage, saisie) ==
    /\ En(q, "libre")
    /\ usage = "connexion" => defi
    /\ Attendu(usage)
    /\ Garder(q, [etat |-> "code", usage |-> usage, saisie |-> saisie, lu |-> compte])
    /\ UNCHANGED <<compte, limites, defi, secrets, codes, prouves, servis, essais, jour>>

Juste(r) == r.saisie.genre = "totp" /\ r.saisie.valeur = r.lu.secret
\* Only the account that is in force has backup codes.
DeSecours(r) ==
    /\ r.usage # "activer"
    /\ r.saisie.genre = "secours"
    /\ r.saisie.valeur \in r.lu.secours

\* What follows a code that was accepted.
Suite(q, usage) ==
    CASE usage = "activer" -> Garder(q, [etat |-> "activation"])
      [] usage = "desactiver" -> Garder(q, [etat |-> "desactivation"])
      [] OTHER -> Finir(q)

AccepterCode(q) ==
    LET r == req[q]
    IN /\ En(q, "code")
       /\ Autorise("mfa")
       /\ Juste(r)
       /\ Reinitialiser("mfa")
       /\ prouves' = IF r.usage = "activer" THEN prouves \cup {r.lu.secret} ELSE prouves
       /\ Suite(q, r.usage)
       /\ UNCHANGED <<compte, defi, secrets, codes, servis, jour>>

AccepterSecours(q) ==
    LET r == req[q]
    IN /\ En(q, "code")
       /\ Verifier({"mfa"})
       /\ DeSecours(r)
       /\ Garder(q, [etat |-> "retrait", usage |-> r.usage, code |-> r.saisie.valeur,
                     lu |-> r.lu])
       /\ UNCHANGED <<compte, defi, secrets, codes, prouves, servis, jour>>

RefuserCode(q) ==
    /\ En(q, "code")
    /\ Autorise("mfa")
    /\ ~Juste(req[q]) /\ ~DeSecours(req[q])
    /\ Echec({"mfa"}, [k \in Cles |-> Verifiee(k)])
    /\ Finir(q)
    /\ UNCHANGED <<compte, defi, secrets, codes, prouves, servis, jour>>

\* Mutant: the code that served stays on the list.
Restants_Tous(r) == r.lu.secours

Restants(r) == r.lu.secours \ {r.code}

\* The code that served is taken off the list that was read.
RetirerCode(q) ==
    LET r == req[q]
    IN /\ En(q, "retrait")
       /\ compte' = [compte EXCEPT !.secours = Restants(r)]
       /\ servis' = [servis EXCEPT ![r.code] = @ + 1]
       /\ Reinitialiser("mfa")
       /\ Suite(q, r.usage)
       /\ UNCHANGED <<defi, secrets, codes, prouves, jour>>

\* The factor comes into force, with new backup codes.
Activer(q) ==
    /\ En(q, "activation")
    /\ codes + Lot <= MaxCodes
    /\ compte' = [compte EXCEPT !.actif = TRUE, !.secours = codes + 1 .. codes + Lot]
    /\ codes' = codes + Lot
    /\ Finir(q)
    /\ UNCHANGED <<limites, defi, secrets, prouves, servis, essais, jour>>

Desactiver(q) ==
    /\ En(q, "desactivation")
    /\ compte' = [secret |-> NUL, actif |-> FALSE, secours |-> {}]
    /\ Finir(q)
    /\ UNCHANGED <<limites, defi, secrets, codes, prouves, servis, essais, jour>>

(***************************************************************************)
(* The process                                                             *)
(***************************************************************************)
\* A refusal, an error or a lost connection: what was written stays.
Interrompre(q) ==
    /\ ~En(q, "libre")
    /\ Finir(q)
    /\ UNCHANGED <<compte, limites, defi, secrets, codes, prouves, servis, essais, jour>>

\* The counters start again with the process.
Redemarrer ==
    /\ limites' = [k \in Cles |-> Vierge]
    /\ essais' = [k \in Cles |-> <<>>]
    /\ req' = [q \in Requetes |-> Libre]
    /\ UNCHANGED <<compte, defi, secrets, codes, prouves, servis, jour>>

Avancer ==
    /\ jour < Horizon
    /\ jour' = jour + 1
    /\ UNCHANGED <<compte, limites, defi, secrets, codes, prouves, servis, essais, req>>

Init ==
    /\ compte = [secret |-> NUL, actif |-> FALSE, secours |-> {}]
    /\ limites = [k \in Cles |-> Vierge]
    /\ defi = FALSE
    /\ secrets = 0 /\ codes = 0 /\ prouves = {}
    /\ servis = [c \in 1..MaxCodes |-> 0]
    /\ essais = [k \in Cles |-> <<>>]
    /\ jour = 0
    /\ req = [q \in Requetes |-> Libre]

Connexion(q) ==
    \/ \E bon \in BOOLEAN : LireConnexion(q, bon)
    \/ RefuserConnexion(q)
    \/ AccepterConnexion(q)

Saisies ==
         [genre: {"totp"}, valeur: 1..secrets]
    \cup [genre: {"secours"}, valeur: 1..codes]
    \cup [genre: {"autre"}]

Facteur(q) ==
    \/ LireEnrolement(q)
    \/ CommencerEnrolement(q)
    \/ \E usage \in Usage, saisie \in Saisies : LireCode(q, usage, saisie)
    \/ AccepterCode(q)
    \/ AccepterSecours(q)
    \/ RefuserCode(q)
    \/ RetirerCode(q)
    \/ Activer(q)
    \/ Desactiver(q)

Next ==
    \/ ExpirerDefi
    \/ Avancer
    \/ Redemarrer
    \/ \E q \in Requetes : Connexion(q) \/ Facteur(q) \/ Interrompre(q)

Spec == Init /\ [][Next]_vars

(***************************************************************************)
(* Properties, one request at a time                                       *)
(***************************************************************************)
\* The shapes of the account, of its challenge and of the requests.
CompteType ==
    /\ compte \in Compte
    /\ defi \in BOOLEAN
    /\ secrets \in 0..MaxSecrets /\ codes \in 0..MaxCodes
    /\ prouves \subseteq 1..secrets
    /\ servis \in [1..MaxCodes -> Nat]
    /\ jour \in 0..Horizon
    /\ req \in [Requetes -> Requete]

\* Every row, counter and request has its shape.
TypeOK ==
    /\ CompteType
    /\ \A k \in Cles : /\ limites[k].echecs \in Seq(0..Horizon)
                       /\ limites[k].bloque \in 0..(Horizon + Blocage) \cup {NUL}
                       /\ essais[k] \in Seq(0..Horizon)

\* MfaService.verifier: a backup code serves once, to log in or to remove the
\* second factor, whatever stops in between.
CodeUneFois == \A c \in 1..MaxCodes : servis[c] <= 1

\* MfaService.activer: a factor in force has a secret the person proved, so
\* an enrolment left half way locks nobody out.
FacteurProuve == compte.actif => compte.secret \in prouves

\* Limiteur: as long as nothing succeeds and the process lives, no window of
\* time holds more failures of a key than its limit.
EssaisBornes ==
    \A k \in Cles : \A i \in DOMAIN essais[k] :
        Cardinality({j \in 1..i : essais[k][i] - essais[k][j] < Fenetre}) <= Max[k]

(***************************************************************************)
(* The inductive invariant behind CodeUneFois and FacteurProuve            *)
(***************************************************************************)
\* A code of the account was drawn and has not served; a code not drawn yet
\* served nowhere.
CodesNeufs ==
    /\ compte.secours \subseteq 1..codes
    /\ \A c \in 1..MaxCodes : c \in compte.secours \/ c > codes => servis[c] = 0

\* What a request has read is still what the account says.
Actuel(r) ==
    /\ r.etat = "enrolement" => ~compte.actif
    /\ r.etat = "code" => r.lu = compte /\ Attendu(r.usage)
    /\ r.etat = "retrait" => r.lu = compte /\ r.code \in compte.secours /\ r.usage # "activer"
    /\ r.etat = "activation" => compte.secret \in prouves

SInv ==
    /\ CompteType
    /\ compte.secret # NUL => compte.secret <= secrets
    /\ CodeUneFois /\ FacteurProuve /\ CodesNeufs
    /\ \A q \in Requetes : Actuel(req[q])
=============================================================================
