-------------------------- MODULE EspaceEntreprise --------------------------
(***************************************************************************)
(* How an invited company enters its space: the link it was mailed, the    *)
(* six digits sent to its address, the session they open.                  *)
(*                                                                         *)
(* One invitation.  A request resolves the link and reads the row in one   *)
(* transaction, and writes it in another.  The codes are numbered as they  *)
(* are drawn; the limit per address of the network is left out, as if      *)
(* every try came from a new one.                                          *)
(***************************************************************************)
EXTENDS Integers, FiniteSets

CONSTANTS
    CODE_ESSAIS_MAX,   \* tries a code stands
    MaxDemandes,       \* codes asked for before the invitation is blocked
    MaxLiens,          \* bound: links sent
    MaxCodes,          \* bound: codes drawn
    Requetes,          \* request slots
    NUL                \* SQL NULL

Domaines == CODE_ESSAIS_MAX \in Nat \ {0} /\ MaxDemandes \in Nat /\ MaxLiens \in Nat
            /\ MaxCodes \in Nat /\ NUL \notin Nat

VARIABLES
    lien,        \* the link in force, 0 before the first
    revoquee,
    code,        \* the code in force and whether its time is over, or NUL
    essais,      \* codeEssais
    demandes,    \* what the limiter counts
    essayes,     \* code -> answers given on digits compared with it, NUL before it is drawn
    ouvertes,    \* links a session was opened with
    servis,      \* code -> sessions it opened
    req

vars == <<lien, revoquee, code, essais, demandes, essayes, ouvertes, servis, req>>

Codes == 1..MaxCodes
Tires == Cardinality({c \in Codes : essayes[c] # NUL})
Requete ==
         [etat: {"libre"}]
    \cup [etat: {"demande"}]
    \cup [etat: {"essai"}, lien: 1..MaxLiens, valide: BOOLEAN, code: Codes \cup {NUL}, lus: Nat]

Libre == [etat |-> "libre"]
Garder(q, r) == req' = [req EXCEPT ![q] = r]
Finir(q) == Garder(q, Libre)
En(q, etat) == req[q].etat = etat

\* The link resolves: it is the last one, and was not withdrawn.
Resoudre(j) == j # 0 /\ j = lien /\ ~revoquee

\* The sessions served: those whose link resolves.
Session == {j \in ouvertes : Resoudre(j)}

(***************************************************************************)
(* The promoter                                                            *)
(***************************************************************************)
Envoyer ==
    /\ lien < MaxLiens
    /\ lien' = lien + 1 /\ revoquee' = FALSE /\ code' = NUL /\ essais' = 0
    /\ UNCHANGED <<demandes, essayes, ouvertes, servis, req>>

Revoquer ==
    /\ lien # 0
    /\ revoquee' = TRUE /\ code' = NUL
    /\ UNCHANGED <<lien, essais, demandes, essayes, ouvertes, servis, req>>

(***************************************************************************)
(* The company                                                             *)
(***************************************************************************)
\* Every request for a code counts.
DemanderCode(q, j) ==
    /\ En(q, "libre")
    /\ Resoudre(j)
    /\ demandes < MaxDemandes
    /\ demandes' = demandes + 1
    /\ Garder(q, [etat |-> "demande"])
    /\ UNCHANGED <<lien, revoquee, code, essais, essayes, ouvertes, servis>>

\* The row, whatever became of it, gets a fresh code; it is mailed next.
EcrireCode(q) ==
    /\ En(q, "demande")
    /\ Tires < MaxCodes
    /\ code' = [no |-> Tires + 1, perime |-> FALSE]
    /\ essais' = 0
    /\ essayes' = [essayes EXCEPT ![Tires + 1] = 0]
    /\ Finir(q)
    /\ UNCHANGED <<lien, revoquee, demandes, ouvertes, servis>>

\* Compared only while the code is there, in time and not worn out.
Comparable == code # NUL /\ ~code.perime /\ essais < CODE_ESSAIS_MAX

\* juste: the digits are those of a code that can open.  Bound: one try more
\* than a code stands.
Essayer(q, j, juste) ==
    /\ En(q, "libre")
    /\ Resoudre(j)
    /\ juste => Comparable
    /\ essais <= CODE_ESSAIS_MAX
    /\ Garder(q, [etat |-> "essai", lien |-> j, valide |-> juste,
                  code |-> IF Comparable THEN code.no ELSE NUL, lus |-> IF juste THEN 0 ELSE essais])
    /\ UNCHANGED <<lien, revoquee, code, essais, demandes, essayes, ouvertes, servis>>

\* An answer on digits that were compared.
Repondu(c) == essayes' = IF c = NUL THEN essayes ELSE [essayes EXCEPT ![c] = @ + 1]

\* Mutant: the code that opened a session is not burnt.
OuvrirSession_Garde(q) ==
    /\ En(q, "essai") /\ req[q].valide
    /\ essais' = 0
    /\ ouvertes' = ouvertes \cup {req[q].lien}
    /\ servis' = [servis EXCEPT ![req[q].code] = @ + 1]
    /\ Repondu(req[q].code) /\ Finir(q)
    /\ UNCHANGED <<lien, revoquee, code, demandes>>

\* The code is burnt; the session names the link it was opened with.
OuvrirSession(q) ==
    /\ En(q, "essai") /\ req[q].valide
    /\ code' = NUL /\ essais' = 0
    /\ ouvertes' = ouvertes \cup {req[q].lien}
    /\ servis' = [servis EXCEPT ![req[q].code] = @ + 1]
    /\ Repondu(req[q].code) /\ Finir(q)
    /\ UNCHANGED <<lien, revoquee, demandes>>

\* Mutant: the count that was read is the one incremented.
RefuserCode_Relu(q) ==
    /\ En(q, "essai") /\ ~req[q].valide
    /\ essais' = req[q].lus + 1
    /\ Repondu(req[q].code) /\ Finir(q)
    /\ UNCHANGED <<lien, revoquee, code, demandes, ouvertes, servis>>

\* A try more, counted by the database.
RefuserCode(q) ==
    /\ En(q, "essai") /\ ~req[q].valide
    /\ essais' = essais + 1
    /\ Repondu(req[q].code) /\ Finir(q)
    /\ UNCHANGED <<lien, revoquee, code, demandes, ouvertes, servis>>

Interrompre(q) ==
    /\ ~En(q, "libre")
    /\ Finir(q)
    /\ UNCHANGED <<lien, revoquee, code, essais, demandes, essayes, ouvertes, servis>>

(***************************************************************************)
(* Time                                                                    *)
(***************************************************************************)
\* A quarter of an hour after it was drawn.
Perimer ==
    /\ code # NUL /\ ~code.perime
    /\ code' = [code EXCEPT !.perime = TRUE]
    /\ UNCHANGED <<lien, revoquee, essais, demandes, essayes, ouvertes, servis, req>>

\* The counters are kept in memory, for a while.
Debloquer ==
    /\ demandes # 0
    /\ demandes' = 0
    /\ UNCHANGED <<lien, revoquee, code, essais, essayes, ouvertes, servis, req>>

Init ==
    /\ lien = 0 /\ revoquee = FALSE /\ code = NUL /\ essais = 0 /\ demandes = 0
    /\ essayes = [c \in Codes |-> NUL]
    /\ ouvertes = {}
    /\ servis = [c \in Codes |-> 0]
    /\ req = [q \in Requetes |-> Libre]

Next ==
    \/ Envoyer \/ Revoquer \/ Perimer \/ Debloquer
    \/ \E q \in Requetes :
          \/ \E j \in 1..MaxLiens : DemanderCode(q, j) \/ \E juste \in BOOLEAN : Essayer(q, j, juste)
          \/ EcrireCode(q) \/ OuvrirSession(q) \/ RefuserCode(q) \/ Interrompre(q)

Spec == Init /\ [][Next]_vars

(***************************************************************************)
(* Properties                                                              *)
(***************************************************************************)
TypeOK ==
    /\ lien \in 0..MaxLiens /\ revoquee \in BOOLEAN
    /\ code \in [no: Codes, perime: BOOLEAN] \cup {NUL}
    /\ essais \in Nat /\ demandes \in 0..MaxDemandes
    /\ essayes \in [Codes -> Nat \cup {NUL}] /\ servis \in [Codes -> Nat]
    /\ ouvertes \subseteq 1..MaxLiens
    /\ req \in [Requetes -> Requete]

\* ouvrirSession: a try is checked and counted in two transactions, so that
\* requests at once may each have one try more answered than a code stands, and
\* never more than that, however the link is sent again, the code drawn again
\* and the tries late; and only requests at once may be served by one code.
EssaisBornes ==
    \A c \in Codes :
        /\ essayes[c] # NUL => essayes[c] <= CODE_ESSAIS_MAX + Cardinality(Requetes) - 1
        /\ servis[c] <= Cardinality(Requetes)

(***************************************************************************)
(* The inductive invariant behind them                                     *)
(***************************************************************************)
\* The tries of a code not yet answered, and those of them that are right.
EnVol(c) == {q \in Requetes : En(q, "essai") /\ req[q].code = c}
JustesEnVol(c) == {q \in EnVol(c) : req[q].valide}

\* Codes are drawn one after the other, and only a code that was drawn is tried.
CodesTires ==
    /\ \A c, d \in Codes : c <= d /\ essayes[d] # NUL => essayes[c] # NUL
    /\ \A c \in Codes : essayes[c] = NUL => servis[c] = 0 /\ EnVol(c) = {}
    /\ \A q \in Requetes : En(q, "essai") /\ req[q].valide => req[q].code # NUL

\* The code in force has served nobody, and every answer on it was counted.
CodeEnVigueur ==
    code # NUL => /\ essayes[code.no] # NUL
                  /\ essayes[code.no] <= essais
                  /\ servis[code.no] = 0

\* An answer to come is an answer the bound already counts.
EnVolComptes ==
    \A c \in Codes :
        /\ essayes[c] # NUL =>
              essayes[c] + Cardinality(EnVol(c)) <= CODE_ESSAIS_MAX + Cardinality(Requetes) - 1
        /\ servis[c] + Cardinality(JustesEnVol(c)) <= Cardinality(Requetes)

IInv == TypeOK /\ CodesTires /\ CodeEnVigueur /\ EnVolComptes
=============================================================================
