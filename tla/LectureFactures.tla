-------------------------- MODULE LectureFactures --------------------------
(***************************************************************************)
(* How an invoice enters the operation and reaches the "billed" column: a  *)
(* piece is dropped on the screen or comes attached to an e-mail, a        *)
(* background task reads it, the site management endorses it and the       *)
(* developer validates it against what the contract orders.  What is paid  *)
(* afterwards is OrdresPaiement.                                           *)
(*                                                                         *)
(* A request slot is a handler that has read, or the background reading of *)
(* a piece.  Readings wait in the memory of the process, which a restart   *)
(* empties.  The database protects two keys: one invoice per piece (the    *)
(* hash of the file) and one row per message (its Message-ID).             *)
(***************************************************************************)
EXTENDS Integers, Sequences, FiniteSets, FiniteSetsExt

CONSTANTS
    Pieces,          \* files an invoice may come from
    Messages,        \* e-mails sent to the address of the operation
    PiecesDe,        \* message -> the pieces attached to it
    Montants,        \* amounts a piece or a person may give
    Base,            \* the contract is reckoned before tax ("HT") or with it ("TTC")
    Commande,        \* contract and its amendments, in that base
    DtNommee,        \* the operation has a site management
    MaxVisas,        \* bound: endorsements of one invoice
    MaxLectures,     \* bound: readings waiting for one piece
    Requetes,        \* request slots
    NUL              \* SQL NULL, or no row

VARIABLES
    messages,        \* message -> its row, or NUL
    lus,             \* messages flagged \Seen in the mailbox
    factures,        \* piece -> its invoice, or NUL
    planifiees,      \* piece -> readings waiting in memory
    req              \* what each request in flight has read

vars == <<messages, lus, factures, planifiees, req>>

(***************************************************************************)
(* Rows                                                                    *)
(***************************************************************************)
FactureStatut ==
    {"RECUE", "EN_LECTURE", "A_VALIDER", "VALIDEE", "PAYEE", "LITIGE", "REJETEE"}
Validees == {"VALIDEE", "PAYEE"}
Modifiables == {"RECUE", "EN_LECTURE", "A_VALIDER", "LITIGE"}
Visa == {"APPROUVE", "REFUSE"}

\* When the message came: echec, its sender was found usurped; connu, the
\* sender was known; ouverte, the mailbox was open to anybody.  libere: a
\* person let it out of quarantine.
Message == [statut: {"ACCEPTE", "QUARANTAINE", "REJETE"}, echec: BOOLEAN, connu: BOOLEAN,
            ouverte: BOOLEAN, libere: BOOLEAN]

\* Amounts of an invoice before and with tax, and its rate in percent.
Chiffres == [ht: Nat \cup {NUL}, ttc: Nat \cup {NUL}, taux: Nat \cup {NUL}]
Vide == [ht |-> NUL, ttc |-> NUL, taux |-> NUL]

\* contrat: attached to the contract.  critique: its report says so.  For
\* the last validation: cumul, the amounts of the contract were compared;
\* compare, the invoice's value in the base of the contract at that time;
\* force, the person went on regardless.
Facture == [statut: FactureStatut, porte: {"DEPOT", "SAISIE"} \cup Messages,
            montant: Chiffres, contrat: BOOLEAN, visas: Seq(Visa), critique: BOOLEAN,
            paye: BOOLEAN, cumul: BOOLEAN, compare: Nat \cup {NUL}, force: BOOLEAN]

\* What the constants stand for.
Domaines ==
    /\ IsFiniteSet(Pieces)
    /\ Montants \subseteq Chiffres /\ Base \in {"HT", "TTC"} /\ Commande \in Nat
    /\ PiecesDe \in [Messages -> SUBSET Pieces]
    /\ DtNommee \in BOOLEAN
    /\ MaxVisas \in Nat /\ MaxLectures \in Nat \ {0}
    /\ NUL \notin Nat \cup Message \cup Facture
    /\ Messages \cap {"DEPOT", "SAISIE"} = {}

\* An operation nobody writes to: what PiecesDe is without messages.
AucunePiece == <<>>

\* Invoices that give one amount, before tax: what Montants may be.
MontantSeul == {[ht |-> 60, ttc |-> NUL, taux |-> NUL]}

Requete ==
         [etat: {"libre"}]
    \cup [etat: {"message"}, m: Messages]
    \cup [etat: {"liberation"}, m: Messages]
    \cup [etat: {"versement"}, porte: {"DEPOT"} \cup Messages, reste: SUBSET Pieces,
          aLire: SUBSET Pieces]
    \cup [etat: {"piece"}, porte: {"DEPOT"} \cup Messages, reste: SUBSET Pieces,
          aLire: SUBSET Pieces, p: Pieces]
    \cup [etat: {"lecture", "facture"}, p: Pieces, statut: FactureStatut,
          montant: Chiffres, contrat: BOOLEAN, paye: BOOLEAN]
    \cup [etat: {"relance"}, p: Pieces]
    \cup [etat: {"controle"}, p: Pieces, lecture: BOOLEAN]
    \cup [etat: {"validation"}, p: Pieces, contrat: BOOLEAN, compare: Nat \cup {NUL},
          force: BOOLEAN]

Libre == [etat |-> "libre"]

Garder(q, r) == req' = [req EXCEPT ![q] = r]
Finir(q) == Garder(q, Libre)
En(q, etat) == req[q].etat = etat

Existe(p) == factures[p] # NUL

\* What a handler keeps of the invoice it has read.
Lue(etat, p) ==
    [etat |-> etat, p |-> p, statut |-> factures[p].statut, montant |-> factures[p].montant,
     contrat |-> factures[p].contrat, paye |-> factures[p].paye]

Nouvelle(statut, porte, montant) ==
    [statut |-> statut, porte |-> porte, montant |-> montant, contrat |-> FALSE,
     visas |-> <<>>, critique |-> FALSE, paye |-> FALSE, cumul |-> FALSE, compare |-> NUL,
     force |-> FALSE]

(***************************************************************************)
(* EmailsEntrantsService                                                   *)
(***************************************************************************)
\* The mailbox is searched for messages not seen; one whose Message-ID is
\* known is a duplicate.
LireMessage(q, m) ==
    /\ En(q, "libre")
    /\ m \notin lus /\ messages[m] = NUL
    /\ Garder(q, [etat |-> "message", m |-> m])
    /\ UNCHANGED <<messages, lus, factures, planifiees>>

\* Flagged whether the treatment went well or not, or found a duplicate.
MarquerLu(m) ==
    /\ m \notin lus
    /\ lus' = lus \cup {m}
    /\ UNCHANGED <<messages, factures, planifiees, req>>

\* An unknown sender is accepted where the mailbox is open, a usurped one nowhere.
Decider(echec, connu, ouverte) ==
    IF echec \/ (~ouverte /\ ~connu) THEN "QUARANTAINE" ELSE "ACCEPTE"

\* The row is written, then the pieces of an accepted message are poured in.
EnregistrerMessage(q, echec, connu, ouverte) ==
    LET m == req[q].m
        decision == Decider(echec, connu, ouverte)
        statut == IF decision = "ACCEPTE" /\ PiecesDe[m] = {} THEN "REJETE" ELSE decision
    IN /\ En(q, "message")
       /\ messages[m] = NUL
       /\ messages' = [messages EXCEPT ![m] =
              [statut |-> statut, echec |-> echec, connu |-> connu, ouverte |-> ouverte,
               libere |-> FALSE]]
       /\ IF statut = "ACCEPTE"
          THEN Garder(q, [etat |-> "versement", porte |-> m, reste |-> PiecesDe[m], aLire |-> {}])
          ELSE Finir(q)
       /\ UNCHANGED <<lus, factures, planifiees>>

LireLiberation(q, m) ==
    /\ En(q, "libre")
    /\ messages[m] # NUL /\ messages[m].statut = "QUARANTAINE"
    /\ Garder(q, [etat |-> "liberation", m |-> m])
    /\ UNCHANGED <<messages, lus, factures, planifiees>>

\* Mutant: the pieces are poured in although the row is not updated.
Liberer_SansEcrire(q) ==
    LET m == req[q].m
    IN /\ En(q, "liberation")
       /\ Garder(q, [etat |-> "versement", porte |-> m, reste |-> PiecesDe[m], aLire |-> {}])
       /\ UNCHANGED <<messages, lus, factures, planifiees>>

\* Written whatever the row has become since it was read.
Liberer(q) ==
    LET m == req[q].m
    IN /\ En(q, "liberation")
       /\ messages' = [messages EXCEPT ![m].statut = "ACCEPTE", ![m].libere = TRUE]
       /\ Garder(q, [etat |-> "versement", porte |-> m, reste |-> PiecesDe[m], aLire |-> {}])
       /\ UNCHANGED <<lus, factures, planifiees>>

\* Mutant: the statement no longer asks for a message in quarantine.
Rejeter_Toujours(m) ==
    /\ messages[m] # NUL
    /\ messages' = [messages EXCEPT ![m].statut = "REJETE"]
    /\ UNCHANGED <<lus, factures, planifiees, req>>

Rejeter(m) ==
    /\ messages[m] # NUL /\ messages[m].statut = "QUARANTAINE"
    /\ messages' = [messages EXCEPT ![m].statut = "REJETE"]
    /\ UNCHANGED <<lus, factures, planifiees, req>>

(***************************************************************************)
(* LectureFacturesService: reception                                       *)
(***************************************************************************)
Deposer(q, P) ==
    /\ En(q, "libre")
    /\ Garder(q, [etat |-> "versement", porte |-> "DEPOT", reste |-> P, aLire |-> {}])
    /\ UNCHANGED <<messages, lus, factures, planifiees>>

\* One piece after the other: is its hash known?
ChercherPiece(q, p) ==
    /\ En(q, "versement") /\ p \in req[q].reste
    /\ Garder(q, IF Existe(p) THEN [req[q] EXCEPT !.reste = @ \ {p}]
                 ELSE [etat |-> "piece", porte |-> req[q].porte, reste |-> req[q].reste \ {p},
                       aLire |-> req[q].aLire, p |-> p])
    /\ UNCHANGED <<messages, lus, factures, planifiees>>

\* The key refuses a piece recorded since: the request ends there.
Recevoir(q) ==
    LET r == req[q]
    IN /\ En(q, "piece")
       /\ ~Existe(r.p)
       /\ factures' = [factures EXCEPT ![r.p] = Nouvelle("EN_LECTURE", r.porte, Vide)]
       /\ Garder(q, [etat |-> "versement", porte |-> r.porte, reste |-> r.reste,
                     aLire |-> r.aLire \cup {r.p}])
       /\ UNCHANGED <<messages, lus, planifiees>>

\* Readings are planned once every piece has been taken.
Planifier(q) ==
    /\ En(q, "versement") /\ req[q].reste = {}
    /\ planifiees' = [p \in Pieces |->
          IF p \in req[q].aLire THEN planifiees[p] + 1 ELSE planifiees[p]]
    /\ Finir(q)
    /\ UNCHANGED <<messages, lus, factures>>

LireRelance(q, p) ==
    /\ En(q, "libre")
    /\ Existe(p) /\ factures[p].porte # "SAISIE"
    /\ factures[p].statut \notin Validees
    /\ Garder(q, [etat |-> "relance", p |-> p])
    /\ UNCHANGED <<messages, lus, factures, planifiees>>

Relancer(q) ==
    LET p == req[q].p
    IN /\ En(q, "relance")
       /\ planifiees[p] < MaxLectures
       /\ factures' = [factures EXCEPT ![p].statut = "EN_LECTURE"]
       /\ planifiees' = [planifiees EXCEPT ![p] = @ + 1]
       /\ Finir(q)
       /\ UNCHANGED <<messages, lus>>

(***************************************************************************)
(* LectureFacturesService: reading and check                               *)
(***************************************************************************)
LireFond(q, p) ==
    /\ En(q, "libre") /\ planifiees[p] > 0
    /\ planifiees' = [planifiees EXCEPT ![p] = @ - 1]
    /\ Garder(q, Lue("lecture", p))
    /\ UNCHANGED <<messages, lus, factures>>

Complete(champ, lu) == IF champ = NUL THEN lu ELSE champ

\* Only the empties are filled, each amount for itself.
Completes(montant, lu) ==
    [ht |-> Complete(montant.ht, lu.ht), ttc |-> Complete(montant.ttc, lu.ttc),
     taux |-> Complete(montant.taux, lu.taux)]

\* Text, bulletin and model take their time; the row is then completed as it
\* was read before, and set to A_VALIDER whatever it has become.
EcrireLecture(q, montant, contrat) ==
    LET p == req[q].p
        lue == req[q]
    IN /\ En(q, "lecture")
       /\ factures' = [factures EXCEPT ![p].montant = Completes(lue.montant, montant),
                                       ![p].contrat = lue.contrat \/ contrat,
                                       ![p].statut = "A_VALIDER"]
       /\ Garder(q, [etat |-> "controle", p |-> p, lecture |-> TRUE])
       /\ UNCHANGED <<messages, lus, planifiees>>

\* The check that follows a reading belongs to it: when it fails, so has the
\* reading, although its result is written.
EchouerLecture(q) ==
    LET p == req[q].p
    IN /\ En(q, "lecture") \/ (En(q, "controle") /\ req[q].lecture)
       /\ factures' = [factures EXCEPT ![p].statut = "RECUE"]
       /\ Finir(q)
       /\ UNCHANGED <<messages, lus, planifiees>>

\* The report is recomputed on the row as it is; what it finds (another
\* bank account, a duplicate) is left open.
Controler(q, critique) ==
    LET p == req[q].p
    IN /\ En(q, "controle")
       /\ factures' = [factures EXCEPT ![p].critique = critique]
       /\ Finir(q)
       /\ UNCHANGED <<messages, lus, planifiees>>

(***************************************************************************)
(* FacturesService                                                         *)
(***************************************************************************)
\* An invoice without a piece.
Creer(p, montant) ==
    /\ ~Existe(p)
    /\ factures' = [factures EXCEPT ![p] = Nouvelle("RECUE", "SAISIE", montant)]
    /\ UNCHANGED <<messages, lus, planifiees, req>>

LireFacture(q, p) ==
    /\ En(q, "libre") /\ Existe(p)
    /\ Garder(q, Lue("facture", p))
    /\ UNCHANGED <<messages, lus, factures, planifiees>>

\* montant: the amounts as the correction leaves them, those it does not name
\* included.  The correction is followed by a check of its own.
Modifier(q, montant, contrat) ==
    LET p == req[q].p
    IN /\ En(q, "facture") /\ req[q].statut \in Modifiables
       /\ factures' = [factures EXCEPT ![p].montant = montant, ![p].contrat = contrat]
       /\ Garder(q, [etat |-> "controle", p |-> p, lecture |-> FALSE])
       /\ UNCHANGED <<messages, lus, planifiees>>

\* The other reading, asked for by hand, on a text that was typed or
\* extracted; no status stops it.
Analyser(q, montant, contrat) ==
    LET p == req[q].p
        lue == req[q]
    IN /\ En(q, "facture")
       /\ factures' = [factures EXCEPT
              ![p].montant = Completes(lue.montant, montant),
              ![p].contrat = lue.contrat \/ contrat,
              ![p].statut = IF lue.statut = "RECUE" THEN "A_VALIDER" ELSE lue.statut]
       /\ Finir(q)
       /\ UNCHANGED <<messages, lus, planifiees>>

\* Site management: a refusal makes a dispute of the invoice.
Viser(q, decision) ==
    LET p == req[q].p
    IN /\ DtNommee
       /\ En(q, "facture") /\ req[q].statut \in {"A_VALIDER", "LITIGE"}
       /\ Len(factures[p].visas) < MaxVisas
       /\ factures' = [factures EXCEPT
              ![p].visas = Append(@, decision),
              ![p].statut = IF decision = "REFUSE" THEN "LITIGE" ELSE "A_VALIDER"]
       /\ Finir(q)
       /\ UNCHANGED <<messages, lus, planifiees>>

\* Mutant: one favourable endorsement is enough, though refused since.
Visee_UneFois(f) == \E i \in 1..Len(f.visas) : f.visas[i] = "APPROUVE"

\* The latest endorsement is the one that counts.
Visee(f) == f.visas # <<>> /\ f.visas[Len(f.visas)] = "APPROUVE"

\* Mutant: an invoice that has been paid no longer counts.
Comptees_SansPayees == {p \in Pieces : Existe(p) /\ factures[p].contrat /\ factures[p].statut = "VALIDEE"}

\* What the contract has been billed.
Comptees == {p \in Pieces : Existe(p) /\ factures[p].contrat /\ factures[p].statut \in Validees}

Arrondi(n, d) == (2 * n + d) \div (2 * d)
AvecTaxe(m) ==
    IF m.ht # NUL /\ m.taux # NUL THEN Arrondi(m.ht * (100 + m.taux), 100) ELSE NUL
SansTaxe(m) ==
    IF m.ttc # NUL /\ m.taux # NUL THEN Arrondi(m.ttc * 100, 100 + m.taux) ELSE NUL

\* The amount in the base of the contract: given, reckoned at the rate, or none.
Valeur(m) == IF Base = "TTC" THEN Complete(m.ttc, AvecTaxe(m)) ELSE Complete(m.ht, SansTaxe(m))

\* An invoice without a value in that base counts for nothing among the
\* billed, and for its amount before tax while it is being validated.
Montant(f) == Complete(Valeur(f.montant), 0)
Ajoute(m) == Complete(Valeur(m), m.ht)
Total(lignes, P) == MapThenSumSet(LAMBDA p : Montant(lignes[p]), P)
Somme(P) == Total(factures, P)

LireValidation(q, p, contrat, force) ==
    LET f == factures[p]
        impute == contrat \/ f.contrat
    IN /\ En(q, "libre") /\ Existe(p)
       /\ f.statut \notin Validees \cup {"EN_LECTURE"}
       /\ DtNommee => Visee(f)
       /\ f.critique => force
       /\ f.montant.ht # NUL /\ f.montant.ht > 0
       /\ impute /\ Somme(Comptees) + Ajoute(f.montant) > Commande => force
       /\ Garder(q, [etat |-> "validation", p |-> p, contrat |-> impute,
                     compare |-> IF impute THEN Valeur(f.montant) ELSE NUL, force |-> force])
       /\ UNCHANGED <<messages, lus, factures, planifiees>>

Valider(q) ==
    LET p == req[q].p
    IN /\ En(q, "validation")
       /\ factures' = [factures EXCEPT ![p].statut = "VALIDEE",
              ![p].contrat = req[q].contrat, ![p].cumul = req[q].contrat,
              ![p].compare = req[q].compare, ![p].force = req[q].force]
       /\ Finir(q)
       /\ UNCHANGED <<messages, lus, planifiees>>

ChangerStatut(q, statut) ==
    LET p == req[q].p
    IN /\ En(q, "facture")
       /\ req[q].paye => statut = "A_VALIDER"
       /\ factures' = [factures EXCEPT ![p].statut = statut]
       /\ Finir(q)
       /\ UNCHANGED <<messages, lus, planifiees>>

\* A payment in part, or the one that settles.
EnregistrerPaiement(q, solde) ==
    LET p == req[q].p
    IN /\ En(q, "facture") /\ req[q].statut \in Validees
       /\ factures' = [factures EXCEPT ![p].paye = TRUE,
              ![p].statut = IF solde THEN "PAYEE" ELSE @]
       /\ Finir(q)
       /\ UNCHANGED <<messages, lus, planifiees>>

\* A refusal, a key already there, or a failure: what was not committed is
\* rolled back, what was committed stays.
Interrompre(q) ==
    /\ ~En(q, "libre")
    /\ Finir(q)
    /\ UNCHANGED <<messages, lus, factures, planifiees>>

\* The process stops: requests, and the readings it had in memory, are lost.
Redemarrer ==
    /\ req' = [q \in Requetes |-> Libre]
    /\ planifiees' = [p \in Pieces |-> 0]
    /\ UNCHANGED <<messages, lus, factures>>

(***************************************************************************)
(* Specification                                                           *)
(***************************************************************************)
Init ==
    /\ messages = [m \in Messages |-> NUL]
    /\ lus = {}
    /\ factures = [p \in Pieces |-> NUL]
    /\ planifiees = [p \in Pieces |-> 0]
    /\ req = [q \in Requetes |-> Libre]

Courrier(q) ==
    \/ \E m \in Messages : LireMessage(q, m) \/ LireLiberation(q, m)
    \/ \E echec, connu, ouverte \in BOOLEAN : EnregistrerMessage(q, echec, connu, ouverte)
    \/ Liberer(q)

Reception(q) ==
    \/ \E P \in SUBSET Pieces : P # {} /\ Deposer(q, P)
    \/ \E p \in Pieces : ChercherPiece(q, p) \/ LireRelance(q, p)
    \/ Recevoir(q)
    \/ Planifier(q)
    \/ Relancer(q)

Lecture(q) ==
    \/ \E p \in Pieces : LireFond(q, p)
    \/ \E m \in Montants \cup {Vide}, c \in BOOLEAN : EcrireLecture(q, m, c)
    \/ EchouerLecture(q)
    \/ \E c \in BOOLEAN : Controler(q, c)

Decision(q) ==
    \/ \E p \in Pieces : LireFacture(q, p)
    \/ \E m \in Montants \cup {Vide}, c \in BOOLEAN : Modifier(q, m, c) \/ Analyser(q, m, c)
    \/ \E d \in Visa : Viser(q, d)
    \/ \E p \in Pieces, c, f \in BOOLEAN : LireValidation(q, p, c, f)
    \/ Valider(q)
    \/ \E s \in {"LITIGE", "REJETEE", "A_VALIDER"} : ChangerStatut(q, s)
    \/ \E s \in BOOLEAN : EnregistrerPaiement(q, s)

Immediat ==
    \/ \E m \in Messages : MarquerLu(m) \/ Rejeter(m)
    \/ \E p \in Pieces, m \in Montants \cup {Vide} : Creer(p, m)
    \/ Redemarrer

Next == Immediat \/ \E q \in Requetes : Courrier(q) \/ Reception(q) \/ Lecture(q) \/ Decision(q) \/ Interrompre(q)

Spec == Init /\ [][Next]_vars

(***************************************************************************)
(* Properties                                                              *)
(***************************************************************************)
\* Every row, waiting reading and request in flight has its shape.
TypeOK ==
    /\ messages \in [Messages -> Message \cup {NUL}]
    /\ lus \subseteq Messages
    /\ factures \in [Pieces -> Facture \cup {NUL}]
    /\ planifiees \in [Pieces -> 0..(MaxLectures + 1)]
    /\ req \in [Requetes -> Requete]

\* decider, liberer, rejeter: what comes by mail from a usurped address, or
\* from a sender nobody knows while the mailbox is closed to them, becomes an
\* invoice only if a person let the message out, and a message whose pieces
\* came in stays accepted, whoever releases and rejects it at the same time.
QuarantaineRetenue ==
    \A p \in Pieces : Existe(p) /\ factures[p].porte \in Messages =>
        LET m == messages[factures[p].porte]
        IN m.statut = "ACCEPTE" /\ (m.libere \/ (~m.echec /\ (m.connu \/ m.ouverte)))

\* valider, one request at a time: whatever is corrected, read again, put in
\* dispute, reopened and paid, an invoice in the billed column has the latest
\* word of the site management for it (but those a bank file settles, in
\* OrdresPaiement), and the invoices of the contract that count for the value
\* compared when they were validated stay within what it orders, unless
\* somebody went on regardless.  One compared without a value, or completed
\* since, is left out: CumulTenu below is what the comment of valider says.
FactureJustifiee ==
    LET validees == {p \in Pieces : Existe(p) /\ factures[p].statut \in Validees}
        imputees == {p \in validees :
                        /\ factures[p].contrat /\ factures[p].compare # NUL
                        /\ Valeur(factures[p].montant) = factures[p].compare}
    IN /\ DtNommee => \A p \in validees :
             LET v == factures[p].visas IN v # <<>> /\ v[Len(v)] = "APPROUVE"
       /\ (\A p \in imputees : ~factures[p].force) => Somme(imputees) <= Commande

\* valider: "Le contrôle de cumul est bloquant".  The invoices compared with
\* the contract, each for what it was compared with, stay within what it
\* orders.  The code breaks it: an invoice without a value in the contract's
\* base is added for its amount before tax, and forgotten once validated.
CumulTenu ==
    LET imputees == {p \in Pieces : Existe(p) /\ factures[p].statut \in Validees
                                   /\ factures[p].contrat /\ factures[p].cumul}
    IN (\A p \in imputees : ~factures[p].force) =>
          MapThenSumSet(LAMBDA p : Ajoute(factures[p].montant), imputees) <= Commande

(***************************************************************************)
(* The inductive invariant behind QuarantaineRetenue, and the one that     *)
(* FactureJustifiee needs besides, one request at a time                   *)
(***************************************************************************)
Retenu(porte) ==
    porte \in Messages =>
        /\ messages[porte] # NUL /\ messages[porte].statut = "ACCEPTE"
        /\ \/ messages[porte].libere
           \/ ~messages[porte].echec /\ (messages[porte].connu \/ messages[porte].ouverte)

\* The row a request works on is there, and so is the message it releases or
\* whose pieces it pours in.
Suivi(r) ==
    /\ r.etat \in {"lecture", "facture", "relance", "controle", "validation"} => Existe(r.p)
    /\ r.etat = "liberation" => messages[r.m] # NUL
    /\ r.etat \in {"versement", "piece"} => Retenu(r.porte) /\ \A p \in r.aLire : Existe(p)

\* A piece is read once it is received, and its receiver alone has still to
\* plan the first reading.
AReceveur(r, p) == r.etat \in {"versement", "piece"} /\ p \in r.aLire

PremiereLecture ==
    \A p \in Pieces :
        /\ ~Existe(p) => planifiees[p] = 0
        /\ \A q \in Requetes : AReceveur(req[q], p) =>
              /\ planifiees[p] <= MaxLectures
              /\ \A s \in Requetes : AReceveur(req[s], p) => s = q

IInv ==
    /\ TypeOK
    /\ \A q \in Requetes : Suivi(req[q])
    /\ PremiereLecture
    /\ \A p \in Pieces : Existe(p) => Retenu(factures[p].porte)

\* What was read of an invoice is still so, and what allowed to validate it.
Actuel(r) ==
    /\ r.etat \in {"lecture", "facture"} => r = Lue(r.etat, r.p)
    /\ r.etat = "relance" => factures[r.p].statut \notin Validees
    /\ r.etat = "validation" =>
          /\ factures[r.p].statut \notin Validees /\ factures[r.p].montant.ht # NUL
          /\ DtNommee => Visee(factures[r.p])
          /\ r.compare = IF r.contrat THEN Valeur(factures[r.p].montant) ELSE NUL
          /\ r.contrat /\ ~r.force => Somme(Comptees) + Ajoute(factures[r.p].montant) <= Commande

\* It counts for the value that was compared, or has been given another since
\* and keeps it.
Comparee(f) ==
    f.compare # NUL =>
        f.contrat /\ (Valeur(f.montant) = f.compare \/ (Base = "TTC" /\ f.montant.ttc # NUL))

\* Validated on the contract for the value it still has, without anybody
\* going on regardless.
SansForcer(p) ==
    LET f == factures[p]
    IN /\ Existe(p) /\ f.statut \in Validees /\ f.contrat /\ ~f.force
       /\ f.compare # NUL /\ Valeur(f.montant) = f.compare

SInv ==
    /\ IInv
    /\ \A q \in Requetes : Actuel(req[q])
    /\ \A p \in Pieces : Existe(p) /\ factures[p].statut \in Validees =>
          LET f == factures[p]
          IN f.montant.ht # NUL /\ (DtNommee => Visee(f)) /\ Comparee(f)
    /\ Somme({p \in Pieces : SansForcer(p)}) <= Commande

\* relancer: "Facture validee : elle ne se relit plus".  A validated invoice
\* goes back to validation when a person asks for it, not by a reading.
ValideeNonRelue ==
    [][\A p \in Pieces : Existe(p) =>
          (factures[p].statut \in Validees /\ factures'[p].statut \notin Validees
              => \E q \in Requetes : En(q, "facture"))]_vars
=============================================================================
