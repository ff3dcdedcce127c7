--------------------------- MODULE OrdresPaiement ---------------------------
(***************************************************************************)
(* Paying suppliers: invoices from their reception to their settlement,    *)
(* and the payment orders that group them, are approved by the developer   *)
(* and leave for the bank as one pain.001 file.                            *)
(*                                                                         *)
(* As in AppelsDeFonds, a handler of FacturesService or                    *)
(* OrdresPaiementService is a request that reads, keeps what it has read,  *)
(* and writes later in a READ COMMITTED transaction; other requests may    *)
(* commit in between.  The database protects one key: the number of an     *)
(* order in its operation.                                                 *)
(***************************************************************************)
EXTENDS Integers, Sequences

CONSTANTS
    Factures,       \* invoices of the operation
    Montants,       \* amounts an invoice may show
    Retenue,        \* retention and deposits an invoice deducts
    Versements,     \* amounts of a payment entered by hand
    DtNommee,       \* the operation has a site management
    PlafondSaisi,   \* bound: what may be entered by hand on any two invoices
    MaxOrdres,      \* bound: orders composed
    Messages,       \* message identifiers the clock may give
    Requetes,       \* request slots: how many handlers run at once
    NUL,            \* SQL NULL
    OMIS            \* a field absent from the body of a PATCH

ASSUME DomainesAssumption ==
    /\ Montants \subseteq Nat
    /\ Retenue \in Nat
    /\ Versements \subseteq Nat
    /\ DtNommee \in BOOLEAN
    /\ PlafondSaisi \in Nat
    /\ MaxOrdres \in Nat
    /\ NUL \notin Nat \cup Messages
    /\ OMIS \notin Nat \cup {NUL}

VARIABLES
    factures,       \* invoice rows
    saisi,          \* invoice -> sum of the payments entered by hand
    vire,           \* invoice -> sum of the payments made by a bank file
    ordres,         \* payment orders; the index is the number of the order
    fichiers,       \* files handed to the bank
    req             \* what each request in flight has read

vars == <<factures, saisi, vire, ordres, fichiers, req>>

(***************************************************************************)
(* Rows                                                                    *)
(***************************************************************************)
FactureStatut == {"RECUE", "A_VALIDER", "VALIDEE", "PAYEE", "LITIGE", "REJETEE"}
OrdreStatut == {"BROUILLON", "VISE", "TRANSMIS", "ANNULE"}
Montant == Montants \cup {NUL}

Decision == {"APPROUVE", "REFUSE"}
Visa == Decision \cup {NUL}

\* visa: the latest word of the site management, the only one that is read.
Facture == [statut: FactureStatut, ht: Montant, ttc: Montant, visa: Visa]

\* What the order pays on each invoice, frozen when it is composed; nothing
\* on the invoices it does not hold.
Lignes == [Factures -> Nat]

\* vise: somebody is recorded as having approved the order.
Ordre == [statut: OrdreStatut, lignes: Lignes, vise: BOOLEAN,
          message: Messages \cup {NUL}]

Fichier == [ordre: Nat, message: Messages]

Requete ==
         [etat: {"libre"}]
    \cup [etat: {"facture"}, facture: Factures, statut: FactureStatut,
          ht: Montant, ttc: Montant, visa: Visa, paye: Nat]
    \cup [etat: {"composition"}, lignes: Lignes]
    \cup [etat: {"numero"}, lignes: Lignes, numero: Nat]
    \cup [etat: {"visa", "annulation"}, ordre: Nat]
    \cup [etat: {"fichier"}, ordre: Nat, message: Messages]
    \cup [etat: {"transmission"}, ordre: Nat, message: Messages,
          soldees: SUBSET Factures]

Libre == [etat |-> "libre"]

Garder(q, r) == req' = [req EXCEPT ![q] = r]
Finir(q) == Garder(q, Libre)
En(q, etat) == req[q].etat = etat

(***************************************************************************)
(* Amounts                                                                 *)
(***************************************************************************)
Paye(f) == saisi[f] + vire[f]

\* TTC, failing that HT, failing that nothing.
Du(ht, ttc) == IF ttc # NUL THEN ttc ELSE IF ht # NUL THEN ht ELSE 0

\* Net of what the invoice deducts; an invoice without amount has none to pay.
MontantAPayer(f) ==
    LET brut == Du(factures[f].ht, factures[f].ttc)
    IN IF brut = 0 THEN 0 ELSE brut - Retenue

Reste(f) == MontantAPayer(f) - Paye(f)

Donne(champ, courant) == IF champ = OMIS THEN courant ELSE champ
Complete(champ, lu) == IF champ = NUL THEN lu ELSE champ

(***************************************************************************)
(* FacturesService                                                         *)
(***************************************************************************)
\* Every handler of an invoice begins by reading it with its payments.
LireFacture(q, f) ==
    /\ En(q, "libre")
    /\ Garder(q, [etat |-> "facture", facture |-> f, statut |-> factures[f].statut,
                  ht |-> factures[f].ht, ttc |-> factures[f].ttc,
                  visa |-> factures[f].visa, paye |-> Paye(f)])
    /\ UNCHANGED <<factures, saisi, vire, ordres, fichiers>>

\* A field absent from the body keeps what the row holds now.
Modifier(q, ht, ttc) ==
    LET f == req[q].facture
    IN /\ En(q, "facture")
       /\ req[q].statut \in {"RECUE", "A_VALIDER", "LITIGE"}
       /\ factures' = [factures EXCEPT ![f].ht = Donne(ht, @), ![f].ttc = Donne(ttc, @)]
       /\ Finir(q)
       /\ UNCHANGED <<saisi, vire, ordres, fichiers>>

\* Mutant: what the machine reads replaces what is there.
Analyser_Ecrase(q, ht, ttc) ==
    LET lue == req[q]
    IN /\ En(q, "facture")
       /\ factures' = [factures EXCEPT
              ![lue.facture].statut = IF lue.statut = "RECUE" THEN "A_VALIDER" ELSE lue.statut,
              ![lue.facture].ht = ht, ![lue.facture].ttc = ttc]
       /\ Finir(q)
       /\ UNCHANGED <<saisi, vire, ordres, fichiers>>

\* The machine completes the amounts that were empty when it read the row,
\* and writes back the others, the status too, as it read them.
Analyser(q, ht, ttc) ==
    LET lue == req[q]
    IN /\ En(q, "facture")
       /\ factures' = [factures EXCEPT
              ![lue.facture].statut = IF lue.statut = "RECUE" THEN "A_VALIDER" ELSE lue.statut,
              ![lue.facture].ht = Complete(lue.ht, ht), ![lue.facture].ttc = Complete(lue.ttc, ttc)]
       /\ Finir(q)
       /\ UNCHANGED <<saisi, vire, ordres, fichiers>>

\* The site management endorses or refuses; the payments are not looked at.
ViserDirectionTravaux(q, decision) ==
    /\ DtNommee
    /\ En(q, "facture")
    /\ req[q].statut \in {"A_VALIDER", "LITIGE"}
    /\ factures' = [factures EXCEPT ![req[q].facture].visa = decision,
           ![req[q].facture].statut = IF decision = "REFUSE" THEN "LITIGE" ELSE "A_VALIDER"]
    /\ Finir(q)
    /\ UNCHANGED <<saisi, vire, ordres, fichiers>>

\* The other conditions (findings of the check, posting, amount ordered)
\* refuse the request, which is Interrompre.
Valider(q) ==
    /\ En(q, "facture")
    /\ req[q].statut \notin {"VALIDEE", "PAYEE"}
    /\ DtNommee => req[q].visa = "APPROUVE"
    /\ req[q].ht # NUL /\ req[q].ht > 0
    /\ factures' = [factures EXCEPT ![req[q].facture].statut = "VALIDEE"]
    /\ Finir(q)
    /\ UNCHANGED <<saisi, vire, ordres, fichiers>>

\* Mutant: the payments of the invoice are not looked at.
ChangerStatut_SansPaiements(q, statut) ==
    /\ En(q, "facture")
    /\ factures' = [factures EXCEPT ![req[q].facture].statut = statut]
    /\ Finir(q)
    /\ UNCHANGED <<saisi, vire, ordres, fichiers>>

\* An invoice that has payments may only be put back to be validated.
ChangerStatut(q, statut) ==
    /\ En(q, "facture")
    /\ req[q].paye > 0 => statut = "A_VALIDER"
    /\ factures' = [factures EXCEPT ![req[q].facture].statut = statut]
    /\ Finir(q)
    /\ UNCHANGED <<saisi, vire, ordres, fichiers>>

\* Mutant: the new payment is left out of the total.
EnregistrerPaiement_SansNouveau(q, montant) ==
    LET f == req[q].facture
        du == Du(req[q].ht, req[q].ttc)
    IN /\ En(q, "facture")
       /\ req[q].statut \in {"VALIDEE", "PAYEE"}
       /\ \A g \in Factures :
             saisi[f] + montant + (IF g = f THEN 0 ELSE saisi[g]) <= PlafondSaisi
       /\ saisi' = [saisi EXCEPT ![f] = @ + montant]
       /\ factures' = IF du # 0 /\ req[q].paye >= du
                      THEN [factures EXCEPT ![f].statut = "PAYEE"] ELSE factures
       /\ Finir(q)
       /\ UNCHANGED <<vire, ordres, fichiers>>

\* The total compared with the amount due is the one read, plus this payment.
EnregistrerPaiement(q, montant) ==
    LET f == req[q].facture
        du == Du(req[q].ht, req[q].ttc)
    IN /\ En(q, "facture")
       /\ req[q].statut \in {"VALIDEE", "PAYEE"}
       /\ \A g \in Factures :
             saisi[f] + montant + (IF g = f THEN 0 ELSE saisi[g]) <= PlafondSaisi
       /\ saisi' = [saisi EXCEPT ![f] = @ + montant]
       /\ factures' = IF du # 0 /\ req[q].paye + montant >= du
                      THEN [factures EXCEPT ![f].statut = "PAYEE"] ELSE factures
       /\ Finir(q)
       /\ UNCHANGED <<vire, ordres, fichiers>>

(***************************************************************************)
(* OrdresPaiementService: composing an order                               *)
(***************************************************************************)
Numeros == 1 .. Len(ordres)

\* Mutant: once approved, an order no longer holds its invoices.
Vivant_Brouillon(n) == ordres[n].statut = "BROUILLON"

Vivant(n) == ordres[n].statut # "ANNULE"
Contient(n, f) == ordres[n].lignes[f] > 0
DansUnOrdre(f) == \E n \in Numeros : Vivant(n) /\ Contient(n, f)

\* Mutant: an invoice with nothing left to pay enters the order.
LireFactures_SansReste(q, F) ==
    /\ En(q, "libre")
    /\ F # {}
    /\ \A f \in F : factures[f].statut = "VALIDEE" /\ ~DansUnOrdre(f)
    /\ Garder(q, [etat |-> "composition", lignes |->
                     [f \in Factures |-> IF f \in F THEN Reste(f) ELSE 0]])
    /\ UNCHANGED <<factures, saisi, vire, ordres, fichiers>>

\* creer reads the invoices, their payments and the orders that hold them.
LireFactures(q, F) ==
    /\ En(q, "libre")
    /\ F # {}
    /\ \A f \in F : /\ factures[f].statut = "VALIDEE"
                    /\ ~DansUnOrdre(f)
                    /\ Reste(f) > 0
    /\ Garder(q, [etat |-> "composition", lignes |->
                     [f \in Factures |-> IF f \in F THEN Reste(f) ELSE 0]])
    /\ UNCHANGED <<factures, saisi, vire, ordres, fichiers>>

\* Then the last number, in a query of its own.
LireNumero(q) ==
    /\ En(q, "composition")
    /\ Garder(q, [etat |-> "numero", lignes |-> req[q].lignes,
                  numero |-> Len(ordres) + 1])
    /\ UNCHANGED <<factures, saisi, vire, ordres, fichiers>>

CreerOrdre(q) ==
    /\ En(q, "numero")
    /\ Len(ordres) < MaxOrdres
    /\ req[q].numero = Len(ordres) + 1
    /\ ordres' = Append(ordres, [statut |-> "BROUILLON", lignes |-> req[q].lignes,
                                 vise |-> FALSE, message |-> NUL])
    /\ Finir(q)
    /\ UNCHANGED <<factures, saisi, vire, fichiers>>

\* @@unique([operationId, numero]): the number was taken, nothing is written.
ConflitNumero(q) ==
    /\ En(q, "numero")
    /\ req[q].numero # Len(ordres) + 1
    /\ Finir(q)
    /\ UNCHANGED <<factures, saisi, vire, ordres, fichiers>>

(***************************************************************************)
(* OrdresPaiementService: approving and cancelling                         *)
(***************************************************************************)
LireVisa(q, n) ==
    /\ En(q, "libre")
    /\ ordres[n].statut = "BROUILLON"
    /\ Garder(q, [etat |-> "visa", ordre |-> n])
    /\ UNCHANGED <<factures, saisi, vire, ordres, fichiers>>

\* The UPDATE does not look at the status again.
Viser(q) ==
    /\ En(q, "visa")
    /\ ordres' = [ordres EXCEPT ![req[q].ordre].statut = "VISE",
                                ![req[q].ordre].vise = TRUE]
    /\ Finir(q)
    /\ UNCHANGED <<factures, saisi, vire, fichiers>>

\* Mutant: an order may be cancelled whatever has become of it.
LireAnnulation_Transmis(q, n) ==
    /\ En(q, "libre")
    /\ ordres[n].statut # "ANNULE"
    /\ Garder(q, [etat |-> "annulation", ordre |-> n])
    /\ UNCHANGED <<factures, saisi, vire, ordres, fichiers>>

LireAnnulation(q, n) ==
    /\ En(q, "libre")
    /\ ordres[n].statut # "TRANSMIS"
    /\ Garder(q, [etat |-> "annulation", ordre |-> n])
    /\ UNCHANGED <<factures, saisi, vire, ordres, fichiers>>

Annuler(q) ==
    /\ En(q, "annulation")
    /\ ordres' = [ordres EXCEPT ![req[q].ordre].statut = "ANNULE"]
    /\ Finir(q)
    /\ UNCHANGED <<factures, saisi, vire, fichiers>>

(***************************************************************************)
(* OrdresPaiementService: the file for the bank                            *)
(***************************************************************************)
\* The identifier already given, else one drawn from the clock: later than
\* any file that left, but not than another download under way.
MessageId(n, m) ==
    IF ordres[n].message # NUL THEN m = ordres[n].message
    ELSE \A x \in fichiers : x.message # m

\* Mutant: the approval is not required.
LireFichier_SansVisa(q, n, m) ==
    /\ En(q, "libre")
    /\ ordres[n].statut \in {"BROUILLON", "VISE"}
    /\ MessageId(n, m)
    /\ Garder(q, [etat |-> "fichier", ordre |-> n, message |-> m])
    /\ UNCHANGED <<factures, saisi, vire, ordres, fichiers>>

\* The first download of an approved order.
LireFichier(q, n, m) ==
    /\ En(q, "libre")
    /\ ordres[n].statut = "VISE"
    /\ MessageId(n, m)
    /\ Garder(q, [etat |-> "fichier", ordre |-> n, message |-> m])
    /\ UNCHANGED <<factures, saisi, vire, ordres, fichiers>>

\* Once transmitted, the file is built again and nothing is written.
Retelecharger(n, m) ==
    /\ ordres[n].statut = "TRANSMIS"
    /\ MessageId(n, m)
    /\ fichiers' = fichiers \cup {[ordre |-> n, message |-> m]}
    /\ UNCHANGED <<factures, saisi, vire, ordres, req>>

\* The payments are inserted, then each invoice is read again with them.
PreparerVirements(q) ==
    LET n == req[q].ordre
    IN /\ En(q, "fichier")
       /\ Garder(q, [etat |-> "transmission", ordre |-> n, message |-> req[q].message,
              soldees |-> {f \in Factures : /\ Contient(n, f)
                                            /\ ordres[n].lignes[f] >= Reste(f)}])
       /\ UNCHANGED <<factures, saisi, vire, ordres, fichiers>>

\* Mutant: the identifier of the message is not kept.
Transmettre_SansMessage(q) ==
    LET n == req[q].ordre
    IN /\ En(q, "transmission")
       /\ vire' = [f \in Factures |-> vire[f] + ordres[n].lignes[f]]
       /\ factures' = [f \in Factures |->
                         IF f \in req[q].soldees
                         THEN [factures[f] EXCEPT !.statut = "PAYEE"] ELSE factures[f]]
       /\ ordres' = [ordres EXCEPT ![n].statut = "TRANSMIS"]
       /\ fichiers' = fichiers \cup {[ordre |-> n, message |-> req[q].message]}
       /\ Finir(q)
       /\ UNCHANGED saisi

\* Mutant: the order stays approved, ready to be downloaded again.
Transmettre_SansStatut(q) ==
    LET n == req[q].ordre
    IN /\ En(q, "transmission")
       /\ vire' = [f \in Factures |-> vire[f] + ordres[n].lignes[f]]
       /\ factures' = [f \in Factures |->
                         IF f \in req[q].soldees
                         THEN [factures[f] EXCEPT !.statut = "PAYEE"] ELSE factures[f]]
       /\ ordres' = [ordres EXCEPT ![n].message = req[q].message]
       /\ fichiers' = fichiers \cup {[ordre |-> n, message |-> req[q].message]}
       /\ Finir(q)
       /\ UNCHANGED saisi

\* Payments, invoices and order are committed together, then the file is
\* handed over.  The status of an invoice is not looked at.
Transmettre(q) ==
    LET n == req[q].ordre
    IN /\ En(q, "transmission")
       /\ vire' = [f \in Factures |-> vire[f] + ordres[n].lignes[f]]
       /\ factures' = [f \in Factures |->
                         IF f \in req[q].soldees
                         THEN [factures[f] EXCEPT !.statut = "PAYEE"] ELSE factures[f]]
       /\ ordres' = [ordres EXCEPT ![n].statut = "TRANSMIS",
                                   ![n].message = req[q].message]
       /\ fichiers' = fichiers \cup {[ordre |-> n, message |-> req[q].message]}
       /\ Finir(q)
       /\ UNCHANGED saisi

\* Refused, timed out or cut off: the transaction is rolled back.
Interrompre(q) ==
    /\ ~En(q, "libre")
    /\ Finir(q)
    /\ UNCHANGED <<factures, saisi, vire, ordres, fichiers>>

(***************************************************************************)
(* Specification                                                           *)
(***************************************************************************)
\* Invoices just received, with the amounts somebody may have typed in.
Init ==
    /\ factures \in [Factures -> [statut: {"RECUE"}, ht: Montant, ttc: Montant, visa: {NUL}]]
    /\ saisi = [f \in Factures |-> 0]
    /\ vire = [f \in Factures |-> 0]
    /\ ordres = <<>>
    /\ fichiers = {}
    /\ req = [q \in Requetes |-> Libre]

Facturation(q) ==
    \/ \E f \in Factures : LireFacture(q, f)
    \/ \E ht, ttc \in Montant \cup {OMIS} : Modifier(q, ht, ttc)
    \/ \E ht, ttc \in Montant : Analyser(q, ht, ttc)
    \/ \E d \in Decision : ViserDirectionTravaux(q, d)
    \/ Valider(q)
    \/ \E s \in {"LITIGE", "REJETEE", "A_VALIDER"} : ChangerStatut(q, s)
    \/ \E m \in Versements : EnregistrerPaiement(q, m)

Paiement(q) ==
    \/ \E F \in SUBSET Factures : LireFactures(q, F)
    \/ LireNumero(q)
    \/ CreerOrdre(q)
    \/ ConflitNumero(q)
    \/ \E n \in Numeros : LireVisa(q, n)
    \/ Viser(q)
    \/ \E n \in Numeros : LireAnnulation(q, n)
    \/ Annuler(q)
    \/ \E n \in Numeros, m \in Messages : LireFichier(q, n, m)
    \/ PreparerVirements(q)
    \/ Transmettre(q)

Next ==
    \/ \E q \in Requetes : Facturation(q) \/ Paiement(q) \/ Interrompre(q)
    \/ \E n \in Numeros, m \in Messages : Retelecharger(n, m)

Spec == Init /\ [][Next]_vars

(***************************************************************************)
(* Properties that hold whatever runs at the same time                     *)
(***************************************************************************)
\* Every row and every request in flight has the shape the schema gives it.
TypeOK ==
    /\ factures \in [Factures -> Facture]
    /\ saisi \in [Factures -> Nat]
    /\ vire \in [Factures -> Nat]
    /\ ordres \in Seq(Ordre)
    /\ fichiers \subseteq Fichier
    /\ req \in [Requetes -> Requete]

\* viser: the developer authorises money to leave.  No file is handed over,
\* and no invoice paid by file, without an approved order that holds it,
\* whatever is approved, cancelled and downloaded at the same time.
SortieVisee ==
    /\ \A x \in fichiers : x.ordre \in Numeros /\ ordres[x.ordre].vise
    /\ \A f \in Factures : vire[f] > 0 =>
          \E n \in Numeros : ordres[n].vise /\ Contient(n, f)

(***************************************************************************)
(* The inductive invariant behind them                                     *)
(***************************************************************************)
\* An order that was sent or may be sent has been approved.
OrdresVises ==
    \A n \in Numeros : ordres[n].statut \in {"VISE", "TRANSMIS"} => ordres[n].vise

\* A request works on an order that exists, approved if it makes a file.
OrdresSuivis ==
    \A q \in Requetes :
        /\ req[q].etat \in {"visa", "annulation", "fichier", "transmission"}
               => req[q].ordre \in Numeros
        /\ req[q].etat \in {"fichier", "transmission"} => ordres[req[q].ordre].vise

IInv == TypeOK /\ SortieVisee /\ OrdresVises /\ OrdresSuivis

(***************************************************************************)
(* Properties the handlers keep one at a time                              *)
(***************************************************************************)
\* creer: an invoice is never in two orders that may leave, or have left.
OrdreVivantUnique ==
    \A m, n \in Numeros : \A f \in Factures :
        /\ ordres[m].statut # "ANNULE" /\ Contient(m, f)
        /\ ordres[n].statut # "ANNULE" /\ Contient(n, f)
        => m = n

\* fichier: an invoice is paid by file once, however many orders are composed
\* and cancelled and however often their files are downloaded.
VirementUnique == [][\A f \in Factures : vire[f] > 0 => vire'[f] = vire[f]]_vars

\* fichier: the bank always receives an order under the same identifier.
UnFichierParOrdre ==
    \A x, y \in fichiers : x.ordre = y.ordre => x.message = y.message

\* annuler: an order that left for the bank stays shown as transmitted.
TransmisDefinitif ==
    [][\A n \in Numeros : ordres[n].statut = "TRANSMIS"
                            => ordres'[n].statut = "TRANSMIS"]_vars

\* enregistrerPaiement and fichier: an invoice only becomes paid once its
\* payments cover what is to be paid on it, and a payment typed in that
\* brings the total to the amount due settles it: two payments do not miss
\* each other.
PassageSolde ==
    [][\A f \in Factures :
          /\ factures[f].statut # "PAYEE" /\ factures'[f].statut = "PAYEE"
                 => saisi'[f] + vire'[f] >= MontantAPayer(f)
          /\ /\ saisi'[f] > saisi[f]
             /\ Du(factures[f].ht, factures[f].ttc) # 0
             /\ saisi'[f] + vire'[f] >= Du(factures[f].ht, factures[f].ttc)
             => factures'[f].statut = "PAYEE"]_vars

\* analyser: the machine completes, it does not correct a person; neither an
\* amount typed in nor a decision on the invoice is overwritten.
RienNEcrase ==
    [][\A q \in Requetes : \A f \in Factures :
          (\E ht, ttc \in Montant : Analyser(q, ht, ttc)) =>
              /\ factures[f].ht # NUL => factures'[f].ht = factures[f].ht
              /\ factures[f].ttc # NUL => factures'[f].ttc = factures[f].ttc
              /\ factures[f].statut # "RECUE"
                     => factures'[f].statut = factures[f].statut]_vars

\* changerStatut, viserDirectionTravaux: an invoice with a payment entered on
\* it is never rejected, and is in dispute only when the latest word of the
\* site management is a refusal: that refusal alone forgets the payments.
PaiementsSansOrphelin ==
    \A f \in Factures : saisi[f] > 0 =>
        /\ factures[f].statut # "REJETEE"
        /\ factures[f].statut = "LITIGE" => factures[f].visa = "REFUSE"

(***************************************************************************)
(* The invariant behind them, when at most one request is in flight        *)
(***************************************************************************)
UneALaFois == \A p, q \in Requetes : p = q

\* What the request has read is still what the rows hold.
LectureFraiche ==
    \A q \in Requetes :
        /\ En(q, "facture") =>
              /\ factures[req[q].facture] =
                    [statut |-> req[q].statut, ht |-> req[q].ht, ttc |-> req[q].ttc,
                     visa |-> req[q].visa]
              /\ req[q].paye = Paye(req[q].facture)
        /\ req[q].etat \in {"composition", "numero"} =>
              \A f \in Factures : req[q].lignes[f] > 0 => ~DansUnOrdre(f)
        /\ En(q, "visa") => ordres[req[q].ordre].statut = "BROUILLON"
        /\ En(q, "annulation") => ordres[req[q].ordre].statut # "TRANSMIS"
        /\ req[q].etat \in {"fichier", "transmission"}
               => ordres[req[q].ordre].statut = "VISE"
        /\ En(q, "transmission") =>
              \A f \in req[q].soldees : ordres[req[q].ordre].lignes[f] >= Reste(f)

\* A file and the payments it made belong to a transmitted order.
FichiersTransmis ==
    /\ \A x \in fichiers : /\ ordres[x.ordre].statut = "TRANSMIS"
                           /\ ordres[x.ordre].message = x.message
    /\ \A n \in Numeros : ordres[n].statut = "TRANSMIS" => ordres[n].message # NUL
    /\ \A f \in Factures : vire[f] > 0 =>
          \E n \in Numeros : ordres[n].statut = "TRANSMIS" /\ Contient(n, f)

SInv == IInv /\ OrdreVivantUnique /\ LectureFraiche /\ FichiersTransmis

(***************************************************************************)
(* What the messages promise and the code does not keep                    *)
(***************************************************************************)
\* creer, enregistrerPaiement: only a validated invoice is paid.
SeuleValideePayee ==
    [][\A f \in Factures : vire'[f] > vire[f]
          => factures[f].statut \in {"VALIDEE", "PAYEE"}]_vars

\* changerStatut: "la rejeter laisserait des paiements orphelins".
AucunOrphelin ==
    \A f \in Factures : factures[f].statut \in {"LITIGE", "REJETEE"} => saisi[f] = 0
=============================================================================
