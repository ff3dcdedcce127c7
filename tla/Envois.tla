------------------------------- MODULE Envois --------------------------------
(***************************************************************************)
(* What leaves with a call for funds: the letter to the buyers, the QR     *)
(* slip for their bank, the message that carries them.  Pure functions of  *)
(* the call, of the company and of what fails on the way.                  *)
(***************************************************************************)
EXTENDS Integers, Sequences, SequencesExt

CONSTANT NUL

(***************************************************************************)
(* The slip                                                                *)
(***************************************************************************)
\* A free address is a sequence of lines; only "1004 Lausanne", last, gives
\* the town.  What is not recognised goes to the street.
DecouperAdresse(nom, lignes) ==
    IF lignes # <<>> /\ Last(lignes) = "npa-localite"
    THEN [nom |-> nom, rue |-> Front(lignes), localite |-> TRUE]
    ELSE [nom |-> nom, rue |-> lignes, localite |-> FALSE]

AdresseUtilisable(a) == a.nom # NUL /\ a.localite

\* The address of the company is kept apart from its code and town.
AdresseSociete(s) ==
    s.adresse \o (IF s.npa /\ s.localite THEN <<"npa-localite">>
                  ELSE IF s.npa \/ s.localite THEN <<"rue">> ELSE <<>>)

\* Mutant: a reference is carried as soon as the call has one.
ChoisirReference_Toujours(iban, reference) ==
    IF reference # NUL THEN [type |-> "QRR", reference |-> reference]
    ELSE [type |-> "AUCUNE", reference |-> NUL]

\* choisirReference: an ordinary IBAN carries a free message instead.
ChoisirReference(iban, reference) ==
    IF iban = "qr" /\ reference # NUL THEN [type |-> "QRR", reference |-> reference]
    ELSE [type |-> "AUCUNE", reference |-> NUL]

\* generer: nothing rather than a slip the bank refuses.
Bordereau(appel, societe) ==
    LET creancier == DecouperAdresse(societe.nom, AdresseSociete(societe))
        debiteur == IF appel.destinataires = <<>> THEN DecouperAdresse(NUL, <<>>)
                    ELSE DecouperAdresse(Head(appel.destinataires).nom, Head(appel.destinataires).adresse)
    IN IF societe.iban = NUL \/ ~AdresseUtilisable(creancier) THEN NUL
       ELSE [compte |-> societe.iban, montant |-> appel.montant,
             debiteur |-> IF AdresseUtilisable(debiteur) THEN debiteur.nom ELSE NUL,
             reference |-> ChoisirReference(societe.iban, appel.reference)]

(***************************************************************************)
(* The two documents and the message                                       *)
(***************************************************************************)
\* pannes: the steps that fail.  Each document has a try of its own, and so
\* has its copy in the files: none of them fails the call.
ProduireDocuments(appel, societe, pannes) ==
    LET slip == Bordereau(appel, societe)
        pieces == {p \in {"lettre", "bordereau"} :
                      p \notin pannes /\ (p = "bordereau" => slip # NUL)}
    IN [pieces |-> pieces, bordereau |-> IF "bordereau" \in pieces THEN slip ELSE NUL,
        archivees |-> IF "archive" \in pannes THEN {} ELSE pieces]

\* Mutant: a slip is announced as soon as the company has an IBAN.
AvecBordereau_SelonIban(documents, societe) == societe.iban # NUL

AvecBordereau(documents, societe) == documents.bordereau # NUL

\* corpsAppel: what the message says.
CorpsAppel(appel, societe, avec) ==
    [montant |-> appel.montant, reference |-> appel.reference, iban |-> societe.iban,
     bordereau |-> avec, lettre |-> TRUE, solidaire |-> Len(appel.destinataires) > 1]

Adresses(appel) ==
    {appel.destinataires[i].email : i \in DOMAIN appel.destinataires} \ {NUL, "vide"}

\* Mutant: the call is marked sent as it is handed over, whatever comes of it.
Envoyer_Marque(appel, societe, pannes) ==
    LET documents == ProduireDocuments(appel, societe, pannes)
    IN IF Adresses(appel) = {} THEN [recus |-> {}, marque |-> FALSE, documents |-> documents, corps |-> NUL]
       ELSE [recus |-> IF "mail" \in pannes THEN {} ELSE Adresses(appel),
             marque |-> "marque" \notin pannes, documents |-> documents,
             corps |-> CorpsAppel(appel, societe, AvecBordereau(documents, societe))]

\* One turn of the loop of envoyerAppels.  Without an address, nothing is
\* produced; the mark follows the message in one try.
Envoyer(appel, societe, pannes) ==
    LET documents == ProduireDocuments(appel, societe, pannes)
    IN IF Adresses(appel) = {}
       THEN [recus |-> {}, marque |-> FALSE, corps |-> NUL,
             documents |-> [pieces |-> {}, bordereau |-> NUL, archivees |-> {}]]
       ELSE [recus |-> IF "mail" \in pannes THEN {} ELSE Adresses(appel),
             marque |-> pannes \cap {"mail", "marque"} = {}, documents |-> documents,
             corps |-> CorpsAppel(appel, societe, AvecBordereau(documents, societe))]

EnvoyerAppels(appels, societe, pannes) ==
    LET envois == [i \in DOMAIN appels |-> Envoyer(appels[i], societe, pannes[i])]
        partis == SelectSeq(envois, LAMBDA e : e.marque)
    IN [envois |-> envois, reussis |-> Len(partis),
        echecs |-> {appels[i].id : i \in {j \in DOMAIN appels : ~envois[j].marque}}]

(***************************************************************************)
(* Properties                                                              *)
(***************************************************************************)
\* appels-de-fonds.service.ts:852: the message announces a slip if and only if
\* one is attached; a slip attached pays the company, the amount of the
\* message, under the reference of the message when it carries one, and then on
\* the only kind of account a bank takes it on.
BordereauAnnonce(appels, societes, echecs) ==
    \A a \in appels, s \in societes, pannes \in SUBSET echecs :
        LET e == Envoyer(a, s, pannes)
            slip == e.documents.bordereau
        IN e.corps # NUL =>
              /\ e.corps.bordereau <=> "bordereau" \in e.documents.pieces
              /\ (slip # NUL) <=> "bordereau" \in e.documents.pieces
              /\ slip # NUL =>
                    /\ slip.compte = e.corps.iban /\ slip.montant = e.corps.montant
                    /\ slip.reference.type = "QRR" =>
                          s.iban = "qr" /\ slip.reference.reference = e.corps.reference
              /\ e.documents.archivees \subseteq e.documents.pieces

\* appels-de-fonds.service.ts:523, "un echec d'envoi ne remet rien en cause":
\* whatever fails for one call, the calls are counted once each, as sent or as
\* failed; one counted as sent has reached everyone of the file who has an
\* address, and what fails for a call changes nothing for the others.
EnvoisComptes(appels, societes, echecs) ==
    \A a, b \in appels, s \in societes, p, q \in SUBSET echecs : a.id # b.id =>
        LET r == EnvoyerAppels(<<a, b>>, s, <<p, q>>)
        IN /\ r.reussis + (IF a.id \in r.echecs THEN 1 ELSE 0) + (IF b.id \in r.echecs THEN 1 ELSE 0) = 2
           /\ a.id \notin r.echecs => r.envois[1].recus = Adresses(a) /\ Adresses(a) # {}
           /\ r.envois[2] = EnvoyerAppels(<<b>>, s, <<q>>).envois[1]
=============================================================================
