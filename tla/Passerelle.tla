----------------------------- MODULE Passerelle -----------------------------
(***************************************************************************)
(* The gateway from Kolabimo, for one promotion linked to one operation.   *)
(* Kolabimo is master of the reservations and of the progress of works: it *)
(* posts a webhook for each change, and a person may pull everything at    *)
(* once.  Prometis keeps a mirror, and turns a completed step into calls   *)
(* for funds.                                                              *)
(*                                                                         *)
(* PasserelleService.recevoir inserts the delivery in a journal, processes *)
(* it in transactions of its own, and concludes it in a last statement.    *)
(* As in AppelsDeFonds a request keeps what it has read, and any other may *)
(* commit before it writes.  The engine is one step here: its own steps    *)
(* are those of AppelsDeFonds.                                             *)
(***************************************************************************)
EXTENDS Integers, FiniteSets, Sequences

CONSTANTS
    Dossiers,       \* reservations of Kolabimo, on lots of the promotion
    Externes,       \* those created through its API, which have an externalId
    Etapes,         \* steps of its payment schedule
    StatutsEmis,    \* statuses Kolabimo gives a reservation, once translated
    Prix,           \* prices a reservation may have
    PrixEmis,       \* what an event says of the price, NUL for nothing
    PrixLot,        \* price of a lot with its parkings
    Contrats,       \* shapes of the body: "kolabimo", "interne"
    MaxEmissions,   \* bound: events Kolabimo emits
    EnOrdre,        \* deliveries and replays follow the order of emission
    Pannes,         \* a transaction may fail
    Requetes,       \* request slots
    NUL             \* SQL NULL, a field left out

ASSUME DomainesAssumption ==
    /\ Externes \subseteq Dossiers
    /\ NUL \notin Dossiers \cup Prix
    /\ PrixLot \in Prix
    /\ PrixEmis \subseteq Prix \cup {NUL}
    /\ Contrats \subseteq {"kolabimo", "interne"}
    /\ MaxEmissions \in Nat
    /\ EnOrdre \in BOOLEAN /\ Pannes \in BOOLEAN

VARIABLES
    emis,           \* events of Kolabimo, in the order it emitted them
    journal,        \* status of the delivery of each, ABSENT when not received
    raccord,        \* operation not linked, linked, lots imported, and schedule
    lignes,         \* reservation rows, in the order they were inserted
    closes,         \* steps COMPLETED in Prometis
    appels,         \* calls for funds
    req             \* what each request in flight has read

vars == <<emis, journal, raccord, lignes, closes, appels, req>>

(***************************************************************************)
(* Messages, rows, requests                                                *)
(***************************************************************************)
StatutsEngages == {"RESERVE", "FONDS_VERSES", "VENDU"}

ASSUME StatutsAssumption ==
    StatutsEmis \subseteq StatutsEngages \cup {"OPTION", "EXPIREE", "ANNULEE"}

\* id is the identifier of Kolabimo, ext the externalId.
Dossier(m) == IF m.id # NUL THEN m.id ELSE m.ext

\* A message, or a row, names one reservation, by its externalId if it has one.
Coherent(m) ==
    /\ Dossier(m) \in Dossiers
    /\ m.ext = IF Dossier(m) \in Externes THEN Dossier(m) ELSE NUL

MessageDossier ==
    {m \in [sujet: {"dossier"}, contrat: {"kolabimo", "interne"}, id: Dossiers \cup {NUL},
            ext: Externes \cup {NUL}, statut: StatutsEmis,
            prix: Prix \cup {NUL}, signe: BOOLEAN] : Coherent(m)}
MessageEtape == [sujet: {"etape"}, etape: Etapes]
Message == MessageDossier \cup MessageEtape

Sujet(m) == IF m.sujet = "dossier" THEN <<"dossier", Dossier(m)>> ELSE <<"etape", m.etape>>

Conclu == {"TRAITE", "IGNORE", "ERREUR"}

Ligne == {l \in [id: Dossiers \cup {NUL}, ext: Externes \cup {NUL}, statut: StatutsEmis,
               prix: Prix, signe: BOOLEAN] : Coherent(l)}
Appel == [ligne: Nat, etape: Etapes, prix: Prix]

\* n is the delivery being processed, 0 for a reservation that was pulled;
\* ligne is the row that was found, 0 for none.
Requete ==
         [etat: {"libre"}]
    \cup [etat: {"traitement"}, n: Nat, rejeu: BOOLEAN]
    \cup [etat: {"dossier"}, n: Nat, rejeu: BOOLEAN, reste: SUBSET MessageDossier,
          m: MessageDossier, ligne: Nat, lu: Ligne \cup {NUL}, appele: BOOLEAN]
    \cup [etat: {"jalon"}, n: Nat, rejeu: BOOLEAN]
    \cup [etat: {"conclusion"}, n: Nat, rejeu: BOOLEAN, statut: Conclu]
    \cup [etat: {"tirage"}, faites: SUBSET (SUBSET Etapes),
          dossiers: SUBSET (SUBSET MessageDossier)]
    \cup [etat: {"reprise"}, reste: SUBSET MessageDossier]

Libre == [etat |-> "libre"]

Garder(q, r) == req' = [req EXCEPT ![q] = r]
Finir(q) == Garder(q, Libre)
En(q, etat) == req[q].etat = etat

(***************************************************************************)
(* Kolabimo                                                                *)
(***************************************************************************)
\* The internal contract always carries the externalId, and Kolabimo's own
\* always its identifier.
Forme(d, contrat, id, ext) ==
    /\ ext # NUL => ext = d
    /\ id # NUL => id = d
    /\ contrat = "kolabimo" => id = d /\ (ext = d <=> d \in Externes)
    /\ contrat = "interne" => ext = d

Emettre(m) ==
    /\ Len(emis) < MaxEmissions
    /\ emis' = Append(emis, m)
    /\ journal' = Append(journal, "ABSENT")
    /\ UNCHANGED <<raccord, lignes, closes, appels, req>>

EmettreDossier(d, contrat, id, ext, statut, prix, signe) ==
    /\ Forme(d, contrat, id, ext)
    /\ Emettre([sujet |-> "dossier", contrat |-> contrat, id |-> id, ext |-> ext,
                statut |-> statut, prix |-> prix, signe |-> signe])

EmettreEtape(e) == Emettre([sujet |-> "etape", etape |-> e])

Numeros == 1 .. Len(emis)
Dernier(n) == \A k \in Numeros : k > n => Sujet(emis[k]) # Sujet(emis[n])

\* What its API answers: no price, and the last status of each reservation.
EtapesFaites == {emis[n].etape : n \in {k \in Numeros : emis[k].sujet = "etape"}}
DossiersVus ==
    {[sujet |-> "dossier", contrat |-> "kolabimo", id |-> Dossier(emis[n]),
      ext |-> IF Dossier(emis[n]) \in Externes THEN Dossier(emis[n]) ELSE NUL,
      statut |-> emis[n].statut, prix |-> NUL, signe |-> emis[n].signe] :
        n \in {k \in Numeros : emis[k].sujet = "dossier" /\ Dernier(k)}}

(***************************************************************************)
(* PasserelleService.recevoir                                              *)
(***************************************************************************)
\* Mutant: the delivery is looked up, and a conclusion stops it.
Recevoir_SansCle(q, n) ==
    /\ En(q, "libre")
    /\ journal[n] \notin Conclu
    /\ EnOrdre => \A k \in 1 .. n - 1 : journal[k] # "ABSENT"
    /\ journal' = [journal EXCEPT ![n] = "RECU"]
    /\ Garder(q, [etat |-> "traitement", n |-> n, rejeu |-> FALSE])
    /\ UNCHANGED <<emis, raccord, lignes, closes, appels>>

\* The unique dedupeKey lets the first delivery of an event in; the others
\* are answered "already processed", whatever became of the first.
Recevoir(q, n) ==
    /\ En(q, "libre")
    /\ journal[n] = "ABSENT"
    /\ EnOrdre => \A k \in 1 .. n - 1 : journal[k] # "ABSENT"
    /\ journal' = [journal EXCEPT ![n] = "RECU"]
    /\ Garder(q, [etat |-> "traitement", n |-> n, rejeu |-> FALSE])
    /\ UNCHANGED <<emis, raccord, lignes, closes, appels>>

\* A person replays an event of the journal, whatever its status.
Rejouer(q, n) ==
    /\ En(q, "libre")
    /\ journal[n] # "ABSENT"
    /\ EnOrdre => Dernier(n)
    /\ Garder(q, [etat |-> "traitement", n |-> n, rejeu |-> TRUE])
    /\ UNCHANGED <<emis, journal, raccord, lignes, closes, appels>>

Conclure(q) ==
    /\ En(q, "conclusion")
    /\ journal' = [journal EXCEPT ![req[q].n] = req[q].statut]
    /\ Finir(q)
    /\ UNCHANGED <<emis, raccord, lignes, closes, appels>>

\* A webhook goes to its conclusion, a pull to its next reservation.
Rendre(q, statut) ==
    IF En(q, "dossier") /\ req[q].n = 0
    THEN Garder(q, [etat |-> "reprise", reste |-> req[q].reste])
    ELSE Garder(q, [etat |-> "conclusion", n |-> req[q].n, rejeu |-> req[q].rejeu,
                    statut |-> statut])

(***************************************************************************)
(* appliquerReservation, for a webhook and for a reservation pulled        *)
(***************************************************************************)
\* traiter reads every replayed body under the internal contract.
Lisible(q) == req[q].rejeu => emis[req[q].n].contrat = "interne"

Illisible(q) ==
    /\ En(q, "traitement")
    /\ emis[req[q].n].sujet = "dossier"
    /\ ~Lisible(q)
    /\ Rendre(q, "ERREUR")
    /\ UNCHANGED <<emis, journal, raccord, lignes, closes, appels>>

\* Mutant: an event without a lot is shown as applied.
SansLot_Traite(q) ==
    /\ En(q, "traitement")
    /\ emis[req[q].n].sujet = "dossier" /\ Lisible(q)
    /\ raccord \in {"AUCUN", "LIEE"}
    /\ Rendre(q, "TRAITE")
    /\ UNCHANGED <<emis, journal, raccord, lignes, closes, appels>>

\* The lot is not there yet: only the internal contract names the promotion,
\* and a promotion that is linked should have it.
SansLot(q) ==
    LET m == emis[req[q].n]
    IN /\ En(q, "traitement")
       /\ m.sujet = "dossier" /\ Lisible(q)
       /\ raccord \in {"AUCUN", "LIEE"}
       /\ Rendre(q, IF m.contrat = "interne" /\ raccord = "LIEE"
                    THEN "ERREUR" ELSE "IGNORE")
       /\ UNCHANGED <<emis, journal, raccord, lignes, closes, appels>>

\* Mutant: a reservation is matched by its externalId alone.
Meme_Externe(l, m) == m.ext # NUL /\ l.ext = m.ext

Meme(l, m) ==
    \/ m.id # NUL /\ l.id = m.id
    \/ m.ext # NUL /\ l.ext = m.ext

Appelee(l) == \E a \in appels : a.ligne = l

\* findFirst: one of the rows that match, if there is any.
Trouver(q, m, n, rejeu, reste) ==
    LET trouvees == {l \in DOMAIN lignes : Meme(lignes[l], m)}
    IN \/ /\ trouvees = {}
          /\ Garder(q, [etat |-> "dossier", n |-> n, rejeu |-> rejeu, reste |-> reste,
                        m |-> m, ligne |-> 0, lu |-> NUL, appele |-> FALSE])
       \/ \E l \in trouvees :
             Garder(q, [etat |-> "dossier", n |-> n, rejeu |-> rejeu, reste |-> reste,
                        m |-> m, ligne |-> l, lu |-> lignes[l], appele |-> Appelee(l)])

LireDossier(q) ==
    /\ En(q, "traitement")
    /\ emis[req[q].n].sujet = "dossier" /\ Lisible(q)
    /\ raccord \in {"LOTS", "IMPORTEE"}
    /\ Trouver(q, emis[req[q].n], req[q].n, req[q].rejeu, {})
    /\ UNCHANGED <<emis, journal, raccord, lignes, closes, appels>>

\* Mutant: the default is forgotten.
Donne_Brut(champ, defaut) == champ

Donne(champ, defaut) == IF champ = NUL THEN defaut ELSE champ

\* Mutant: no unique externalId.
CleExterne_Absente(m) == m = m

\* externalId is unique, kolabimoReservationId is not.
CleExterne(m) == m.ext # NUL => \A l \in DOMAIN lignes : lignes[l].ext # m.ext

CreerDossier(q) ==
    LET m == req[q].m
    IN /\ En(q, "dossier") /\ req[q].ligne = 0
       /\ CleExterne(m)
       /\ lignes' = Append(lignes, [id |-> m.id, ext |-> m.ext, statut |-> m.statut,
                                    prix |-> Donne(m.prix, PrixLot), signe |-> m.signe])
       /\ Rendre(q, "TRAITE")
       /\ UNCHANGED <<emis, journal, raccord, closes, appels>>

ConflitExterne(q) ==
    /\ En(q, "dossier") /\ req[q].ligne = 0
    /\ ~CleExterne(req[q].m)
    /\ Rendre(q, "ERREUR")
    /\ UNCHANGED <<emis, journal, raccord, lignes, closes, appels>>

\* Mutant: only a cancellation of a signed deed waits.
Bloquee_Acte(q) == req[q].m.statut = "ANNULEE" /\ req[q].lu.signe

\* planifierMiseAJour: a cancellation waits for a person once calls are out.
Bloquee(q) == req[q].m.statut = "ANNULEE" /\ req[q].appele

Bloquer(q) ==
    /\ En(q, "dossier") /\ req[q].ligne # 0
    /\ Bloquee(q)
    /\ Rendre(q, "ERREUR")
    /\ UNCHANGED <<emis, journal, raccord, lignes, closes, appels>>

\* Mutant: the whole row is saved as it was read and merged.
MettreAJour_Complete(q) ==
    LET m == req[q].m
        lu == req[q].lu
        libre == ~req[q].appele /\ ~lu.signe
    IN /\ En(q, "dossier") /\ req[q].ligne # 0
       /\ ~Bloquee(q)
       /\ lignes' = [lignes EXCEPT ![req[q].ligne] =
              [id |-> Donne(m.id, lu.id), ext |-> lu.ext, statut |-> m.statut,
               prix |-> IF libre THEN Donne(m.prix, lu.prix) ELSE lu.prix,
               signe |-> lu.signe \/ m.signe]]
       /\ Rendre(q, "TRAITE")
       /\ UNCHANGED <<emis, journal, raccord, closes, appels>>

\* Mutant: only the signed deed freezes the price.
MettreAJour_SansAppels(q) ==
    LET m == req[q].m
        lu == req[q].lu
    IN /\ En(q, "dossier") /\ req[q].ligne # 0
       /\ ~Bloquee(q)
       /\ lignes' = [lignes EXCEPT ![req[q].ligne] =
              [id |-> Donne(m.id, @.id), ext |-> @.ext,
               statut |-> IF m.statut = lu.statut THEN @.statut ELSE m.statut,
               prix |-> IF lu.signe THEN @.prix ELSE Donne(m.prix, @.prix),
               signe |-> @.signe \/ m.signe]]
       /\ Rendre(q, "TRAITE")
       /\ UNCHANGED <<emis, journal, raccord, closes, appels>>

\* Mutant: what freezes the price freezes the status.
MettreAJour_ToutFige(q) ==
    LET m == req[q].m
        fige == req[q].appele \/ req[q].lu.signe
    IN /\ En(q, "dossier") /\ req[q].ligne # 0
       /\ ~Bloquee(q)
       /\ lignes' = IF fige THEN lignes
                    ELSE [lignes EXCEPT ![req[q].ligne] =
                           [id |-> Donne(m.id, @.id), ext |-> @.ext, statut |-> m.statut,
                            prix |-> Donne(m.prix, @.prix), signe |-> @.signe \/ m.signe]]
       /\ Rendre(q, "TRAITE")
       /\ UNCHANGED <<emis, journal, raccord, closes, appels>>

\* Only the fields that differ from what was read are written.  The price is
\* left alone once a call was read, or the deed; a deed is never unsigned.
MettreAJour(q) ==
    LET m == req[q].m
        lu == req[q].lu
        fige == req[q].appele \/ lu.signe
    IN /\ En(q, "dossier") /\ req[q].ligne # 0
       /\ ~Bloquee(q)
       /\ lignes' = [lignes EXCEPT ![req[q].ligne] =
              [id |-> Donne(m.id, @.id), ext |-> @.ext,
               statut |-> IF m.statut = lu.statut THEN @.statut ELSE m.statut,
               prix |-> IF fige \/ m.prix = lu.prix THEN @.prix ELSE Donne(m.prix, @.prix),
               signe |-> @.signe \/ m.signe]]
       /\ Rendre(q, "TRAITE")
       /\ UNCHANGED <<emis, journal, raccord, closes, appels>>

(***************************************************************************)
(* appliquerEtapeCompletee                                                 *)
(***************************************************************************)
\* Three conclusions without the engine: promotion not linked, step not
\* imported, step already completed here.
JalonSansSuite(q) ==
    LET e == emis[req[q].n].etape
    IN /\ En(q, "traitement")
       /\ emis[req[q].n].sujet = "etape"
       /\ \/ raccord = "AUCUN" /\ Rendre(q, "IGNORE")
          \/ raccord \in {"LIEE", "LOTS"} /\ Rendre(q, "ERREUR")
          \/ raccord = "IMPORTEE" /\ e \in closes /\ Rendre(q, "TRAITE")
       /\ UNCHANGED <<emis, journal, raccord, lignes, closes, appels>>

LireJalon(q) ==
    /\ En(q, "traitement")
    /\ emis[req[q].n].sujet = "etape"
    /\ raccord = "IMPORTEE" /\ emis[req[q].n].etape \notin closes
    /\ Garder(q, [etat |-> "jalon", n |-> req[q].n, rejeu |-> req[q].rejeu])
    /\ UNCHANGED <<emis, journal, raccord, lignes, closes, appels>>

\* declencherEtape: every engaged reservation without a call for the step is
\* called, at its price.
Declencher(q) ==
    LET e == emis[req[q].n].etape
        dues == {l \in DOMAIN lignes : lignes[l].statut \in StatutsEngages
                    /\ ~\E a \in appels : a.ligne = l /\ a.etape = e}
    IN /\ En(q, "jalon")
       /\ appels' = appels \cup {[ligne |-> l, etape |-> e, prix |-> lignes[l].prix] : l \in dues}
       /\ closes' = closes \cup {e}
       /\ Rendre(q, "TRAITE")
       /\ UNCHANGED <<emis, journal, raccord, lignes>>

\* Mutant: the error escapes traiter, and nothing concludes.
Echouer_Echappe(q) ==
    /\ Pannes
    /\ req[q].etat \in {"traitement", "dossier", "jalon"}
    /\ Finir(q)
    /\ UNCHANGED <<emis, journal, raccord, lignes, closes, appels>>

\* The transaction fails, or the status is not one Prometis knows: nothing is
\* written, and the error is caught.  The conclusion is written outside this
\* try: when it fails, see Interrompre.
Echouer(q) ==
    /\ Pannes
    /\ req[q].etat \in {"traitement", "dossier", "jalon"}
    /\ Rendre(q, "ERREUR")
    /\ UNCHANGED <<emis, journal, raccord, lignes, closes, appels>>

(***************************************************************************)
(* SynchronisationKolabimoService                                          *)
(***************************************************************************)
Tirage == [etat |-> "tirage", faites |-> {}, dossiers |-> {}]

Rattacher(q) ==
    /\ En(q, "libre")
    /\ raccord = "AUCUN"
    /\ raccord' = "LIEE"
    /\ Garder(q, Tirage)
    /\ UNCHANGED <<emis, journal, lignes, closes, appels>>

Synchroniser(q) ==
    /\ En(q, "libre")
    /\ raccord # "AUCUN"
    /\ Garder(q, Tirage)
    /\ UNCHANGED <<emis, journal, raccord, lignes, closes, appels>>

\* tirer: the readings go out together and are answered each in its time.
TirerEcheancier(q) ==
    /\ En(q, "tirage") /\ req[q].faites = {}
    /\ Garder(q, [req[q] EXCEPT !.faites = {EtapesFaites}])
    /\ UNCHANGED <<emis, journal, raccord, lignes, closes, appels>>

TirerReservations(q) ==
    /\ En(q, "tirage") /\ req[q].dossiers = {}
    /\ Garder(q, [req[q] EXCEPT !.dossiers = {DossiersVus}])
    /\ UNCHANGED <<emis, journal, raccord, lignes, closes, appels>>

\* Lots and schedule in one transaction: each step takes the status that was
\* pulled, and a completed one calls nothing.  A schedule whose ranks clash
\* with steps of Prometis is left out, and the lots are imported.
AppliquerCatalogue(q) ==
    /\ En(q, "tirage") /\ req[q].faites # {} /\ req[q].dossiers # {}
    /\ \/ raccord' = "IMPORTEE" /\ closes' = UNION req[q].faites
       \/ raccord' = (IF raccord = "LIEE" THEN "LOTS" ELSE raccord) /\ UNCHANGED closes
    /\ Garder(q, [etat |-> "reprise", reste |-> UNION req[q].dossiers])
    /\ UNCHANGED <<emis, journal, lignes, appels>>

\* Then each reservation, along the path of the webhooks.
LireTire(q, m) ==
    /\ En(q, "reprise")
    /\ m \in req[q].reste
    /\ Trouver(q, m, 0, FALSE, req[q].reste \ {m})
    /\ UNCHANGED <<emis, journal, raccord, lignes, closes, appels>>

FinReprise(q) ==
    /\ En(q, "reprise") /\ req[q].reste = {}
    /\ Finir(q)
    /\ UNCHANGED <<emis, journal, raccord, lignes, closes, appels>>

\* The process stops, Kolabimo does not answer a pull, or the statement that
\* concludes a delivery fails, which nothing catches: what is committed stays,
\* and a delivery in progress stays RECU.
Interrompre(q) ==
    /\ ~En(q, "libre")
    /\ Finir(q)
    /\ UNCHANGED <<emis, journal, raccord, lignes, closes, appels>>

(***************************************************************************)
(* Specification                                                           *)
(***************************************************************************)
Init ==
    /\ emis = <<>>
    /\ journal = <<>>
    /\ raccord = "AUCUN"
    /\ lignes = <<>>
    /\ closes = {}
    /\ appels = {}
    /\ req = [q \in Requetes |-> Libre]

Kolabimo ==
    \/ \E d \in Dossiers, c \in Contrats, i \in Dossiers \cup {NUL},
          x \in Externes \cup {NUL}, s \in StatutsEmis, p \in PrixEmis,
          b \in BOOLEAN : EmettreDossier(d, c, i, x, s, p, b)
    \/ \E e \in Etapes : EmettreEtape(e)

Entree(q) ==
    \/ \E n \in Numeros : Recevoir(q, n)
    \/ \E n \in Numeros : Rejouer(q, n)
    \/ Rattacher(q)
    \/ Synchroniser(q)

\* What the server does by itself once a request has come in.
Traiter(q) ==
    \/ Illisible(q) \/ SansLot(q) \/ LireDossier(q)
    \/ CreerDossier(q) \/ ConflitExterne(q) \/ Bloquer(q) \/ MettreAJour(q)
    \/ JalonSansSuite(q) \/ LireJalon(q) \/ Declencher(q)
    \/ Echouer(q)
    \/ Conclure(q)

Tirer(q) ==
    \/ TirerEcheancier(q) \/ TirerReservations(q) \/ AppliquerCatalogue(q)
    \/ En(q, "reprise") /\ \E m \in req[q].reste : LireTire(q, m)
    \/ FinReprise(q)

NextSansArret ==
    \/ Kolabimo
    \/ \E q \in Requetes : Entree(q) \/ Traiter(q) \/ Tirer(q)

Next == NextSansArret \/ \E q \in Requetes : Interrompre(q)

Spec == Init /\ [][Next]_vars

\* A process that does not stop, and whose conclusions are written (nothing
\* catches their failure), runs each request it has taken to its end.
Equite == \A q \in Requetes : WF_vars(Traiter(q) \/ Tirer(q))

SpecSansArret == Init /\ [][NextSansArret]_vars /\ Equite

(***************************************************************************)
(* Properties that hold whatever runs at the same time                     *)
(***************************************************************************)
\* Every row, message and request in flight has its shape.
TypeOK ==
    /\ emis \in Seq(Message)
    /\ journal \in Seq(Conclu \cup {"ABSENT", "RECU"})
    /\ Len(journal) = Len(emis)
    /\ raccord \in {"AUCUN", "LIEE", "LOTS", "IMPORTEE"}
    /\ lignes \in Seq(Ligne)
    /\ closes \subseteq Etapes
    /\ appels \subseteq Appel
    /\ \A a \in appels : a.ligne \in DOMAIN lignes
    /\ req \in [Requetes -> Requete]

Travaille(q, n) ==
    req[q].etat \in {"traitement", "dossier", "jalon", "conclusion"} /\ req[q].n = n

\* recevoir: two deliveries of one event do not both pass.  Apart from the
\* replays a person asks for, one request at most ever works on an event.
TraitementUnique ==
    \A p, q \in Requetes : \A n \in Numeros :
        Travaille(p, n) /\ ~req[p].rejeu /\ Travaille(q, n) /\ ~req[q].rejeu => p = q

\* externalId carries the reconciliation: one row has it at most, even when
\* a webhook, a replay and a pull create it at once.
ExterneUnique ==
    \A k, l \in DOMAIN lignes : lignes[k].ext # NUL /\ lignes[k].ext = lignes[l].ext => k = l

\* The rows an event of the journal is about.
LignesDe(n) == {l \in DOMAIN lignes : Dossier(emis[n]) \in {lignes[l].id, lignes[l].ext}}

\* conclure: an event shown as applied has its reservation in Prometis.
TraiteAdosse ==
    \A n \in Numeros :
        journal[n] = "TRAITE" /\ emis[n].sujet = "dossier"
            => LignesDe(n) # {}

\* planifierMiseAJour: a signed deed is never unsigned, not even by a request
\* that read the row before it was.
ActeDefinitif ==
    [][\A l \in DOMAIN lignes : lignes[l].signe => lignes'[l].signe]_vars

(***************************************************************************)
(* Properties of requests that come one at a time                          *)
(***************************************************************************)
\* appliquerReservation: webhooks of both contracts, replays and pulls never
\* make two rows of one reservation.
UneLigneParDossier ==
    \A k, l \in DOMAIN lignes :
        {lignes[k].id, lignes[k].ext} \cap {lignes[l].id, lignes[l].ext} \cap Dossiers # {}
            => k = l

\* planifierMiseAJour: the price calls were issued on does not move.
AssietteTenue == \A a \in appels : a.prix = lignes[a.ligne].prix

\* planifierMiseAJour: no reservation is cancelled under the calls it has.
AnnulationSansAppel == \A a \in appels : lignes[a.ligne].statut # "ANNULEE"

Repos == \A q \in Requetes : En(q, "libre")

\* Prometis shows what the event says.
Fidele(n) ==
    IF emis[n].sujet = "etape" THEN emis[n].etape \in closes
    ELSE \E l \in LignesDe(n) : /\ lignes[l].statut = emis[n].statut
                                /\ emis[n].signe => lignes[l].signe

\* When nothing is in progress, an event shown as applied, and that no later
\* one contradicts, is what Prometis shows: Kolabimo is master, and pulls and
\* webhooks do not fight.
MiroirFidele ==
    Repos => \A n \in Numeros : journal[n] = "TRAITE" /\ Dernier(n) => Fidele(n)

Recue(n) == n \in Numeros /\ journal[n] = "RECU"
Conclue(n) == n \in Numeros /\ journal[n] \in Conclu

\* recevoir: what was received is concluded in the end, failures of the
\* handling included, unless the process stops or the conclusion itself fails.
ToutConclu == \A n \in 1 .. MaxEmissions : Recue(n) ~> Conclue(n)

(***************************************************************************)
(* The inductive invariant behind MiroirFidele, when requests come one at  *)
(* a time and events in their order.  A request that stops half-way leaves *)
(* the mirror true: nothing asks for Repos.                                *)
(***************************************************************************)
AppliquesFideles ==
    \A n \in Numeros : journal[n] = "TRAITE" /\ Dernier(n) => Fidele(n)

RecusDansLOrdre ==
    \A i, j \in Numeros : i < j /\ journal[i] = "ABSENT" => journal[j] = "ABSENT"

\* Nothing more recent has come in about what the event is about.
PlusRecent(n) ==
    \A k \in Numeros : k > n /\ Sujet(emis[k]) = Sujet(emis[n]) => journal[k] = "ABSENT"

\* A reservation that was pulled says nothing that has been contradicted.
AJour(m) ==
    \A k \in Numeros :
        journal[k] = "TRAITE" /\ Dernier(k) /\ emis[k].sujet = "dossier"
            /\ Dossier(emis[k]) = Dossier(m) => m.statut = emis[k].statut

\* A request works on the last event received, or on what it pulled since;
\* it concludes on "applied" once the event shows.
Averti(q) ==
    /\ req[q].etat \in {"traitement", "dossier", "jalon", "conclusion"} /\ req[q].n # 0
          => PlusRecent(req[q].n)
    /\ req[q].etat = "conclusion" /\ req[q].statut = "TRAITE" /\ Dernier(req[q].n)
          => Fidele(req[q].n)
    /\ req[q].etat = "dossier" /\ req[q].n = 0 => AJour(req[q].m)
    /\ req[q].etat \in {"dossier", "reprise"} => \A m \in req[q].reste : AJour(m)
    /\ req[q].etat = "tirage" =>
          /\ \A D \in req[q].dossiers : \A m \in D : AJour(m)
          /\ \A F \in req[q].faites : \A n \in Numeros :
                journal[n] = "TRAITE" /\ emis[n].sujet = "etape" => emis[n].etape \in F

MiroirInv ==
    /\ AppliquesFideles
    /\ RecusDansLOrdre
    /\ \A q \in Requetes : Averti(q)

(***************************************************************************)
(* What the comments promise and the code does not keep                    *)
(***************************************************************************)
\* recevoir, rejouer: an event can be replayed by hand; replaying one that
\* was applied, when nothing fails and no call is out, applies it again.
RejouableALaMain ==
    [][\A n \in Numeros : journal[n] = "TRAITE" => journal'[n] = "TRAITE"]_vars
=============================================================================
