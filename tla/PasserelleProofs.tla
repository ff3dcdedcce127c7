-------------------------- MODULE PasserelleProofs --------------------------
(***************************************************************************)
(* Theorems of Passerelle, for any reservations, steps and bounds and any  *)
(* number of requests at once; then what holds when requests come one at a *)
(* time.                                                                   *)
(***************************************************************************)
EXTENDS Passerelle, SequenceTheorems, TLAPS

(***************************************************************************)
(* Requests                                                                *)
(***************************************************************************)
EnTravail == {"traitement", "dossier", "jalon", "conclusion"}

\* What a request holds, by the step it has reached.
LEMMA FormeRequete ==
    ASSUME NEW r \in Requete
    PROVE  /\ r.etat \in EnTravail => r.n \in Nat /\ r.rejeu \in BOOLEAN
           /\ r.etat = "dossier" =>
                /\ r.reste \in SUBSET MessageDossier
                /\ r.m \in MessageDossier
                /\ r.ligne \in Nat
                /\ r.lu \in Ligne \cup {NUL}
                /\ r.appele \in BOOLEAN
           /\ r.etat = "conclusion" => r.statut \in Conclu
           /\ r.etat = "tirage" => /\ r.faites \in SUBSET (SUBSET Etapes)
                                   /\ r.dossiers \in SUBSET (SUBSET MessageDossier)
           /\ r.etat = "reprise" => r.reste \in SUBSET MessageDossier
BY DEF Requete, EnTravail

\* A step of one request leaves the others as they were.
Seul(q) == \A p \in Requetes : p # q => req'[p] = req[p]

LEMMA Garde ==
    ASSUME NEW q \in Requetes, NEW r \in Requete,
           req \in [Requetes -> Requete], Garder(q, r)
    PROVE  /\ req' \in [Requetes -> Requete]
           /\ req'[q] = r
           /\ Seul(q)
BY DEF Garder, Seul

LEMMA Finie ==
    ASSUME NEW q \in Requetes, req \in [Requetes -> Requete], Finir(q)
    PROVE  /\ req' \in [Requetes -> Requete]
           /\ req'[q] = Libre
           /\ Seul(q)
<1>1. Libre \in Requete
  BY DEF Libre, Requete
<1> QED BY <1>1, Garde DEF Finir

\* A webhook goes to its conclusion, a reservation that was pulled to the next.
LEMMA Rendue ==
    ASSUME TypeOK, NEW q \in Requetes, NEW s \in Conclu, Rendre(q, s),
           req[q].etat \in {"traitement", "dossier", "jalon"}
    PROVE  /\ req' \in [Requetes -> Requete]
           /\ Seul(q)
           /\ \/ /\ req[q].etat = "dossier" /\ req[q].n = 0
                 /\ req'[q] = [etat |-> "reprise", reste |-> req[q].reste]
              \/ /\ ~(req[q].etat = "dossier" /\ req[q].n = 0)
                 /\ req'[q] = [etat |-> "conclusion", n |-> req[q].n,
                               rejeu |-> req[q].rejeu, statut |-> s]
<1>1. req \in [Requetes -> Requete] /\ req[q] \in Requete
  BY DEF TypeOK
<1>2. req[q].n \in Nat /\ req[q].rejeu \in BOOLEAN
  BY <1>1, FormeRequete DEF EnTravail
<1>3. CASE req[q].etat = "dossier" /\ req[q].n = 0
  <2>1. req[q].reste \in SUBSET MessageDossier
    BY <1>1, <1>3, FormeRequete
  <2>2. [etat |-> "reprise", reste |-> req[q].reste] \in Requete
    BY <2>1 DEF Requete
  <2>3. Garder(q, [etat |-> "reprise", reste |-> req[q].reste])
    BY <1>3 DEF Rendre, En
  <2> QED BY <1>1, <1>3, <2>2, <2>3, Garde
<1>4. CASE ~(req[q].etat = "dossier" /\ req[q].n = 0)
  <2>1. [etat |-> "conclusion", n |-> req[q].n, rejeu |-> req[q].rejeu,
         statut |-> s] \in Requete
    BY <1>2 DEF Requete
  <2>2. Garder(q, [etat |-> "conclusion", n |-> req[q].n, rejeu |-> req[q].rejeu,
                   statut |-> s])
    BY <1>4 DEF Rendre, En
  <2> QED BY <1>1, <1>4, <2>1, <2>2, Garde
<1> QED BY <1>3, <1>4

(***************************************************************************)
(* Sequences                                                               *)
(***************************************************************************)
LEMMA Emission ==
    ASSUME TypeOK, NEW n \in Numeros
    PROVE  /\ n \in Nat \ {0} /\ n \in DOMAIN journal
           /\ emis[n] \in Message
           /\ journal[n] \in Conclu \cup {"ABSENT", "RECU"}
BY ElementOfSeq, LenProperties DEF TypeOK, Numeros

LEMMA UneLigne ==
    ASSUME TypeOK, NEW l \in DOMAIN lignes
    PROVE  l \in Nat \ {0} /\ lignes[l] \in Ligne
BY ElementOfSeq, LenProperties DEF TypeOK

LEMMA LigneAjoutee ==
    ASSUME TypeOK, NEW x \in Ligne, lignes' = Append(lignes, x)
    PROVE  /\ lignes' \in Seq(Ligne)
           /\ DOMAIN lignes' = DOMAIN lignes \cup {Len(lignes) + 1}
           /\ lignes'[Len(lignes) + 1] = x
           /\ \A l \in DOMAIN lignes : lignes'[l] = lignes[l]
           /\ Len(lignes) + 1 \notin DOMAIN lignes
<1>1. Len(lignes) \in Nat /\ DOMAIN lignes = 1 .. Len(lignes)
  BY LenProperties DEF TypeOK
<1>2. /\ lignes' \in Seq(Ligne)
      /\ Len(lignes') = Len(lignes) + 1
      /\ \A i \in 1 .. Len(lignes) : lignes'[i] = lignes[i]
      /\ lignes'[Len(lignes) + 1] = x
  BY AppendProperties DEF TypeOK
<1>3. DOMAIN lignes' = 1 .. Len(lignes')
  BY <1>2, LenProperties
<1> QED BY <1>1, <1>2, <1>3

LEMMA LigneEcrite ==
    ASSUME TypeOK, NEW k \in DOMAIN lignes, NEW x \in Ligne,
           lignes' = [lignes EXCEPT ![k] = x]
    PROVE  /\ lignes' \in Seq(Ligne)
           /\ DOMAIN lignes' = DOMAIN lignes
           /\ lignes'[k] = x
           /\ \A l \in DOMAIN lignes : l # k => lignes'[l] = lignes[l]
<1>1. Len(lignes) \in Nat /\ DOMAIN lignes = 1 .. Len(lignes)
  BY LenProperties DEF TypeOK
<1> QED BY <1>1, ExceptSeq DEF TypeOK

LEMMA JournalEcrit ==
    ASSUME TypeOK, NEW n \in Numeros, NEW s \in Conclu \cup {"RECU"},
           journal' = [journal EXCEPT ![n] = s]
    PROVE  /\ journal' \in Seq(Conclu \cup {"ABSENT", "RECU"})
           /\ Len(journal') = Len(journal)
           /\ journal'[n] = s
           /\ \A k \in Numeros : k # n => journal'[k] = journal[k]
<1>1. Numeros = 1 .. Len(journal) /\ DOMAIN journal = 1 .. Len(journal)
  BY LenProperties DEF TypeOK, Numeros
<1> QED BY <1>1, ExceptSeq DEF TypeOK

(***************************************************************************)
(* Messages and rows name one reservation                                  *)
(***************************************************************************)
LEMMA Nomme ==
    ASSUME NEW x, Coherent(x)
    PROVE  /\ Dossier(x) \in Dossiers /\ Dossier(x) # NUL
           /\ x.id # NUL => x.id = Dossier(x)
           /\ x.ext # NUL => x.ext = Dossier(x)
           /\ x.id = NUL => x.ext = Dossier(x)
           /\ x.ext = IF Dossier(x) \in Externes THEN Dossier(x) ELSE NUL
BY DomainesAssumption DEF Coherent, Dossier

LEMMA UnDossier ==
    ASSUME NEW m \in MessageDossier
    PROVE  /\ Coherent(m)
           /\ m.sujet = "dossier"
           /\ m.contrat \in {"kolabimo", "interne"}
           /\ m.id \in Dossiers \cup {NUL} /\ m.ext \in Externes \cup {NUL}
           /\ m.statut \in StatutsEmis /\ m.prix \in Prix \cup {NUL}
           /\ m.signe \in BOOLEAN
BY DEF MessageDossier

LEMMA UnMessage ==
    ASSUME NEW m \in Message
    PROVE  /\ m.sujet \in {"dossier", "etape"}
           /\ m.sujet = "dossier" => m \in MessageDossier
           /\ m.sujet = "etape" => m.etape \in Etapes
BY DEF Message, MessageDossier, MessageEtape

LEMMA ChampsLigne ==
    ASSUME NEW l \in Ligne
    PROVE  /\ Coherent(l)
           /\ l.id \in Dossiers \cup {NUL} /\ l.ext \in Externes \cup {NUL}
           /\ l.statut \in StatutsEmis /\ l.prix \in Prix /\ l.signe \in BOOLEAN
BY DEF Ligne

\* The reconciliation finds the rows of the reservation the message names,
\* and no other.
LEMMA MemeDossier ==
    ASSUME NEW l \in Ligne, NEW m \in MessageDossier
    PROVE  /\ Meme(l, m) => Dossier(l) = Dossier(m)
           /\ Dossier(m) \in {l.id, l.ext} <=> Dossier(l) = Dossier(m)
           /\ Dossier(l) = Dossier(m) => Meme(l, m)
<1>1. Coherent(l) /\ Coherent(m)
  BY ChampsLigne, UnDossier
<1>2. NUL \notin Externes
  BY DomainesAssumption
<1> QED BY <1>1, <1>2, Nomme DEF Meme

(***************************************************************************)
(* What a request in flight knows                                          *)
(***************************************************************************)
\* An event of a reservation has its row.
Adosse(n) == emis[n].sujet = "dossier" => LignesDe(n) # {}

\* A request works on an event of the journal, or on a reservation it pulled;
\* the row it has found is of the reservation it treats; it concludes on
\* "applied" once the row is there.
Suivi(q) ==
    /\ req[q].etat \in EnTravail =>
         \/ req[q].n \in Numeros /\ journal[req[q].n] # "ABSENT"
         \/ req[q].etat = "dossier" /\ req[q].n = 0
    /\ req[q].etat = "jalon" => emis[req[q].n].sujet = "etape"
    /\ req[q].etat = "dossier" =>
         /\ req[q].n # 0 => req[q].m = emis[req[q].n]
         /\ req[q].ligne # 0 => /\ req[q].ligne \in DOMAIN lignes
                                /\ req[q].lu \in Ligne
                                /\ Dossier(lignes[req[q].ligne]) = Dossier(req[q].m)
    /\ req[q].etat = "conclusion" /\ req[q].statut = "TRAITE" => Adosse(req[q].n)

IInv ==
    /\ TypeOK
    /\ \A q \in Requetes : Suivi(q)
    /\ TraitementUnique
    /\ ExterneUnique
    /\ TraiteAdosse

\* What no step takes back: events, deliveries, rows with their reservation,
\* their externalId and their signed deed.
Stable ==
    /\ \A n \in Numeros : /\ n \in Numeros'
                          /\ emis'[n] = emis[n]
                          /\ journal[n] # "ABSENT" => journal'[n] # "ABSENT"
    /\ \A l \in DOMAIN lignes : /\ l \in DOMAIN lignes'
                                /\ Dossier(lignes'[l]) = Dossier(lignes[l])
                                /\ lignes'[l].ext = lignes[l].ext
                                /\ lignes[l].signe => lignes'[l].signe

LEMMA Inchange ==
    ASSUME TypeOK, UNCHANGED <<emis, lignes>>,
           \A n \in Numeros : journal[n] # "ABSENT" => journal'[n] # "ABSENT"
    PROVE  Stable
BY DEF Stable, Numeros

LEMMA AdosseStable ==
    ASSUME TypeOK, TypeOK', Stable, NEW n \in Numeros, Adosse(n)
    PROVE  Adosse(n)'
<1> SUFFICES ASSUME emis[n].sujet = "dossier"
             PROVE  LignesDe(n)' # {}
  BY DEF Adosse, Stable
<1>1. emis[n] \in MessageDossier /\ emis'[n] = emis[n]
  BY Emission, UnMessage DEF Stable
<1>2. PICK l \in DOMAIN lignes : Dossier(emis[n]) \in {lignes[l].id, lignes[l].ext}
  BY DEF Adosse, LignesDe
<1>3. Dossier(lignes[l]) = Dossier(emis[n])
  BY <1>1, <1>2, UneLigne, MemeDossier
<1>4. l \in DOMAIN lignes' /\ Dossier(lignes'[l]) = Dossier(lignes[l])
  BY DEF Stable
<1>5. lignes'[l] \in Ligne
  BY <1>4, ElementOfSeq, LenProperties DEF TypeOK
<1>6. Dossier(emis[n]) \in {lignes'[l].id, lignes'[l].ext}
  BY <1>1, <1>3, <1>4, <1>5, MemeDossier
<1> QED BY <1>1, <1>4, <1>6 DEF LignesDe

\* What a request knows stays true when another one steps.
LEMMA SuiviStable ==
    ASSUME TypeOK, TypeOK', Stable, NEW q \in Requetes, Suivi(q), req'[q] = req[q]
    PROVE  Suivi(q)'
<1> DEFINE r == req[q]
<1>1. r \in Requete /\ req'[q] = r
  BY DEF TypeOK
<1>2. r.etat \in EnTravail =>
         \/ r.n \in Numeros' /\ journal'[r.n] # "ABSENT"
         \/ r.etat = "dossier" /\ r.n = 0
  BY DEF Suivi, Stable
<1>3. r.etat = "jalon" => emis'[r.n].sujet = "etape"
  BY DEF Suivi, Stable, EnTravail
<1>4. r.etat = "dossier" =>
         /\ r.n # 0 => r.m = emis'[r.n]
         /\ r.ligne # 0 => /\ r.ligne \in DOMAIN lignes'
                           /\ r.lu \in Ligne
                           /\ Dossier(lignes'[r.ligne]) = Dossier(r.m)
  BY DEF Suivi, Stable, EnTravail
<1>5. req'[q].etat = "conclusion" /\ req'[q].statut = "TRAITE" => Adosse(req[q].n)'
  <2> SUFFICES ASSUME r.etat = "conclusion", r.statut = "TRAITE"
               PROVE  Adosse(req[q].n)'
    BY <1>1
  <2>1. PICK n \in Numeros : n = r.n /\ Adosse(n)
    BY DEF Suivi, EnTravail
  <2>2. Adosse(n)'
    BY <2>1, AdosseStable
  <2>3. req'[q].n = n
    BY <1>1, <2>1
  <2> QED BY <2>2, <2>3 DEF Adosse, LignesDe
<1> QED BY <1>1, <1>2, <1>3, <1>4, <1>5 DEF Suivi

(***************************************************************************)
(* One step of a request                                                   *)
(***************************************************************************)
\* Apart from a delivery that comes in, no step starts working on an event
\* other than by a replay.
Poursuit(q) ==
    req'[q].etat \in EnTravail /\ ~req'[q].rejeu /\ req'[q].n # 0 =>
        /\ req[q].etat \in EnTravail
        /\ req[q].n = req'[q].n
        /\ ~req[q].rejeu

Pas(q) == TypeOK' /\ Stable /\ Seul(q) /\ Suivi(q)' /\ Poursuit(q)

LEMMA PasLibre ==
    ASSUME TypeOK, NEW q \in Requetes, Finir(q),
           UNCHANGED <<emis, journal, raccord, lignes, closes, appels>>
    PROVE  Pas(q)
<1>1. req' \in [Requetes -> Requete] /\ req'[q] = Libre /\ Seul(q)
  BY Finie DEF TypeOK
<1>2. TypeOK' /\ Stable
  BY <1>1, Inchange DEF TypeOK
<1>3. req'[q].etat = "libre"
  BY <1>1 DEF Libre
<1> QED BY <1>1, <1>2, <1>3 DEF Pas, Suivi, Poursuit, EnTravail

\* A request that pulls works on no event.
LEMMA PasTirage ==
    ASSUME TypeOK, NEW q \in Requetes, NEW r \in Requete, Garder(q, r),
           r.etat \in {"tirage", "reprise"},
           UNCHANGED <<emis, journal, lignes, appels>>,
           raccord' \in {"AUCUN", "LIEE", "LOTS", "IMPORTEE"}, closes' \subseteq Etapes
    PROVE  Pas(q)
<1>1. req' \in [Requetes -> Requete] /\ req'[q] = r /\ Seul(q)
  BY Garde DEF TypeOK
<1>2. TypeOK' /\ Stable
  BY <1>1, Inchange DEF TypeOK
<1> QED BY <1>1, <1>2 DEF Pas, Suivi, Poursuit, EnTravail

LEMMA PasRendu ==
    ASSUME TypeOK, NEW q \in Requetes, Suivi(q), NEW s \in Conclu, Rendre(q, s),
           req[q].etat \in {"traitement", "dossier", "jalon"},
           Stable,
           emis' \in Seq(Message), journal' \in Seq(Conclu \cup {"ABSENT", "RECU"}),
           Len(journal') = Len(emis'),
           raccord' \in {"AUCUN", "LIEE", "LOTS", "IMPORTEE"},
           lignes' \in Seq(Ligne), closes' \subseteq Etapes,
           appels' \subseteq Appel, \A a \in appels' : a.ligne \in DOMAIN lignes',
           \A n \in Numeros : n = req[q].n /\ s = "TRAITE" => Adosse(n)'
    PROVE  Pas(q)
<1>1. /\ req' \in [Requetes -> Requete]
      /\ Seul(q)
      /\ \/ /\ req[q].etat = "dossier" /\ req[q].n = 0
            /\ req'[q] = [etat |-> "reprise", reste |-> req[q].reste]
         \/ /\ ~(req[q].etat = "dossier" /\ req[q].n = 0)
            /\ req'[q] = [etat |-> "conclusion", n |-> req[q].n,
                          rejeu |-> req[q].rejeu, statut |-> s]
  BY Rendue
<1>2. TypeOK'
  BY <1>1 DEF TypeOK
<1>3. CASE req'[q] = [etat |-> "reprise", reste |-> req[q].reste]
  BY <1>1, <1>2, <1>3 DEF Pas, Suivi, Poursuit, EnTravail
<1>4. CASE /\ ~(req[q].etat = "dossier" /\ req[q].n = 0)
           /\ req'[q] = [etat |-> "conclusion", n |-> req[q].n,
                         rejeu |-> req[q].rejeu, statut |-> s]
  <2>1. /\ req'[q].etat = "conclusion" /\ req'[q].n = req[q].n
        /\ req'[q].rejeu = req[q].rejeu /\ req'[q].statut = s
    BY <1>4
  <2>2. PICK n \in Numeros : n = req[q].n /\ journal[n] # "ABSENT"
    BY <1>4 DEF Suivi, EnTravail
  <2>3. n \in Numeros' /\ journal'[n] # "ABSENT"
    BY <2>2 DEF Stable
  <2>4. s = "TRAITE" => Adosse(n)'
    BY <2>2
  <2>5. s = "TRAITE" => Adosse(req[q].n)'
    BY <2>1, <2>2, <2>4 DEF Adosse, LignesDe
  <2>6. Suivi(q)'
    BY <2>1, <2>2, <2>3, <2>5 DEF Suivi, EnTravail
  <2>7. Poursuit(q)
    BY <2>1 DEF Poursuit, EnTravail
  <2> QED BY <1>1, <1>2, <2>6, <2>7 DEF Pas
<1> QED BY <1>1, <1>3, <1>4

\* The same when only the request changes, and it does not conclude that a
\* reservation is applied.
LEMMA PasRefuse ==
    ASSUME TypeOK, NEW q \in Requetes, Suivi(q), NEW s \in Conclu, Rendre(q, s),
           req[q].etat \in {"traitement", "dossier", "jalon"},
           s = "TRAITE" => req[q].n \in Numeros /\ emis[req[q].n].sujet = "etape",
           UNCHANGED <<emis, journal, raccord, lignes, closes, appels>>
    PROVE  Pas(q)
<1>1. Stable
  BY Inchange
<1>2. \A n \in Numeros : n = req[q].n /\ s = "TRAITE" => Adosse(n)'
  BY DEF Adosse
<1>3. /\ emis' \in Seq(Message) /\ journal' \in Seq(Conclu \cup {"ABSENT", "RECU"})
      /\ Len(journal') = Len(emis')
      /\ raccord' \in {"AUCUN", "LIEE", "LOTS", "IMPORTEE"}
      /\ lignes' \in Seq(Ligne) /\ closes' \subseteq Etapes
      /\ appels' \subseteq Appel /\ \A a \in appels' : a.ligne \in DOMAIN lignes'
  BY DEF TypeOK
<1> QED BY <1>1, <1>2, <1>3, PasRendu

\* findFirst: whichever row is found, the request knows it.
LEMMA PasTrouve ==
    ASSUME TypeOK, NEW q \in Requetes, NEW m \in MessageDossier, NEW n \in Nat,
           NEW b \in BOOLEAN, NEW R \in SUBSET MessageDossier,
           Trouver(q, m, n, b, R),
           \/ n = 0
           \/ /\ n \in Numeros /\ m = emis[n] /\ journal[n] # "ABSENT"
              /\ req[q].etat \in EnTravail /\ req[q].n = n /\ req[q].rejeu = b,
           UNCHANGED <<emis, journal, raccord, lignes, closes, appels>>
    PROVE  Pas(q)
<1> DEFINE r(l, lu, a) == [etat |-> "dossier", n |-> n, rejeu |-> b, reste |-> R,
                           m |-> m, ligne |-> l, lu |-> lu, appele |-> a]
<1>1. PICK l \in Nat, lu \in Ligne \cup {NUL}, a \in BOOLEAN :
         /\ Garder(q, r(l, lu, a))
         /\ l # 0 => /\ l \in DOMAIN lignes
                     /\ lu \in Ligne
                     /\ Dossier(lignes[l]) = Dossier(m)
  <2>1. CASE Garder(q, r(0, NUL, FALSE))
    BY <2>1
  <2>2. ASSUME NEW l \in DOMAIN lignes, Meme(lignes[l], m),
               Garder(q, r(l, lignes[l], Appelee(l)))
        PROVE  \E k \in Nat, lu \in Ligne \cup {NUL}, a \in BOOLEAN :
                  /\ Garder(q, r(k, lu, a))
                  /\ k # 0 => /\ k \in DOMAIN lignes
                              /\ lu \in Ligne
                              /\ Dossier(lignes[k]) = Dossier(m)
    <3>1. l \in Nat /\ lignes[l] \in Ligne /\ Appelee(l) \in BOOLEAN
      BY UneLigne DEF Appelee
    <3>2. Dossier(lignes[l]) = Dossier(m)
      BY <2>2, <3>1, MemeDossier
    <3> QED BY <2>2, <3>1, <3>2
  <2> QED BY <2>1, <2>2 DEF Trouver
<1>2. r(l, lu, a) \in Requete
  BY <1>1 DEF Requete
<1>3. req' \in [Requetes -> Requete] /\ req'[q] = r(l, lu, a) /\ Seul(q)
  BY <1>1, <1>2, Garde DEF TypeOK
<1>4. TypeOK' /\ Stable
  BY <1>3, Inchange DEF TypeOK
<1>5. /\ req'[q].etat = "dossier" /\ req'[q].n = n /\ req'[q].rejeu = b
      /\ req'[q].m = m /\ req'[q].ligne = l /\ req'[q].lu = lu
  BY <1>3
<1>6. Suivi(q)'
  BY <1>1, <1>5 DEF Suivi, EnTravail, Numeros
<1>7. Poursuit(q)
  BY <1>5 DEF Poursuit, EnTravail
<1> QED BY <1>3, <1>4, <1>6, <1>7 DEF Pas

(***************************************************************************)
(* The steps, one by one                                                   *)
(***************************************************************************)
\* Apart from the reservations pulled, the event in progress is in the journal.
LEMMA EnCours ==
    ASSUME TypeOK, NEW q \in Requetes, Suivi(q), req[q].etat \in EnTravail,
           ~(req[q].etat = "dossier" /\ req[q].n = 0)
    PROVE  /\ req[q].n \in Numeros /\ req[q].n \in Nat \ {0}
           /\ journal[req[q].n] # "ABSENT"
           /\ emis[req[q].n] \in Message
           /\ req[q].rejeu \in BOOLEAN
<1>1. req[q].n \in Numeros /\ journal[req[q].n] # "ABSENT"
  BY DEF Suivi
<1>2. req[q] \in Requete
  BY DEF TypeOK
<1>3. req[q].rejeu \in BOOLEAN
  BY <1>2, FormeRequete
<1> QED BY <1>1, <1>3, Emission

\* The reservation a request treats, when it is about to write it.
LEMMA DossierEnCours ==
    ASSUME TypeOK, NEW q \in Requetes, Suivi(q), req[q].etat = "dossier"
    PROVE  /\ req[q].m \in MessageDossier
           /\ req[q].lu \in Ligne \cup {NUL}
           /\ \A n \in Numeros : n = req[q].n => emis[n] = req[q].m
<1>1. req[q] \in Requete
  BY DEF TypeOK
<1>2. req[q].m \in MessageDossier /\ req[q].lu \in Ligne \cup {NUL}
  BY <1>1, FormeRequete
<1>3. \A n \in Numeros : n # 0
  BY DEF Numeros
<1> QED BY <1>2, <1>3 DEF Suivi

\* The row written is of the reservation the event is about.
LEMMA RetrouveEcrit ==
    ASSUME TypeOK, emis' = emis, NEW n \in Numeros, emis[n] \in MessageDossier,
           NEW l \in DOMAIN lignes', lignes'[l] \in Ligne,
           Dossier(lignes'[l]) = Dossier(emis[n])
    PROVE  Adosse(n)'
<1>1. Dossier(emis'[n]) \in {lignes'[l].id, lignes'[l].ext}
  BY MemeDossier
<1> QED BY <1>1 DEF Adosse, LignesDe

LEMMA PasCreerDossier ==
    ASSUME TypeOK, NEW q \in Requetes, Suivi(q), CreerDossier(q)
    PROVE  /\ Pas(q)
           /\ ExterneUnique => ExterneUnique'
           /\ \E x \in Ligne :
                /\ Dossier(x) = Dossier(req[q].m)
                /\ DOMAIN lignes' = DOMAIN lignes \cup {Len(lignes) + 1}
                /\ lignes'[Len(lignes) + 1] = x
                /\ \A l \in DOMAIN lignes : lignes'[l] = lignes[l]
<1> DEFINE m == req[q].m
           x == [id |-> m.id, ext |-> m.ext, statut |-> m.statut,
                 prix |-> Donne(m.prix, PrixLot), signe |-> m.signe]
<1>1. /\ req[q].etat = "dossier" /\ CleExterne(m)
      /\ lignes' = Append(lignes, x)
      /\ Rendre(q, "TRAITE")
      /\ UNCHANGED <<emis, journal, raccord, closes, appels>>
  BY DEF CreerDossier, En
<1>2. m \in MessageDossier /\ \A n \in Numeros : n = req[q].n => emis[n] = m
  BY <1>1, DossierEnCours
<1>3. Donne(m.prix, PrixLot) \in Prix
  BY <1>2, UnDossier, DomainesAssumption DEF Donne
<1>4. x \in Ligne /\ Dossier(x) = Dossier(m) /\ x.ext = m.ext
  <2>1. /\ m.id \in Dossiers \cup {NUL} /\ m.ext \in Externes \cup {NUL}
        /\ m.statut \in StatutsEmis /\ m.signe \in BOOLEAN /\ Coherent(m)
    BY <1>2, UnDossier
  <2>2. /\ x.id = m.id /\ x.ext = m.ext
    OBVIOUS
  <2>3. Dossier(x) = Dossier(m)
    BY <2>2 DEF Dossier
  <2>4. Coherent(x)
    BY <2>1, <2>2, <2>3 DEF Coherent
  <2> HIDE DEF m
  <2>5. x \in [id: Dossiers \cup {NUL}, ext: Externes \cup {NUL}, statut: StatutsEmis,
               prix: Prix, signe: BOOLEAN]
    BY <1>3, <2>1
  <2> HIDE DEF x
  <2> QED BY <2>2, <2>3, <2>4, <2>5 DEF Ligne
<1> HIDE DEF m, x
<1>5. /\ lignes' \in Seq(Ligne)
      /\ DOMAIN lignes' = DOMAIN lignes \cup {Len(lignes) + 1}
      /\ lignes'[Len(lignes) + 1] = x
      /\ \A l \in DOMAIN lignes : lignes'[l] = lignes[l]
  BY <1>1, <1>4, LigneAjoutee
<1>6. Stable
  BY <1>1, <1>5 DEF Stable, Numeros
<1>7. \A n \in Numeros : n = req[q].n => Adosse(n)'
  BY <1>1, <1>2, <1>4, <1>5, RetrouveEcrit
<1>8. /\ emis' \in Seq(Message) /\ journal' \in Seq(Conclu \cup {"ABSENT", "RECU"})
      /\ Len(journal') = Len(emis')
      /\ raccord' \in {"AUCUN", "LIEE", "LOTS", "IMPORTEE"}
      /\ closes' \subseteq Etapes
      /\ appels' \subseteq Appel /\ \A a \in appels' : a.ligne \in DOMAIN lignes'
  BY <1>1, <1>5 DEF TypeOK
<1>9. Pas(q)
  BY <1>1, <1>5, <1>6, <1>7, <1>8, PasRendu DEF Conclu
<1>10. ASSUME ExterneUnique PROVE ExterneUnique'
  BY <1>1, <1>4, <1>5, <1>10 DEF ExterneUnique, CleExterne
<1>11. Dossier(x) = Dossier(req[q].m)
  BY <1>4 DEF m
<1> QED BY <1>4, <1>5, <1>9, <1>10, <1>11

LEMMA PasMettreAJour ==
    ASSUME TypeOK, NEW q \in Requetes, Suivi(q), MettreAJour(q)
    PROVE  Pas(q)
<1> DEFINE m == req[q].m
           k == req[q].ligne
           lu == req[q].lu
           st == IF m.statut = lu.statut THEN lignes[k].statut ELSE m.statut
           px == IF (req[q].appele \/ lu.signe) \/ m.prix = lu.prix
                 THEN lignes[k].prix ELSE Donne(m.prix, lignes[k].prix)
           sg == lignes[k].signe \/ m.signe
           x == [id |-> Donne(m.id, lignes[k].id), ext |-> lignes[k].ext, statut |-> st,
                 prix |-> px, signe |-> sg]
<1>1. /\ req[q].etat = "dossier" /\ k # 0
      /\ lignes' = [lignes EXCEPT ![k] = x]
      /\ Rendre(q, "TRAITE")
      /\ UNCHANGED <<emis, journal, raccord, closes, appels>>
  BY DEF MettreAJour, En
<1>2. m \in MessageDossier /\ \A n \in Numeros : n = req[q].n => emis[n] = m
  BY <1>1, DossierEnCours
<1>3. k \in DOMAIN lignes /\ lu \in Ligne /\ Dossier(lignes[k]) = Dossier(m)
  BY <1>1 DEF Suivi
<1>4. lignes[k] \in Ligne
  BY <1>3, UneLigne
<1> HIDE DEF m, k, lu
<1>5. /\ m.id \in Dossiers \cup {NUL} /\ m.statut \in StatutsEmis
      /\ m.prix \in Prix \cup {NUL} /\ m.signe \in BOOLEAN /\ Coherent(m)
      /\ lignes[k].id \in Dossiers \cup {NUL} /\ lignes[k].ext \in Externes \cup {NUL}
      /\ lignes[k].statut \in StatutsEmis /\ lignes[k].prix \in Prix
      /\ lignes[k].signe \in BOOLEAN /\ Coherent(lignes[k])
  BY <1>2, <1>4, UnDossier, ChampsLigne
<1>6. /\ st \in StatutsEmis /\ px \in Prix /\ sg \in BOOLEAN
      /\ Donne(m.id, lignes[k].id) \in Dossiers \cup {NUL}
  BY <1>5 DEF Donne
<1>7. x.id = Donne(m.id, lignes[k].id) /\ x.ext = lignes[k].ext /\ x.signe = sg
  OBVIOUS
<1> HIDE DEF st, px
<1>8. x \in [id: Dossiers \cup {NUL}, ext: Externes \cup {NUL}, statut: StatutsEmis,
             prix: Prix, signe: BOOLEAN]
  BY <1>5, <1>6
<1>9. lignes[k].signe => x.signe
  BY <1>7
<1> HIDE DEF x, sg
<1>10. Dossier(x) = Dossier(lignes[k])
  <2>1. CASE m.id = NUL
    <3>1. x.id = lignes[k].id /\ x.ext = lignes[k].ext
      BY <1>7, <2>1 DEF Donne
    <3> QED BY <3>1 DEF Dossier
  <2>2. CASE m.id # NUL
    <3>1. x.id = m.id
      BY <1>7, <2>2 DEF Donne
    <3>2. Dossier(x) = Dossier(m)
      BY <2>2, <3>1 DEF Dossier
    <3> QED BY <1>3, <3>2
  <2> QED BY <2>1, <2>2
<1>11. x \in Ligne
  <2>1. Coherent(x)
    BY <1>5, <1>7, <1>10 DEF Coherent
  <2> QED BY <1>8, <2>1 DEF Ligne
<1>12. /\ lignes' \in Seq(Ligne)
       /\ DOMAIN lignes' = DOMAIN lignes
       /\ lignes'[k] = x
       /\ \A l \in DOMAIN lignes : l # k => lignes'[l] = lignes[l]
  BY <1>1, <1>3, <1>11, LigneEcrite
<1>13. Stable
  BY <1>1, <1>7, <1>9, <1>10, <1>12 DEF Stable, Numeros
<1>14. \A n \in Numeros : n = req[q].n => Adosse(n)'
  BY <1>1, <1>2, <1>3, <1>10, <1>11, <1>12, RetrouveEcrit
<1>15. /\ emis' \in Seq(Message) /\ journal' \in Seq(Conclu \cup {"ABSENT", "RECU"})
       /\ Len(journal') = Len(emis')
       /\ raccord' \in {"AUCUN", "LIEE", "LOTS", "IMPORTEE"}
       /\ closes' \subseteq Etapes
       /\ appels' \subseteq Appel /\ \A a \in appels' : a.ligne \in DOMAIN lignes'
  BY <1>1, <1>12 DEF TypeOK
<1> QED BY <1>1, <1>12, <1>13, <1>14, <1>15, PasRendu DEF Conclu

LEMMA PasReprise ==
    ASSUME TypeOK, NEW q \in Requetes, Suivi(q), NEW n \in Numeros, Rejouer(q, n)
    PROVE  Pas(q)
<1>1. [etat |-> "traitement", n |-> n, rejeu |-> TRUE] \in Requete
  BY Emission DEF Requete
<1>2. /\ req' \in [Requetes -> Requete] /\ Seul(q)
      /\ req'[q] = [etat |-> "traitement", n |-> n, rejeu |-> TRUE]
  BY <1>1, Garde DEF Rejouer, TypeOK
<1>3. UNCHANGED <<emis, journal, raccord, lignes, closes, appels>> /\ journal[n] # "ABSENT"
  BY DEF Rejouer
<1>4. TypeOK' /\ Stable
  BY <1>2, <1>3, Inchange DEF TypeOK
<1>5. req'[q].etat = "traitement" /\ req'[q].n = n /\ req'[q].rejeu
  BY <1>2
<1> QED BY <1>2, <1>3, <1>4, <1>5 DEF Pas, Suivi, Poursuit, Numeros

LEMMA PasConclure ==
    ASSUME TypeOK, NEW q \in Requetes, Suivi(q), Conclure(q)
    PROVE  /\ Pas(q)
           /\ TraiteAdosse => TraiteAdosse'
<1>1. req[q].etat = "conclusion" /\ req[q] \in Requete
  BY DEF Conclure, En, TypeOK
<1>2. req[q].statut \in Conclu
  BY <1>1, FormeRequete
<1>3. PICK n \in Numeros : n = req[q].n
  BY <1>1, EnCours DEF EnTravail
<1>4. /\ journal' = [journal EXCEPT ![n] = req[q].statut]
      /\ Finir(q) /\ UNCHANGED <<emis, raccord, lignes, closes, appels>>
  BY <1>3 DEF Conclure
<1>5. /\ journal' \in Seq(Conclu \cup {"ABSENT", "RECU"})
      /\ Len(journal') = Len(journal)
      /\ journal'[n] = req[q].statut
      /\ \A k \in Numeros : k # n => journal'[k] = journal[k]
  BY <1>2, <1>4, JournalEcrit
<1>6. req' \in [Requetes -> Requete] /\ req'[q] = Libre /\ Seul(q)
  BY <1>4, Finie DEF TypeOK
<1>7. "ABSENT" \notin Conclu
  BY DEF Conclu
<1>8. TypeOK' /\ Stable
  <2>1. TypeOK'
    BY <1>4, <1>5, <1>6 DEF TypeOK
  <2>2. \A k \in Numeros : journal[k] # "ABSENT" => journal'[k] # "ABSENT"
    BY <1>2, <1>5, <1>7
  <2> QED BY <1>4, <2>1, <2>2, Inchange
<1>9. req'[q].etat = "libre"
  BY <1>6 DEF Libre
<1>10. Pas(q)
  BY <1>6, <1>8, <1>9 DEF Pas, Suivi, Poursuit, EnTravail
<1>11. ASSUME TraiteAdosse PROVE TraiteAdosse'
  <2>1. req[q].statut = "TRAITE" => Adosse(n)
    BY <1>1, <1>3 DEF Suivi
  <2> QED BY <1>4, <1>5, <1>11, <2>1 DEF TraiteAdosse, Adosse, LignesDe, Numeros
<1> QED BY <1>10, <1>11

\* Refusals, and what happens to the delivery of a step.
LEMMA PasTraiter ==
    ASSUME TypeOK, NEW q \in Requetes, Suivi(q), Traiter(q)
    PROVE  Pas(q)
<1>1. ASSUME Illisible(q) \/ SansLot(q) \/ ConflitExterne(q) \/ Bloquer(q) \/ Echouer(q)
      PROVE  Pas(q)
  <2>1. PICK s \in Conclu \ {"TRAITE"} : Rendre(q, s)
    BY <1>1 DEF Illisible, SansLot, ConflitExterne, Bloquer, Echouer, Conclu
  <2>2. req[q].etat \in {"traitement", "dossier", "jalon"}
    BY <1>1 DEF Illisible, SansLot, ConflitExterne, Bloquer, Echouer, En
  <2>3. UNCHANGED <<emis, journal, raccord, lignes, closes, appels>>
    BY <1>1 DEF Illisible, SansLot, ConflitExterne, Bloquer, Echouer
  <2> QED BY <2>1, <2>2, <2>3, PasRefuse
<1>2. ASSUME LireDossier(q)
      PROVE  Pas(q)
  <2>1. req[q].etat = "traitement" /\ emis[req[q].n].sujet = "dossier"
    BY <1>2 DEF LireDossier, En
  <2>2. /\ req[q].n \in Numeros /\ req[q].n \in Nat /\ journal[req[q].n] # "ABSENT"
        /\ emis[req[q].n] \in MessageDossier /\ req[q].rejeu \in BOOLEAN
    BY <2>1, EnCours, UnMessage DEF EnTravail
  <2>3. {} \in SUBSET MessageDossier /\ req[q].etat \in EnTravail
    BY <2>1 DEF EnTravail
  <2>4. /\ Trouver(q, emis[req[q].n], req[q].n, req[q].rejeu, {})
        /\ UNCHANGED <<emis, journal, raccord, lignes, closes, appels>>
    BY <1>2 DEF LireDossier
  <2> QED BY <2>2, <2>3, <2>4, PasTrouve
<1>3. ASSUME JalonSansSuite(q)
      PROVE  Pas(q)
  <2>1. /\ req[q].etat = "traitement" /\ emis[req[q].n].sujet = "etape"
        /\ UNCHANGED <<emis, journal, raccord, lignes, closes, appels>>
    BY <1>3 DEF JalonSansSuite, En
  <2>2. PICK s \in Conclu : Rendre(q, s)
    BY <1>3 DEF JalonSansSuite, Conclu
  <2>3. req[q].n \in Numeros
    BY <2>1, EnCours DEF EnTravail
  <2> QED BY <2>1, <2>2, <2>3, PasRefuse
<1>4. ASSUME LireJalon(q)
      PROVE  Pas(q)
  <2> DEFINE r == [etat |-> "jalon", n |-> req[q].n, rejeu |-> req[q].rejeu]
  <2>1. /\ req[q].etat = "traitement" /\ emis[req[q].n].sujet = "etape"
        /\ UNCHANGED <<emis, journal, raccord, lignes, closes, appels>>
        /\ Garder(q, r)
    BY <1>4 DEF LireJalon, En
  <2>2. /\ req[q].n \in Numeros /\ req[q].n \in Nat /\ journal[req[q].n] # "ABSENT"
        /\ req[q].rejeu \in BOOLEAN
    BY <2>1, EnCours DEF EnTravail
  <2>3. r \in Requete
    BY <2>2 DEF Requete
  <2>4. req' \in [Requetes -> Requete] /\ Seul(q) /\ req'[q] = r
    BY <2>1, <2>3, Garde DEF TypeOK
  <2>5. TypeOK' /\ Stable
    BY <2>1, <2>4, Inchange DEF TypeOK
  <2>6. req'[q].etat = "jalon" /\ req'[q].n = req[q].n /\ req'[q].rejeu = req[q].rejeu
    BY <2>4
  <2> QED BY <2>1, <2>2, <2>4, <2>5, <2>6 DEF Pas, Suivi, Poursuit, EnTravail, Numeros
<1>5. ASSUME Declencher(q)
      PROVE  Pas(q)
  <2> DEFINE e == emis[req[q].n].etape
             dues == {l \in DOMAIN lignes : lignes[l].statut \in StatutsEngages
                         /\ ~\E a \in appels : a.ligne = l /\ a.etape = e}
             neufs == {[ligne |-> l, etape |-> e, prix |-> lignes[l].prix] : l \in dues}
  <2>1. /\ req[q].etat = "jalon" /\ Rendre(q, "TRAITE")
        /\ appels' = appels \cup neufs /\ closes' = closes \cup {e}
        /\ UNCHANGED <<emis, journal, raccord, lignes>>
    BY <1>5 DEF Declencher, En
  <2>2. emis[req[q].n].sujet = "etape" /\ e \in Etapes
    BY <2>1, EnCours, UnMessage DEF Suivi, EnTravail
  <2>3. dues \subseteq DOMAIN lignes
    OBVIOUS
  <2> HIDE DEF e, dues
  <2>4. neufs \subseteq Appel /\ \A a \in neufs : a.ligne \in DOMAIN lignes
    BY <2>2, <2>3, UneLigne, ChampsLigne DEF Appel
  <2> HIDE DEF neufs
  <2>5. Stable
    BY <2>1, Inchange
  <2>6. \A n \in Numeros : n = req[q].n => Adosse(n)'
    BY <2>1, <2>2 DEF Adosse
  <2>7. /\ emis' \in Seq(Message) /\ journal' \in Seq(Conclu \cup {"ABSENT", "RECU"})
        /\ Len(journal') = Len(emis')
        /\ raccord' \in {"AUCUN", "LIEE", "LOTS", "IMPORTEE"}
        /\ lignes' \in Seq(Ligne) /\ closes' \subseteq Etapes
        /\ appels' \subseteq Appel /\ \A a \in appels' : a.ligne \in DOMAIN lignes'
    BY <2>1, <2>2, <2>4 DEF TypeOK
  <2> QED BY <2>1, <2>5, <2>6, <2>7, PasRendu DEF Conclu
<1> QED BY <1>1, <1>2, <1>3, <1>4, <1>5, PasCreerDossier, PasMettreAJour, PasConclure
        DEF Traiter

\* What Kolabimo answers to a pull has the shape of a message.
LEMMA ReponsesKolabimo ==
    ASSUME TypeOK
    PROVE  EtapesFaites \subseteq Etapes /\ DossiersVus \subseteq MessageDossier
<1>1. EtapesFaites \subseteq Etapes
  BY Emission, UnMessage DEF EtapesFaites
<1>2. ASSUME NEW n \in Numeros, emis[n].sujet = "dossier"
      PROVE  [sujet |-> "dossier", contrat |-> "kolabimo", id |-> Dossier(emis[n]),
              ext |-> IF Dossier(emis[n]) \in Externes THEN Dossier(emis[n]) ELSE NUL,
              statut |-> emis[n].statut, prix |-> NUL, signe |-> emis[n].signe]
                 \in MessageDossier
  <2> DEFINE d == Dossier(emis[n])
             x == [sujet |-> "dossier", contrat |-> "kolabimo", id |-> d,
                   ext |-> IF d \in Externes THEN d ELSE NUL,
                   statut |-> emis[n].statut, prix |-> NUL, signe |-> emis[n].signe]
  <2>1. emis[n] \in MessageDossier
    BY <1>2, Emission, UnMessage
  <2>2. /\ d \in Dossiers /\ d # NUL
        /\ emis[n].statut \in StatutsEmis /\ emis[n].signe \in BOOLEAN
    BY <2>1, UnDossier, Nomme
  <2> HIDE DEF d
  <2>3. x \in [sujet: {"dossier"}, contrat: {"kolabimo", "interne"},
               id: Dossiers \cup {NUL}, ext: Externes \cup {NUL}, statut: StatutsEmis,
               prix: Prix \cup {NUL}, signe: BOOLEAN]
    BY <2>2
  <2>4. x.id = d /\ x.ext = IF d \in Externes THEN d ELSE NUL
    OBVIOUS
  <2> HIDE DEF x
  <2>5. Coherent(x)
    BY <2>2, <2>4 DEF Coherent, Dossier
  <2>6. x \in MessageDossier
    BY <2>3, <2>5 DEF MessageDossier
  <2> QED BY <2>6 DEF x, d
<1>3. DossiersVus \subseteq MessageDossier
  BY <1>2 DEF DossiersVus
<1> QED BY <1>1, <1>3

LEMMA PasTirer ==
    ASSUME TypeOK, NEW q \in Requetes, Suivi(q), Tirer(q)
    PROVE  Pas(q)
<1> DEFINE avec(f, d) == [etat |-> "tirage", faites |-> f, dossiers |-> d]
<1>1. ASSUME En(q, "tirage")
      PROVE  /\ req[q].faites \in SUBSET (SUBSET Etapes)
             /\ req[q].dossiers \in SUBSET (SUBSET MessageDossier)
             /\ req[q] = avec(req[q].faites, req[q].dossiers)
  <2>1. req[q] \in Requete /\ req[q].etat = "tirage"
    BY <1>1 DEF En, TypeOK
  <2> QED BY <2>1, FormeRequete DEF Requete
<1>2. ASSUME TirerEcheancier(q)
      PROVE  Pas(q)
  <2>1. En(q, "tirage") /\ Garder(q, [req[q] EXCEPT !.faites = {EtapesFaites}])
    BY <1>2 DEF TirerEcheancier
  <2>2. [req[q] EXCEPT !.faites = {EtapesFaites}] = avec({EtapesFaites}, req[q].dossiers)
    BY <1>1, <2>1
  <2>3. avec({EtapesFaites}, req[q].dossiers) \in Requete
    BY <1>1, <2>1, ReponsesKolabimo DEF Requete
  <2> QED BY <1>2, <2>1, <2>2, <2>3, PasTirage DEF TirerEcheancier, TypeOK
<1>3. ASSUME TirerReservations(q)
      PROVE  Pas(q)
  <2>1. En(q, "tirage") /\ Garder(q, [req[q] EXCEPT !.dossiers = {DossiersVus}])
    BY <1>3 DEF TirerReservations
  <2>2. [req[q] EXCEPT !.dossiers = {DossiersVus}] = avec(req[q].faites, {DossiersVus})
    BY <1>1, <2>1
  <2>3. avec(req[q].faites, {DossiersVus}) \in Requete
    BY <1>1, <2>1, ReponsesKolabimo DEF Requete
  <2> QED BY <1>3, <2>1, <2>2, <2>3, PasTirage DEF TirerReservations, TypeOK
<1>4. ASSUME AppliquerCatalogue(q)
      PROVE  Pas(q)
  <2>1. /\ En(q, "tirage")
        /\ Garder(q, [etat |-> "reprise", reste |-> UNION req[q].dossiers])
        /\ UNCHANGED <<emis, journal, lignes, appels>>
    BY <1>4 DEF AppliquerCatalogue
  <2>2. raccord' \in {"AUCUN", "LIEE", "LOTS", "IMPORTEE"} /\ closes' \subseteq Etapes
    BY <1>1, <1>4, <2>1 DEF AppliquerCatalogue, TypeOK
  <2>3. [etat |-> "reprise", reste |-> UNION req[q].dossiers] \in Requete
    BY <1>1, <2>1 DEF Requete
  <2> QED BY <2>1, <2>2, <2>3, PasTirage
<1>5. ASSUME NEW m \in req[q].reste, En(q, "reprise"), LireTire(q, m)
      PROVE  Pas(q)
  <2>1. req[q].reste \in SUBSET MessageDossier
    BY <1>5, FormeRequete DEF En, TypeOK
  <2>2. m \in MessageDossier /\ req[q].reste \ {m} \in SUBSET MessageDossier
    BY <2>1
  <2>3. /\ Trouver(q, m, 0, FALSE, req[q].reste \ {m})
        /\ UNCHANGED <<emis, journal, raccord, lignes, closes, appels>>
    BY <1>5 DEF LireTire
  <2> QED BY <2>2, <2>3, PasTrouve
<1>6. ASSUME FinReprise(q)
      PROVE  Pas(q)
  BY <1>6, PasLibre DEF FinReprise
<1> QED BY <1>2, <1>3, <1>4, <1>5, <1>6 DEF Tirer

LEMMA PasRaccord ==
    ASSUME TypeOK, NEW q \in Requetes, Rattacher(q) \/ Synchroniser(q)
    PROVE  Pas(q)
<1>1. Tirage \in Requete /\ Tirage.etat = "tirage"
  BY DEF Tirage, Requete
<1>2. /\ Garder(q, Tirage) /\ UNCHANGED <<emis, journal, lignes, appels>>
      /\ raccord' \in {"AUCUN", "LIEE", "LOTS", "IMPORTEE"} /\ closes' \subseteq Etapes
  BY DEF Rattacher, Synchroniser, TypeOK
<1> QED BY <1>1, <1>2, PasTirage

(***************************************************************************)
(* The invariant                                                           *)
(***************************************************************************)
\* The rows of the journal stay backed as long as nothing else concludes.
LEMMA AdosseConserve ==
    ASSUME TypeOK, TypeOK', Stable, TraiteAdosse, UNCHANGED <<emis, journal>>
    PROVE  TraiteAdosse'
<1>1. ASSUME NEW n \in Numeros, journal[n] = "TRAITE"
      PROVE  Adosse(n)'
  BY <1>1, AdosseStable DEF TraiteAdosse, Adosse
<1> QED BY <1>1 DEF TraiteAdosse, Adosse, LignesDe, Numeros

LEMMA ExterneConserve ==
    ASSUME Stable, ExterneUnique, DOMAIN lignes' = DOMAIN lignes
    PROVE  ExterneUnique'
BY DEF Stable, ExterneUnique

LEMMA PasUnique ==
    ASSUME TypeOK, TraitementUnique, NEW q \in Requetes, Pas(q), emis' = emis
    PROVE  TraitementUnique'
<1> SUFFICES ASSUME NEW p \in Requetes, NEW r \in Requetes, NEW n \in Numeros',
                    Travaille(p, n)', ~req'[p].rejeu, Travaille(r, n)', ~req'[r].rejeu
             PROVE  p = r
  BY DEF TraitementUnique
<1>1. n \in Numeros /\ n # 0
  BY DEF Numeros
<1>2. Travaille(p, n) /\ ~req[p].rejeu
  BY <1>1 DEF Pas, Seul, Poursuit, Travaille, EnTravail
<1>3. Travaille(r, n) /\ ~req[r].rejeu
  BY <1>1 DEF Pas, Seul, Poursuit, Travaille, EnTravail
<1> QED BY <1>1, <1>2, <1>3 DEF TraitementUnique

LEMMA SuiviTous ==
    ASSUME TypeOK, TypeOK', Stable, \A p \in Requetes : Suivi(p),
           NEW q \in Requetes, Seul(q), Suivi(q)'
    PROVE  \A p \in Requetes : Suivi(p)'
<1> SUFFICES ASSUME NEW p \in Requetes, p # q
             PROVE  Suivi(p)'
  OBVIOUS
<1> QED BY SuiviStable DEF Seul

LEMMA PasInv ==
    ASSUME IInv, NEW q \in Requetes, Pas(q), emis' = emis, ExterneUnique', TraiteAdosse'
    PROVE  IInv'
<1>1. TypeOK' /\ \A p \in Requetes : Suivi(p)'
  BY SuiviTous DEF IInv, Pas
<1>2. TraitementUnique'
  BY PasUnique DEF IInv
<1> QED BY <1>1, <1>2 DEF IInv

LEMMA RecevoirInv ==
    ASSUME IInv, NEW q \in Requetes, NEW n \in Numeros, Recevoir(q, n)
    PROVE  IInv' /\ Stable
<1> DEFINE r == [etat |-> "traitement", n |-> n, rejeu |-> FALSE]
<1>1. /\ journal[n] = "ABSENT" /\ journal' = [journal EXCEPT ![n] = "RECU"]
      /\ Garder(q, r) /\ UNCHANGED <<emis, raccord, lignes, closes, appels>>
  BY DEF Recevoir
<1>2. /\ TypeOK /\ \A p \in Requetes : Suivi(p)
      /\ TraitementUnique /\ ExterneUnique /\ TraiteAdosse
  BY DEF IInv
<1>3. r \in Requete
  BY <1>2, Emission DEF Requete
<1>4. req' \in [Requetes -> Requete] /\ req'[q] = r /\ Seul(q)
  BY <1>1, <1>2, <1>3, Garde DEF TypeOK
<1>5. /\ journal' \in Seq(Conclu \cup {"ABSENT", "RECU"})
      /\ Len(journal') = Len(journal)
      /\ journal'[n] = "RECU"
      /\ \A k \in Numeros : k # n => journal'[k] = journal[k]
  BY <1>1, <1>2, JournalEcrit
<1>6. TypeOK'
  BY <1>1, <1>2, <1>4, <1>5 DEF TypeOK
<1>7. Stable
  BY <1>1, <1>2, <1>5, Inchange
<1>8. req'[q].etat = "traitement" /\ req'[q].n = n
  BY <1>4
<1>9. Suivi(q)'
  BY <1>1, <1>5, <1>8 DEF Suivi, Numeros
<1>10. \A p \in Requetes : Suivi(p)'
  BY <1>2, <1>4, <1>6, <1>7, <1>9, SuiviTous
<1>11. TraitementUnique'
  <2> SUFFICES ASSUME NEW p \in Requetes, NEW u \in Requetes, NEW k \in Numeros,
                      Travaille(p, k)', ~req'[p].rejeu, Travaille(u, k)', ~req'[u].rejeu
               PROVE  p = u
    BY <1>1 DEF TraitementUnique, Numeros
  <2>1. ASSUME NEW v \in Requetes, v # q, Travaille(v, k)'
        PROVE  Travaille(v, k) /\ req'[v] = req[v] /\ journal[k] # "ABSENT"
    <3>1. req'[v] = req[v] /\ k # 0
      BY <1>4, <2>1 DEF Seul, Numeros
    <3>2. Travaille(v, k)
      BY <2>1, <3>1 DEF Travaille
    <3> QED BY <1>2, <3>1, <3>2 DEF Suivi, Travaille, EnTravail
  <2>2. Travaille(q, k)' => k = n
    BY <1>8 DEF Travaille
  <2>3. CASE p # q /\ u # q
    BY <1>2, <2>1, <2>3 DEF TraitementUnique
  <2>4. CASE p = q /\ u # q
    BY <1>1, <2>1, <2>2, <2>4
  <2>5. CASE p # q /\ u = q
    BY <1>1, <2>1, <2>2, <2>5
  <2> QED BY <2>3, <2>4, <2>5
<1>12. ExterneUnique'
  BY <1>1, <1>2 DEF ExterneUnique
<1>13. TraiteAdosse'
  BY <1>1, <1>2, <1>5 DEF TraiteAdosse, LignesDe, Numeros
<1> QED BY <1>6, <1>7, <1>10, <1>11, <1>12, <1>13 DEF IInv

\* An event leaves Kolabimo: nothing in Prometis moves.
LEMMA KolabimoInv ==
    ASSUME IInv, Kolabimo
    PROVE  IInv' /\ Stable
<1>1. /\ TypeOK /\ \A p \in Requetes : Suivi(p)
      /\ TraitementUnique /\ ExterneUnique /\ TraiteAdosse
  BY DEF IInv
<1>2. PICK m \in Message : Emettre(m)
  <2>1. ASSUME NEW d \in Dossiers, NEW c \in Contrats, NEW i \in Dossiers \cup {NUL},
               NEW x \in Externes \cup {NUL}, NEW s \in StatutsEmis, NEW p \in PrixEmis,
               NEW b \in BOOLEAN, EmettreDossier(d, c, i, x, s, p, b)
        PROVE  \E m \in Message : Emettre(m)
    <3> DEFINE m == [sujet |-> "dossier", contrat |-> c, id |-> i, ext |-> x,
                     statut |-> s, prix |-> p, signe |-> b]
    <3>1. Emettre(m) /\ Forme(d, c, i, x)
      BY <2>1 DEF EmettreDossier
    <3>2. m \in [sujet: {"dossier"}, contrat: {"kolabimo", "interne"},
                 id: Dossiers \cup {NUL}, ext: Externes \cup {NUL}, statut: StatutsEmis,
                 prix: Prix \cup {NUL}, signe: BOOLEAN]
      BY DomainesAssumption
    <3>3. m.id = i /\ m.ext = x
      OBVIOUS
    <3> HIDE DEF m
    <3>4. d # NUL /\ NUL \notin Externes /\ c \in {"kolabimo", "interne"}
      BY DomainesAssumption
    <3>5. Coherent(m)
      BY <3>1, <3>3, <3>4 DEF Coherent, Dossier, Forme
    <3>6. m \in Message
      BY <3>2, <3>5 DEF Message, MessageDossier
    <3> QED BY <3>1, <3>6
  <2>2. ASSUME NEW e \in Etapes, EmettreEtape(e)
        PROVE  \E m \in Message : Emettre(m)
    <3>1. [sujet |-> "etape", etape |-> e] \in Message
      BY DEF Message, MessageEtape
    <3> QED BY <2>2, <3>1 DEF EmettreEtape
  <2> QED BY <2>1, <2>2 DEF Kolabimo
<1>3. /\ emis' = Append(emis, m) /\ journal' = Append(journal, "ABSENT")
      /\ UNCHANGED <<raccord, lignes, closes, appels, req>>
  BY <1>2 DEF Emettre
<1>4. Len(emis) \in Nat /\ Len(journal) = Len(emis)
  BY <1>1, LenProperties DEF TypeOK
<1>5. /\ emis' \in Seq(Message) /\ Len(emis') = Len(emis) + 1
      /\ \A k \in 1 .. Len(emis) : emis'[k] = emis[k]
  BY <1>1, <1>3, AppendProperties DEF TypeOK
<1>6. /\ journal' \in Seq(Conclu \cup {"ABSENT", "RECU"}) /\ Len(journal') = Len(emis) + 1
      /\ \A k \in 1 .. Len(emis) : journal'[k] = journal[k]
      /\ journal'[Len(emis) + 1] = "ABSENT"
  BY <1>1, <1>3, <1>4, AppendProperties DEF TypeOK
<1>7. Numeros' = Numeros \cup {Len(emis) + 1}
  BY <1>4, <1>5 DEF Numeros
<1>8. TypeOK'
  BY <1>1, <1>3, <1>5, <1>6 DEF TypeOK
<1>9. Stable
  BY <1>3, <1>5, <1>6, <1>7 DEF Stable, Numeros
<1>10. \A p \in Requetes : Suivi(p)'
  BY <1>1, <1>3, <1>8, <1>9, SuiviStable
<1>11. TraitementUnique'
  <2>1. ASSUME NEW p \in Requetes, NEW n \in Numeros', Travaille(p, n)
        PROVE  n \in Numeros
    BY <1>1, <1>4, <1>7, <2>1 DEF Suivi, Travaille, EnTravail
  <2> QED BY <1>1, <1>3, <2>1 DEF TraitementUnique, Travaille
<1>12. ExterneUnique'
  BY <1>1, <1>3 DEF ExterneUnique
<1>13. TraiteAdosse'
  <2>1. ASSUME NEW n \in Numeros', journal'[n] = "TRAITE", emis'[n].sujet = "dossier"
        PROVE  LignesDe(n)' # {}
    <3>1. n \in Numeros
      BY <1>6, <1>7, <2>1
    <3> QED BY <1>1, <1>3, <1>5, <1>6, <2>1, <3>1 DEF TraiteAdosse, LignesDe, Numeros
  <2> QED BY <2>1 DEF TraiteAdosse
<1> QED BY <1>8, <1>9, <1>10, <1>11, <1>12, <1>13 DEF IInv

LEMMA StepInv ==
    ASSUME IInv, [Next]_vars
    PROVE  IInv' /\ Stable
<1>1. /\ TypeOK /\ \A p \in Requetes : Suivi(p)
      /\ ExterneUnique /\ TraiteAdosse
  BY DEF IInv
<1>2. ASSUME NEW q \in Requetes, Pas(q), UNCHANGED <<emis, journal>>,
             ~CreerDossier(q) => DOMAIN lignes' = DOMAIN lignes
      PROVE  IInv' /\ Stable
  <2>1. TypeOK' /\ Stable
    BY <1>2 DEF Pas
  <2>2. TraiteAdosse'
    BY <1>1, <1>2, <2>1, AdosseConserve
  <2>3. ExterneUnique'
    BY <1>1, <1>2, <2>1, ExterneConserve, PasCreerDossier
  <2> QED BY <1>2, <2>1, <2>2, <2>3, PasInv
<1>3. ASSUME NEW q \in Requetes, Conclure(q)
      PROVE  IInv' /\ Stable
  <2>1. Pas(q) /\ TraiteAdosse'
    BY <1>1, <1>3, PasConclure
  <2>2. UNCHANGED <<emis, lignes>>
    BY <1>3 DEF Conclure
  <2>3. ExterneUnique'
    BY <1>1, <2>2 DEF ExterneUnique
  <2> QED BY <2>1, <2>2, <2>3, PasInv DEF Pas
<1>4. ASSUME NEW q \in Requetes, Traiter(q), ~Conclure(q)
      PROVE  IInv' /\ Stable
  <2>1. UNCHANGED <<emis, journal>>
    BY <1>4 DEF Traiter, Illisible, SansLot, LireDossier, CreerDossier, ConflitExterne,
                Bloquer, MettreAJour, JalonSansSuite, LireJalon, Declencher, Echouer
  <2>2. ASSUME ~CreerDossier(q) PROVE DOMAIN lignes' = DOMAIN lignes
    BY <1>4, <2>2 DEF Traiter, Illisible, SansLot, LireDossier, ConflitExterne, Bloquer,
                      MettreAJour, JalonSansSuite, LireJalon, Declencher, Echouer
  <2> QED BY <1>1, <1>2, <1>4, <2>1, <2>2, PasTraiter
<1>5. ASSUME NEW q \in Requetes, Tirer(q)
      PROVE  IInv' /\ Stable
  <2>1. UNCHANGED <<emis, journal, lignes>>
    BY <1>5 DEF Tirer, TirerEcheancier, TirerReservations, AppliquerCatalogue, LireTire,
                FinReprise
  <2> QED BY <1>1, <1>2, <1>5, <2>1, PasTirer
<1>6. ASSUME NEW q \in Requetes, Entree(q)
      PROVE  IInv' /\ Stable
  <2>1. ASSUME NEW n \in Numeros, Rejouer(q, n)
        PROVE  IInv' /\ Stable
    <3>1. UNCHANGED <<emis, journal, lignes>>
      BY <2>1 DEF Rejouer
    <3> QED BY <1>1, <1>2, <2>1, <3>1, PasReprise
  <2>2. ASSUME Rattacher(q) \/ Synchroniser(q)
        PROVE  IInv' /\ Stable
    <3>1. UNCHANGED <<emis, journal, lignes>>
      BY <2>2 DEF Rattacher, Synchroniser
    <3> QED BY <1>1, <1>2, <2>2, <3>1, PasRaccord
  <2> QED BY <1>6, <2>1, <2>2, RecevoirInv DEF Entree
<1>7. ASSUME NEW q \in Requetes, Interrompre(q)
      PROVE  IInv' /\ Stable
  <2>1. Finir(q) /\ UNCHANGED <<emis, journal, raccord, lignes, closes, appels>>
    BY <1>7 DEF Interrompre
  <2> QED BY <1>1, <1>2, <2>1, PasLibre
<1>8. CASE UNCHANGED vars
  <2>1. IInv'
    BY <1>8 DEF vars, IInv, TypeOK, Suivi, Adosse, LignesDe, Numeros, TraitementUnique,
                Travaille, ExterneUnique, TraiteAdosse
  <2>2. Stable
    BY <1>8 DEF vars, Stable, Numeros
  <2> QED BY <2>1, <2>2
<1> QED BY <1>3, <1>4, <1>5, <1>6, <1>7, <1>8, KolabimoInv DEF Next, NextSansArret

LEMMA InitInv ==
    ASSUME Init
    PROVE  IInv
<1>1. Libre \in Requete /\ Libre.etat = "libre"
  BY DEF Libre, Requete
<1>2. \A q \in Requetes : req[q] = Libre
  BY DEF Init
<1>3. TypeOK
  BY <1>1 DEF Init, TypeOK
<1>4. Numeros = {} /\ DOMAIN lignes = {}
  BY DEF Init, Numeros
<1>5. \A q \in Requetes : Suivi(q)
  BY <1>1, <1>2 DEF Suivi, EnTravail
<1> QED BY <1>3, <1>4, <1>5 DEF IInv, TraitementUnique, ExterneUnique, TraiteAdosse

(***************************************************************************)
(* Theorems, for any number of requests at once                            *)
(***************************************************************************)
\* The invariant is inductive.
THEOREM Invariance == Spec => []IInv
<1>1. Init => IInv
  BY InitInv
<1>2. IInv /\ [Next]_vars => IInv'
  BY StepInv
<1> QED BY <1>1, <1>2, PTL DEF Spec

\* Every row, message and request in flight has its shape.
THEOREM TypeCorrect == Spec => []TypeOK
<1>1. IInv => TypeOK
  BY DEF IInv
<1> QED BY <1>1, Invariance, PTL

\* recevoir: an event is processed once, deliveries at the same time included.
THEOREM UnTraitement == Spec => []TraitementUnique
<1>1. IInv => TraitementUnique
  BY DEF IInv
<1> QED BY <1>1, Invariance, PTL

\* appliquerReservation: one row at most per externalId.
THEOREM UnExterne == Spec => []ExterneUnique
<1>1. IInv => ExterneUnique
  BY DEF IInv
<1> QED BY <1>1, Invariance, PTL

\* conclure: an event shown as applied has its reservation.
THEOREM TraiteEstLa == Spec => []TraiteAdosse
<1>1. IInv => TraiteAdosse
  BY DEF IInv
<1> QED BY <1>1, Invariance, PTL

\* planifierMiseAJour: a signed deed is never unsigned.
THEOREM ActeSigne == Spec => ActeDefinitif
<1>1. IInv /\ [Next]_vars => [\A l \in DOMAIN lignes : lignes[l].signe => lignes'[l].signe]_vars
  BY StepInv DEF Stable
<1> QED BY <1>1, Invariance, PTL DEF Spec, ActeDefinitif

\* appliquerReservation: when Kolabimo created every reservation through its
\* API, the unique externalId is enough for one row per reservation, even
\* with webhooks, replays and pulls at the same time.
THEOREM LigneUnique ==
    ASSUME Externes = Dossiers
    PROVE  Spec => []UneLigneParDossier
<1>1. IInv => UneLigneParDossier
  <2> SUFFICES ASSUME IInv, NEW k \in DOMAIN lignes, NEW l \in DOMAIN lignes,
                      NEW d \in Dossiers, d \in {lignes[k].id, lignes[k].ext},
                      d \in {lignes[l].id, lignes[l].ext}
               PROVE  k = l
    BY DEF UneLigneParDossier
  <2>1. lignes[k] \in Ligne /\ lignes[l] \in Ligne
    BY UneLigne DEF IInv
  <2>2. Coherent(lignes[k]) /\ Coherent(lignes[l]) /\ d # NUL
    BY <2>1, ChampsLigne, DomainesAssumption
  <2>3. lignes[k].ext = d /\ lignes[l].ext = d
    BY <2>2, Nomme
  <2> QED BY <2>2, <2>3 DEF IInv, ExterneUnique
<1> QED BY <1>1, Invariance, PTL

(***************************************************************************)
(* Requests that come one at a time                                        *)
(***************************************************************************)
UneALaFois == \A p, q \in Requetes : p = q

\* What a request read is what it would read.
Fraiche ==
    \A q \in Requetes : req[q].etat = "dossier" =>
        /\ req[q].ligne = 0 =>
              \A l \in DOMAIN lignes : Dossier(lignes[l]) # Dossier(req[q].m)
        /\ req[q].ligne # 0 => /\ req[q].lu = lignes[req[q].ligne]
                               /\ req[q].appele = Appelee(req[q].ligne)

ParDossier ==
    \A k, l \in DOMAIN lignes : Dossier(lignes[k]) = Dossier(lignes[l]) => k = l

SInv ==
    /\ IInv
    /\ Fraiche
    /\ ParDossier
    /\ AssietteTenue
    /\ AnnulationSansAppel

LEMMA LignesDistinctes ==
    ASSUME TypeOK
    PROVE  ParDossier <=> UneLigneParDossier
<1>1. ASSUME NEW k \in DOMAIN lignes, NEW l \in DOMAIN lignes
      PROVE  Dossier(lignes[k]) = Dossier(lignes[l]) <=>
                {lignes[k].id, lignes[k].ext} \cap {lignes[l].id, lignes[l].ext}
                    \cap Dossiers # {}
  <2>1. Coherent(lignes[k]) /\ Coherent(lignes[l]) /\ NUL \notin Dossiers
    BY UneLigne, ChampsLigne, DomainesAssumption
  <2> DEFINE A == {lignes[k].id, lignes[k].ext}
             B == {lignes[l].id, lignes[l].ext}
             c == Dossier(lignes[k])
             d == Dossier(lignes[l])
  <2>2. c \in A /\ d \in B /\ c \in Dossiers
    BY <2>1, Nomme DEF Dossier
  <2>3. ASSUME NEW x \in Dossiers
        PROVE  (x \in A => x = c) /\ (x \in B => x = d)
    BY <2>1, Nomme
  <2> HIDE DEF A, B, c, d
  <2>4. c = d => A \cap B \cap Dossiers # {}
    BY <2>2
  <2>5. A \cap B \cap Dossiers # {} => c = d
    BY <2>3
  <2> QED BY <2>4, <2>5 DEF A, B, c, d
<1>2. ASSUME ParDossier PROVE UneLigneParDossier
  <2> SUFFICES ASSUME NEW k \in DOMAIN lignes, NEW l \in DOMAIN lignes,
                      {lignes[k].id, lignes[k].ext} \cap {lignes[l].id, lignes[l].ext}
                          \cap Dossiers # {}
               PROVE  k = l
    BY DEF UneLigneParDossier
  <2>1. Dossier(lignes[k]) = Dossier(lignes[l])
    BY <1>1
  <2> QED BY <1>2, <2>1 DEF ParDossier
<1>3. ASSUME UneLigneParDossier PROVE ParDossier
  <2> SUFFICES ASSUME NEW k \in DOMAIN lignes, NEW l \in DOMAIN lignes,
                      Dossier(lignes[k]) = Dossier(lignes[l])
               PROVE  k = l
    BY DEF ParDossier
  <2>1. {lignes[k].id, lignes[k].ext} \cap {lignes[l].id, lignes[l].ext}
            \cap Dossiers # {}
    BY <1>1
  <2> QED BY <1>3, <2>1 DEF UneLigneParDossier
<1> QED BY <1>2, <1>3

\* A request that leaves rows and calls alone only has to read afresh.
LEMMA SerieLecture ==
    ASSUME UneALaFois, SInv, IInv', UNCHANGED <<lignes, appels>>, NEW q \in Requetes,
           Seul(q),
           req'[q].etat # "dossier" \/ req'[q] = req[q]
    PROVE  SInv'
<1>1. Fraiche'
  <2>1. CASE req'[q].etat # "dossier"
    BY <2>1 DEF Fraiche, UneALaFois
  <2>2. CASE req'[q] = req[q] /\ req[q].etat = "dossier"
    <3>1. Appelee(req[q].ligne)' = Appelee(req[q].ligne)
      BY <2>2 DEF Appelee
    <3> QED BY <2>2, <3>1 DEF SInv, Fraiche, UneALaFois
  <2> QED BY <2>1, <2>2
<1> QED BY <1>1 DEF SInv, ParDossier, AssietteTenue, AnnulationSansAppel

LEMMA SerieTrouve ==
    ASSUME UneALaFois, SInv, IInv', UNCHANGED <<lignes, appels>>, NEW q \in Requetes,
           NEW m \in MessageDossier, NEW n \in Nat, NEW b \in BOOLEAN,
           NEW R \in SUBSET MessageDossier, Trouver(q, m, n, b, R)
    PROVE  SInv'
<1>1. /\ TypeOK /\ req \in [Requetes -> Requete]
      /\ \A l \in DOMAIN lignes : lignes[l] \in Ligne /\ l # 0
  BY UneLigne DEF SInv, IInv, TypeOK
<1>2. CASE /\ \A l \in DOMAIN lignes : ~Meme(lignes[l], m)
           /\ req'[q].m = m /\ req'[q].ligne = 0
  <2>1. \A l \in DOMAIN lignes : Dossier(lignes[l]) # Dossier(m)
    BY <1>1, <1>2, MemeDossier
  <2>2. Fraiche'
    BY <1>2, <2>1 DEF Fraiche, UneALaFois
  <2> QED BY <2>2 DEF SInv, ParDossier, AssietteTenue, AnnulationSansAppel
<1>3. ASSUME NEW l \in DOMAIN lignes, req'[q].ligne = l, req'[q].lu = lignes[l],
             req'[q].appele = Appelee(l)
      PROVE  SInv'
  <2>1. Fraiche'
    BY <1>1, <1>3 DEF Fraiche, UneALaFois, Appelee
  <2> QED BY <2>1 DEF SInv, ParDossier, AssietteTenue, AnnulationSansAppel
<1> QED BY <1>1, <1>2, <1>3 DEF Trouver, Garder

LEMMA RenduHorsDossier ==
    ASSUME TypeOK, NEW q \in Requetes, NEW s \in Conclu, Rendre(q, s),
           req[q].etat \in {"traitement", "dossier", "jalon"}
    PROVE  Seul(q) /\ req'[q].etat # "dossier"
<1>1. Seul(q)
  BY Rendue
<1>2. CASE req'[q] = [etat |-> "reprise", reste |-> req[q].reste]
  BY <1>1, <1>2
<1>3. CASE req'[q] = [etat |-> "conclusion", n |-> req[q].n, rejeu |-> req[q].rejeu,
                      statut |-> s]
  BY <1>1, <1>3
<1> QED BY <1>1, <1>2, <1>3, Rendue

LEMMA SerieCreer ==
    ASSUME UneALaFois, SInv, IInv', NEW q \in Requetes, CreerDossier(q)
    PROVE  SInv'
<1>1. TypeOK /\ Suivi(q)
  BY DEF SInv, IInv
<1> DEFINE m == req[q].m
<1>2. PICK x \in Ligne :
         /\ Dossier(x) = Dossier(m)
         /\ DOMAIN lignes' = DOMAIN lignes \cup {Len(lignes) + 1}
         /\ lignes'[Len(lignes) + 1] = x
         /\ \A l \in DOMAIN lignes : lignes'[l] = lignes[l]
  BY <1>1, PasCreerDossier
<1>3. /\ req[q].etat = "dossier" /\ req[q].ligne = 0
      /\ Rendre(q, "TRAITE") /\ appels' = appels
  BY DEF CreerDossier, En
<1>8. \A l \in DOMAIN lignes : Dossier(lignes[l]) # Dossier(m)
  BY <1>3 DEF SInv, Fraiche
<1>9. ParDossier'
  BY <1>2, <1>8 DEF SInv, ParDossier
<1>10. req'[q].etat # "dossier"
  BY <1>1, <1>3, RenduHorsDossier DEF Conclu
<1>11. Fraiche'
  BY <1>10 DEF Fraiche, UneALaFois
<1>12. \A a \in appels : a.ligne \in DOMAIN lignes
  BY <1>1 DEF TypeOK
<1>13. AssietteTenue' /\ AnnulationSansAppel'
  BY <1>2, <1>3, <1>12 DEF SInv, AssietteTenue, AnnulationSansAppel
<1> QED BY <1>9, <1>11, <1>13 DEF SInv

LEMMA SerieMettreAJour ==
    ASSUME UneALaFois, SInv, IInv', NEW q \in Requetes, MettreAJour(q)
    PROVE  SInv'
<1>1. TypeOK /\ Suivi(q) /\ req[q].etat = "dossier" /\ req[q].ligne # 0
  BY DEF SInv, IInv, MettreAJour, En
<1>2. Stable
  BY <1>1, PasMettreAJour DEF Pas
<1> DEFINE k == req[q].ligne
<1>3. k \in DOMAIN lignes /\ req[q].lu = lignes[k] /\ req[q].appele = Appelee(k)
  BY <1>1 DEF SInv, Fraiche, Suivi
<1>4. lignes \in [DOMAIN lignes -> Ligne] /\ lignes[k] \in Ligne
  BY <1>1, <1>3, UneLigne DEF TypeOK
<1>5. /\ DOMAIN lignes' = DOMAIN lignes /\ appels' = appels /\ Rendre(q, "TRAITE")
      /\ \A l \in DOMAIN lignes : l # k => lignes'[l] = lignes[l]
      /\ Appelee(k) => lignes'[k].prix = lignes[k].prix
      /\ Appelee(k) => lignes'[k].statut # "ANNULEE"
  <2> DEFINE m == req[q].m
             x == [id |-> Donne(m.id, lignes[k].id), ext |-> lignes[k].ext,
                   statut |-> IF m.statut = req[q].lu.statut THEN lignes[k].statut
                              ELSE m.statut,
                   prix |-> IF (req[q].appele \/ req[q].lu.signe) \/ m.prix = req[q].lu.prix
                            THEN lignes[k].prix ELSE Donne(m.prix, lignes[k].prix),
                   signe |-> lignes[k].signe \/ m.signe]
  <2>1. /\ lignes' = [lignes EXCEPT ![k] = x]
        /\ appels' = appels /\ Rendre(q, "TRAITE")
        /\ ~(m.statut = "ANNULEE" /\ req[q].appele)
    BY DEF MettreAJour, Bloquee
  <2>2. req[q].appele => x.prix = lignes[k].prix
    OBVIOUS
  <2>3. x.statut = m.statut
    BY <1>3
  <2>4. req[q].appele => x.statut # "ANNULEE"
    BY <2>1, <2>3
  <2> HIDE DEF x, k
  <2>5. lignes'[k] = x /\ DOMAIN lignes' = DOMAIN lignes
    BY <1>3, <2>1
  <2>6. \A l \in DOMAIN lignes : l # k => lignes'[l] = lignes[l]
    BY <2>1
  <2> QED BY <1>3, <2>1, <2>2, <2>4, <2>5, <2>6
<1> HIDE DEF k
<1>6. ParDossier'
  BY <1>2, <1>5 DEF SInv, ParDossier, Stable
<1>7. req'[q].etat # "dossier"
  BY <1>1, <1>5, RenduHorsDossier DEF Conclu
<1>8. Fraiche'
  BY <1>7 DEF Fraiche, UneALaFois
<1>9. \A a \in appels : a.ligne \in DOMAIN lignes /\ (a.ligne = k => Appelee(k))
  BY <1>1 DEF TypeOK, Appelee
<1>10. AssietteTenue' /\ AnnulationSansAppel'
  BY <1>5, <1>9 DEF SInv, AssietteTenue, AnnulationSansAppel
<1> QED BY <1>6, <1>8, <1>10 DEF SInv

LEMMA SerieDeclencher ==
    ASSUME UneALaFois, SInv, IInv', NEW q \in Requetes, Declencher(q)
    PROVE  SInv'
<1>1. TypeOK /\ req[q].etat = "jalon"
  BY DEF SInv, IInv, Declencher, En
<1>2. Rendre(q, "TRAITE") /\ lignes' = lignes
  BY DEF Declencher
<1>3. req'[q].etat # "dossier"
  BY <1>1, <1>2, RenduHorsDossier DEF Conclu
<1>4. Fraiche'
  BY <1>3 DEF Fraiche, UneALaFois
<1>5. ASSUME NEW a \in appels', a \notin appels
      PROVE  a.prix = lignes[a.ligne].prix /\ lignes[a.ligne].statut # "ANNULEE"
  <2>1. PICK l \in DOMAIN lignes :
           /\ lignes[l].statut \in StatutsEngages
           /\ a = [ligne |-> l, etape |-> emis[req[q].n].etape, prix |-> lignes[l].prix]
    BY <1>5 DEF Declencher
  <2> QED BY <2>1 DEF StatutsEngages
<1>6. AssietteTenue' /\ AnnulationSansAppel'
  BY <1>2, <1>5 DEF SInv, AssietteTenue, AnnulationSansAppel
<1> QED BY <1>2, <1>4, <1>6 DEF SInv, ParDossier

LEMMA StepSerie ==
    ASSUME UneALaFois, SInv, [Next]_vars
    PROVE  SInv'
<1>1. IInv' /\ IInv
  BY StepInv DEF SInv
<1>2. TypeOK /\ \A q \in Requetes : Suivi(q)
  BY <1>1 DEF IInv
<1>3. ASSUME NEW q \in Requetes, Finir(q)
      PROVE  Seul(q) /\ req'[q].etat # "dossier"
  BY <1>2, <1>3, Finie DEF TypeOK, Libre
<1>4. ASSUME NEW q \in Requetes, Pas(q), UNCHANGED <<lignes, appels>>,
             req'[q].etat # "dossier"
      PROVE  SInv'
  BY <1>1, <1>4, SerieLecture DEF Pas
<1>5. ASSUME Kolabimo
      PROVE  SInv'
  <2>1. UNCHANGED <<lignes, appels, req>>
    BY <1>5 DEF Kolabimo, EmettreDossier, EmettreEtape, Emettre
  <2>2. Fraiche'
    BY <2>1 DEF SInv, Fraiche, Appelee
  <2> QED BY <1>1, <2>1, <2>2 DEF SInv, ParDossier, AssietteTenue, AnnulationSansAppel
<1>6. CASE UNCHANGED vars
  <2>1. UNCHANGED <<lignes, appels, req>>
    BY <1>6 DEF vars
  <2>2. Fraiche'
    BY <2>1 DEF SInv, Fraiche, Appelee
  <2> QED BY <1>1, <2>1, <2>2 DEF SInv, ParDossier, AssietteTenue, AnnulationSansAppel
<1>7. ASSUME NEW q \in Requetes, Interrompre(q)
      PROVE  SInv'
  <2>1. Finir(q) /\ UNCHANGED <<lignes, appels>>
    BY <1>7 DEF Interrompre
  <2> QED BY <1>1, <1>3, <2>1, SerieLecture
<1>8. ASSUME NEW q \in Requetes, Entree(q)
      PROVE  SInv'
  <2>1. UNCHANGED <<lignes, appels>> /\ Seul(q)
    BY <1>2, <1>8 DEF Entree, Recevoir, Rejouer, Rattacher, Synchroniser, Garder, Seul, TypeOK
  <2>2. req'[q].etat # "dossier"
    BY <1>2, <1>8 DEF Entree, Recevoir, Rejouer, Rattacher, Synchroniser, Garder, Tirage, TypeOK
  <2> QED BY <1>1, <2>1, <2>2, SerieLecture
<1>9. ASSUME NEW q \in Requetes, Tirer(q)
       PROVE  SInv'
  <2>1. ASSUME NEW m \in req[q].reste, En(q, "reprise"), LireTire(q, m)
        PROVE  SInv'
    <3>1. req[q].reste \in SUBSET MessageDossier
      BY <1>2, <2>1, FormeRequete DEF En, TypeOK
    <3>2. m \in MessageDossier /\ req[q].reste \ {m} \in SUBSET MessageDossier
      BY <3>1
    <3>3. Trouver(q, m, 0, FALSE, req[q].reste \ {m}) /\ UNCHANGED <<lignes, appels>>
      BY <2>1 DEF LireTire
    <3> QED BY <1>1, <3>2, <3>3, SerieTrouve
  <2>2. ASSUME FinReprise(q)
        PROVE  SInv'
    <3>1. Finir(q) /\ UNCHANGED <<lignes, appels>>
      BY <2>2 DEF FinReprise
    <3> QED BY <1>1, <1>3, <3>1, SerieLecture
  <2>3. ASSUME TirerEcheancier(q) \/ TirerReservations(q) \/ AppliquerCatalogue(q)
        PROVE  SInv'
    <3>1. UNCHANGED <<lignes, appels>> /\ Pas(q)
      BY <1>2, <2>3, PasTirer
         DEF Tirer, TirerEcheancier, TirerReservations, AppliquerCatalogue
    <3>2. req[q] \in Requete /\ req[q].etat = "tirage"
      BY <1>2, <2>3 DEF TirerEcheancier, TirerReservations, AppliquerCatalogue, En, TypeOK
    <3>3. req[q] = [etat |-> "tirage", faites |-> req[q].faites, dossiers |-> req[q].dossiers]
      BY <3>2 DEF Requete
    <3>4. req'[q].etat # "dossier"
      BY <1>2, <2>3, <3>2, <3>3
         DEF TirerEcheancier, TirerReservations, AppliquerCatalogue, Garder, TypeOK
    <3> QED BY <1>4, <3>1, <3>4
  <2> QED BY <1>9, <2>1, <2>2, <2>3 DEF Tirer
<1>10. ASSUME NEW q \in Requetes, Traiter(q)
       PROVE  SInv'
  <2>1. ASSUME LireDossier(q)
        PROVE  SInv'
    <3>1. req[q].etat = "traitement" /\ emis[req[q].n].sujet = "dossier"
      BY <2>1 DEF LireDossier, En
    <3>2. /\ req[q].n \in Nat /\ req[q].rejeu \in BOOLEAN
          /\ emis[req[q].n] \in MessageDossier
      BY <1>2, <3>1, EnCours, UnMessage DEF EnTravail
    <3>3. /\ Trouver(q, emis[req[q].n], req[q].n, req[q].rejeu, {})
          /\ UNCHANGED <<lignes, appels>> /\ {} \in SUBSET MessageDossier
      BY <2>1 DEF LireDossier
    <3> QED BY <1>1, <3>2, <3>3, SerieTrouve
  <2>2. ASSUME Conclure(q)
        PROVE  SInv'
    <3>1. Finir(q) /\ UNCHANGED <<lignes, appels>>
      BY <2>2 DEF Conclure
    <3> QED BY <1>1, <1>3, <3>1, SerieLecture
  <2>3. ASSUME Illisible(q) \/ SansLot(q) \/ ConflitExterne(q) \/ Bloquer(q)
                  \/ Echouer(q) \/ JalonSansSuite(q)
        PROVE  SInv'
    <3>1. UNCHANGED <<lignes, appels>>
      BY <2>3 DEF Illisible, SansLot, ConflitExterne, Bloquer, Echouer, JalonSansSuite
    <3>2. PICK s \in Conclu : Rendre(q, s)
      BY <2>3 DEF Illisible, SansLot, ConflitExterne, Bloquer, Echouer, JalonSansSuite, Conclu
    <3>3. req[q].etat \in {"traitement", "dossier", "jalon"}
      BY <2>3 DEF Illisible, SansLot, ConflitExterne, Bloquer, Echouer, JalonSansSuite, En
    <3>4. req'[q].etat # "dossier" /\ Seul(q)
      BY <1>2, <3>2, <3>3, RenduHorsDossier
    <3> QED BY <1>1, <3>1, <3>4, SerieLecture
  <2>4. ASSUME LireJalon(q)
        PROVE  SInv'
    <3>1. UNCHANGED <<lignes, appels>> /\ Pas(q)
      BY <1>2, <2>4, PasTraiter DEF Traiter, LireJalon
    <3>2. req'[q].etat # "dossier"
      BY <1>2, <2>4 DEF LireJalon, Garder, TypeOK
    <3> QED BY <1>4, <3>1, <3>2
  <2> QED BY <1>1, <1>10, <2>1, <2>2, <2>3, <2>4, SerieCreer, SerieMettreAJour,
             SerieDeclencher
          DEF Traiter
<1> QED BY <1>5, <1>6, <1>7, <1>8, <1>9, <1>10 DEF Next, NextSansArret

\* Whatever the order of webhooks, replays and pulls, failures and stops
\* included, requests that come one at a time keep rows and calls coherent.
THEOREM SerieInvariante ==
    ASSUME UneALaFois
    PROVE  Spec => []SInv
<1>1. Init => SInv
  <2> SUFFICES ASSUME Init PROVE SInv
    OBVIOUS
  <2>1. DOMAIN lignes = {} /\ appels = {} /\ \A q \in Requetes : req[q].etat = "libre"
    BY DEF Init, Libre
  <2> QED BY <2>1, InitInv DEF SInv, Fraiche, ParDossier, AssietteTenue, AnnulationSansAppel
<1>2. SInv /\ [Next]_vars => SInv'
  BY StepSerie
<1> QED BY <1>1, <1>2, PTL DEF Spec

\* appliquerReservation: one row per reservation of Kolabimo.
THEOREM UneLigneChacun ==
    ASSUME UneALaFois
    PROVE  Spec => []UneLigneParDossier
<1>1. SInv => UneLigneParDossier
  BY LignesDistinctes DEF SInv, IInv
<1> QED BY <1>1, SerieInvariante, PTL

\* planifierMiseAJour: the price a call was issued on stays that of its row.
THEOREM PrixTenu ==
    ASSUME UneALaFois
    PROVE  Spec => []AssietteTenue
<1>1. SInv => AssietteTenue
  BY DEF SInv
<1> QED BY <1>1, SerieInvariante, PTL

\* planifierMiseAJour: no reservation is cancelled under its calls.
THEOREM AnnulationRetenue ==
    ASSUME UneALaFois
    PROVE  Spec => []AnnulationSansAppel
<1>1. SInv => AnnulationSansAppel
  BY DEF SInv
<1> QED BY <1>1, SerieInvariante, PTL

(***************************************************************************)
(* Events received and replayed in their order                             *)
(***************************************************************************)
\* The rows of an event are those that name its reservation.
LEMMA LignesDuDossier ==
    ASSUME TypeOK, NEW n \in Numeros, emis[n].sujet = "dossier"
    PROVE  LignesDe(n) = {l \in DOMAIN lignes : Dossier(lignes[l]) = Dossier(emis[n])}
<1>1. emis[n] \in MessageDossier
  BY Emission, UnMessage
<1>2. \A l \in DOMAIN lignes : Dossier(emis[n]) \in {lignes[l].id, lignes[l].ext}
                                  <=> Dossier(lignes[l]) = Dossier(emis[n])
  BY <1>1, UneLigne, MemeDossier
<1> QED BY <1>2 DEF LignesDe

\* An event Prometis shows still shows once its step, or its row, is kept.
LEMMA FideleConserve ==
    ASSUME TypeOK, TypeOK', Stable, emis' = emis, NEW n \in Numeros, Fidele(n),
           closes \subseteq closes',
           \A l \in DOMAIN lignes :
               Dossier(lignes[l]) = Dossier(emis[n]) => lignes'[l].statut = lignes[l].statut
    PROVE  Fidele(n)'
<1>1. emis'[n] = emis[n] /\ n \in Numeros'
  BY DEF Numeros
<1>2. CASE emis[n].sujet = "etape"
  BY <1>1, <1>2 DEF Fidele
<1>3. CASE emis[n].sujet # "etape"
  <2>1. emis[n].sujet = "dossier"
    BY <1>3, Emission, UnMessage
  <2>2. PICK l \in LignesDe(n) : /\ lignes[l].statut = emis[n].statut
                                 /\ emis[n].signe => lignes[l].signe
    BY <1>3 DEF Fidele
  <2>3. l \in DOMAIN lignes /\ Dossier(lignes[l]) = Dossier(emis[n])
    BY <2>1, <2>2, LignesDuDossier
  <2>4. /\ l \in DOMAIN lignes' /\ Dossier(lignes'[l]) = Dossier(emis[n])
        /\ lignes'[l].statut = emis[n].statut
        /\ emis[n].signe => lignes'[l].signe
    BY <2>2, <2>3 DEF Stable
  <2>5. emis[n] \in MessageDossier /\ lignes'[l] \in Ligne
    BY <2>1, <2>4, Emission, UnMessage, ElementOfSeq, LenProperties DEF TypeOK
  <2>6. l \in LignesDe(n)'
    BY <1>1, <2>4, <2>5, MemeDossier DEF LignesDe
  <2> QED BY <1>1, <1>3, <2>4, <2>6 DEF Fidele
<1> QED BY <1>2, <1>3

\* A step that leaves the mirror and the journal alone only has to leave its
\* request with what it must know.
LEMMA MiroirInchange ==
    ASSUME UneALaFois, MiroirInv, UNCHANGED <<emis, journal, lignes, closes>>,
           NEW q \in Requetes, Averti(q)'
    PROVE  MiroirInv'
<1>1. AppliquesFideles'
  BY DEF MiroirInv, AppliquesFideles, Numeros, Dernier, Fidele, LignesDe
<1>2. RecusDansLOrdre'
  BY DEF MiroirInv, RecusDansLOrdre, Numeros
<1> QED BY <1>1, <1>2 DEF MiroirInv, UneALaFois

\* A request that gives its result back knows what it knew.
LEMMA RenduAverti ==
    ASSUME TypeOK, NEW q \in Requetes, Averti(q), NEW s \in Conclu, Rendre(q, s),
           req[q].etat \in {"traitement", "dossier", "jalon"},
           UNCHANGED <<emis, journal>>,
           \A n \in Numeros : n = req[q].n /\ s = "TRAITE" /\ Dernier(n) => Fidele(n)',
           Suivi(q)
    PROVE  Averti(q)'
<1>1. CASE /\ req[q].etat = "dossier" /\ req[q].n = 0
           /\ req'[q] = [etat |-> "reprise", reste |-> req[q].reste]
  <2>1. \A m \in req'[q].reste : AJour(m)
    BY <1>1 DEF Averti
  <2>2. req'[q].etat = "reprise"
    BY <1>1
  <2> QED BY <2>1, <2>2 DEF Averti, AJour, Numeros, Dernier
<1>2. CASE /\ ~(req[q].etat = "dossier" /\ req[q].n = 0)
           /\ req'[q] = [etat |-> "conclusion", n |-> req[q].n,
                         rejeu |-> req[q].rejeu, statut |-> s]
  <2>1. PICK n \in Numeros : n = req[q].n
    BY <1>2, EnCours DEF EnTravail
  <2>2. /\ req'[q].etat = "conclusion" /\ req'[q].n = n /\ req'[q].statut = s
    BY <1>2, <2>1
  <2>3. PlusRecent(n)
    BY <1>2, <2>1, Emission DEF Averti
  <2>4. PlusRecent(n)' /\ (Dernier(n)' <=> Dernier(n))
    BY <2>3 DEF PlusRecent, Dernier, Numeros
  <2>5. s = "TRAITE" /\ Dernier(n) => Fidele(n)'
    BY <2>1
  <2> HIDE DEF Averti
  <2>6. PlusRecent(req[q].n)'
    BY <2>2, <2>4 DEF PlusRecent, Numeros
  <2>7. s = "TRAITE" /\ Dernier(req[q].n)' => Fidele(req[q].n)'
    BY <2>2, <2>4, <2>5 DEF Dernier, Fidele, Numeros, LignesDe
  <2> QED BY <2>2, <2>6, <2>7 DEF Averti
<1> QED BY <1>1, <1>2, Rendue

\* Rows or steps were written for the request's event, or for a reservation
\* it pulled.
LEMMA MiroirEcrit ==
    ASSUME UneALaFois, TypeOK, MiroirInv, NEW q \in Requetes, Suivi(q),
           Rendre(q, "TRAITE"), req[q].etat \in {"traitement", "dossier", "jalon"},
           UNCHANGED <<emis, journal>>,
           AppliquesFideles',
           \A n \in Numeros : n = req[q].n /\ Dernier(n) => Fidele(n)'
    PROVE  MiroirInv'
<1>1. Averti(q)'
  BY RenduAverti DEF MiroirInv, Conclu
<1>2. RecusDansLOrdre'
  BY DEF MiroirInv, RecusDansLOrdre, Numeros
<1> QED BY <1>1, <1>2 DEF MiroirInv, UneALaFois

LEMMA MiroirKolabimo ==
    ASSUME IInv, MiroirInv, Kolabimo
    PROVE  MiroirInv'
<1>1. TypeOK /\ Stable /\ \A q \in Requetes : Suivi(q)
  BY KolabimoInv DEF IInv
<1>2. PICK m : emis' = Append(emis, m) /\ journal' = Append(journal, "ABSENT")
  BY DEF Kolabimo, EmettreDossier, EmettreEtape, Emettre
<1>3. UNCHANGED <<lignes, closes, req>>
  BY DEF Kolabimo, EmettreDossier, EmettreEtape, Emettre
<1>4. /\ Len(emis) \in Nat /\ Len(journal) = Len(emis)
      /\ Numeros = 1 .. Len(emis) /\ Numeros' = 1 .. (Len(emis) + 1)
      /\ \A k \in Numeros : emis'[k] = emis[k] /\ journal'[k] = journal[k]
      /\ journal'[Len(emis) + 1] = "ABSENT"
  BY <1>1, <1>2 DEF TypeOK, Numeros
<1>5. \A n \in Numeros : Dernier(n)' => Dernier(n)
  BY <1>4 DEF Dernier
<1>6. \A n \in Numeros : Fidele(n) => Fidele(n)'
  BY <1>3, <1>4 DEF Fidele, LignesDe
<1>7. AppliquesFideles'
  BY <1>4, <1>5, <1>6 DEF MiroirInv, AppliquesFideles
<1>8. RecusDansLOrdre'
  BY <1>4 DEF MiroirInv, RecusDansLOrdre
<1>9. ASSUME NEW x, AJour(x) PROVE AJour(x)'
  BY <1>4, <1>5, <1>9 DEF AJour
<1>10. \A n \in Numeros : PlusRecent(n) => PlusRecent(n)'
  BY <1>4 DEF PlusRecent
<1>11. ASSUME NEW q \in Requetes PROVE Averti(q)'
  <2> DEFINE r == req[q]
  <2>1. Averti(q) /\ req'[q] = r
    BY <1>3 DEF MiroirInv
  <2>2. CASE r.etat \in EnTravail /\ r.n # 0
    <3>1. PICK n \in Numeros : n = r.n
      BY <1>1, <2>2 DEF Suivi
    <3>2. PlusRecent(n) /\ (r.etat = "conclusion" /\ r.statut = "TRAITE" /\ Dernier(n)
                              => Fidele(n))
      BY <2>1, <2>2, <3>1 DEF Averti, EnTravail
    <3>3. PlusRecent(n)' /\ (r.etat = "conclusion" /\ r.statut = "TRAITE" /\ Dernier(n)'
                              => Fidele(n)')
      BY <1>5, <1>6, <1>10, <3>2
    <3>4. PlusRecent(req[q].n)'
      BY <2>1, <3>1, <3>3 DEF PlusRecent
    <3>5. r.etat = "conclusion" /\ r.statut = "TRAITE" /\ Dernier(req[q].n)'
             => Fidele(req[q].n)'
      BY <2>1, <3>1, <3>3 DEF Dernier, Fidele, LignesDe
    <3>6. r.etat = "dossier" => \A x \in r.reste : AJour(x)'
      BY <1>9, <2>1 DEF Averti
    <3> QED BY <2>1, <2>2, <3>4, <3>5, <3>6 DEF Averti, EnTravail
  <2>3. CASE r.etat = "dossier" /\ r.n = 0
    <3>1. PICK x : x = r.m
      OBVIOUS
    <3>2. AJour(x)'
      BY <1>9, <2>1, <2>3, <3>1 DEF Averti
    <3>3. AJour(req[q].m)'
      BY <2>1, <3>1, <3>2 DEF AJour
    <3>4. \A y \in r.reste : AJour(y)'
      BY <1>9, <2>1, <2>3 DEF Averti
    <3> QED BY <2>1, <2>3, <3>3, <3>4 DEF Averti
  <2>4. CASE r.etat = "reprise"
    <3>1. \A y \in r.reste : AJour(y)'
      BY <1>9, <2>1, <2>4 DEF Averti
    <3> QED BY <2>1, <2>4, <3>1 DEF Averti
  <2>5. CASE r.etat = "tirage"
    <3>1. \A D \in r.dossiers : \A y \in D : AJour(y)'
      BY <1>9, <2>1, <2>5 DEF Averti
    <3>2. \A F \in r.faites : \A n \in Numeros' :
             journal'[n] = "TRAITE" /\ emis'[n].sujet = "etape" => emis'[n].etape \in F
      BY <1>4, <2>1, <2>5 DEF Averti
    <3> QED BY <2>1, <2>5, <3>1, <3>2 DEF Averti
  <2>6. CASE r.etat = "libre"
    BY <2>1, <2>6 DEF Averti
  <2>7. r.etat \in {"libre", "tirage", "reprise"} \cup EnTravail
    BY <1>1 DEF TypeOK, Requete, EnTravail
  <2>8. r.n = 0 /\ r.etat \in EnTravail => r.etat = "dossier"
    BY <1>1 DEF Suivi, Numeros
  <2> QED BY <2>2, <2>3, <2>4, <2>5, <2>6, <2>7, <2>8
<1> QED BY <1>7, <1>8, <1>11 DEF MiroirInv

LEMMA MiroirRecevoir ==
    ASSUME UneALaFois, EnOrdre, IInv, MiroirInv, NEW q \in Requetes, NEW n \in Numeros,
           Recevoir(q, n)
    PROVE  MiroirInv'
<1>1. TypeOK
  BY DEF IInv
<1>2. /\ journal[n] = "ABSENT" /\ \A k \in 1 .. n - 1 : journal[k] # "ABSENT"
      /\ journal' = [journal EXCEPT ![n] = "RECU"]
      /\ Garder(q, [etat |-> "traitement", n |-> n, rejeu |-> FALSE])
      /\ UNCHANGED <<emis, lignes, closes>>
  BY DEF Recevoir
<1>3. journal'[n] = "RECU" /\ \A k \in Numeros : k # n => journal'[k] = journal[k]
  BY <1>1, <1>2, JournalEcrit
<1>4. req'[q].etat = "traitement" /\ req'[q].n = n
  BY <1>1, <1>2 DEF Garder, TypeOK
<1>5. AppliquesFideles'
  BY <1>2, <1>3 DEF MiroirInv, AppliquesFideles, Numeros, Dernier, Fidele, LignesDe
<1>6. RecusDansLOrdre'
  <2> SUFFICES ASSUME NEW i \in Numeros, NEW j \in Numeros, i < j, journal'[i] = "ABSENT"
               PROVE  journal'[j] = "ABSENT"
    BY <1>2 DEF RecusDansLOrdre, Numeros
  <2>1. i # n /\ journal[i] = "ABSENT"
    BY <1>3
  <2>2. j # n
    BY <1>2, <2>1 DEF Numeros
  <2> QED BY <1>3, <2>1, <2>2 DEF MiroirInv, RecusDansLOrdre
<1>7. PlusRecent(n)'
  <2>1. \A k \in Numeros : k > n => k # n /\ journal[k] = "ABSENT"
    BY <1>2 DEF MiroirInv, RecusDansLOrdre, Numeros
  <2> QED BY <1>2, <1>3, <2>1 DEF PlusRecent, Numeros
<1>8. Averti(q)'
  BY <1>4, <1>7 DEF Averti, PlusRecent
<1> QED BY <1>5, <1>6, <1>8 DEF MiroirInv, UneALaFois

LEMMA MiroirConclure ==
    ASSUME UneALaFois, IInv, MiroirInv, NEW q \in Requetes, Conclure(q)
    PROVE  MiroirInv'
<1>1. TypeOK /\ Suivi(q) /\ req[q].etat = "conclusion" /\ req[q] \in Requete
  BY DEF IInv, Conclure, En, TypeOK
<1>2. PICK n \in Numeros : n = req[q].n /\ n # 0 /\ journal[n] # "ABSENT"
  BY <1>1, EnCours DEF EnTravail
<1>3. PICK s \in Conclu : s = req[q].statut
  BY <1>1, FormeRequete
<1>4. /\ journal' = [journal EXCEPT ![n] = s] /\ Finir(q)
      /\ UNCHANGED <<emis, lignes, closes>>
  BY <1>2, <1>3 DEF Conclure
<1>5. journal'[n] = s /\ \A k \in Numeros : k # n => journal'[k] = journal[k]
  BY <1>1, <1>4, JournalEcrit
<1>6. s = "TRAITE" /\ Dernier(n) => Fidele(n)
  BY <1>1, <1>2, <1>3 DEF MiroirInv, Averti
<1>7. AppliquesFideles'
  <2>1. ASSUME NEW k \in Numeros, journal'[k] = "TRAITE", Dernier(k)
        PROVE  Fidele(k)
    BY <1>5, <1>6, <2>1 DEF MiroirInv, AppliquesFideles
  <2> QED BY <1>4, <2>1 DEF AppliquesFideles, Numeros, Dernier, Fidele, LignesDe
<1>8. RecusDansLOrdre'
  BY <1>2, <1>4, <1>5 DEF MiroirInv, RecusDansLOrdre, Numeros, Conclu
<1>9. req'[q].etat = "libre"
  BY <1>1, <1>4, Finie DEF TypeOK, Libre
<1>10. Averti(q)'
  BY <1>9 DEF Averti
<1> QED BY <1>7, <1>8, <1>10 DEF MiroirInv, UneALaFois

\* A request takes up an event, or a reservation it pulled: it knows what the
\* event, or the pull, knows.
LEMMA MiroirTrouve ==
    ASSUME UneALaFois, TypeOK, MiroirInv, UNCHANGED <<emis, journal, lignes, closes>>,
           NEW q \in Requetes, NEW m, NEW n \in Nat, NEW b, NEW R, Trouver(q, m, n, b, R),
           n # 0 => PlusRecent(n),
           n = 0 => AJour(m),
           \A x \in R : AJour(x)
    PROVE  MiroirInv'
<1>1. /\ req'[q].etat = "dossier" /\ req'[q].n = n /\ req'[q].m = m /\ req'[q].reste = R
  BY DEF Trouver, Garder, TypeOK
<1>2. n # 0 => PlusRecent(req[q].n)'
  BY <1>1 DEF PlusRecent, Numeros
<1>3. n = 0 => AJour(req[q].m)'
  BY <1>1 DEF AJour, Numeros, Dernier
<1>4. \A x \in R : AJour(x)'
  BY DEF AJour, Numeros, Dernier
<1>5. Averti(q)'
  BY <1>1, <1>2, <1>3, <1>4 DEF Averti
<1> QED BY <1>5, MiroirInchange

\* What Kolabimo answers is the last it has emitted.
LEMMA ReponseAJour ==
    ASSUME TypeOK, NEW m \in DossiersVus
    PROVE  AJour(m)
<1>1. PICK n \in Numeros :
         /\ emis[n].sujet = "dossier" /\ Dernier(n)
         /\ m = [sujet |-> "dossier", contrat |-> "kolabimo", id |-> Dossier(emis[n]),
                 ext |-> IF Dossier(emis[n]) \in Externes THEN Dossier(emis[n]) ELSE NUL,
                 statut |-> emis[n].statut, prix |-> NUL, signe |-> emis[n].signe]
  BY DEF DossiersVus
<1>2. Dossier(emis[n]) # NUL
  BY <1>1, Emission, UnMessage, UnDossier, Nomme
<1>3. m.statut = emis[n].statut /\ Dossier(m) = Dossier(emis[n])
  BY <1>1, <1>2 DEF Dossier
<1>4. ASSUME NEW k \in Numeros, Dernier(k), emis[k].sujet = "dossier",
             Dossier(emis[k]) = Dossier(m)
      PROVE  k = n
  <2>1. Sujet(emis[k]) = Sujet(emis[n])
    BY <1>1, <1>3, <1>4 DEF Sujet
  <2>2. k \in Int /\ n \in Int
    BY DEF Numeros
  <2> QED BY <1>1, <1>4, <2>1, <2>2 DEF Dernier
<1> QED BY <1>3, <1>4 DEF AJour

LEMMA MiroirTirage ==
    ASSUME UneALaFois, IInv, MiroirInv, NEW q \in Requetes,
           TirerEcheancier(q) \/ TirerReservations(q) \/ AppliquerCatalogue(q)
    PROVE  MiroirInv'
<1>1. TypeOK /\ req[q] \in Requete /\ req[q].etat = "tirage" /\ Averti(q)
  BY DEF IInv, TypeOK, TirerEcheancier, TirerReservations, AppliquerCatalogue, En, MiroirInv
<1>2. req[q] = [etat |-> "tirage", faites |-> req[q].faites, dossiers |-> req[q].dossiers]
  BY <1>1 DEF Requete
<1>3. /\ \A D \in req[q].dossiers : \A m \in D : AJour(m)
      /\ \A F \in req[q].faites : \A n \in Numeros :
            journal[n] = "TRAITE" /\ emis[n].sujet = "etape" => emis[n].etape \in F
  BY <1>1 DEF Averti
<1>4. ASSUME TirerEcheancier(q)
      PROVE  MiroirInv'
  <2>1. /\ req' = [req EXCEPT ![q] = [req[q] EXCEPT !.faites = {EtapesFaites}]]
        /\ UNCHANGED <<emis, journal, lignes, closes>>
    BY <1>4 DEF TirerEcheancier, Garder
  <2>2. /\ req'[q].etat = "tirage" /\ req'[q].faites = {EtapesFaites}
        /\ req'[q].dossiers = req[q].dossiers
    BY <1>1, <1>2, <2>1 DEF TypeOK
  <2>3. \A D \in req'[q].dossiers : \A m \in D : AJour(m)'
    BY <1>3, <2>1, <2>2 DEF AJour, Numeros, Dernier
  <2>4. \A F \in req'[q].faites : \A n \in Numeros' :
            journal'[n] = "TRAITE" /\ emis'[n].sujet = "etape" => emis'[n].etape \in F
    BY <2>1, <2>2 DEF EtapesFaites, Numeros
  <2>5. Averti(q)'
    BY <2>2, <2>3, <2>4 DEF Averti
  <2> QED BY <2>1, <2>5, MiroirInchange
<1>5. ASSUME TirerReservations(q)
      PROVE  MiroirInv'
  <2>1. /\ req' = [req EXCEPT ![q] = [req[q] EXCEPT !.dossiers = {DossiersVus}]]
        /\ UNCHANGED <<emis, journal, lignes, closes>>
    BY <1>5 DEF TirerReservations, Garder
  <2>2. /\ req'[q].etat = "tirage" /\ req'[q].dossiers = {DossiersVus}
        /\ req'[q].faites = req[q].faites
    BY <1>1, <1>2, <2>1 DEF TypeOK
  <2>3. \A m \in DossiersVus : AJour(m)
    BY <1>1, ReponseAJour
  <2>4. \A D \in req'[q].dossiers : \A m \in D : AJour(m)'
    BY <2>1, <2>2, <2>3 DEF AJour, Numeros, Dernier
  <2>5. \A F \in req'[q].faites : \A n \in Numeros' :
            journal'[n] = "TRAITE" /\ emis'[n].sujet = "etape" => emis'[n].etape \in F
    BY <1>3, <2>1, <2>2 DEF Numeros
  <2>6. Averti(q)'
    BY <2>2, <2>4, <2>5 DEF Averti
  <2> QED BY <2>1, <2>6, MiroirInchange
<1>6. ASSUME AppliquerCatalogue(q)
      PROVE  MiroirInv'
  <2>1. /\ req[q].faites # {}
        /\ closes' = UNION req[q].faites \/ closes' = closes
        /\ req' = [req EXCEPT ![q] = [etat |-> "reprise", reste |-> UNION req[q].dossiers]]
        /\ UNCHANGED <<emis, journal, lignes>>
    BY <1>6 DEF AppliquerCatalogue, Garder
  <2>2. req'[q].etat = "reprise" /\ req'[q].reste = UNION req[q].dossiers
    BY <1>1, <2>1 DEF TypeOK
  <2>3. \A m \in req'[q].reste : AJour(m)'
    BY <1>3, <2>1, <2>2 DEF AJour, Numeros, Dernier
  <2>4. Averti(q)'
    BY <2>2, <2>3 DEF Averti
  <2>5. ASSUME NEW n \in Numeros, journal[n] = "TRAITE", Dernier(n)
        PROVE  Fidele(n)'
    <3>1. Fidele(n)
      BY <2>5 DEF MiroirInv, AppliquesFideles
    <3>2. CASE emis[n].sujet = "etape"
      <4>1. emis[n].etape \in UNION req[q].faites
        BY <1>3, <2>1, <2>5, <3>2
      <4>2. emis[n].etape \in closes'
        BY <2>1, <3>1, <3>2, <4>1 DEF Fidele
      <4> QED BY <2>1, <3>2, <4>2 DEF Fidele
    <3>3. CASE emis[n].sujet # "etape"
      BY <2>1, <3>1, <3>3 DEF Fidele, LignesDe
    <3> QED BY <3>2, <3>3
  <2>6. AppliquesFideles'
    BY <2>1, <2>5 DEF AppliquesFideles, Dernier, Numeros
  <2>7. RecusDansLOrdre'
    BY <2>1 DEF MiroirInv, RecusDansLOrdre, Numeros
  <2> QED BY <2>4, <2>6, <2>7 DEF MiroirInv, UneALaFois
<1> QED BY <1>4, <1>5, <1>6

LEMMA FideleParLigne ==
    ASSUME TypeOK, TypeOK', emis' = emis, NEW n \in Numeros, emis[n].sujet = "dossier",
           NEW l \in DOMAIN lignes', Dossier(lignes'[l]) = Dossier(emis[n]),
           lignes'[l].statut = emis[n].statut, emis[n].signe => lignes'[l].signe
    PROVE  Fidele(n)'
<1>1. emis[n] \in MessageDossier /\ lignes'[l] \in Ligne
  BY Emission, UnMessage, ElementOfSeq, LenProperties DEF TypeOK
<1>2. l \in LignesDe(n)'
  BY <1>1, MemeDossier DEF LignesDe
<1> QED BY <1>2 DEF Fidele

\* The one row of the reservation takes the status of the message: every event
\* Prometis must show still shows.
LEMMA EcritureFidele ==
    ASSUME IInv, TypeOK', Stable, MiroirInv, UNCHANGED <<emis, journal, closes>>,
           NEW q \in Requetes, req[q].etat = "dossier",
           NEW k \in DOMAIN lignes', Dossier(lignes'[k]) = Dossier(req[q].m),
           lignes'[k].statut = req[q].m.statut, req[q].m.signe => lignes'[k].signe,
           \A l \in DOMAIN lignes : l # k => lignes'[l] = lignes[l],
           \A l \in DOMAIN lignes : Dossier(lignes[l]) = Dossier(req[q].m) => l = k,
           k \in DOMAIN lignes => Dossier(lignes[k]) = Dossier(req[q].m)
    PROVE  /\ AppliquesFideles'
           /\ \A n \in Numeros : n = req[q].n => Fidele(n)'
<1> DEFINE m == req[q].m
<1>1. /\ TypeOK /\ Suivi(q) /\ Averti(q)
      /\ m \in MessageDossier /\ m.sujet = "dossier"
  BY DossierEnCours, UnDossier DEF IInv, MiroirInv
<1>2. \A l \in DOMAIN lignes :
         Dossier(lignes[l]) # Dossier(m) => lignes'[l].statut = lignes[l].statut
  OBVIOUS
<1>3. ASSUME NEW n \in Numeros, n = req[q].n
      PROVE  emis[n] = m /\ PlusRecent(n) /\ Fidele(n)'
  <2>1. emis[n] = m /\ n # 0
    BY <1>1, <1>3, DossierEnCours, Emission
  <2>2. PlusRecent(n)
    BY <1>1, <1>3, <2>1 DEF Averti
  <2>3. Fidele(n)'
    BY <1>1, <2>1, FideleParLigne
  <2> QED BY <2>1, <2>2, <2>3
<1>4. ASSUME NEW n \in Numeros, journal[n] = "TRAITE", Dernier(n)
      PROVE  Fidele(n)'
  <2>1. Fidele(n) /\ n \in Int
    BY <1>4 DEF MiroirInv, AppliquesFideles, Numeros
  <2>2. CASE emis[n].sujet = "etape"
    BY <2>1, <2>2 DEF Fidele
  <2>3. CASE emis[n].sujet = "dossier" /\ Dossier(emis[n]) # Dossier(m)
    BY <1>1, <1>2, <2>1, <2>3, FideleConserve
  <2>4. CASE emis[n].sujet = "dossier" /\ Dossier(emis[n]) = Dossier(m) /\ req[q].n # 0
    <3>1. PICK e \in Numeros : e = req[q].n /\ e \in Int
      BY <1>1, <2>4 DEF Suivi, EnTravail, Numeros
    <3>2. emis[e] = m /\ PlusRecent(e) /\ Fidele(e)'
      BY <1>3, <3>1
    <3>3. Sujet(emis[e]) = Sujet(emis[n])
      BY <1>1, <2>4, <3>2 DEF Sujet
    <3>4. ~(n > e)
      BY <1>4, <3>2, <3>3 DEF PlusRecent
    <3>5. ~(e > n)
      BY <1>4, <3>3 DEF Dernier
    <3>6. n = e
      BY <2>1, <3>1, <3>4, <3>5
    <3> QED BY <3>2, <3>6
  <2>5. CASE emis[n].sujet = "dossier" /\ Dossier(emis[n]) = Dossier(m) /\ req[q].n = 0
    <3>1. m.statut = emis[n].statut
      BY <1>1, <1>4, <2>5 DEF Averti, AJour
    <3>2. emis[n].signe => lignes'[k].signe
      <4>1. PICK l \in LignesDe(n) : emis[n].signe => lignes[l].signe
        BY <2>1, <2>5 DEF Fidele
      <4>2. l \in DOMAIN lignes /\ l = k
        BY <1>1, <2>5, <4>1, LignesDuDossier
      <4> QED BY <4>1, <4>2 DEF Stable
    <3> QED BY <1>1, <2>5, <3>1, <3>2, FideleParLigne
  <2>6. emis[n].sujet \in {"dossier", "etape"}
    BY <1>1, Emission, UnMessage
  <2> QED BY <2>2, <2>3, <2>4, <2>5, <2>6
<1>5. AppliquesFideles'
  BY <1>4 DEF AppliquesFideles, Numeros, Dernier
<1> QED BY <1>3, <1>5

LEMMA MiroirCreer ==
    ASSUME UneALaFois, SInv, MiroirInv, NEW q \in Requetes, CreerDossier(q)
    PROVE  MiroirInv'
<1>1. IInv /\ TypeOK /\ Suivi(q) /\ Pas(q)
  BY PasCreerDossier DEF SInv, IInv
<1> DEFINE m == req[q].m
           x == [id |-> m.id, ext |-> m.ext, statut |-> m.statut,
                 prix |-> Donne(m.prix, PrixLot), signe |-> m.signe]
           k == Len(lignes) + 1
<1>2. /\ req[q].etat = "dossier" /\ req[q].ligne = 0 /\ Rendre(q, "TRAITE")
      /\ lignes' = Append(lignes, x)
      /\ UNCHANGED <<emis, journal, closes>>
  BY DEF CreerDossier, En
<1>3. x.statut = m.statut /\ x.signe = m.signe
  OBVIOUS
<1>4. PICK y \in Ligne :
         /\ Dossier(y) = Dossier(m)
         /\ DOMAIN lignes' = DOMAIN lignes \cup {k}
         /\ lignes'[k] = y
         /\ \A l \in DOMAIN lignes : lignes'[l] = lignes[l]
  BY <1>1, PasCreerDossier
<1>5. lignes'[k] = x /\ k \notin DOMAIN lignes
  <2> HIDE DEF x
  <2> QED BY <1>1, <1>2, AppendProperties, LenProperties DEF TypeOK
<1>6. \A l \in DOMAIN lignes : Dossier(lignes[l]) # Dossier(m)
  BY <1>2 DEF SInv, Fraiche
<1>7. k \in DOMAIN lignes' /\ Dossier(lignes'[k]) = Dossier(m)
      /\ lignes'[k].statut = m.statut /\ (m.signe => lignes'[k].signe)
  BY <1>3, <1>4, <1>5
<1>8. TypeOK' /\ Stable
  BY <1>1 DEF Pas
<1> HIDE DEF x, k
<1>9. AppliquesFideles' /\ \A n \in Numeros : n = req[q].n => Fidele(n)'
  BY <1>1, <1>2, <1>4, <1>5, <1>6, <1>7, <1>8, EcritureFidele
<1> QED BY <1>1, <1>2, <1>9, MiroirEcrit

LEMMA MiroirMettreAJour ==
    ASSUME UneALaFois, SInv, MiroirInv, NEW q \in Requetes, MettreAJour(q)
    PROVE  MiroirInv'
<1>1. /\ IInv /\ TypeOK /\ Suivi(q) /\ Pas(q)
      /\ req[q].etat = "dossier" /\ req[q].ligne # 0
  BY PasMettreAJour DEF SInv, IInv, MettreAJour, En
<1> DEFINE k == req[q].ligne
           m == req[q].m
           x == [id |-> Donne(m.id, lignes[k].id), ext |-> lignes[k].ext,
                 statut |-> IF m.statut = req[q].lu.statut THEN lignes[k].statut
                            ELSE m.statut,
                 prix |-> IF (req[q].appele \/ req[q].lu.signe) \/ m.prix = req[q].lu.prix
                          THEN lignes[k].prix ELSE Donne(m.prix, lignes[k].prix),
                 signe |-> lignes[k].signe \/ m.signe]
<1>2. k \in DOMAIN lignes /\ req[q].lu = lignes[k] /\ Dossier(lignes[k]) = Dossier(m)
  BY <1>1 DEF SInv, Fraiche, Suivi
<1>3. /\ lignes' = [lignes EXCEPT ![k] = x] /\ Rendre(q, "TRAITE")
      /\ UNCHANGED <<emis, journal, closes>>
  BY DEF MettreAJour
<1>4. x.statut = m.statut /\ (m.signe => x.signe)
  BY <1>2
<1> HIDE DEF x, k
<1>5. lignes'[k] = x /\ DOMAIN lignes' = DOMAIN lignes
  BY <1>2, <1>3
<1>6. \A l \in DOMAIN lignes : l # k => lignes'[l] = lignes[l]
  BY <1>3
<1>7. \A l \in DOMAIN lignes : Dossier(lignes[l]) = Dossier(m) => l = k
  BY <1>2 DEF SInv, ParDossier
<1>8. TypeOK' /\ Stable
  BY <1>1 DEF Pas
<1>9. Dossier(lignes'[k]) = Dossier(m)
  BY <1>2, <1>8 DEF Stable
<1>10. AppliquesFideles' /\ \A n \in Numeros : n = req[q].n => Fidele(n)'
  BY <1>1, <1>2, <1>3, <1>4, <1>5, <1>6, <1>7, <1>8, <1>9, EcritureFidele
<1> QED BY <1>1, <1>3, <1>10, MiroirEcrit

LEMMA MiroirDeclencher ==
    ASSUME UneALaFois, IInv, MiroirInv, NEW q \in Requetes, Declencher(q)
    PROVE  MiroirInv'
<1>1. /\ TypeOK /\ Suivi(q) /\ Pas(q) /\ req[q].etat = "jalon"
  BY PasTraiter DEF IInv, Traiter, Declencher, En
<1>2. /\ closes' = closes \cup {emis[req[q].n].etape} /\ Rendre(q, "TRAITE")
      /\ UNCHANGED <<emis, journal, lignes>>
  BY DEF Declencher
<1>3. \A n \in Numeros : n = req[q].n => Fidele(n)'
  BY <1>1, <1>2 DEF Suivi, Fidele
<1>4. ASSUME NEW n \in Numeros, Fidele(n)
      PROVE  Fidele(n)'
  BY <1>2, <1>4 DEF Fidele, LignesDe
<1>5. AppliquesFideles'
  BY <1>2, <1>4 DEF MiroirInv, AppliquesFideles, Numeros, Dernier
<1> QED BY <1>1, <1>2, <1>3, <1>5, MiroirEcrit

LEMMA MiroirTraiter ==
    ASSUME UneALaFois, SInv, MiroirInv, NEW q \in Requetes, Traiter(q)
    PROVE  MiroirInv'
<1>1. IInv /\ TypeOK /\ Suivi(q) /\ Averti(q)
  BY DEF SInv, IInv, MiroirInv
<1>2. ASSUME Illisible(q) \/ SansLot(q) \/ ConflitExterne(q) \/ Bloquer(q) \/ Echouer(q)
                 \/ JalonSansSuite(q)
      PROVE  MiroirInv'
  <2>1. /\ req[q].etat \in {"traitement", "dossier", "jalon"}
        /\ UNCHANGED <<emis, journal, lignes, closes>>
    BY <1>2 DEF Illisible, SansLot, ConflitExterne, Bloquer, Echouer, JalonSansSuite, En
  <2>2. PICK s \in Conclu :
           /\ Rendre(q, s)
           /\ s = "TRAITE" => /\ emis[req[q].n].sujet = "etape"
                              /\ emis[req[q].n].etape \in closes
    <3>1. ASSUME Illisible(q) \/ SansLot(q) \/ ConflitExterne(q) \/ Bloquer(q) \/ Echouer(q)
          PROVE  \E s \in Conclu \ {"TRAITE"} : Rendre(q, s)
      BY <3>1 DEF Illisible, SansLot, ConflitExterne, Bloquer, Echouer, Conclu
    <3>2. ASSUME JalonSansSuite(q)
          PROVE  \E s \in Conclu : /\ Rendre(q, s)
                                   /\ s = "TRAITE" => /\ emis[req[q].n].sujet = "etape"
                                                      /\ emis[req[q].n].etape \in closes
      BY <3>2 DEF JalonSansSuite, Conclu
    <3> QED BY <1>2, <3>1, <3>2
  <2>3. \A n \in Numeros : n = req[q].n /\ s = "TRAITE" /\ Dernier(n) => Fidele(n)'
    BY <2>1, <2>2 DEF Fidele
  <2>4. Averti(q)'
    BY <1>1, <2>1, <2>2, <2>3, RenduAverti
  <2> QED BY <2>1, <2>4, MiroirInchange
<1>3. ASSUME LireDossier(q)
      PROVE  MiroirInv'
  <2>1. /\ req[q].etat = "traitement"
        /\ Trouver(q, emis[req[q].n], req[q].n, req[q].rejeu, {})
        /\ UNCHANGED <<emis, journal, lignes, closes>>
    BY <1>3 DEF LireDossier, En
  <2>2. PICK n \in Nat : n = req[q].n /\ n # 0
    BY <1>1, <2>1, EnCours DEF EnTravail
  <2>3. PlusRecent(n)
    BY <1>1, <2>1, <2>2 DEF Averti
  <2>4. PICK m, b : m = emis[req[q].n] /\ b = req[q].rejeu
    OBVIOUS
  <2>5. Trouver(q, m, n, b, {})
    BY <2>1, <2>2, <2>4
  <2> QED BY <1>1, <2>1, <2>2, <2>3, <2>5, MiroirTrouve
<1>4. ASSUME LireJalon(q)
      PROVE  MiroirInv'
  <2>1. /\ req[q].etat = "traitement"
        /\ req'[q].etat = "jalon" /\ req'[q].n = req[q].n
        /\ UNCHANGED <<emis, journal, lignes, closes>>
    BY <1>1, <1>4 DEF LireJalon, En, Garder, TypeOK
  <2>2. PlusRecent(req[q].n)'
    BY <1>1, <2>1, EnCours DEF Averti, EnTravail, PlusRecent, Numeros
  <2>3. Averti(q)'
    BY <2>1, <2>2 DEF Averti
  <2> QED BY <2>1, <2>3, MiroirInchange
<1> QED BY <1>1, <1>2, <1>3, <1>4, MiroirCreer, MiroirMettreAJour, MiroirDeclencher,
           MiroirConclure
        DEF Traiter

LEMMA StepMiroir ==
    ASSUME UneALaFois, EnOrdre, SInv, MiroirInv, [Next]_vars
    PROVE  MiroirInv'
<1>1. IInv /\ TypeOK
  BY DEF SInv, IInv
<1>2. ASSUME NEW q \in Requetes, req'[q].etat = "libre",
             UNCHANGED <<emis, journal, lignes, closes>>
      PROVE  MiroirInv'
  <2>1. Averti(q)'
    BY <1>2 DEF Averti
  <2> QED BY <1>2, <2>1, MiroirInchange
<1>3. ASSUME NEW q \in Requetes, Entree(q)
      PROVE  MiroirInv'
  <2>1. ASSUME NEW n \in Numeros, Rejouer(q, n)
        PROVE  MiroirInv'
    <3>1. /\ req'[q].etat = "traitement" /\ req'[q].n = n /\ Dernier(n)
          /\ UNCHANGED <<emis, journal, lignes, closes>>
      BY <1>1, <2>1 DEF Rejouer, Garder, TypeOK
    <3>2. Averti(q)'
      BY <3>1 DEF Averti, PlusRecent, Dernier, Numeros
    <3> QED BY <3>1, <3>2, MiroirInchange
  <2>2. ASSUME Rattacher(q) \/ Synchroniser(q)
        PROVE  MiroirInv'
    <3>1. /\ req'[q].etat = "tirage" /\ req'[q].faites = {} /\ req'[q].dossiers = {}
          /\ UNCHANGED <<emis, journal, lignes, closes>>
      BY <1>1, <2>2 DEF Rattacher, Synchroniser, Tirage, Garder, TypeOK
    <3>2. Averti(q)'
      BY <3>1 DEF Averti
    <3> QED BY <3>1, <3>2, MiroirInchange
  <2> QED BY <1>1, <1>3, <2>1, <2>2, MiroirRecevoir DEF Entree
<1>4. ASSUME NEW q \in Requetes, Tirer(q)
      PROVE  MiroirInv'
  <2>1. ASSUME NEW m \in req[q].reste, En(q, "reprise"), LireTire(q, m)
        PROVE  MiroirInv'
    <3>1. \A x \in req[q].reste : AJour(x)
      BY <2>1 DEF MiroirInv, Averti, En
    <3>2. PICK R : R = req[q].reste \ {m}
      OBVIOUS
    <3>3. Trouver(q, m, 0, FALSE, R) /\ UNCHANGED <<emis, journal, lignes, closes>>
      BY <2>1, <3>2 DEF LireTire
    <3>4. AJour(m) /\ \A x \in R : AJour(x)
      BY <3>1, <3>2
    <3> QED BY <1>1, <3>3, <3>4, MiroirTrouve
  <2>2. ASSUME FinReprise(q)
        PROVE  MiroirInv'
    <3>1. req'[q].etat = "libre" /\ UNCHANGED <<emis, journal, lignes, closes>>
      BY <1>1, <2>2, Finie DEF FinReprise, TypeOK, Libre
    <3> QED BY <1>2, <3>1
  <2> QED BY <1>1, <1>4, <2>1, <2>2, MiroirTirage DEF Tirer
<1>5. ASSUME NEW q \in Requetes, Interrompre(q)
      PROVE  MiroirInv'
  <2>1. req'[q].etat = "libre" /\ UNCHANGED <<emis, journal, lignes, closes>>
    BY <1>1, <1>5, Finie DEF Interrompre, TypeOK, Libre
  <2> QED BY <1>2, <2>1
<1>6. CASE UNCHANGED vars
  BY <1>6 DEF vars, MiroirInv, AppliquesFideles, RecusDansLOrdre, Averti, PlusRecent, AJour,
              Dernier, Fidele, LignesDe, Numeros
<1> QED BY <1>1, <1>3, <1>4, <1>5, <1>6, MiroirTraiter, MiroirKolabimo DEF Next, NextSansArret

\* recevoir, synchroniser: when requests come one at a time and events in
\* their order, an event shown as applied that no later one contradicts is
\* what Prometis shows, failures, stops, replays and pulls included.
THEOREM MiroirTenu ==
    ASSUME UneALaFois, EnOrdre
    PROVE  Spec => []MiroirFidele
<1>1. Init => MiroirInv
  <2> SUFFICES ASSUME Init PROVE MiroirInv
    OBVIOUS
  <2>1. Numeros = {} /\ \A q \in Requetes : req[q].etat = "libre"
    BY DEF Init, Numeros, Libre
  <2> QED BY <2>1 DEF MiroirInv, AppliquesFideles, RecusDansLOrdre, Averti
<1>2. SInv /\ MiroirInv /\ [Next]_vars => MiroirInv'
  BY StepMiroir
<1>3. MiroirInv => MiroirFidele
  BY DEF MiroirInv, AppliquesFideles, MiroirFidele
<1> QED BY <1>1, <1>2, <1>3, SerieInvariante, PTL DEF Spec
=============================================================================
