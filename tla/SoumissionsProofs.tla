-------------------------- MODULE SoumissionsProofs --------------------------
(***************************************************************************)
(* A contract follows the award it is attached to, for any companies, bids *)
(* and awards and any number of requests at once; the award follows its    *)
(* bid, and a sealed bid opens when its day has come, as long as requests  *)
(* run one at a time.                                                      *)
(***************************************************************************)
EXTENDS Soumissions, SequenceTheorems, TLAPS

UneALaFois == \A p, q \in Requetes : p = q

(***************************************************************************)
(* Requests                                                                *)
(***************************************************************************)
LEMMA FormeRequete ==
    ASSUME NEW r \in Requete
    PROVE  /\ r.etat \in {"libre", "session", "depot", "saisie", "lignes", "modification",
                          "envoi", "relance", "adjudication", "annulation", "contrat", "avenant"}
           /\ r.etat \in {"session", "depot", "saisie", "relance"} => r.e \in Entreprises
           /\ r.etat \in {"depot", "saisie", "lignes", "adjudication"} => r.offre \in Nat
           /\ r.etat = "saisie" => r.portail \in BOOLEAN
           /\ r.etat = "modification" => r.lue \in Soumission
           /\ r.etat = "envoi" => /\ r.reste \in SUBSET Entreprises
                                  /\ r.statut \in SoumissionStatut
                                  /\ r.envoyees \in BOOLEAN
           /\ r.etat = "adjudication" => r.retenues \in SUBSET Lignes
           /\ r.etat \in {"adjudication", "contrat"} => r.montant \in Nets
           /\ r.etat \in {"annulation", "contrat"} => r.numero \in 1..MaxDecisions
           /\ r.etat = "contrat" => r.entreprise \in Entreprises
           /\ r.etat = "avenant" => r.contrat \in Nat
BY DEF Requete

LEMMA FormeLibre == Libre \in Requete /\ Libre.etat = "libre"
BY DEF Libre, Requete

LEMMA Garde ==
    ASSUME NEW q \in Requetes, NEW r \in Requete,
           req \in [Requetes -> Requete], Garder(q, r)
    PROVE  /\ req' \in [Requetes -> Requete]
           /\ req'[q] = r
           /\ \A p \in Requetes : p # q => req'[p] = req[p]
BY DEF Garder

LEMMA Finie ==
    ASSUME NEW q \in Requetes, req \in [Requetes -> Requete], Finir(q)
    PROVE  /\ req' \in [Requetes -> Requete]
           /\ req'[q] = Libre
           /\ \A p \in Requetes : p # q => req'[p] = req[p]
BY FormeLibre, Garde DEF Finir

\* The rows a request finds, and where bids are.
LEMMA Bornes ==
    ASSUME TypeOK
    PROVE  /\ Len(offres) \in Nat /\ DOMAIN offres = 1..Len(offres)
           /\ Len(contrats) \in Nat /\ DOMAIN contrats = 1..Len(contrats)
           /\ \A n \in DOMAIN offres : n \in Nat /\ n # 0 /\ offres[n] \in Offre
           /\ \A n \in DOMAIN contrats : n \in Nat /\ contrats[n] \in Contrat
BY DEF TypeOK

(***************************************************************************)
(* Steps that leave the award and what hangs on it                         *)
(***************************************************************************)
LEMMA Calme ==
    ASSUME IInv, TypeOK', UNCHANGED <<adjudication, decisions>>,
           \A n \in DOMAIN offres :
              n \in DOMAIN offres' /\ offres'[n].entreprise = offres[n].entreprise,
           DOMAIN contrats' = DOMAIN contrats,
           \A n \in DOMAIN contrats : /\ contrats'[n].decision = contrats[n].decision
                                      /\ contrats'[n].montant = contrats[n].montant
                                      /\ contrats'[n].entreprise = contrats[n].entreprise,
           \A q \in Requetes : req'[q] = req[q] \/ Sain(req[q])'
    PROVE  IInv'
<1>1. DerniereDecision'
  BY DEF IInv, DerniereDecision
<1>2. ContratSuitDecision'
  BY DEF IInv, DerniereDecision, ContratSuitDecision
<1>3. ASSUME NEW q \in Requetes, req'[q] = req[q]
      PROVE  Sain(req[q])'
  <2>1. Sain(req[q])
    BY DEF IInv
  <2> QED BY <1>3, <2>1 DEF Sain, Vise, IInv, DerniereDecision
<1> QED BY <1>1, <1>2, <1>3 DEF IInv

\* A request that only reads.
LEMMA Lecture ==
    ASSUME IInv, NEW q \in Requetes, NEW r \in Requete, Garder(q, r), Sain(r),
           UNCHANGED <<jour, soumission, invitations, offres, adjudication, decisions, contrats>>
    PROVE  IInv'
<1>1. /\ req' \in [Requetes -> Requete] /\ req'[q] = r
      /\ \A p \in Requetes : p # q => req'[p] = req[p]
  BY Garde DEF IInv, TypeOK
<1>2. TypeOK'
  BY <1>1 DEF IInv, TypeOK
<1>3. Sain(req[q])'
  BY <1>1 DEF Sain, Vise
<1> QED BY <1>1, <1>2, <1>3, Calme

\* A request that ends.
LEMMA LibreSaine == Sain(Libre) /\ Sain(Libre)'
BY FormeLibre DEF Sain

LEMMA LireConsultation ==
    ASSUME IInv, NEW q \in Requetes,
           \/ LireModification(q)
           \/ \E E \in SUBSET Entreprises : LireEnvoi(q, E)
           \/ \E e \in Entreprises : LireSession(q, e) \/ LireRelance(q, e)
    PROVE  IInv'
<1>1. CASE LireModification(q)
  <2> DEFINE r == [etat |-> "modification", lue |-> soumission]
  <2>1. r \in Requete /\ Sain(r)
    BY DEF Requete, Sain, IInv, TypeOK
  <2> QED BY <1>1, <2>1, Lecture DEF LireModification
<1>2. ASSUME NEW E \in SUBSET Entreprises, LireEnvoi(q, E)
      PROVE  IInv'
  <2> DEFINE r == [etat |-> "envoi", reste |-> E, statut |-> soumission.statut,
                   envoyees |-> FALSE]
  <2>1. soumission.statut \in SoumissionStatut
    BY DEF IInv, TypeOK, Soumission
  <2>2. r \in Requete /\ Sain(r)
    BY <2>1 DEF Requete, Sain
  <2> QED BY <1>2, <2>2, Lecture DEF LireEnvoi
<1>3. ASSUME NEW e \in Entreprises, LireSession(q, e)
      PROVE  IInv'
  <2> DEFINE r == [etat |-> "session", e |-> e]
  <2>1. r \in Requete /\ Sain(r)
    BY DEF Requete, Sain
  <2> QED BY <1>3, <2>1, Lecture DEF LireSession
<1>4. ASSUME NEW e \in Entreprises, LireRelance(q, e)
      PROVE  IInv'
  <2> DEFINE r == [etat |-> "relance", e |-> e]
  <2>1. r \in Requete /\ Sain(r)
    BY DEF Requete, Sain
  <2> QED BY <1>4, <2>1, Lecture DEF LireRelance
<1> QED BY <1>1, <1>2, <1>3, <1>4

LEMMA LireOffre ==
    ASSUME Domaines, IInv, NEW q \in Requetes,
           \/ \E n \in 0..MaxOffres : LireDepot(q, n)
           \/ \E e \in Entreprises, n \in 0..MaxOffres : LireSaisie(q, e, n)
           \/ \E n \in DOMAIN offres : LireLignes(q, n)
    PROVE  IInv'
<1>1. ASSUME NEW n \in 0..MaxOffres, LireDepot(q, n)
      PROVE  IInv'
  <2> DEFINE r == [etat |-> "depot", e |-> req[q].e, offre |-> n]
  <2>1. req[q].e \in Entreprises
    BY <1>1, FormeRequete DEF LireDepot, En, IInv, TypeOK
  <2>2. r \in Requete
    BY <2>1 DEF Requete
  <2>3. n = 0 \/ (n \in DOMAIN offres /\ offres[n].entreprise = req[q].e)
    BY <1>1 DEF LireDepot, Trouvee, OffresDe
  <2>4. Sain(r)
    BY <2>3 DEF Sain, Vise
  <2> QED BY <1>1, <2>2, <2>4, Lecture DEF LireDepot
<1>2. ASSUME NEW e \in Entreprises, NEW n \in 0..MaxOffres, LireSaisie(q, e, n)
      PROVE  IInv'
  <2> DEFINE p == n # 0 /\ offres[n].source = "PORTAIL"
             r == [etat |-> "saisie", e |-> e, offre |-> n, portail |-> p]
  <2>1. p \in BOOLEAN
    OBVIOUS
  <2>2. Garder(q, r)
        /\ UNCHANGED <<jour, soumission, invitations, offres, adjudication, decisions, contrats>>
    BY <1>2 DEF LireSaisie
  <2> HIDE DEF p
  <2>3. r \in Requete
    BY <2>1 DEF Requete
  <2>4. n = 0 \/ (n \in DOMAIN offres /\ offres[n].entreprise = e)
    BY <1>2 DEF LireSaisie, Trouvee, OffresDe
  <2>5. Sain(r)
    BY <2>4 DEF Sain, Vise
  <2> QED BY <2>2, <2>3, <2>5, Lecture
<1>3. ASSUME NEW n \in DOMAIN offres, LireLignes(q, n)
      PROVE  IInv'
  <2> DEFINE r == [etat |-> "lignes", offre |-> n]
  <2>1. n \in Nat
    BY Bornes DEF IInv
  <2>2. r \in Requete /\ Sain(r)
    BY <2>1 DEF Requete, Sain
  <2> QED BY <1>3, <2>2, Lecture DEF LireLignes
<1> QED BY <1>1, <1>2, <1>3

LEMMA LireDecision ==
    ASSUME Domaines, IInv, NEW q \in Requetes,
           \/ \E n \in DOMAIN offres, R \in SUBSET Lignes : LireAdjudication(q, n, R)
           \/ LireAnnulation(q)
           \/ LireContrat(q)
           \/ \E n \in DOMAIN contrats : LireAvenant(q, n)
    PROVE  IInv'
<1>1. ASSUME NEW n \in DOMAIN offres, NEW R \in SUBSET Lignes, LireAdjudication(q, n, R)
      PROVE  IInv'
  <2> DEFINE m == MontantRetenu(offres[n].montant, offres[n].remise, R)
             r == [etat |-> "adjudication", offre |-> n, retenues |-> R, montant |-> m]
  <2>1. n \in Nat /\ offres[n].montant \in Prix \cup {NUL} /\ offres[n].remise \in Remises
    BY Bornes DEF IInv, Offre
  <2>2. offres[n].montant \in Prix
    BY <1>1, <2>1 DEF LireAdjudication
  <2>3. m \in Nets
    BY <2>1, <2>2 DEF Nets
  <2>4. Garder(q, r)
        /\ UNCHANGED <<jour, soumission, invitations, offres, adjudication, decisions, contrats>>
    BY <1>1 DEF LireAdjudication
  <2> HIDE DEF m
  <2>5. r \in Requete /\ Sain(r)
    BY <2>1, <2>3 DEF Requete, Sain
  <2> QED BY <2>4, <2>5, Lecture
<1>2. CASE LireAnnulation(q)
  <2> DEFINE r == [etat |-> "annulation", numero |-> adjudication.numero]
  <2>1. adjudication.numero \in 1..MaxDecisions
    BY <1>2 DEF LireAnnulation, IInv, TypeOK, Adjudication
  <2>2. r \in Requete /\ Sain(r)
    BY <2>1 DEF Requete, Sain
  <2> QED BY <1>2, <2>2, Lecture DEF LireAnnulation
<1>3. CASE LireContrat(q)
  <2> DEFINE r == [etat |-> "contrat", numero |-> adjudication.numero,
                   entreprise |-> offres[adjudication.offre].entreprise,
                   montant |-> adjudication.montant]
  <2>1. /\ adjudication \in Adjudication /\ adjudication.numero = decisions
        /\ adjudication.offre \in DOMAIN offres
    BY <1>3 DEF LireContrat, IInv, TypeOK, DerniereDecision
  <2>2. /\ offres[adjudication.offre].entreprise \in Entreprises
        /\ adjudication.numero \in 1..MaxDecisions /\ adjudication.montant \in Nets
    BY <2>1, Bornes DEF IInv, Offre, Adjudication
  <2>3. r \in Requete
    BY <2>2 DEF Requete
  <2>4. Sain(r)
    BY <2>1, <2>2 DEF Sain
  <2> QED BY <1>3, <2>3, <2>4, Lecture DEF LireContrat
<1>4. ASSUME NEW n \in DOMAIN contrats, LireAvenant(q, n)
      PROVE  IInv'
  <2> DEFINE r == [etat |-> "avenant", contrat |-> n]
  <2>1. n \in Nat
    BY Bornes DEF IInv
  <2>2. r \in Requete /\ Sain(r)
    BY <2>1 DEF Requete, Sain
  <2> QED BY <1>4, <2>2, Lecture DEF LireAvenant
<1> QED BY <1>1, <1>2, <1>3, <1>4

(***************************************************************************)
(* Invitations, and the tender                                             *)
(***************************************************************************)
LEMMA FormeInvitation ==
    ASSUME invitations \in [Entreprises -> Invitation], NEW e \in Entreprises,
           NEW a \in {"absente", "invitee", "envoyee", "revoquee", "refusee"}
    PROVE  /\ [invitations EXCEPT ![e].acces = a] \in [Entreprises -> Invitation]
           /\ [invitations EXCEPT ![e].aRelancer = FALSE] \in [Entreprises -> Invitation]
BY DEF Invitation

\* A step that writes the invitations or the tender, and may end a request.
LEMMA SansOffre ==
    ASSUME IInv, invitations' \in [Entreprises -> Invitation], soumission' \in Soumission,
           jour' \in 0..Horizon, req' \in [Requetes -> Requete],
           UNCHANGED <<offres, adjudication, decisions, contrats>>,
           \A q \in Requetes : \/ req'[q] = req[q] \/ req'[q] = Libre
                               \/ req'[q].etat = "envoi"
    PROVE  IInv'
<1>1. TypeOK'
  BY DEF IInv, TypeOK
<1>2. ASSUME NEW q \in Requetes
      PROVE  req'[q] = req[q] \/ Sain(req[q])'
  <2>1. CASE req'[q] = Libre
    BY <2>1, FormeLibre DEF Sain
  <2>2. CASE req'[q].etat = "envoi"
    BY <2>2 DEF Sain
  <2> QED BY <2>1, <2>2
<1> QED BY <1>1, <1>2, Calme

LEMMA StepInvitations ==
    ASSUME IInv, NEW e \in Entreprises, Inviter(e) \/ Revoquer(e)
    PROVE  IInv'
<1>1. /\ invitations' = [invitations EXCEPT ![e].acces = "invitee"]
         \/ invitations' = [invitations EXCEPT ![e].acces = "revoquee"]
      /\ UNCHANGED <<jour, soumission, offres, adjudication, decisions, contrats, req>>
  BY DEF Inviter, Revoquer
<1>2. invitations' \in [Entreprises -> Invitation]
  BY <1>1, FormeInvitation DEF IInv, TypeOK
<1> QED BY <1>1, <1>2, SansOffre DEF IInv, TypeOK

LEMMA StepReponse ==
    ASSUME IInv, NEW q \in Requetes, Decliner(q) \/ Relancer(q)
    PROVE  IInv'
<1>1. /\ \/ invitations' = [invitations EXCEPT ![req[q].e].acces = "refusee"]
         \/ invitations' = [invitations EXCEPT ![req[q].e].aRelancer = FALSE]
      /\ Finir(q) /\ req[q].etat \in {"session", "relance"}
      /\ UNCHANGED <<jour, soumission, offres, adjudication, decisions, contrats>>
  BY DEF Decliner, Relancer, En
<1>2. req[q].e \in Entreprises
  BY <1>1, FormeRequete DEF IInv, TypeOK
<1>3. invitations' \in [Entreprises -> Invitation]
  <2> DEFINE e == req[q].e
  <2>1. e \in Entreprises /\ invitations \in [Entreprises -> Invitation]
    BY <1>2 DEF IInv, TypeOK
  <2>2. \/ invitations' = [invitations EXCEPT ![e].acces = "refusee"]
        \/ invitations' = [invitations EXCEPT ![e].aRelancer = FALSE]
    BY <1>1
  <2> HIDE DEF e
  <2> QED BY <2>1, <2>2, FormeInvitation
<1>4. req' \in [Requetes -> Requete] /\ \A p \in Requetes : req'[p] = req[p] \/ req'[p] = Libre
  BY <1>1, Finie DEF IInv, TypeOK
<1> QED BY <1>1, <1>3, <1>4, SansOffre DEF IInv, TypeOK

LEMMA FormeEnvoi ==
    ASSUME NEW x \in Requete, x.etat = "envoi", NEW e
    PROVE  /\ [x EXCEPT !.reste = @ \ {e}, !.envoyees = TRUE] \in Requete
           /\ [x EXCEPT !.reste = @ \ {e}, !.envoyees = TRUE].etat = "envoi"
<1> DEFINE Envois == [etat: {"envoi"}, reste: SUBSET Entreprises, statut: SoumissionStatut,
                      envoyees: BOOLEAN]
           y == [x EXCEPT !.reste = @ \ {e}, !.envoyees = TRUE]
<1>1. x \in Envois
  BY DEF Requete
<1>2. y \in Envois /\ y.etat = "envoi"
  BY <1>1
<1>3. Envois \subseteq Requete
  BY DEF Requete
<1> QED BY <1>2, <1>3

LEMMA StepEnvoyerUne ==
    ASSUME IInv, NEW q \in Requetes, NEW e \in Entreprises, EnvoyerUne(q, e)
    PROVE  IInv'
<1> DEFINE a == IF invitations[e].acces = "refusee" THEN "refusee" ELSE "envoyee"
           r == [req[q] EXCEPT !.reste = @ \ {e}, !.envoyees = TRUE]
<1>1. /\ invitations' = [invitations EXCEPT ![e].acces = a]
      /\ Garder(q, r) /\ req[q].etat = "envoi"
      /\ UNCHANGED <<jour, soumission, offres, adjudication, decisions, contrats>>
  BY DEF EnvoyerUne, En, IInv, TypeOK, Invitation
<1>2. a \in {"absente", "invitee", "envoyee", "revoquee", "refusee"}
  OBVIOUS
<1> HIDE DEF a
<1>3. invitations' \in [Entreprises -> Invitation]
  BY <1>1, <1>2, FormeInvitation DEF IInv, TypeOK
<1>4. r \in Requete /\ r.etat = "envoi"
  <2>1. req[q] \in Requete
    BY DEF IInv, TypeOK
  <2> QED BY <1>1, <2>1, FormeEnvoi
<1> HIDE DEF r
<1>5. /\ req' \in [Requetes -> Requete] /\ req'[q] = r
      /\ \A p \in Requetes : p # q => req'[p] = req[p]
  BY <1>1, <1>4, Garde DEF IInv, TypeOK
<1> QED BY <1>1, <1>3, <1>4, <1>5, SansOffre DEF IInv, TypeOK

LEMMA ModifieeBienFormee ==
    ASSUME Domaines, soumission \in Soumission,
           NEW s \in StatutsSaisis \cup {OMIS}, NEW l \in Date \cup {NUL, OMIS},
           NEW c \in BOOLEAN \cup {OMIS}
    PROVE  [statut |-> Donne(s, soumission.statut), limite |-> Donne(l, soumission.limite),
            scelle |-> Donne(c, soumission.scelle)] \in Soumission
<1>1. /\ soumission.statut \in SoumissionStatut /\ soumission.limite \in Date \cup {NUL}
      /\ soumission.scelle \in BOOLEAN
  BY DEF Soumission
<1>2. Donne(s, soumission.statut) \in SoumissionStatut
  BY <1>1 DEF Donne, Domaines
<1>3. Donne(l, soumission.limite) \in Date \cup {NUL}
  BY <1>1 DEF Donne
<1>4. Donne(c, soumission.scelle) \in BOOLEAN
  <2>1. CASE c = OMIS
    BY <1>1, <2>1 DEF Donne
  <2>2. CASE c # OMIS
    BY <2>2 DEF Donne
  <2> QED BY <2>1, <2>2
<1> QED BY <1>2, <1>3, <1>4 DEF Soumission

LEMMA StepTender ==
    ASSUME Domaines, IInv, NEW q \in Requetes,
           \/ FinEnvoi(q)
           \/ \E s \in StatutsSaisis \cup {OMIS}, l \in Date \cup {NUL, OMIS},
                 c \in BOOLEAN \cup {OMIS} : Modifier(q, s, l, c)
    PROVE  IInv'
<1>1. Finir(q) /\ UNCHANGED <<jour, invitations, offres, adjudication, decisions, contrats>>
  BY DEF FinEnvoi, Modifier
<1>2. req' \in [Requetes -> Requete] /\ \A p \in Requetes : req'[p] = req[p] \/ req'[p] = Libre
  BY <1>1, Finie DEF IInv, TypeOK
<1>3. soumission' \in Soumission
  <2>1. CASE FinEnvoi(q)
    BY <2>1 DEF FinEnvoi, IInv, TypeOK, Soumission, SoumissionStatut
  <2>2. ASSUME NEW s \in StatutsSaisis \cup {OMIS}, NEW l \in Date \cup {NUL, OMIS},
               NEW c \in BOOLEAN \cup {OMIS}, Modifier(q, s, l, c)
        PROVE  soumission' \in Soumission
    BY <2>2, ModifieeBienFormee DEF Modifier, IInv, TypeOK
  <2> QED BY <2>1, <2>2
<1> QED BY <1>1, <1>2, <1>3, SansOffre DEF IInv, TypeOK

LEMMA StepTemps ==
    ASSUME Domaines, IInv, Avancer \/ \E q \in Requetes : Interrompre(q)
    PROVE  IInv'
<1>1. UNCHANGED <<soumission, invitations, offres, adjudication, decisions, contrats>>
  BY DEF Avancer, Interrompre
<1>2. jour' \in 0..Horizon
  BY DEF Avancer, Interrompre, IInv, TypeOK, Domaines
<1>3. req' \in [Requetes -> Requete] /\ \A p \in Requetes : req'[p] = req[p] \/ req'[p] = Libre
  BY Finie DEF Avancer, Interrompre, IInv, TypeOK
<1> QED BY <1>1, <1>2, <1>3, SansOffre DEF IInv, TypeOK

(***************************************************************************)
(* Bids                                                                    *)
(***************************************************************************)
\* A bid is written over one of the same company, or comes after the others.
LEMMA Ecrite ==
    ASSUME TypeOK, NEW n \in Nat, NEW o \in Offre, Ecrire(n, o),
           n = 0 \/ (n \in DOMAIN offres /\ offres[n].entreprise = o.entreprise)
    PROVE  /\ offres' \in Seq(Offre)
           /\ \A k \in DOMAIN offres :
                 k \in DOMAIN offres' /\ offres'[k].entreprise = offres[k].entreprise
           /\ n = 0 => /\ DOMAIN offres' = DOMAIN offres \cup {Len(offres) + 1}
                       /\ Len(offres) + 1 \notin DOMAIN offres
                       /\ offres'[Len(offres) + 1] = o
                       /\ \A k \in DOMAIN offres : offres'[k] = offres[k]
           /\ n # 0 => /\ DOMAIN offres' = DOMAIN offres /\ offres'[n] = o
                       /\ \A k \in DOMAIN offres : k # n => offres'[k] = offres[k]
<1>1. offres \in Seq(Offre) /\ Len(offres) \in Nat /\ DOMAIN offres = 1..Len(offres)
  BY DEF TypeOK
<1>2. CASE n = 0
  <2>1. offres' = Append(offres, o)
    BY <1>2 DEF Ecrire
  <2>2. /\ offres' \in Seq(Offre) /\ Len(offres') = Len(offres) + 1
        /\ \A k \in 1..Len(offres) : offres'[k] = offres[k]
        /\ offres'[Len(offres) + 1] = o
    BY <1>1, <2>1
  <2>3. DOMAIN offres' = 1..(Len(offres) + 1)
    BY <2>2
  <2> QED BY <1>1, <1>2, <2>2, <2>3
<1>3. CASE n # 0
  <2>1. offres' = [offres EXCEPT ![n] = o] /\ n \in DOMAIN offres
    BY <1>3 DEF Ecrire
  <2>2. offres' \in Seq(Offre) /\ DOMAIN offres' = DOMAIN offres
    BY <1>1, <2>1
  <2> QED BY <1>1, <1>3, <2>1, <2>2
<1> QED BY <1>2, <1>3

\* Whatever bid is written, the award keeps its company.
LEMMA OffreSaine ==
    ASSUME IInv, NEW q \in Requetes, Finir(q), offres' \in Seq(Offre),
           invitations' \in [Entreprises -> Invitation],
           \A k \in DOMAIN offres :
              k \in DOMAIN offres' /\ offres'[k].entreprise = offres[k].entreprise,
           UNCHANGED <<jour, soumission, adjudication, decisions, contrats>>
    PROVE  IInv'
<1>1. req' \in [Requetes -> Requete] /\ \A p \in Requetes : req'[p] = req[p] \/ req'[p] = Libre
  BY Finie DEF IInv, TypeOK
<1>2. TypeOK'
  BY <1>1 DEF IInv, TypeOK
<1>3. \A p \in Requetes : req'[p] = req[p] \/ Sain(req[p])'
  BY <1>1, FormeLibre DEF Sain
<1> QED BY <1>2, <1>3, Calme

\* What a company deposits, and what the developer records of a bid.
LEMMA Deposee ==
    ASSUME Domaines, IInv, NEW q \in Requetes,
           NEW m \in Prix, NEW r \in Remises, NEW L \in SUBSET Lignes, DeposerOffre(q, m, r, L)
    PROVE  \E o \in Offre : /\ Ecrire(req[q].offre, o) /\ o.entreprise = req[q].e
                            /\ o.source = "PORTAIL"
<1> DEFINE o == [entreprise |-> req[q].e, montant |-> m, remise |-> r, lignes |-> L,
                 retenues |-> {}, statut |-> "RECUE", source |-> "PORTAIL"]
<1>1. req[q].e \in Entreprises
  BY FormeRequete DEF DeposerOffre, En, IInv, TypeOK
<1>2. o \in Offre
  BY <1>1 DEF Offre, OffreStatut
<1>3. Ecrire(req[q].offre, o)
  BY DEF DeposerOffre
<1> QED BY <1>2, <1>3

LEMMA Saisie ==
    ASSUME Domaines, IInv, NEW q \in Requetes,
           NEW m \in Prix \cup {NUL, OMIS}, NEW r \in Remises \cup {OMIS},
           NEW s \in {"RECUE", "ECARTEE", OMIS}, SaisirOffre(q, m, r, s)
    PROVE  \E o \in Offre :
              /\ Ecrire(req[q].offre, o) /\ o.entreprise = req[q].e
              /\ o.source = IF req[q].offre = 0 THEN "SAISIE" ELSE offres[req[q].offre].source
<1> DEFINE n == req[q].offre
           nouvelle == [entreprise |-> req[q].e, montant |-> NUL, remise |-> 0,
                        lignes |-> {}, retenues |-> {}, statut |-> "ATTENDUE",
                        source |-> "SAISIE"]
           b == IF n = 0 THEN nouvelle ELSE offres[n]
           o == [b EXCEPT !.montant = Donne(m, @), !.remise = Donne(r, @),
                          !.statut = Donne(s, @)]
<1>1. req[q].e \in Entreprises /\ n \in Nat /\ (n = 0 \/ Vise(req[q]))
  BY FormeRequete DEF SaisirOffre, En, IInv, TypeOK, Sain
<1>2. b \in Offre /\ b.entreprise = req[q].e
      /\ b.source = IF n = 0 THEN "SAISIE" ELSE offres[n].source
  <2>1. nouvelle \in Offre
    BY <1>1 DEF Offre, OffreStatut, Domaines
  <2>2. n # 0 => offres[n] \in Offre /\ offres[n].entreprise = req[q].e
    BY <1>1, Bornes DEF Vise, IInv
  <2> QED BY <2>1, <2>2
<1>3. Ecrire(n, o)
  BY DEF SaisirOffre
<1> HIDE DEF b, n
<1>4. /\ Donne(m, b.montant) \in Prix \cup {NUL} /\ Donne(r, b.remise) \in Remises
      /\ Donne(s, b.statut) \in OffreStatut
  BY <1>2 DEF Donne, Offre, OffreStatut
<1>5. o \in Offre /\ o.entreprise = b.entreprise /\ o.source = b.source
  BY <1>2, <1>4 DEF Offre
<1> HIDE DEF o
<1> QED BY <1>2, <1>3, <1>5 DEF n

LEMMA StepDeposer ==
    ASSUME Domaines, IInv, NEW q \in Requetes,
           NEW m \in Prix, NEW r \in Remises, NEW L \in SUBSET Lignes, DeposerOffre(q, m, r, L)
    PROVE  IInv'
<1>1. PICK o \in Offre : Ecrire(req[q].offre, o) /\ o.entreprise = req[q].e
  BY Deposee
<1>2. /\ req[q].e \in Entreprises /\ req[q].offre \in Nat
      /\ req[q].offre = 0 \/ Vise(req[q])
  BY FormeRequete DEF DeposerOffre, En, IInv, TypeOK, Sain
<1>3. invitations' \in [Entreprises -> Invitation]
  BY <1>2, FormeInvitation DEF DeposerOffre, Repondue, IInv, TypeOK
<1>4. /\ offres' \in Seq(Offre)
      /\ \A k \in DOMAIN offres :
            k \in DOMAIN offres' /\ offres'[k].entreprise = offres[k].entreprise
  BY <1>1, <1>2, Ecrite DEF Vise, IInv
<1>5. Finir(q) /\ UNCHANGED <<jour, soumission, adjudication, decisions, contrats>>
  BY DEF DeposerOffre
<1> QED BY <1>3, <1>4, <1>5, OffreSaine

LEMMA StepSaisir ==
    ASSUME Domaines, IInv, NEW q \in Requetes,
           NEW m \in Prix \cup {NUL, OMIS}, NEW r \in Remises \cup {OMIS},
           NEW s \in {"RECUE", "ECARTEE", OMIS}, SaisirOffre(q, m, r, s)
    PROVE  IInv'
<1>1. PICK o \in Offre : Ecrire(req[q].offre, o) /\ o.entreprise = req[q].e
  BY Saisie
<1>2. /\ req[q].e \in Entreprises /\ req[q].offre \in Nat
      /\ req[q].offre = 0 \/ Vise(req[q])
  BY FormeRequete DEF SaisirOffre, En, IInv, TypeOK, Sain
<1>3. invitations' \in [Entreprises -> Invitation]
  <2>1. invitations' = invitations \/ invitations' = Repondue(req[q].e)
    BY DEF SaisirOffre
  <2> QED BY <1>2, <2>1, FormeInvitation DEF Repondue, IInv, TypeOK
<1>4. /\ offres' \in Seq(Offre)
      /\ \A k \in DOMAIN offres :
            k \in DOMAIN offres' /\ offres'[k].entreprise = offres[k].entreprise
  BY <1>1, <1>2, Ecrite DEF Vise, IInv
<1>5. Finir(q) /\ UNCHANGED <<jour, soumission, adjudication, decisions, contrats>>
  BY DEF SaisirOffre
<1> QED BY <1>3, <1>4, <1>5, OffreSaine

\* The lines of a bid and nothing else.
LEMMA LignesFixees ==
    ASSUME TypeOK, NEW n \in DOMAIN offres, NEW L \in SUBSET Lignes,
           offres' = [offres EXCEPT ![n].lignes = L, ![n].retenues = {}]
    PROVE  /\ offres' \in Seq(Offre) /\ DOMAIN offres' = DOMAIN offres
           /\ \A k \in DOMAIN offres : /\ offres'[k].entreprise = offres[k].entreprise
                                       /\ offres'[k].source = offres[k].source
<1> DEFINE o == [offres[n] EXCEPT !.lignes = L, !.retenues = {}]
<1>1. offres[n] \in Offre /\ n \in Nat /\ n # 0
  BY Bornes
<1>2. /\ o \in Offre /\ o.entreprise = offres[n].entreprise
      /\ o.source = offres[n].source
  BY <1>1 DEF Offre
<1>3. offres' = [offres EXCEPT ![n] = o]
  BY <1>1 DEF Offre
<1> HIDE DEF o
<1>4. Ecrire(n, o)
  BY <1>1, <1>3 DEF Ecrire
<1> QED BY <1>1, <1>2, <1>4, Ecrite

LEMMA StepLignes ==
    ASSUME IInv, NEW q \in Requetes, NEW L \in SUBSET Lignes, FixerLignes(q, L)
    PROVE  IInv'
<1>1. req[q].offre \in DOMAIN offres
  BY DEF FixerLignes, En, IInv, Sain
<1>2. /\ offres' = [offres EXCEPT ![req[q].offre].lignes = L, ![req[q].offre].retenues = {}]
      /\ Finir(q) /\ UNCHANGED <<jour, soumission, invitations, adjudication, decisions, contrats>>
  BY DEF FixerLignes
<1>3. /\ offres' \in Seq(Offre) /\ DOMAIN offres' = DOMAIN offres
      /\ \A k \in DOMAIN offres : offres'[k].entreprise = offres[k].entreprise
  BY <1>1, <1>2, LignesFixees DEF IInv
<1> QED BY <1>2, <1>3, OffreSaine DEF IInv, TypeOK

(***************************************************************************)
(* Contracts                                                               *)
(***************************************************************************)
\* A status or an amendment: whom the contract is with, for what, stays.
LEMMA ContratRetouche ==
    ASSUME Domaines, IInv, NEW n \in DOMAIN contrats, NEW c \in Contrat,
           contrats' = [contrats EXCEPT ![n] = c],
           c.decision = contrats[n].decision, c.montant = contrats[n].montant,
           c.entreprise = contrats[n].entreprise,
           UNCHANGED <<jour, soumission, invitations, offres, adjudication, decisions>>,
           req' \in [Requetes -> Requete],
           \A p \in Requetes : req'[p] = req[p] \/ req'[p] = Libre
    PROVE  IInv'
<1>1. contrats' \in Seq(Contrat) /\ DOMAIN contrats' = DOMAIN contrats
  BY DEF IInv, TypeOK
<1>2. \A k \in DOMAIN contrats : /\ contrats'[k].decision = contrats[k].decision
                                 /\ contrats'[k].montant = contrats[k].montant
                                 /\ contrats'[k].entreprise = contrats[k].entreprise
  OBVIOUS
<1>3. TypeOK'
  BY <1>1 DEF IInv, TypeOK
<1>4. \A p \in Requetes : req'[p] = req[p] \/ Sain(req[p])'
  BY FormeLibre DEF Sain
<1> QED BY <1>1, <1>2, <1>3, <1>4, Calme

LEMMA FormeContrat ==
    ASSUME NEW c \in Contrat, NEW s \in ContratStatut, NEW A \in SUBSET Avenants
    PROVE  /\ [c EXCEPT !.statut = s] \in Contrat
           /\ [c EXCEPT !.statut = s].decision = c.decision
           /\ [c EXCEPT !.statut = s].montant = c.montant
           /\ [c EXCEPT !.statut = s].entreprise = c.entreprise
           /\ [c EXCEPT !.avenants = A] \in Contrat
           /\ [c EXCEPT !.avenants = A].decision = c.decision
           /\ [c EXCEPT !.avenants = A].montant = c.montant
           /\ [c EXCEPT !.avenants = A].entreprise = c.entreprise
BY DEF Contrat

LEMMA StepContratDirect ==
    ASSUME Domaines, IInv, NEW n \in DOMAIN contrats,
           \/ \E s \in StatutsContrat : ModifierContrat(n, s)
           \/ \E a \in Avenants : SupprimerAvenant(n, a)
    PROVE  IInv'
<1>1. contrats[n] \in Contrat
  BY Bornes DEF IInv
<1>2. UNCHANGED <<jour, soumission, invitations, offres, adjudication, decisions, req>>
  BY DEF ModifierContrat, SupprimerAvenant
<1>3. req' \in [Requetes -> Requete] /\ \A p \in Requetes : req'[p] = req[p] \/ req'[p] = Libre
  BY <1>2 DEF IInv, TypeOK
<1>4. ASSUME NEW s \in StatutsContrat, ModifierContrat(n, s)
      PROVE  IInv'
  <2> DEFINE c == [contrats[n] EXCEPT !.statut = s]
  <2>1. s \in ContratStatut /\ {} \in SUBSET Avenants
    BY DEF Domaines
  <2>2. /\ c \in Contrat /\ c.decision = contrats[n].decision
        /\ c.montant = contrats[n].montant /\ c.entreprise = contrats[n].entreprise
    BY <1>1, <2>1, FormeContrat
  <2>3. contrats' = [contrats EXCEPT ![n] = c]
    BY <1>4 DEF ModifierContrat
  <2> HIDE DEF c
  <2> QED BY <1>2, <1>3, <2>2, <2>3, ContratRetouche
<1>5. ASSUME NEW a \in Avenants, SupprimerAvenant(n, a)
      PROVE  IInv'
  <2> DEFINE A == contrats[n].avenants \ {a}
             c == [contrats[n] EXCEPT !.avenants = A]
  <2>1. A \in SUBSET Avenants /\ "BROUILLON" \in ContratStatut
    BY <1>1 DEF Contrat, ContratStatut
  <2>2. contrats' = [contrats EXCEPT ![n] = c]
    BY <1>5 DEF SupprimerAvenant
  <2> HIDE DEF A
  <2>3. /\ c \in Contrat /\ c.decision = contrats[n].decision
        /\ c.montant = contrats[n].montant /\ c.entreprise = contrats[n].entreprise
    BY <1>1, <2>1, FormeContrat
  <2> HIDE DEF c
  <2> QED BY <1>2, <1>3, <2>2, <2>3, ContratRetouche
<1> QED BY <1>4, <1>5

LEMMA StepAvenant ==
    ASSUME Domaines, IInv, NEW q \in Requetes, NEW a \in Avenants, CreerAvenant(q, a)
    PROVE  IInv'
<1> DEFINE n == req[q].contrat
           A == contrats[n].avenants \cup {a}
           c == [contrats[n] EXCEPT !.avenants = A]
<1>1. n \in DOMAIN contrats
  BY DEF CreerAvenant, En, IInv, Sain
<1>2. contrats[n] \in Contrat
  BY <1>1, Bornes DEF IInv
<1>3. A \in SUBSET Avenants /\ "BROUILLON" \in ContratStatut
  BY <1>2 DEF Contrat, ContratStatut
<1>4. contrats' = [contrats EXCEPT ![n] = c] /\ Finir(q)
      /\ UNCHANGED <<jour, soumission, invitations, offres, adjudication, decisions>>
  BY DEF CreerAvenant
<1> HIDE DEF A, n
<1>5. /\ c \in Contrat /\ c.decision = contrats[n].decision
      /\ c.montant = contrats[n].montant /\ c.entreprise = contrats[n].entreprise
  BY <1>2, <1>3, FormeContrat
<1>6. req' \in [Requetes -> Requete] /\ \A p \in Requetes : req'[p] = req[p] \/ req'[p] = Libre
  BY <1>4, Finie DEF IInv, TypeOK
<1> HIDE DEF c
<1> QED BY <1>1, <1>4, <1>5, <1>6, ContratRetouche

LEMMA StepCreerContrat ==
    ASSUME Domaines, IInv, NEW q \in Requetes, NEW s \in {"BROUILLON", "SIGNE"},
           CreerContrat(q, s)
    PROVE  IInv'
<1> DEFINE c == [entreprise |-> req[q].entreprise, montant |-> req[q].montant,
                 statut |-> s, decision |-> req[q].numero, avenants |-> {}]
           k == Len(contrats) + 1
<1>1. /\ req[q].etat = "contrat" /\ adjudication # NUL /\ adjudication.numero = req[q].numero
      /\ SansContrat(req[q].numero) /\ contrats' = Append(contrats, c) /\ Finir(q)
      /\ UNCHANGED <<jour, soumission, invitations, offres, adjudication, decisions>>
  BY DEF CreerContrat, En
<1>2. /\ req[q].entreprise \in Entreprises /\ req[q].montant \in Nets
      /\ req[q].numero \in 1..MaxDecisions
  BY <1>1, FormeRequete DEF IInv, TypeOK
<1>3. c \in Contrat
  <2>1. s \in ContratStatut /\ {} \in SUBSET Avenants /\ req[q].numero \in 0..MaxDecisions
    BY <1>2 DEF ContratStatut
  <2> QED BY <1>2, <2>1 DEF Contrat
<1>4. /\ c.decision = adjudication.numero /\ c.montant = adjudication.montant
      /\ c.entreprise = offres[adjudication.offre].entreprise
  BY <1>1 DEF IInv, Sain
<1>5. SansContrat(adjudication.numero)
  BY <1>1
<1> HIDE DEF c
<1>6. /\ contrats' \in Seq(Contrat) /\ k \notin DOMAIN contrats
      /\ DOMAIN contrats' = DOMAIN contrats \cup {k} /\ contrats'[k] = c
      /\ \A n \in DOMAIN contrats : contrats'[n] = contrats[n]
  <2>1. /\ Len(contrats) \in Nat /\ DOMAIN contrats = 1..Len(contrats)
        /\ contrats \in Seq(Contrat)
    BY Bornes DEF IInv, TypeOK
  <2>2. /\ contrats' \in Seq(Contrat) /\ Len(contrats') = Len(contrats) + 1
        /\ \A n \in 1..Len(contrats) : contrats'[n] = contrats[n]
        /\ contrats'[Len(contrats) + 1] = c
    BY <1>1, <1>3, <2>1
  <2>3. DOMAIN contrats' = 1..(Len(contrats) + 1)
    BY <2>2
  <2> QED BY <2>1, <2>2, <2>3
<1> HIDE DEF k
<1>7. req' \in [Requetes -> Requete] /\ \A p \in Requetes : req'[p] = req[p] \/ req'[p] = Libre
  BY <1>1, Finie DEF IInv, TypeOK
<1>8. TypeOK'
  BY <1>1, <1>6, <1>7 DEF IInv, TypeOK
<1>9. DerniereDecision'
  BY <1>1 DEF IInv, DerniereDecision
<1>10. ContratSuitDecision'
  BY <1>1, <1>4, <1>5, <1>6 DEF IInv, ContratSuitDecision, SansContrat
<1>11. ASSUME NEW p \in Requetes
       PROVE  Sain(req[p])'
  <2>1. CASE req'[p] = req[p]
    <3>1. Sain(req[p])
      BY DEF IInv
    <3> QED BY <1>1, <1>6, <2>1, <3>1 DEF Sain, Vise
  <2>2. CASE req'[p] = Libre
    BY <2>2, FormeLibre DEF Sain
  <2> QED BY <1>7, <2>1, <2>2
<1> QED BY <1>8, <1>9, <1>10, <1>11 DEF IInv

(***************************************************************************)
(* The award                                                               *)
(***************************************************************************)
LEMMA StepAdjuger ==
    ASSUME Domaines, IInv, NEW q \in Requetes, Adjuger(q)
    PROVE  IInv'
<1> DEFINE a == [numero |-> decisions + 1, offre |-> req[q].offre, montant |-> req[q].montant]
<1>1. /\ req[q].etat = "adjudication" /\ adjudication = NUL /\ decisions < MaxDecisions
      /\ decisions' = decisions + 1 /\ adjudication' = a
      /\ soumission' = [soumission EXCEPT !.statut = "ADJUGEE"]
      /\ offres' = [o \in DOMAIN offres |-> Jugee(o, req[q].offre, req[q].retenues)]
      /\ Finir(q) /\ UNCHANGED <<jour, invitations, contrats>>
  BY DEF Adjuger, En
<1>2. /\ req[q].offre \in Nat /\ req[q].montant \in Nets /\ req[q].retenues \in SUBSET Lignes
      /\ req[q].offre \in DOMAIN offres /\ decisions \in 0..MaxDecisions /\ MaxDecisions \in Nat
  BY <1>1, FormeRequete DEF IInv, TypeOK, Sain, Domaines
<1>3. a \in Adjudication /\ a.numero = decisions' /\ a.offre = req[q].offre
      /\ decisions' \in 0..MaxDecisions
  BY <1>1, <1>2 DEF Adjudication
<1> HIDE DEF a
<1>4. ASSUME NEW o \in DOMAIN offres
      PROVE  /\ Jugee(o, req[q].offre, req[q].retenues) \in Offre
             /\ Jugee(o, req[q].offre, req[q].retenues).entreprise = offres[o].entreprise
  <2>1. offres[o] \in Offre
    BY Bornes DEF IInv
  <2>2. [offres[o] EXCEPT !.statut = "RETENUE", !.retenues = req[q].retenues] \in Offre
    BY <1>2, <2>1 DEF Offre, OffreStatut
  <2>3. [offres[o] EXCEPT !.statut = "ECARTEE"] \in Offre
    BY <2>1 DEF Offre, OffreStatut
  <2> QED BY <2>1, <2>2, <2>3 DEF Jugee, Offre
<1>5. /\ offres' \in Seq(Offre) /\ DOMAIN offres' = DOMAIN offres
      /\ \A o \in DOMAIN offres : offres'[o].entreprise = offres[o].entreprise
  <2>1. Len(offres) \in Nat /\ DOMAIN offres = 1..Len(offres)
    BY Bornes DEF IInv
  <2>2. offres' \in [1..Len(offres) -> Offre]
    BY <1>1, <1>4, <2>1
  <2> QED BY <1>1, <1>4, <2>1, <2>2, SeqDef
<1>6. soumission' \in Soumission
  BY <1>1 DEF IInv, TypeOK, Soumission, SoumissionStatut
<1>7. req' \in [Requetes -> Requete] /\ \A p \in Requetes : req'[p] = req[p] \/ req'[p] = Libre
  BY <1>1, Finie DEF IInv, TypeOK
<1>8. TypeOK'
  BY <1>1, <1>3, <1>5, <1>6, <1>7 DEF IInv, TypeOK
<1>9. DerniereDecision'
  BY <1>1, <1>2, <1>3, <1>5 DEF DerniereDecision
<1>10. \A n \in DOMAIN contrats : contrats[n].decision = 0
  BY <1>1 DEF IInv, ContratSuitDecision
<1>11. ContratSuitDecision'
  BY <1>1, <1>10 DEF ContratSuitDecision
<1>12. ASSUME NEW p \in Requetes
       PROVE  Sain(req[p])'
  <2>1. CASE req'[p] = req[p]
    <3>1. Sain(req[p]) /\ (req[p].etat = "contrat" => req[p].numero \in Nat)
      BY FormeRequete DEF IInv, TypeOK
    <3>2. req[p].etat = "contrat" => req[p].numero # decisions' /\ req[p].numero <= decisions'
      BY <1>1, <1>2, <3>1 DEF Sain
    <3> QED BY <1>1, <1>3, <1>5, <2>1, <3>1, <3>2 DEF Sain, Vise
  <2>2. CASE req'[p] = Libre
    BY <2>2, FormeLibre DEF Sain
  <2> QED BY <1>7, <2>1, <2>2
<1> QED BY <1>8, <1>9, <1>11, <1>12 DEF IInv

LEMMA StepAnnuler ==
    ASSUME Domaines, IInv, NEW q \in Requetes, Annuler(q)
    PROVE  IInv'
<1>1. /\ adjudication # NUL /\ adjudication.numero = req[q].numero /\ adjudication' = NUL
      /\ contrats' = [n \in DOMAIN contrats |->
            IF contrats[n].decision = req[q].numero THEN [contrats[n] EXCEPT !.decision = 0]
                                                    ELSE contrats[n]]
      /\ soumission' = [soumission EXCEPT !.statut = "EN_COMPARAISON"]
      /\ offres' = [o \in DOMAIN offres |->
            [offres[o] EXCEPT !.statut = "RECUE", !.retenues = {}]]
      /\ Finir(q) /\ UNCHANGED <<jour, invitations, decisions>>
  BY DEF Annuler
<1>2. ASSUME NEW o \in DOMAIN offres
      PROVE  /\ [offres[o] EXCEPT !.statut = "RECUE", !.retenues = {}] \in Offre
             /\ [offres[o] EXCEPT !.statut = "RECUE", !.retenues = {}].entreprise
                   = offres[o].entreprise
  BY Bornes DEF IInv, Offre, OffreStatut
<1>3. /\ offres' \in Seq(Offre) /\ DOMAIN offres' = DOMAIN offres
      /\ \A o \in DOMAIN offres : offres'[o].entreprise = offres[o].entreprise
  <2>1. Len(offres) \in Nat /\ DOMAIN offres = 1..Len(offres)
    BY Bornes DEF IInv
  <2>2. offres' \in [1..Len(offres) -> Offre]
    BY <1>1, <1>2, <2>1
  <2> QED BY <1>1, <1>2, <2>1, <2>2, SeqDef
<1>4. ASSUME NEW n \in DOMAIN contrats
      PROVE  contrats'[n] \in Contrat /\ contrats'[n].decision = 0
  <2>1. contrats[n] \in Contrat /\ contrats[n].decision \in {0, req[q].numero}
    BY <1>1, Bornes DEF IInv, ContratSuitDecision
  <2>2. [contrats[n] EXCEPT !.decision = 0] \in Contrat
        /\ [contrats[n] EXCEPT !.decision = 0].decision = 0
    BY <2>1 DEF Contrat, Domaines
  <2> QED BY <1>1, <2>1, <2>2
<1>5. contrats' \in Seq(Contrat) /\ DOMAIN contrats' = DOMAIN contrats
  <2>1. Len(contrats) \in Nat /\ DOMAIN contrats = 1..Len(contrats)
    BY Bornes DEF IInv
  <2>2. DOMAIN contrats' = DOMAIN contrats /\ contrats' \in [1..Len(contrats) -> Contrat]
    BY <1>1, <1>4, <2>1
  <2> QED BY <2>1, <2>2, SeqDef
<1>6. soumission' \in Soumission
  BY <1>1 DEF IInv, TypeOK, Soumission, SoumissionStatut
<1>7. req' \in [Requetes -> Requete] /\ \A p \in Requetes : req'[p] = req[p] \/ req'[p] = Libre
  BY <1>1, Finie DEF IInv, TypeOK
<1>8. TypeOK'
  BY <1>1, <1>3, <1>5, <1>6, <1>7 DEF IInv, TypeOK
<1>9. DerniereDecision' /\ ContratSuitDecision'
  BY <1>1, <1>4, <1>5 DEF DerniereDecision, ContratSuitDecision
<1>10. ASSUME NEW p \in Requetes
       PROVE  Sain(req[p])'
  <2>1. CASE req'[p] = req[p]
    <3>1. Sain(req[p])
      BY DEF IInv
    <3> QED BY <1>1, <1>3, <1>5, <2>1, <3>1 DEF Sain, Vise
  <2>2. CASE req'[p] = Libre
    BY <2>2, FormeLibre DEF Sain
  <2> QED BY <1>7, <2>1, <2>2
<1> QED BY <1>8, <1>9, <1>10 DEF IInv

(***************************************************************************)
(* Any number of requests at once                                          *)
(***************************************************************************)
LEMMA StepInv ==
    ASSUME Domaines, IInv, [Next]_vars
    PROVE  IInv'
<1>1. CASE UNCHANGED vars
  <2>1. IInv' <=> IInv
    BY <1>1 DEF vars, IInv, TypeOK, DerniereDecision, Sain, Vise, ContratSuitDecision
  <2> QED BY <2>1
<1>2. CASE Immediat
  BY <1>2, StepInvitations, StepContratDirect, StepTemps DEF Immediat
<1>3. ASSUME NEW q \in Requetes, Portail(q)
      PROVE  IInv'
  BY <1>3, LireConsultation, LireOffre, StepDeposer, StepReponse DEF Portail
<1>4. ASSUME NEW q \in Requetes, Dossier(q)
      PROVE  IInv'
  BY <1>4, LireConsultation, LireOffre, StepTender, StepEnvoyerUne, StepReponse, StepSaisir,
     StepLignes DEF Dossier
<1>5. ASSUME NEW q \in Requetes, Decision(q)
      PROVE  IInv'
  BY <1>5, LireDecision, StepAdjuger, StepAnnuler, StepCreerContrat, StepAvenant DEF Decision
<1>6. ASSUME NEW q \in Requetes, Interrompre(q)
      PROVE  IInv'
  BY <1>6, StepTemps
<1> QED BY <1>1, <1>2, <1>3, <1>4, <1>5, <1>6 DEF Next

LEMMA InitInv ==
    ASSUME Domaines, Init
    PROVE  IInv
<1>1. TypeOK
  <2>1. jour \in 0..Horizon /\ decisions \in 0..MaxDecisions
    BY DEF Init, Domaines
  <2>2. soumission \in Soumission
    BY DEF Init, Soumission, SoumissionStatut
  <2>3. invitations \in [Entreprises -> Invitation]
    BY DEF Init, Invitation
  <2>4. offres \in Seq(Offre) /\ contrats \in Seq(Contrat) /\ adjudication \in Adjudication \cup {NUL}
    BY DEF Init
  <2>5. req \in [Requetes -> Requete]
    BY FormeLibre DEF Init
  <2> QED BY <2>1, <2>2, <2>3, <2>4, <2>5 DEF TypeOK
<1>2. DerniereDecision /\ ContratSuitDecision
  BY DEF Init, DerniereDecision, ContratSuitDecision
<1>3. \A q \in Requetes : Sain(req[q])
  BY LibreSaine DEF Init
<1> QED BY <1>1, <1>2, <1>3 DEF IInv

\* What the requests hold stays about rows that are there, and the award in
\* force is the last one pronounced.
THEOREM Invariance ==
    ASSUME Domaines
    PROVE  Spec => []IInv
<1>1. Init => IInv
  BY InitInv
<1>2. IInv /\ [Next]_vars => IInv'
  BY StepInv
<1> QED BY <1>1, <1>2, PTL DEF Spec

\* creerContratDepuisAdjudication: however awards are pronounced and withdrawn
\* while contracts are written, a contract attached to an award is for its
\* company and its amount, and an award has one contract.
THEOREM ContratsFideles ==
    ASSUME Domaines
    PROVE  Spec => []ContratSuitDecision
<1>1. IInv => ContratSuitDecision
  BY DEF IInv
<1> QED BY <1>1, Invariance, PTL

(***************************************************************************)
(* One request at a time                                                   *)
(***************************************************************************)
\* A tender that is not awarded has no award.
LEMMA SansDecision ==
    ASSUME SInv, soumission.statut # "ADJUGEE"
    PROVE  adjudication = NUL
BY DEF SInv, DecisionFidele

\* A step that writes neither the tender nor the bids nor the award.
LEMMA SeulCalme ==
    ASSUME SInv, IInv', UNCHANGED <<soumission, offres, adjudication>>,
           \A q \in Requetes : req'[q] = req[q] \/ Actuel(req[q])'
    PROVE  SInv'
<1>1. DecisionFidele'
  BY DEF SInv, DecisionFidele
<1>2. ASSUME NEW q \in Requetes, req'[q] = req[q]
      PROVE  Actuel(req[q])'
  <2>1. Actuel(req[q])
    BY DEF SInv
  <2> QED BY <1>2, <2>1 DEF Actuel, OffresDe
<1> QED BY <1>1, <1>2 DEF SInv

LEMMA SeulLecture ==
    ASSUME SInv, IInv', NEW q \in Requetes, NEW r \in Requete, Garder(q, r), Actuel(r),
           UNCHANGED <<soumission, offres, adjudication>>
    PROVE  SInv'
<1>1. /\ req'[q] = r /\ \A p \in Requetes : p # q => req'[p] = req[p]
  BY Garde DEF SInv, IInv, TypeOK
<1>2. Actuel(req[q])'
  BY <1>1 DEF Actuel, OffresDe
<1> QED BY <1>1, <1>2, SeulCalme

\* Requests that read, or that write for the others to see nothing of it here.
LEMMA LibreActuelle == Actuel(Libre) /\ Actuel(Libre)'
BY FormeLibre DEF Actuel

LEMMA SeulFini ==
    ASSUME SInv, IInv', UNCHANGED <<soumission, offres, adjudication>>,
           \A q \in Requetes : req'[q] = req[q] \/ req'[q] = Libre
    PROVE  SInv'
<1>1. ASSUME NEW q \in Requetes, req'[q] = Libre
      PROVE  Actuel(req[q])'
  BY <1>1, FormeLibre DEF Actuel
<1> QED BY <1>1, SeulCalme

LEMMA SeulConsultation ==
    ASSUME SInv, IInv', NEW q \in Requetes,
           \/ LireModification(q)
           \/ \E E \in SUBSET Entreprises : LireEnvoi(q, E)
           \/ \E e \in Entreprises : LireSession(q, e) \/ LireRelance(q, e) \/ EnvoyerUne(q, e)
    PROVE  SInv'
<1>1. CASE LireModification(q)
  <2> DEFINE r == [etat |-> "modification", lue |-> soumission]
  <2>1. r \in Requete
    BY DEF Requete, SInv, IInv, TypeOK
  <2>2. adjudication = NUL
    BY <1>1, SansDecision DEF LireModification
  <2>3. Actuel(r)
    BY <2>2 DEF Actuel
  <2> QED BY <1>1, <2>1, <2>3, SeulLecture DEF LireModification
<1>2. ASSUME NEW E \in SUBSET Entreprises, LireEnvoi(q, E)
      PROVE  SInv'
  <2> DEFINE r == [etat |-> "envoi", reste |-> E, statut |-> soumission.statut,
                   envoyees |-> FALSE]
  <2>1. soumission.statut \in SoumissionStatut
    BY DEF SInv, IInv, TypeOK, Soumission
  <2>2. r \in Requete
    BY <2>1 DEF Requete
  <2>3. adjudication = NUL
    BY <1>2, SansDecision DEF LireEnvoi
  <2>4. Actuel(r)
    BY <2>3 DEF Actuel
  <2> QED BY <1>2, <2>2, <2>4, SeulLecture DEF LireEnvoi
<1>3. ASSUME NEW e \in Entreprises, LireSession(q, e)
      PROVE  SInv'
  <2> DEFINE r == [etat |-> "session", e |-> e]
  <2>1. r \in Requete
    BY DEF Requete
  <2>2. adjudication = NUL
    BY <1>3, SansDecision DEF LireSession, DepotOuvert, EnConsultation
  <2>3. Actuel(r)
    BY <2>2 DEF Actuel
  <2> QED BY <1>3, <2>1, <2>3, SeulLecture DEF LireSession
<1>4. ASSUME NEW e \in Entreprises, LireRelance(q, e)
      PROVE  SInv'
  <2> DEFINE r == [etat |-> "relance", e |-> e]
  <2>1. r \in Requete /\ Actuel(r)
    BY DEF Requete, Actuel
  <2> QED BY <1>4, <2>1, SeulLecture DEF LireRelance
<1>5. ASSUME NEW e \in Entreprises, EnvoyerUne(q, e)
      PROVE  SInv'
  <2> DEFINE r == [req[q] EXCEPT !.reste = @ \ {e}, !.envoyees = TRUE]
  <2>1. /\ req[q].etat = "envoi" /\ req[q] \in Requete /\ Actuel(req[q]) /\ Garder(q, r)
        /\ UNCHANGED <<soumission, offres, adjudication>>
    BY <1>5 DEF EnvoyerUne, En, SInv, IInv, TypeOK
  <2>2. r \in Requete /\ r.etat = "envoi"
    BY <2>1, FormeEnvoi
  <2>3. adjudication = NUL
    BY <2>1 DEF Actuel
  <2> HIDE DEF r
  <2>4. Actuel(r)
    BY <2>2, <2>3 DEF Actuel
  <2> QED BY <2>1, <2>2, <2>4, SeulLecture
<1> QED BY <1>1, <1>2, <1>3, <1>4, <1>5

LEMMA SeulOffre ==
    ASSUME SInv, IInv', NEW q \in Requetes,
           \/ \E n \in 0..MaxOffres : LireDepot(q, n)
           \/ \E e \in Entreprises, n \in 0..MaxOffres : LireSaisie(q, e, n)
           \/ \E n \in DOMAIN offres : LireLignes(q, n)
    PROVE  SInv'
<1>1. ASSUME NEW n \in 0..MaxOffres, LireDepot(q, n)
      PROVE  SInv'
  <2> DEFINE e == req[q].e
             r == [etat |-> "depot", e |-> e, offre |-> n]
  <2>1. req[q] \in Requete /\ req[q].etat = "session" /\ Actuel(req[q])
    BY <1>1 DEF LireDepot, En, SInv, IInv, TypeOK
  <2>2. r \in Requete
    BY <2>1, FormeRequete DEF Requete
  <2>3. adjudication = NUL
    BY <2>1 DEF Actuel
  <2>4. n = 0 => OffresDe(e) = {}
    BY <1>1, Bornes DEF LireDepot, Trouvee, OffresDe, SInv, IInv
  <2>5. Garder(q, r) /\ UNCHANGED <<soumission, offres, adjudication>>
    BY <1>1 DEF LireDepot
  <2> HIDE DEF e
  <2>6. Actuel(r)
    BY <2>3, <2>4 DEF Actuel
  <2> QED BY <2>2, <2>5, <2>6, SeulLecture
<1>2. ASSUME NEW e \in Entreprises, NEW n \in 0..MaxOffres, LireSaisie(q, e, n)
      PROVE  SInv'
  <2> DEFINE p == n # 0 /\ offres[n].source = "PORTAIL"
             r == [etat |-> "saisie", e |-> e, offre |-> n, portail |-> p]
  <2>1. p \in BOOLEAN
    OBVIOUS
  <2>2. Garder(q, r) /\ UNCHANGED <<soumission, offres, adjudication>>
    BY <1>2 DEF LireSaisie
  <2> HIDE DEF p
  <2>3. r \in Requete
    BY <2>1 DEF Requete
  <2>4. adjudication = NUL
    BY <1>2, SansDecision DEF LireSaisie
  <2>5. n = 0 => OffresDe(e) = {}
    BY <1>2, Bornes DEF LireSaisie, Trouvee, OffresDe, SInv, IInv
  <2>6. Actuel(r)
    BY <2>4, <2>5 DEF Actuel
  <2> QED BY <2>2, <2>3, <2>6, SeulLecture
<1>3. ASSUME NEW n \in DOMAIN offres, LireLignes(q, n)
      PROVE  SInv'
  <2> DEFINE r == [etat |-> "lignes", offre |-> n]
  <2>1. n \in Nat
    BY Bornes DEF SInv, IInv
  <2>2. adjudication = NUL
    BY <1>3, SansDecision DEF LireLignes
  <2>3. r \in Requete /\ Actuel(r)
    BY <2>1, <2>2 DEF Requete, Actuel
  <2> QED BY <1>3, <2>3, SeulLecture DEF LireLignes
<1> QED BY <1>1, <1>2, <1>3

LEMMA SeulDecision ==
    ASSUME Domaines, SInv, IInv', NEW q \in Requetes,
           \/ \E n \in DOMAIN offres, R \in SUBSET Lignes : LireAdjudication(q, n, R)
           \/ LireAnnulation(q)
           \/ LireContrat(q)
           \/ \E n \in DOMAIN contrats : LireAvenant(q, n)
    PROVE  SInv'
<1>0. req[q]' \in Requete
  BY DEF IInv, TypeOK
<1>1. ASSUME NEW n \in DOMAIN offres, NEW R \in SUBSET Lignes, LireAdjudication(q, n, R)
      PROVE  SInv'
  <2> DEFINE m == MontantRetenu(offres[n].montant, offres[n].remise, R)
             r == [etat |-> "adjudication", offre |-> n, retenues |-> R, montant |-> m]
  <2>1. /\ adjudication = NUL /\ Garder(q, r)
        /\ UNCHANGED <<soumission, offres, adjudication>>
    BY <1>1 DEF LireAdjudication
  <2>2. m = MontantRetenu(offres[n].montant, offres[n].remise, R)
    OBVIOUS
  <2> HIDE DEF m
  <2>3. Actuel(r)
    BY <2>1, <2>2 DEF Actuel
  <2>4. r \in Requete
    BY <1>0, <2>1 DEF Garder, SInv, IInv, TypeOK
  <2> QED BY <2>1, <2>3, <2>4, SeulLecture
<1>2. CASE LireAnnulation(q) \/ LireContrat(q) \/ \E n \in DOMAIN contrats : LireAvenant(q, n)
  <2>1. PICK r : Garder(q, r) /\ r.etat \in {"annulation", "contrat", "avenant"}
    <3>1. CASE LireAnnulation(q)
      BY <3>1 DEF LireAnnulation
    <3>2. CASE LireContrat(q)
      BY <3>2 DEF LireContrat
    <3>3. CASE \E n \in DOMAIN contrats : LireAvenant(q, n)
      BY <3>3 DEF LireAvenant
    <3> QED BY <1>2, <3>1, <3>2, <3>3
  <2>2. r \in Requete
    BY <1>0, <2>1 DEF Garder, SInv, IInv, TypeOK
  <2>3. Actuel(r)
    BY <2>1 DEF Actuel
  <2>4. UNCHANGED <<soumission, offres, adjudication>>
    BY <1>2 DEF LireAnnulation, LireContrat, LireAvenant
  <2> QED BY <2>1, <2>2, <2>3, <2>4, SeulLecture
<1> QED BY <1>1, <1>2

\* The request that steps is the only one.
LEMMA Seule ==
    ASSUME UneALaFois, SInv, NEW q \in Requetes, Finir(q)
    PROVE  \A p \in Requetes : Actuel(req[p])'
<1>1. \A p \in Requetes : req'[p] = Libre
  BY Finie DEF UneALaFois, SInv, IInv, TypeOK
<1> QED BY <1>1, FormeLibre DEF Actuel

LEMMA SeulTender ==
    ASSUME UneALaFois, SInv, IInv', NEW q \in Requetes,
           \/ FinEnvoi(q)
           \/ \E s \in StatutsSaisis \cup {OMIS}, l \in Date \cup {NUL, OMIS},
                 c \in BOOLEAN \cup {OMIS} : Modifier(q, s, l, c)
    PROVE  SInv'
<1>1. /\ req[q].etat \in {"envoi", "modification"} /\ Finir(q)
      /\ UNCHANGED <<offres, adjudication>>
  BY DEF FinEnvoi, Modifier, En
<1>2. adjudication = NUL
  BY <1>1 DEF SInv, Actuel
<1>3. DecisionFidele'
  BY <1>1, <1>2 DEF SInv, DecisionFidele
<1> QED BY <1>1, <1>3, Seule DEF SInv

LEMMA SeulEcrite ==
    ASSUME Domaines, UneALaFois, SInv, IInv', NEW q \in Requetes,
           \/ \E m \in Prix, r \in Remises, L \in SUBSET Lignes : DeposerOffre(q, m, r, L)
           \/ \E m \in Prix \cup {NUL, OMIS}, r \in Remises \cup {OMIS},
                 s \in {"RECUE", "ECARTEE", OMIS} : SaisirOffre(q, m, r, s)
    PROVE  SInv'
<1>1. /\ req[q].etat \in {"depot", "saisie"} /\ Finir(q) /\ adjudication' = adjudication
      /\ req[q] \in Requete /\ Actuel(req[q]) /\ Sain(req[q])
  BY DEF DeposerOffre, SaisirOffre, En, SInv, IInv, TypeOK
<1> DEFINE n == req[q].offre
           e == req[q].e
<1>2. PICK o \in Offre : Ecrire(n, o) /\ o.entreprise = e
  BY Deposee, Saisie DEF SInv
<1>3. /\ adjudication = NUL /\ n \in Nat /\ (n = 0 => OffresDe(e) = {})
      /\ n = 0 \/ (n \in DOMAIN offres /\ offres[n].entreprise = e)
  BY <1>1, FormeRequete DEF Actuel, Sain, Vise
<1> HIDE DEF n, e
<1>4. \A k, m \in DOMAIN offres : offres[k].entreprise = offres[m].entreprise => k = m
  BY DEF SInv, DecisionFidele
<1>5. \A k, m \in DOMAIN offres' : offres'[k].entreprise = offres'[m].entreprise => k = m
  <2>1. CASE n = 0
    <3>1. /\ DOMAIN offres' = DOMAIN offres \cup {Len(offres) + 1}
          /\ offres'[Len(offres) + 1] = o
          /\ \A k \in DOMAIN offres : offres'[k] = offres[k]
      BY <1>2, <1>3, <2>1, Ecrite DEF SInv, IInv
    <3>2. \A k \in DOMAIN offres : offres[k].entreprise # e
      BY <1>3, <2>1 DEF OffresDe
    <3> QED BY <1>2, <1>4, <3>1, <3>2
  <2>2. CASE n # 0
    <3>1. /\ DOMAIN offres' = DOMAIN offres
          /\ \A k \in DOMAIN offres : offres'[k].entreprise = offres[k].entreprise
      BY <1>2, <1>3, <2>2, Ecrite DEF SInv, IInv
    <3> QED BY <1>4, <3>1
  <2> QED BY <2>1, <2>2
<1>6. DecisionFidele'
  BY <1>1, <1>3, <1>5 DEF DecisionFidele
<1> QED BY <1>1, <1>6, Seule DEF SInv

LEMMA SeulLignes ==
    ASSUME UneALaFois, SInv, IInv', NEW q \in Requetes, NEW L \in SUBSET Lignes, FixerLignes(q, L)
    PROVE  SInv'
<1>1. /\ req[q].etat = "lignes" /\ Finir(q) /\ adjudication' = adjudication
      /\ offres' = [offres EXCEPT ![req[q].offre].lignes = L, ![req[q].offre].retenues = {}]
  BY DEF FixerLignes, En
<1>2. adjudication = NUL /\ req[q].offre \in DOMAIN offres
  BY <1>1 DEF SInv, IInv, Actuel, Sain
<1>3. /\ DOMAIN offres' = DOMAIN offres
      /\ \A k \in DOMAIN offres : offres'[k].entreprise = offres[k].entreprise
  BY <1>1, <1>2, LignesFixees DEF SInv, IInv
<1>4. DecisionFidele'
  BY <1>1, <1>2, <1>3 DEF SInv, DecisionFidele
<1> QED BY <1>1, <1>4, Seule DEF SInv

LEMMA SeulAdjuger ==
    ASSUME UneALaFois, SInv, IInv', NEW q \in Requetes, Adjuger(q)
    PROVE  SInv'
<1> DEFINE n == req[q].offre
           R == req[q].retenues
<1>1. /\ req[q].etat = "adjudication" /\ Finir(q)
      /\ adjudication' = [numero |-> decisions + 1, offre |-> n, montant |-> req[q].montant]
      /\ soumission' = [soumission EXCEPT !.statut = "ADJUGEE"]
      /\ offres' = [o \in DOMAIN offres |-> Jugee(o, n, R)]
  BY DEF Adjuger, En
<1>2. /\ n \in DOMAIN offres
      /\ req[q].montant = MontantRetenu(offres[n].montant, offres[n].remise, R)
  BY <1>1 DEF SInv, IInv, Actuel, Sain
<1>3. soumission'.statut = "ADJUGEE"
  BY <1>1 DEF SInv, IInv, TypeOK, Soumission
<1> HIDE DEF n, R
<1>4. ASSUME NEW o \in DOMAIN offres
      PROVE  /\ Jugee(o, n, R).entreprise = offres[o].entreprise
             /\ Jugee(o, n, R).montant = offres[o].montant
             /\ Jugee(o, n, R).remise = offres[o].remise
             /\ Jugee(o, n, R).statut = IF o = n THEN "RETENUE" ELSE "ECARTEE"
             /\ o = n => Jugee(o, n, R).retenues = R
  BY Bornes DEF Jugee, Offre, SInv, IInv
<1>5. DOMAIN offres' = DOMAIN offres /\ \A o \in DOMAIN offres : offres'[o] = Jugee(o, n, R)
  BY <1>1
<1>6. adjudication'.offre = n /\ adjudication'.montant = req[q].montant
  BY <1>1
<1>7. \A k, m \in DOMAIN offres' : offres'[k].entreprise = offres'[m].entreprise => k = m
  BY <1>4, <1>5 DEF SInv, DecisionFidele
<1>8. adjudication'.montant
         = MontantRetenu(offres'[n].montant, offres'[n].remise, offres'[n].retenues)
  BY <1>2, <1>4, <1>5, <1>6
<1>9. DecisionFidele'
  BY <1>3, <1>4, <1>5, <1>6, <1>7, <1>8 DEF DecisionFidele
<1> QED BY <1>1, <1>9, Seule DEF SInv

LEMMA SeulAnnuler ==
    ASSUME UneALaFois, SInv, IInv', NEW q \in Requetes, Annuler(q)
    PROVE  SInv'
<1>1. /\ Finir(q) /\ adjudication' = NUL
      /\ offres' = [o \in DOMAIN offres |->
            [offres[o] EXCEPT !.statut = "RECUE", !.retenues = {}]]
  BY DEF Annuler
<1>2. ASSUME NEW o \in DOMAIN offres
      PROVE  offres'[o].entreprise = offres[o].entreprise
  BY <1>1, Bornes DEF Offre, SInv, IInv
<1>3. DecisionFidele'
  <2>1. \A k, m \in DOMAIN offres : offres[k].entreprise = offres[m].entreprise => k = m
    BY DEF SInv, DecisionFidele
  <2>2. DOMAIN offres' = DOMAIN offres
    BY <1>1
  <2>3. \A k, m \in DOMAIN offres' : offres'[k].entreprise = offres'[m].entreprise => k = m
    BY <1>2, <2>1, <2>2
  <2> QED BY <1>1, <2>3 DEF DecisionFidele
<1> QED BY <1>1, <1>3, Seule DEF SInv

LEMMA SeulStep ==
    ASSUME Domaines, UneALaFois, SInv, [Next]_vars
    PROVE  SInv'
<1>1. IInv'
  BY StepInv DEF SInv
<1>2. CASE UNCHANGED vars
  BY <1>1, <1>2, SeulFini DEF vars
<1>3. CASE Immediat
  <2>1. UNCHANGED <<soumission, offres, adjudication, req>>
    BY <1>3 DEF Immediat, Inviter, Revoquer, ModifierContrat, SupprimerAvenant, Avancer
  <2> QED BY <1>1, <2>1, SeulFini
<1>4. ASSUME NEW q \in Requetes,
             \/ Decliner(q) \/ Relancer(q) \/ Interrompre(q)
             \/ \E s \in {"BROUILLON", "SIGNE"} : CreerContrat(q, s)
             \/ \E a \in Avenants : CreerAvenant(q, a)
      PROVE  SInv'
  <2>1. Finir(q) /\ UNCHANGED <<soumission, offres, adjudication>>
    BY <1>4 DEF Decliner, Relancer, Interrompre, CreerContrat, CreerAvenant
  <2>2. \A p \in Requetes : req'[p] = req[p] \/ req'[p] = Libre
    BY <2>1, Finie DEF SInv, IInv, TypeOK
  <2> QED BY <1>1, <2>1, <2>2, SeulFini
<1>5. ASSUME NEW q \in Requetes, Portail(q)
      PROVE  SInv'
  BY <1>1, <1>4, <1>5, SeulConsultation, SeulOffre, SeulEcrite DEF Portail
<1>6. ASSUME NEW q \in Requetes, Dossier(q)
      PROVE  SInv'
  BY <1>1, <1>4, <1>6, SeulConsultation, SeulOffre, SeulTender, SeulEcrite, SeulLignes
     DEF Dossier
<1>7. ASSUME NEW q \in Requetes, Decision(q)
      PROVE  SInv'
  BY <1>1, <1>4, <1>7, SeulDecision, SeulAdjuger, SeulAnnuler DEF Decision
<1> QED BY <1>2, <1>3, <1>4, <1>5, <1>6, <1>7 DEF Next

\* With one request at a time what a request has read is still so when it writes.
THEOREM InvarianceSequentielle ==
    ASSUME Domaines, UneALaFois
    PROVE  Spec => []SInv
<1>1. Init => SInv
  <2> SUFFICES ASSUME Init PROVE SInv
    OBVIOUS
  <2>1. \A q \in Requetes : Actuel(req[q])
    BY LibreActuelle DEF Init
  <2>2. DecisionFidele
    BY DEF Init, DecisionFidele
  <2> QED BY <2>1, <2>2, InitInv DEF SInv
<1>2. SInv /\ [Next]_vars => SInv'
  BY SeulStep
<1> QED BY <1>1, <1>2, PTL DEF Spec

\* adjuger, annulerAdjudication: one request at a time, while an award stands
\* the tender is awarded, its bid alone is retained at the amount it comes to,
\* and each company is compared once.
THEOREM DecisionsFideles ==
    ASSUME Domaines, UneALaFois
    PROVE  Spec => []DecisionFidele
<1>1. SInv => DecisionFidele
  BY DEF SInv
<1> QED BY <1>1, InvarianceSequentielle, PTL

(***************************************************************************)
(* The seal                                                                *)
(***************************************************************************)
\* A bid deposited under seal is never turned into one the developer typed.
LEMMA ToujoursPli ==
    ASSUME Domaines, IInv, [Next]_vars, NEW n \in DOMAIN offres, offres[n].source = "PORTAIL"
    PROVE  n \in DOMAIN offres' /\ offres'[n].source = "PORTAIL"
<1>1. ASSUME NEW q \in Requetes,
             NEW o \in Offre, Ecrire(req[q].offre, o), o.entreprise = req[q].e,
             o.source = "PORTAIL" \/ o.source = (IF req[q].offre = 0 THEN "SAISIE"
                                                 ELSE offres[req[q].offre].source),
             req[q].etat \in {"depot", "saisie"}
      PROVE  n \in DOMAIN offres' /\ offres'[n].source = "PORTAIL"
  <2> DEFINE k == req[q].offre
  <2>1. k \in Nat /\ (k = 0 \/ (k \in DOMAIN offres /\ offres[k].entreprise = o.entreprise))
    BY <1>1, FormeRequete DEF IInv, TypeOK, Sain, Vise
  <2>2. /\ Ecrire(k, o)
        /\ o.source = "PORTAIL" \/ (k # 0 => o.source = offres[k].source)
    BY <1>1
  <2> HIDE DEF k
  <2>3. /\ n \in DOMAIN offres'
        /\ k = 0 => offres'[n] = offres[n]
        /\ k # 0 => offres'[k] = o /\ (n # k => offres'[n] = offres[n])
    BY <1>1, <2>1, <2>2, Ecrite DEF IInv
  <2> QED BY <2>2, <2>3
<1>2. ASSUME NEW q \in Requetes, NEW m \in Prix, NEW r \in Remises, NEW L \in SUBSET Lignes,
             DeposerOffre(q, m, r, L)
      PROVE  n \in DOMAIN offres' /\ offres'[n].source = "PORTAIL"
  BY <1>1, <1>2, Deposee DEF DeposerOffre, En
<1>3. ASSUME NEW q \in Requetes, NEW m \in Prix \cup {NUL, OMIS}, NEW r \in Remises \cup {OMIS},
             NEW s \in {"RECUE", "ECARTEE", OMIS}, SaisirOffre(q, m, r, s)
      PROVE  n \in DOMAIN offres' /\ offres'[n].source = "PORTAIL"
  BY <1>1, <1>3, Saisie DEF SaisirOffre, En
<1>4. ASSUME NEW q \in Requetes, NEW L \in SUBSET Lignes, FixerLignes(q, L)
      PROVE  n \in DOMAIN offres' /\ offres'[n].source = "PORTAIL"
  <2>1. req[q].offre \in DOMAIN offres
    BY <1>4 DEF FixerLignes, En, IInv, Sain
  <2> QED BY <1>4, <2>1, LignesFixees DEF FixerLignes, IInv
<1>5. ASSUME NEW q \in Requetes, Adjuger(q) \/ Annuler(q)
      PROVE  n \in DOMAIN offres' /\ offres'[n].source = "PORTAIL"
  <2>1. offres[n] \in Offre
    BY Bornes DEF IInv
  <2>2. CASE Adjuger(q)
    <3>1. /\ offres' = [o \in DOMAIN offres |-> Jugee(o, req[q].offre, req[q].retenues)]
      BY <2>2 DEF Adjuger
    <3>2. Jugee(n, req[q].offre, req[q].retenues).source = offres[n].source
      BY <2>1 DEF Jugee, Offre
    <3> QED BY <3>1, <3>2
  <2>3. CASE Annuler(q)
    <3>1. /\ offres' = [o \in DOMAIN offres |->
                [offres[o] EXCEPT !.statut = "RECUE", !.retenues = {}]]
      BY <2>3 DEF Annuler
    <3> QED BY <2>1, <3>1 DEF Offre
  <2> QED BY <1>5, <2>2, <2>3
<1>6. CASE UNCHANGED offres
  BY <1>6
<1>7. CASE UNCHANGED vars \/ Immediat \/ \E q \in Requetes : Interrompre(q)
  BY <1>6, <1>7 DEF vars, Immediat, Inviter, Revoquer, ModifierContrat, SupprimerAvenant, Avancer,
     Interrompre
<1>8. ASSUME NEW q \in Requetes, Portail(q)
      PROVE  n \in DOMAIN offres' /\ offres'[n].source = "PORTAIL"
  BY <1>2, <1>6, <1>8 DEF Portail, LireSession, LireDepot, Decliner
<1>9. ASSUME NEW q \in Requetes, Dossier(q)
      PROVE  n \in DOMAIN offres' /\ offres'[n].source = "PORTAIL"
  BY <1>3, <1>4, <1>6, <1>9 DEF Dossier, LireModification, Modifier, LireEnvoi, EnvoyerUne,
     LireRelance, FinEnvoi, Relancer, LireSaisie, LireLignes
<1>10. ASSUME NEW q \in Requetes, Decision(q)
      PROVE  n \in DOMAIN offres' /\ offres'[n].source = "PORTAIL"
  BY <1>5, <1>6, <1>10 DEF Decision, LireAdjudication, LireAnnulation, LireContrat,
     CreerContrat, LireAvenant, CreerAvenant
<1> QED BY <1>7, <1>8, <1>9, <1>10 DEF Next

\* What a step may do to the seal, the deadline and the calendar.
LEMMA Scelle ==
    ASSUME Domaines, IInv, [Next]_vars
    PROVE  \/ /\ soumission'.limite = soumission.limite /\ soumission'.scelle = soumission.scelle
              /\ jour' = jour \/ jour' = jour + 1
           \/ \E q \in Requetes, s \in StatutsSaisis \cup {OMIS}, l \in Date \cup {NUL, OMIS},
                 c \in BOOLEAN \cup {OMIS} : Modifier(q, s, l, c)
<1> DEFINE Meme == soumission'.limite = soumission.limite /\ soumission'.scelle = soumission.scelle
           Statut == \E s \in SoumissionStatut : soumission' = [soumission EXCEPT !.statut = s]
<1>1. ASSUME Statut
      PROVE  Meme
  BY <1>1 DEF IInv, TypeOK, Soumission
<1>2. CASE UNCHANGED vars \/ Immediat
  <2>1. soumission' = soumission
    BY <1>2 DEF vars, Immediat, Inviter, Revoquer, ModifierContrat, SupprimerAvenant, Avancer
  <2>2. jour' = jour \/ jour' = jour + 1
    BY <1>2 DEF vars, Immediat, Inviter, Revoquer, ModifierContrat, SupprimerAvenant, Avancer
  <2> QED BY <2>1, <2>2
<1>3. ASSUME NEW q \in Requetes, Portail(q) \/ Interrompre(q)
      PROVE  UNCHANGED <<soumission, jour>>
  BY <1>3 DEF Portail, LireSession, LireDepot, DeposerOffre, Decliner, Interrompre
<1>4. ASSUME NEW q \in Requetes, Dossier(q),
             ~\E s \in StatutsSaisis \cup {OMIS}, l \in Date \cup {NUL, OMIS},
                 c \in BOOLEAN \cup {OMIS} : Modifier(q, s, l, c)
      PROVE  jour' = jour /\ (soumission' = soumission \/ Statut)
  <2>1. CASE FinEnvoi(q)
    BY <2>1 DEF FinEnvoi, SoumissionStatut
  <2>2. CASE ~FinEnvoi(q)
    BY <1>4, <2>2 DEF Dossier, LireModification, LireEnvoi, EnvoyerUne,
       LireRelance, Relancer, LireSaisie, SaisirOffre, LireLignes, FixerLignes
  <2> QED BY <2>1, <2>2
<1>5. ASSUME NEW q \in Requetes, Decision(q)
      PROVE  jour' = jour /\ (soumission' = soumission \/ Statut)
  <2>1. CASE Adjuger(q) \/ Annuler(q)
    BY <2>1 DEF Adjuger, Annuler, SoumissionStatut
  <2>2. CASE ~(Adjuger(q) \/ Annuler(q))
    BY <1>5, <2>2 DEF Decision, LireAdjudication, LireAnnulation, LireContrat,
       CreerContrat, LireAvenant, CreerAvenant
  <2> QED BY <2>1, <2>2
<1> HIDE DEF Statut
<1> QED BY <1>1, <1>2, <1>3, <1>4, <1>5 DEF Next

LEMMA PasAvantLHeure ==
    ASSUME Domaines, SInv, [Next]_vars
    PROVE  OuvertureAHeure
<1> SUFFICES ASSUME NEW n \in DOMAIN offres, Scellee(offres[n]), EnConsultation,
                    ~LimitePassee'
             PROVE  Scellee(offres[n])'
  BY DEF OuvertureAHeure
<1>1. /\ offres[n].source = "PORTAIL" /\ soumission.scelle
      /\ soumission.limite # NUL /\ soumission.limite > jour
  BY DEF Scellee
<1>2. offres'[n].source = "PORTAIL"
  BY <1>1, ToujoursPli DEF SInv
<1>3. /\ soumission.limite \in Nat /\ soumission.scelle \in BOOLEAN /\ jour \in Nat /\ jour' \in Nat
      /\ soumission'.limite \in Nat \cup {NUL}
  <2>1. IInv /\ IInv'
    BY StepInv DEF SInv
  <2> QED BY <1>1, <2>1 DEF IInv, TypeOK, Soumission, Date
<1>4. CASE /\ soumission'.limite = soumission.limite /\ soumission'.scelle = soumission.scelle
           /\ jour' = jour \/ jour' = jour + 1
  <2>1. soumission'.limite # NUL /\ soumission'.limite > jour' /\ soumission'.scelle
    BY <1>1, <1>3, <1>4 DEF LimitePassee
  <2> QED BY <1>2, <2>1 DEF Scellee
<1>5. ASSUME NEW q \in Requetes, NEW s \in StatutsSaisis \cup {OMIS},
             NEW l \in Date \cup {NUL, OMIS}, NEW c \in BOOLEAN \cup {OMIS}, Modifier(q, s, l, c)
      PROVE  Scellee(offres[n])'
  <2>1. req[q].lue = soumission
    BY <1>5 DEF Modifier, En, SInv, Actuel
  <2>2. /\ c # FALSE /\ (l # OMIS => l # NUL /\ l >= soumission.limite) /\ jour' = jour
        /\ soumission'.limite = Donne(l, soumission.limite)
        /\ soumission'.scelle = Donne(c, soumission.scelle)
    BY <1>1, <1>5, <2>1 DEF Modifier, EnConsultation
  <2>3. soumission'.scelle
    BY <1>1, <2>2 DEF Donne
  <2>4. soumission'.limite # NUL /\ soumission'.limite > jour'
    <3>1. CASE l = OMIS
      BY <1>1, <2>2, <3>1 DEF Donne
    <3>2. CASE l # OMIS
      <4>1. l \in Nat
        BY <2>2, <3>2 DEF Date
      <4> QED BY <1>1, <1>3, <2>2, <3>2, <4>1 DEF Donne
    <3> QED BY <3>1, <3>2
  <2> QED BY <1>2, <2>3, <2>4 DEF Scellee
<1> QED BY <1>4, <1>5, Scelle DEF SInv

\* offreScellee, modifierSoumission: one request at a time, as long as the
\* tender is out a sealed bid opens because its day has come.
THEOREM PlisGardes ==
    ASSUME Domaines, UneALaFois
    PROVE  Spec => PliOuvertAHeure
<1>1. SInv /\ [Next]_vars => [OuvertureAHeure]_vars
  BY PasAvantLHeure
<1> QED BY <1>1, InvarianceSequentielle, PTL DEF Spec, PliOuvertAHeure
=============================================================================
