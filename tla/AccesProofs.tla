----------------------------- MODULE AccesProofs -----------------------------
(***************************************************************************)
(* Who enters, and with what: the code of an invited company, the members  *)
(* of a company, the second factor of an account, the key and the secrets  *)
(* of the connection to Kolabimo, the subscription that opens the modules. *)
(*                                                                         *)
(* Each theorem is about one component, for any values of its constants:   *)
(* the components share this module, the names they have in common         *)
(* included, and nothing else.                                             *)
(***************************************************************************)
EXTENDS EspaceEntreprise, Sequences, FiniteSetTheorems, TLAPS

CONSTANTS Personnes, Fondateurs, MaxInvitations, OMIS              \* of Membres
CONSTANTS Max, Fenetre, Blocage, Lot, MaxSecrets, MaxEssais, Horizon  \* of SecondFacteur
CONSTANTS Societes, Titulaire, Adresses, Tolerance                 \* of ConnexionKolabimo

CONSTANTS Modules, MaxAbonnements, MaxEvenements, MaxSessions,
          MaxPannes                                                \* of Facturation

VARIABLES comptes, membres, acces, directionTravaux, invitations, liens
VARIABLES compte, limites, defi, secrets, codes, prouves, jour
VARIABLES connexions, tires, valables, montres
VARIABLES periode, stripe, sessions, evenements, abonnement, souscriptions, avertissement,
          envois, pannes, promesses

Mb == INSTANCE Membres
Fa == INSTANCE SecondFacteur
Ko == INSTANCE ConnexionKolabimo
Fc == INSTANCE Facturation

\* One request at a time.
UneALaFois == \A p, q \in Requetes : p = q

(***************************************************************************)
(* EspaceEntreprise.                                                       *)
(* How many tries a code stands, for any limits, links and codes, and any  *)
(* number of requests at once.  A try is compared in one transaction and   *)
(* counted in another: between the two it is in flight, and the invariant  *)
(* counts it already.                                                      *)
(***************************************************************************)
Hypotheses == Domaines /\ IsFiniteSet(Requetes)

(***************************************************************************)
(* Requests                                                                *)
(***************************************************************************)
LEMMA FormeRequete ==
    ASSUME NEW r \in Requete
    PROVE  /\ r.etat \in {"libre", "demande", "essai"}
           /\ r.etat = "essai" => /\ r.lien \in 1..MaxLiens
                                  /\ r.valide \in BOOLEAN
                                  /\ r.code \in Codes \cup {NUL}
BY DEF Requete

LEMMA Garde ==
    ASSUME NEW q \in Requetes, NEW r \in Requete,
           req \in [Requetes -> Requete], Garder(q, r)
    PROVE  /\ req' \in [Requetes -> Requete]
           /\ req'[q] = r
           /\ \A p \in Requetes : p # q => req'[p] = req[p]
BY DEF Garder

LEMMA Finie ==
    ASSUME NEW q \in Requetes, req \in [Requetes -> Requete], Finir(q)
    PROVE  /\ req' \in [Requetes -> Requete]
           /\ req'[q].etat = "libre"
           /\ \A p \in Requetes : p # q => req'[p] = req[p]
<1>1. Libre \in Requete /\ Libre.etat = "libre"
  BY DEF Libre, Requete
<1> QED BY <1>1, Garde DEF Finir

(***************************************************************************)
(* Counts                                                                  *)
(***************************************************************************)
LEMMA EnVolFini ==
    ASSUME Hypotheses, NEW c
    PROVE  /\ Cardinality(Requetes) \in Nat
           /\ EnVol(c) \subseteq Requetes /\ JustesEnVol(c) \subseteq EnVol(c)
           /\ IsFiniteSet(EnVol(c)) /\ IsFiniteSet(JustesEnVol(c))
           /\ Cardinality(EnVol(c)) \in 0..Cardinality(Requetes)
           /\ Cardinality(JustesEnVol(c)) \in 0..Cardinality(Requetes)
<1>1. EnVol(c) \subseteq Requetes /\ JustesEnVol(c) \subseteq EnVol(c)
  BY DEF EnVol, JustesEnVol
<1>2. /\ IsFiniteSet(EnVol(c)) /\ IsFiniteSet(JustesEnVol(c))
      /\ Cardinality(EnVol(c)) <= Cardinality(Requetes)
      /\ Cardinality(JustesEnVol(c)) <= Cardinality(Requetes)
  BY <1>1, FS_Subset DEF Hypotheses
<1>3. /\ Cardinality(Requetes) \in Nat /\ Cardinality(EnVol(c)) \in Nat
      /\ Cardinality(JustesEnVol(c)) \in Nat
  BY <1>2, FS_CardinalityType DEF Hypotheses
<1> QED BY <1>1, <1>2, <1>3

\* The code that comes next was not drawn, and every code before it was.
LEMMA ProchainCode ==
    ASSUME Hypotheses, CodesTires
    PROVE  /\ Tires \in 0..MaxCodes
           /\ \A c \in Codes : essayes[c] # NUL <=> c <= Tires
<1> DEFINE S == {c \in Codes : essayes[c] # NUL}
<1>1. MaxCodes \in Nat /\ IsFiniteSet(Codes) /\ Cardinality(Codes) = MaxCodes
  BY FS_Interval DEF Hypotheses, Domaines, Codes
<1>2. S \subseteq Codes /\ IsFiniteSet(S) /\ Tires = Cardinality(S) /\ Tires <= MaxCodes
  BY <1>1, FS_Subset DEF Tires
<1>3. Tires \in Nat
  BY <1>2, FS_CardinalityType
<1>4. ASSUME NEW c \in Codes, essayes[c] # NUL
      PROVE  c <= Tires
  <2>1. 1..c \subseteq S
    BY <1>1, <1>4 DEF CodesTires, Codes
  <2>2. Cardinality(1..c) <= Cardinality(S)
    BY <1>2, <2>1, FS_Subset
  <2>3. Cardinality(1..c) = c
    BY FS_Interval DEF Codes
  <2> QED BY <1>2, <2>2, <2>3
<1>5. ASSUME NEW c \in Codes, essayes[c] = NUL
      PROVE  ~(c <= Tires)
  <2>1. S \subseteq 1..(c-1)
    BY <1>5 DEF CodesTires, Codes
  <2>2. IsFiniteSet(1..(c-1)) /\ Cardinality(1..(c-1)) = c - 1
    BY FS_Interval DEF Codes
  <2>3. Cardinality(S) <= c - 1
    BY <2>1, <2>2, FS_Subset
  <2> QED BY <1>2, <1>3, <2>3 DEF Codes
<1> QED BY <1>1, <1>2, <1>3, <1>4, <1>5

\* The bounds, kept apart from the requests they count.
LEMMA Somme ==
    ASSUME NEW N \in Nat, NEW M \in Nat \ {0}, NEW e \in Nat, NEW v \in 0..N, e < M
    PROVE  e + v <= M + N - 1
OBVIOUS

(***************************************************************************)
(* Steps                                                                   *)
(***************************************************************************)
\* A step that answers nothing: the tries in flight can only become fewer.
LEMMA SansReponse ==
    ASSUME Hypotheses, IInv, TypeOK', UNCHANGED <<essayes, servis>>,
           \A c \in Codes : EnVol(c)' \subseteq EnVol(c)
                            /\ JustesEnVol(c)' \subseteq JustesEnVol(c),
           \A q \in Requetes : En(q, "essai")' => req'[q] = req[q],
           code' # NUL => /\ code # NUL /\ code'.no = code.no
                          /\ essais' = essais
    PROVE  IInv'
<1>1. CodesTires'
  BY DEF IInv, CodesTires, En
<1>2. CodeEnVigueur'
  BY DEF IInv, CodeEnVigueur
<1>3. EnVolComptes'
  <2> SUFFICES ASSUME NEW c \in Codes
               PROVE  /\ Cardinality(EnVol(c)') <= Cardinality(EnVol(c))
                      /\ Cardinality(EnVol(c)') \in Nat /\ Cardinality(EnVol(c)) \in Nat
                      /\ Cardinality(JustesEnVol(c)') <= Cardinality(JustesEnVol(c))
                      /\ Cardinality(JustesEnVol(c)') \in Nat
                      /\ Cardinality(JustesEnVol(c)) \in Nat
    <3>1. \A c \in Codes : /\ servis[c] \in Nat
                           /\ essayes[c] # NUL => essayes[c] \in Nat
      BY DEF IInv, TypeOK
    <3>2. CODE_ESSAIS_MAX \in Nat /\ Cardinality(Requetes) \in Nat
      BY EnVolFini DEF Hypotheses, Domaines
    <3> QED BY <3>1, <3>2 DEF IInv, EnVolComptes
  <2>1. /\ IsFiniteSet(EnVol(c)) /\ IsFiniteSet(JustesEnVol(c))
    BY EnVolFini
  <2>2. EnVol(c)' \subseteq EnVol(c) /\ JustesEnVol(c)' \subseteq JustesEnVol(c)
    OBVIOUS
  <2> QED BY <2>1, <2>2, FS_Subset, FS_CardinalityType
<1> QED BY <1>1, <1>2, <1>3 DEF IInv

\* No request steps.
LEMMA SansRequete ==
    ASSUME TypeOK, req' = req, NEW c
    PROVE  EnVol(c)' = EnVol(c) /\ JustesEnVol(c)' = JustesEnVol(c)
BY DEF EnVol, JustesEnVol, En

\* A request that is not a try any more leaves the tries of the others.
LEMMA SansEssai ==
    ASSUME NEW q \in Requetes, req'[q].etat # "essai", NEW c,
           \A p \in Requetes : p # q => req'[p] = req[p]
    PROVE  EnVol(c)' = EnVol(c) \ {q} /\ JustesEnVol(c)' = JustesEnVol(c) \ {q}
BY DEF EnVol, JustesEnVol, En

LEMMA StepEnvoyer ==
    ASSUME Hypotheses, IInv, Envoyer \/ Revoquer \/ Perimer \/ Debloquer
    PROVE  IInv'
<1>1. TypeOK'
  <2>1. TypeOK /\ UNCHANGED <<essayes, servis, ouvertes, req>>
    BY DEF IInv, Envoyer, Revoquer, Perimer, Debloquer
  <2>2. /\ lien' \in 0..MaxLiens /\ revoquee' \in BOOLEAN
        /\ essais' \in Nat /\ demandes' \in 0..MaxDemandes
    <3>1. /\ MaxLiens \in Nat /\ MaxDemandes \in Nat /\ lien \in 0..MaxLiens
          /\ revoquee \in BOOLEAN /\ essais \in Nat /\ demandes \in 0..MaxDemandes
      BY <2>1 DEF TypeOK, Hypotheses, Domaines
    <3>2. /\ lien' = lien \/ (lien < MaxLiens /\ lien' = lien + 1)
          /\ essais' = essais \/ essais' = 0
          /\ demandes' = demandes \/ demandes' = 0
      BY DEF Envoyer, Revoquer, Perimer, Debloquer
    <3>3. revoquee' \in BOOLEAN
      <4>1. CASE Envoyer
        BY <4>1 DEF Envoyer
      <4>2. CASE Revoquer
        BY <4>2 DEF Revoquer
      <4>3. CASE Perimer \/ Debloquer
        <5>1. revoquee' = revoquee
          BY <4>3 DEF Perimer, Debloquer
        <5> QED BY <3>1, <5>1
      <4> QED BY <4>1, <4>2, <4>3
    <3>4. lien' \in 0..MaxLiens
      BY <3>1, <3>2
    <3>5. essais' \in Nat /\ demandes' \in 0..MaxDemandes
      BY <3>1, <3>2
    <3> QED BY <3>3, <3>4, <3>5
  <2>3. code' \in [no: Codes, perime: BOOLEAN] \cup {NUL}
    BY <2>1 DEF TypeOK, Envoyer, Revoquer, Perimer, Debloquer
  <2> QED BY <2>1, <2>2, <2>3 DEF TypeOK
<1>2. UNCHANGED <<essayes, servis, req>>
  BY DEF Envoyer, Revoquer, Perimer, Debloquer
<1>3. code' # NUL => code # NUL /\ code'.no = code.no /\ essais' = essais
  BY DEF IInv, TypeOK, Envoyer, Revoquer, Perimer, Debloquer
<1>4. \A c \in Codes : EnVol(c)' = EnVol(c) /\ JustesEnVol(c)' = JustesEnVol(c)
  BY <1>2, SansRequete DEF IInv
<1> QED BY <1>1, <1>2, <1>3, <1>4, SansReponse

LEMMA StepSansReponse ==
    ASSUME Hypotheses, IInv, NEW q \in Requetes,
           Interrompre(q) \/ \E j \in 1..MaxLiens : DemanderCode(q, j)
    PROVE  IInv'
<1>1. [etat |-> "demande"] \in Requete
  BY DEF Requete
<1>2. /\ req' \in [Requetes -> Requete] /\ req'[q].etat # "essai"
      /\ \A p \in Requetes : p # q => req'[p] = req[p]
  BY <1>1, Finie, Garde DEF IInv, TypeOK, Interrompre, DemanderCode
<1>3. TypeOK'
  <2>1. UNCHANGED <<lien, revoquee, code, essais, essayes, ouvertes, servis>>
    BY DEF Interrompre, DemanderCode
  <2>2. demandes' \in 0..MaxDemandes
    BY DEF IInv, TypeOK, Interrompre, DemanderCode, Hypotheses, Domaines
  <2> QED BY <1>2, <2>1, <2>2 DEF IInv, TypeOK
<1>4. UNCHANGED <<code, essais, essayes, servis>>
  BY DEF Interrompre, DemanderCode
<1>5. \A c \in Codes : EnVol(c)' \subseteq EnVol(c) /\ JustesEnVol(c)' \subseteq JustesEnVol(c)
  BY <1>2, SansEssai
<1>6. \A p \in Requetes : En(p, "essai")' => req'[p] = req[p]
  BY <1>2 DEF En
<1> QED BY <1>3, <1>4, <1>5, <1>6, SansReponse

LEMMA StepEcrireCode ==
    ASSUME Hypotheses, IInv, NEW q \in Requetes, EcrireCode(q)
    PROVE  IInv'
<1> DEFINE n == Tires + 1
<1>1. TypeOK /\ CodesTires /\ req[q].etat = "demande"
  BY DEF IInv, EcrireCode, En
<1>2. /\ n \in Codes /\ essayes[n] = NUL
      /\ \A c \in Codes : essayes[c] # NUL <=> c < n
  <2>1. Tires \in 0..MaxCodes /\ \A c \in Codes : essayes[c] # NUL <=> c <= Tires
    BY <1>1, ProchainCode
  <2>2. Tires < MaxCodes /\ MaxCodes \in Nat
    BY DEF EcrireCode, Hypotheses, Domaines
  <2>3. n \in Codes /\ ~(n <= Tires)
    BY <2>1, <2>2 DEF Codes
  <2> HIDE DEF n
  <2>4. \A c \in Codes : c <= Tires <=> c < n
    BY <2>1 DEF n, Codes
  <2> QED BY <2>1, <2>3, <2>4
<1>3. /\ code' = [no |-> n, perime |-> FALSE] /\ essais' = 0
      /\ essayes' = [essayes EXCEPT ![n] = 0]
      /\ UNCHANGED <<lien, revoquee, demandes, ouvertes, servis>>
      /\ Finir(q)
  BY DEF EcrireCode
<1> HIDE DEF n
<1>4. /\ req' \in [Requetes -> Requete] /\ req'[q].etat = "libre"
      /\ \A p \in Requetes : p # q => req'[p] = req[p]
  BY <1>1, <1>3, Finie DEF TypeOK
<1>5. /\ essayes' \in [Codes -> Nat \cup {NUL}] /\ essayes'[n] = 0
      /\ \A c \in Codes : c # n => essayes'[c] = essayes[c]
  BY <1>1, <1>2, <1>3 DEF TypeOK
<1>6. TypeOK'
  BY <1>1, <1>2, <1>3, <1>4, <1>5 DEF TypeOK
<1>7. 0 # NUL
  BY DEF Hypotheses, Domaines
<1>8. \A c \in Codes : EnVol(c)' = EnVol(c) /\ JustesEnVol(c)' = JustesEnVol(c)
  BY <1>1, <1>4 DEF EnVol, JustesEnVol, En
<1>9. CodesTires'
  <2>1. \A c, d \in Codes : c <= d /\ essayes'[d] # NUL => essayes'[c] # NUL
    <3>1. \A c \in Codes : essayes'[c] # NUL <=> c <= n
      <4>1. \A c \in Codes : c \in Int /\ n \in Int
        BY <1>2 DEF Codes
      <4> QED BY <1>2, <1>5, <1>7, <4>1
    <3>2. \A c, d \in Codes : c \in Int /\ d \in Int /\ n \in Int
      BY <1>2 DEF Codes
    <3> QED BY <3>1, <3>2
  <2>2. \A c \in Codes : essayes'[c] = NUL => servis'[c] = 0 /\ EnVol(c)' = {}
    BY <1>1, <1>3, <1>5, <1>7, <1>8 DEF CodesTires
  <2>3. \A p \in Requetes : En(p, "essai")' /\ req'[p].valide => req'[p].code # NUL
    BY <1>1, <1>4 DEF CodesTires, En
  <2> QED BY <2>1, <2>2, <2>3 DEF CodesTires
<1>10. CodeEnVigueur'
  <2>1. code'.no = n /\ servis'[n] = 0
    BY <1>1, <1>2, <1>3 DEF CodesTires
  <2> QED BY <1>3, <1>5, <1>7, <2>1 DEF CodeEnVigueur
<1>11. EnVolComptes'
  <2> SUFFICES ASSUME NEW c \in Codes
               PROVE  /\ essayes'[c] # NUL =>
                            essayes'[c] + Cardinality(EnVol(c)')
                               <= CODE_ESSAIS_MAX + Cardinality(Requetes) - 1
                      /\ servis'[c] + Cardinality(JustesEnVol(c)') <= Cardinality(Requetes)
    BY DEF EnVolComptes
  <2>1. servis'[c] + Cardinality(JustesEnVol(c)') <= Cardinality(Requetes)
    BY <1>3, <1>8 DEF IInv, EnVolComptes
  <2>2. CASE c # n
    BY <1>5, <1>8, <2>1, <2>2 DEF IInv, EnVolComptes
  <2>3. CASE c = n
    <3>1. EnVol(c)' = {}
      BY <1>1, <1>2, <1>8, <2>3 DEF CodesTires
    <3>2. Cardinality(EnVol(c)') = 0
      BY <3>1, FS_EmptySet
    <3>3. CODE_ESSAIS_MAX \in Nat \ {0} /\ Cardinality(Requetes) \in Nat
      BY EnVolFini DEF Hypotheses, Domaines
    <3> QED BY <1>5, <2>1, <2>3, <3>2, <3>3
  <2> QED BY <2>2, <2>3
<1> QED BY <1>6, <1>9, <1>10, <1>11 DEF IInv

LEMMA StepEssayer ==
    ASSUME Hypotheses, IInv, NEW q \in Requetes, NEW j \in 1..MaxLiens, NEW juste \in BOOLEAN,
           Essayer(q, j, juste)
    PROVE  IInv'
<1> DEFINE k == IF Comparable THEN code.no ELSE NUL
           r == [etat |-> "essai", lien |-> j, valide |-> juste, code |-> k,
                 lus |-> IF juste THEN 0 ELSE essais]
<1>1. TypeOK /\ CodesTires /\ CodeEnVigueur /\ EnVolComptes /\ req[q].etat = "libre"
  BY DEF IInv, Essayer, En
<1>2. /\ Garder(q, r) /\ (juste => Comparable)
      /\ UNCHANGED <<lien, revoquee, code, essais, demandes, essayes, ouvertes, servis>>
  BY DEF Essayer
<1>3. /\ k \in Codes \cup {NUL}
      /\ k # NUL => Comparable /\ k = code.no
      /\ Comparable => k # NUL
  <2>1. Comparable => code.no \in Codes
    BY <1>1 DEF TypeOK, Comparable
  <2>2. NUL \notin Codes
    BY DEF Hypotheses, Domaines, Codes
  <2> QED BY <2>1, <2>2
<1> HIDE DEF k
<1>4. r \in Requete
  BY <1>1, <1>3 DEF Requete, TypeOK
<1>5. /\ req' \in [Requetes -> Requete] /\ req'[q] = r
      /\ \A p \in Requetes : p # q => req'[p] = req[p]
  BY <1>1, <1>2, <1>4, Garde DEF TypeOK
<1>6. req'[q].etat = "essai" /\ req'[q].code = k /\ req'[q].valide = juste
  BY <1>5
<1> HIDE DEF r
<1>7. TypeOK'
  BY <1>1, <1>2, <1>5 DEF TypeOK
<1>8. \A c \in Codes : c # k => EnVol(c)' = EnVol(c) /\ JustesEnVol(c)' = JustesEnVol(c)
  BY <1>1, <1>5, <1>6 DEF EnVol, JustesEnVol, En
<1>9. k # NUL => /\ essayes[k] # NUL /\ essayes[k] < CODE_ESSAIS_MAX /\ servis[k] = 0
  <2> SUFFICES ASSUME k # NUL
               PROVE  essayes[k] # NUL /\ essayes[k] < CODE_ESSAIS_MAX /\ servis[k] = 0
    OBVIOUS
  <2>1. code # NUL /\ essais < CODE_ESSAIS_MAX /\ k = code.no /\ k \in Codes
    BY <1>3 DEF Comparable
  <2>2. essayes[k] # NUL /\ essayes[k] <= essais /\ servis[k] = 0
    BY <1>1, <2>1 DEF CodeEnVigueur
  <2>3. essayes[k] \in Nat /\ essais \in Nat /\ CODE_ESSAIS_MAX \in Nat
    BY <1>1, <2>1, <2>2 DEF TypeOK, Hypotheses, Domaines
  <2> QED BY <2>1, <2>2, <2>3
<1>10. CodesTires'
  <2>1. \A c, d \in Codes : c <= d /\ essayes'[d] # NUL => essayes'[c] # NUL
    BY <1>1, <1>2 DEF CodesTires
  <2>2. ASSUME NEW c \in Codes, essayes'[c] = NUL
        PROVE  servis'[c] = 0 /\ EnVol(c)' = {}
    <3>1. servis[c] = 0 /\ EnVol(c) = {} /\ c \in Nat
      BY <1>1, <1>2, <2>2 DEF CodesTires, Codes
    <3>2. c # k
      BY <1>2, <1>9, <2>2, <3>1 DEF Hypotheses, Domaines
    <3> QED BY <1>2, <1>8, <3>1, <3>2
  <2>3. \A p \in Requetes : En(p, "essai")' /\ req'[p].valide => req'[p].code # NUL
    BY <1>1, <1>2, <1>3, <1>5, <1>6 DEF CodesTires, En
  <2> QED BY <2>1, <2>2, <2>3 DEF CodesTires
<1>11. CodeEnVigueur'
  BY <1>1, <1>2 DEF CodeEnVigueur
<1>12. EnVolComptes'
  <2> SUFFICES ASSUME NEW c \in Codes
               PROVE  /\ essayes[c] # NUL =>
                            essayes[c] + Cardinality(EnVol(c)')
                               <= CODE_ESSAIS_MAX + Cardinality(Requetes) - 1
                      /\ servis[c] + Cardinality(JustesEnVol(c)') <= Cardinality(Requetes)
    BY <1>2 DEF EnVolComptes
  <2>1. CASE c # k
    BY <1>1, <1>8, <2>1 DEF EnVolComptes
  <2>2. CASE c = k
    <3>1. EnVol(c)' \subseteq Requetes /\ JustesEnVol(c)' \subseteq Requetes
      BY DEF EnVol, JustesEnVol
    <3>2. /\ Cardinality(EnVol(c)') <= Cardinality(Requetes)
          /\ Cardinality(JustesEnVol(c)') <= Cardinality(Requetes)
          /\ Cardinality(EnVol(c)') \in Nat /\ Cardinality(JustesEnVol(c)') \in Nat
      BY <3>1, FS_Subset, FS_CardinalityType DEF Hypotheses
    <3>3. CODE_ESSAIS_MAX \in Nat \ {0} /\ Cardinality(Requetes) \in Nat
      BY EnVolFini DEF Hypotheses, Domaines
    <3>4. c # NUL
      BY DEF Hypotheses, Domaines, Codes
    <3>5. essayes[c] # NUL /\ essayes[c] < CODE_ESSAIS_MAX /\ servis[c] = 0
      BY <1>9, <2>2, <3>4
    <3>6. essayes[c] \in Nat
      BY <1>1, <3>5 DEF TypeOK
    <3> QED BY <3>2, <3>3, <3>5, <3>6, Somme
  <2> QED BY <2>1, <2>2
<1> QED BY <1>7, <1>10, <1>11, <1>12 DEF IInv

\* An answer: one try less in flight, one more given.
LEMMA Repondre ==
    ASSUME Hypotheses, IInv, NEW q \in Requetes, OuvrirSession(q) \/ RefuserCode(q)
    PROVE  IInv'
<1> DEFINE k == req[q].code
<1>1. TypeOK /\ CodesTires /\ CodeEnVigueur /\ EnVolComptes /\ req[q].etat = "essai"
  BY DEF IInv, OuvrirSession, RefuserCode, En
<1>2. /\ k \in Codes \cup {NUL} /\ req[q].lien \in 1..MaxLiens
      /\ req[q].valide \in BOOLEAN /\ (req[q].valide => k # NUL)
  BY <1>1, FormeRequete DEF TypeOK, CodesTires, En
<1>3. /\ Repondu(k) /\ Finir(q) /\ UNCHANGED <<lien, revoquee, demandes>>
      /\ \/ /\ req[q].valide /\ code' = NUL /\ essais' = 0
            /\ ouvertes' = ouvertes \cup {req[q].lien}
            /\ servis' = [servis EXCEPT ![k] = @ + 1]
         \/ /\ ~req[q].valide /\ code' = code /\ essais' = essais + 1
            /\ UNCHANGED <<ouvertes, servis>>
  BY DEF OuvrirSession, RefuserCode
<1>4. /\ req' \in [Requetes -> Requete] /\ req'[q].etat = "libre"
      /\ \A p \in Requetes : p # q => req'[p] = req[p]
  BY <1>1, <1>3, Finie DEF TypeOK
<1>5. \A c \in Codes : EnVol(c)' = EnVol(c) \ {q} /\ JustesEnVol(c)' = JustesEnVol(c) \ {q}
  BY <1>4, SansEssai
<1>6. \A c \in Codes : /\ q \in EnVol(c) <=> c = k
                       /\ q \in JustesEnVol(c) <=> c = k /\ req[q].valide
  BY <1>1 DEF EnVol, JustesEnVol, En
<1> HIDE DEF k
<1>7. k # NUL => essayes[k] # NUL /\ essayes[k] \in Nat
  BY <1>1, <1>2, <1>6 DEF CodesTires, TypeOK
<1>8. /\ \A c \in Codes : c # k => essayes'[c] = essayes[c]
      /\ k # NUL => essayes'[k] = essayes[k] + 1
      /\ essayes' \in [Codes -> Nat \cup {NUL}]
  BY <1>1, <1>2, <1>3, <1>7 DEF Repondu, TypeOK
<1>9. /\ \A c \in Codes : c # k => servis'[c] = servis[c]
      /\ k # NUL => servis'[k] = servis[k] + (IF req[q].valide THEN 1 ELSE 0)
      /\ servis' \in [Codes -> Nat]
  BY <1>1, <1>2, <1>3 DEF TypeOK
<1>10. TypeOK'
  <2>1. code' \in [no: Codes, perime: BOOLEAN] \cup {NUL} /\ essais' \in Nat
        /\ ouvertes' \subseteq 1..MaxLiens
    <3>1. /\ code \in [no: Codes, perime: BOOLEAN] \cup {NUL} /\ essais \in Nat
          /\ ouvertes \subseteq 1..MaxLiens
      BY <1>1 DEF TypeOK
    <3>2. code' \in [no: Codes, perime: BOOLEAN] \cup {NUL}
      <4>1. code' = NUL \/ code' = code
        BY <1>3
      <4> QED BY <3>1, <4>1
    <3>3. essais' \in Nat
      <4>1. essais' = 0 \/ essais' = essais + 1
        BY <1>3
      <4> QED BY <3>1, <4>1
    <3>4. ouvertes' \subseteq 1..MaxLiens
      <4>1. ouvertes' = ouvertes \cup {req[q].lien} \/ ouvertes' = ouvertes
        BY <1>3
      <4> QED BY <1>2, <3>1, <4>1
    <3> QED BY <3>2, <3>3, <3>4
  <2> QED BY <1>1, <1>3, <1>4, <1>8, <1>9, <2>1 DEF TypeOK
<1>11. NUL \notin Nat /\ \A c \in Codes : c # NUL
  BY DEF Hypotheses, Domaines, Codes
<1>12. \A c \in Codes : essayes'[c] = NUL <=> essayes[c] = NUL
  BY <1>7, <1>8, <1>11
<1>13. CodesTires'
  <2>1. \A c, d \in Codes : c <= d /\ essayes'[d] # NUL => essayes'[c] # NUL
    BY <1>1, <1>12 DEF CodesTires
  <2>2. \A c \in Codes : essayes'[c] = NUL => servis'[c] = 0 /\ EnVol(c)' = {}
    BY <1>1, <1>5, <1>7, <1>9, <1>11, <1>12 DEF CodesTires
  <2>3. \A p \in Requetes : En(p, "essai")' /\ req'[p].valide => req'[p].code # NUL
    BY <1>1, <1>4 DEF CodesTires, En
  <2> QED BY <2>1, <2>2, <2>3 DEF CodesTires
<1>14. CodeEnVigueur'
  <2> SUFFICES ASSUME code' # NUL
               PROVE  /\ essayes'[code'.no] # NUL /\ essayes'[code'.no] <= essais'
                      /\ servis'[code'.no] = 0
    BY DEF CodeEnVigueur
  <2>1. ~req[q].valide /\ code' = code /\ essais' = essais + 1
    BY <1>3
  <2> DEFINE n == code.no
  <2>2. /\ n \in Codes /\ essayes[n] # NUL /\ essayes[n] <= essais /\ servis[n] = 0
        /\ essais \in Nat /\ essayes[n] \in Nat
    BY <1>1, <2>1 DEF CodeEnVigueur, TypeOK
  <2> HIDE DEF n
  <2>3. essayes'[n] \in {essayes[n], essayes[n] + 1} /\ servis'[n] = 0
    BY <1>8, <1>9, <1>11, <2>1, <2>2
  <2>4. essayes'[n] # NUL
    BY <1>12, <2>2
  <2>5. essayes'[n] <= essais'
    BY <2>1, <2>2, <2>3
  <2> QED BY <2>1, <2>3, <2>4, <2>5 DEF n
<1>15. EnVolComptes'
  <2> SUFFICES ASSUME NEW c \in Codes
               PROVE  /\ essayes'[c] # NUL =>
                            essayes'[c] + Cardinality(EnVol(c)')
                               <= CODE_ESSAIS_MAX + Cardinality(Requetes) - 1
                      /\ servis'[c] + Cardinality(JustesEnVol(c)') <= Cardinality(Requetes)
    BY DEF EnVolComptes
  <2>1. /\ Cardinality(EnVol(c) \ {q}) = Cardinality(EnVol(c)) - (IF c = k THEN 1 ELSE 0)
        /\ Cardinality(JustesEnVol(c) \ {q}) =
              Cardinality(JustesEnVol(c)) - (IF c = k /\ req[q].valide THEN 1 ELSE 0)
        /\ Cardinality(EnVol(c)) \in Nat /\ Cardinality(JustesEnVol(c)) \in Nat
    <3>1. /\ IsFiniteSet(EnVol(c)) /\ IsFiniteSet(JustesEnVol(c))
          /\ Cardinality(EnVol(c)) \in 0..Cardinality(Requetes)
          /\ Cardinality(JustesEnVol(c)) \in 0..Cardinality(Requetes)
          /\ Cardinality(Requetes) \in Nat
      BY EnVolFini
    <3>2. ASSUME NEW S, IsFiniteSet(S), Cardinality(S) \in Nat
          PROVE  Cardinality(S \ {q}) = Cardinality(S) - (IF q \in S THEN 1 ELSE 0)
      <4>1. CASE q \in S
        BY <3>2, <4>1, FS_RemoveElement
      <4>2. CASE q \notin S
        <5>1. S \ {q} = S
          BY <4>2
        <5>2. Cardinality(S \ {q}) = Cardinality(S)
          BY <5>1
        <5> QED BY <3>2, <4>2, <5>2
      <4> QED BY <4>1, <4>2
    <3>3. Cardinality(EnVol(c)) \in Nat /\ Cardinality(JustesEnVol(c)) \in Nat
      BY <3>1
    <3>4. Cardinality(EnVol(c) \ {q}) = Cardinality(EnVol(c)) - (IF q \in EnVol(c) THEN 1 ELSE 0)
      BY <3>1, <3>2, <3>3
    <3>5. Cardinality(JustesEnVol(c) \ {q}) =
             Cardinality(JustesEnVol(c)) - (IF q \in JustesEnVol(c) THEN 1 ELSE 0)
      BY <3>1, <3>2, <3>3
    <3> QED BY <1>6, <3>3, <3>4, <3>5
  <2>2. CASE c # k
    <3>1. /\ EnVol(c)' = EnVol(c) \ {q} /\ JustesEnVol(c)' = JustesEnVol(c) \ {q}
          /\ essayes'[c] = essayes[c] /\ servis'[c] = servis[c]
      BY <1>5, <1>8, <1>9, <2>2
    <3>2. /\ Cardinality(EnVol(c)') = Cardinality(EnVol(c))
          /\ Cardinality(JustesEnVol(c)') = Cardinality(JustesEnVol(c))
      BY <2>1, <2>2, <3>1
    <3> QED BY <1>1, <3>1, <3>2 DEF EnVolComptes
  <2>3. CASE c = k
    <3>1. /\ essayes[c] + Cardinality(EnVol(c))
                <= CODE_ESSAIS_MAX + Cardinality(Requetes) - 1
          /\ servis[c] + Cardinality(JustesEnVol(c)) <= Cardinality(Requetes)
      BY <1>1, <1>7, <1>11, <2>3 DEF EnVolComptes
    <3>2. /\ essayes'[c] = essayes[c] + 1 /\ essayes[c] \in Nat
          /\ servis'[c] = servis[c] + (IF req[q].valide THEN 1 ELSE 0) /\ servis[c] \in Nat
      BY <1>1, <1>7, <1>8, <1>9, <1>11, <2>3 DEF TypeOK
    <3>3. /\ Cardinality(EnVol(c)') = Cardinality(EnVol(c)) - 1
          /\ Cardinality(JustesEnVol(c)') =
                Cardinality(JustesEnVol(c)) - (IF req[q].valide THEN 1 ELSE 0)
      BY <1>5, <2>1, <2>3
    <3>4. essayes'[c] + Cardinality(EnVol(c)') = essayes[c] + Cardinality(EnVol(c))
      BY <2>1, <3>2, <3>3
    <3>5. servis'[c] + Cardinality(JustesEnVol(c)') = servis[c] + Cardinality(JustesEnVol(c))
      BY <1>2, <2>1, <3>2, <3>3
    <3> QED BY <3>1, <3>4, <3>5
  <2> QED BY <2>2, <2>3
<1> QED BY <1>10, <1>13, <1>14, <1>15 DEF IInv

LEMMA StepInv ==
    ASSUME Hypotheses, IInv, [Next]_vars
    PROVE  IInv'
<1>1. CASE UNCHANGED vars
  <2>1. \A c : EnVol(c)' = EnVol(c) /\ JustesEnVol(c)' = JustesEnVol(c)
    BY <1>1 DEF vars, EnVol, JustesEnVol, En
  <2>2. UNCHANGED <<lien, revoquee, code, essais, demandes, essayes, ouvertes, servis, req>>
    BY <1>1 DEF vars
  <2>3. TypeOK'
    BY <2>2 DEF IInv, TypeOK
  <2> QED BY <2>1, <2>2, <2>3, SansReponse
<1> QED BY <1>1, StepEnvoyer, StepSansReponse, StepEcrireCode, StepEssayer, Repondre
        DEF Next

LEMMA InitInv ==
    ASSUME Hypotheses, Init
    PROVE  IInv
<1>1. Libre \in Requete /\ Libre.etat = "libre"
  BY DEF Libre, Requete
<1>2. TypeOK
  <2>1. MaxLiens \in Nat /\ MaxDemandes \in Nat
    BY DEF Hypotheses, Domaines
  <2>2. lien \in 0..MaxLiens /\ demandes \in 0..MaxDemandes /\ essais \in Nat
    BY <2>1 DEF Init
  <2>3. /\ revoquee \in BOOLEAN /\ code \in [no: Codes, perime: BOOLEAN] \cup {NUL}
        /\ ouvertes \subseteq 1..MaxLiens
    BY DEF Init
  <2>4. essayes \in [Codes -> Nat \cup {NUL}] /\ servis \in [Codes -> Nat]
    BY DEF Init
  <2>5. req \in [Requetes -> Requete]
    BY <1>1 DEF Init
  <2> QED BY <2>2, <2>3, <2>4, <2>5 DEF TypeOK
<1>3. \A c : EnVol(c) = {} /\ JustesEnVol(c) = {}
  BY <1>1 DEF Init, EnVol, JustesEnVol, En
<1>4. CodesTires /\ CodeEnVigueur
  BY <1>1, <1>3 DEF Init, CodesTires, CodeEnVigueur, En
<1>5. EnVolComptes
  BY <1>3, FS_EmptySet, EnVolFini DEF Init, EnVolComptes
<1> QED BY <1>2, <1>4, <1>5 DEF IInv

(***************************************************************************)
(* Theorems                                                                *)
(***************************************************************************)
\* The invariant is inductive.
THEOREM Invariance ==
    ASSUME Hypotheses
    PROVE  Spec => []IInv
<1>1. Init => IInv
  BY InitInv
<1>2. IInv /\ [Next]_vars => IInv'
  BY StepInv
<1> QED BY <1>1, <1>2, PTL DEF Spec

\* ouvrirSession: however many requests try a code at once, it stands as many
\* tries as its limit and one more for each request but one, and it opens no
\* more sessions than there are requests at once.
THEOREM CodeResiste ==
    ASSUME Hypotheses
    PROVE  Spec => []EssaisBornes
<1>1. IInv => EssaisBornes
  <2> SUFFICES ASSUME IInv, NEW c \in Codes
               PROVE  /\ essayes[c] # NUL =>
                            essayes[c] <= CODE_ESSAIS_MAX + Cardinality(Requetes) - 1
                      /\ servis[c] <= Cardinality(Requetes)
    BY DEF EssaisBornes
  <2>1. /\ Cardinality(EnVol(c)) \in Nat /\ Cardinality(JustesEnVol(c)) \in Nat
        /\ Cardinality(Requetes) \in Nat /\ CODE_ESSAIS_MAX \in Nat
    BY EnVolFini DEF Hypotheses, Domaines
  <2>2. servis[c] \in Nat /\ (essayes[c] # NUL => essayes[c] \in Nat)
    BY DEF IInv, TypeOK
  <2> QED BY <2>1, <2>2 DEF IInv, EnVolComptes
<1> QED BY <1>1, Invariance, PTL

(***************************************************************************)
(* Membres.                                                                *)
(***************************************************************************)
(***************************************************************************)
(* Requests                                                                *)
(***************************************************************************)
LEMMA FormesMembres ==
    ASSUME NEW r \in Mb!Requete
    PROVE  /\ r.etat \in {"libre", "invitation", "renvoi", "resolue", "compte", "membre", "direction"}
           /\ r.etat = "invitation" =>
                 /\ r.email \in Personnes /\ r.role \in Mb!Role /\ r.acces \in Mb!Acces \cup {NUL}
                 /\ r.direction \in BOOLEAN /\ r.remplacees \in SUBSET (1..MaxInvitations)
           /\ r.etat \in {"renvoi", "resolue", "compte"} => r.i \in 1..MaxInvitations
           /\ r.etat = "resolue" => [r EXCEPT !.etat = "compte"] \in Mb!Requete
           /\ r.etat = "resolue" => LET s == [r EXCEPT !.etat = "compte"] IN s.etat = "compte" /\ s.i = r.i
           /\ r.etat = "membre" => /\ r.cible \in Personnes /\ r.role \in Mb!Role \cup {OMIS}
                                   /\ r.actif \in BOOLEAN \cup {OMIS}
           /\ r.etat = "direction" => r.p \in Personnes \cup {NUL}
BY DEF Mb!Requete

LEMMA GardeeMembres ==
    ASSUME NEW q \in Requetes, NEW r \in Mb!Requete,
           req \in [Requetes -> Mb!Requete], Mb!Garder(q, r)
    PROVE  /\ req' \in [Requetes -> Mb!Requete]
           /\ req'[q] = r
           /\ \A p \in Requetes : p # q => req'[p] = req[p]
BY DEF Mb!Garder

LEMMA FinieMembres ==
    ASSUME NEW q \in Requetes, req \in [Requetes -> Mb!Requete], Mb!Finir(q)
    PROVE  /\ req' \in [Requetes -> Mb!Requete]
           /\ req'[q].etat = "libre"
           /\ \A p \in Requetes : p # q => req'[p] = req[p]
<1>1. Mb!Libre \in Mb!Requete /\ Mb!Libre.etat = "libre"
  BY DEF Mb!Libre, Mb!Requete
<1> QED BY <1>1, GardeeMembres DEF Mb!Finir

(***************************************************************************)
(* Invitations                                                             *)
(***************************************************************************)
LEMMA Liste ==
    ASSUME invitations \in Seq(Mb!Invitation)
    PROVE  /\ DOMAIN invitations = 1..Len(invitations) /\ Len(invitations) \in Nat
           /\ \A i \in DOMAIN invitations : invitations[i] \in Mb!Invitation
OBVIOUS

LEMMA Remplacement ==
    ASSUME invitations \in Seq(Mb!Invitation), NEW r, Mb!Nouvelle(r) \in Mb!Invitation
    PROVE  /\ Mb!Remplacer(r) \in Seq(Mb!Invitation)
           /\ Len(Mb!Remplacer(r)) = Len(invitations) + 1
           /\ Mb!Remplacer(r)[Len(invitations) + 1] = Mb!Nouvelle(r)
           /\ \A i \in DOMAIN invitations :
                 /\ Mb!Remplacer(r)[i].email = invitations[i].email
                 /\ Mb!Remplacer(r)[i].etat = IF i \in r.remplacees /\ Mb!EnAttente(i)
                                              THEN "revoquee" ELSE invitations[i].etat
<1> DEFINE f(i) == IF i \in r.remplacees /\ Mb!EnAttente(i)
                   THEN [invitations[i] EXCEPT !.etat = "revoquee"] ELSE invitations[i]
           s == [i \in DOMAIN invitations |-> f(i)]
<1>1. \A i \in DOMAIN invitations :
         /\ f(i) \in Mb!Invitation
         /\ f(i).email = invitations[i].email
         /\ f(i).etat = IF i \in r.remplacees /\ Mb!EnAttente(i) THEN "revoquee" ELSE invitations[i].etat
  BY Liste DEF Mb!Invitation
<1>2. Mb!Remplacer(r) = Append(s, Mb!Nouvelle(r))
  BY DEF Mb!Remplacer
<1> HIDE DEF f
<1>3. s \in Seq(Mb!Invitation) /\ Len(s) = Len(invitations)
  BY <1>1, Liste
<1>4. \A i \in DOMAIN invitations : s[i] = f(i)
  OBVIOUS
<1> HIDE DEF s
<1>5. /\ Append(s, Mb!Nouvelle(r)) \in Seq(Mb!Invitation)
      /\ Len(Append(s, Mb!Nouvelle(r))) = Len(invitations) + 1
      /\ Append(s, Mb!Nouvelle(r))[Len(invitations) + 1] = Mb!Nouvelle(r)
      /\ \A i \in 1..Len(invitations) : Append(s, Mb!Nouvelle(r))[i] = s[i]
  BY <1>3
<1> QED
  BY <1>1, <1>2, <1>4, <1>5, Liste

\* One field of one invitation is written.
LEMMA Ecrite ==
    ASSUME invitations \in Seq(Mb!Invitation), NEW i \in DOMAIN invitations,
           NEW v \in Mb!Invitation, invitations' = [invitations EXCEPT ![i] = v]
    PROVE  /\ invitations' \in Seq(Mb!Invitation)
           /\ Len(invitations') = Len(invitations)
           /\ DOMAIN invitations' = DOMAIN invitations
           /\ invitations'[i] = v
           /\ \A j \in DOMAIN invitations : j # i => invitations'[j] = invitations[j]
BY Liste

(***************************************************************************)
(* What no step takes back                                                 *)
(***************************************************************************)
Croit == /\ \A i \in DOMAIN invitations : i \in DOMAIN invitations'
         /\ \A p \in Personnes : membres[p] # NUL => membres'[p] # NUL

LEMMA SuiviStable ==
    ASSUME Mb!TypeOK, Croit, NEW r \in Mb!Requete, Mb!Suivi(r)
    PROVE  Mb!Suivi(r)'
BY FormesMembres DEF Mb!Suivi, Croit, Mb!EstMembre

LEMMA SuiviPrimeMembres ==
    ASSUME NEW q, NEW r, req'[q] = r, Mb!Suivi(r)'
    PROVE  Mb!Suivi(req[q])'
BY DEF Mb!Suivi

\* The requests, once q has moved on to r.
LEMMA ClotureMembres ==
    ASSUME Mb!IInv, Croit, NEW q \in Requetes, NEW r \in Mb!Requete, Mb!Garder(q, r), Mb!Suivi(r)'
    PROVE  /\ req' \in [Requetes -> Mb!Requete]
           /\ \A p \in Requetes : Mb!Suivi(req[p])'
<1>1. /\ req' \in [Requetes -> Mb!Requete] /\ req'[q] = r
      /\ \A p \in Requetes : p # q => req'[p] = req[p]
  BY GardeeMembres DEF Mb!IInv, Mb!TypeOK
<1>2. Mb!Suivi(req[q])'
  BY <1>1, SuiviPrimeMembres
<1>3. ASSUME NEW p \in Requetes, p # q PROVE Mb!Suivi(req[p])'
  <2>1. PICK s \in Mb!Requete : s = req[p]
    BY DEF Mb!IInv, Mb!TypeOK
  <2>2. Mb!Suivi(s)'
    BY <2>1, SuiviStable DEF Mb!IInv
  <2> QED BY <1>1, <1>3, <2>1, <2>2, SuiviPrimeMembres
<1> QED BY <1>1, <1>2, <1>3

LEMMA ClotureFinie ==
    ASSUME Mb!IInv, Croit, NEW q \in Requetes, Mb!Finir(q)
    PROVE  /\ req' \in [Requetes -> Mb!Requete]
           /\ \A p \in Requetes : Mb!Suivi(req[p])'
<1>1. Mb!Libre \in Mb!Requete /\ Mb!Suivi(Mb!Libre)'
  BY DEF Mb!Libre, Mb!Requete, Mb!Suivi
<1> QED BY <1>1, ClotureMembres DEF Mb!Finir

LEMMA Inchangees ==
    ASSUME Mb!IInv, Croit, req' = req
    PROVE  /\ req' \in [Requetes -> Mb!Requete]
           /\ \A p \in Requetes : Mb!Suivi(req[p])'
<1>1. ASSUME NEW p \in Requetes PROVE Mb!Suivi(req[p])'
  <2>1. PICK s \in Mb!Requete : s = req[p]
    BY DEF Mb!IInv, Mb!TypeOK
  <2>2. Mb!Suivi(s)'
    BY <2>1, SuiviStable DEF Mb!IInv
  <2> QED BY <2>1, <2>2, SuiviPrimeMembres
<1> QED BY <1>1 DEF Mb!IInv, Mb!TypeOK

\* Nothing but requests changes.
LEMMA LectureMembres ==
    ASSUME Mb!IInv, NEW q \in Requetes, NEW r \in Mb!Requete, Mb!Garder(q, r),
           UNCHANGED <<Mb!societe, invitations, liens>>, Mb!Suivi(r)
    PROVE  Mb!IInv' /\ Mb!EntreeParInvitation
<1>1. Croit
  BY DEF Croit, Mb!societe
<1>2. Mb!Suivi(r)'
  BY <1>1, SuiviStable DEF Mb!IInv
<1>3. /\ req' \in [Requetes -> Mb!Requete]
      /\ \A p \in Requetes : Mb!Suivi(req[p])'
  BY <1>1, <1>2, ClotureMembres
<1>4. Mb!TypeOK'
  BY <1>3 DEF Mb!IInv, Mb!TypeOK, Mb!societe
<1>5. Mb!EntreeParInvitation
  BY DEF Mb!EntreeParInvitation, Mb!societe
<1> QED BY <1>3, <1>4, <1>5 DEF Mb!IInv

(***************************************************************************)
(* Actions that only read                                                  *)
(***************************************************************************)
LEMMA LecturesInvitations ==
    ASSUME Mb!Domaines, Mb!IInv, NEW q \in Requetes,
           \/ \E a, p \in Personnes, r \in Mb!Role, n \in Mb!Acces \cup {NUL}, d \in BOOLEAN :
                 Mb!LireInvitation(q, a, p, r, n, d)
           \/ \E i \in DOMAIN invitations : Mb!LireRenvoi(q, i)
           \/ \E l \in 1..liens : Mb!Resoudre(q, l)
    PROVE  Mb!IInv' /\ Mb!EntreeParInvitation
<1>0. DOMAIN invitations \subseteq 1..MaxInvitations
  BY Liste DEF Mb!IInv, Mb!TypeOK, Mb!Domaines
<1>1. ASSUME NEW a \in Personnes, NEW p \in Personnes, NEW r \in Mb!Role,
             NEW n \in Mb!Acces \cup {NUL},
             NEW d \in BOOLEAN, Mb!LireInvitation(q, a, p, r, n, d)
      PROVE  Mb!IInv' /\ Mb!EntreeParInvitation
  <2> DEFINE s == {i \in DOMAIN invitations : invitations[i].email = p /\ Mb!EnAttente(i)}
             x == [etat |-> "invitation", email |-> p, role |-> r, acces |-> n,
                   direction |-> d, remplacees |-> s]
  <2>1. Mb!Garder(q, x) /\ UNCHANGED <<Mb!societe, invitations, liens>>
    BY <1>1 DEF Mb!LireInvitation
  <2>2. s \in SUBSET (1..MaxInvitations)
    BY <1>0
  <2> HIDE DEF s
  <2>3. x \in Mb!Requete /\ x.etat = "invitation"
    BY <2>2 DEF Mb!Requete
  <2>4. Mb!Suivi(x)
    BY <2>3 DEF Mb!Suivi
  <2> HIDE DEF x
  <2> QED BY <2>1, <2>3, <2>4, LectureMembres
<1>2. ASSUME NEW i \in DOMAIN invitations, NEW e \in {"renvoi", "resolue"},
             Mb!Garder(q, [etat |-> e, i |-> i]), UNCHANGED <<Mb!societe, invitations, liens>>
      PROVE  Mb!IInv' /\ Mb!EntreeParInvitation
  <2> DEFINE x == [etat |-> e, i |-> i]
  <2>1. x \in Mb!Requete
    BY <1>0 DEF Mb!Requete
  <2>2. Mb!Suivi(x)
    BY DEF Mb!Suivi
  <2> QED BY <1>2, <2>1, <2>2, LectureMembres
<1>3. ASSUME NEW i \in DOMAIN invitations, Mb!LireRenvoi(q,
             i) PROVE Mb!IInv' /\ Mb!EntreeParInvitation
  BY <1>2, <1>3 DEF Mb!LireRenvoi
<1>4. ASSUME NEW l \in 1..liens, Mb!Resoudre(q, l) PROVE Mb!IInv' /\ Mb!EntreeParInvitation
  BY <1>2, <1>4 DEF Mb!Resoudre
<1> QED BY <1>1, <1>3, <1>4

LEMMA LecturesAdministration ==
    ASSUME Mb!Domaines, Mb!IInv, NEW q \in Requetes,
           \/ \E a, p \in Personnes, r \in Mb!Role \cup {OMIS}, f \in BOOLEAN \cup {OMIS} :
                 Mb!LireMembre(q, a, p, r, f)
           \/ \E p \in Personnes \cup {NUL} : Mb!LireDirection(q, p)
           \/ Mb!Interrompre(q)
    PROVE  Mb!IInv' /\ Mb!EntreeParInvitation
<1>1. ASSUME NEW a \in Personnes, NEW p \in Personnes, NEW r \in Mb!Role \cup {OMIS},
             NEW f \in BOOLEAN \cup {OMIS}, Mb!LireMembre(q, a, p, r, f)
      PROVE  Mb!IInv' /\ Mb!EntreeParInvitation
  <2> DEFINE x == [etat |-> "membre", cible |-> p, role |-> r, actif |-> f]
  <2>1. Mb!Garder(q, x) /\ UNCHANGED <<Mb!societe, invitations, liens>> /\ Mb!EstMembre(p)
    BY <1>1 DEF Mb!LireMembre
  <2>2. x \in Mb!Requete /\ x.etat = "membre" /\ x.cible = p
    BY DEF Mb!Requete
  <2>3. Mb!Suivi(x)
    BY <2>1, <2>2 DEF Mb!Suivi
  <2> HIDE DEF x
  <2> QED BY <2>1, <2>2, <2>3, LectureMembres
<1>2. ASSUME NEW p \in Personnes \cup {NUL}, Mb!LireDirection(q,
             p) PROVE Mb!IInv' /\ Mb!EntreeParInvitation
  <2> DEFINE x == [etat |-> "direction", p |-> p]
  <2>1. Mb!Garder(q, x) /\ UNCHANGED <<Mb!societe, invitations, liens>>
    BY <1>2 DEF Mb!LireDirection
  <2>2. x \in Mb!Requete /\ Mb!Suivi(x)
    BY DEF Mb!Requete, Mb!Suivi
  <2> HIDE DEF x
  <2> QED BY <2>1, <2>2, LectureMembres
<1>3. ASSUME Mb!Interrompre(q) PROVE Mb!IInv' /\ Mb!EntreeParInvitation
  <2>1. Mb!Libre \in Mb!Requete /\ Mb!Suivi(Mb!Libre)
    BY DEF Mb!Libre, Mb!Requete, Mb!Suivi
  <2> QED BY <1>3, <2>1, LectureMembres DEF Mb!Interrompre, Mb!Finir
<1> QED BY <1>1, <1>2, <1>3

(***************************************************************************)
(* Actions that write                                                      *)
(***************************************************************************)
\* What a step that writes has to show.
LEMMA Ecriture ==
    ASSUME Mb!IInv, comptes' \subseteq Personnes,
           membres' \in [Personnes -> Mb!Membre \cup {NUL}],
           acces' \in [Personnes -> Mb!Acces \cup {NUL}],
           directionTravaux' \in Personnes \cup {NUL},
           invitations' \in Seq(Mb!Invitation), Len(invitations') <= MaxInvitations,
           liens' \in 0..MaxLiens, Croit,
           \/ \E q \in Requetes : Mb!Finir(q) \/ \E r \in Mb!Requete : Mb!Garder(q, r) /\ Mb!Suivi(r)'
           \/ req' = req
    PROVE  Mb!IInv'
<1>1. /\ req' \in [Requetes -> Mb!Requete]
      /\ \A p \in Requetes : Mb!Suivi(req[p])'
  BY ClotureMembres, ClotureFinie, Inchangees
<1> QED BY <1>1 DEF Mb!IInv, Mb!TypeOK

LEMMA Invitee ==
    ASSUME Mb!Domaines, Mb!IInv, NEW q \in Requetes, Mb!Inviter(q)
    PROVE  /\ Mb!IInv' /\ Mb!EntreeParInvitation /\ Mb!Finir(q) /\ UNCHANGED membres
           /\ \E r \in Mb!Requete :
                 /\ r = req[q] /\ r.etat = "invitation"
                 /\ DOMAIN invitations' = DOMAIN invitations \cup {Len(invitations) + 1}
                 /\ invitations'[Len(invitations) + 1].email = r.email
                 /\ \A i \in DOMAIN invitations :
                       /\ invitations'[i].email = invitations[i].email
                       /\ Mb!EnAttente(i)' => Mb!EnAttente(i) /\ i \notin r.remplacees
<1> USE DEF Mb!IInv, Mb!TypeOK
<1>0. PICK r \in Mb!Requete : r = req[q]
  OBVIOUS
<1>1. /\ r.etat = "invitation" /\ Len(invitations) < MaxInvitations /\ liens < MaxLiens
      /\ invitations' = Mb!Remplacer(r) /\ liens' = liens + 1 /\ Mb!Finir(q) /\ UNCHANGED Mb!societe
  BY <1>0 DEF Mb!Inviter, Mb!En
<1>2. liens' \in 0..MaxLiens /\ liens + 1 \in 1..MaxLiens
  BY <1>1 DEF Mb!Domaines
<1>3. Mb!Nouvelle(r) \in Mb!Invitation
  BY <1>1, <1>2, FormesMembres DEF Mb!Nouvelle, Mb!Invitation
<1>4. /\ invitations' \in Seq(Mb!Invitation)
      /\ Len(invitations') = Len(invitations) + 1
      /\ invitations'[Len(invitations) + 1] = Mb!Nouvelle(r)
      /\ \A i \in DOMAIN invitations :
            invitations'[i].email = invitations[i].email
      /\ \A i \in DOMAIN invitations :
            invitations'[i].etat = IF i \in r.remplacees /\ Mb!EnAttente(i)
                                   THEN "revoquee" ELSE invitations[i].etat
  BY <1>1, <1>3, Remplacement
<1>5. DOMAIN invitations = 1..Len(invitations) /\ Len(invitations) \in Nat
      /\ DOMAIN invitations' = 1..(Len(invitations) + 1)
  BY <1>4, Liste
<1>6. Croit
  BY <1>1, <1>5 DEF Croit, Mb!societe
<1>7. Len(invitations') <= MaxInvitations
  BY <1>1, <1>4, <1>5 DEF Mb!Domaines
<1>8. Mb!IInv'
  BY <1>1, <1>2, <1>4, <1>6, <1>7, Ecriture DEF Mb!societe
<1>9. Mb!EntreeParInvitation
  BY <1>1, <1>4 DEF Mb!EntreeParInvitation, Mb!societe, Mb!EnAttente
<1>10. DOMAIN invitations' = DOMAIN invitations \cup {Len(invitations) + 1}
  BY <1>5
<1>11. invitations'[Len(invitations) + 1].email = r.email
  BY <1>4 DEF Mb!Nouvelle
<1>12. \A i \in DOMAIN invitations : Mb!EnAttente(i)' => Mb!EnAttente(i) /\ i \notin r.remplacees
  BY <1>4 DEF Mb!EnAttente
<1>13. UNCHANGED membres
  BY <1>1 DEF Mb!societe
<1> QED BY <1>0, <1>1, <1>4, <1>8, <1>9, <1>10, <1>11, <1>12, <1>13

LEMMA Renvoyee ==
    ASSUME Mb!Domaines, Mb!IInv, NEW q \in Requetes, Mb!Renvoyer(q)
    PROVE  /\ Mb!IInv' /\ Mb!EntreeParInvitation /\ Mb!Finir(q) /\ UNCHANGED membres
           /\ DOMAIN invitations' = DOMAIN invitations
           /\ \A i \in DOMAIN invitations :
                 invitations'[i].email = invitations[i].email /\ (Mb!EnAttente(i)' => Mb!EnAttente(i))
<1> USE DEF Mb!IInv, Mb!TypeOK
<1>0. PICK r \in Mb!Requete : r = req[q]
  OBVIOUS
<1> DEFINE v == [invitations[r.i] EXCEPT !.lien = liens + 1, !.expiree = FALSE]
<1>1. /\ r.etat = "renvoi" /\ liens < MaxLiens
      /\ liens' = liens + 1 /\ Mb!Finir(q) /\ UNCHANGED Mb!societe
  BY <1>0 DEF Mb!Renvoyer, Mb!En
<1>2. liens' \in 0..MaxLiens /\ liens + 1 \in 1..MaxLiens
  BY <1>1 DEF Mb!Domaines
<1>3. r.i \in DOMAIN invitations /\ invitations[r.i] \in Mb!Invitation
  BY <1>0, <1>1, Liste DEF Mb!Suivi
<1>4. /\ v \in Mb!Invitation /\ v.etat = invitations[r.i].etat
      /\ v.email = invitations[r.i].email
  BY <1>2, <1>3 DEF Mb!Invitation
<1>5. invitations' = [invitations EXCEPT ![r.i] = v]
  BY <1>0, <1>3 DEF Mb!Renvoyer
<1> HIDE DEF v
<1>6. /\ invitations' \in Seq(Mb!Invitation)
      /\ Len(invitations') = Len(invitations)
      /\ DOMAIN invitations' = DOMAIN invitations
      /\ \A j \in DOMAIN invitations :
            /\ invitations'[j].etat = invitations[j].etat
            /\ invitations'[j].email = invitations[j].email
  BY <1>3, <1>4, <1>5, Ecrite
<1>7. Croit
  BY <1>1, <1>6 DEF Croit, Mb!societe
<1>8. Mb!IInv'
  BY <1>1, <1>2, <1>6, <1>7, Ecriture DEF Mb!societe
<1>9. Mb!EntreeParInvitation
  BY <1>1, <1>6 DEF Mb!EntreeParInvitation, Mb!societe, Mb!EnAttente
<1> QED BY <1>1, <1>6, <1>8, <1>9 DEF Mb!EnAttente, Mb!societe

LEMMA CompteOuvert ==
    ASSUME Mb!Domaines, Mb!IInv, NEW q \in Requetes, Mb!PrendreCompte(q)
    PROVE  /\ Mb!IInv' /\ Mb!EntreeParInvitation /\ UNCHANGED <<membres, invitations>>
           /\ req'[q].etat = "compte"
<1> USE DEF Mb!IInv, Mb!TypeOK
<1>0. PICK r \in Mb!Requete : r = req[q]
  OBVIOUS
<1> DEFINE x == [r EXCEPT !.etat = "compte"]
<1>1. /\ r.etat = "resolue" /\ comptes' = comptes \cup {invitations[r.i].email}
      /\ Mb!Garder(q, x) /\ UNCHANGED <<membres, acces, directionTravaux, invitations, liens>>
  BY <1>0 DEF Mb!PrendreCompte, Mb!En
<1>2. r.i \in DOMAIN invitations /\ invitations[r.i] \in Mb!Invitation
  BY <1>0, <1>1, Liste DEF Mb!Suivi
<1>3. comptes' \subseteq Personnes
  BY <1>1, <1>2 DEF Mb!Invitation
<1>4. x \in Mb!Requete /\ x.etat = "compte" /\ x.i = r.i
  BY <1>1, FormesMembres
<1> HIDE DEF x
<1>5. Croit
  BY <1>1 DEF Croit
<1>6. Mb!Suivi(x)'
  BY <1>1, <1>2, <1>4 DEF Mb!Suivi
<1>7. Mb!IInv'
  BY <1>1, <1>3, <1>4, <1>5, <1>6, Ecriture
<1>8. Mb!EntreeParInvitation
  BY <1>1 DEF Mb!EntreeParInvitation
<1>9. req'[q].etat = "compte"
  BY <1>1, <1>4, GardeeMembres
<1> QED BY <1>1, <1>7, <1>8, <1>9

\* Taking an invitation: the person it names becomes a member, by it.
LEMMA AcceptationMembres ==
    ASSUME Mb!Domaines, Mb!IInv, NEW q \in Requetes, Mb!Accepter(q)
    PROVE  /\ Mb!IInv' /\ Mb!EntreeParInvitation /\ Mb!Finir(q)
           /\ \E i \in DOMAIN invitations :
                 /\ Mb!EnAttente(i) /\ ~Mb!EstMembre(invitations[i].email)
                 /\ \A p \in Personnes : p # invitations[i].email => membres'[p] = membres[p]
                 /\ DOMAIN invitations' = DOMAIN invitations
                 /\ ~(Mb!EnAttente(i)')
                 /\ \A j \in DOMAIN invitations : j # i => invitations'[j] = invitations[j]
<1> USE DEF Mb!IInv, Mb!TypeOK
<1>0. PICK r \in Mb!Requete : r = req[q]
  OBVIOUS
<1>a. PICK i : i = r.i
  OBVIOUS
<1>b. PICK inv : inv = invitations[i]
  OBVIOUS
<1> DEFINE v == [invitations[i] EXCEPT !.etat = "acceptee"]
           m == [role |-> inv.role, actif |-> TRUE]
<1>1. /\ r.etat = "compte" /\ Mb!EnAttente(i) /\ ~Mb!EstMembre(inv.email)
      /\ Mb!Entrer(i) /\ Mb!Finir(q) /\ UNCHANGED <<comptes, liens>>
  BY <1>0, <1>a, <1>b DEF Mb!Accepter, Mb!En
<1>2. i \in DOMAIN invitations /\ inv \in Mb!Invitation
  BY <1>0, <1>a, <1>b, <1>1, Liste DEF Mb!Suivi
<1>3. /\ v \in Mb!Invitation /\ v.etat = "acceptee"
      /\ inv.email \in Personnes /\ inv.acces \in Mb!Acces \cup {NUL}
      /\ m \in Mb!Membre /\ m.role = inv.role
  BY <1>b, <1>2 DEF Mb!Invitation, Mb!Membre
<1>4. /\ membres' = [membres EXCEPT ![inv.email] = m]
      /\ acces' = [acces EXCEPT ![inv.email] = inv.acces]
      /\ directionTravaux' = IF inv.direction THEN inv.email ELSE directionTravaux
      /\ invitations' = [invitations EXCEPT ![i] = v]
  BY <1>b, <1>1, <1>2 DEF Mb!Entrer
<1> HIDE DEF v, m
<1>5. m # NUL
  BY <1>3 DEF Mb!Domaines
<1>6. /\ membres' \in [Personnes -> Mb!Membre \cup {NUL}]
      /\ membres'[inv.email] = m
      /\ \A p \in Personnes : p # inv.email => membres'[p] = membres[p]
      /\ acces' \in [Personnes -> Mb!Acces \cup {NUL}]
      /\ directionTravaux' \in Personnes \cup {NUL}
  BY <1>3, <1>4
<1>7. /\ invitations' \in Seq(Mb!Invitation)
      /\ Len(invitations') = Len(invitations)
      /\ DOMAIN invitations' = DOMAIN invitations
      /\ invitations'[i] = v
      /\ \A j \in DOMAIN invitations : j # i => invitations'[j] = invitations[j]
  BY <1>2, <1>3, <1>4, Ecrite
<1>8. Croit
  BY <1>5, <1>6, <1>7 DEF Croit
<1>9. Mb!IInv'
  BY <1>1, <1>6, <1>7, <1>8, Ecriture
<1>10. Mb!EntreeParInvitation
  BY <1>1, <1>2, <1>3, <1>b, <1>6, <1>7 DEF Mb!EntreeParInvitation, Mb!EnAttente
<1>11. ~(Mb!EnAttente(i)')
  BY <1>3, <1>7 DEF Mb!EnAttente
<1> QED BY <1>1, <1>2, <1>b, <1>6, <1>7, <1>9, <1>10, <1>11

LEMMA EcrituresMembres ==
    ASSUME Mb!Domaines, Mb!IInv, NEW q \in Requetes,
           Mb!ModifierMembre(q) \/ Mb!NommerDirectionTravaux(q)
    PROVE  Mb!IInv' /\ Mb!EntreeParInvitation
<1> USE DEF Mb!IInv, Mb!TypeOK
<1>0. PICK r \in Mb!Requete : r = req[q]
  OBVIOUS
<1>1. CASE Mb!ModifierMembre(q)
  <2>0. PICK m : m = membres[r.cible]
    OBVIOUS
  <2> DEFINE v == [role |-> Mb!Donne(r.role, m.role), actif |-> Mb!Donne(r.actif, m.actif)]
  <2>1. /\ r.etat = "membre" /\ membres' = [membres EXCEPT ![r.cible] = v]
        /\ Mb!Finir(q) /\ UNCHANGED <<comptes, acces, directionTravaux, invitations, liens>>
    BY <1>0, <1>1, <2>0 DEF Mb!ModifierMembre, Mb!En
  <2>2. /\ r.cible \in Personnes /\ r.role \in Mb!Role \cup {OMIS} /\ r.actif \in BOOLEAN \cup {OMIS}
        /\ Mb!EstMembre(r.cible)
    BY <1>0, <2>1, FormesMembres DEF Mb!Suivi
  <2>a. m \in Mb!Membre
    BY <2>0, <2>2 DEF Mb!EstMembre
  <2>b. m.role \in Mb!Role /\ m.actif \in BOOLEAN
    BY <2>a DEF Mb!Membre
  <2>c. Mb!Donne(r.role, m.role) \in Mb!Role /\ Mb!Donne(r.actif, m.actif) \in BOOLEAN
    BY <2>2, <2>b DEF Mb!Donne
  <2>3. v \in Mb!Membre
    BY <2>c DEF Mb!Membre
  <2> HIDE DEF v
  <2>4. v # NUL
    BY <2>3 DEF Mb!Domaines
  <2>5. membres' \in [Personnes -> Mb!Membre \cup {NUL}]
    BY <2>1, <2>2, <2>3
  <2>6. Croit
    BY <2>1, <2>2, <2>4 DEF Croit
  <2>7. Mb!IInv'
    BY <2>1, <2>5, <2>6, Ecriture
  <2>8. \A p \in Personnes : membres[p] = NUL => membres'[p] = NUL
    BY <1>0, <2>1, <2>2 DEF Mb!Suivi, Mb!EstMembre
  <2>9. Mb!EntreeParInvitation
    BY <2>1, <2>8 DEF Mb!EntreeParInvitation
  <2> QED BY <2>7, <2>9
<1>2. CASE Mb!NommerDirectionTravaux(q)
  <2>1. /\ r.etat = "direction" /\ directionTravaux' = r.p
        /\ Mb!Finir(q) /\ UNCHANGED <<comptes, membres, acces, invitations, liens>>
    BY <1>0, <1>2 DEF Mb!NommerDirectionTravaux, Mb!En
  <2>2. directionTravaux' \in Personnes \cup {NUL}
    BY <2>1, FormesMembres
  <2>3. Croit
    BY <2>1 DEF Croit
  <2>4. Mb!IInv'
    BY <2>1, <2>2, <2>3, Ecriture
  <2>5. Mb!EntreeParInvitation
    BY <2>1 DEF Mb!EntreeParInvitation
  <2> QED BY <2>4, <2>5
<1> QED BY <1>1, <1>2

\* Revoking or ageing an invitation that waits.
LEMMA Retouchees ==
    ASSUME Mb!Domaines, Mb!IInv, NEW i \in DOMAIN invitations, Mb!Revoquer(i) \/ Mb!Expirer(i)
    PROVE  /\ Mb!IInv' /\ Mb!EntreeParInvitation /\ UNCHANGED <<membres, req>>
           /\ DOMAIN invitations' = DOMAIN invitations
           /\ \A j \in DOMAIN invitations :
                 invitations'[j].email = invitations[j].email /\ (Mb!EnAttente(j)' => Mb!EnAttente(j))
<1> USE DEF Mb!IInv, Mb!TypeOK
<1>1. invitations[i] \in Mb!Invitation
  BY Liste
<1>2. PICK v \in Mb!Invitation :
         /\ v.email = invitations[i].email
         /\ invitations' = [invitations EXCEPT ![i] = v]
  <2>1. CASE Mb!Revoquer(i)
    <3> DEFINE w == [invitations[i] EXCEPT !.etat = "revoquee"]
    <3>1. w \in Mb!Invitation /\ w.email = invitations[i].email
      BY <1>1 DEF Mb!Invitation
    <3>2. invitations' = [invitations EXCEPT ![i] = w]
      BY <2>1 DEF Mb!Revoquer
    <3> QED BY <3>1, <3>2
  <2>2. CASE Mb!Expirer(i)
    <3> DEFINE w == [invitations[i] EXCEPT !.expiree = TRUE]
    <3>1. w \in Mb!Invitation /\ w.email = invitations[i].email
      BY <1>1 DEF Mb!Invitation
    <3>2. invitations' = [invitations EXCEPT ![i] = w]
      BY <2>2 DEF Mb!Expirer
    <3> QED BY <3>1, <3>2
  <2> QED BY <2>1, <2>2
<1>3. Mb!EnAttente(i) /\ UNCHANGED <<Mb!societe, liens, req>>
  BY DEF Mb!Revoquer, Mb!Expirer
<1>4. /\ invitations' \in Seq(Mb!Invitation)
      /\ Len(invitations') = Len(invitations)
      /\ DOMAIN invitations' = DOMAIN invitations
      /\ invitations'[i] = v
      /\ \A j \in DOMAIN invitations : j # i => invitations'[j] = invitations[j]
  BY <1>2, Ecrite
<1>5. Croit
  BY <1>3, <1>4 DEF Croit, Mb!societe
<1>6. Mb!IInv'
  BY <1>3, <1>4, <1>5, Ecriture DEF Mb!societe
<1>7. Mb!EntreeParInvitation
  BY <1>3, <1>4 DEF Mb!EntreeParInvitation, Mb!societe, Mb!EnAttente
<1> QED BY <1>2, <1>3, <1>4, <1>6, <1>7 DEF Mb!EnAttente, Mb!societe

LEMMA AccesOuverts ==
    ASSUME Mb!Domaines, Mb!IInv,
           \E p \in Personnes : Mb!RevoquerAcces(p) \/ \E n \in Mb!Acces : Mb!AccorderAcces(p, n)
    PROVE  Mb!IInv' /\ Mb!EntreeParInvitation /\ UNCHANGED <<membres, invitations, req>>
<1> USE DEF Mb!IInv, Mb!TypeOK
<1>1. acces' \in [Personnes -> Mb!Acces \cup {NUL}]
      /\ UNCHANGED <<comptes, membres, directionTravaux, invitations, liens, req>>
  BY DEF Mb!RevoquerAcces, Mb!AccorderAcces
<1>2. Croit
  BY <1>1 DEF Croit
<1>3. Mb!IInv'
  BY <1>1, <1>2, Ecriture
<1>4. Mb!EntreeParInvitation
  BY <1>1 DEF Mb!EntreeParInvitation
<1> QED BY <1>1, <1>3, <1>4

LEMMA PasMembres == ASSUME Mb!Domaines, Mb!IInv, Mb!Next PROVE Mb!IInv' /\ Mb!EntreeParInvitation
<1>1. ASSUME NEW q \in Requetes, Mb!Invitations(q) \/ Mb!Administration(q) \/ Mb!Interrompre(q)
      PROVE  Mb!IInv' /\ Mb!EntreeParInvitation
  BY <1>1, LecturesInvitations, LecturesAdministration, Invitee, Renvoyee, CompteOuvert,
     AcceptationMembres, EcrituresMembres DEF Mb!Invitations, Mb!Administration
<1>2. CASE Mb!Immediat
  BY <1>2, Retouchees, AccesOuverts DEF Mb!Immediat
<1> QED BY <1>1, <1>2 DEF Mb!Next

LEMMA DepartMembres == ASSUME Mb!Domaines, Mb!Init PROVE Mb!IInv
<1>1. [role |-> "OWNER", actif |-> TRUE] \in Mb!Membre
  BY DEF Mb!Membre, Mb!Role
<1>2. Mb!Libre \in Mb!Requete /\ Mb!Suivi(Mb!Libre)
  BY DEF Mb!Libre, Mb!Requete, Mb!Suivi
<1>3. <<>> \in Seq(Mb!Invitation) /\ Len(<<>>) = 0
  OBVIOUS
<1>4. Mb!TypeOK
  BY <1>1, <1>2, <1>3 DEF Mb!Init, Mb!TypeOK, Mb!Domaines
<1> QED BY <1>2, <1>4 DEF Mb!IInv, Mb!Init

LEMMA Bloc ==
    ASSUME Mb!IInv, UNCHANGED Mb!vars
    PROVE  Mb!IInv' /\ Mb!EntreeParInvitation
<1>1. Croit /\ UNCHANGED <<comptes, membres, acces, directionTravaux, invitations, liens, req>>
  BY DEF Croit, Mb!vars, Mb!societe
<1>2. Mb!IInv'
  BY <1>1, Inchangees DEF Mb!IInv, Mb!TypeOK
<1> QED BY <1>1, <1>2 DEF Mb!EntreeParInvitation

\* accepter, renvoyer and modifierMembre: whatever runs at the same time, what
\* a request has looked up is still there when it writes.
THEOREM InvarianceMembres == ASSUME Mb!Domaines PROVE Mb!Spec => []Mb!IInv
<1>1. Mb!Init => Mb!IInv
  BY DepartMembres
<1>2. Mb!IInv /\ [Mb!Next]_Mb!vars => Mb!IInv'
  BY PasMembres, Bloc
<1> QED BY <1>1, <1>2, PTL DEF Mb!Spec

\* accepter: whatever runs at the same time, a person enters by one invitation
\* that was still waiting, with its role, and what is no longer waiting never
\* waits again.
THEOREM EntreesUniques == ASSUME Mb!Domaines PROVE Mb!Spec => Mb!EntreeUnique
<1>1. Mb!IInv /\ [Mb!Next]_Mb!vars => [Mb!EntreeParInvitation]_Mb!vars
  BY PasMembres
<1> QED BY <1>1, InvarianceMembres, PTL DEF Mb!Spec, Mb!EntreeUnique

(***************************************************************************)
(* One request at a time                                                   *)
(***************************************************************************)
\* A set has the size that the component gives it.
LEMMA TailleMembres == \A S : Mb!Cardinality(S) = Cardinality(S)
BY DEF Mb!Cardinality, Cardinality

\* Who is the owner put aside, another one remains.
LEMMA Autre ==
    ASSUME Mb!Domaines, ~Mb!DernierProprietaire, NEW c
    PROVE  Mb!Proprietaires \ {c} # {}
<1>1. SUFFICES ASSUME Mb!Proprietaires \subseteq {c} PROVE FALSE
  OBVIOUS
<1>2. IsFiniteSet({c}) /\ Cardinality({c}) = 1
  BY FS_Singleton
<1>3. Cardinality(Mb!Proprietaires) <= 1 /\ Cardinality(Mb!Proprietaires) \in Nat
  BY <1>1, <1>2, FS_Subset, FS_CardinalityType
<1> QED BY <1>3, TailleMembres DEF Mb!DernierProprietaire

LEMMA ActuelPrimeMembres ==
    ASSUME NEW q, NEW r, req'[q] = r, Mb!Actuel(r)'
    PROVE  Mb!Actuel(req[q])'
BY DEF Mb!Actuel, Mb!Ecarte

LEMMA MuetteMembres ==
    ASSUME NEW q, req'[q].etat \notin {"invitation", "membre"}
    PROVE  Mb!Actuel(req[q])'
BY DEF Mb!Actuel

\* The members stay, and no more invitation waits than before.
LEMMA Calme ==
    ASSUME Mb!IInv, Mb!Administrable, Mb!UnSeulLien, UNCHANGED membres,
           DOMAIN invitations' = DOMAIN invitations,
           \A i \in DOMAIN invitations :
               invitations'[i].email = invitations[i].email /\ (Mb!EnAttente(i)' => Mb!EnAttente(i))
    PROVE  /\ Mb!Administrable' /\ Mb!UnSeulLien'
           /\ \A r \in Mb!Requete : Mb!Actuel(r) => Mb!Actuel(r)'
<1>1. Mb!Proprietaires' = Mb!Proprietaires /\ \A p \in Personnes : Mb!EstMembre(p)' <=> Mb!EstMembre(p)
  BY DEF Mb!Proprietaires, Mb!EstMembre
<1>2. Mb!Administrable'
  BY <1>1 DEF Mb!Administrable
<1>3. \A i \in DOMAIN invitations : invitations[i].email \in Personnes
  BY Liste DEF Mb!IInv, Mb!TypeOK, Mb!Invitation
<1>4. Mb!UnSeulLien'
  BY <1>1, <1>3 DEF Mb!UnSeulLien
<1>5. ASSUME NEW r \in Mb!Requete, Mb!Actuel(r) PROVE Mb!Actuel(r)'
  <2>1. r.etat = "membre" => (Mb!Ecarte(r)' <=> Mb!Ecarte(r))
    BY DEF Mb!Ecarte
  <2>2. r.etat = "invitation" => r.email \in Personnes
    BY FormesMembres
  <2> QED BY <1>1, <1>5, <2>1, <2>2 DEF Mb!Actuel
<1> QED BY <1>2, <1>4, <1>5

\* A step of q that leaves members and invitations alone, but for some that
\* no longer wait.
LEMMA Suivante ==
    ASSUME Mb!SInv, UneALaFois, NEW q \in Requetes, Mb!IInv', UNCHANGED membres,
           DOMAIN invitations' = DOMAIN invitations,
           \A i \in DOMAIN invitations :
               invitations'[i].email = invitations[i].email /\ (Mb!EnAttente(i)' => Mb!EnAttente(i)),
           Mb!Actuel(req[q])'
    PROVE  Mb!SInv'
<1>1. Mb!Administrable' /\ Mb!UnSeulLien'
  BY Calme DEF Mb!SInv
<1>2. \A p \in Requetes : Mb!Actuel(req[p])'
  BY DEF UneALaFois
<1> QED BY <1>1, <1>2 DEF Mb!SInv

LEMMA SeuleLecture ==
    ASSUME Mb!Domaines, UneALaFois, Mb!SInv, NEW q \in Requetes, Mb!IInv',
           \/ \E a, p \in Personnes, r \in Mb!Role, n \in Mb!Acces \cup {NUL}, d \in BOOLEAN :
                 Mb!LireInvitation(q, a, p, r, n, d)
           \/ \E i \in DOMAIN invitations : Mb!LireRenvoi(q, i)
           \/ \E l \in 1..liens : Mb!Resoudre(q, l)
           \/ \E a, p \in Personnes, r \in Mb!Role \cup {OMIS}, f \in BOOLEAN \cup {OMIS} :
                 Mb!LireMembre(q, a, p, r, f)
           \/ \E p \in Personnes \cup {NUL} : Mb!LireDirection(q, p)
           \/ Mb!Interrompre(q)
    PROVE  Mb!SInv'
<1> USE DEF Mb!SInv
<1>0. req \in [Requetes -> Mb!Requete]
  BY DEF Mb!IInv, Mb!TypeOK
<1>1. UNCHANGED <<Mb!societe, invitations, liens>>
  BY DEF Mb!LireInvitation, Mb!LireRenvoi, Mb!Resoudre, Mb!LireMembre, Mb!LireDirection,
     Mb!Interrompre
<1>2. /\ UNCHANGED membres /\ DOMAIN invitations' = DOMAIN invitations
      /\ \A i \in DOMAIN invitations :
            invitations'[i].email = invitations[i].email /\ (Mb!EnAttente(i)' => Mb!EnAttente(i))
  BY <1>1 DEF Mb!societe, Mb!EnAttente
<1>3. ASSUME NEW a \in Personnes, NEW p \in Personnes, NEW r \in Mb!Role,
             NEW n \in Mb!Acces \cup {NUL},
             NEW d \in BOOLEAN, Mb!LireInvitation(q, a, p, r, n, d)
      PROVE  Mb!Actuel(req[q])'
  <2> DEFINE s == {i \in DOMAIN invitations : invitations[i].email = p /\ Mb!EnAttente(i)}
  <2>1. PICK x : x = [etat |-> "invitation", email |-> p, role |-> r, acces |-> n,
                      direction |-> d, remplacees |-> s]
    OBVIOUS
  <2>2. req'[q] = x /\ ~Mb!EstMembre(p)
    BY <1>0, <1>3, <2>1 DEF Mb!LireInvitation, Mb!Garder
  <2>3. Mb!Actuel(x)'
    BY <1>1, <2>1, <2>2 DEF Mb!Actuel, Mb!societe, Mb!EstMembre, Mb!EnAttente
  <2> QED BY <2>2, <2>3, ActuelPrimeMembres
<1>4. ASSUME NEW a \in Personnes, NEW p \in Personnes, NEW r \in Mb!Role \cup {OMIS},
             NEW f \in BOOLEAN \cup {OMIS}, Mb!LireMembre(q, a, p, r, f)
      PROVE  Mb!Actuel(req[q])'
  <2>1. PICK x : x = [etat |-> "membre", cible |-> p, role |-> r, actif |-> f]
    OBVIOUS
  <2>2. req'[q] = x /\ (Mb!Ecarte(x) => ~Mb!DernierProprietaire)
    BY <1>0, <1>4, <2>1 DEF Mb!LireMembre, Mb!Garder, Mb!Ecarte
  <2>3. Mb!Ecarte(x) => Mb!Proprietaires \ {p} # {}
    BY <2>2, Autre
  <2>4. (Mb!Ecarte(x)' <=> Mb!Ecarte(x)) /\ Mb!Proprietaires' = Mb!Proprietaires
    BY <1>2 DEF Mb!Ecarte, Mb!Proprietaires, Mb!EstMembre
  <2>5. Mb!Actuel(x)'
    BY <2>1, <2>3, <2>4 DEF Mb!Actuel
  <2> QED BY <2>2, <2>5, ActuelPrimeMembres
<1>5. ASSUME \/ \E i \in DOMAIN invitations : Mb!LireRenvoi(q, i)
             \/ \E l \in 1..liens : Mb!Resoudre(q, l)
             \/ \E p \in Personnes \cup {NUL} : Mb!LireDirection(q, p)
             \/ Mb!Interrompre(q)
      PROVE  Mb!Actuel(req[q])'
  <2>1. req'[q].etat \in {"renvoi", "resolue", "direction", "libre"}
    BY <1>0, <1>5 DEF Mb!LireRenvoi, Mb!Resoudre, Mb!LireDirection, Mb!Interrompre, Mb!Garder,
       Mb!Finir, Mb!Libre
  <2> QED BY <2>1, MuetteMembres
<1>6. Mb!Actuel(req[q])'
  BY <1>3, <1>4, <1>5
<1> QED BY <1>2, <1>6, Suivante

LEMMA SeuleEcriture ==
    ASSUME Mb!Domaines, UneALaFois, Mb!SInv, NEW q \in Requetes,
           Mb!Inviter(q) \/ Mb!Renvoyer(q) \/ Mb!PrendreCompte(q) \/ Mb!NommerDirectionTravaux(q)
    PROVE  Mb!SInv'
<1> USE DEF Mb!SInv
<1>0. req \in [Requetes -> Mb!Requete] /\ \A p \in Requetes : p = q
  BY DEF Mb!IInv, Mb!TypeOK, UneALaFois
<1>1. CASE Mb!Inviter(q)
  <2>1. Mb!IInv' /\ UNCHANGED membres /\ req'[q].etat = "libre"
    BY <1>0, <1>1, Invitee, FinieMembres
  <2>2. PICK r \in Mb!Requete :
           /\ r = req[q] /\ r.etat = "invitation"
           /\ DOMAIN invitations' = DOMAIN invitations \cup {Len(invitations) + 1}
           /\ invitations'[Len(invitations) + 1].email = r.email
           /\ \A i \in DOMAIN invitations :
                 /\ invitations'[i].email = invitations[i].email
                 /\ Mb!EnAttente(i)' => Mb!EnAttente(i) /\ i \notin r.remplacees
    BY <1>1, Invitee
  <2>3. /\ ~Mb!EstMembre(r.email)
        /\ \A i \in DOMAIN invitations :
              Mb!EnAttente(i) /\ invitations[i].email = r.email => i \in r.remplacees
    BY <2>2 DEF Mb!Actuel
  <2>4. Mb!UnSeulLien'
    BY <2>1, <2>2, <2>3 DEF Mb!UnSeulLien, Mb!EstMembre
  <2>5. Mb!Administrable'
    BY <2>1 DEF Mb!Administrable, Mb!Proprietaires, Mb!EstMembre
  <2>6. \A p \in Requetes : Mb!Actuel(req[p])'
    BY <1>0, <2>1, MuetteMembres
  <2> QED BY <2>1, <2>4, <2>5, <2>6
<1>2. CASE Mb!Renvoyer(q)
  <2>1. req'[q].etat = "libre"
    BY <1>0, <1>2, Renvoyee, FinieMembres
  <2> QED BY <1>2, <2>1, Renvoyee, MuetteMembres, Suivante
<1>3. CASE Mb!PrendreCompte(q)
  <2>1. Mb!IInv' /\ UNCHANGED <<membres, invitations>> /\ Mb!Actuel(req[q])'
    BY <1>3, CompteOuvert, MuetteMembres
  <2> QED BY <2>1, Suivante DEF Mb!EnAttente
<1>4. CASE Mb!NommerDirectionTravaux(q)
  <2>1. Mb!IInv' /\ UNCHANGED <<membres, invitations>> /\ req'[q].etat = "libre"
    BY <1>0, <1>4, EcrituresMembres, FinieMembres DEF Mb!NommerDirectionTravaux
  <2> QED BY <2>1, MuetteMembres, Suivante DEF Mb!EnAttente
<1> QED BY <1>1, <1>2, <1>3, <1>4

LEMMA SeuleAcceptation ==
    ASSUME Mb!Domaines, UneALaFois, Mb!SInv, NEW q \in Requetes, Mb!Accepter(q)
    PROVE  Mb!SInv'
<1> USE DEF Mb!SInv
<1>0. req \in [Requetes -> Mb!Requete] /\ \A p \in Requetes : p = q
  BY DEF Mb!IInv, Mb!TypeOK, UneALaFois
<1>1. Mb!IInv' /\ req'[q].etat = "libre"
  BY <1>0, AcceptationMembres, FinieMembres
<1>2. PICK i \in DOMAIN invitations :
         /\ Mb!EnAttente(i) /\ ~Mb!EstMembre(invitations[i].email)
         /\ \A p \in Personnes : p # invitations[i].email => membres'[p] = membres[p]
         /\ DOMAIN invitations' = DOMAIN invitations
         /\ ~(Mb!EnAttente(i)')
         /\ \A j \in DOMAIN invitations : j # i => invitations'[j] = invitations[j]
  BY AcceptationMembres
<1>3. \A j \in DOMAIN invitations : invitations[j].email \in Personnes
  BY Liste DEF Mb!IInv, Mb!TypeOK, Mb!Invitation
<1>4. Mb!UnSeulLien'
  <2>1. \A j \in DOMAIN invitations : Mb!EnAttente(j)' =>
           /\ j # i /\ Mb!EnAttente(j) /\ invitations[j].email # invitations[i].email
           /\ invitations'[j].email = invitations[j].email
    BY <1>2 DEF Mb!UnSeulLien, Mb!EnAttente
  <2> QED BY <1>2, <1>3, <2>1 DEF Mb!UnSeulLien, Mb!EstMembre
<1>5. Mb!Administrable'
  BY <1>2 DEF Mb!Administrable, Mb!Proprietaires, Mb!EstMembre
<1>6. \A p \in Requetes : Mb!Actuel(req[p])'
  BY <1>0, <1>1, MuetteMembres
<1> QED BY <1>1, <1>4, <1>5, <1>6

\* modifierMembre: when an owner is put aside, another one remains.
LEMMA SeuleModification ==
    ASSUME Mb!Domaines, UneALaFois, Mb!SInv, NEW q \in Requetes, Mb!ModifierMembre(q)
    PROVE  Mb!SInv'
<1> USE DEF Mb!SInv
<1>0. req \in [Requetes -> Mb!Requete] /\ \A p \in Requetes : p = q
  BY DEF Mb!IInv, Mb!TypeOK, UneALaFois
<1>a. PICK r \in Mb!Requete : r = req[q]
  BY <1>0
<1>b. PICK m : m = membres[r.cible]
  OBVIOUS
<1>1. /\ r.etat = "membre"
      /\ membres' = [membres EXCEPT ![r.cible] =
                        [role |-> Mb!Donne(r.role, m.role), actif |-> Mb!Donne(r.actif, m.actif)]]
      /\ UNCHANGED invitations /\ Mb!Finir(q)
  BY <1>a, <1>b DEF Mb!ModifierMembre, Mb!En
<1>2. Mb!IInv' /\ req'[q].etat = "libre"
  BY <1>0, <1>1, EcrituresMembres, FinieMembres
<1>3. /\ r.cible \in Personnes /\ Mb!EstMembre(r.cible)
      /\ r.role \in Mb!Role \cup {OMIS} /\ r.actif \in BOOLEAN \cup {OMIS}
  BY <1>a, <1>1, FormesMembres DEF Mb!IInv, Mb!Suivi
<1>4. /\ \A p \in Personnes : p # r.cible => membres'[p] = membres[p]
      /\ membres'[r.cible].role = Mb!Donne(r.role, m.role)
      /\ membres'[r.cible].actif = Mb!Donne(r.actif, m.actif)
  BY <1>1, <1>3 DEF Mb!IInv, Mb!TypeOK
<1>5. \A p \in Personnes : Mb!EstMembre(p) <=> Mb!EstMembre(p)'
  <2>1. \A p \in Personnes : p # r.cible => (Mb!EstMembre(p) <=> Mb!EstMembre(p)')
    BY <1>4 DEF Mb!EstMembre
  <2>2. Mb!EstMembre(r.cible)'
    <3> DEFINE v == [role |-> Mb!Donne(r.role, m.role), actif |-> Mb!Donne(r.actif, m.actif)]
    <3>1. m \in Mb!Membre
      BY <1>b, <1>3 DEF Mb!IInv, Mb!TypeOK, Mb!EstMembre
    <3>2. m.role \in Mb!Role /\ m.actif \in BOOLEAN
      BY <3>1 DEF Mb!Membre
    <3>3. Mb!Donne(r.role, m.role) \in Mb!Role /\ Mb!Donne(r.actif, m.actif) \in BOOLEAN
      BY <1>3, <3>2 DEF Mb!Donne
    <3>4. v \in Mb!Membre
      BY <3>3 DEF Mb!Membre
    <3> HIDE DEF v
    <3>5. v # NUL
      BY <3>4 DEF Mb!Domaines
    <3>6. membres'[r.cible] = v
      BY <1>1, <1>3 DEF v, Mb!IInv, Mb!TypeOK
    <3> QED BY <3>5, <3>6 DEF Mb!EstMembre
  <2> QED BY <1>3, <2>1, <2>2
<1>6. Mb!UnSeulLien'
  <2>1. \A j \in DOMAIN invitations : invitations[j].email \in Personnes
    BY Liste DEF Mb!IInv, Mb!TypeOK, Mb!Invitation
  <2> QED BY <1>1, <1>5, <2>1 DEF Mb!UnSeulLien, Mb!EnAttente
<1>7. Mb!Administrable'
  <2>1. CASE Mb!Ecarte(r)
    <3>1. PICK p \in Mb!Proprietaires : p # r.cible
      BY <1>a, <1>1, <2>1 DEF Mb!Actuel
    <3>2. p \in Mb!Proprietaires'
      BY <1>4, <3>1 DEF Mb!Proprietaires, Mb!EstMembre
    <3> QED BY <3>2 DEF Mb!Administrable
  <2>2. CASE ~Mb!Ecarte(r)
    <3>1. PICK p \in Mb!Proprietaires : TRUE
      BY DEF Mb!Administrable
    <3>2. CASE p # r.cible
      <4>1. p \in Mb!Proprietaires'
        BY <1>4, <3>1, <3>2 DEF Mb!Proprietaires, Mb!EstMembre
      <4> QED BY <4>1 DEF Mb!Administrable
    <3>3. CASE p = r.cible
      <4>1. m.role = "OWNER" /\ m.actif
        BY <1>b, <3>1, <3>3 DEF Mb!Proprietaires
      <4>2. r.role \in {"OWNER", OMIS} /\ r.actif # FALSE
        BY <1>b, <2>2, <4>1 DEF Mb!Ecarte
      <4>3. Mb!Donne(r.role, m.role) = "OWNER"
        BY <4>1, <4>2 DEF Mb!Donne
      <4>4. Mb!Donne(r.actif, m.actif)
        BY <1>3, <4>1, <4>2 DEF Mb!Donne
      <4>5. p \in Mb!Proprietaires'
        BY <1>3, <1>4, <1>5, <3>3, <4>3, <4>4 DEF Mb!Proprietaires
      <4> QED BY <4>5 DEF Mb!Administrable
    <3> QED BY <3>2, <3>3
  <2> QED BY <2>1, <2>2
<1>8. \A p \in Requetes : Mb!Actuel(req[p])'
  BY <1>0, <1>2, MuetteMembres
<1> QED BY <1>2, <1>6, <1>7, <1>8

LEMMA SeulsGestes ==
    ASSUME Mb!Domaines, UneALaFois, Mb!SInv, Mb!Immediat
    PROVE  Mb!SInv'
<1> USE DEF Mb!SInv
<1>1. /\ Mb!IInv' /\ UNCHANGED <<membres, req>>
      /\ DOMAIN invitations' = DOMAIN invitations
      /\ \A i \in DOMAIN invitations :
            invitations'[i].email = invitations[i].email /\ (Mb!EnAttente(i)' => Mb!EnAttente(i))
  BY Retouchees, AccesOuverts DEF Mb!Immediat, Mb!EnAttente
<1>2. /\ Mb!Administrable' /\ Mb!UnSeulLien'
      /\ \A r \in Mb!Requete : Mb!Actuel(r) => Mb!Actuel(r)'
  BY <1>1, Calme
<1>3. ASSUME NEW p \in Requetes PROVE Mb!Actuel(req[p])'
  <2>1. PICK r \in Mb!Requete : r = req[p]
    BY DEF Mb!IInv, Mb!TypeOK
  <2> QED BY <1>1, <1>2, <2>1, ActuelPrimeMembres
<1> QED BY <1>1, <1>2, <1>3

\* inviter and modifierMembre, one request at a time: what allowed to invite, or
\* to put an owner aside, is still so when the row is written.
THEOREM MembresEnSerie == ASSUME Mb!Domaines, UneALaFois PROVE Mb!Spec => []Mb!SInv
<1>1. Mb!Init => Mb!SInv
  <2> SUFFICES ASSUME Mb!Init PROVE Mb!SInv
    OBVIOUS
  <2>1. Mb!IInv
    BY DepartMembres
  <2>2. ASSUME NEW p \in Fondateurs PROVE p \in Mb!Proprietaires
    <3>1. PICK m : m = [role |-> "OWNER", actif |-> TRUE]
      OBVIOUS
    <3>2. m \in Mb!Membre /\ m.role = "OWNER" /\ m.actif
      BY <3>1 DEF Mb!Membre, Mb!Role
    <3>a. m # NUL
      BY <3>2 DEF Mb!Domaines
    <3>3. p \in Personnes /\ membres[p] = m
      BY <3>1 DEF Mb!Init, Mb!Domaines
    <3> QED BY <3>2, <3>3, <3>a DEF Mb!Proprietaires, Mb!EstMembre
  <2>3. Mb!Administrable
    BY <2>2 DEF Mb!Administrable, Mb!Domaines
  <2>4. Mb!UnSeulLien
    BY DEF Mb!Init, Mb!UnSeulLien
  <2>5. \A q \in Requetes : Mb!Actuel(req[q])
    BY DEF Mb!Init, Mb!Actuel, Mb!Libre
  <2> QED BY <2>1, <2>3, <2>4, <2>5 DEF Mb!SInv
<1>2. Mb!SInv /\ [Mb!Next]_Mb!vars => Mb!SInv'
  <2> SUFFICES ASSUME Mb!SInv, [Mb!Next]_Mb!vars PROVE Mb!SInv'
    OBVIOUS
  <2>1. CASE UNCHANGED Mb!vars
    <3>1. UNCHANGED <<comptes, membres, acces, directionTravaux, invitations, liens, req>>
      BY <2>1 DEF Mb!vars, Mb!societe
    <3>2. Mb!IInv'
      BY <2>1, Bloc DEF Mb!SInv
    <3>3. Mb!Administrable' /\ Mb!UnSeulLien'
      BY <3>1 DEF Mb!SInv, Mb!Administrable, Mb!Proprietaires, Mb!EstMembre, Mb!UnSeulLien,
         Mb!EnAttente
    <3>4. \A q \in Requetes : Mb!Actuel(req[q])'
      BY <3>1 DEF Mb!SInv, Mb!Actuel, Mb!Ecarte, Mb!Proprietaires, Mb!EstMembre, Mb!EnAttente
    <3> QED BY <3>2, <3>3, <3>4 DEF Mb!SInv
  <2>2. CASE Mb!Next
    <3>1. Mb!IInv'
      BY <2>2, PasMembres DEF Mb!SInv
    <3>2. ASSUME NEW q \in Requetes,
                 Mb!Invitations(q) \/ Mb!Administration(q) \/ Mb!Interrompre(q)
          PROVE  Mb!SInv'
      BY <3>1, <3>2, SeuleLecture, SeuleEcriture, SeuleAcceptation, SeuleModification
         DEF Mb!Invitations, Mb!Administration
    <3> QED BY <2>2, <3>2, SeulsGestes DEF Mb!Next
  <2> QED BY <2>1, <2>2
<1> QED BY <1>1, <1>2, PTL DEF Mb!Spec

\* modifierMembre: whatever the sequence of calls, an active owner remains.
THEOREM ProprietaireGarde == ASSUME Mb!Domaines, UneALaFois PROVE Mb!Spec => []Mb!Administrable
<1>1. Mb!SInv => Mb!Administrable
  BY DEF Mb!SInv
<1> QED BY <1>1, MembresEnSerie, PTL

\* inviter: one link that works for an address, and none for a member.
THEOREM LienUnique == ASSUME Mb!Domaines, UneALaFois PROVE Mb!Spec => []Mb!UnSeulLien
<1>1. Mb!SInv => Mb!UnSeulLien
  BY DEF Mb!SInv
<1> QED BY <1>1, MembresEnSerie, PTL

(***************************************************************************)
(* SecondFacteur, one request at a time.                                   *)
(***************************************************************************)
LEMMA FormesFacteur ==
    ASSUME NEW r \in Fa!Requete
    PROVE  /\ r.etat \in {"libre", "enrolement", "activation", "desactivation", "motDePasse",
                          "code", "retrait"}
           /\ r.etat = "code" => r.usage \in Fa!Usage /\ r.saisie \in Fa!Saisie /\ r.lu \in Fa!Compte
           /\ r.etat = "retrait" => r.usage \in Fa!Usage /\ r.code \in 1..MaxCodes /\ r.lu \in Fa!Compte
BY DEF Fa!Requete

LEMMA GardeeFacteur ==
    ASSUME NEW q \in Requetes, NEW r \in Fa!Requete,
           req \in [Requetes -> Fa!Requete], Fa!Garder(q, r)
    PROVE  req' \in [Requetes -> Fa!Requete] /\ req'[q] = r
BY DEF Fa!Garder

LEMMA ActuelPrimeFacteur ==
    ASSUME NEW q, NEW r, req'[q] = r, Fa!Actuel(r)'
    PROVE  Fa!Actuel(req[q])'
BY DEF Fa!Actuel

LEMMA LibreVautFacteur == Fa!Libre \in Fa!Requete /\ Fa!Libre.etat = "libre"
BY DEF Fa!Libre, Fa!Requete

LEMMA MuetteFacteur ==
    ASSUME NEW r, r.etat \in {"libre", "motDePasse", "desactivation"}
    PROVE  Fa!Actuel(r)'
BY DEF Fa!Actuel

\* What a step of the only request has to show.
LEMMA ClotureFacteur ==
    ASSUME Fa!SInv, UneALaFois, NEW q \in Requetes, NEW r \in Fa!Requete, Fa!Garder(q, r),
           Fa!Actuel(r)',
           compte' \in Fa!Compte, defi' \in BOOLEAN, secrets' \in 0..MaxSecrets,
           codes' \in 0..MaxCodes, prouves' \subseteq 1..secrets',
           servis' \in [1..MaxCodes -> Nat], jour' \in 0..Horizon,
           compte'.secret # NUL => compte'.secret <= secrets',
           Fa!CodeUneFois', Fa!FacteurProuve', Fa!CodesNeufs'
    PROVE  Fa!SInv'
<1>1. req' \in [Requetes -> Fa!Requete] /\ req'[q] = r /\ \A p \in Requetes : p = q
  BY GardeeFacteur DEF Fa!SInv, Fa!CompteType, UneALaFois
<1>2. \A p \in Requetes : Fa!Actuel(req[p])'
  <2>1. Fa!Actuel(req[q])'
    BY <1>1, ActuelPrimeFacteur
  <2> QED BY <1>1, <2>1
<1> QED BY <1>1, <1>2 DEF Fa!SInv, Fa!CompteType

\* A step that leaves the account and its codes alone.
LEMMA LectureFacteur ==
    ASSUME Fa!SInv, UneALaFois, NEW q \in Requetes, NEW r \in Fa!Requete, Fa!Garder(q, r),
           Fa!Actuel(r)',
           UNCHANGED <<compte, secrets, codes, prouves, servis, jour>>, defi' \in BOOLEAN
    PROVE  Fa!SInv'
<1>1. Fa!CodeUneFois' /\ Fa!FacteurProuve' /\ Fa!CodesNeufs'
  BY DEF Fa!SInv, Fa!CodeUneFois, Fa!FacteurProuve, Fa!CodesNeufs
<1> QED BY <1>1, ClotureFacteur DEF Fa!SInv, Fa!CompteType

\* A step that frees its request.
LEMMA Liberation ==
    ASSUME Fa!SInv, UneALaFois, NEW q \in Requetes, Fa!Finir(q),
           UNCHANGED <<compte, secrets, codes, prouves, servis, jour>>, defi' \in BOOLEAN
    PROVE  Fa!SInv'
BY LibreVautFacteur, MuetteFacteur, LectureFacteur DEF Fa!Finir

(***************************************************************************)
(* The password                                                            *)
(***************************************************************************)
LEMMA MotDePasse ==
    ASSUME Fa!SInv, UneALaFois, NEW q \in Requetes, Fa!Connexion(q) \/ Fa!Interrompre(q)
    PROVE  Fa!SInv'
<1>1. ASSUME NEW bon \in BOOLEAN, Fa!LireConnexion(q, bon) PROVE Fa!SInv'
  <2> DEFINE x == [etat |-> "motDePasse", bon |-> bon, actif |-> compte.actif]
  <2>1. Fa!Garder(q, x) /\ UNCHANGED <<compte, defi, secrets, codes, prouves, servis, jour>>
    BY <1>1 DEF Fa!LireConnexion
  <2>2. x \in Fa!Requete /\ x.etat = "motDePasse"
    BY DEF Fa!SInv, Fa!CompteType, Fa!Compte, Fa!Requete
  <2> HIDE DEF x
  <2> QED BY <2>1, <2>2, MuetteFacteur, LectureFacteur DEF Fa!SInv, Fa!CompteType
<1>2. CASE Fa!RefuserConnexion(q)
  BY <1>2, Liberation DEF Fa!RefuserConnexion, Fa!SInv, Fa!CompteType
<1>3. CASE Fa!AccepterConnexion(q)
  <2>1. Fa!Finir(q) /\ UNCHANGED <<compte, secrets, codes, prouves, servis, jour>>
    BY <1>3 DEF Fa!AccepterConnexion
  <2>2. defi' \in BOOLEAN
    BY <1>3 DEF Fa!AccepterConnexion
  <2> QED BY <2>1, <2>2, Liberation
<1>4. CASE Fa!Interrompre(q)
  BY <1>4, Liberation DEF Fa!Interrompre, Fa!SInv, Fa!CompteType
<1> QED BY <1>1, <1>2, <1>3, <1>4 DEF Fa!Connexion

(***************************************************************************)
(* The factor                                                              *)
(***************************************************************************)
LEMMA Enrolement ==
    ASSUME Fa!Domaines, Fa!SInv, UneALaFois, NEW q \in Requetes,
           Fa!LireEnrolement(q) \/ Fa!CommencerEnrolement(q)
    PROVE  Fa!SInv'
<1>1. CASE Fa!LireEnrolement(q)
  <2> DEFINE x == [etat |-> "enrolement"]
  <2>1. /\ Fa!Garder(q, x) /\ ~compte.actif
        /\ UNCHANGED <<compte, defi, secrets, codes, prouves, servis, jour>>
    BY <1>1 DEF Fa!LireEnrolement
  <2>2. x \in Fa!Requete /\ x.etat = "enrolement"
    BY DEF Fa!Requete
  <2> HIDE DEF x
  <2>3. Fa!Actuel(x)'
    BY <2>1, <2>2 DEF Fa!Actuel
  <2> QED BY <2>1, <2>2, <2>3, LectureFacteur DEF Fa!SInv, Fa!CompteType
<1>2. CASE Fa!CommencerEnrolement(q)
  <2>1. PICK r \in Fa!Requete : r = req[q] /\ r.etat = "enrolement" /\ Fa!Actuel(r)
    BY <1>2 DEF Fa!CommencerEnrolement, Fa!En, Fa!SInv, Fa!CompteType
  <2>2. ~compte.actif
    BY <2>1 DEF Fa!Actuel
  <2>3. /\ secrets < MaxSecrets /\ secrets' = secrets + 1
        /\ compte' = [compte EXCEPT !.secret = secrets + 1, !.secours = {}]
        /\ Fa!Finir(q) /\ UNCHANGED <<defi, codes, prouves, servis, jour>>
    BY <1>2 DEF Fa!CommencerEnrolement
  <2>4. /\ compte \in Fa!Compte /\ secrets \in Nat /\ secrets + 1 \in 1..MaxSecrets
        /\ secrets' \in 0..MaxSecrets /\ 1..secrets \subseteq 1..secrets'
    BY <2>3 DEF Fa!SInv, Fa!CompteType, Fa!Domaines
  <2>5. /\ compte' \in Fa!Compte /\ compte'.secret = secrets' /\ compte'.secours = {}
        /\ ~compte'.actif
    BY <2>2, <2>3, <2>4 DEF Fa!Compte, Fa!Secret
  <2>6. Fa!CodeUneFois' /\ Fa!FacteurProuve' /\ Fa!CodesNeufs'
    BY <2>3, <2>5 DEF Fa!SInv, Fa!CodeUneFois, Fa!FacteurProuve, Fa!CodesNeufs
  <2>7. prouves' \subseteq 1..secrets' /\ compte'.secret <= secrets'
    BY <2>3, <2>4, <2>5 DEF Fa!SInv, Fa!CompteType
  <2> QED BY <2>3, <2>4, <2>5, <2>6, <2>7, LibreVautFacteur, MuetteFacteur, ClotureFacteur
             DEF Fa!Finir, Fa!SInv, Fa!CompteType
<1> QED BY <1>1, <1>2

LEMMA SaisieSure ==
    ASSUME Fa!Domaines, Fa!CompteType
    PROVE  Fa!Saisies \subseteq Fa!Saisie
BY DEF Fa!Domaines, Fa!CompteType, Fa!Saisies, Fa!Saisie

LEMMA LectureDuCode ==
    ASSUME Fa!Domaines, Fa!SInv, UneALaFois, NEW q \in Requetes, NEW u \in Fa!Usage,
           NEW v \in Fa!Saisies,
           Fa!LireCode(q, u, v)
    PROVE  Fa!SInv'
<1>0. PICK x : x = [etat |-> "code", usage |-> u, saisie |-> v, lu |-> compte]
  OBVIOUS
<1>1. Fa!Garder(q, x) /\ Fa!Attendu(u) /\ UNCHANGED <<compte, defi, secrets, codes, prouves, servis, jour>>
  BY <1>0 DEF Fa!LireCode
<1>2. v \in Fa!Saisie /\ compte \in Fa!Compte
  BY SaisieSure DEF Fa!SInv, Fa!CompteType
<1>3. x \in Fa!Requete /\ x.etat = "code" /\ x.usage = u /\ x.lu = compte
  BY <1>0, <1>2 DEF Fa!Requete
<1>4. Fa!Actuel(x)'
  BY <1>1, <1>3 DEF Fa!Actuel, Fa!Attendu
<1> QED BY <1>1, <1>3, <1>4, LectureFacteur DEF Fa!SInv, Fa!CompteType

LEMMA SuiteSure ==
    ASSUME NEW q \in Requetes, NEW u \in Fa!Usage, Fa!Suite(q, u)
    PROVE  \/ u = "activer" /\ Fa!Garder(q, [etat |-> "activation"])
           \/ u # "activer" /\ \E x \in Fa!Requete :
                 x.etat \in {"libre", "desactivation"} /\ Fa!Garder(q, x)
<1>1. CASE u = "activer"
  BY <1>1 DEF Fa!Suite
<1>2. CASE u = "desactiver"
  <2> DEFINE x == [etat |-> "desactivation"]
  <2>1. Fa!Garder(q, x) /\ x \in Fa!Requete /\ x.etat = "desactivation"
    BY <1>2 DEF Fa!Suite, Fa!Requete
  <2> QED BY <1>2, <2>1
<1>3. CASE u = "connexion"
  BY <1>3, LibreVautFacteur DEF Fa!Suite, Fa!Finir
<1> QED BY <1>1, <1>2, <1>3 DEF Fa!Usage

LEMMA AcceptationFacteur ==
    ASSUME Fa!Domaines, Fa!SInv, UneALaFois, NEW q \in Requetes, Fa!AccepterCode(q)
    PROVE  Fa!SInv'
<1>1. PICK r \in Fa!Requete : r = req[q] /\ r.etat = "code" /\ Fa!Actuel(r)
  BY DEF Fa!AccepterCode, Fa!En, Fa!SInv, Fa!CompteType
<1>2. r.usage \in Fa!Usage /\ r.lu = compte /\ compte.secret # NUL
  BY <1>1, FormesFacteur DEF Fa!Actuel, Fa!Attendu
<1>3. /\ prouves' = IF r.usage = "activer" THEN prouves \cup {compte.secret} ELSE prouves
      /\ Fa!Suite(q, r.usage)
      /\ UNCHANGED <<compte, defi, secrets, codes, servis, jour>>
  BY <1>1, <1>2 DEF Fa!AccepterCode
<1>4. compte.secret \in 1..secrets
  BY <1>2 DEF Fa!SInv, Fa!CompteType, Fa!Compte, Fa!Secret, Fa!Domaines
<1>5. prouves' \subseteq 1..secrets' /\ prouves \subseteq prouves'
  BY <1>3, <1>4 DEF Fa!SInv, Fa!CompteType
<1>6. Fa!CodeUneFois' /\ Fa!FacteurProuve' /\ Fa!CodesNeufs'
  BY <1>3, <1>5 DEF Fa!SInv, Fa!CodeUneFois, Fa!FacteurProuve, Fa!CodesNeufs
<1>7. \E x \in Fa!Requete : Fa!Garder(q, x) /\ Fa!Actuel(x)'
  <2>1. CASE r.usage = "activer"
    <3> DEFINE x == [etat |-> "activation"]
    <3>1. Fa!Garder(q, x)
      BY <1>2, <1>3, <2>1, SuiteSure
    <3>2. x \in Fa!Requete /\ x.etat = "activation"
      BY DEF Fa!Requete
    <3> HIDE DEF x
    <3>3. Fa!Actuel(x)'
      BY <1>3, <2>1, <3>2 DEF Fa!Actuel
    <3> QED BY <3>1, <3>2, <3>3
  <2>2. CASE r.usage # "activer"
    BY <1>2, <1>3, <2>2, SuiteSure, MuetteFacteur
  <2> QED BY <2>1, <2>2
<1> QED BY <1>3, <1>5, <1>6, <1>7, ClotureFacteur DEF Fa!SInv, Fa!CompteType

LEMMA AcceptationDeSecours ==
    ASSUME Fa!SInv, UneALaFois, NEW q \in Requetes, Fa!AccepterSecours(q)
    PROVE  Fa!SInv'
<1>1. PICK r \in Fa!Requete : r = req[q] /\ r.etat = "code" /\ Fa!Actuel(r)
  BY DEF Fa!AccepterSecours, Fa!En, Fa!SInv, Fa!CompteType
<1>2. PICK c : c = r.saisie.valeur
  OBVIOUS
<1> DEFINE x == [etat |-> "retrait", usage |-> r.usage, code |-> c, lu |-> r.lu]
<1>3. /\ Fa!Garder(q, x) /\ Fa!DeSecours(r)
      /\ UNCHANGED <<compte, defi, secrets, codes, prouves, servis, jour>>
  BY <1>1, <1>2 DEF Fa!AccepterSecours
<1>4. r.usage \in Fa!Usage /\ r.lu = compte /\ compte \in Fa!Compte
      /\ r.usage # "activer" /\ c \in compte.secours
  BY <1>1, <1>2, <1>3, FormesFacteur DEF Fa!Actuel, Fa!DeSecours, Fa!SInv, Fa!CompteType
<1>5. c \in 1..MaxCodes
  BY <1>4 DEF Fa!Compte
<1>6. x \in Fa!Requete /\ x.etat = "retrait" /\ x.usage = r.usage /\ x.code = c /\ x.lu = compte
  BY <1>4, <1>5 DEF Fa!Requete
<1> HIDE DEF x
<1>7. Fa!Actuel(x)'
  BY <1>3, <1>4, <1>6 DEF Fa!Actuel
<1> QED BY <1>3, <1>6, <1>7, LectureFacteur DEF Fa!SInv, Fa!CompteType

\* The code that leaves the list is the one that has just served.
LEMMA Retrait ==
    ASSUME Fa!SInv, UneALaFois, NEW q \in Requetes, Fa!RetirerCode(q)
    PROVE  Fa!SInv'
<1>1. PICK r \in Fa!Requete : r = req[q] /\ r.etat = "retrait" /\ Fa!Actuel(r)
  BY DEF Fa!RetirerCode, Fa!En, Fa!SInv, Fa!CompteType
<1>2. /\ r.usage \in Fa!Usage /\ r.usage # "activer" /\ r.code \in 1..MaxCodes
      /\ r.lu = compte /\ r.code \in compte.secours
  BY <1>1, FormesFacteur DEF Fa!Actuel
<1>3. /\ compte' = [compte EXCEPT !.secours = compte.secours \ {r.code}]
      /\ servis' = [servis EXCEPT ![r.code] = @ + 1]
      /\ Fa!Suite(q, r.usage)
      /\ UNCHANGED <<defi, secrets, codes, prouves, jour>>
  BY <1>1, <1>2 DEF Fa!RetirerCode, Fa!Restants
<1>4. compte \in Fa!Compte /\ servis \in [1..MaxCodes -> Nat] /\ servis[r.code] = 0
  BY <1>2 DEF Fa!SInv, Fa!CompteType, Fa!CodesNeufs
<1>5. /\ compte' \in Fa!Compte /\ compte'.secret = compte.secret /\ compte'.actif = compte.actif
      /\ compte'.secours = compte.secours \ {r.code}
  BY <1>3, <1>4 DEF Fa!Compte
<1>6. /\ servis' \in [1..MaxCodes -> Nat] /\ servis'[r.code] = 1
      /\ \A c \in 1..MaxCodes : c # r.code => servis'[c] = servis[c]
  BY <1>2, <1>3, <1>4
<1>7. Fa!CodeUneFois'
  BY <1>6 DEF Fa!SInv, Fa!CodeUneFois
<1>8. Fa!FacteurProuve'
  BY <1>3, <1>5 DEF Fa!SInv, Fa!FacteurProuve
<1>9. Fa!CodesNeufs'
  <2>1. r.code \in 1..codes /\ codes \in Nat
    BY <1>2 DEF Fa!SInv, Fa!CodesNeufs, Fa!CompteType
  <2>2. compte'.secours \subseteq 1..codes'
    BY <1>3, <1>5 DEF Fa!SInv, Fa!CodesNeufs
  <2>3. ASSUME NEW c \in 1..MaxCodes, c \in compte'.secours \/ c > codes' PROVE servis'[c] = 0
    <3>1. c # r.code /\ (c \in compte.secours \/ c > codes)
      BY <1>3, <1>5, <2>1, <2>3
    <3> QED BY <1>6, <3>1 DEF Fa!SInv, Fa!CodesNeufs
  <2> QED BY <2>2, <2>3 DEF Fa!CodesNeufs
<1>a. PICK x \in Fa!Requete : Fa!Garder(q, x) /\ Fa!Actuel(x)'
  BY <1>2, <1>3, SuiteSure, MuetteFacteur
<1> QED BY <1>3, <1>5, <1>6, <1>7, <1>8, <1>9, <1>a, ClotureFacteur DEF Fa!SInv, Fa!CompteType

LEMMA Activation ==
    ASSUME Fa!Domaines, Fa!SInv, UneALaFois, NEW q \in Requetes, Fa!Activer(q)
    PROVE  Fa!SInv'
<1>1. PICK r \in Fa!Requete : r = req[q] /\ r.etat = "activation" /\ Fa!Actuel(r)
  BY DEF Fa!Activer, Fa!En, Fa!SInv, Fa!CompteType
<1>2. compte.secret \in prouves
  BY <1>1 DEF Fa!Actuel
<1>3. /\ codes + Lot <= MaxCodes /\ codes' = codes + Lot
      /\ compte' = [compte EXCEPT !.actif = TRUE, !.secours = codes + 1 .. codes + Lot]
      /\ Fa!Finir(q) /\ UNCHANGED <<defi, secrets, prouves, servis, jour>>
  BY DEF Fa!Activer
<1>4. codes \in Nat /\ Lot \in Nat /\ MaxCodes \in Nat /\ codes' \in 0..MaxCodes
      /\ codes <= codes' /\ codes + 1 .. codes + Lot \subseteq 1..MaxCodes
      /\ codes + 1 .. codes + Lot \subseteq 1..codes'
  BY <1>3 DEF Fa!Domaines, Fa!SInv, Fa!CompteType
<1>5. /\ compte' \in Fa!Compte /\ compte'.secret = compte.secret
      /\ compte'.secours = codes + 1 .. codes + Lot
  BY <1>3, <1>4 DEF Fa!SInv, Fa!CompteType, Fa!Compte
<1>6. Fa!CodeUneFois' /\ Fa!FacteurProuve'
  BY <1>2, <1>3, <1>5 DEF Fa!SInv, Fa!CodeUneFois, Fa!FacteurProuve
<1>7. Fa!CodesNeufs'
  <2>1. ASSUME NEW c \in 1..MaxCodes, c \in compte'.secours \/ c > codes' PROVE servis'[c] = 0
    <3>1. c > codes
      BY <1>4, <1>5, <2>1
    <3> QED BY <1>3, <3>1 DEF Fa!SInv, Fa!CodesNeufs
  <2> QED BY <1>4, <1>5, <2>1 DEF Fa!CodesNeufs
<1> QED BY <1>3, <1>4, <1>5, <1>6, <1>7, LibreVautFacteur, MuetteFacteur, ClotureFacteur
           DEF Fa!Finir, Fa!SInv, Fa!CompteType

LEMMA Desactivation ==
    ASSUME Fa!SInv, UneALaFois, NEW q \in Requetes, Fa!Desactiver(q)
    PROVE  Fa!SInv'
<1>1. /\ compte' = [secret |-> NUL, actif |-> FALSE, secours |-> {}]
      /\ Fa!Finir(q) /\ UNCHANGED <<defi, secrets, codes, prouves, servis, jour>>
  BY DEF Fa!Desactiver
<1>2. /\ compte' \in Fa!Compte /\ compte'.secret = NUL /\ ~compte'.actif /\ compte'.secours = {}
  BY <1>1 DEF Fa!Compte, Fa!Secret
<1>3. Fa!CodeUneFois' /\ Fa!FacteurProuve' /\ Fa!CodesNeufs'
  BY <1>1, <1>2 DEF Fa!SInv, Fa!CodeUneFois, Fa!FacteurProuve, Fa!CodesNeufs
<1>4. /\ Fa!Garder(q, Fa!Libre) /\ Fa!Actuel(Fa!Libre)'
      /\ UNCHANGED <<defi, secrets, codes, prouves, servis, jour>>
  BY <1>1, LibreVautFacteur, MuetteFacteur DEF Fa!Finir
<1>5. compte' \in Fa!Compte /\ (compte'.secret # NUL => compte'.secret <= secrets')
  BY <1>2
<1>6. /\ defi' \in BOOLEAN /\ secrets' \in 0..MaxSecrets /\ codes' \in 0..MaxCodes
      /\ prouves' \subseteq 1..secrets' /\ servis' \in [1..MaxCodes -> Nat] /\ jour' \in 0..Horizon
  BY <1>4 DEF Fa!SInv, Fa!CompteType
<1> HIDE DEF Fa!SInv
<1> QED BY <1>3, <1>4, <1>5, <1>6, LibreVautFacteur, ClotureFacteur

LEMMA PasFacteur ==
    ASSUME Fa!Domaines, Fa!SInv, UneALaFois, NEW q \in Requetes, Fa!Facteur(q)
    PROVE  Fa!SInv'
<1>1. CASE Fa!RefuserCode(q)
  BY <1>1, Liberation DEF Fa!RefuserCode, Fa!SInv, Fa!CompteType
<1> QED BY <1>1, Enrolement, LectureDuCode, AcceptationFacteur, AcceptationDeSecours, Retrait,
           Activation, Desactivation DEF Fa!Facteur

\* Steps of no request.
LEMMA DehorsFacteur ==
    ASSUME Fa!Domaines, Fa!SInv,
           Fa!ExpirerDefi \/ Fa!Avancer \/ Fa!Redemarrer \/ UNCHANGED Fa!vars
    PROVE  Fa!SInv'
<1>1. UNCHANGED <<compte, secrets, codes, prouves, servis>>
  BY DEF Fa!ExpirerDefi, Fa!Avancer, Fa!Redemarrer, Fa!vars
<1>2. defi' \in BOOLEAN
  BY DEF Fa!ExpirerDefi, Fa!Avancer, Fa!Redemarrer, Fa!vars, Fa!SInv, Fa!CompteType
<1>3. jour' \in 0..Horizon
  <2>1. jour' = jour \/ (jour < Horizon /\ jour' = jour + 1)
    BY DEF Fa!ExpirerDefi, Fa!Avancer, Fa!Redemarrer, Fa!vars
  <2> QED BY <2>1 DEF Fa!Domaines, Fa!SInv, Fa!CompteType
<1>4. Fa!CodeUneFois' /\ Fa!FacteurProuve' /\ Fa!CodesNeufs'
  BY <1>1 DEF Fa!SInv, Fa!CodeUneFois, Fa!FacteurProuve, Fa!CodesNeufs
<1>5. req' \in [Requetes -> Fa!Requete]
  BY LibreVautFacteur DEF Fa!ExpirerDefi, Fa!Avancer, Fa!Redemarrer, Fa!vars, Fa!SInv,
     Fa!CompteType
<1>6. ASSUME NEW p \in Requetes PROVE Fa!Actuel(req[p])'
  <2>1. CASE Fa!Redemarrer
    <3>1. req'[p] = Fa!Libre
      BY <2>1 DEF Fa!Redemarrer
    <3> QED BY <3>1, LibreVautFacteur, MuetteFacteur, ActuelPrimeFacteur
  <2>2. CASE ~Fa!Redemarrer
    <3>1. req' = req
      BY <2>2 DEF Fa!ExpirerDefi, Fa!Avancer, Fa!vars
    <3>2. PICK r \in Fa!Requete : r = req[p] /\ Fa!Actuel(r)
      BY DEF Fa!SInv, Fa!CompteType
    <3>3. Fa!Actuel(r)'
      BY <1>1, <3>2 DEF Fa!Actuel, Fa!Attendu
    <3> QED BY <3>1, <3>2, <3>3, ActuelPrimeFacteur
  <2> QED BY <2>1, <2>2
<1> QED BY <1>1, <1>2, <1>3, <1>4, <1>5, <1>6 DEF Fa!SInv, Fa!CompteType

LEMMA DepartFacteur == ASSUME Fa!Domaines, Fa!Init PROVE Fa!SInv
<1>1. compte = [secret |-> NUL, actif |-> FALSE, secours |-> {}] /\ compte \in Fa!Compte
      /\ compte.secret = NUL /\ ~compte.actif /\ compte.secours = {}
  BY DEF Fa!Init, Fa!Compte, Fa!Secret
<1>2. Fa!CodeUneFois /\ Fa!FacteurProuve /\ Fa!CodesNeufs
  BY <1>1 DEF Fa!Init, Fa!CodeUneFois, Fa!FacteurProuve, Fa!CodesNeufs
<1>3. ASSUME NEW p \in Requetes PROVE Fa!Actuel(req[p])
  BY LibreVautFacteur DEF Fa!Init, Fa!Actuel
<1>4. Fa!CompteType
  <2>1. {0} \subseteq 0..MaxSecrets \cap 0..MaxCodes \cap 0..Horizon
    BY DEF Fa!Domaines
  <2>2. defi \in BOOLEAN /\ prouves \subseteq 1..secrets /\ servis \in [1..MaxCodes -> Nat]
    BY DEF Fa!Init
  <2>3. req \in [Requetes -> Fa!Requete]
    BY LibreVautFacteur DEF Fa!Init
  <2> QED BY <1>1, <2>1, <2>2, <2>3 DEF Fa!Init, Fa!CompteType
<1> QED BY <1>1, <1>2, <1>3, <1>4 DEF Fa!SInv

\* activer, exiger and verifier, one request at a time: the codes a request has
\* read are those of the account when it writes them back.
THEOREM FacteurEnSerie == ASSUME Fa!Domaines, UneALaFois PROVE Fa!Spec => []Fa!SInv
<1>1. Fa!Init => Fa!SInv
  BY DepartFacteur
<1>2. Fa!SInv /\ [Fa!Next]_Fa!vars => Fa!SInv'
  BY MotDePasse, PasFacteur, DehorsFacteur DEF Fa!Next
<1> QED BY <1>1, <1>2, PTL DEF Fa!Spec

\* verifier, one request at a time: a recovery code opens one session, however
\* often it is tried.
THEOREM CodesUneFois == ASSUME Fa!Domaines, UneALaFois PROVE Fa!Spec => []Fa!CodeUneFois
<1>1. Fa!SInv => Fa!CodeUneFois
  BY DEF Fa!SInv
<1> QED BY <1>1, FacteurEnSerie, PTL

\* activer, one request at a time: a second factor in force has a secret its
\* holder has proved, and an enrolment left half way locks nobody out.
THEOREM FacteursProuves == ASSUME Fa!Domaines, UneALaFois PROVE Fa!Spec => []Fa!FacteurProuve
<1>1. Fa!SInv => Fa!FacteurProuve
  BY DEF Fa!SInv
<1> QED BY <1>1, FacteurEnSerie, PTL

(***************************************************************************)
(* ConnexionKolabimo.                                                      *)
(***************************************************************************)
LEMMA FormesKolabimo ==
    ASSUME NEW r \in Ko!Requete
    PROVE  /\ r.etat \in {"libre", "cle", "essayee", "essai", "essaye", "montre"}
           /\ r.etat # "libre" => r.s \in Societes
           /\ r.etat \in {"cle", "essayee"} => r.adresse \in Adresses
           /\ r.etat \in {"cle", "essayee", "essai"} => r.cle \in Ko!Cles
           /\ r.etat = "essayee" => r.nom \in Ko!Noms
           /\ r.etat = "essaye" => r.nom \in Ko!Noms \cup {NUL}
           /\ r.etat = "montre" => r.secret \in Ko!Secrets
BY DEF Ko!Requete

LEMMA GardeeKolabimo ==
    ASSUME NEW q \in Requetes, NEW r \in Ko!Requete,
           req \in [Requetes -> Ko!Requete], Ko!Garder(q, r)
    PROVE  /\ req' \in [Requetes -> Ko!Requete]
           /\ req'[q] = r
           /\ \A p \in Requetes : p # q => req'[p] = req[p]
BY DEF Ko!Garder

LEMMA SuiviPrimeKolabimo ==
    ASSUME NEW q, NEW r, req'[q] = r, Ko!Suivi(r)'
    PROVE  Ko!Suivi(req[q])'
BY DEF Ko!Suivi

LEMMA ActuelPrimeKolabimo ==
    ASSUME NEW q, NEW r, req'[q] = r, Ko!Actuel(r)'
    PROVE  Ko!Actuel(req[q])'
BY DEF Ko!Actuel

LEMMA LibreVautKolabimo == Ko!Libre \in Ko!Requete /\ Ko!Libre.etat = "libre"
BY DEF Ko!Libre, Ko!Requete

\* What a step has to show.
LEMMA ClotureKolabimo ==
    ASSUME Ko!IInv, connexions' \in [Societes -> Ko!Connexion \cup {NUL}],
           tires' \in 0..MaxSecrets,
           valables' \cup montres' \subseteq Societes \X Ko!Secrets, ouvertes' \subseteq Ko!Cles,
           Ko!SecretsTires', valables \subseteq valables',
           \/ \E q \in Requetes, r \in Ko!Requete : Ko!Garder(q, r) /\ Ko!Suivi(r)'
           \/ req' = req
    PROVE  Ko!IInv'
<1> USE DEF Ko!IInv, Ko!TypeOK
<1>1. ASSUME NEW p \in Requetes, req'[p] = req[p] PROVE Ko!Suivi(req[p])'
  <2>1. PICK s \in Ko!Requete : s = req[p]
    OBVIOUS
  <2>2. Ko!Suivi(s)'
    BY <2>1 DEF Ko!Suivi
  <2> QED BY <1>1, <2>1, <2>2, SuiviPrimeKolabimo
<1>2. ASSUME NEW q \in Requetes, NEW r \in Ko!Requete, Ko!Garder(q, r),
             Ko!Suivi(r)' PROVE Ko!IInv'
  <2>1. /\ req' \in [Requetes -> Ko!Requete] /\ req'[q] = r
        /\ \A p \in Requetes : p # q => req'[p] = req[p]
    BY <1>2, GardeeKolabimo
  <2>2. Ko!Suivi(req[q])'
    BY <1>2, <2>1, SuiviPrimeKolabimo
  <2>3. \A p \in Requetes : Ko!Suivi(req[p])'
    BY <1>1, <2>1, <2>2
  <2> QED BY <2>1, <2>3
<1>3. CASE req' = req
  <2>1. \A p \in Requetes : Ko!Suivi(req[p])'
    BY <1>1, <1>3
  <2> QED BY <1>3, <2>1
<1> QED BY <1>2, <1>3

\* A step that only moves its request on.
LEMMA LectureKolabimo ==
    ASSUME Ko!IInv, NEW q \in Requetes, NEW r \in Ko!Requete, Ko!Garder(q, r), Ko!Suivi(r),
           UNCHANGED <<connexions, tires, valables, montres, ouvertes>>
    PROVE  Ko!IInv'
<1>1. Ko!Suivi(r)'
  BY DEF Ko!Suivi
<1>2. Ko!SecretsTires'
  BY DEF Ko!IInv, Ko!SecretsTires
<1> QED BY <1>1, <1>2, ClotureKolabimo DEF Ko!IInv, Ko!TypeOK

\* Of what a key answers: nothing, or who holds it.
LEMMA Reponse ==
    ASSUME Ko!Domaines, NEW c \in Ko!Cles, NEW moi \in Ko!Moi(c), moi # NUL
    PROVE  moi = Titulaire[c] /\ moi.nom \in Ko!Noms
BY DEF Ko!Moi, Ko!Noms

LEMMA Lectures ==
    ASSUME Ko!Domaines, Ko!IInv, NEW q \in Requetes,
           \/ \E s \in Societes :
                 (\E a \in Adresses, c \in Ko!Cles : Ko!LireCle(q, s, a, c)) \/ Ko!LireTest(q, s)
           \/ Ko!EssayerCle(q) \/ Ko!EssayerTest(q) \/ Ko!Interrompre(q)
    PROVE  /\ Ko!IInv' /\ UNCHANGED <<connexions, tires, valables, montres, ouvertes>>
           /\ \E r \in Ko!Requete : Ko!Garder(q, r) /\ (Ko!Actuel(req[q]) => Ko!Actuel(r))
<1> USE DEF Ko!IInv, Ko!TypeOK
<1>0. UNCHANGED <<connexions, tires, valables, montres, ouvertes>>
  BY DEF Ko!LireCle, Ko!LireTest, Ko!EssayerCle, Ko!EssayerTest, Ko!Interrompre
<1>1. SUFFICES \E r \in Ko!Requete : Ko!Garder(q, r) /\ Ko!Suivi(r) /\ (Ko!Actuel(req[q]) => Ko!Actuel(r))
  BY <1>0, LectureKolabimo
<1>2. PICK o \in Ko!Requete : o = req[q]
  OBVIOUS
<1>3. ASSUME Ko!Finir(q) PROVE \E r \in Ko!Requete : Ko!Garder(q,
             r) /\ Ko!Suivi(r) /\ (Ko!Actuel(req[q]) => Ko!Actuel(r))
  <2>1. Ko!Suivi(Ko!Libre) /\ Ko!Actuel(Ko!Libre)
    BY LibreVautKolabimo DEF Ko!Suivi, Ko!Actuel
  <2> QED BY <1>3, <2>1, LibreVautKolabimo DEF Ko!Finir
<1>4. ASSUME NEW s \in Societes, NEW a \in Adresses, NEW c \in Ko!Cles, Ko!LireCle(q, s, a, c)
      PROVE  \E r \in Ko!Requete : Ko!Garder(q, r) /\ Ko!Suivi(r) /\ (Ko!Actuel(req[q]) => Ko!Actuel(r))
  <2> DEFINE n == Ko!NormaliserBaseUrl(a)
             x == [etat |-> "cle", s |-> s, adresse |-> n, cle |-> c]
  <2>1. Ko!Garder(q, x) /\ Ko!Admise(a)
    BY <1>4 DEF Ko!LireCle
  <2>2. n \in Adresses /\ (n.https \/ n.locale)
    BY <2>1 DEF Ko!Domaines, Ko!Admise, Ko!NormaliserBaseUrl
  <2> HIDE DEF n
  <2>3. x \in Ko!Requete /\ x.etat = "cle" /\ x.adresse = n
    BY <2>2 DEF Ko!Requete
  <2> HIDE DEF x
  <2>4. Ko!Suivi(x) /\ Ko!Actuel(x)
    BY <2>2, <2>3 DEF Ko!Suivi, Ko!Actuel
  <2> QED BY <2>1, <2>3, <2>4
<1>5. ASSUME NEW s \in Societes, Ko!LireTest(q, s)
      PROVE  \E r \in Ko!Requete : Ko!Garder(q, r) /\ Ko!Suivi(r) /\ (Ko!Actuel(req[q]) => Ko!Actuel(r))
  <2> DEFINE x == [etat |-> "essai", s |-> s, cle |-> connexions[s].cle]
  <2>1. Ko!Garder(q, x) /\ connexions[s] # NUL
    BY <1>5 DEF Ko!LireTest
  <2>2. connexions[s].cle \in Ko!Cles
    BY <2>1 DEF Ko!Connexion
  <2>3. x \in Ko!Requete
    BY <2>2 DEF Ko!Requete
  <2>4. Ko!Suivi(x) /\ Ko!Actuel(x)
    BY DEF Ko!Suivi, Ko!Actuel
  <2> QED BY <2>1, <2>3, <2>4
<1>6. ASSUME Ko!EssayerCle(q)
      PROVE  \E r \in Ko!Requete : Ko!Garder(q, r) /\ Ko!Suivi(r) /\ (Ko!Actuel(req[q]) => Ko!Actuel(r))
  <2>1. o.etat = "cle" /\ o.s \in Societes /\ o.adresse \in Adresses /\ o.cle \in Ko!Cles
    BY <1>2, <1>6, FormesKolabimo DEF Ko!EssayerCle, Ko!En
  <2>2. PICK moi \in Ko!Moi(o.cle) :
           IF moi = NUL THEN Ko!Finir(q)
           ELSE IF moi.type # "PROMOTEUR" THEN Ko!Finir(q)
           ELSE Ko!Garder(q, [etat |-> "essayee", s |-> o.s, adresse |-> o.adresse,
                              cle |-> o.cle, nom |-> moi.nom])
    BY <1>2, <1>6 DEF Ko!EssayerCle
  <2>3. CASE Ko!Finir(q)
    BY <1>3, <2>3
  <2>4. CASE ~Ko!Finir(q)
    <3> DEFINE x == [etat |-> "essayee", s |-> o.s, adresse |-> o.adresse,
                     cle |-> o.cle, nom |-> moi.nom]
    <3>1. moi # NUL /\ moi.type = "PROMOTEUR" /\ Ko!Garder(q, x)
      BY <2>2, <2>4
    <3>2. moi = Titulaire[o.cle] /\ moi.nom \in Ko!Noms
      BY <2>1, <3>1, Reponse
    <3>3. x \in Ko!Requete /\ x.etat = "essayee" /\ x.adresse = o.adresse
          /\ x.cle = o.cle /\ x.nom = moi.nom
      BY <2>1, <3>2 DEF Ko!Requete
    <3> HIDE DEF x
    <3>4. Titulaire[x.cle] = [type |-> "PROMOTEUR", nom |-> x.nom]
      BY <2>1, <3>1, <3>2, <3>3 DEF Ko!Domaines
    <3>5. Ko!Suivi(x) /\ (Ko!Actuel(o) => Ko!Actuel(x))
      BY <2>1, <3>3, <3>4 DEF Ko!Suivi, Ko!Actuel
    <3> QED BY <1>2, <3>1, <3>3, <3>5
  <2> QED BY <2>3, <2>4
<1>7. ASSUME Ko!EssayerTest(q)
      PROVE  \E r \in Ko!Requete : Ko!Garder(q, r) /\ Ko!Suivi(r) /\ (Ko!Actuel(req[q]) => Ko!Actuel(r))
  <2>1. o.etat = "essai" /\ o.s \in Societes /\ o.cle \in Ko!Cles
    BY <1>2, <1>7, FormesKolabimo DEF Ko!EssayerTest, Ko!En
  <2>2. PICK moi \in Ko!Moi(o.cle) :
           Ko!Garder(q, [etat |-> "essaye", s |-> o.s, nom |-> IF moi = NUL THEN NUL ELSE moi.nom])
    BY <1>2, <1>7 DEF Ko!EssayerTest
  <2>3. PICK n : n = IF moi = NUL THEN NUL ELSE moi.nom
    OBVIOUS
  <2> DEFINE x == [etat |-> "essaye", s |-> o.s, nom |-> n]
  <2>4. n \in Ko!Noms \cup {NUL} /\ (n # NUL => n = Titulaire[o.cle].nom)
    BY <2>1, <2>3, Reponse
  <2>5. x \in Ko!Requete /\ x.etat = "essaye" /\ x.s = o.s /\ x.nom = n
    BY <2>1, <2>4 DEF Ko!Requete
  <2>6. Ko!Garder(q, x)
    BY <2>2, <2>3
  <2> HIDE DEF x
  <2>7. Ko!Suivi(x) /\ (Ko!Actuel(o) => Ko!Actuel(x))
    BY <2>1, <2>4, <2>5 DEF Ko!Suivi, Ko!Actuel
  <2> QED BY <1>2, <2>5, <2>6, <2>7
<1> QED BY <1>3, <1>4, <1>5, <1>6, <1>7 DEF Ko!Interrompre

(***************************************************************************)
(* Secrets that are drawn                                                  *)
(***************************************************************************)
\* A new secret for s, on the row c.
LEMMA Tirage ==
    ASSUME Ko!Domaines, Ko!IInv, NEW q \in Requetes, NEW s \in Societes, NEW c \in Ko!Connexion,
           tires < MaxSecrets, tires' = tires + 1,
           connexions' = [connexions EXCEPT ![s] = c],
           valables' = valables \cup {<<s, tires + 1>>},
           c.secret = tires + 1,
           c.jeton = tires + 1 \/ (connexions[s] # NUL /\ c.jeton = connexions[s].jeton),
           Ko!Garder(q, [etat |-> "montre", s |-> s, secret |-> tires + 1]),
           UNCHANGED <<montres, ouvertes>>
    PROVE  Ko!IInv'
<1> USE DEF Ko!IInv, Ko!TypeOK
<1>0. tires \in Nat /\ tires + 1 \in Ko!Secrets /\ tires' \in 0..MaxSecrets
  BY DEF Ko!Domaines, Ko!Secrets
<1>1. connexions' \in [Societes -> Ko!Connexion \cup {NUL}]
      /\ valables' \cup montres' \subseteq Societes \X Ko!Secrets
  BY <1>0
<1>2. Ko!SecretsTires'
  <2> USE DEF Ko!SecretsTires
  <2>1. ASSUME NEW x \in valables' PROVE x[2] <= tires'
    <3>1. CASE x \in valables
      <4>1. x[2] \in Nat
        BY <3>1 DEF Ko!Secrets
      <4> QED BY <1>0, <3>1, <4>1
    <3>2. CASE x = <<s, tires + 1>>
      BY <1>0, <3>2
    <3> QED BY <3>1, <3>2
  <2>2. ASSUME NEW x \in valables', NEW y \in valables', x[2] = y[2] PROVE x = y
    <3>1. \A z \in valables : z[2] \in Nat /\ z[2] <= tires
      BY DEF Ko!Secrets
    <3>2. \A z \in valables : z[2] # tires + 1
      BY <1>0, <3>1
    <3>3. CASE x \in valables /\ y \in valables
      BY <2>2, <3>3
    <3> QED BY <2>2, <3>2, <3>3
  <2>3. ASSUME NEW t \in Societes, connexions'[t] # NUL
        PROVE  {<<t, connexions'[t].secret>>, <<t, connexions'[t].jeton>>} \subseteq valables'
    <3>1. CASE t = s
      <4>1. connexions'[t] = c
        BY <3>1
      <4>2. <<s, tires + 1>> \in valables'
        OBVIOUS
      <4>3. <<s, c.jeton>> \in valables'
        OBVIOUS
      <4> QED BY <3>1, <4>1, <4>2, <4>3
    <3>2. CASE t # s
      BY <2>3, <3>2
    <3> QED BY <3>1, <3>2
  <2> QED BY <2>1, <2>2, <2>3
<1>3. PICK x : x = [etat |-> "montre", s |-> s, secret |-> tires + 1]
  OBVIOUS
<1>4. x \in Ko!Requete /\ Ko!Suivi(x)'
  BY <1>0, <1>3 DEF Ko!Requete, Ko!Suivi
<1> QED BY <1>0, <1>1, <1>2, <1>3, <1>4, ClotureKolabimo

\* Rows are rewritten without their secret and their token changing, or go.
LEMMA Reecriture ==
    ASSUME Ko!Domaines, Ko!IInv, NEW s \in Societes, NEW c \in Ko!Connexion \cup {NUL},
           connexions' = [connexions EXCEPT ![s] = c],
           c # NUL => /\ connexions[s] # NUL
                      /\ c.secret = connexions[s].secret /\ c.jeton = connexions[s].jeton,
           UNCHANGED <<tires, valables, montres, ouvertes>>,
           (\E q \in Requetes : Ko!Finir(q)) \/ req' = req
    PROVE  Ko!IInv'
<1> USE DEF Ko!IInv, Ko!TypeOK
<1>1. connexions' \in [Societes -> Ko!Connexion \cup {NUL}]
  OBVIOUS
<1>2. Ko!SecretsTires'
  <2> USE DEF Ko!SecretsTires
  <2>1. ASSUME NEW t \in Societes, connexions'[t] # NUL
        PROVE  {<<t, connexions'[t].secret>>, <<t, connexions'[t].jeton>>} \subseteq valables'
    BY <2>1
  <2> QED BY <2>1
<1>3. Ko!Suivi(Ko!Libre)'
  BY LibreVautKolabimo DEF Ko!Suivi
<1> QED BY <1>1, <1>2, <1>3, LibreVautKolabimo, ClotureKolabimo DEF Ko!Finir

\* One row kept by enregistrer, whichever way.
Gardant(r, c) == [adresse |-> r.adresse, cle |-> r.cle, promoteur |-> r.nom, erreur |-> FALSE,
                  secret |-> c.secret, jeton |-> c.jeton]

LEMMA Enregistree ==
    ASSUME Ko!Domaines, Ko!IInv, NEW q \in Requetes, Ko!Enregistrer(q)
    PROVE  /\ Ko!IInv'
           /\ \E r \in Ko!Requete :
                 /\ r = req[q] /\ r.etat = "essayee"
                 /\ connexions' \in [Societes -> Ko!Connexion \cup {NUL}]
                 /\ connexions'[r.s].cle = r.cle /\ connexions'[r.s].promoteur = r.nom
                 /\ connexions'[r.s].adresse = r.adresse
                 /\ \A t \in Societes : t # r.s => connexions'[t] = connexions[t]
           /\ \E x \in Ko!Requete : x.etat \in {"libre", "montre"} /\ Ko!Garder(q, x)
<1> USE DEF Ko!IInv, Ko!TypeOK
<1>0. PICK r \in Ko!Requete : r = req[q]
  OBVIOUS
<1>1. /\ r.etat = "essayee" /\ r.s \in Societes /\ r.adresse \in Adresses /\ r.cle \in Ko!Cles
      /\ r.nom \in Ko!Noms /\ UNCHANGED <<montres, ouvertes>>
      /\ IF connexions[r.s] = NUL THEN Ko!Ouvrir(q, r) ELSE Ko!Remplacer(q, r)
  BY <1>0, FormesKolabimo DEF Ko!Enregistrer, Ko!En
<1>2. CASE connexions[r.s] = NUL
  <2> DEFINE c == [adresse |-> r.adresse, cle |-> r.cle, promoteur |-> r.nom, erreur |-> FALSE,
                   secret |-> tires + 1, jeton |-> tires + 1]
             x == [etat |-> "montre", s |-> r.s, secret |-> tires + 1]
  <2>1. /\ tires < MaxSecrets /\ tires' = tires + 1
        /\ connexions' = [connexions EXCEPT ![r.s] = c]
        /\ valables' = valables \cup {<<r.s, tires + 1>>}
        /\ Ko!Garder(q, x)
    BY <1>1, <1>2 DEF Ko!Ouvrir
  <2>2. tires + 1 \in Ko!Secrets
    BY <2>1 DEF Ko!Secrets, Ko!Domaines
  <2>3. /\ c \in Ko!Connexion /\ c.secret = tires + 1 /\ c.jeton = tires + 1
        /\ c.cle = r.cle /\ c.promoteur = r.nom /\ c.adresse = r.adresse
    BY <1>1, <2>2 DEF Ko!Connexion
  <2>4. x \in Ko!Requete /\ x.etat = "montre"
    BY <1>1, <2>2 DEF Ko!Requete
  <2> HIDE DEF c
  <2>5. Ko!IInv'
    BY <1>1, <2>1, <2>3, Tirage
  <2>6. /\ connexions' \in [Societes -> Ko!Connexion \cup {NUL}]
        /\ connexions'[r.s] = c
        /\ \A t \in Societes : t # r.s => connexions'[t] = connexions[t]
    BY <1>1, <2>1, <2>3
  <2> HIDE DEF x
  <2> QED BY <1>0, <1>1, <2>1, <2>3, <2>4, <2>5, <2>6
<1>3. CASE connexions[r.s] # NUL
  <2>1. PICK d \in Ko!Connexion : d = connexions[r.s]
    BY <1>1, <1>3
  <2> DEFINE c == [d EXCEPT !.adresse = r.adresse, !.cle = r.cle, !.promoteur = r.nom,
                            !.erreur = FALSE]
  <2>2. /\ connexions' = [connexions EXCEPT ![r.s] = c]
        /\ Ko!Finir(q) /\ UNCHANGED <<tires, valables>>
    BY <1>1, <1>3, <2>1 DEF Ko!Remplacer
  <2>3. /\ c \in Ko!Connexion /\ c.secret = d.secret /\ c.jeton = d.jeton
        /\ c.cle = r.cle /\ c.promoteur = r.nom /\ c.adresse = r.adresse
    BY <1>1, <2>1 DEF Ko!Connexion
  <2> HIDE DEF c
  <2>4. Ko!IInv'
    BY <1>1, <1>3, <2>1, <2>2, <2>3, Reecriture
  <2>5. /\ connexions' \in [Societes -> Ko!Connexion \cup {NUL}]
        /\ connexions'[r.s] = c
        /\ \A t \in Societes : t # r.s => connexions'[t] = connexions[t]
    BY <1>1, <2>2, <2>3
  <2> QED BY <1>0, <1>1, <2>2, <2>3, <2>4, <2>5, LibreVautKolabimo DEF Ko!Finir
<1> QED BY <1>2, <1>3

LEMMA Notee ==
    ASSUME Ko!Domaines, Ko!IInv, NEW q \in Requetes, Ko!NoterTest(q)
    PROVE  /\ Ko!IInv' /\ Ko!Finir(q)
           /\ \E r \in Ko!Requete :
                 /\ r = req[q] /\ r.etat = "essaye" /\ r.s \in Societes /\ connexions[r.s] # NUL
                 /\ connexions'[r.s].cle = connexions[r.s].cle
                 /\ connexions'[r.s].adresse = connexions[r.s].adresse
                 /\ connexions'[r.s].promoteur =
                       IF r.nom = NUL THEN connexions[r.s].promoteur ELSE r.nom
                 /\ \A t \in Societes : t # r.s => connexions'[t] = connexions[t]
<1> USE DEF Ko!IInv, Ko!TypeOK
<1>0. PICK r \in Ko!Requete : r = req[q]
  OBVIOUS
<1>1. /\ r.etat = "essaye" /\ r.s \in Societes /\ r.nom \in Ko!Noms \cup {NUL}
      /\ connexions[r.s] # NUL /\ Ko!Finir(q) /\ UNCHANGED <<tires, valables, montres, ouvertes>>
  BY <1>0, FormesKolabimo DEF Ko!NoterTest, Ko!En
<1>2. PICK d \in Ko!Connexion : d = connexions[r.s]
  BY <1>1
<1> DEFINE c == [d EXCEPT !.erreur = (r.nom = NUL),
                          !.promoteur = IF r.nom = NUL THEN d.promoteur ELSE r.nom]
<1>3. connexions' = [connexions EXCEPT ![r.s] = c]
  BY <1>0, <1>1, <1>2 DEF Ko!NoterTest
<1>4. /\ c \in Ko!Connexion /\ c.secret = d.secret /\ c.jeton = d.jeton
      /\ c.cle = d.cle /\ c.adresse = d.adresse
      /\ c.promoteur = IF r.nom = NUL THEN d.promoteur ELSE r.nom
  BY <1>1, <1>2 DEF Ko!Connexion
<1> HIDE DEF c
<1>5. Ko!IInv'
  BY <1>1, <1>2, <1>3, <1>4, Reecriture
<1>6. connexions'[r.s] = c /\ \A t \in Societes : t # r.s => connexions'[t] = connexions[t]
  BY <1>1, <1>3
<1> QED BY <1>0, <1>1, <1>2, <1>4, <1>5, <1>6

LEMMA Regeneree ==
    ASSUME Ko!Domaines, Ko!IInv, NEW q \in Requetes, NEW s \in Societes, Ko!RegenererSecret(q, s)
    PROVE  /\ Ko!IInv' /\ connexions[s] # NUL
           /\ connexions'[s].cle = connexions[s].cle
           /\ connexions'[s].adresse = connexions[s].adresse
           /\ connexions'[s].promoteur = connexions[s].promoteur
           /\ \A t \in Societes : t # s => connexions'[t] = connexions[t]
           /\ \E x \in Ko!Requete : x.etat = "montre" /\ Ko!Garder(q, x)
<1> USE DEF Ko!IInv, Ko!TypeOK
<1>1. PICK d \in Ko!Connexion : d = connexions[s]
  BY DEF Ko!RegenererSecret
<1> DEFINE c == [d EXCEPT !.secret = tires + 1]
           x == [etat |-> "montre", s |-> s, secret |-> tires + 1]
<1>2. /\ connexions[s] # NUL /\ tires < MaxSecrets /\ tires' = tires + 1
      /\ connexions' = [connexions EXCEPT ![s] = c]
      /\ valables' = valables \cup {<<s, tires + 1>>}
      /\ Ko!Garder(q, x) /\ UNCHANGED <<montres, ouvertes>>
  BY <1>1 DEF Ko!RegenererSecret
<1>3. tires + 1 \in Ko!Secrets
  BY <1>2 DEF Ko!Secrets, Ko!Domaines
<1>4. /\ c \in Ko!Connexion /\ c.secret = tires + 1 /\ c.jeton = d.jeton
      /\ c.cle = d.cle /\ c.adresse = d.adresse /\ c.promoteur = d.promoteur
  BY <1>1, <1>3 DEF Ko!Connexion
<1>5. x \in Ko!Requete /\ x.etat = "montre"
  BY <1>3 DEF Ko!Requete
<1> HIDE DEF c
<1>6. Ko!IInv'
  BY <1>1, <1>2, <1>4, Tirage
<1>7. connexions'[s] = c /\ \A t \in Societes : t # s => connexions'[t] = connexions[t]
  BY <1>2
<1> HIDE DEF x
<1> QED BY <1>1, <1>2, <1>4, <1>5, <1>6, <1>7

LEMMA Montree ==
    ASSUME Ko!IInv, NEW q \in Requetes, Ko!Montrer(q)
    PROVE  Ko!IInv' /\ Ko!Finir(q) /\ UNCHANGED connexions
<1> USE DEF Ko!IInv, Ko!TypeOK
<1>0. PICK r \in Ko!Requete : r = req[q]
  OBVIOUS
<1>1. /\ r.etat = "montre" /\ r.s \in Societes /\ r.secret \in Ko!Secrets
      /\ montres' = montres \cup {<<r.s, r.secret>>}
      /\ Ko!Finir(q) /\ UNCHANGED <<connexions, tires, valables, ouvertes>>
  BY <1>0, FormesKolabimo DEF Ko!Montrer, Ko!En
<1>2. Ko!SecretsTires'
  BY <1>0, <1>1 DEF Ko!SecretsTires, Ko!Suivi
<1>3. Ko!Suivi(Ko!Libre)'
  BY LibreVautKolabimo DEF Ko!Suivi
<1>4. Ko!IInv'
  BY <1>1, <1>2, <1>3, LibreVautKolabimo, ClotureKolabimo DEF Ko!Finir
<1> QED BY <1>1, <1>4

LEMMA DehorsKolabimo ==
    ASSUME Ko!Domaines, Ko!IInv,
           (\E s \in Societes : Ko!Supprimer(s)) \/ (\E c \in Ko!Cles : Ko!Fermer(c))
    PROVE  /\ Ko!IInv' /\ req' = req
           /\ \A t \in Societes : connexions'[t] # NUL => connexions'[t] = connexions[t]
<1> USE DEF Ko!IInv, Ko!TypeOK
<1>1. ASSUME NEW s \in Societes, Ko!Supprimer(s)
      PROVE  /\ Ko!IInv' /\ req' = req
             /\ \A t \in Societes : connexions'[t] # NUL => connexions'[t] = connexions[t]
  <2>1. Ko!IInv'
    BY <1>1, Reecriture DEF Ko!Supprimer
  <2> QED BY <1>1, <2>1 DEF Ko!Supprimer
<1>2. ASSUME NEW c \in Ko!Cles, Ko!Fermer(c)
      PROVE  Ko!IInv' /\ req' = req /\ connexions' = connexions
  <2>1. Ko!SecretsTires'
    BY <1>2 DEF Ko!Fermer, Ko!SecretsTires
  <2>2. Ko!IInv'
    BY <1>2, <2>1, ClotureKolabimo DEF Ko!Fermer
  <2> QED BY <1>2, <2>2 DEF Ko!Fermer
<1> QED BY <1>1, <1>2

LEMMA PasKolabimo == ASSUME Ko!Domaines, Ko!IInv, [Ko!Next]_Ko!vars PROVE Ko!IInv'
<1>1. CASE UNCHANGED Ko!vars
  <2>1. UNCHANGED <<connexions, tires, valables, montres, ouvertes, req>> /\ Ko!SecretsTires'
    BY <1>1 DEF Ko!vars, Ko!IInv, Ko!SecretsTires
  <2> QED BY <2>1, ClotureKolabimo DEF Ko!IInv, Ko!TypeOK
<1>2. CASE Ko!Next
  <2>1. ASSUME NEW q \in Requetes, Ko!Gestes(q) PROVE Ko!IInv'
    BY <2>1, Lectures, Enregistree, Montree, Notee, Regeneree DEF Ko!Gestes
  <2> QED BY <1>2, <2>1, DehorsKolabimo DEF Ko!Next
<1> QED BY <1>1, <1>2

LEMMA DepartKolabimo == ASSUME Ko!Domaines, Ko!Init PROVE Ko!IInv
<1>1. Ko!Suivi(Ko!Libre)
  BY LibreVautKolabimo DEF Ko!Suivi
<1> QED BY <1>1, LibreVautKolabimo DEF Ko!Init, Ko!IInv, Ko!TypeOK, Ko!SecretsTires, Ko!Domaines

\* enregistrer and regenererSecret: whatever runs at the same time, a secret is
\* drawn for one company, and was in force before it is shown.
THEOREM InvarianceKolabimo == ASSUME Ko!Domaines PROVE Ko!Spec => []Ko!IInv
<1>1. Ko!Init => Ko!IInv
  BY DepartKolabimo
<1>2. Ko!IInv /\ [Ko!Next]_Ko!vars => Ko!IInv'
  BY PasKolabimo
<1> QED BY <1>1, <1>2, PTL DEF Ko!Spec

\* A set has the size that the component gives it.
LEMMA TailleKolabimo == \A S : Ko!Cardinality(S) = Cardinality(S)
BY DEF Ko!Cardinality, Cardinality

\* regenererSecret and resoudreJeton: whatever runs at the same time, a secret
\* that was shown was in force for the company that sees it, and a token leads to
\* one company at most.
THEOREM SecretsEnVigueur == ASSUME Ko!Domaines PROVE Ko!Spec => []Ko!SecretMontreVaut
<1>1. Ko!IInv => Ko!SecretMontreVaut
  <2> SUFFICES ASSUME Ko!IInv PROVE Ko!SecretMontreVaut
    OBVIOUS
  <2> USE DEF Ko!IInv, Ko!SecretsTires
  <2>1. ASSUME NEW j \in Ko!Secrets PROVE Cardinality(Ko!Resoudre(j)) <= 1
    <3> DEFINE S == {x \in Societes : connexions[x] # NUL /\ connexions[x].jeton = j}
    <3>1. \A x, y \in S : x = y
      <4>1. ASSUME NEW x \in S PROVE <<x, j>> \in valables
        OBVIOUS
      <4>2. ASSUME NEW x \in S, NEW y \in S PROVE <<x, j>> = <<y, j>>
        BY <4>1
      <4> QED BY <4>2
    <3>2. Ko!Resoudre(j) = {[s |-> s, secret |-> connexions[s].secret] : s \in S}
      BY DEF Ko!Resoudre
    <3> HIDE DEF S, Ko!IInv, Ko!SecretsTires
    <3>3. CASE S = {}
      <4>1. Ko!Resoudre(j) = {}
        BY <3>2, <3>3
      <4> QED BY <4>1, FS_EmptySet
    <3>4. CASE S # {}
      <4>1. PICK x \in S : S = {x}
        BY <3>1, <3>4
      <4>2. PICK p : p = [s |-> x, secret |-> connexions[x].secret]
        OBVIOUS
      <4>3. Ko!Resoudre(j) = {p}
        BY <3>2, <4>1, <4>2
      <4>4. Cardinality({p}) = 1
        BY FS_Singleton
      <4> QED BY <4>3, <4>4
    <3> QED BY <3>3, <3>4
  <2> QED BY <2>1, TailleKolabimo DEF Ko!SecretMontreVaut
<1> QED BY <1>1, InvarianceKolabimo, PTL

(***************************************************************************)
(* One request at a time                                                   *)
(***************************************************************************)
LEMMA MuetteKolabimo ==
    ASSUME NEW q, req'[q].etat \in {"libre", "montre"}
    PROVE  Ko!Actuel(req[q])'
BY DEF Ko!Actuel

LEMMA Seul ==
    ASSUME Ko!Domaines, UneALaFois, Ko!SInv, NEW q \in Requetes, Ko!Gestes(q)
    PROVE  Ko!SInv'
<1> USE DEF Ko!SInv
<1>0. req \in [Requetes -> Ko!Requete] /\ \A p \in Requetes : p = q
  BY DEF Ko!IInv, Ko!TypeOK, UneALaFois
<1>1. Ko!IInv'
  BY PasKolabimo DEF Ko!Next
<1>2. SUFFICES Ko!CleEprouvee' /\ Ko!Actuel(req[q])'
  BY <1>0, <1>1
<1>a. ASSUME NEW x \in Ko!Requete, x.etat \in {"libre", "montre"}, Ko!Garder(q,
             x) PROVE Ko!Actuel(req[q])'
  BY <1>0, <1>a, GardeeKolabimo, MuetteKolabimo
<1>b. Ko!Finir(q) => Ko!Actuel(req[q])'
  BY <1>a, LibreVautKolabimo DEF Ko!Finir
<1>3. CASE \/ \E s \in Societes :
                 (\E a \in Adresses, c \in Ko!Cles : Ko!LireCle(q, s, a, c)) \/ Ko!LireTest(q, s)
           \/ Ko!EssayerCle(q) \/ Ko!EssayerTest(q) \/ Ko!Interrompre(q)
  <2>1. UNCHANGED connexions
    BY <1>3, Lectures
  <2>2. PICK r \in Ko!Requete : Ko!Garder(q, r) /\ (Ko!Actuel(req[q]) => Ko!Actuel(r))
    BY <1>3, Lectures
  <2>3. Ko!Actuel(r)'
    BY <2>1, <2>2 DEF Ko!Actuel
  <2>4. Ko!CleEprouvee'
    BY <2>1 DEF Ko!CleEprouvee
  <2> QED BY <1>0, <2>2, <2>3, <2>4, GardeeKolabimo, ActuelPrimeKolabimo
<1>4. CASE Ko!Enregistrer(q)
  <2>1. PICK r \in Ko!Requete :
           /\ r = req[q] /\ r.etat = "essayee"
           /\ connexions' \in [Societes -> Ko!Connexion \cup {NUL}]
           /\ connexions'[r.s].cle = r.cle /\ connexions'[r.s].promoteur = r.nom
           /\ connexions'[r.s].adresse = r.adresse
           /\ \A t \in Societes : t # r.s => connexions'[t] = connexions[t]
    BY <1>4, Enregistree
  <2>2. /\ r.adresse.https \/ r.adresse.locale
        /\ Titulaire[r.cle] = [type |-> "PROMOTEUR", nom |-> r.nom]
    BY <2>1 DEF Ko!Actuel
  <2>3. Ko!CleEprouvee'
    BY <2>1, <2>2 DEF Ko!CleEprouvee
  <2>4. Ko!Actuel(req[q])'
    BY <1>4, <1>a, Enregistree
  <2> QED BY <2>3, <2>4
<1>5. CASE Ko!Montrer(q)
  <2>1. UNCHANGED connexions /\ Ko!Finir(q)
    BY <1>5, Montree
  <2> QED BY <1>b, <2>1 DEF Ko!CleEprouvee
<1>6. CASE Ko!NoterTest(q)
  <2>1. PICK r \in Ko!Requete :
           /\ r = req[q] /\ r.etat = "essaye" /\ r.s \in Societes /\ connexions[r.s] # NUL
           /\ connexions'[r.s].cle = connexions[r.s].cle
           /\ connexions'[r.s].adresse = connexions[r.s].adresse
           /\ connexions'[r.s].promoteur =
                 IF r.nom = NUL THEN connexions[r.s].promoteur ELSE r.nom
           /\ \A t \in Societes : t # r.s => connexions'[t] = connexions[t]
    BY <1>6, Notee
  <2>2. r.nom # NUL => Titulaire[connexions[r.s].cle].nom = r.nom
    BY <2>1 DEF Ko!Actuel
  <2>3. connexions'[r.s].promoteur = connexions[r.s].promoteur
    <3>1. PICK n : n = connexions[r.s].promoteur
      OBVIOUS
    <3>2. Titulaire[connexions[r.s].cle] = [type |-> "PROMOTEUR", nom |-> n]
      BY <2>1, <3>1 DEF Ko!CleEprouvee
    <3>3. Titulaire[connexions[r.s].cle].nom = n
      BY <3>2
    <3> QED BY <2>1, <2>2, <3>1, <3>3
  <2>4. Ko!CleEprouvee'
    BY <2>1, <2>3 DEF Ko!CleEprouvee
  <2> QED BY <1>6, <1>b, <2>4, Notee
<1>7. ASSUME NEW s \in Societes, Ko!RegenererSecret(q,
             s) PROVE Ko!CleEprouvee' /\ Ko!Actuel(req[q])'
  <2>1. Ko!CleEprouvee'
    BY <1>7, Regeneree DEF Ko!CleEprouvee
  <2>2. Ko!Actuel(req[q])'
    BY <1>7, <1>a, Regeneree
  <2> QED BY <2>1, <2>2
<1> QED BY <1>3, <1>4, <1>5, <1>6, <1>7 DEF Ko!Gestes

\* enregistrer and tester, one request at a time: the key about to be kept was
\* tried, and the one on trial is that of the row.
THEOREM KolabimoEnSerie == ASSUME Ko!Domaines, UneALaFois PROVE Ko!Spec => []Ko!SInv
<1>1. Ko!Init => Ko!SInv
  <2> SUFFICES ASSUME Ko!Init PROVE Ko!SInv
    OBVIOUS
  <2>1. Ko!CleEprouvee /\ \A q \in Requetes : Ko!Actuel(req[q])
    BY LibreVautKolabimo DEF Ko!Init, Ko!CleEprouvee, Ko!Actuel
  <2> QED BY <2>1, DepartKolabimo DEF Ko!SInv
<1>2. Ko!SInv /\ [Ko!Next]_Ko!vars => Ko!SInv'
  <2> SUFFICES ASSUME Ko!SInv, [Ko!Next]_Ko!vars PROVE Ko!SInv'
    OBVIOUS
  <2> USE DEF Ko!SInv
  <2>1. Ko!IInv'
    BY PasKolabimo
  <2>2. ASSUME req' = req,
               \A t \in Societes : connexions'[t] # NUL => connexions'[t] = connexions[t]
        PROVE  Ko!SInv'
    <3>1. Ko!CleEprouvee'
      BY <2>2 DEF Ko!CleEprouvee
    <3>2. ASSUME NEW q \in Requetes PROVE Ko!Actuel(req[q])'
      <4>1. PICK r \in Ko!Requete : r = req[q]
        BY DEF Ko!IInv, Ko!TypeOK
      <4>2. Ko!Actuel(r)'
        BY <2>2, <4>1, FormesKolabimo DEF Ko!Actuel
      <4> QED BY <2>2, <4>1, <4>2, ActuelPrimeKolabimo
    <3> QED BY <2>1, <3>1, <3>2
  <2>3. CASE UNCHANGED Ko!vars
    BY <2>2, <2>3 DEF Ko!vars
  <2>4. CASE (\E s \in Societes : Ko!Supprimer(s)) \/ (\E c \in Ko!Cles : Ko!Fermer(c))
    BY <2>2, <2>4, DehorsKolabimo
  <2> QED BY <2>3, <2>4, Seul DEF Ko!Next
<1> QED BY <1>1, <1>2, PTL DEF Ko!Spec

\* enregistrer, one request at a time: the key that is kept is that of the
\* promoter the screen names, and never travels in clear.
THEOREM CleDePromoteur == ASSUME Ko!Domaines, UneALaFois PROVE Ko!Spec => []Ko!CleEprouvee
<1>1. Ko!SInv => Ko!CleEprouvee
  BY DEF Ko!SInv
<1> QED BY <1>1, KolabimoEnSerie, PTL

(***************************************************************************)
(* Facturation.                                                            *)
(***************************************************************************)
\* A set has the size that the component gives it.
LEMMA TailleFacturation ==
    \A S : Fc!Cardinality(S) = Cardinality(S) /\ (Fc!IsFiniteSet(S) <=> IsFiniteSet(S))
BY DEF Fc!Cardinality, Cardinality, Fc!IsFiniteSet, IsFiniteSet

(***************************************************************************)
(* The shape of a request, of a row and of what Stripe keeps               *)
(***************************************************************************)
LEMMA Formes ==
    ASSUME NEW r \in Fc!Requete
    PROVE  /\ r.etat \in {"libre", "souscription", "ajout", "reprise", "resiliation",
                          "relecture", "lu", "modules", "avertir", "avertissement"}
           /\ r.etat = "souscription" => r.modules \in SUBSET Modules
           /\ r.etat \in Fc!Suivent => r.s \in 1..MaxAbonnements
           /\ r.etat \in {"ajout", "reprise", "resiliation"} => r.m \in Modules
           /\ r.etat = "reprise" => r.annulee \in BOOLEAN
           /\ r.etat = "resiliation" => r.dernier \in BOOLEAN /\ r.fin \in Fc!Periode
           /\ r.etat \in {"relecture", "lu", "modules"} =>
                 /\ r.vu \in Fc!Stripe /\ r.evenement \in BOOLEAN
                 /\ r.resilie \in Modules \cup {NUL} /\ r.finAcces \in Fc!Periode \cup {NUL}
           /\ r.etat = "modules" => r.avant \in Fc!Lignes /\ r.reste \in SUBSET Modules
BY DEF Fc!Requete, Fc!Suivent

LEMMA LibreVaut == Fc!Libre \in Fc!Requete /\ Fc!Libre.etat = "libre"
BY DEF Fc!Libre, Fc!Requete

LEMMA Faits ==
    ASSUME Fc!Domaines, Fc!IInv
    PROVE  /\ periode \in Nat /\ periode <= Horizon /\ Horizon \in Nat
           /\ Len(stripe) \in Nat /\ DOMAIN stripe = 1..Len(stripe)
           /\ Len(stripe) <= MaxAbonnements /\ MaxAbonnements \in Nat
           /\ \A s \in DOMAIN stripe : stripe[s] \in Fc!Stripe /\ s \in 1..MaxAbonnements
           /\ DOMAIN evenements = 1..Len(stripe) /\ MaxEvenements \in Nat \ {0}
           /\ \A s \in DOMAIN stripe : evenements[s] \in 0..MaxEvenements
<1>1. /\ periode \in Nat /\ periode <= Horizon /\ Horizon \in Nat
  BY DEF Fc!IInv, Fc!TypeOK, Fc!Domaines
<1>2. /\ Len(stripe) \in Nat /\ DOMAIN stripe = 1..Len(stripe)
      /\ Len(stripe) <= MaxAbonnements /\ MaxAbonnements \in Nat
      /\ \A s \in DOMAIN stripe : stripe[s] \in Fc!Stripe
  BY DEF Fc!IInv, Fc!TypeOK, Fc!Domaines
<1>3. \A s \in DOMAIN stripe : s \in 1..MaxAbonnements
  BY <1>2
<1>4. /\ DOMAIN evenements = 1..Len(stripe) /\ MaxEvenements \in Nat \ {0}
      /\ \A s \in 1..Len(stripe) : evenements[s] \in 0..MaxEvenements
  BY DEF Fc!IInv, Fc!TypeOK, Fc!Domaines
<1> QED BY <1>1, <1>2, <1>3, <1>4

LEMMA EnSuite ==
    ASSUME NEW E, NEW n \in Nat, NEW f \in [1..n -> E]
    PROVE  f \in Seq(E) /\ Len(f) = n /\ DOMAIN f = 1..n
OBVIOUS

\* What does not concern the row of the warning keeps it.
LEMMA GardeFacturation ==
    ASSUME Fc!IInv, NEW q \in Requetes, NEW r \in Fc!Requete, Fc!Garder(q, r),
           DOMAIN stripe \subseteq DOMAIN stripe', abonnement # NUL => abonnement' # NUL,
           Fc!Suit(r)', avertissement' = q <=> r.etat = "avertissement",
           \A p \in Requetes : p # q => (avertissement' = p <=> avertissement = p)
    PROVE  /\ req' \in [Requetes -> Fc!Requete]
           /\ \A p \in Requetes :
                 (Fc!Suit(req[p]) /\ (avertissement = p <=> Fc!En(p, "avertissement")))'
<1>1. req \in [Requetes -> Fc!Requete] /\ req' = [req EXCEPT ![q] = r]
  BY DEF Fc!IInv, Fc!TypeOK, Fc!Garder
<1>2. req' \in [Requetes -> Fc!Requete] /\ req'[q] = r
  BY <1>1
<1>3. ASSUME NEW p \in Requetes
      PROVE  Fc!Suit(req[p])' /\ (avertissement' = p <=> req'[p].etat = "avertissement")
  <2>1. CASE p = q
    BY <1>2, <2>1
  <2>2. CASE p # q
    <3>1. PICK o : o = req[p] /\ o = req'[p]
      BY <1>1, <2>2
    <3>2. Fc!Suit(o) /\ (avertissement = p <=> o.etat = "avertissement")
      BY <3>1 DEF Fc!IInv, Fc!En
    <3>3. Fc!Suit(o)'
      BY <3>2 DEF Fc!Suit
    <3>4. Fc!Suit(req[p])'
      BY <3>1, <3>3
    <3> QED BY <2>2, <3>1, <3>2, <3>4
  <2> QED BY <2>1, <2>2
<1> QED BY <1>2, <1>3 DEF Fc!En

\* A request reads, and keeps what it has read.
LEMMA Lecture ==
    ASSUME Fc!Domaines, Fc!IInv, NEW q \in Requetes, NEW r \in Fc!Requete, Fc!Garder(q, r),
           UNCHANGED <<Fc!externe, Fc!serveur>>, Fc!Suit(r),
           ~Fc!En(q, "avertissement"), r.etat # "avertissement"
    PROVE  Fc!IInv'
<1>1. /\ UNCHANGED <<periode, stripe, sessions, evenements, promesses>>
      /\ UNCHANGED <<abonnement, souscriptions, avertissement, envois, pannes>>
  BY DEF Fc!externe, Fc!serveur
<1>2. Fc!Suit(r)'
  BY <1>1 DEF Fc!Suit
<1>3. avertissement' # q
  BY <1>1 DEF Fc!IInv, Fc!En
<1>4. /\ req' \in [Requetes -> Fc!Requete]
      /\ \A p \in Requetes :
            (Fc!Suit(req[p]) /\ (avertissement = p <=> Fc!En(p, "avertissement")))'
  BY <1>1, <1>2, <1>3, GardeFacturation
<1>5. Fc!TypeOK'
  BY <1>1, <1>4 DEF Fc!IInv, Fc!TypeOK
<1> QED BY <1>1, <1>4, <1>5 DEF Fc!IInv

(***************************************************************************)
(* Stripe                                                                  *)
(***************************************************************************)
LEMMA PasFinPeriode ==
    ASSUME Fc!Domaines, Fc!IInv, NEW encaisse \in BOOLEAN, Fc!FinPeriode(encaisse)
    PROVE  Fc!IInv'
<1>1. /\ periode' = periode + 1 /\ periode < Horizon
      /\ stripe' = [s \in DOMAIN stripe |-> Fc!Echoit(s, encaisse)]
      /\ UNCHANGED <<sessions, promesses, req>>
      /\ UNCHANGED <<abonnement, souscriptions, avertissement, envois, pannes>>
  BY DEF Fc!FinPeriode, Fc!serveur
<1>2. PICK n \in Nat : n = Len(stripe) /\ DOMAIN stripe = 1..n
  BY Faits
<1>3. ASSUME NEW s \in 1..n
      PROVE  /\ Fc!Echoit(s, encaisse) \in Fc!Stripe
             /\ Fc!Echoit(s, encaisse).statut \in Fc!Vivants =>
                   periode + 1 < Fc!Echoit(s, encaisse).fin
  <2>1. stripe[s] \in Fc!Stripe /\ periode \in Nat /\ Horizon \in Nat
    BY <1>2, Faits
  <2>2. CASE stripe[s].statut = "canceled"
    <3>1. Fc!Echoit(s, encaisse) = stripe[s]
      BY <2>2 DEF Fc!Echoit
    <3> QED BY <2>1, <2>2, <3>1 DEF Fc!Vivants
  <2>3. CASE stripe[s].statut # "canceled" /\ stripe[s].annulation
    <3>1. Fc!Echoit(s, encaisse) = [stripe[s] EXCEPT !.statut = "canceled"]
      BY <2>3 DEF Fc!Echoit
    <3> QED BY <2>1, <3>1 DEF Fc!Vivants, Fc!Stripe, Fc!StatutStripe
  <2>4. CASE stripe[s].statut # "canceled" /\ ~stripe[s].annulation
    <3>1. PICK t \in {"active", "past_due"} : t = IF encaisse THEN "active" ELSE "past_due"
      OBVIOUS
    <3>2. Fc!Echoit(s, encaisse) = [stripe[s] EXCEPT !.statut = t, !.fin = periode + 2]
      BY <2>4, <3>1 DEF Fc!Echoit
    <3>3. periode + 2 \in Fc!Periode
      BY <1>1, <2>1 DEF Fc!Periode
    <3>4. Fc!Echoit(s, encaisse) \in Fc!Stripe
      BY <2>1, <3>2, <3>3 DEF Fc!Stripe, Fc!StatutStripe
    <3>5. Fc!Echoit(s, encaisse).fin = periode + 2
      BY <2>1, <3>2 DEF Fc!Stripe
    <3> QED BY <2>1, <3>4, <3>5
  <2> QED BY <2>2, <2>3, <2>4
<1>4. /\ stripe' \in Seq(Fc!Stripe) /\ Len(stripe') = n /\ DOMAIN stripe' = 1..n
      /\ \A s \in 1..n : stripe'[s] = Fc!Echoit(s, encaisse)
  <2>1. stripe' \in [1..n -> Fc!Stripe]
    BY <1>1, <1>2, <1>3
  <2> QED BY <1>1, <1>2, <2>1
<1>5. evenements' \in Seq(0..MaxEvenements) /\ Len(evenements') = n
  <2>1. ASSUME NEW s \in 1..n
        PROVE  evenements[s] \in 0..MaxEvenements
               /\ (stripe[s].statut \in Fc!Vivants => evenements[s] + 1 \in 0..MaxEvenements)
    <3>1. evenements[s] \in 0..MaxEvenements /\ MaxEvenements \in Nat
      BY <1>2, Faits
    <3>2. stripe[s].statut \in Fc!Vivants => evenements[s] < MaxEvenements
      BY <1>2 DEF Fc!FinPeriode
    <3> QED BY <3>1, <3>2
  <2>2. DOMAIN evenements = 1..n
    BY <1>2, Faits
  <2>3. evenements' =
           [s \in 1..n |-> IF s \in {t \in DOMAIN stripe : stripe[t].statut \in Fc!Vivants}
                          THEN evenements[s] + 1 ELSE evenements[s]]
    BY <2>2 DEF Fc!FinPeriode
  <2>4. evenements' \in [1..n -> 0..MaxEvenements]
    BY <1>2, <2>1, <2>3
  <2> QED BY <1>2, <2>4, EnSuite
<1>6. periode' \in 0..Horizon
  BY <1>1, Faits
<1>7. \A s \in DOMAIN stripe' : stripe'[s].statut \in Fc!Vivants => periode' < stripe'[s].fin
  BY <1>1, <1>3, <1>4
<1>8. Fc!TypeOK'
  BY <1>1, <1>2, <1>4, <1>5, <1>6 DEF Fc!IInv, Fc!TypeOK
<1>9. ASSUME NEW p \in Requetes
      PROVE  (Fc!Suit(req[p]) /\ (avertissement = p <=> Fc!En(p, "avertissement")))'
  <2>1. PICK o : o = req[p]
    OBVIOUS
  <2>2. Fc!Suit(o) /\ (avertissement = p <=> o.etat = "avertissement")
    BY <2>1 DEF Fc!IInv, Fc!En
  <2>3. Fc!Suit(o)'
    BY <1>1, <1>2, <1>4, <2>2 DEF Fc!Suit
  <2>4. o = req'[p]
    BY <1>1, <2>1
  <2>5. Fc!Suit(req[p])'
    BY <2>3, <2>4
  <2> QED BY <1>1, <2>2, <2>4, <2>5 DEF Fc!En
<1> QED BY <1>1, <1>2, <1>4, <1>5, <1>7, <1>8, <1>9 DEF Fc!IInv

LEMMA PasPayer ==
    ASSUME Fc!Domaines, Fc!IInv, NEW session \in sessions, Fc!Payer(session)
    PROVE  Fc!IInv'
<1>1. PICK n \in Nat : /\ n = Len(stripe) /\ DOMAIN stripe = 1..n /\ DOMAIN evenements = 1..n
                       /\ n < MaxAbonnements
  BY Faits DEF Fc!Payer
<1>2. PICK z : z = [statut |-> IF session.essai THEN "trialing" ELSE "active",
                    elements |-> session.modules, annulation |-> FALSE, fin |-> periode + 1]
  OBVIOUS
<1>3. /\ stripe' = Append(stripe, z) /\ evenements' = Append(evenements, 1)
      /\ sessions' \subseteq sessions
      /\ UNCHANGED <<periode, promesses, req>>
      /\ UNCHANGED <<abonnement, souscriptions, avertissement, envois, pannes>>
  BY <1>2 DEF Fc!Payer, Fc!serveur
<1>4. z \in Fc!Stripe /\ periode < z.fin
  <2>1. session \in Fc!Session /\ periode \in Nat /\ Horizon \in Nat /\ periode <= Horizon
    BY Faits DEF Fc!IInv, Fc!TypeOK
  <2>2. periode + 1 \in Fc!Periode
    BY <2>1 DEF Fc!Periode
  <2> QED BY <1>2, <2>1, <2>2 DEF Fc!Stripe, Fc!StatutStripe, Fc!Session
<1>5. /\ stripe' \in Seq(Fc!Stripe) /\ Len(stripe') = n + 1 /\ DOMAIN stripe' = 1..n + 1
      /\ stripe'[n + 1] = z /\ \A s \in 1..n : stripe'[s] = stripe[s]
  <2>1. stripe \in Seq(Fc!Stripe)
    BY DEF Fc!IInv, Fc!TypeOK
  <2> QED BY <1>1, <1>3, <1>4, <2>1
<1>6. evenements' \in Seq(0..MaxEvenements) /\ Len(evenements') = n + 1
  <2>1. evenements \in Seq(0..MaxEvenements) /\ 1 \in 0..MaxEvenements /\ Len(evenements) = n
    BY <1>1 DEF Fc!IInv, Fc!TypeOK, Fc!Domaines
  <2> QED BY <1>1, <1>3, <2>1
<1>7. \A s \in DOMAIN stripe' : stripe'[s].statut \in Fc!Vivants => periode' < stripe'[s].fin
  BY <1>1, <1>3, <1>4, <1>5 DEF Fc!IInv
<1>8. n + 1 <= MaxAbonnements
  BY <1>1 DEF Fc!Domaines
<1>9. Fc!TypeOK'
  BY <1>1, <1>3, <1>5, <1>6, <1>8 DEF Fc!IInv, Fc!TypeOK
<1>10. ASSUME NEW p \in Requetes
       PROVE  (Fc!Suit(req[p]) /\ (avertissement = p <=> Fc!En(p, "avertissement")))'
  <2>1. PICK o : o = req[p]
    OBVIOUS
  <2>2. Fc!Suit(o) /\ (avertissement = p <=> o.etat = "avertissement")
    BY <2>1 DEF Fc!IInv, Fc!En
  <2>3. Fc!Suit(o)'
    BY <1>1, <1>3, <1>5, <2>2 DEF Fc!Suit
  <2>4. o = req'[p]
    BY <1>3, <2>1
  <2>5. Fc!Suit(req[p])'
    BY <2>3, <2>4
  <2> QED BY <1>3, <2>2, <2>4, <2>5 DEF Fc!En
<1>11. abonnement' # NUL => abonnement'.id \in DOMAIN stripe' \cup {NUL}
  BY <1>1, <1>3, <1>5 DEF Fc!IInv
<1> QED BY <1>3, <1>5, <1>6, <1>7, <1>9, <1>10, <1>11 DEF Fc!IInv

LEMMA PasAbandonner ==
    ASSUME Fc!Domaines, Fc!IInv, NEW session \in sessions, Fc!Abandonner(session)
    PROVE  Fc!IInv'
<1>1. /\ UNCHANGED <<periode, stripe, evenements, promesses, req>> /\ sessions' \subseteq sessions
      /\ UNCHANGED <<abonnement, souscriptions, avertissement, envois, pannes>>
  BY DEF Fc!Abandonner, Fc!serveur
<1>2. Fc!TypeOK'
  BY <1>1 DEF Fc!IInv, Fc!TypeOK
<1> QED BY <1>1, <1>2 DEF Fc!IInv, Fc!Suit, Fc!En

\* What Stripe answers to a request that changes one subscription.
LEMMA PasStripe ==
    ASSUME Fc!Domaines, Fc!IInv, NEW q \in Requetes, NEW r \in Fc!Requete,
           NEW s \in DOMAIN stripe,
           NEW z \in Fc!Stripe, z.fin = stripe[s].fin, stripe[s].statut \in Fc!Vivants,
           stripe' = [stripe EXCEPT ![s] = z], Fc!Emet(s), promesses' \in [Modules -> Fc!Periode],
           UNCHANGED <<periode, sessions, Fc!serveur>>, Fc!Garder(q, r),
           r.etat \in {"relecture", "lu"}, r.s = s, ~Fc!En(q, "avertissement"), abonnement # NUL
    PROVE  Fc!IInv'
<1>1. PICK n \in Nat : n = Len(stripe) /\ DOMAIN stripe = 1..n /\ DOMAIN evenements = 1..n
  BY Faits
<1>2. UNCHANGED <<abonnement, souscriptions, avertissement, envois, pannes>>
  BY DEF Fc!serveur
<1>3. /\ stripe' \in Seq(Fc!Stripe) /\ Len(stripe') = n /\ DOMAIN stripe' = 1..n
      /\ \A t \in 1..n : stripe'[t] = IF t = s THEN z ELSE stripe[t]
  <2>1. stripe \in Seq(Fc!Stripe)
    BY DEF Fc!IInv, Fc!TypeOK
  <2> QED BY <1>1, <2>1
<1>4. evenements' \in Seq(0..MaxEvenements) /\ Len(evenements') = n
  <2>1. evenements \in Seq(0..MaxEvenements) /\ Len(evenements) = n
    BY <1>1 DEF Fc!IInv, Fc!TypeOK
  <2>2. evenements[s] + 1 \in 0..MaxEvenements
    BY <1>1, Faits DEF Fc!Emet
  <2>3. evenements' = [evenements EXCEPT ![s] = evenements[s] + 1]
    BY DEF Fc!Emet
  <2> QED BY <1>1, <2>1, <2>2, <2>3
<1>5. \A t \in DOMAIN stripe' : stripe'[t].statut \in Fc!Vivants => periode' < stripe'[t].fin
  BY <1>1, <1>3 DEF Fc!IInv
<1>6. Fc!Suit(r)'
  BY <1>1, <1>2, <1>3 DEF Fc!Suit
<1>7. avertissement' # q
  BY <1>2 DEF Fc!IInv, Fc!En
<1>8. /\ req' \in [Requetes -> Fc!Requete]
      /\ \A p \in Requetes :
            (Fc!Suit(req[p]) /\ (avertissement = p <=> Fc!En(p, "avertissement")))'
  BY <1>1, <1>2, <1>3, <1>6, <1>7, GardeFacturation
<1>9. Fc!TypeOK'
  BY <1>1, <1>2, <1>3, <1>4, <1>8 DEF Fc!IInv, Fc!TypeOK
<1>10. abonnement' # NUL => abonnement'.id \in DOMAIN stripe' \cup {NUL}
  BY <1>1, <1>2, <1>3 DEF Fc!IInv
<1> QED BY <1>2, <1>3, <1>4, <1>5, <1>8, <1>9, <1>10 DEF Fc!IInv

(***************************************************************************)
(* The handlers                                                            *)
(***************************************************************************)
LEMMA PasSouscription ==
    ASSUME Fc!Domaines, Fc!IInv, NEW q \in Requetes, NEW M \in SUBSET Modules,
           Fc!LireSouscription(q, M)
    PROVE  Fc!IInv'
<1>1. PICK r \in Fc!Requete : r = [etat |-> "souscription", modules |-> M]
  BY DEF Fc!Requete
<1>2. Fc!Suit(r) /\ r.etat = "souscription"
  BY <1>1 DEF Fc!Suit, Fc!Suivent
<1> QED BY <1>1, <1>2, Lecture DEF Fc!LireSouscription, Fc!En

LEMMA PasDemarrer ==
    ASSUME Fc!Domaines, Fc!IInv, NEW q \in Requetes, Fc!Demarrer(q)
    PROVE  Fc!IInv'
<1>1. PICK l : l = IF abonnement = NUL THEN [id |-> NUL, statut |-> NUL, essai |-> FALSE]
                   ELSE abonnement
  OBVIOUS
<1>2. /\ Fc!En(q, "souscription") /\ abonnement' = l
      /\ sessions' = sessions \cup {[modules |-> req[q].modules, essai |-> ~l.essai]}
      /\ Fc!Garder(q, Fc!Libre)
      /\ UNCHANGED <<periode, stripe, evenements, promesses, souscriptions, avertissement,
                     envois, pannes>>
  BY <1>1 DEF Fc!Demarrer, Fc!Finir
<1>3. l \in Fc!Abonnement /\ (l.id \in DOMAIN stripe \cup {NUL})
  <2>1. CASE abonnement = NUL
    BY <1>1, <2>1 DEF Fc!Abonnement
  <2>2. CASE abonnement # NUL
    BY <1>1, <2>2 DEF Fc!IInv, Fc!TypeOK
  <2> QED BY <2>1, <2>2
<1>4. l # NUL
  BY <1>3 DEF Fc!Domaines
<1>5. sessions' \subseteq Fc!Session
  <2>1. req[q] \in Fc!Requete /\ req[q].etat = "souscription"
    BY <1>2 DEF Fc!En, Fc!IInv, Fc!TypeOK
  <2>2. req[q].modules \in SUBSET Modules
    BY <2>1, Formes
  <2>3. (~l.essai) \in BOOLEAN
    OBVIOUS
  <2>4. [modules |-> req[q].modules, essai |-> ~l.essai] \in Fc!Session
    BY <2>2, <2>3 DEF Fc!Session
  <2>5. sessions \subseteq Fc!Session
    BY DEF Fc!IInv, Fc!TypeOK
  <2> QED BY <1>2, <2>4, <2>5
<1>6. avertissement' # q
  BY <1>2 DEF Fc!IInv, Fc!En
<1>7. Fc!Suit(Fc!Libre)'
  BY LibreVaut DEF Fc!Suit, Fc!Suivent
<1>8. /\ req' \in [Requetes -> Fc!Requete]
      /\ \A p \in Requetes :
            (Fc!Suit(req[p]) /\ (avertissement = p <=> Fc!En(p, "avertissement")))'
  BY <1>2, <1>4, <1>6, <1>7, GardeFacturation, LibreVaut
<1>9. Fc!TypeOK'
  BY <1>2, <1>3, <1>5, <1>8 DEF Fc!IInv, Fc!TypeOK
<1> QED BY <1>2, <1>3, <1>8, <1>9 DEF Fc!IInv

LEMMA PasRelire ==
    ASSUME Fc!Domaines, Fc!IInv, NEW q \in Requetes, NEW s \in DOMAIN stripe, NEW e \in BOOLEAN,
           Fc!Relire(q, s, e)
    PROVE  Fc!IInv'
<1>1. PICK v : v = stripe[s]
  OBVIOUS
<1>2. PICK r : r = [etat |-> "lu", s |-> s, vu |-> v, evenement |-> e, resilie |-> NUL,
                    finAcces |-> NUL]
  OBVIOUS
<1>3. v \in Fc!Stripe /\ s \in 1..MaxAbonnements
  BY <1>1, Faits
<1>4. r \in Fc!Requete /\ r.etat = "lu" /\ r.s = s
  BY <1>2, <1>3 DEF Fc!Requete
<1>5. Fc!Suit(r)
  BY <1>4 DEF Fc!Suit, Fc!Relire
<1> QED BY <1>1, <1>2, <1>4, <1>5, Lecture DEF Fc!Relire, Fc!En

LEMMA Abonne ==
    ASSUME Fc!IInv, Fc!Vivant
    PROVE  abonnement.id \in DOMAIN stripe /\ abonnement # NUL
BY DEF Fc!IInv, Fc!Vivant

LEMMA PasLireAjout ==
    ASSUME Fc!Domaines, Fc!IInv, NEW q \in Requetes, NEW m \in Modules, Fc!LireAjout(q, m)
    PROVE  Fc!IInv'
<1>1. PICK s \in DOMAIN stripe : s = abonnement.id
  BY Abonne DEF Fc!LireAjout
<1>2. PICK r : r = [etat |-> "ajout", s |-> s, m |-> m]
  OBVIOUS
<1>3. r \in Fc!Requete /\ r.etat = "ajout" /\ r.s = s
  BY <1>1, <1>2, Faits DEF Fc!Requete
<1>4. Fc!Suit(r)
  BY <1>3, Abonne DEF Fc!Suit, Fc!LireAjout
<1> QED BY <1>1, <1>2, <1>3, <1>4, Lecture DEF Fc!LireAjout, Fc!En

LEMMA PasLireResiliation ==
    ASSUME Fc!Domaines, Fc!IInv, NEW q \in Requetes, NEW m \in Modules, Fc!LireResiliation(q, m)
    PROVE  Fc!IInv'
<1>1. PICK s \in DOMAIN stripe : s = abonnement.id
  BY Abonne DEF Fc!LireResiliation
<1>2. PICK f \in Fc!Periode : f = stripe[abonnement.id].fin
  <2>1. stripe[s] \in Fc!Stripe
    BY Faits
  <2> QED BY <1>1, <2>1 DEF Fc!Stripe
<1>d. PICK d \in BOOLEAN : d = (Fc!Cardinality(stripe[abonnement.id].elements) <= 1)
  <2>1. stripe[s].elements \in SUBSET Modules
    BY Faits DEF Fc!Stripe
  <2>2. Fc!Cardinality(stripe[s].elements) \in Nat
    BY <2>1, FS_Subset, FS_CardinalityType, TailleFacturation DEF Fc!Domaines
  <2>3. PICK c \in Nat : c = Fc!Cardinality(stripe[s].elements)
    BY <2>2
  <2>4. (c <= 1) \in BOOLEAN
    OBVIOUS
  <2> QED BY <1>1, <2>3, <2>4
<1>3. PICK r : r = [etat |-> "resiliation", s |-> s, m |-> m, dernier |-> d, fin |-> f]
  OBVIOUS
<1>4. r \in Fc!Requete /\ r.etat = "resiliation" /\ r.s = s
  BY <1>1, <1>3, Faits DEF Fc!Requete
<1>5. Fc!Suit(r)
  BY <1>4, Abonne DEF Fc!Suit, Fc!LireResiliation
<1>6. Fc!Garder(q, r) /\ UNCHANGED <<Fc!externe, Fc!serveur>> /\ Fc!En(q, "libre")
  BY <1>1, <1>2, <1>d, <1>3 DEF Fc!LireResiliation
<1> QED BY <1>4, <1>5, <1>6, Lecture DEF Fc!En

LEMMA PasLireReprise ==
    ASSUME Fc!Domaines, Fc!IInv, NEW q \in Requetes, NEW m \in Modules, Fc!LireReprise(q, m)
    PROVE  Fc!IInv'
<1>1. PICK s \in DOMAIN stripe : s = abonnement.id
  BY Abonne DEF Fc!LireReprise
<1>2. PICK a \in BOOLEAN : a = stripe[abonnement.id].annulation
  <2>1. stripe[s] \in Fc!Stripe
    BY Faits
  <2> QED BY <1>1, <2>1 DEF Fc!Stripe
<1>3. PICK r : r = [etat |-> "reprise", s |-> s, m |-> m, annulee |-> a]
  OBVIOUS
<1>4. r \in Fc!Requete /\ r.etat = "reprise" /\ r.s = s
  BY <1>1, <1>3, Faits DEF Fc!Requete
<1>5. Fc!Suit(r)
  BY <1>4, Abonne DEF Fc!Suit, Fc!LireReprise
<1>6. Fc!Garder(q, r) /\ UNCHANGED <<Fc!externe, Fc!serveur>> /\ Fc!En(q, "libre")
  BY <1>1, <1>2, <1>3 DEF Fc!LireReprise
<1> QED BY <1>4, <1>5, <1>6, Lecture DEF Fc!En

LEMMA PasRelecture ==
    ASSUME Fc!Domaines, Fc!IInv, NEW q \in Requetes, Fc!RelireResiliation(q)
    PROVE  Fc!IInv'
<1>1. PICK o \in Fc!Requete : o = req[q] /\ o.etat = "relecture"
  BY DEF Fc!RelireResiliation, Fc!En, Fc!IInv, Fc!TypeOK
<1>2. Fc!Suit(o) /\ o.s \in DOMAIN stripe /\ abonnement # NUL
  BY <1>1 DEF Fc!IInv, Fc!Suit, Fc!Suivent
<1>3. PICK v : v = stripe[o.s]
  OBVIOUS
<1>4. v \in Fc!Stripe
  BY <1>2, <1>3, Faits
<1>5. PICK r : r = [o EXCEPT !.etat = "lu", !.vu = v]
  OBVIOUS
<1>6. r \in Fc!Requete /\ r.etat = "lu" /\ r.s = o.s
  BY <1>1, <1>4, <1>5 DEF Fc!Requete
<1>7. Fc!Suit(r)
  BY <1>2, <1>6 DEF Fc!Suit
<1>8. Fc!Garder(q, r) /\ UNCHANGED <<Fc!externe, Fc!serveur>> /\ ~Fc!En(q, "avertissement")
  BY <1>1, <1>3, <1>5 DEF Fc!RelireResiliation, Fc!En
<1> QED BY <1>6, <1>7, <1>8, Lecture

LEMMA PasAjouter ==
    ASSUME Fc!Domaines, Fc!IInv, NEW q \in Requetes, Fc!Ajouter(q)
    PROVE  Fc!IInv'
<1>1. PICK o \in Fc!Requete : o = req[q] /\ o.etat = "ajout"
  BY DEF Fc!Ajouter, Fc!En, Fc!IInv, Fc!TypeOK
<1>2. o.s \in DOMAIN stripe /\ abonnement # NUL /\ o.m \in Modules
  BY <1>1, Formes DEF Fc!IInv, Fc!Suit, Fc!Suivent
<1>3. PICK z : z = [stripe[o.s] EXCEPT !.elements = @ \cup {o.m}, !.annulation = FALSE]
  OBVIOUS
<1>4. z \in Fc!Stripe /\ z.fin = stripe[o.s].fin
  BY <1>2, <1>3, Faits DEF Fc!Stripe
<1>5. PICK r : r = [etat |-> "lu", s |-> o.s, vu |-> z, evenement |-> FALSE, resilie |-> NUL,
                    finAcces |-> NUL]
  OBVIOUS
<1>6. r \in Fc!Requete /\ r.etat = "lu" /\ r.s = o.s
  BY <1>2, <1>4, <1>5, Faits DEF Fc!Requete
<1>7. promesses' \in [Modules -> Fc!Periode]
  <2>1. 0 \in Fc!Periode
    BY DEF Fc!Periode, Fc!Domaines
  <2> QED BY <1>1, <1>2, <2>1 DEF Fc!Ajouter, Fc!IInv, Fc!TypeOK
<1>8. /\ stripe[o.s].statut \in Fc!Vivants /\ stripe' = [stripe EXCEPT ![o.s] = z] /\ Fc!Emet(o.s)
      /\ Fc!Garder(q, r) /\ UNCHANGED <<periode, sessions, Fc!serveur>>
  BY <1>1, <1>3, <1>5 DEF Fc!Ajouter
<1>9. ~Fc!En(q, "avertissement")
  BY <1>1 DEF Fc!En
<1> QED BY <1>2, <1>4, <1>6, <1>7, <1>8, <1>9, PasStripe

LEMMA PasResilier ==
    ASSUME Fc!Domaines, Fc!IInv, NEW q \in Requetes, Fc!Resilier(q)
    PROVE  Fc!IInv'
<1>1. PICK o \in Fc!Requete : o = req[q] /\ o.etat = "resiliation"
  BY DEF Fc!Resilier, Fc!En, Fc!IInv, Fc!TypeOK
<1>2. o.s \in DOMAIN stripe /\ abonnement # NUL /\ o.m \in Modules /\ o.fin \in Fc!Periode
  BY <1>1, Formes DEF Fc!IInv, Fc!Suit, Fc!Suivent
<1>3. PICK z : z = IF o.dernier THEN [stripe[o.s] EXCEPT !.annulation = TRUE]
                   ELSE [stripe[o.s] EXCEPT !.elements = @ \ {o.m}]
  OBVIOUS
<1>4. z \in Fc!Stripe /\ z.fin = stripe[o.s].fin
  <2>1. stripe[o.s] \in Fc!Stripe
    BY <1>2, Faits
  <2>2. CASE o.dernier
    BY <1>3, <2>1, <2>2 DEF Fc!Stripe
  <2>3. CASE ~o.dernier
    BY <1>3, <2>1, <2>3 DEF Fc!Stripe
  <2> QED BY <2>2, <2>3
<1>5. PICK r : r = [etat |-> "relecture", s |-> o.s, vu |-> z, evenement |-> FALSE,
                    resilie |-> o.m, finAcces |-> o.fin]
  OBVIOUS
<1>6. r \in Fc!Requete /\ r.etat = "relecture" /\ r.s = o.s
  BY <1>2, <1>4, <1>5, Faits DEF Fc!Requete
<1>7. promesses' \in [Modules -> Fc!Periode]
  BY <1>1, <1>2 DEF Fc!Resilier, Fc!IInv, Fc!TypeOK
<1>8. /\ stripe[o.s].statut \in Fc!Vivants /\ stripe' = [stripe EXCEPT ![o.s] = z] /\ Fc!Emet(o.s)
      /\ Fc!Garder(q, r) /\ UNCHANGED <<periode, sessions, Fc!serveur>>
  BY <1>1, <1>3, <1>5 DEF Fc!Resilier
<1>9. ~Fc!En(q, "avertissement")
  BY <1>1 DEF Fc!En
<1> QED BY <1>2, <1>4, <1>6, <1>7, <1>8, <1>9, PasStripe

LEMMA PasReprendre ==
    ASSUME Fc!Domaines, Fc!IInv, NEW q \in Requetes, Fc!Reprendre(q)
    PROVE  Fc!IInv'
<1>1. PICK o \in Fc!Requete : o = req[q] /\ o.etat = "reprise"
  BY DEF Fc!Reprendre, Fc!En, Fc!IInv, Fc!TypeOK
<1>2. o.s \in DOMAIN stripe /\ abonnement # NUL /\ o.m \in Modules
  BY <1>1, Formes DEF Fc!IInv, Fc!Suit, Fc!Suivent
<1>3. PICK z : z = IF o.annulee THEN [stripe[o.s] EXCEPT !.annulation = FALSE]
                   ELSE [stripe[o.s] EXCEPT !.elements = @ \cup {o.m}]
  OBVIOUS
<1>4. z \in Fc!Stripe /\ z.fin = stripe[o.s].fin
  <2>1. stripe[o.s] \in Fc!Stripe
    BY <1>2, Faits
  <2>2. CASE o.annulee
    BY <1>3, <2>1, <2>2 DEF Fc!Stripe
  <2>3. CASE ~o.annulee
    BY <1>2, <1>3, <2>1, <2>3 DEF Fc!Stripe
  <2> QED BY <2>2, <2>3
<1>5. PICK r : r = [etat |-> "lu", s |-> o.s, vu |-> z, evenement |-> FALSE, resilie |-> NUL,
                    finAcces |-> NUL]
  OBVIOUS
<1>6. r \in Fc!Requete /\ r.etat = "lu" /\ r.s = o.s
  BY <1>2, <1>4, <1>5, Faits DEF Fc!Requete
<1>7. promesses' \in [Modules -> Fc!Periode]
  <2>1. 0 \in Fc!Periode
    BY DEF Fc!Periode, Fc!Domaines
  <2> QED BY <1>1, <1>2, <2>1 DEF Fc!Reprendre, Fc!IInv, Fc!TypeOK
<1>8. /\ stripe[o.s].statut \in Fc!Vivants /\ stripe' = [stripe EXCEPT ![o.s] = z] /\ Fc!Emet(o.s)
      /\ Fc!Garder(q, r) /\ UNCHANGED <<periode, sessions, Fc!serveur>>
  BY <1>1, <1>3, <1>5 DEF Fc!Reprendre
<1>9. ~Fc!En(q, "avertissement")
  BY <1>1 DEF Fc!En
<1> QED BY <1>2, <1>4, <1>6, <1>7, <1>8, <1>9, PasStripe

(***************************************************************************)
(* The synchronisation                                                     *)
(***************************************************************************)
LEMMA PasSynchroniser ==
    ASSUME Fc!Domaines, Fc!IInv, NEW q \in Requetes, Fc!Synchroniser(q)
    PROVE  Fc!IInv'
<1>1. PICK o \in Fc!Requete : o = req[q] /\ o.etat = "lu"
  BY DEF Fc!Synchroniser, Fc!En, Fc!IInv, Fc!TypeOK
<1>2. /\ o.s \in DOMAIN stripe /\ abonnement # NUL /\ o.vu \in Fc!Stripe /\ o.evenement \in BOOLEAN
      /\ o.resilie \in Modules \cup {NUL} /\ o.finAcces \in Fc!Periode \cup {NUL}
      /\ o.s \in 1..MaxAbonnements
  BY <1>1, Formes DEF Fc!IInv, Fc!Suit, Fc!Suivent
<1>3. PICK C \in SUBSET Modules :
         C = {m \in Modules : Fc!Facture(m) /\ souscriptions[m].statut # "RESILIE"}
  OBVIOUS
<1>4. PICK S, R : S = souscriptions /\ R = o.vu.elements \cup C
  OBVIOUS
<1>5. S \in Fc!Lignes /\ R \in SUBSET Modules
  BY <1>2, <1>3, <1>4 DEF Fc!IInv, Fc!TypeOK, Fc!Stripe
<1>6. PICK r : r = [etat |-> "modules", s |-> o.s, vu |-> o.vu, evenement |-> o.evenement,
                    resilie |-> o.resilie, finAcces |-> o.finAcces, avant |-> S, reste |-> R]
  OBVIOUS
<1>7. r \in Fc!Requete
  BY <1>2, <1>5, <1>6 DEF Fc!Requete
<1>8. /\ Fc!Garder(q, r)
      /\ abonnement' = [id |-> o.s, statut |-> o.vu.statut,
                        essai |-> abonnement.essai \/ o.vu.statut = "trialing"]
  BY <1>1, <1>3, <1>4, <1>6 DEF Fc!Synchroniser
<1>9. /\ UNCHANGED <<periode, stripe, sessions, evenements, promesses>>
      /\ UNCHANGED <<souscriptions, avertissement, envois, pannes>>
  BY DEF Fc!Synchroniser, Fc!externe
<1>10. abonnement' \in Fc!Abonnement /\ abonnement'.id = o.s
  <2>1. (abonnement.essai \/ o.vu.statut = "trialing") \in BOOLEAN
    OBVIOUS
  <2> QED BY <1>2, <1>8, <2>1 DEF Fc!Abonnement, Fc!Stripe
<1>11. abonnement' # NUL
  BY <1>10 DEF Fc!Domaines
<1>12. Fc!Suit(r)'
  <2>1. \A m \in R \ o.vu.elements : S[m] # NUL
    BY <1>3, <1>4 DEF Fc!Facture
  <2> QED BY <1>2, <1>6, <1>9, <1>11, <2>1 DEF Fc!Suit
<1>13. avertissement' # q /\ r.etat = "modules"
  BY <1>1, <1>6, <1>9 DEF Fc!IInv, Fc!En
<1>14. /\ req' \in [Requetes -> Fc!Requete]
       /\ \A p \in Requetes :
             (Fc!Suit(req[p]) /\ (avertissement = p <=> Fc!En(p, "avertissement")))'
  BY <1>7, <1>8, <1>9, <1>11, <1>12, <1>13, GardeFacturation
<1>15. Fc!TypeOK'
  BY <1>9, <1>10, <1>14 DEF Fc!IInv, Fc!TypeOK
<1> QED BY <1>2, <1>9, <1>10, <1>14, <1>15 DEF Fc!IInv

\* What a module becomes is a row.
LEMMA FormeRow ==
    ASSUME Fc!Domaines, NEW o \in Fc!Requete, o.etat = "modules", NEW m \in Modules,
           m \notin o.vu.elements => o.avant[m] # NUL
    PROVE  /\ Fc!Chargee(o, m) \in Fc!Souscription
           /\ m \notin o.vu.elements => Fc!Retiree(o, m) \in Fc!Souscription
<1>1. /\ o.vu \in Fc!Stripe /\ o.resilie \in Modules \cup {NUL}
      /\ o.finAcces \in Fc!Periode \cup {NUL} /\ o.avant \in Fc!Lignes
  BY Formes
<1>2. PICK t : t = Fc!StatutModule(o.vu.statut)
  OBVIOUS
<1>3. t \in {"ESSAI", "ACTIF", "RESILIE"}
  BY <1>2 DEF Fc!StatutModule
<1>4. Fc!Chargee(o, m) \in Fc!Souscription
  <2>1. o.vu.fin \in Fc!Periode
    BY <1>1 DEF Fc!Stripe
  <2>2. PICK a, b \in Fc!Periode \cup {NUL} :
           /\ a = IF t = "ESSAI" THEN o.vu.fin ELSE NUL
           /\ b = IF o.vu.annulation /\ t # "RESILIE" THEN o.vu.fin ELSE NUL
    BY <2>1
  <2>3. Fc!Chargee(o, m) = [statut |-> t, source |-> "STRIPE", element |-> t # "RESILIE",
                            finEssai |-> a, finAcces |-> b]
    BY <1>2, <2>2 DEF Fc!Chargee
  <2> QED BY <1>3, <2>2, <2>3 DEF Fc!Souscription
<1>5. ASSUME m \notin o.vu.elements PROVE Fc!Retiree(o, m) \in Fc!Souscription
  <2>1. PICK a \in Fc!Souscription : a = o.avant[m]
    BY <1>1, <1>5 DEF Fc!Lignes
  <2>2. PICK f \in Fc!Periode \cup {NUL} : f = IF m = o.resilie THEN o.finAcces ELSE a.finAcces
    BY <1>1, <2>1 DEF Fc!Souscription
  <2>3. \/ Fc!Retiree(o, m) = [a EXCEPT !.source = "STRIPE", !.element = FALSE, !.finAcces = f]
        \/ Fc!Retiree(o, m) = [statut |-> "RESILIE", source |-> "STRIPE", element |-> FALSE,
                               finEssai |-> NUL, finAcces |-> NUL]
    BY <2>1, <2>2 DEF Fc!Retiree
  <2>4. [a EXCEPT !.source = "STRIPE", !.element = FALSE, !.finAcces = f] \in Fc!Souscription
    BY <2>1, <2>2 DEF Fc!Souscription
  <2>5. [statut |-> "RESILIE", source |-> "STRIPE", element |-> FALSE,
         finEssai |-> NUL, finAcces |-> NUL] \in Fc!Souscription
    BY DEF Fc!Souscription
  <2> QED BY <2>3, <2>4, <2>5
<1> QED BY <1>4, <1>5

LEMMA FormeChangee ==
    ASSUME NEW a \in Fc!Souscription \cup {NUL}, NEW v \in Fc!Souscription
    PROVE  Fc!Changee(a, v) \in Fc!Souscription
BY DEF Fc!Changee, Fc!Souscription

\* What a step of the synchronisation writes on its module.
Effet(o, m) ==
    \E v \in Fc!Souscription :
        /\ v = IF m \in o.vu.elements THEN Fc!Chargee(o, m) ELSE Fc!Retiree(o, m)
        /\ \/ /\ m \in o.vu.elements /\ v.statut = "ESSAI" /\ v.finEssai <= periode
              /\ souscriptions' = souscriptions
           \/ /\ ~(v.statut = "ESSAI" /\ v.finEssai <= periode)
              /\ souscriptions' = [souscriptions EXCEPT ![m] = Fc!Changee(souscriptions[m], v)]

LEMMA Change ==
    ASSUME Fc!Domaines, Fc!IInv, NEW q \in Requetes, NEW m \in Modules, Fc!ChangerModule(q, m),
           NEW o \in Fc!Requete, o = req[q]
    PROVE  /\ o.etat = "modules" /\ m \in o.reste
           /\ o.s \in DOMAIN stripe /\ abonnement # NUL
           /\ \A p \in o.reste \ o.vu.elements : o.avant[p] # NUL
           /\ Fc!Garder(q, [o EXCEPT !.reste = @ \ {m}])
           /\ UNCHANGED <<periode, stripe, sessions, evenements, promesses>>
           /\ UNCHANGED <<abonnement, avertissement, envois, pannes>>
           /\ Effet(o, m)
<1>1. o.etat = "modules" /\ m \in o.reste
  BY DEF Fc!ChangerModule, Fc!En
<1>2. /\ o.s \in DOMAIN stripe /\ abonnement # NUL
      /\ \A p \in o.reste \ o.vu.elements : o.avant[p] # NUL
  BY <1>1 DEF Fc!IInv, Fc!Suit, Fc!Suivent
<1>3. PICK v : v = IF m \in o.vu.elements THEN Fc!Chargee(o, m) ELSE Fc!Retiree(o, m)
  OBVIOUS
<1>4. v \in Fc!Souscription
  BY <1>1, <1>2, <1>3, FormeRow
<1>5. \/ /\ m \in o.vu.elements /\ v.statut = "ESSAI" /\ v.finEssai <= periode
         /\ souscriptions' = souscriptions
      \/ /\ ~(v.statut = "ESSAI" /\ v.finEssai <= periode)
         /\ souscriptions' = [souscriptions EXCEPT ![m] = Fc!Changee(souscriptions[m], v)]
  BY <1>3 DEF Fc!ChangerModule
<1>6. /\ Fc!Garder(q, [o EXCEPT !.reste = @ \ {m}])
      /\ UNCHANGED <<periode, stripe, sessions, evenements, promesses>>
      /\ UNCHANGED <<abonnement, avertissement, envois, pannes>>
  BY DEF Fc!ChangerModule, Fc!externe
<1>7. Effet(o, m)
  BY <1>3, <1>4, <1>5 DEF Effet
<1> QED BY <1>1, <1>2, <1>6, <1>7

LEMMA PasChanger ==
    ASSUME Fc!Domaines, Fc!IInv, NEW q \in Requetes, NEW m \in Modules, Fc!ChangerModule(q, m)
    PROVE  Fc!IInv'
<1>1. PICK o \in Fc!Requete : o = req[q]
  BY DEF Fc!IInv, Fc!TypeOK
<1>2. /\ o.etat = "modules" /\ m \in o.reste
      /\ o.s \in DOMAIN stripe /\ abonnement # NUL
      /\ \A p \in o.reste \ o.vu.elements : o.avant[p] # NUL
      /\ Fc!Garder(q, [o EXCEPT !.reste = @ \ {m}])
      /\ UNCHANGED <<periode, stripe, sessions, evenements, promesses>>
      /\ UNCHANGED <<abonnement, avertissement, envois, pannes>>
  BY <1>1, Change
<1>3. souscriptions' \in Fc!Lignes
  <2>1. PICK v \in Fc!Souscription :
           \/ souscriptions' = souscriptions
           \/ souscriptions' = [souscriptions EXCEPT ![m] = Fc!Changee(souscriptions[m], v)]
    <3>1. Effet(o, m)
      BY <1>1, Change
    <3> QED BY <3>1 DEF Effet
  <2>2. souscriptions \in Fc!Lignes
    BY DEF Fc!IInv, Fc!TypeOK
  <2>3. souscriptions[m] \in Fc!Souscription \cup {NUL}
    BY <2>2 DEF Fc!Lignes
  <2>4. PICK w \in Fc!Souscription : w = Fc!Changee(souscriptions[m], v)
    BY <2>3, FormeChangee
  <2> QED BY <2>1, <2>2, <2>4 DEF Fc!Lignes
<1>4. PICK r : r = [o EXCEPT !.reste = @ \ {m}]
  OBVIOUS
<1>5. r \in Fc!Requete /\ r.etat = "modules" /\ r.s = o.s /\ r.vu = o.vu /\ r.avant = o.avant
      /\ r.reste = o.reste \ {m}
  BY <1>2, <1>4 DEF Fc!Requete
<1>6. Fc!Suit(r)'
  BY <1>2, <1>5 DEF Fc!Suit
<1>7. avertissement' # q
  BY <1>1, <1>2 DEF Fc!IInv, Fc!En
<1>8. /\ req' \in [Requetes -> Fc!Requete]
      /\ \A p \in Requetes :
            (Fc!Suit(req[p]) /\ (avertissement = p <=> Fc!En(p, "avertissement")))'
  BY <1>2, <1>4, <1>5, <1>6, <1>7, GardeFacturation
<1>9. Fc!TypeOK'
  BY <1>2, <1>3, <1>8 DEF Fc!IInv, Fc!TypeOK
<1> QED BY <1>2, <1>8, <1>9 DEF Fc!IInv

LEMMA PasConclure ==
    ASSUME Fc!Domaines, Fc!IInv, NEW q \in Requetes, Fc!Conclure(q)
    PROVE  Fc!IInv'
<1>1. PICK o \in Fc!Requete : o = req[q] /\ o.etat = "modules"
  BY DEF Fc!Conclure, Fc!En, Fc!IInv, Fc!TypeOK
<1>2. o.s \in DOMAIN stripe
  BY <1>1 DEF Fc!IInv, Fc!Suit, Fc!Suivent
<1>3. /\ Fc!Garder(q, Fc!Libre) /\ UNCHANGED <<periode, stripe, sessions, promesses>>
      /\ UNCHANGED <<abonnement, souscriptions, avertissement, envois, pannes>>
  BY DEF Fc!Conclure, Fc!Finir, Fc!serveur
<1>4. evenements' \in Seq(0..MaxEvenements) /\ Len(evenements') = Len(evenements)
  <2>1. evenements \in Seq(0..MaxEvenements) /\ DOMAIN evenements = DOMAIN stripe
    BY Faits DEF Fc!IInv, Fc!TypeOK
  <2>2. CASE o.evenement /\ evenements[o.s] > 0
    <3>1. evenements' = [evenements EXCEPT ![o.s] = evenements[o.s] - 1]
      BY <1>1, <2>2 DEF Fc!Conclure
    <3>2. evenements[o.s] - 1 \in 0..MaxEvenements
      BY <1>2, <2>2, Faits
    <3> QED BY <1>2, <2>1, <3>1, <3>2
  <2>3. CASE ~(o.evenement /\ evenements[o.s] > 0)
    <3>1. evenements' = evenements
      BY <1>1, <2>3 DEF Fc!Conclure
    <3> QED BY <2>1, <3>1
  <2> QED BY <2>2, <2>3
<1>5. avertissement' # q
  BY <1>1, <1>3 DEF Fc!IInv, Fc!En
<1>6. Fc!Suit(Fc!Libre)'
  BY LibreVaut DEF Fc!Suit, Fc!Suivent
<1>7. /\ req' \in [Requetes -> Fc!Requete]
      /\ \A p \in Requetes :
            (Fc!Suit(req[p]) /\ (avertissement = p <=> Fc!En(p, "avertissement")))'
  BY <1>3, <1>5, <1>6, GardeFacturation, LibreVaut
<1>8. Fc!TypeOK'
  BY <1>3, <1>4, <1>7 DEF Fc!IInv, Fc!TypeOK
<1> QED BY <1>3, <1>4, <1>7, <1>8 DEF Fc!IInv

\* The row of the warning changes hands.
LEMMA PasLigne ==
    ASSUME Fc!Domaines, Fc!IInv, NEW q \in Requetes, NEW r \in Fc!Requete, Fc!Garder(q, r),
           UNCHANGED <<Fc!externe, abonnement, souscriptions>>,
           r.etat \in {"libre", "avertissement"}, avertissement' = q <=> r.etat = "avertissement",
           avertissement' \in {"absent", "envoye", q} \/ avertissement' = avertissement,
           \A p \in Requetes : p # q => avertissement # p \/ avertissement' = p,
           envois' \in Nat, pannes' \in 0..MaxPannes,
           envois' = pannes' + (IF avertissement' = "envoye" THEN 1 ELSE 0)
    PROVE  Fc!IInv'
<1>1. UNCHANGED <<periode, stripe, sessions, evenements, promesses, abonnement, souscriptions>>
  BY DEF Fc!externe
<1>2. Fc!Suit(r)'
  BY DEF Fc!Suit, Fc!Suivent
<1>3. \A p \in Requetes : p # q => (avertissement' = p <=> avertissement = p)
  BY DEF Fc!Domaines
<1>4. /\ req' \in [Requetes -> Fc!Requete]
      /\ \A p \in Requetes :
            (Fc!Suit(req[p]) /\ (avertissement = p <=> Fc!En(p, "avertissement")))'
  BY <1>1, <1>2, <1>3, GardeFacturation
<1>5. avertissement' \in {"absent", "envoye"} \cup Requetes
  BY DEF Fc!IInv, Fc!TypeOK
<1>6. Fc!TypeOK'
  BY <1>1, <1>4, <1>5 DEF Fc!IInv, Fc!TypeOK
<1> QED BY <1>1, <1>4, <1>6 DEF Fc!IInv

LEMMA PasInterrompre ==
    ASSUME Fc!Domaines, Fc!IInv, NEW q \in Requetes, Fc!Interrompre(q)
    PROVE  Fc!IInv'
<1>1. /\ avertissement' = IF avertissement = q THEN "absent" ELSE avertissement
      /\ Fc!Garder(q, Fc!Libre) /\ UNCHANGED <<Fc!externe, abonnement, souscriptions>>
      /\ envois' = envois /\ pannes' = pannes
  BY DEF Fc!Interrompre, Fc!Finir
<1>2. q # "absent" /\ q # "envoye"
  BY DEF Fc!Domaines
<1>3. envois' \in Nat /\ pannes' \in 0..MaxPannes
  BY <1>1 DEF Fc!IInv, Fc!TypeOK
<1>4. envois' = pannes' + (IF avertissement' = "envoye" THEN 1 ELSE 0)
  BY <1>1, <1>2 DEF Fc!IInv
<1> QED BY <1>1, <1>2, <1>3, <1>4, LibreVaut, PasLigne

LEMMA PasLireAvertir ==
    ASSUME Fc!Domaines, Fc!IInv, NEW q \in Requetes, Fc!LireAvertir(q)
    PROVE  Fc!IInv'
<1>1. PICK r : r = [etat |-> "avertir"]
  OBVIOUS
<1>2. r \in Fc!Requete /\ r.etat = "avertir"
  BY <1>1 DEF Fc!Requete
<1>3. Fc!Suit(r)
  BY <1>2 DEF Fc!Suit, Fc!Suivent
<1> QED BY <1>1, <1>2, <1>3, Lecture DEF Fc!LireAvertir, Fc!En

LEMMA PasInscrire ==
    ASSUME Fc!Domaines, Fc!IInv, NEW q \in Requetes, Fc!Inscrire(q)
    PROVE  Fc!IInv'
<1>1. PICK r : r = [etat |-> "avertissement"]
  OBVIOUS
<1>2. r \in Fc!Requete /\ r.etat = "avertissement"
  BY <1>1 DEF Fc!Requete
<1>3. /\ avertissement = "absent" /\ avertissement' = q /\ Fc!Garder(q, r)
      /\ UNCHANGED <<Fc!externe, abonnement, souscriptions>> /\ envois' = envois /\ pannes' = pannes
  BY <1>1 DEF Fc!Inscrire
<1>4. q # "absent" /\ q # "envoye" /\ \A p \in Requetes : p # "absent"
  BY DEF Fc!Domaines
<1>5. envois' \in Nat /\ pannes' \in 0..MaxPannes
  BY <1>3 DEF Fc!IInv, Fc!TypeOK
<1>6. envois' = pannes' + (IF avertissement' = "envoye" THEN 1 ELSE 0)
  BY <1>3, <1>4 DEF Fc!IInv
<1> QED BY <1>2, <1>3, <1>4, <1>5, <1>6, PasLigne

LEMMA PasAvertir ==
    ASSUME Fc!Domaines, Fc!IInv, NEW q \in Requetes, Fc!Avertir(q) \/ Fc!AvertirPerdu(q)
    PROVE  Fc!IInv'
<1>1. avertissement = q /\ q # "absent" /\ q # "envoye"
  BY DEF Fc!Avertir, Fc!AvertirPerdu, Fc!IInv, Fc!Domaines
<1>2. /\ Fc!Garder(q, Fc!Libre) /\ UNCHANGED <<Fc!externe, abonnement, souscriptions>>
      /\ envois' = envois + 1
  BY DEF Fc!Avertir, Fc!AvertirPerdu, Fc!Finir
<1>3. /\ envois = pannes /\ pannes \in 0..MaxPannes /\ MaxPannes \in Nat
  BY <1>1 DEF Fc!IInv, Fc!TypeOK, Fc!Domaines
<1>4. CASE Fc!Avertir(q)
  <2>1. avertissement' = "envoye" /\ pannes' = pannes
    BY <1>4 DEF Fc!Avertir
  <2>2. envois' \in Nat /\ envois' = pannes' + (IF avertissement' = "envoye" THEN 1 ELSE 0)
    BY <1>2, <1>3, <2>1
  <2> QED BY <1>1, <1>2, <1>3, <2>1, <2>2, LibreVaut, PasLigne
<1>5. CASE Fc!AvertirPerdu(q)
  <2>1. avertissement' = "absent" /\ pannes' = pannes + 1 /\ pannes < MaxPannes
    BY <1>5 DEF Fc!AvertirPerdu
  <2>2. /\ envois' \in Nat /\ pannes' \in 0..MaxPannes
        /\ envois' = pannes' + (IF avertissement' = "envoye" THEN 1 ELSE 0)
    BY <1>2, <1>3, <2>1
  <2> QED BY <1>1, <1>2, <2>1, <2>2, LibreVaut, PasLigne
<1> QED BY <1>4, <1>5

LEMMA PasExploitant ==
    ASSUME Fc!Domaines, Fc!IInv, NEW m \in Modules, NEW t \in {"ACTIF", "RESILIE"},
           Fc!Exploitant(m, t)
    PROVE  Fc!IInv'
<1>1. PICK e : e = (souscriptions[m] # NUL /\ souscriptions[m].element)
  OBVIOUS
<1>2. PICK w : w = [statut |-> t, source |-> "ADMIN", element |-> e, finEssai |-> NUL,
                    finAcces |-> NUL]
  OBVIOUS
<1>3. /\ souscriptions' = [souscriptions EXCEPT ![m] = w]
      /\ UNCHANGED <<periode, stripe, sessions, evenements, promesses>>
      /\ UNCHANGED <<abonnement, avertissement, envois, pannes, req>>
  BY <1>1, <1>2 DEF Fc!Exploitant, Fc!externe
<1>4. w \in Fc!Souscription
  <2>1. e \in BOOLEAN
    BY <1>1
  <2> QED BY <1>2, <2>1 DEF Fc!Souscription
<1>5. souscriptions' \in Fc!Lignes
  BY <1>3, <1>4 DEF Fc!IInv, Fc!TypeOK, Fc!Lignes
<1>6. Fc!TypeOK'
  BY <1>3, <1>5 DEF Fc!IInv, Fc!TypeOK
<1> QED BY <1>3, <1>6 DEF Fc!IInv, Fc!Suit, Fc!En

(***************************************************************************)
(* The warning                                                             *)
(***************************************************************************)
LEMMA Depart == ASSUME Fc!Domaines, Fc!Init PROVE Fc!IInv
<1>1. req \in [Requetes -> Fc!Requete] /\ \A q \in Requetes : req[q].etat = "libre"
  BY LibreVaut DEF Fc!Init
<1>2. stripe = <<>> /\ evenements = <<>> /\ Len(stripe) = 0 /\ Len(evenements) = 0
  BY DEF Fc!Init
<1>3. stripe \in Seq(Fc!Stripe) /\ evenements \in Seq(0..MaxEvenements)
  BY <1>2
<1>4. 0 \in Fc!Periode /\ souscriptions \in Fc!Lignes
  BY DEF Fc!Init, Fc!Periode, Fc!Lignes, Fc!Domaines
<1>5. Fc!TypeOK
  BY <1>1, <1>2, <1>3, <1>4 DEF Fc!Init, Fc!TypeOK, Fc!Domaines
<1>6. \A q \in Requetes : Fc!Suit(req[q]) /\ (avertissement = q <=> Fc!En(q, "avertissement"))
  BY <1>1 DEF Fc!Init, Fc!Suit, Fc!Suivent, Fc!En, Fc!Domaines
<1> QED BY <1>2, <1>5, <1>6 DEF Fc!Init, Fc!IInv

LEMMA Repos == ASSUME Fc!IInv, UNCHANGED Fc!vars PROVE Fc!IInv'
<1>1. /\ UNCHANGED <<periode, stripe, sessions, evenements, promesses, req>>
      /\ UNCHANGED <<abonnement, souscriptions, avertissement, envois, pannes>>
  BY DEF Fc!vars, Fc!externe, Fc!serveur
<1>2. Fc!TypeOK'
  BY <1>1 DEF Fc!IInv, Fc!TypeOK
<1> QED BY <1>1, <1>2 DEF Fc!IInv, Fc!Suit, Fc!En

LEMMA Pas == ASSUME Fc!Domaines, Fc!IInv, Fc!Next PROVE Fc!IInv'
<1>1. CASE Fc!Externe
  BY <1>1, PasFinPeriode, PasPayer, PasAbandonner DEF Fc!Externe
<1>2. CASE \E m \in Modules, statut \in {"ACTIF", "RESILIE"} : Fc!Exploitant(m, statut)
  BY <1>2, PasExploitant
<1>3. ASSUME NEW q \in Requetes, Fc!Gestes(q) PROVE Fc!IInv'
  BY <1>3, PasSouscription, PasDemarrer, PasRelire, PasLireAjout, PasLireResiliation,
     PasLireReprise, PasAjouter, PasResilier, PasRelecture, PasReprendre DEF Fc!Gestes
<1>4. ASSUME NEW q \in Requetes, Fc!Synchronisation(q) PROVE Fc!IInv'
  BY <1>4, PasRelire, PasSynchroniser, PasChanger, PasConclure DEF Fc!Synchronisation
<1>5. ASSUME NEW q \in Requetes, Fc!Avertissement(q) \/ Fc!Interrompre(q) PROVE Fc!IInv'
  BY <1>5, PasLireAvertir, PasInscrire, PasAvertir, PasInterrompre DEF Fc!Avertissement
<1> QED BY <1>1, <1>2, <1>3, <1>4, <1>5 DEF Fc!Next

\* At any concurrency, what a request follows exists, and one warning at most
\* is counted besides those whose transaction was lost.
THEOREM InvarianceFacturation == ASSUME Fc!Domaines PROVE Fc!Spec => []Fc!IInv
<1>1. Fc!Init => Fc!IInv
  BY Depart
<1>2. Fc!IInv /\ [Fc!Next]_Fc!vars => Fc!IInv'
  BY Pas, Repos
<1> QED BY <1>1, <1>2, PTL DEF Fc!Spec

\* avertirFinEssai: whatever runs at once, and whatever fails, one warning
\* leaves, and one more for each transaction lost after its own had left.
THEOREM AvertissementUnique == ASSUME Fc!Domaines PROVE Fc!Spec => []Fc!AvertiUneFois
<1>1. Fc!IInv => Fc!AvertiUneFois
  <2>1. ASSUME Fc!IInv PROVE Fc!AvertiUneFois
    <3>1. pannes \in Nat /\ envois \in Nat
      BY <2>1 DEF Fc!IInv, Fc!TypeOK, Fc!Domaines
    <3>2. envois = pannes \/ envois = pannes + 1
      BY <2>1, <3>1 DEF Fc!IInv
    <3> QED BY <3>1, <3>2 DEF Fc!AvertiUneFois
  <2> QED BY <2>1
<1> QED BY <1>1, InvarianceFacturation, PTL

(***************************************************************************)
(* One request at a time: the server is where Stripe is                    *)
(***************************************************************************)
LEMMA Seule ==
    ASSUME UneALaFois, Fc!IInv, NEW q \in Requetes, NEW r, Fc!Garder(q, r)
    PROVE  \A p \in Requetes : p = q /\ req'[p] = r
BY DEF Fc!IInv, Fc!TypeOK, Fc!Garder, UneALaFois

LEMMA Premiere ==
    ASSUME Fc!Domaines, Fc!IInv, Len(stripe) = 1
    PROVE  /\ DOMAIN stripe = {1} /\ stripe[1] \in Fc!Stripe
           /\ evenements[1] \in 0..MaxEvenements /\ MaxEvenements \in Nat
           /\ evenements[1] \in Nat
BY Faits

\* A request reads, and what it keeps is so.
LEMMA SerieLecture ==
    ASSUME UneALaFois, Fc!SInv, Fc!IInv', NEW q \in Requetes, NEW r, Fc!Garder(q, r),
           UNCHANGED <<stripe, evenements, abonnement, souscriptions>>,
           Len(stripe) = 1 => Fc!Actuel(r)
    PROVE  Fc!SInv'
<1>1. Fc!Rattachees'
  BY DEF Fc!SInv, Fc!Rattachees, Fc!Facture
<1>2. ASSUME Len(stripe') = 1 PROVE evenements'[1] = 0 => Fc!Alignee'
  BY <1>2 DEF Fc!SInv, Fc!Alignee, Fc!Aligne
<1>3. ASSUME Len(stripe') = 1, NEW p \in Requetes PROVE Fc!Actuel(req[p])'
  <2>1. req'[p] = r
    BY Seule DEF Fc!SInv
  <2>2. Fc!Actuel(r)'
    BY <1>3 DEF Fc!Actuel, Fc!Attendus, Fc!Aligne
  <2> QED BY <2>1, <2>2
<1> QED BY <1>1, <1>2, <1>3 DEF Fc!SInv

LEMMA LibreActuel == Fc!Actuel(Fc!Libre)
BY LibreVaut DEF Fc!Actuel

LEMMA SerieFinPeriode ==
    ASSUME Fc!Domaines, Fc!SInv, Fc!IInv', NEW encaisse \in BOOLEAN, Fc!FinPeriode(encaisse)
    PROVE  Fc!SInv'
<1>1. /\ stripe' = [s \in DOMAIN stripe |-> Fc!Echoit(s, encaisse)]
      /\ evenements' = [s \in DOMAIN evenements |->
             IF s \in {t \in DOMAIN stripe : stripe[t].statut \in Fc!Vivants}
             THEN evenements[s] + 1 ELSE evenements[s]]
      /\ UNCHANGED <<abonnement, souscriptions, req>>
  BY DEF Fc!FinPeriode, Fc!serveur
<1>2. Fc!Rattachees'
  BY <1>1 DEF Fc!SInv, Fc!Rattachees, Fc!Facture
<1>3. ASSUME Len(stripe') = 1
      PROVE  (\A p \in Requetes : Fc!Actuel(req[p])') /\ (evenements'[1] = 0 => Fc!Alignee')
  <2>1. PICK n \in Nat : n = Len(stripe) /\ DOMAIN stripe = 1..n /\ DOMAIN evenements = 1..n
    BY Faits DEF Fc!SInv
  <2>2. PICK k \in Nat : k = Len(stripe') /\ DOMAIN stripe' = 1..k
    BY DEF Fc!IInv, Fc!TypeOK
  <2>3. n = 1
    BY <1>1, <1>3, <2>1, <2>2
  <2>4. /\ stripe[1] \in Fc!Stripe /\ evenements[1] \in Nat
        /\ \A p \in Requetes : Fc!Actuel(req[p])
        /\ evenements[1] = 0 => Fc!Alignee
    BY <2>1, <2>3, Premiere DEF Fc!SInv
  <2>5. CASE stripe[1].statut = "canceled"
    <3>1. stripe'[1] = stripe[1] /\ evenements'[1] = evenements[1]
      BY <1>1, <2>1, <2>3, <2>5 DEF Fc!Echoit, Fc!Vivants
    <3>2. evenements'[1] = 0 => Fc!Alignee'
      BY <1>1, <2>4, <3>1 DEF Fc!Alignee, Fc!Aligne
    <3>3. ASSUME NEW p \in Requetes PROVE Fc!Actuel(req[p])'
      <4>1. PICK o : o = req[p] /\ o = req'[p]
        BY <1>1
      <4>2. Fc!Actuel(o)
        BY <2>4, <4>1
      <4>3. Fc!Actuel(o)'
        BY <1>1, <3>1, <4>2 DEF Fc!Actuel, Fc!Attendus, Fc!Aligne
      <4> QED BY <4>1, <4>3
    <3> QED BY <3>2, <3>3
  <2>6. CASE stripe[1].statut # "canceled"
    <3>1. evenements'[1] = evenements[1] + 1
      BY <1>1, <2>1, <2>3, <2>4, <2>6 DEF Fc!Stripe, Fc!StatutStripe, Fc!Vivants
    <3>2. evenements'[1] # 0
      BY <2>4, <3>1
    <3>3. ASSUME NEW p \in Requetes PROVE Fc!Actuel(req[p])'
      <4>1. PICK o : o = req[p] /\ o = req'[p]
        BY <1>1
      <4>2. Fc!Actuel(o)
        BY <2>4, <4>1
      <4>3. Fc!Attendus(o)' = Fc!Attendus(o) + 1
        <5>1. CASE o.evenement
          BY <2>4, <3>1, <5>1 DEF Fc!Attendus
        <5>2. CASE ~o.evenement
          BY <2>4, <3>1, <5>2 DEF Fc!Attendus
        <5> QED BY <5>1, <5>2
      <4>4. Fc!Attendus(o) \in Int
        BY <2>4 DEF Fc!Attendus
      <4>5. Fc!Attendus(o) >= 0 => Fc!Attendus(o)' >= 0 /\ Fc!Attendus(o)' # 0
        BY <4>3, <4>4
      <4>6. Fc!Actuel(o)'
        BY <1>1, <4>2, <4>5 DEF Fc!Actuel
      <4> QED BY <4>1, <4>6
    <3> QED BY <3>2, <3>3
  <2> QED BY <2>5, <2>6
<1> QED BY <1>2, <1>3 DEF Fc!SInv

LEMMA SeriePayer ==
    ASSUME Fc!Domaines, Fc!SInv, Fc!IInv', NEW session \in sessions, Fc!Payer(session)
    PROVE  Fc!SInv'
<1>1. PICK z : /\ stripe' = Append(stripe, z) /\ evenements' = Append(evenements, 1)
               /\ UNCHANGED <<abonnement, souscriptions, req>>
  BY DEF Fc!Payer, Fc!serveur
<1>2. Fc!Rattachees'
  BY <1>1 DEF Fc!SInv, Fc!Rattachees, Fc!Facture
<1>3. ASSUME Len(stripe') = 1
      PROVE  (\A p \in Requetes : Fc!Actuel(req[p])') /\ (evenements'[1] = 0 => Fc!Alignee')
  <2>1. /\ Len(stripe) = 0 /\ DOMAIN stripe = {} /\ Len(evenements) = 0
    BY <1>1, <1>3 DEF Fc!SInv, Fc!IInv, Fc!TypeOK
  <2>2. evenements'[1] = 1
    BY <1>1, <2>1 DEF Fc!SInv, Fc!IInv, Fc!TypeOK
  <2>3. ASSUME NEW p \in Requetes PROVE Fc!Actuel(req[p])'
    <3>1. req[p].etat \notin Fc!Suivent
      BY <2>1 DEF Fc!SInv, Fc!IInv, Fc!Suit
    <3>2. req'[p] = req[p]
      BY <1>1
    <3> QED BY <3>1, <3>2 DEF Fc!Actuel, Fc!Suivent
  <2> QED BY <2>2, <2>3
<1> QED BY <1>2, <1>3 DEF Fc!SInv

LEMMA SerieAbandonner ==
    ASSUME Fc!SInv, Fc!IInv', UNCHANGED <<stripe, evenements, abonnement, souscriptions, req>>
    PROVE  Fc!SInv'
<1>1. Fc!Rattachees'
  BY DEF Fc!SInv, Fc!Rattachees, Fc!Facture
<1>2. ASSUME Len(stripe') = 1 PROVE evenements'[1] = 0 => Fc!Alignee'
  BY <1>2 DEF Fc!SInv, Fc!Alignee, Fc!Aligne
<1>3. ASSUME Len(stripe') = 1, NEW p \in Requetes PROVE Fc!Actuel(req[p])'
  <2>1. PICK o : o = req[p] /\ o = req'[p]
    OBVIOUS
  <2>2. Fc!Actuel(o)
    BY <1>3, <2>1 DEF Fc!SInv
  <2>3. Fc!Actuel(o)'
    BY <2>2 DEF Fc!Actuel, Fc!Attendus, Fc!Aligne
  <2> QED BY <2>1, <2>3
<1> QED BY <1>1, <1>2, <1>3 DEF Fc!SInv

\* A subscription changes: an event is to come.
LEMMA SerieStripe ==
    ASSUME Fc!Domaines, UneALaFois, Fc!SInv, Fc!IInv', NEW q \in Requetes, NEW r,
           NEW s \in DOMAIN stripe,
           NEW z, stripe' = [stripe EXCEPT ![s] = z], Fc!Emet(s), UNCHANGED Fc!serveur,
           Fc!Garder(q, r),
           r.etat \in {"relecture", "lu"}, r.evenement = FALSE
    PROVE  Fc!SInv'
<1>1. UNCHANGED <<abonnement, souscriptions>>
  BY DEF Fc!serveur
<1>2. Fc!Rattachees'
  BY <1>1 DEF Fc!SInv, Fc!Rattachees, Fc!Facture
<1>3. ASSUME Len(stripe') = 1
      PROVE  (\A p \in Requetes : Fc!Actuel(req[p])') /\ (evenements'[1] = 0 => Fc!Alignee')
  <2>1. Len(stripe) = 1
    <3>1. PICK n \in Nat : n = Len(stripe) /\ DOMAIN stripe = 1..n
      BY Faits DEF Fc!SInv
    <3>2. PICK k \in Nat : k = Len(stripe') /\ DOMAIN stripe' = 1..k
      BY DEF Fc!IInv, Fc!TypeOK
    <3>3. DOMAIN stripe' = DOMAIN stripe
      OBVIOUS
    <3> QED BY <1>3, <3>1, <3>2, <3>3
  <2>2. s = 1 /\ evenements[1] \in Nat
    BY <2>1, Premiere DEF Fc!SInv
  <2>3. DOMAIN evenements = 1..1
    BY <2>1, Faits DEF Fc!SInv
  <2>4. evenements'[1] = evenements[1] + 1
    BY <2>2, <2>3 DEF Fc!Emet
  <2>5. Fc!Attendus(r)' = evenements[1] + 1
    BY <2>2, <2>4 DEF Fc!Attendus
  <2>6. Fc!Attendus(r)' >= 0 /\ Fc!Attendus(r)' # 0 /\ evenements'[1] # 0
    BY <2>2, <2>4, <2>5
  <2>7. Fc!Actuel(r)'
    BY <2>6 DEF Fc!Actuel
  <2>8. ASSUME NEW p \in Requetes PROVE Fc!Actuel(req[p])'
    <3>1. req'[p] = r
      BY Seule DEF Fc!SInv
    <3> QED BY <2>7, <3>1
  <2> QED BY <2>6, <2>8
<1> QED BY <1>2, <1>3 DEF Fc!SInv

LEMMA SerieDemarrer ==
    ASSUME Fc!Domaines, UneALaFois, Fc!SInv, Fc!IInv', NEW q \in Requetes, Fc!Demarrer(q)
    PROVE  Fc!SInv'
<1>1. /\ Fc!Garder(q, Fc!Libre) /\ UNCHANGED <<stripe, evenements, souscriptions>>
      /\ abonnement # NUL => abonnement' = abonnement
  BY DEF Fc!Demarrer, Fc!Finir
<1>2. Fc!Rattachees'
  BY <1>1 DEF Fc!SInv, Fc!Rattachees, Fc!Facture
<1>3. ASSUME Len(stripe') = 1 PROVE evenements'[1] = 0 => Fc!Alignee'
  BY <1>1, <1>3 DEF Fc!SInv, Fc!Alignee, Fc!Aligne
<1>4. ASSUME NEW p \in Requetes PROVE Fc!Actuel(req[p])'
  <2>1. req'[p] = Fc!Libre
    BY <1>1, Seule DEF Fc!SInv
  <2> QED BY <2>1, LibreVaut DEF Fc!Actuel
<1> QED BY <1>2, <1>3, <1>4 DEF Fc!SInv

LEMMA SerieSynchroniser ==
    ASSUME Fc!Domaines, UneALaFois, Fc!SInv, Fc!IInv', NEW q \in Requetes, Fc!Synchroniser(q)
    PROVE  Fc!SInv'
<1>1. PICK o \in Fc!Requete : o = req[q] /\ o.etat = "lu"
  BY DEF Fc!Synchroniser, Fc!En, Fc!SInv, Fc!IInv, Fc!TypeOK
<1>2. PICK C : C = {m \in Modules : Fc!Facture(m) /\ souscriptions[m].statut # "RESILIE"}
  OBVIOUS
<1>3. PICK S, R : S = souscriptions /\ R = o.vu.elements \cup C
  OBVIOUS
<1>4. PICK r : r = [etat |-> "modules", s |-> o.s, vu |-> o.vu, evenement |-> o.evenement,
                    resilie |-> o.resilie, finAcces |-> o.finAcces, avant |-> S, reste |-> R]
  OBVIOUS
<1>5. /\ Fc!Garder(q, r) /\ UNCHANGED <<stripe, evenements, souscriptions>>
      /\ abonnement' = [id |-> o.s, statut |-> o.vu.statut,
                        essai |-> abonnement.essai \/ o.vu.statut = "trialing"]
  BY <1>1, <1>2, <1>3, <1>4 DEF Fc!Synchroniser, Fc!externe
<1>6. Fc!Rattachees'
  BY <1>5 DEF Fc!SInv, Fc!Rattachees, Fc!Facture
<1>7. ASSUME Len(stripe') = 1
      PROVE  (\A p \in Requetes : Fc!Actuel(req[p])') /\ (evenements'[1] = 0 => Fc!Alignee')
  <2>1. Len(stripe) = 1 /\ evenements[1] \in Nat
    BY <1>5, <1>7, Premiere DEF Fc!SInv
  <2>2. Fc!Actuel(o) /\ (evenements[1] = 0 => Fc!Alignee)
    BY <1>1, <2>1 DEF Fc!SInv
  <2>3. o.s = 1
    BY <1>1, <2>1, Premiere DEF Fc!SInv, Fc!IInv, Fc!Suit, Fc!Suivent
  <2>4. abonnement'.id = 1 /\ abonnement'.statut = o.vu.statut
    BY <1>5, <2>3
  <2>5. abonnement' # NUL
    <3>1. req'[q] = r
      BY <1>5, Seule DEF Fc!SInv
    <3>2. r.etat \in Fc!Suivent
      BY <1>4 DEF Fc!Suivent
    <3> QED BY <3>1, <3>2 DEF Fc!IInv, Fc!Suit
  <2>6. Fc!Attendus(r)' = Fc!Attendus(o) /\ (evenements[1] = 0 => Fc!Attendus(o) <= 0)
    <3>1. Fc!Attendus(r)' = Fc!Attendus(o)
      BY <1>4, <1>5 DEF Fc!Attendus
    <3>2. evenements[1] = 0 => Fc!Attendus(o) <= 0
      BY <2>1 DEF Fc!Attendus
    <3> QED BY <3>1, <3>2
  <2>7. Fc!Attendus(o) \in Int /\ Fc!Attendus(o) >= 0 /\ (Fc!Attendus(o) = 0 => o.vu = stripe[1])
    <3>1. Fc!Attendus(o) \in Int
      BY <2>1 DEF Fc!Attendus
    <3> QED BY <1>1, <2>2, <3>1 DEF Fc!Actuel
  <2>8. evenements'[1] = 0 => Fc!Alignee'
    <3>1. ASSUME evenements'[1] = 0 PROVE Fc!Alignee'
      <4>1. evenements[1] = 0 /\ o.vu = stripe[1]
        BY <1>5, <2>6, <2>7, <3>1
      <4>2. \A m \in Modules : Fc!Aligne(m)'
        BY <1>5, <2>2, <4>1 DEF Fc!Alignee, Fc!Aligne
      <4> QED BY <1>5, <2>4, <2>5, <4>1, <4>2 DEF Fc!Alignee
    <3> QED BY <3>1
  <2>9. ASSUME Fc!Attendus(o) = 0, NEW m \in Modules \ R PROVE Fc!Aligne(m)'
    <3>1. o.vu = stripe[1]
      BY <2>7, <2>9
    <3>2. m \notin stripe[1].elements /\ m \notin C
      BY <1>3, <3>1
    <3>3. souscriptions[m] # NUL /\ souscriptions[m].source = "STRIPE" => ~souscriptions[m].element
      BY <1>2, <3>2 DEF Fc!SInv, Fc!Rattachees, Fc!Facture
    <3> QED BY <1>5, <3>2, <3>3 DEF Fc!Aligne
  <2>10. Fc!Actuel(r)'
    <3>1. r.etat = "modules" /\ r.reste = R /\ r.vu = o.vu
      BY <1>4
    <3>2. Fc!Attendus(r)' >= 0 /\ (Fc!Attendus(r)' = 0 => r.vu = stripe'[1])
      BY <1>5, <2>6, <2>7, <3>1
    <3>3. Fc!Attendus(r)' = 0 => \A m \in Modules \ r.reste : Fc!Aligne(m)'
      BY <2>6, <2>9, <3>1
    <3> QED BY <2>4, <3>1, <3>2, <3>3 DEF Fc!Actuel
  <2>11. ASSUME NEW p \in Requetes PROVE Fc!Actuel(req[p])'
    <3>1. req'[p] = r
      BY <1>5, Seule DEF Fc!SInv
    <3> QED BY <2>10, <3>1
  <2> QED BY <2>8, <2>11
<1> QED BY <1>6, <1>7 DEF Fc!SInv

\* What a row becomes, as far as Stripe is concerned.
LEMMA Changement ==
    ASSUME NEW a \in Fc!Souscription \cup {NUL}, NEW v \in Fc!Souscription, NEW w,
           w = Fc!Changee(a, v)
    PROVE  /\ w \in Fc!Souscription /\ w.element = v.element
           /\ w.statut = v.statut /\ w.finAcces = v.finAcces
BY DEF Fc!Changee, Fc!Souscription

LEMMA Voulue ==
    ASSUME Fc!Domaines, NEW o \in Fc!Requete, o.etat = "modules", NEW m \in Modules,
           NEW v \in Fc!Souscription,
           v = IF m \in o.vu.elements THEN Fc!Chargee(o, m) ELSE Fc!Retiree(o, m)
    PROVE  /\ v.element => v.statut # "RESILIE"
           /\ m \notin o.vu.elements => ~v.element
           /\ m \in o.vu.elements =>
                 /\ v.statut = Fc!StatutModule(o.vu.statut)
                 /\ v.element <=> v.statut # "RESILIE"
                 /\ v.finAcces # NUL <=> o.vu.annulation /\ v.statut # "RESILIE"
                 /\ v.statut = "ESSAI" => v.finEssai = o.vu.fin
<1>1. o.vu \in Fc!Stripe
  BY Formes
<1>2. o.vu.fin # NUL /\ o.vu.fin \in Fc!Periode
  BY <1>1 DEF Fc!Stripe, Fc!Periode, Fc!Domaines
<1>3. CASE m \in o.vu.elements
  <2>1. v = Fc!Chargee(o, m)
    BY <1>3
  <2>2. /\ v.statut = Fc!StatutModule(o.vu.statut) /\ v.element = (v.statut # "RESILIE")
        /\ v.finEssai = IF v.statut = "ESSAI" THEN o.vu.fin ELSE NUL
        /\ v.finAcces = IF o.vu.annulation /\ v.statut # "RESILIE" THEN o.vu.fin ELSE NUL
    BY <2>1 DEF Fc!Chargee
  <2> QED BY <1>2, <1>3, <2>2
<1>4. CASE m \notin o.vu.elements
  <2>1. v = Fc!Retiree(o, m)
    BY <1>4
  <2>2. v.element = FALSE
    <3>1. PICK f, a : \/ v = [a EXCEPT !.source = "STRIPE", !.element = FALSE, !.finAcces = f]
                      \/ v = [statut |-> "RESILIE", source |-> "STRIPE", element |-> FALSE,
                              finEssai |-> NUL, finAcces |-> NUL]
      BY <2>1 DEF Fc!Retiree
    <3>2. CASE v = [a EXCEPT !.source = "STRIPE", !.element = FALSE, !.finAcces = f]
      BY <3>2 DEF Fc!Souscription
    <3>3. CASE v = [statut |-> "RESILIE", source |-> "STRIPE", element |-> FALSE,
                    finEssai |-> NUL, finAcces |-> NUL]
      BY <3>3
    <3> QED BY <3>1, <3>2, <3>3
  <2> QED BY <1>4, <2>2
<1> QED BY <1>3, <1>4

LEMMA SerieChanger ==
    ASSUME Fc!Domaines, UneALaFois, Fc!SInv, Fc!IInv', NEW q \in Requetes, NEW m \in Modules,
           Fc!ChangerModule(q, m)
    PROVE  Fc!SInv'
<1>1. PICK o \in Fc!Requete : o = req[q]
  BY DEF Fc!SInv, Fc!IInv, Fc!TypeOK
<1>2. /\ o.etat = "modules" /\ m \in o.reste /\ o.s \in DOMAIN stripe /\ abonnement # NUL
      /\ Fc!Garder(q, [o EXCEPT !.reste = @ \ {m}]) /\ Effet(o, m)
      /\ UNCHANGED <<periode, stripe, evenements, abonnement>>
  BY <1>1, Change DEF Fc!SInv
<1>3. PICK v \in Fc!Souscription :
         /\ v = IF m \in o.vu.elements THEN Fc!Chargee(o, m) ELSE Fc!Retiree(o, m)
         /\ \/ /\ m \in o.vu.elements /\ v.statut = "ESSAI" /\ v.finEssai <= periode
               /\ souscriptions' = souscriptions
            \/ /\ ~(v.statut = "ESSAI" /\ v.finEssai <= periode)
               /\ souscriptions' = [souscriptions EXCEPT ![m] = Fc!Changee(souscriptions[m], v)]
  BY <1>2 DEF Effet
<1>4. souscriptions \in Fc!Lignes /\ souscriptions[m] \in Fc!Souscription \cup {NUL}
  BY DEF Fc!SInv, Fc!IInv, Fc!TypeOK, Fc!Lignes
<1>5. PICK w \in Fc!Souscription :
         /\ w = Fc!Changee(souscriptions[m], v) /\ w.element = v.element
         /\ w.statut = v.statut /\ w.finAcces = v.finAcces
  BY <1>4, Changement
<1>6. /\ v.element => v.statut # "RESILIE"
      /\ m \notin o.vu.elements => ~v.element
      /\ m \in o.vu.elements =>
            /\ v.statut = Fc!StatutModule(o.vu.statut)
            /\ v.element <=> v.statut # "RESILIE"
            /\ v.finAcces # NUL <=> o.vu.annulation /\ v.statut # "RESILIE"
            /\ v.statut = "ESSAI" => v.finEssai = o.vu.fin
  BY <1>2, <1>3, Voulue
<1>7. \/ souscriptions' = souscriptions
      \/ souscriptions' = [souscriptions EXCEPT ![m] = w]
  BY <1>3, <1>5
<1>8. \A p \in Modules : p # m => souscriptions'[p] = souscriptions[p]
  BY <1>4, <1>7 DEF Fc!Lignes
<1>9. souscriptions'[m] = souscriptions[m] \/ souscriptions'[m] = w
  BY <1>4, <1>7 DEF Fc!Lignes
<1>10. Fc!Rattachees'
  <2>1. ASSUME NEW p \in Modules, souscriptions'[p].element, souscriptions'[p] # NUL,
               souscriptions'[p].source = "STRIPE"
        PROVE  souscriptions'[p].statut # "RESILIE"
    <3>1. CASE souscriptions'[p] = souscriptions[p]
      BY <2>1, <3>1 DEF Fc!SInv, Fc!Rattachees, Fc!Facture
    <3>2. CASE p = m /\ souscriptions'[p] = w
      BY <1>5, <1>6, <2>1, <3>2
    <3> QED BY <1>8, <1>9, <3>1, <3>2
  <2> QED BY <2>1 DEF Fc!Rattachees, Fc!Facture
<1>11. ASSUME Len(stripe') = 1
       PROVE  (\A p \in Requetes : Fc!Actuel(req[p])') /\ (evenements'[1] = 0 => Fc!Alignee')
  <2>1. /\ Len(stripe) = 1 /\ evenements[1] \in Nat /\ stripe[1] \in Fc!Stripe
        /\ DOMAIN stripe = {1}
    BY <1>2, <1>11, Premiere DEF Fc!SInv
  <2>2. Fc!Actuel(o) /\ (evenements[1] = 0 => Fc!Alignee)
    BY <1>1, <2>1 DEF Fc!SInv
  <2>3. PICK r : r = [o EXCEPT !.reste = @ \ {m}]
    OBVIOUS
  <2>4. /\ r.etat = "modules" /\ r.s = o.s /\ r.vu = o.vu /\ r.reste = o.reste \ {m}
        /\ r.evenement = o.evenement
    BY <1>2, <2>3 DEF Fc!Requete
  <2>5. /\ Fc!Attendus(r)' = Fc!Attendus(o) /\ Fc!Attendus(o) \in Int /\ Fc!Attendus(o) >= 0
        /\ evenements[1] = 0 => Fc!Attendus(o) = 0
    <3>1. Fc!Attendus(r)' = Fc!Attendus(o)
      BY <1>2, <2>4 DEF Fc!Attendus
    <3>2. Fc!Attendus(o) \in Int /\ (evenements[1] = 0 => Fc!Attendus(o) <= 0)
      BY <2>1 DEF Fc!Attendus
    <3>3. Fc!Attendus(o) >= 0
      BY <1>2, <2>2 DEF Fc!Actuel
    <3> QED BY <3>1, <3>2, <3>3
  <2>6. Fc!Attendus(o) = 0 => o.vu = stripe[1]
    BY <1>2, <2>2 DEF Fc!Actuel
  <2>7. ASSUME Fc!Attendus(o) = 0 PROVE Fc!Aligne(m)'
    <3>1. o.vu = stripe[1]
      BY <2>6, <2>7
    <3>2. ~(m \in o.vu.elements /\ v.statut = "ESSAI" /\ v.finEssai <= periode)
      <4>1. SUFFICES ASSUME m \in o.vu.elements, v.statut = "ESSAI", v.finEssai <= periode
                     PROVE  FALSE
        OBVIOUS
      <4>2. stripe[1].statut = "trialing"
        BY <1>6, <3>1, <4>1 DEF Fc!StatutModule
      <4>3. periode < stripe[1].fin /\ periode \in Nat /\ stripe[1].fin \in Nat
        BY <2>1, <4>2 DEF Fc!SInv, Fc!IInv, Fc!TypeOK, Fc!Vivants, Fc!Stripe, Fc!Periode
      <4> QED BY <1>6, <3>1, <4>1, <4>3
    <3>3. souscriptions' = [souscriptions EXCEPT ![m] = w]
      BY <1>3, <1>5, <3>2
    <3>4. souscriptions'[m] = w
      BY <1>4, <3>3 DEF Fc!Lignes
    <3>5. IF m \in stripe[1].elements
          THEN /\ w.statut = Fc!StatutModule(stripe[1].statut)
               /\ w.element <=> w.statut # "RESILIE"
               /\ w.finAcces # NUL <=> stripe[1].annulation /\ w.statut # "RESILIE"
          ELSE ~w.element
      BY <1>5, <1>6, <3>1
    <3> QED BY <1>2, <3>4, <3>5 DEF Fc!Aligne
  <2>8. ASSUME NEW p \in Modules, p # m, Fc!Aligne(p) PROVE Fc!Aligne(p)'
    BY <1>2, <1>8, <2>8 DEF Fc!Aligne
  <2>9. evenements'[1] = 0 => Fc!Alignee'
    <3>1. ASSUME evenements'[1] = 0 PROVE Fc!Alignee'
      <4>1. Fc!Alignee /\ Fc!Attendus(o) = 0
        BY <1>2, <2>2, <2>5, <3>1
      <4>2. \A p \in Modules : Fc!Aligne(p)'
        BY <2>7, <2>8, <4>1 DEF Fc!Alignee
      <4> QED BY <1>2, <4>1, <4>2 DEF Fc!Alignee
    <3> QED BY <3>1
  <2>10. Fc!Actuel(r)'
    <3>1. Fc!Attendus(r)' >= 0 /\ (Fc!Attendus(r)' = 0 => r.vu = stripe'[1])
      BY <1>2, <2>4, <2>5, <2>6
    <3>2. abonnement'.id = 1 /\ abonnement'.statut = r.vu.statut
      BY <1>2, <2>2, <2>4 DEF Fc!Actuel
    <3>3. Fc!Attendus(r)' = 0 => \A p \in Modules \ r.reste : Fc!Aligne(p)'
      <4>1. ASSUME Fc!Attendus(o) = 0, NEW p \in Modules \ r.reste PROVE Fc!Aligne(p)'
        <5>1. CASE p = m
          BY <2>7, <4>1, <5>1
        <5>2. CASE p # m
          <6>1. Fc!Aligne(p)
            BY <1>2, <2>2, <2>4, <4>1, <5>2 DEF Fc!Actuel
          <6> QED BY <2>8, <5>2, <6>1
        <5> QED BY <5>1, <5>2
      <4> QED BY <2>5, <4>1
    <3> QED BY <2>4, <3>1, <3>2, <3>3 DEF Fc!Actuel
  <2>11. ASSUME NEW p \in Requetes PROVE Fc!Actuel(req[p])'
    <3>1. req'[p] = r
      BY <1>2, <2>3, Seule DEF Fc!SInv
    <3> QED BY <2>10, <3>1
  <2> QED BY <2>9, <2>11
<1> QED BY <1>10, <1>11 DEF Fc!SInv

LEMMA SerieConclure ==
    ASSUME Fc!Domaines, UneALaFois, Fc!SInv, Fc!IInv', NEW q \in Requetes, Fc!Conclure(q)
    PROVE  Fc!SInv'
<1>1. PICK o \in Fc!Requete : o = req[q] /\ o.etat = "modules" /\ o.reste = {}
  BY DEF Fc!Conclure, Fc!En, Fc!SInv, Fc!IInv, Fc!TypeOK
<1>2. /\ Fc!Garder(q, Fc!Libre) /\ UNCHANGED <<stripe, abonnement, souscriptions>>
      /\ evenements' = IF o.evenement /\ evenements[o.s] > 0
                       THEN [evenements EXCEPT ![o.s] = @ - 1] ELSE evenements
  BY <1>1 DEF Fc!Conclure, Fc!Finir, Fc!serveur
<1>3. Fc!Rattachees'
  BY <1>2 DEF Fc!SInv, Fc!Rattachees, Fc!Facture
<1>4. ASSUME Len(stripe') = 1, evenements'[1] = 0 PROVE Fc!Alignee'
  <2>1. Len(stripe) = 1 /\ evenements[1] \in Nat /\ DOMAIN evenements = 1..1
    BY <1>2, <1>4, Premiere, Faits DEF Fc!SInv
  <2>2. Fc!Actuel(o) /\ o.s = 1 /\ abonnement # NUL
    BY <1>1, <2>1, Premiere DEF Fc!SInv, Fc!IInv, Fc!Suit, Fc!Suivent
  <2>3. Fc!Attendus(o) = 0
    <3>1. CASE o.evenement
      <4>1. Fc!Attendus(o) = evenements[1] - 1 /\ Fc!Attendus(o) >= 0
        BY <1>1, <2>2, <3>1 DEF Fc!Attendus, Fc!Actuel
      <4>2. evenements' = [evenements EXCEPT ![1] = evenements[1] - 1]
        BY <1>2, <2>1, <2>2, <3>1, <4>1
      <4> QED BY <1>4, <2>1, <4>1, <4>2
    <3>2. CASE ~o.evenement
      BY <1>2, <1>4, <2>1, <3>2 DEF Fc!Attendus
    <3> QED BY <3>1, <3>2
  <2>4. /\ o.vu = stripe[1] /\ abonnement.id = 1 /\ abonnement.statut = o.vu.statut
        /\ \A m \in Modules : Fc!Aligne(m)
    BY <1>1, <2>2, <2>3 DEF Fc!Actuel
  <2> QED BY <1>2, <2>2, <2>4 DEF Fc!Alignee, Fc!Aligne
<1>5. ASSUME NEW p \in Requetes PROVE Fc!Actuel(req[p])'
  <2>1. req'[p] = Fc!Libre
    BY <1>2, Seule DEF Fc!SInv
  <2> QED BY <2>1, LibreVaut DEF Fc!Actuel
<1> QED BY <1>3, <1>4, <1>5 DEF Fc!SInv

\* The operator of the platform takes a module out of Stripe's hands.
LEMMA SerieExploitant ==
    ASSUME Fc!Domaines, Fc!SInv, Fc!IInv', NEW m \in Modules, NEW t \in {"ACTIF", "RESILIE"},
           Fc!Exploitant(m, t)
    PROVE  Fc!SInv'
<1>1. /\ UNCHANGED <<stripe, evenements, abonnement, req>>
      /\ \A p \in Modules : p # m => souscriptions'[p] = souscriptions[p]
      /\ souscriptions'[m].source = "ADMIN"
  <2>1. souscriptions \in Fc!Lignes
    BY DEF Fc!SInv, Fc!IInv, Fc!TypeOK
  <2> QED BY <2>1 DEF Fc!Exploitant, Fc!externe, Fc!Lignes
<1>2. Fc!Rattachees'
  <2>1. ASSUME NEW p \in Modules, souscriptions'[p].element, souscriptions'[p] # NUL,
               souscriptions'[p].source = "STRIPE"
        PROVE  souscriptions'[p].statut # "RESILIE"
    BY <1>1, <2>1 DEF Fc!SInv, Fc!Rattachees, Fc!Facture
  <2> QED BY <2>1 DEF Fc!Rattachees, Fc!Facture
<1>3. ASSUME NEW p \in Modules, Fc!Aligne(p) PROVE Fc!Aligne(p)'
  <2>1. CASE p = m
    BY <1>1, <2>1 DEF Fc!Aligne
  <2>2. CASE p # m
    BY <1>1, <1>3, <2>2 DEF Fc!Aligne
  <2> QED BY <2>1, <2>2
<1>4. ASSUME Len(stripe') = 1 PROVE evenements'[1] = 0 => Fc!Alignee'
  BY <1>1, <1>3, <1>4 DEF Fc!SInv, Fc!Alignee
<1>5. ASSUME Len(stripe') = 1, NEW p \in Requetes PROVE Fc!Actuel(req[p])'
  <2>1. PICK o : o = req[p] /\ o = req'[p]
    BY <1>1
  <2>2. Fc!Actuel(o)
    BY <1>1, <1>5, <2>1 DEF Fc!SInv
  <2>3. Fc!Actuel(o)'
    BY <1>1, <1>3, <2>2 DEF Fc!Actuel, Fc!Attendus
  <2> QED BY <2>1, <2>3
<1> QED BY <1>2, <1>4, <1>5 DEF Fc!SInv

\* What a person asks: read from the server, written to Stripe.
LEMMA SerieGestes ==
    ASSUME Fc!Domaines, UneALaFois, Fc!SInv, Fc!IInv', NEW q \in Requetes, Fc!Gestes(q)
    PROVE  Fc!SInv'
<1>1. PICK o \in Fc!Requete : o = req[q]
  BY DEF Fc!SInv, Fc!IInv, Fc!TypeOK
<1>2. ASSUME NEW r, r.etat \notin {"relecture", "lu", "modules"}, Fc!Garder(q, r),
             UNCHANGED <<Fc!externe, Fc!serveur>>
      PROVE  Fc!SInv'
  <2>1. Fc!Actuel(r)
    BY <1>2 DEF Fc!Actuel
  <2> QED BY <1>2, <2>1, SerieLecture DEF Fc!externe, Fc!serveur
<1>3. ASSUME NEW M \in SUBSET Modules, Fc!LireSouscription(q, M) PROVE Fc!SInv'
  BY <1>2, <1>3 DEF Fc!LireSouscription
<1>4. ASSUME NEW s \in DOMAIN stripe, Fc!Relire(q, s, FALSE) PROVE Fc!SInv'
  <2>1. PICK r : r = [etat |-> "lu", s |-> s, vu |-> stripe[s], evenement |-> FALSE,
                      resilie |-> NUL, finAcces |-> NUL]
    OBVIOUS
  <2>2. Fc!Garder(q, r) /\ UNCHANGED <<stripe, evenements, abonnement, souscriptions>>
    BY <1>4, <2>1 DEF Fc!Relire, Fc!externe, Fc!serveur
  <2>3. Len(stripe) = 1 => Fc!Actuel(r)
    BY <2>1, Premiere DEF Fc!SInv, Fc!Actuel, Fc!Attendus
  <2> QED BY <2>2, <2>3, SerieLecture
<1>5. ASSUME NEW m \in Modules, Fc!LireAjout(q, m) \/ Fc!LireResiliation(q,
             m) \/ Fc!LireReprise(q, m)
      PROVE  Fc!SInv'
  <2>1. CASE Fc!LireAjout(q, m)
    BY <1>2, <2>1 DEF Fc!LireAjout
  <2>2. CASE Fc!LireResiliation(q, m)
    BY <1>2, <2>2 DEF Fc!LireResiliation
  <2>3. CASE Fc!LireReprise(q, m)
    BY <1>2, <2>3 DEF Fc!LireReprise
  <2> QED BY <1>5, <2>1, <2>2, <2>3
<1>6. ASSUME o.etat \in Fc!Suivent PROVE o.s \in DOMAIN stripe
  BY <1>1, <1>6 DEF Fc!SInv, Fc!IInv, Fc!Suit
<1>7. ASSUME Fc!Ajouter(q) PROVE Fc!SInv'
  <2>1. o.s \in DOMAIN stripe
    BY <1>1, <1>6, <1>7 DEF Fc!Ajouter, Fc!En, Fc!Suivent
  <2>2. PICK z : z = [stripe[o.s] EXCEPT !.elements = @ \cup {o.m}, !.annulation = FALSE]
    OBVIOUS
  <2>3. PICK r : r = [etat |-> "lu", s |-> o.s, vu |-> z, evenement |-> FALSE, resilie |-> NUL,
                      finAcces |-> NUL]
    OBVIOUS
  <2>4. /\ stripe' = [stripe EXCEPT ![o.s] = z] /\ Fc!Emet(o.s) /\ Fc!Garder(q, r)
        /\ UNCHANGED Fc!serveur
    BY <1>1, <1>7, <2>2, <2>3 DEF Fc!Ajouter
  <2> QED BY <2>1, <2>3, <2>4, SerieStripe
<1>8. ASSUME Fc!Resilier(q) PROVE Fc!SInv'
  <2>1. o.s \in DOMAIN stripe
    BY <1>1, <1>6, <1>8 DEF Fc!Resilier, Fc!En, Fc!Suivent
  <2>2. PICK z : z = IF o.dernier THEN [stripe[o.s] EXCEPT !.annulation = TRUE]
                     ELSE [stripe[o.s] EXCEPT !.elements = @ \ {o.m}]
    OBVIOUS
  <2>3. PICK r : r = [etat |-> "relecture", s |-> o.s, vu |-> z, evenement |-> FALSE,
                      resilie |-> o.m, finAcces |-> o.fin]
    OBVIOUS
  <2>4. /\ stripe' = [stripe EXCEPT ![o.s] = z] /\ Fc!Emet(o.s) /\ Fc!Garder(q, r)
        /\ UNCHANGED Fc!serveur
    BY <1>1, <1>8, <2>2, <2>3 DEF Fc!Resilier
  <2> QED BY <2>1, <2>3, <2>4, SerieStripe
<1>9. ASSUME Fc!Reprendre(q) PROVE Fc!SInv'
  <2>1. o.s \in DOMAIN stripe
    BY <1>1, <1>6, <1>9 DEF Fc!Reprendre, Fc!En, Fc!Suivent
  <2>2. PICK z : z = IF o.annulee THEN [stripe[o.s] EXCEPT !.annulation = FALSE]
                     ELSE [stripe[o.s] EXCEPT !.elements = @ \cup {o.m}]
    OBVIOUS
  <2>3. PICK r : r = [etat |-> "lu", s |-> o.s, vu |-> z, evenement |-> FALSE, resilie |-> NUL,
                      finAcces |-> NUL]
    OBVIOUS
  <2>4. /\ stripe' = [stripe EXCEPT ![o.s] = z] /\ Fc!Emet(o.s) /\ Fc!Garder(q, r)
        /\ UNCHANGED Fc!serveur
    BY <1>1, <1>9, <2>2, <2>3 DEF Fc!Reprendre
  <2> QED BY <2>1, <2>3, <2>4, SerieStripe
<1>10. ASSUME Fc!RelireResiliation(q) PROVE Fc!SInv'
  <2>1. o.etat = "relecture" /\ o.s \in DOMAIN stripe
    BY <1>1, <1>6, <1>10 DEF Fc!RelireResiliation, Fc!En, Fc!Suivent
  <2>2. PICK r : r = [o EXCEPT !.etat = "lu", !.vu = stripe[o.s]]
    OBVIOUS
  <2>3. r.etat = "lu" /\ r.vu = stripe[o.s] /\ r.evenement = o.evenement
    BY <2>1, <2>2 DEF Fc!Requete
  <2>4. Fc!Garder(q, r) /\ UNCHANGED <<stripe, evenements, abonnement, souscriptions>>
    BY <1>1, <1>10, <2>2 DEF Fc!RelireResiliation, Fc!externe, Fc!serveur
  <2>5. ASSUME Len(stripe) = 1 PROVE Fc!Actuel(r)
    <3>1. Fc!Actuel(o) /\ o.s = 1 /\ evenements[1] \in Nat
      BY <1>1, <2>1, <2>5, Premiere DEF Fc!SInv
    <3>2. ~o.evenement
      BY <2>1, <3>1 DEF Fc!Actuel
    <3> QED BY <2>3, <3>1, <3>2 DEF Fc!Actuel, Fc!Attendus
  <2> QED BY <2>4, <2>5, SerieLecture
<1> QED BY <1>3, <1>4, <1>5, <1>7, <1>8, <1>9, <1>10, SerieDemarrer DEF Fc!Gestes

LEMMA SerieRelireEvenement ==
    ASSUME Fc!Domaines, UneALaFois, Fc!SInv, Fc!IInv', NEW q \in Requetes,
           NEW s \in DOMAIN stripe,
           Fc!Relire(q, s, TRUE)
    PROVE  Fc!SInv'
<1>1. PICK r : r = [etat |-> "lu", s |-> s, vu |-> stripe[s], evenement |-> TRUE,
                    resilie |-> NUL, finAcces |-> NUL]
  OBVIOUS
<1>2. /\ Fc!Garder(q, r) /\ UNCHANGED <<stripe, evenements, abonnement, souscriptions>>
      /\ evenements[s] > 0
  BY <1>1 DEF Fc!Relire, Fc!externe, Fc!serveur
<1>3. ASSUME Len(stripe) = 1 PROVE Fc!Actuel(r)
  <2>1. s = 1 /\ evenements[1] \in Nat
    BY <1>3, Premiere DEF Fc!SInv
  <2> QED BY <1>1, <1>2, <2>1 DEF Fc!Actuel, Fc!Attendus
<1> QED BY <1>2, <1>3, SerieLecture

LEMMA SerieReste ==
    ASSUME Fc!Domaines, UneALaFois, Fc!SInv, Fc!IInv', NEW q \in Requetes,
           Fc!Avertissement(q) \/ Fc!Interrompre(q)
    PROVE  Fc!SInv'
<1>1. PICK r : /\ Fc!Garder(q, r) /\ r.etat \in {"libre", "avertir", "avertissement"}
               /\ UNCHANGED <<stripe, evenements, abonnement, souscriptions>>
  BY LibreVaut DEF Fc!Avertissement, Fc!LireAvertir, Fc!Inscrire, Fc!Avertir, Fc!AvertirPerdu,
     Fc!Interrompre, Fc!Finir,
                   Fc!externe, Fc!serveur
<1>2. Fc!Actuel(r)
  BY <1>1 DEF Fc!Actuel
<1> QED BY <1>1, <1>2, SerieLecture

\* One request at a time: once no event is to come, the server is where
\* Stripe is, and so is what a handling under way has written.
THEOREM FacturationEnSerie == ASSUME Fc!Domaines, UneALaFois PROVE Fc!Spec => []Fc!SInv
<1>1. ASSUME Fc!Init PROVE Fc!SInv
  <2>1. Fc!IInv /\ Len(stripe) = 0 /\ souscriptions = [m \in Modules |-> NUL]
    BY <1>1, Depart DEF Fc!Init
  <2>2. Fc!Rattachees
    BY <2>1 DEF Fc!Rattachees, Fc!Facture
  <2> QED BY <2>1, <2>2 DEF Fc!SInv
<1>2. ASSUME Fc!SInv, [Fc!Next]_Fc!vars PROVE Fc!SInv'
  <2>1. Fc!IInv'
    BY <1>2, Pas, Repos DEF Fc!SInv
  <2>2. CASE UNCHANGED Fc!vars
    BY <1>2, <2>1, <2>2, SerieAbandonner DEF Fc!vars, Fc!externe, Fc!serveur
  <2>3. CASE Fc!Externe
    <3>1. ASSUME NEW session \in sessions, Fc!Abandonner(session) PROVE Fc!SInv'
      BY <1>2, <2>1, <3>1, SerieAbandonner DEF Fc!Abandonner, Fc!serveur
    <3> QED BY <1>2, <2>1, <2>3, <3>1, SerieFinPeriode, SeriePayer DEF Fc!Externe
  <2>4. CASE \E m \in Modules, statut \in {"ACTIF", "RESILIE"} : Fc!Exploitant(m, statut)
    BY <1>2, <2>1, <2>4, SerieExploitant
  <2>5. ASSUME NEW q \in Requetes, Fc!Synchronisation(q) PROVE Fc!SInv'
    BY <1>2, <2>1, <2>5, SerieRelireEvenement, SerieSynchroniser, SerieChanger, SerieConclure
       DEF Fc!Synchronisation
  <2> QED BY <1>2, <2>1, <2>2, <2>3, <2>4, <2>5, SerieGestes, SerieReste DEF Fc!Next
<1> QED BY <1>1, <1>2, PTL DEF Fc!Spec

\* recevoirWebhook, synchroniser: one handling at a time, whatever fails and is
\* delivered again, and whatever the operator of the platform decides
\* meanwhile, on one subscription the server ends where Stripe is.
THEOREM ServeurAligne == ASSUME Fc!Domaines, UneALaFois PROVE Fc!Spec => []Fc!AligneSurStripe
<1>1. Fc!SInv => Fc!AligneSurStripe
  BY DEF Fc!SInv, Fc!Alignee, Fc!AligneSurStripe
<1> QED BY <1>1, FacturationEnSerie, PTL
=============================================================================
