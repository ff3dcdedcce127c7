---------------------------- MODULE Facturation ----------------------------
(***************************************************************************)
(* The subscription of one company: Stripe charges one item per module,    *)
(* and the server opens and closes modules after what Stripe says, read    *)
(* again each time an event or a person makes it look.                     *)
(*                                                                         *)
(* Stripe is external: its subscriptions, its checkout sessions and the    *)
(* events it still has to deliver.  A request slot is a handler between    *)
(* two calls, to Stripe or to the database, which other handlers and       *)
(* Stripe may change meanwhile.  Time is counted in billing periods; a     *)
(* trial is the first one.                                                 *)
(***************************************************************************)
EXTENDS Integers, Sequences, FiniteSets

CONSTANTS
    Modules,         \* modules sold
    MaxAbonnements,  \* bound: subscriptions Stripe creates
    MaxEvenements,   \* bound: events waiting on one subscription
    MaxSessions,     \* bound: checkout sessions open at once
    Horizon,         \* bound: last billing period
    MaxPannes,       \* bound: warnings sent by a transaction that then failed
    Requetes,        \* request slots
    NUL              \* SQL NULL

VARIABLES
    periode,         \* the billing period under way
    stripe,          \* Stripe: subscriptions, by identifier
    sessions,        \* Stripe: checkout sessions not completed
    evenements,      \* Stripe: subscription -> events not handled yet
    abonnement,      \* the row of the company, or NUL
    souscriptions,   \* module -> its row, or NUL
    avertissement,   \* the row that says the end of trial was announced
    envois,          \* warnings that have left
    pannes,          \* transactions lost after their warning had left
    promesses,       \* module -> period until which its removal was promised to wait
    req              \* what each request in flight has read

serveur == <<abonnement, souscriptions, avertissement, envois, pannes>>
externe == <<periode, stripe, sessions, evenements, promesses>>
vars == <<serveur, externe, req>>

(***************************************************************************)
(* Rows and objects                                                        *)
(***************************************************************************)
Periode == 0 .. Horizon + 2
StatutStripe == {"trialing", "active", "past_due", "canceled"}
Vivants == {"trialing", "active", "past_due"}

\* annulation: cancel_at_period_end.  fin: the end of the period paid, or of
\* the trial.
Stripe == [statut: StatutStripe, elements: SUBSET Modules, annulation: BOOLEAN, fin: Periode]
Session == [modules: SUBSET Modules, essai: BOOLEAN]

Abonnement == [id: 1..MaxAbonnements \cup {NUL}, statut: StatutStripe \cup {NUL},
               essai: BOOLEAN]

\* What the constants stand for.
Domaines ==
    /\ MaxAbonnements \in Nat /\ MaxEvenements \in Nat \ {0} /\ MaxSessions \in Nat
    /\ Horizon \in Nat /\ MaxPannes \in Nat /\ IsFiniteSet(Modules)
    /\ NUL \notin Nat \cup Abonnement /\ Requetes \cap {"absent", "envoye"} = {}

\* element: the item of the subscription that charges it.
Souscription == [statut: {"ESSAI", "ACTIF", "RESILIE"}, source: {"STRIPE", "ADMIN"},
                 element: BOOLEAN, finEssai: Periode \cup {NUL}, finAcces: Periode \cup {NUL}]

Lignes == [Modules -> Souscription \cup {NUL}]
Requete ==
         [etat: {"libre"}]
    \cup [etat: {"souscription"}, modules: SUBSET Modules]
    \cup [etat: {"ajout"}, s: 1..MaxAbonnements, m: Modules]
    \cup [etat: {"reprise"}, s: 1..MaxAbonnements, m: Modules, annulee: BOOLEAN]
    \cup [etat: {"resiliation"}, s: 1..MaxAbonnements, m: Modules, dernier: BOOLEAN,
          fin: Periode]
    \cup [etat: {"relecture", "lu"}, s: 1..MaxAbonnements, vu: Stripe, evenement: BOOLEAN,
          resilie: Modules \cup {NUL}, finAcces: Periode \cup {NUL}]
    \cup [etat: {"modules"}, s: 1..MaxAbonnements, vu: Stripe, evenement: BOOLEAN,
          resilie: Modules \cup {NUL}, finAcces: Periode \cup {NUL},
          avant: Lignes, reste: SUBSET Modules]
    \cup [etat: {"avertir", "avertissement"}]

Libre == [etat |-> "libre"]

Garder(q, r) == req' = [req EXCEPT ![q] = r]
Finir(q) == Garder(q, Libre)
En(q, etat) == req[q].etat = etat

(***************************************************************************)
(* Rules                                                                   *)
(***************************************************************************)
Vivant == abonnement # NUL /\ abonnement.id # NUL /\ abonnement.statut \in Vivants
Facture(m) == souscriptions[m] # NUL /\ souscriptions[m].element

Ouvert(m) ==
    /\ souscriptions[m] # NUL
    /\ souscriptions[m].statut \in {"ACTIF", "ESSAI"}
    /\ souscriptions[m].statut = "ESSAI" => periode < souscriptions[m].finEssai
    /\ souscriptions[m].finAcces # NUL => periode < souscriptions[m].finAcces

\* What the guard of the modules opens: it does not select finAcces.
OuvertAuGarde(m) ==
    /\ souscriptions[m] # NUL
    /\ souscriptions[m].statut \in {"ACTIF", "ESSAI"}
    /\ souscriptions[m].statut = "ESSAI" => periode < souscriptions[m].finEssai

\* Removed, but its paid period is not over: taking it back costs nothing.
Reprise(m) ==
    /\ souscriptions[m] # NUL /\ ~souscriptions[m].element
    /\ souscriptions[m].finAcces # NUL /\ periode < souscriptions[m].finAcces

Ajoutable(m) ==
    souscriptions[m] # NUL => Reprise(m) \/ souscriptions[m].statut = "RESILIE"

\* A card refused does not cut the access.
StatutModule(statut) ==
    IF statut = "trialing" THEN "ESSAI"
    ELSE IF statut \in {"active", "past_due"} THEN "ACTIF" ELSE "RESILIE"

(***************************************************************************)
(* Stripe                                                                  *)
(***************************************************************************)
Emet(s) == /\ evenements[s] < MaxEvenements
           /\ evenements' = [evenements EXCEPT ![s] = @ + 1]

\* Every living subscription reaches the end of its period: cancelled if it
\* was to be, charged otherwise; the next event tells.
Echoit(s, encaisse) ==
    IF stripe[s].statut = "canceled" THEN stripe[s]
    ELSE IF stripe[s].annulation THEN [stripe[s] EXCEPT !.statut = "canceled"]
    ELSE [stripe[s] EXCEPT !.statut = IF encaisse THEN "active" ELSE "past_due",
                           !.fin = periode + 2]

FinPeriode(encaisse) ==
    LET vivants == {s \in DOMAIN stripe : stripe[s].statut \in Vivants}
    IN /\ periode < Horizon
       /\ \A s \in vivants : evenements[s] < MaxEvenements
       /\ periode' = periode + 1
       /\ stripe' = [s \in DOMAIN stripe |-> Echoit(s, encaisse)]
       /\ evenements' = [s \in DOMAIN evenements |->
              IF s \in vivants THEN evenements[s] + 1 ELSE evenements[s]]
       /\ UNCHANGED <<sessions, promesses, serveur, req>>

\* The person pays on the page of a session, or leaves it.
Payer(session) ==
    /\ Len(stripe) < MaxAbonnements
    /\ sessions' = sessions \ {session}
    /\ stripe' = Append(stripe, [statut |-> IF session.essai THEN "trialing" ELSE "active",
                                 elements |-> session.modules, annulation |-> FALSE,
                                 fin |-> periode + 1])
    /\ evenements' = Append(evenements, 1)
    /\ UNCHANGED <<periode, promesses, serveur, req>>

Abandonner(session) ==
    /\ sessions' = sessions \ {session}
    /\ UNCHANGED <<periode, stripe, evenements, promesses, serveur, req>>

(***************************************************************************)
(* Handlers                                                                *)
(***************************************************************************)
\* No second subscription, as far as the row says.
LireSouscription(q, M) ==
    /\ En(q, "libre") /\ M # {}
    /\ ~Vivant
    /\ \A m \in M : souscriptions[m] # NUL => souscriptions[m].statut = "RESILIE"
    /\ Garder(q, [etat |-> "souscription", modules |-> M])
    /\ UNCHANGED <<externe, serveur>>

\* The customer is created once; a trial is offered as long as none is known.
Demarrer(q) ==
    LET ligne == IF abonnement = NUL THEN [id |-> NUL, statut |-> NUL, essai |-> FALSE]
                 ELSE abonnement
    IN /\ En(q, "souscription")
       /\ Cardinality(sessions) < MaxSessions
       /\ abonnement' = ligne
       /\ sessions' = sessions \cup {[modules |-> req[q].modules, essai |-> ~ligne.essai]}
       /\ Finir(q)
       /\ UNCHANGED <<periode, stripe, evenements, promesses, souscriptions, avertissement,
                      envois, pannes>>

\* The page of return, or an event: both read the subscription again.
Relire(q, s, evenement) ==
    /\ En(q, "libre")
    /\ abonnement # NUL
    /\ evenement => evenements[s] > 0
    /\ Garder(q, [etat |-> "lu", s |-> s, vu |-> stripe[s], evenement |-> evenement,
                  resilie |-> NUL, finAcces |-> NUL])
    /\ UNCHANGED <<externe, serveur>>

LireAjout(q, m) ==
    /\ En(q, "libre")
    /\ Vivant /\ Ajoutable(m)
    /\ Garder(q, [etat |-> "ajout", s |-> abonnement.id, m |-> m])
    /\ UNCHANGED <<externe, serveur>>

\* Stripe refuses a cancelled subscription, and the same price twice.  What
\* it answers is what is synchronised.
Ajouter(q) ==
    LET r == req[q]
        nouveau == [stripe[r.s] EXCEPT !.elements = @ \cup {r.m}, !.annulation = FALSE]
    IN /\ En(q, "ajout")
       /\ stripe[r.s].statut \in Vivants /\ r.m \notin stripe[r.s].elements
       /\ stripe' = [stripe EXCEPT ![r.s] = nouveau]
       /\ Emet(r.s)
       /\ promesses' = [promesses EXCEPT ![r.m] = 0]
       /\ Garder(q, [etat |-> "lu", s |-> r.s, vu |-> nouveau, evenement |-> FALSE,
                     resilie |-> NUL, finAcces |-> NUL])
       /\ UNCHANGED <<periode, sessions, serveur>>

LireResiliation(q, m) ==
    /\ En(q, "libre")
    /\ Vivant /\ Facture(m)
    /\ Garder(q, [etat |-> "resiliation", s |-> abonnement.id, m |-> m,
                  dernier |-> Cardinality(stripe[abonnement.id].elements) <= 1,
                  fin |-> stripe[abonnement.id].fin])
    /\ UNCHANGED <<externe, serveur>>

\* The last module cancels the subscription at the end of its period; another
\* is taken off at once, its period being paid.  Stripe refuses to take off
\* what is not there, or the last item.
Resilier(q) ==
    LET r == req[q]
        nouveau == IF r.dernier THEN [stripe[r.s] EXCEPT !.annulation = TRUE]
                   ELSE [stripe[r.s] EXCEPT !.elements = @ \ {r.m}]
    IN /\ En(q, "resiliation")
       /\ stripe[r.s].statut \in Vivants
       /\ ~r.dernier => r.m \in stripe[r.s].elements /\ stripe[r.s].elements # {r.m}
       /\ stripe' = [stripe EXCEPT ![r.s] = nouveau]
       /\ Emet(r.s)
       /\ promesses' = [promesses EXCEPT ![r.m] = r.fin]
       /\ Garder(q, [etat |-> "relecture", s |-> r.s, vu |-> nouveau, evenement |-> FALSE,
                     resilie |-> r.m, finAcces |-> r.fin])
       /\ UNCHANGED <<periode, sessions, serveur>>

RelireResiliation(q) ==
    /\ En(q, "relecture")
    /\ Garder(q, [req[q] EXCEPT !.etat = "lu", !.vu = stripe[req[q].s]])
    /\ UNCHANGED <<externe, serveur>>

LireReprise(q, m) ==
    /\ En(q, "libre")
    /\ Vivant
    /\ ~stripe[abonnement.id].annulation => Reprise(m)
    /\ Garder(q, [etat |-> "reprise", s |-> abonnement.id, m |-> m,
                  annulee |-> stripe[abonnement.id].annulation])
    /\ UNCHANGED <<externe, serveur>>

\* The cancellation that was planned is withdrawn, or the module put back
\* for the rest of its period.
Reprendre(q) ==
    LET r == req[q]
        nouveau == IF r.annulee THEN [stripe[r.s] EXCEPT !.annulation = FALSE]
                   ELSE [stripe[r.s] EXCEPT !.elements = @ \cup {r.m}]
    IN /\ En(q, "reprise")
       /\ stripe[r.s].statut \in Vivants
       /\ ~r.annulee => r.m \notin stripe[r.s].elements
       /\ stripe' = [stripe EXCEPT ![r.s] = nouveau]
       /\ Emet(r.s)
       /\ promesses' = [promesses EXCEPT ![r.m] = 0]
       /\ Garder(q, [etat |-> "lu", s |-> r.s, vu |-> nouveau, evenement |-> FALSE,
                     resilie |-> NUL, finAcces |-> NUL])
       /\ UNCHANGED <<periode, sessions, serveur>>

(***************************************************************************)
(* Synchronisation                                                         *)
(***************************************************************************)
\* The row of the company first, with the modules as they are then.  A trial
\* that is known stays known.
Synchroniser(q) ==
    LET r == req[q]
        charges == {m \in Modules : Facture(m) /\ souscriptions[m].statut # "RESILIE"}
    IN /\ En(q, "lu")
       /\ abonnement' = [id |-> r.s, statut |-> r.vu.statut,
                         essai |-> abonnement.essai \/ r.vu.statut = "trialing"]
       /\ Garder(q, [etat |-> "modules", s |-> r.s, vu |-> r.vu, evenement |-> r.evenement,
                     resilie |-> r.resilie, finAcces |-> r.finAcces,
                     avant |-> souscriptions, reste |-> r.vu.elements \cup charges])
       /\ UNCHANGED <<externe, souscriptions, avertissement, envois, pannes>>

\* A module the subscription, as read, charges.
Chargee(r, m) ==
    LET statut == StatutModule(r.vu.statut)
    IN [statut |-> statut, source |-> "STRIPE", element |-> statut # "RESILIE",
        finEssai |-> IF statut = "ESSAI" THEN r.vu.fin ELSE NUL,
        finAcces |-> IF r.vu.annulation /\ statut # "RESILIE" THEN r.vu.fin ELSE NUL]

\* Mutant: a module taken off the subscription keeps its item.
Retiree_Gardee(r, m) ==
    [r.avant[m] EXCEPT !.source = "STRIPE",
                       !.finAcces = IF m = r.resilie THEN r.finAcces ELSE @]

\* One that is no longer in it: closed, unless its removal said until when
\* it is paid.
Retiree(r, m) ==
    LET avant == r.avant[m]
        finAcces == IF m = r.resilie THEN r.finAcces ELSE avant.finAcces
    IN IF finAcces # NUL /\ periode < finAcces /\ StatutModule(r.vu.statut) # "RESILIE"
       THEN [avant EXCEPT !.source = "STRIPE", !.element = FALSE, !.finAcces = finAcces]
       ELSE [statut |-> "RESILIE", source |-> "STRIPE", element |-> FALSE,
             finEssai |-> NUL, finAcces |-> NUL]

\* ModulesService.changer: nothing but the item changes on a row already so.
Changee(avant, voulue) ==
    IF avant # NUL /\ (avant.statut = voulue.statut /\ avant.finAcces = voulue.finAcces
                       /\ avant.finEssai = voulue.finEssai)
    THEN [avant EXCEPT !.element = voulue.element] ELSE voulue

\* One transaction per module.  A trial already over is refused, or passed
\* over when the subscription announces it.
ChangerModule(q, m) ==
    LET r == req[q]
        present == m \in r.vu.elements
        voulue == IF present THEN Chargee(r, m) ELSE Retiree(r, m)
        echu == voulue.statut = "ESSAI" /\ voulue.finEssai <= periode
    IN /\ En(q, "modules") /\ m \in r.reste
       /\ echu => present
       /\ souscriptions' = IF echu THEN souscriptions
                           ELSE [souscriptions EXCEPT ![m] = Changee(@, voulue)]
       /\ Garder(q, [r EXCEPT !.reste = @ \ {m}])
       /\ UNCHANGED <<externe, abonnement, avertissement, envois, pannes>>

\* The event is handled once everything is written.
Conclure(q) ==
    LET r == req[q]
    IN /\ En(q, "modules") /\ r.reste = {}
       /\ evenements' = IF r.evenement /\ evenements[r.s] > 0
                        THEN [evenements EXCEPT ![r.s] = @ - 1] ELSE evenements
       /\ Finir(q)
       /\ UNCHANGED <<periode, stripe, sessions, promesses, serveur>>

\* Mutant: the event of a handling that failed counts as handled.
Interrompre_Avale(q) ==
    LET r == req[q]
    IN /\ ~En(q, "libre")
       /\ evenements' = IF r.etat \in {"lu", "modules"} /\ r.evenement
                        THEN [evenements EXCEPT ![r.s] = @ - 1] ELSE evenements
       /\ avertissement' = IF avertissement = q THEN "absent" ELSE avertissement
       /\ Finir(q)
       /\ UNCHANGED <<periode, stripe, sessions, promesses, abonnement, souscriptions,
                      envois, pannes>>

\* Stripe or the database fails, or the process stops: an event answered by
\* an error will come again, what was committed stays.
Interrompre(q) ==
    /\ ~En(q, "libre")
    /\ avertissement' = IF avertissement = q THEN "absent" ELSE avertissement
    /\ Finir(q)
    /\ UNCHANGED <<externe, abonnement, souscriptions, envois, pannes>>

(***************************************************************************)
(* The warning before the end of a trial: the event of Stripe and the      *)
(* nightly pass both send it, under one key                                *)
(***************************************************************************)
LireAvertir(q) ==
    /\ En(q, "libre")
    /\ abonnement # NUL /\ abonnement.statut = "trialing"
    /\ Garder(q, [etat |-> "avertir"])
    /\ UNCHANGED <<externe, serveur>>

\* Mutant: the row is not held while the e-mail leaves.
Inscrire_Apres(q) ==
    /\ En(q, "avertir")
    /\ avertissement # "envoye"
    /\ avertissement' = q
    /\ Garder(q, [etat |-> "avertissement"])
    /\ UNCHANGED <<externe, abonnement, souscriptions, envois, pannes>>

\* The row is inserted first; another transaction that inserts it waits.
Inscrire(q) ==
    /\ En(q, "avertir")
    /\ avertissement = "absent"
    /\ avertissement' = q
    /\ Garder(q, [etat |-> "avertissement"])
    /\ UNCHANGED <<externe, abonnement, souscriptions, envois, pannes>>

Avertir(q) ==
    /\ En(q, "avertissement")
    /\ avertissement' = "envoye"
    /\ envois' = envois + 1
    /\ Finir(q)
    /\ UNCHANGED <<externe, abonnement, souscriptions, pannes>>

\* The e-mail has left and the transaction is rolled back.
AvertirPerdu(q) ==
    /\ En(q, "avertissement") /\ pannes < MaxPannes
    /\ avertissement' = "absent"
    /\ envois' = envois + 1
    /\ pannes' = pannes + 1
    /\ Finir(q)
    /\ UNCHANGED <<externe, abonnement, souscriptions>>

(***************************************************************************)
(* ModulesService.changer, by the operator of the platform                 *)
(***************************************************************************)
Exploitant(m, statut) ==
    LET avant == souscriptions[m]
    IN /\ avant # NUL /\ avant.finAcces = NUL => avant.statut # statut
       /\ souscriptions' = [souscriptions EXCEPT ![m] =
              [statut |-> statut, source |-> "ADMIN",
               element |-> avant # NUL /\ avant.element,
               finEssai |-> NUL, finAcces |-> NUL]]
       /\ UNCHANGED <<externe, abonnement, avertissement, envois, pannes, req>>

(***************************************************************************)
(* Specification                                                           *)
(***************************************************************************)
Init ==
    /\ periode = 0
    /\ stripe = <<>> /\ sessions = {} /\ evenements = <<>>
    /\ abonnement = NUL
    /\ souscriptions = [m \in Modules |-> NUL]
    /\ avertissement = "absent" /\ envois = 0 /\ pannes = 0
    /\ promesses = [m \in Modules |-> 0]
    /\ req = [q \in Requetes |-> Libre]

Externe ==
    \/ \E encaisse \in BOOLEAN : FinPeriode(encaisse)
    \/ \E session \in sessions : Payer(session) \/ Abandonner(session)

Gestes(q) ==
    \/ \E M \in SUBSET Modules : LireSouscription(q, M)
    \/ Demarrer(q)
    \/ \E s \in DOMAIN stripe : Relire(q, s, FALSE)
    \/ \E m \in Modules : LireAjout(q, m) \/ LireResiliation(q, m) \/ LireReprise(q, m)
    \/ Ajouter(q)
    \/ Resilier(q)
    \/ RelireResiliation(q)
    \/ Reprendre(q)

Synchronisation(q) ==
    \/ \E s \in DOMAIN stripe : Relire(q, s, TRUE)
    \/ Synchroniser(q)
    \/ \E m \in Modules : ChangerModule(q, m)
    \/ Conclure(q)

Avertissement(q) == LireAvertir(q) \/ Inscrire(q) \/ Avertir(q) \/ AvertirPerdu(q)

Next ==
    \/ Externe
    \/ \E m \in Modules, statut \in {"ACTIF", "RESILIE"} : Exploitant(m, statut)
    \/ \E q \in Requetes :
          Gestes(q) \/ Synchronisation(q) \/ Avertissement(q) \/ Interrompre(q)

Spec == Init /\ [][Next]_vars

\* What the company and Stripe do to a subscription, trials announced and the
\* operator of the platform left aside.
NextAbonne == Externe \/ \E q \in Requetes : Gestes(q) \/ Synchronisation(q)

SpecAbonne == Init /\ [][NextAbonne]_vars

(***************************************************************************)
(* Properties                                                              *)
(***************************************************************************)
\* Every row, object and request in flight has its shape.
TypeOK ==
    /\ periode \in 0..Horizon
    /\ stripe \in Seq(Stripe) /\ Len(stripe) <= MaxAbonnements
    /\ sessions \subseteq Session
    /\ evenements \in Seq(0..MaxEvenements)
    /\ abonnement \in Abonnement \cup {NUL}
    /\ souscriptions \in Lignes
    /\ avertissement \in {"absent", "envoye"} \cup Requetes
    /\ envois \in Nat /\ pannes \in 0..MaxPannes
    /\ promesses \in [Modules -> Periode]
    /\ req \in [Requetes -> Requete]

\* A row that follows Stripe says of its module what the one subscription does.
Aligne(m) ==
    LET s == souscriptions[m]
    IN s # NUL /\ s.source = "STRIPE" =>
          IF m \in stripe[1].elements
          THEN /\ s.statut = StatutModule(stripe[1].statut)
               /\ s.element <=> s.statut # "RESILIE"
               /\ s.finAcces # NUL <=> stripe[1].annulation /\ s.statut # "RESILIE"
          ELSE ~s.element

\* recevoirWebhook, synchroniser: "Stripe est la verite du paiement".  On one
\* subscription and one handling at a time, whatever fails and is delivered
\* again, once every event has been handled the server is where Stripe is:
\* what is charged is open as the status says and tied to its item, and no
\* module is tied to an item that is gone.
AligneSurStripe ==
    Len(stripe) = 1 /\ evenements[1] = 0 /\ (\A q \in Requetes : En(q, "libre")) =>
        /\ abonnement.id = 1 /\ abonnement.statut = stripe[1].statut
        /\ \A m \in Modules : Aligne(m)

\* avertirFinEssai: two paths, one key, "jamais deux envois", as far as a
\* transaction whose e-mail has left is not lost.
AvertiUneFois == envois <= 1 + pannes

\* resilier: "la periode est payee, et le module reste ouvert jusqu'a son
\* terme".  Once every event and every handler has ended, a module taken off
\* a subscription that lives is open until the end of the period paid.
PeriodePayee ==
    (\A q \in Requetes : En(q, "libre")) /\ (\A s \in DOMAIN evenements : evenements[s] = 0) =>
        \A m \in Modules : periode < promesses[m] /\ Vivant => Ouvert(m)

\* schema.prisma:304-306, "le module est paye jusqu'a cette date, puis passe en
\* lecture seule", computed at each reading.  Once every event and every
\* handler has ended, a module whose paid period is over is not written to.
FermeAuTerme ==
    (\A q \in Requetes : En(q, "libre")) /\ (\A s \in DOMAIN evenements : evenements[s] = 0) =>
        \A m \in Modules :
            souscriptions[m] # NUL /\ souscriptions[m].finAcces # NUL
            /\ periode >= souscriptions[m].finAcces => ~OuvertAuGarde(m)

(***************************************************************************)
(* The inductive invariant behind AvertiUneFois, and the one that          *)
(* AligneSurStripe needs besides, one request at a time                    *)
(***************************************************************************)
\* What is about a subscription: it exists, and so does the row.
Suivent == {"ajout", "reprise", "resiliation", "relecture", "lu", "modules"}
Suit(r) ==
    /\ r.etat \in Suivent => r.s \in DOMAIN stripe /\ abonnement # NUL
    /\ r.etat = "modules" => \A m \in r.reste \ r.vu.elements : r.avant[m] # NUL

\* The row of the warning is held by the one that sends it.
IInv ==
    /\ TypeOK /\ Len(evenements) = Len(stripe)
    /\ abonnement # NUL => abonnement.id \in DOMAIN stripe \cup {NUL}
    /\ \A s \in DOMAIN stripe : stripe[s].statut \in Vivants => periode < stripe[s].fin
    /\ \A q \in Requetes : Suit(req[q]) /\ (avertissement = q <=> En(q, "avertissement"))
    /\ envois = pannes + (IF avertissement = "envoye" THEN 1 ELSE 0)

\* The events that will still come once the request has ended.
Attendus(r) == evenements[1] - (IF r.evenement THEN 1 ELSE 0)

\* When none will, what was read is what Stripe says, and what has been
\* written follows it.
Actuel(r) ==
    /\ r.etat = "relecture" => ~r.evenement
    /\ r.etat \in {"lu", "modules"} => Attendus(r) >= 0 /\ (Attendus(r) = 0 => r.vu = stripe[1])
    /\ r.etat = "modules" =>
          /\ abonnement.id = 1 /\ abonnement.statut = r.vu.statut
          /\ Attendus(r) = 0 => \A m \in Modules \ r.reste : Aligne(m)

\* What is tied to its item is not closed.
Rattachees ==
    \A m \in Modules :
        Facture(m) /\ souscriptions[m].source = "STRIPE" => souscriptions[m].statut # "RESILIE"

Alignee ==
    /\ abonnement # NUL /\ abonnement.id = 1 /\ abonnement.statut = stripe[1].statut
    /\ \A m \in Modules : Aligne(m)

SInv ==
    /\ IInv /\ Rattachees
    /\ Len(stripe) = 1 => /\ \A q \in Requetes : Actuel(req[q])
                          /\ evenements[1] = 0 => Alignee
=============================================================================
