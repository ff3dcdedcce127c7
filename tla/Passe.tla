-------------------------------- MODULE Passe --------------------------------
(***************************************************************************)
(* The nightly pass: two tasks, each a loop over what is due, one message  *)
(* and one mark per transaction, and a trace an operator reads.            *)
(*                                                                         *)
(* The cron calls it; nothing keeps two passes from running at once.       *)
(***************************************************************************)
EXTENDS Naturals

CONSTANTS
    Essais,        \* companies whose trial comes to an end
    Relances,      \* invitations whose deadline comes
    Refusees,      \* those no message ever leaves for
    MaxArrets,     \* bound: times the process stops
    Requetes       \* passes that may run at once

ASSUME DomainesAssumption ==
    /\ Essais \cap Relances = {}
    /\ Refusees \subseteq Essais \cup Relances
    /\ MaxArrets \in Nat

VARIABLES
    cibles,      \* what became of each reminder
    traces,      \* the last row of passes_quotidiennes each caller wrote
    erreurs,     \* whether a task of the pass failed, in memory
    lues,        \* what the pass found due
    passes,      \* where each pass is
    arrets       \* times the process stopped

vars == <<cibles, traces, erreurs, lues, passes, arrets>>
memoire == <<erreurs, lues>>

Cibles == Essais \cup Relances

\* A reminder is due once; its mark, or what ends its reason, is for good.
Etat == {"attente", "due", "marquee", "close"}

Trace == [fin: BOOLEAN, erreur: BOOLEAN]

Tache == {"finsEssai", "relancesSoumissions"}
Cible(tache) == IF tache = "finsEssai" THEN Essais ELSE Relances

Passe ==
         [etat: {"repos", "conclusion"}]
    \cup [etat: {"tache"}, tache: Tache]
    \cup [etat: {"boucle"}, tache: Tache, reste: SUBSET Cibles]
    \cup [etat: {"inscription", "envoi"}, tache: Tache, reste: SUBSET Cibles, c: Cibles]

Garder(q, p) == passes' = [passes EXCEPT ![q] = p]
En(q, etat) == passes[q].etat = etat

\* The row a transaction has written is locked until it ends.
Tenue(c) == \E q \in Requetes : En(q, "envoi") /\ passes[q].c = c

(***************************************************************************)
(* What makes a reminder due, and what ends its reason                     *)
(***************************************************************************)
Echoir(c) ==
    /\ cibles[c] = "attente"
    /\ cibles' = [cibles EXCEPT ![c] = "due"]
    /\ UNCHANGED <<traces, memoire, passes, arrets>>

Clore(c) ==
    /\ cibles[c] \in {"attente", "due"} /\ ~Tenue(c)
    /\ cibles' = [cibles EXCEPT ![c] = "close"]
    /\ UNCHANGED <<traces, memoire, passes, arrets>>

(***************************************************************************)
(* PasseQuotidienneService.executer                                        *)
(***************************************************************************)
Ouvrir(q) ==
    /\ En(q, "repos")
    /\ traces' = [traces EXCEPT ![q] = [fin |-> FALSE, erreur |-> FALSE]]
    /\ erreurs' = [erreurs EXCEPT ![q] = FALSE]
    /\ lues' = [lues EXCEPT ![q] = {}]
    /\ Garder(q, [etat |-> "tache", tache |-> "finsEssai"])
    /\ UNCHANGED <<cibles, arrets>>

\* The two SQL functions: what is due now, in no order.
LireCibles(q, t) ==
    LET dues == {c \in Cible(t) : cibles[c] = "due"}
    IN /\ En(q, "tache") /\ passes[q].tache = t
       /\ Garder(q, [etat |-> "boucle", tache |-> t, reste |-> dues])
       /\ lues' = [lues EXCEPT ![q] = @ \cup dues]
       /\ UNCHANGED <<cibles, traces, erreurs, arrets>>

\* A task that fails leaves its turn to the next one.
Apres(tache) ==
    IF tache = "finsEssai" THEN [etat |-> "tache", tache |-> "relancesSoumissions"]
    ELSE [etat |-> "conclusion"]

\* Mutant: a task that fails ends the pass.
Echouer_Passe(q) ==
    /\ passes[q].etat \in {"tache", "inscription", "envoi"}
    /\ erreurs' = [erreurs EXCEPT ![q] = TRUE]
    /\ Garder(q, [etat |-> "conclusion"])
    /\ UNCHANGED <<cibles, traces, lues, arrets>>

\* Mutant: the error of a task is logged and forgotten.
Echouer_SansTrace(q) ==
    /\ passes[q].etat \in {"tache", "inscription", "envoi"}
    /\ Garder(q, Apres(passes[q].tache))
    /\ UNCHANGED <<cibles, traces, memoire, arrets>>

\* The error leaves the whole loop of the task, rows that remain included.
Echouer(q) ==
    /\ passes[q].etat \in {"tache", "inscription", "envoi"}
    /\ erreurs' = [erreurs EXCEPT ![q] = TRUE]
    /\ Garder(q, Apres(passes[q].tache))
    /\ UNCHANGED <<cibles, traces, lues, arrets>>

Suivre(q) ==
    /\ En(q, "boucle") /\ passes[q].reste = {}
    /\ Garder(q, Apres(passes[q].tache))
    /\ UNCHANGED <<cibles, traces, memoire, arrets>>

Conclure(q) ==
    /\ En(q, "conclusion")
    /\ traces' = [traces EXCEPT ![q] = [fin |-> TRUE, erreur |-> erreurs[q]]]
    /\ Garder(q, [etat |-> "repos"])
    /\ UNCHANGED <<cibles, erreurs, lues, arrets>>

(***************************************************************************)
(* One reminder                                                            *)
(***************************************************************************)
Traitee(q, c) == [etat |-> "boucle", tache |-> passes[q].tache, reste |-> passes[q].reste \ {c}]
Vers(q, c, etat) ==
    [etat |-> etat, tache |-> passes[q].tache, reste |-> passes[q].reste, c |-> c]

\* Mutant: relancer takes the row another pass is marking for marked.
Marquer_Tenue(q, c) ==
    /\ En(q, "boucle") /\ passes[q].tache = "relancesSoumissions"
    /\ c \in passes[q].reste
    /\ Garder(q, IF cibles[c] = "marquee" \/ Tenue(c) THEN Traitee(q, c) ELSE Vers(q, c, "envoi"))
    /\ UNCHANGED <<cibles, traces, memoire, arrets>>

\* relancer: the mark is set first, if nobody set it.  Whether the company
\* answered since the list was read is not looked at again.
Marquer(q, c) ==
    /\ En(q, "boucle") /\ passes[q].tache = "relancesSoumissions"
    /\ c \in passes[q].reste /\ ~Tenue(c)
    /\ Garder(q, IF cibles[c] = "marquee" THEN Traitee(q, c) ELSE Vers(q, c, "envoi"))
    /\ UNCHANGED <<cibles, traces, memoire, arrets>>

\* avertirFinEssai, then envoyerUneFois: the subscription and the mark are
\* read.
LireDeja(q, c) ==
    /\ En(q, "boucle") /\ passes[q].tache = "finsEssai"
    /\ c \in passes[q].reste
    /\ Garder(q, IF cibles[c] = "due" THEN Vers(q, c, "inscription") ELSE Traitee(q, c))
    /\ UNCHANGED <<cibles, traces, memoire, arrets>>

\* The unique key refuses the second mark (then the action is Echouer).
Inscrire(q) ==
    /\ En(q, "inscription")
    /\ ~Tenue(passes[q].c) /\ cibles[passes[q].c] # "marquee"
    /\ Garder(q, Vers(q, passes[q].c, "envoi"))
    /\ UNCHANGED <<cibles, traces, memoire, arrets>>

\* The message left, or there was nobody to write to: the mark stays.
Envoyer(q, c) ==
    /\ En(q, "envoi") /\ passes[q].c = c
    /\ c \notin Refusees
    /\ cibles' = [cibles EXCEPT ![c] = IF @ = "close" THEN "close" ELSE "marquee"]
    /\ Garder(q, Traitee(q, c))
    /\ UNCHANGED <<traces, memoire, arrets>>

(***************************************************************************)
(* The process                                                             *)
(***************************************************************************)
\* What is in flight is rolled back; the traces stay without an end.
Arreter ==
    /\ arrets < MaxArrets
    /\ arrets' = arrets + 1
    /\ passes' = [q \in Requetes |-> [etat |-> "repos"]]
    /\ UNCHANGED <<cibles, traces, memoire>>

Init ==
    /\ cibles = [c \in Cibles |-> "attente"]
    /\ traces = [q \in Requetes |-> [fin |-> FALSE, erreur |-> FALSE]]
    /\ erreurs = [q \in Requetes |-> FALSE]
    /\ lues = [q \in Requetes |-> {}]
    /\ passes = [q \in Requetes |-> [etat |-> "repos"]]
    /\ arrets = 0

\* What the pass does when nothing fails, the messages apart.
Avancer(q) ==
    \/ Suivre(q)
    \/ Conclure(q)
    \/ \E c \in Cibles : Marquer(q, c) \/ LireDeja(q, c)
    \/ Inscrire(q)

Next ==
    \/ \E c \in Cibles : Echoir(c) \/ Clore(c)
    \/ \E q \in Requetes : \/ Ouvrir(q) \/ Avancer(q) \/ Echouer(q)
                           \/ \E t \in Tache : LireCibles(q, t)
                           \/ \E c \in Cibles : Envoyer(q, c)
    \/ Arreter

Spec == Init /\ [][Next]_vars

(***************************************************************************)
(* The cron calls again and again and what the pass does goes on; a        *)
(* message that is refused at times ends up leaving when it is tried       *)
(* again and again, and so does the query that lists what is due.  Nothing *)
(* is assumed of Refusees, and the process stops a bounded number of       *)
(* times.                                                                  *)
(***************************************************************************)
Equite ==
    \A q \in Requetes :
        /\ WF_vars(Ouvrir(q))
        /\ WF_vars(Avancer(q) \/ Echouer(q))
        /\ \A t \in Tache : SF_vars(LireCibles(q, t))
        /\ \A c \in Cibles : SF_vars(Envoyer(q, c))

FairSpec == Spec /\ Equite

(***************************************************************************)
(* Properties                                                              *)
(***************************************************************************)
TypeOK ==
    /\ cibles \in [Cibles -> Etat]
    /\ traces \in [Requetes -> Trace]
    /\ erreurs \in [Requetes -> BOOLEAN]
    /\ lues \in [Requetes -> SUBSET Cibles]
    /\ passes \in [Requetes -> Passe]
    /\ arrets \in 0..MaxArrets

\* PasseQuotidienneService.executer, "elle echoue en silence si on la laisse
\* faire": a trace that ends without an error says that nothing it found due
\* still is, whatever other passes do at the same time.
TraceFidele ==
    \A q \in Requetes :
        (traces[q].fin /\ ~traces[q].erreur) => \A c \in lues[q] : cibles[c] # "due"

\* "Une tache qui echoue n'empeche pas les autres de tourner": the reminders
\* of the second task leave, even if the first one fails every night.
RelancesParties == \A c \in Relances : cibles[c] = "due" ~> cibles[c] # "due"
=============================================================================
