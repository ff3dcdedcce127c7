SPECIFICATION FairSpec
CONSTANTS
    Essais = {e1}
    Relances = {r1}
    Refusees = {e1}
    MaxArrets = 1
    Requetes = {q1, q2}
INVARIANTS
    TraceFidele
PROPERTIES
    RelancesParties
