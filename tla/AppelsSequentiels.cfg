SPECIFICATION Spec
CONSTANTS
    Reservations = {r1}
    Lots = {l1}
    Etapes = {e1, e2}
    Prix = {100, 200}
    Pourcentages = {5000}
    Versements = {40}
    PlafondRecu = 80
    StatutsSaisis = {"OPTION", "RESERVE"}
    Requetes = {q1}
    NUL = NUL
    OMIS = OMIS
INVARIANTS
    AssietteFigee
    StatutSelonRecu
PROPERTIES
    AppelSurEngagee
