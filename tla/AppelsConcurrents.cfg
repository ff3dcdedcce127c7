SPECIFICATION Spec
CONSTANTS
    Reservations = {r1}
    Lots = {l1}
    Etapes = {e1}
    Prix = {100}
    Pourcentages = {5000}
    Versements = {25}
    PlafondRecu = 50
    StatutsSaisis = {"RESERVE"}
    Requetes = {q1, q2}
    NUL = NUL
    OMIS = OMIS
INVARIANTS
    TypeOK
    PayeEstSolde
    UniciteAppel
    LettreAdossee
PROPERTIES
    LettreUneFois
    ImplementeCreances
SYMMETRY Symetrie
