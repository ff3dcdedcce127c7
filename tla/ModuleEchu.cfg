SPECIFICATION SpecAbonne
CONSTANTS
    Modules = {chantier, ventes}
    MaxAbonnements = 1
    MaxEvenements = 2
    MaxSessions = 1
    Horizon = 2
    MaxPannes = 0
    Requetes = {q1}
    NUL = NUL
INVARIANTS
    FermeAuTerme
CHECK_DEADLOCK FALSE
