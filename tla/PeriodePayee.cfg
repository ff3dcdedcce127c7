SPECIFICATION SpecAbonne
CONSTANTS
    Modules = {chantier, ventes}
    MaxAbonnements = 1
    MaxEvenements = 2
    MaxSessions = 1
    Horizon = 2
    MaxPannes = 0
    Requetes = {q1, q2}
    NUL = NUL
INVARIANTS
    PeriodePayee
CHECK_DEADLOCK FALSE
