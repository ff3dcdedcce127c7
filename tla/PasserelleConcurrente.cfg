SPECIFICATION Spec
CONSTANTS
    Dossiers = {d1}
    Externes = {d1}
    Etapes = {}
    StatutsEmis = {"RESERVE"}
    Prix = {100}
    PrixEmis = {NUL}
    PrixLot = 100
    Contrats = {"kolabimo", "interne"}
    MaxEmissions = 2
    EnOrdre = FALSE
    Pannes = FALSE
    Requetes = {q1, q2}
    NUL = NUL
INVARIANTS
    TypeOK
    TraitementUnique
    ExterneUnique
    TraiteAdosse
PROPERTIES
    ActeDefinitif
SYMMETRY Symetrie
