SPECIFICATION Spec
CONSTANTS
    Dossiers = {d1}
    Externes = {}
    Etapes = {}
    StatutsEmis = {"RESERVE"}
    Prix = {100}
    PrixEmis = {NUL}
    PrixLot = 100
    Contrats = {"kolabimo"}
    MaxEmissions = 1
    EnOrdre = TRUE
    Pannes = FALSE
    Requetes = {q1}
    NUL = NUL
PROPERTIES
    RejouableALaMain
