SPECIFICATION SpecSansArret
CONSTANTS
    Dossiers = {d1}
    Externes = {}
    Etapes = {e1}
    StatutsEmis = {"RESERVE", "ANNULEE"}
    Prix = {100, 200}
    PrixEmis = {200}
    PrixLot = 100
    Contrats = {"kolabimo"}
    MaxEmissions = 3
    EnOrdre = TRUE
    Pannes = TRUE
    Requetes = {q1}
    NUL = NUL
INVARIANTS
    UneLigneParDossier
    AssietteTenue
    AnnulationSansAppel
    MiroirFidele
PROPERTIES
    ToutConclu
