SPECIFICATION Spec
CONSTANTS
    Factures = {f1, f2}
    Montants = {100}
    Retenue = 10
    Versements = {60, 100}
    DtNommee = TRUE
    PlafondSaisi = 100
    MaxOrdres = 2
    Messages = {m1, m2}
    Requetes = {q1}
    NUL = NUL
    OMIS = OMIS
SYMMETRY Symetrie
INVARIANTS
    OrdreVivantUnique
    UnFichierParOrdre
    PaiementsSansOrphelin
PROPERTIES
    VirementUnique
    TransmisDefinitif
    PassageSolde
    RienNEcrase
