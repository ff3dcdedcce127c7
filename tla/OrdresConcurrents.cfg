SPECIFICATION Spec
CONSTANTS
    Factures = {f1}
    Montants = {100}
    Retenue = 10
    Versements = {100}
    DtNommee = FALSE
    PlafondSaisi = 100
    MaxOrdres = 2
    Messages = {m1, m2}
    Requetes = {q1, q2}
    NUL = NUL
    OMIS = OMIS
SYMMETRY Symetrie
INVARIANTS
    TypeOK
    SortieVisee
