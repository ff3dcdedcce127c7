SPECIFICATION Spec
CONSTANTS
    q1 = q1
    q2 = q2
    p1 = p1
    p2 = p2
    m1 = m1
    e1 = e1
    e2 = e2
    u1 = u1
    u2 = u2
    u3 = u3
    l1 = l1
    l2 = l2
    r1 = r1
    s1 = s1
    s2 = s2
    NUL = NUL
    OMIS = OMIS
INVARIANTS
    TypeOK
    FacturesJustifiees
    AbonnementTenu
    AccesSains
    DossiersSains
    CalculsExacts
PROPERTIES
    SoumissionsTenues
    AccesTenus
    BudgetTenu
    DossiersTenus
CHECK_DEADLOCK FALSE
