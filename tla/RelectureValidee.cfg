SPECIFICATION Spec
CONSTANTS
    Pieces = {p1}
    Messages = {}
    PiecesDe <- AucunePiece
    Montants <- MontantSeul
    Base = "HT"
    Commande = 100
    DtNommee = FALSE
    MaxVisas = 0
    MaxLectures = 1
    Requetes = {q1}
    NUL = NUL
PROPERTIES
    ValideeNonRelue
