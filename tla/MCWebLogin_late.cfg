CONSTANTS
    Attempts = {a1}
    Sessions = {s1}
    Calls = {c1, c2}
    Tabs = {t1}
    Null = Null
    Erase = Erase
SYMMETRY Symmetry
SPECIFICATION Spec
PROPERTIES
    LateInspectionKeepsLogin
