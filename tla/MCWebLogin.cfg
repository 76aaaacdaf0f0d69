\* One tab with two attempts and two sessions, or two tabs with one of each; two calls on their way.
CONSTANTS
    Attempts = {a1, a2}
    Sessions = {s1, s2}
    Calls = {c1, c2}
    Tabs = {t1, t2}
    Null = Null
    Erase = Erase
SYMMETRY Symmetry
CONSTRAINT OneThingAtATime
SPECIFICATION Spec
INVARIANTS
    PhaseMatchesSecrets
    SignOutIsFinal
PROPERTIES
    LoginsStand
