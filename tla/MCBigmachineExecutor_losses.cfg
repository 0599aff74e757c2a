SPECIFICATION Spec
CONSTANTS
    t1 = t1 t2 = t2 t3 = t3 m1 = m1 m2 = m2 m3 = m3 c1 = c1 c2 = c2
    Task = {t1, t2, t3}
    DepOf <- Join
    Machine = {m1, m2}
    Call = {c1, c2}
    MaxDeaths = 1
    MaxDiscards = 1
SYMMETRY Symmetry
INVARIANTS TypeOK OkMeansAvailableUntilDiscard
PROPERTIES KeepsContract
