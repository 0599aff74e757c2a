SPECIFICATION Spec
CONSTANTS
    t1 = t1 t2 = t2 t3 = t3 m1 = m1 m2 = m2 m3 = m3 c1 = c1 c2 = c2
    Task = {t1}
    DepOf <- OneTask
    Machine = {m1, m2, m3}
    Call = {c1, c2}
    MaxDeaths = 2
    MaxDiscards = 1
SYMMETRY Symmetry
INVARIANTS OkMeansAvailable
