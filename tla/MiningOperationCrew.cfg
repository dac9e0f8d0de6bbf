CONSTANTS
    m1 = m1
    m2 = m2
    h1 = h1
    r1 = r1
    o1 = o1
    o2 = o2
    Operations = {o1, o2}
    Miners = {m1, m2, r1}
    Haulers = {h1}
    OperationOf <- MCOperationOf
    Serviced = {o1}
    Stays = {o2}
    Targets = {t1}
    MaxStarts = 1
    MaxTroubles = 1
    None = None
SPECIFICATION Spec
INVARIANTS ClaimsKnown StoppedMeansHome
PROPERTIES TargetsOutliveTheWork NobodyLeftBehind
SYMMETRY MinersAlike
