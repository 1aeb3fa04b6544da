\* Three requests of every kind, two options, a weather that turns and clears.
CONSTANTS
    k1 = k1
    k2 = k2
    k3 = k3
    o1 = o1
    o2 = o2
    n1 = n1
    n2 = n2
    fair = fair
    rain = rain
    NoKey = NoKey
    Keys = {k1, k2, k3}
    Options = {o1, o2}
    First = o1
    Notes = {n1, n2}
    Blank = n1
    Conditions = {fair, rain}
    Adverse = {rain}
    Fair = rain
    Kinds = {"select", "edit", "dismiss", "undo", "refresh"}
    MaxCalls = 3
SYMMETRY KeySymmetry
SPECIFICATION Spec
CHECK_DEADLOCK FALSE
INVARIANTS
    TypeOK
    LinearHistory
    OneAnswer
    UndoIsExact
    SkyMayImprove
