INIT MCInit
NEXT MCNext
CONSTANTS
    Methods = {m1, m2, rpc}
    Discover = rpc
    Guards = {g1, g2, g3, h1}
    None = None
    Serves = {s1}
    s1 = s1
    g1 = g1
    g2 = g2
    g3 = g3
    GuardsOf <- MCGuardsOf
    Requests = {r1}
    Emitters = {e1, e2}
    Keys = {k1, k2}
    Subs = {t1}
    MaxKeys = 1
    MaxEmits = 3
    MaxEvents = 2
INVARIANTS NoOrphan ServedAsDeclared GoneServeAnswersNothing SequencesAreContiguous StreamsAreComplete
PROPERTIES NothingAfterClose
