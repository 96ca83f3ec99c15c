SPECIFICATION Spec
CONSTANTS
    Consumer = {c1, c2}
    Once = {}
    Partition = {p1, p2}
    Payload = {ok, bad, odd}
    Rejected = {bad}
    Unstorable = {odd}
    BatchSize = 2
    Attempts = 1
    MaxLog = 2
    None = none
INVARIANTS TypeOK NoLossInv
PROPERTIES OffsetsOnlyRewound LedgerSpec
SYMMETRY Symmetry
