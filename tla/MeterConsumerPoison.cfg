SPECIFICATION FairSpec
CONSTANTS
    Consumer = {c1}
    Once = {}
    Partition = {p1}
    Payload = {ok, odd}
    Rejected = {}
    Unstorable = {odd}
    BatchSize = 2
    Attempts = 1
    MaxLog = 2
    None = none
PROPERTIES StorableSettles
