SPECIFICATION DeliverySpec
CONSTANTS
    p1 = p1
    p2 = p2
    m1 = m1
    m2 = m2
    m3 = m3
    Consumer = {c1}
    Once = {}
    Partition = {p1, p2}
    Payload = {m1, m2, m3}
    Rejected = {m3}
    Unstorable = {}
    BatchSize = 2
    Attempts = 1
    MaxLog = 2
    None = none
    Day <- TwoDays
    Delivery <- TwoDeliveries
    Stray = {m3}
    PartitionOf <- Hashed
    Retries = 0
INVARIANTS DeliveryInv AssetMeansStored
