SPECIFICATION FairDeliverySpec
CONSTANTS
    p1 = p1
    p2 = p2
    m1 = m1
    m2 = m2
    m3 = m3
    Consumer = {c1}
    Once = {}
    Partition = {p1, p2}
    Payload = {m1, m2, m3}
    Rejected = {m3}
    Unstorable = {}
    BatchSize = 2
    Attempts = 2
    MaxLog = 4
    None = none
    Day <- OneDay
    Delivery <- UnreadableToo
    Stray = {}
    PartitionOf <- OnePartition
    Retries = 1
PROPERTIES EverythingSettles DeliveryCompletes
