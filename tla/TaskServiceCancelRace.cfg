SPECIFICATION Spec
CONSTANTS
    p1 = p1
    p2 = p2
    p3 = p3
    t1 = t1
    t2 = t2
    Posts = {p1, p2}
    Trips = {t1}
    TripOf <- SharedTrip
    Loads <- TwoOfOneTrip
    None = None
    MAX_CONCURRENT = 1
    MAX_QUEUE = 1
    WORKER_DEAD_SEC = 1
    TASK_TIMEOUT_SEC = 1
PROPERTIES
    CanceledIsFinal
