CONSTANTS
    None = None
    Clients = {page}
    MaxFires = 2
    Watch = Watch
    Rest = Rest
    Capacity = 1
    MaxWrites = 1
    MaxConnects = 2
SPECIFICATION Spec
PROPERTIES
    FeedCatchesUp
    
CHECK_DEADLOCK FALSE
