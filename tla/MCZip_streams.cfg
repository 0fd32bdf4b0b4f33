SPECIFICATION ZipSpec
CONSTANTS
    a = a
    b = b
    Ids = {a, b}
    MaxItems = 3
    QueueSize = 1
INVARIANTS
    NeverBothWaiting
    ItemsAccounted
PROPERTY StreamsDrained
