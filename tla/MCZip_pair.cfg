SPECIFICATION ZipSpec
CONSTANTS
    a = a
    b = b
    Ids = {a}
    MaxItems = 2
    QueueSize = 2
INVARIANT OutputIsPair
