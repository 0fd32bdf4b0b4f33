SPECIFICATION ReaderSpec
CONSTANTS
    FrameKinds <- MCFrameKinds
    MaxFrames = 3
INVARIANT EveryFrameVisited
