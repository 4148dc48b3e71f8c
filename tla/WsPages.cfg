SPECIFICATION FairSpec

CONSTANTS
    Pages = {P, Q}
    Viewer = P
    P = P
    Q = Q
    Fds <- MCFds
    NoFd = NoFd
    Nobody = Nobody
    MaxWork = 2
    MaxState = 2

INVARIANTS
    SpeakerServed

PROPERTIES
    BroadcastsInOrder
    SpeakerLearns
