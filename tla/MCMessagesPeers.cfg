\* The answer with super peers and peers, lists of different lengths.
SPECIFICATION Spec
CONSTANTS
    Classes <- PeersOnly
    MaxCount = 2
INVARIANT
    PeersAreAllSent
