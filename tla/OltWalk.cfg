\* Two walks of one OLT with up to two interfaces, created once, removed at any
\* time.
SPECIFICATION FairSpec
CONSTANTS
    Walk = {w1, w2}
    IfIndex = {i1, i2}
INVARIANTS TypeOK WalkingMeansWalking InterfacesReplaced
PROPERTIES WalksEnd WalkingSettles
