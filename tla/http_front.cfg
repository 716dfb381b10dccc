\* Two clients and the files of two certificates, replaced at any moment and with
\* either of two modification times.
SPECIFICATION FairFrontSpec
CONSTANTS
    Clients = {c1, c2}
    Conns = {c1, c2}
    Versions = {v1, v2}
    Times = {1, 2}
    Torn = Torn
    Gone = Gone
    None = None
    Free = Free
INVARIANT FrontTypeOK
INVARIANT NoMissedCert
INVARIANT NewPairServed
INVARIANT WaitBounded
PROPERTY HeardOrDown
PROPERTY HandshakesEnd
