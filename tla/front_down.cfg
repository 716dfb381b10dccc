\* Two clients, one certificate that never changes.
SPECIFICATION FairFrontSpec
CONSTANTS
    Clients = {c1, c2}
    Conns = {c1, c2}
    Versions = {v1}
    Times = {1}
    Torn = Torn
    Gone = Gone
    None = None
    Free = Free
PROPERTY Sniffed
