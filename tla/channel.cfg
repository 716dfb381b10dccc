\* One query at a time on two connections, in both modes and with both daemons. A
\* packet of {a} fits, that of {a, b} is cut, {a, b, c} cannot be encoded.
SPECIFICATION FairChannelSpec
CONSTANTS
    Queries = {q1}
    Conns = {c1, c2}
    NoConn = NoConn
    Addrs = {a, b, c}
    V6 = {b, c}
    Requests = {{a}, {a, b}, {a, b, c}}
    TableLen = 3
    MaxIPs = 2
    GoBuffer = 40
    CBuffer = 40
    BufCap = 1
    PoolCap = 1
INVARIANT ChannelTypeOK
INVARIANT ClaimsAccounted
INVARIANT NoStrayAck
PROPERTY ChannelReturns
PROPERTY QueueServed
PROPERTY HandlersEnd
