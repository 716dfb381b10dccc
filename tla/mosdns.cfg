\* Two handlers, one script, one domain, with failing writes and kills.
SPECIFICATION MosdnsSpec
CONSTANTS
    Handlers = {h1, h2}
    Scripts = {s1}
    d1 = d1
    Domains = {d1}
    Posts <- MCPosts
    Drafts <- MCDrafts
    Samples <- MCSamples
    Requests <- MCRequests
    Torn = Torn
    Down = Down
    NoOne = NoOne
    NoArg = NoArg
SYMMETRY MCSymmetry
INVARIANT RunsLatest
INVARIANT ConfigFollowsSettings
INVARIANT WholeConfigLoads
INVARIANT SimulatorExplained
INVARIANT MutexReturned
