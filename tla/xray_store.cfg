\* Two handlers, one tag, one subscription; every edit, ping, apply and fault.
SPECIFICATION FairXraySpec
CONSTANTS
    Handlers = {h1, h2}
    NoOne = NoOne
    Tags = {t1}
    NoTag = NoTag
    Subs = {s1}
    Manual = Manual
    Torn = Torn
    Stopped = Stopped
    Freedom = Freedom
    Picks = {t1}
    RuleSets = {{}}
    MaxNodes = 1
INVARIANT NoStaleEdit
INVARIANT DanglesOnlyBy
INVARIANT AppliedAsStored
PROPERTY ApplyRunsStored
PROPERTY RequestsEnd
