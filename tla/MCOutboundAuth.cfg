\* Two callers, tokens that grow old twice, every configuration.
SPECIFICATION LiveSpec
CONSTANTS
    Caller = {c1, c2}
    None = None
    TTL = 2
    Validity = 3
    Delay = 1
    MaxTime = 7
INVARIANTS AuthInv NoAnonymousSend
PROPERTIES SpacedFetches TokensUsable Served
