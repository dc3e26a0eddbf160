\* One apply, its list and another tool's read, while Desktop starts serving twice.
\* Fairness on continuations and timers only; Desktop and the caller owe nothing.
CONSTANTS
    list = list
    post = post
    other = other
    Calls <- ThreeCalls
    Mutating <- OnePost
    MaxEpoch = 2
    Listing = list
    Posting = post
    CallerPins = TRUE
SPECIFICATION ApplyFairSpec
CONSTRAINT OtherOnlyDisturbs
INVARIANT NamedInstanceServesBoth
PROPERTY EveryCallSettles
