SPECIFICATION FairSpec
CONSTANTS
    h1 = h1  h2 = h2  b1 = b1  b2 = b2
    upper = upper  lower = lower  lowerNL = lowerNL
    Handles = {h1, h2}
    Bindings = {b1, b2}
    Spellings = {upper, lower, lowerNL}
    Upper = upper
    Newline = {lowerNL}
    NoHandle = NoHandle
    NoCall = NoCall
    MixedReleases = FALSE
INVARIANT IInv
INVARIANT IsClaimedSeesEverySpelling
INVARIANT SpellingSettledOnce
PROPERTY SingleUseSpec
PROPERTY CallAnswered
PROPERTY WriteLockReleased
