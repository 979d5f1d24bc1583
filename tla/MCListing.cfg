SPECIFICATION Spec
CONSTANTS
    Clips = {1, 2}
    Cached = {1}
    Listings = {"l1", "l2"}
    Handlers = {"h1", "h2"}
    Limit = 1
INVARIANT IInv
INVARIANT GoneIsGone
INVARIANT LossNeedsFailure
PROPERTY KeepsPromise
PROPERTY ConfirmSettles
CHECK_DEADLOCK FALSE
