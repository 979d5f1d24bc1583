SPECIFICATION Spec
CONSTANTS
    Clips = {"v1", "v2"}
    Reels = {"r1", "r2"}
INVARIANT IInv
INVARIANT RecordedReelsPlayable
PROPERTY DoneIsTrue
PROPERTY CustodyMakesReel
PROPERTY StatusSettles
