SPECIFICATION Spec
CONSTANTS
    Handlers = {"h1"}
    Messages = {"m1", "m2"}
    Tags = {"arm", "leg"}
    Ranges = {"all"}
    Durations = {"15", "30"}
    Overlays = {"yes", "no"}
    Unset = "unset"
    NoMessage = NoMessage
INVARIANT NoKeyError
INVARIANT IInv
PROPERTY ReelMatchesLastSummary
