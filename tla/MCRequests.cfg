CONSTANT
    None = None
    AtOnce = 2
SPECIFICATION Spec
INVARIANTS TypeOK ArrivesAsAsked NothingDropped InvalidNeverSent 
