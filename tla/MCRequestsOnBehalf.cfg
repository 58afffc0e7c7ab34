CONSTANT
    None = None
    AtOnce = 1
SPECIFICATION Spec
INVARIANT OnBehalfOfHonoured
