\* A new component that nobody else touches.
CONSTANTS
    CallsParts = FALSE
    CtxEnds = FALSE
SPECIFICATION Spec
INVARIANT StartSucceeds
