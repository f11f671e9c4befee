SPECIFICATION Spec
CONSTANTS
    Programs <- LambdaInPlace
    MaxOpStack = 20
    MaxFrames = 40
    MaxPool = 80
INVARIANT SlotsThere
