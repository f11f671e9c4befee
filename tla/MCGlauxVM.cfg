SPECIFICATION Spec
CONSTANTS
    Programs <- MCPrograms
    MaxOpStack = 20
    MaxFrames = 40
    MaxPool = 80
INVARIANTS TypeOK CodeVerifies OperandsThere SlotsThere RecordsMatchScopes AllLeft OutputAsMeant
PROPERTIES CallsAnswered ReturnsToCaller MethodOfReceiver Terminates
