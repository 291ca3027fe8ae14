CONSTANTS
    Addresses = {1}
    Configurations = {0, 1}
    Settings = {1}
    Lines = {0, 1}
    MaxSettings = 2
SPECIFICATION Spec
INVARIANTS Agreement AnswerTrue EraseAsTold ConfiguredIsSetUp
PROPERTIES AnswerFresh AddressAfterStatus RequestEnds 
CHECK_DEADLOCK FALSE
