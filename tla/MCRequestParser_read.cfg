CONSTANTS
    CharOf <- SomeEscapes
    Sessions <- SmallSessions
    Mappings <- SmallMappings
    Methods <- HttpMethods
    MAX_REQ_SIZE = 40
SPECIFICATION Spec
INVARIANTS
    TypeOK
    Faithful
    Routed
    NotEarly
    Answered
    SizeLimited
