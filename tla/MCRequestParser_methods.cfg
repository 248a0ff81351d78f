CONSTANTS
    CharOf <- SomeEscapes
    Sessions <- HelloSessions
    Mappings <- HelloMappings
    Methods <- HttpMethods
    MAX_REQ_SIZE = 41
SPECIFICATION Spec
INVARIANT OnlyMapped
