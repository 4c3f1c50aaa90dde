CONSTANTS
    Builders = {b1, b2}
    OptionLists <- SampleOptions
    Explicits <- SampleExplicits
    MaxUses = 2
SPECIFICATION Spec
INVARIANTS
    TypeOK
    SentIsValid
    SentIsConfigured
    BuiltClientsWork
