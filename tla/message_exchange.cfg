SPECIFICATION Spec
CONSTANTS
    CanonicalHash <- Hashes
    Messages <- SomeMessages
    ForeignWires <- SomeForeignWires
    Registrations <- SomeRegistrations
    MaxRegistered = 2
    MaxHops = 3
INVARIANTS
    MessageTypeOK
    ArrivesAsComposed
    NothingBlank
    RefusedForCause
    CatalogTells
CHECK_DEADLOCK FALSE
