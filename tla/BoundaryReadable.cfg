SPECIFICATION Spec
CONSTANTS
    Bodies <- ManyBodies
    Products <- OneProduct
    SeedRows <- SeedTransfer
    FirstSeed <- SeedDelivery
    MaxInteger = 2
    MaxBigint = 8
    Questions <- IdsAndPages
    MaxRows = 3
INVARIANTS
    BoundaryTypeOK
    DtoDecides
    UnreadableOnlyFromSeed
PROPERTIES
    RefusalLeavesNoRow
