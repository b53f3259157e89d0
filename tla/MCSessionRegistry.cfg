CONSTANTS
    Socket = {s1, s2, s3}
    Room = {r1, r2}
    Name = {ann}
    NoName = none
SPECIFICATION RegistrySpec
SYMMETRY Symmetry
INVARIANTS
    RegistryTypeOK
    NoDuplicates
    NoPhantomMember
    NoLostMember
PROPERTIES
    OthersUndisturbed
CHECK_DEADLOCK TRUE
