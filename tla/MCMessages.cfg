\* Every class that is packed, with lists of up to three elements.
SPECIFICATION Spec
CONSTANTS
    Classes <- PackedClasses
    MaxCount = 3
INVARIANTS
    TypeOK
    PacketIsFull
    AsDocumented
    Arrives
