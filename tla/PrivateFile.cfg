\* Three concurrent calls on one path.
SPECIFICATION Spec
CONSTANTS
    Calls = {c1, c2, c3}
    TempNames = {n1, n2, n3}
    Dest = Dest
    Old = Old
    Link = Link
    Absent = Absent
    NoName = NoName
INVARIANTS TypeOK DestComplete DiskComplete AckedDurable NoLitter
PROPERTIES Cleanup LinkKept ImplementsRegister
SYMMETRY Symmetry
