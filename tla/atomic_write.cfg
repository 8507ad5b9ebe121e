\* Successive writes, each failing or killed at any step.
SPECIFICATION Spec
CONSTANTS
    Contents = {t1, t2, t3, t4}
    Partial = Partial
INVARIANTS
    WriterInv
PROPERTIES
    ImplementsAtomicFile
