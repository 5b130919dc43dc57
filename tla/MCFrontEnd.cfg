SPECIFICATION Spec
CONSTANT Programs <- MCPrograms
INVARIANTS
    ScopesAreClosed
    NamesAreDeclared
    CapturesAreRejected
    JumpsStayHome
    NothingIsSkipped
    TypesFit
    PrivateStaysPrivate
    OnlyKnownCrashes
PROPERTY StaleTypesDoNotDecide
CHECK_DEADLOCK FALSE
