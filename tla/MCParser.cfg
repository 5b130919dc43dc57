SPECIFICATION Spec
CONSTANT Sources <- MCSources
INVARIANTS
    TypeOK
    EverythingIsRead
    TokensTileTheText
    TokensAreLongest
    OperatorsBind
    EveryNameIsKept
    RepeatedTargetIsPure
    NullTypesStayLocal
PROPERTY ParseEnds
CHECK_DEADLOCK FALSE
