CONSTANTS
  Places <- MCPlaces
  Names <- MCNames
  Entry = "main"
  Beside <- MCBeside
  Included <- MCIncluded
  LibOf <- MCLibOf
  Systems <- MCSystems
  TextsOf <- MCTexts
  Unread = Unread
  None = None
SPECIFICATION FairSpec
CHECK_DEADLOCK FALSE
INVARIANTS TypeOK StackIsAChain VerdictIsRight DeclarationsInOrder
PROPERTY WalkEnds
