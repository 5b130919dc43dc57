CONSTANTS
  Places <- MCPlaces
  Names <- MCNames
  Entry = "main"
  Beside <- MCBeside
  Included <- MCIncluded
  LibOf <- MCLibOf
  Systems <- MCSystems
  TextsOf <- MCTexts
  Unread = Unread
  None = None
SPECIFICATION Spec
CHECK_DEADLOCK FALSE
INVARIANT ProcessedOnce
