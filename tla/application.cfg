CONSTANTS
  Base = 2
  IntDigits = 4
  SizeDigits = 5
  MinFrame = 5
  MaxFrame = 7
  Header = 4
  Worlds <- AllWorlds
SPECIFICATION FairSpec
INVARIANTS IInv WholeWhenCopyable AnnouncedRight BarFits
PROPERTIES PortRestored Ends CopySpec
CHECK_DEADLOCK FALSE
