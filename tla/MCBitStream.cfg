SPECIFICATION BitsSpec
CONSTANTS
  Widths <- MCWidths
  Words  <- MCWords
  MaxFields = 4
INVARIANTS
  InBounds
  SlackBounded
  RoundTrip
CHECK_DEADLOCK FALSE
