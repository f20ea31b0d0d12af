SPECIFICATION FairSpec
CONSTANTS
  MaxMinimised = 2
  MaxConnects = 3
INVARIANTS OneListener EndsInOrder
PROPERTIES ClosingEnds ShowingListens
CHECK_DEADLOCK FALSE
