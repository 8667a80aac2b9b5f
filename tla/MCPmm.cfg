CONSTANTS
  PageSize = 2
  BitmapBits = 4
  MaxReserved = 2
  None = None
  Extents <- MCExtents
  RangeChoices <- MCRanges
SPECIFICATION Spec
INVARIANTS BitmapExact AnswersExact
PROPERTY HandedOutFresh
