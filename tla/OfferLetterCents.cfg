SPECIFICATION Spec
CONSTANTS
  Symbol <- LetterSymbols
  Null = Null
  FirstName <- BracedName
  Title <- StaffTitle
  StartDate <- AgreedDate
  Texts <- PlainTexts
  Names <- UsedNames
  Fallbacks <- Wordings
  Starts = {999}
  MaxPieces = 0
CHECK_DEADLOCK FALSE
INVARIANTS
  CommaForCents
