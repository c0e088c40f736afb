SPECIFICATION Spec
CONSTANTS
  Symbol <- LetterSymbols
  Null = Null
  FirstName <- BracedName
  Title <- StaffTitle
  StartDate <- AgreedDate
  Texts <- PlainTexts
  Names <- UsedNames
  Fallbacks <- Wordings
  Starts <- RaisedFrom
  MaxPieces = 2
CHECK_DEADLOCK FALSE
INVARIANTS
  GroupedByThousands
  ReadsBackInCents
  RendersPieceByPiece
  UnterminatedIsLiteral
