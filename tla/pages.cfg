SPECIFICATION Spec
CONSTANTS
  Chars <- MCChars
  Keys <- MCKeys
  Texts <- MCTexts
  MaxAdds = 3
  MaxOpen = 3
  Names <- MCNames
  Values <- MCValues
  MaxFields = 3
  Samples <- MCSamples
  Contents <- MCContents
  HTML <- MCHTML
  Asked <- MCAsked
  MaxWritten = 4
  Variables <- MCKeys
  Operands <- MCOperands
  Responses <- MCResponses
  MaxParts = 3
INVARIANTS
  RoundTrip
  PaddedRoundTrip
  CommasConfined
  FieldsArrive
  
  ParsedAsWritten
  FittingPageShown
  FailedCallShown
  ConditionsLeftToRight
CHECK_DEADLOCK FALSE
