SPECIFICATION Spec
CONSTANTS
  BucketSize = 2
  BucketCount = 1
  Unwritten = Unwritten
  Letters <- LettersUsed
  Inputs <- Texts
INVARIANTS TokensTile AddressesRight Faithful Understood
PROPERTY EveryTextEnds
