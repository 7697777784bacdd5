CONSTANTS
  Programs <- CallPrograms
  MainFile = "a"
  StackSize = 18
  StackReach = 22
  Stray <- HeapWords
  StrayReach = 4
  Heaps <- FreedSignatures
  ParsedFile <- ParseFile
  TypecheckNode <- Typecheck
  BytecodeOf <- GenUnit
  Prints <- Printing
SPECIFICATION Spec
INVARIANT OrderIndependent
