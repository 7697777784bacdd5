CONSTANTS
  Programs <- SoundPrograms
  MainFile = "a"
  StackSize = 18
  StackReach = 22
  Stray <- HeapWords
  StrayReach = 4
  Heaps <- FreedSignatures
  ParsedFile <- ParseFile
  TypecheckNode <- Typecheck
  BytecodeOf <- GenUnit
  Prints <- Printing
SPECIFICATION Spec
INVARIANTS OrderIndependent GivesUpSoundly HandlersKeep CodeDisciplined
INVARIANTS ValuesMatchClasses InitializersRunOnce StackBalanced NeverCrashes
PROPERTIES Terminates ValuedWhenDone
