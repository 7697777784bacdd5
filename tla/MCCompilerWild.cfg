CONSTANTS
  Programs <- WildPrograms
  MainFile = "a"
  StackSize = 14
  StackReach = 18
  Stray <- HeapWords
  StrayReach = 4
  Heaps <- FreedSignatures
  ParsedFile <- ParseFile
  TypecheckNode <- Typecheck
  BytecodeOf <- GenUnit
  Prints <- Printing
SPECIFICATION Spec
INVARIANTS TypeOK NodesHandledOnce NoneForgotten ProceduresCompiled ValuesMatchClasses
INVARIANT HandlersKeep
PROPERTIES ClassesFixed InitializersBeginOnce CrashesExplained
