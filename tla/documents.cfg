SPECIFICATION DocumentsSpec
CONSTANTS
  s1 = s1  s2 = s2  v1 = v1  v2 = v2
  Heading = {s1, s2}  NoSection = NoSection  FactKeys = 2  FactValue = {v1, v2}  MaxLevel = 2
  MaxLines = 3  Patch <- SomePatches  NewValue <- SomeValues  Rewriter = {e1}  NoLines = NoLines
  Files = 3  Category <- SomeCategories  Quota <- SomeQuotas  Prefetch <- SomePrefetch
  FoldersOf <- SomeFolders  PathOrder <- OldestFirst  ListLimit = 2
  MaxSize = 2  MaxBytes = 6
INVARIANTS EditsAreLocal OmissionsShow
SYMMETRY EditSymmetry
