SPECIFICATION Spec
CONSTANTS
  MaxSize = 7
  MaxInt = 3
  None = None
  kAlphabetSize = 3
  Roles <- AllRoles
  Texts <- OptionTexts
  Garbage = {0, 5}
  Cpus = {0, 1}
INVARIANTS
  TypeOK
  StartsWhenComplete
  ChildrenAgree
  MessagesDiffer
CHECK_DEADLOCK FALSE
