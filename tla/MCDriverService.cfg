SPECIFICATION FairSpec
CONSTANTS
  p1 = p1  p2 = p2  p3 = p3
  here = here  there = there
  Programs = {p1, p2, p3}
  Dirs = {here, there}
  DirOf <- WorkIn
  NoOne = NoOne
  Free = Free  Leaving = Leaving  Abandoned = Abandoned
INVARIANTS
  OneProgramOpens
  NotUnloadedInUse
  NothingLeftBehind
PROPERTIES
  ImplementsOwnedService
  ServiceRemoved
