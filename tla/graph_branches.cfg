SPECIFICATION GraphSpec
CONSTANTS
  v1 = v1
  v2 = v2
  MaxNodes = 4
  Drafts <- MCFork
  Assignees <- TwoAssignees
  MaxIterations = 1
INVARIANT BranchesAreKept
CHECK_DEADLOCK FALSE
