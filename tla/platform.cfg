SPECIFICATION PlatformSpec
CONSTANTS
  p1 = p1
  p2 = p2
  p3 = p3
  q1 = q1
  q2 = q2
  v1 = v1
  v2 = v2
  NoAuth = NoAuth
  AuthRequests <- TwoRequests
  Codes <- OneCode
  MAX_FAILED_ATTEMPTS = 2
  MAX_SESSIONS_PER_USER = 2
  MaxTokens = 4
  MaxTickets = 1
  MaxBatches = 2
  NoCall = NoCall
  Callers <- TwoRequests
  Configured <- MCConfigured
  failure_threshold = 2
  half_open_successes = 2
  half_open_max_trials = 1
  Budget = 1
  MaxBlind = 1
  NoPrompt = NoPrompt
  Versions <- ThreeVersions
  PromptRequests <- TwoRequests
  MaxReservations = 3
  MaxRuns = 3
  MaxNodes = 3
  Drafts <- MCDrafts
  Assignees <- TwoAssignees
  MaxIterations = 1
INVARIANTS
  PlatformTypeOK
  FamilyEndsWhole
  SessionsAreBounded
  PromptsAreGoverned
  CallsAreLimited
  PlansRunAsDrawn
CONSTRAINT PlatformBound
SYMMETRY RequestSymmetry
CHECK_DEADLOCK FALSE
