SPECIFICATION RecordsSpec
CONSTANTS
  p1 = p1
  authorized = authorized
  captured = captured
  failed = failed
  refunded = refunded
  other = other
  unknown = unknown
  h1 = h1
  h2 = h2
  l1 = l1
  l2 = l2
  q1 = q1
  q2 = q2
  f1 = f1
  f2 = f2
  s1 = s1
  s2 = s2
  k1 = k1
  k2 = k2
  u1 = u1
  u2 = u2
  None = None
  Payments <- MCPayments
  Events <- MCEvents
  PaymentOf <- MCPaymentOf
  Target <- MCTarget
  Disagreeing <- MCDisagreeing
  Handlers <- MCHandlers
  MaxDeliveries = 5
  NoLead = NoLead
  Leads <- TwoRows
  LeadRequests <- TwoRequests
  PatchTargets <- MCPatchTargets
  MaxConverts = 2
  NoForm = NoForm
  FormIds <- TwoForms
  FormRequests <- TwoRequests
  Schemas <- OneSchema
  MAX_FORMS_PER_TENANT = 2
  NoImport = NoImport
  Importers <- TwoRequests
  ImportKeys <- TwoKeys
  People <- TwoPeople
  FileOf <- MCFileOf
  CaptureKeys <- OneCaptureKey
  MaxRows = 2
  MaxCaptures = 2
  NoRule = NoRule
  Rules <- TwoRules
  RuleRequests <- TwoRequests
  TargetLists <- MCTargetLists
  Members <- TwoPeople
  Prospects <- OneProspect
  rule_matches <- MCMatches
  MAX_RULES = 2
  MaxGiven = 2
  MaxEdits = 3
  NoScore = NoScore
  Scorers <- TwoRequests
  ScoreValues <- MCScores
  RubricScore = 50
  NoDeal = NoDeal
  DealIds <- TwoRows
  DealRequests <- TwoRequests
  NoRow = NoRow
  Accounts <- TwoAccounts
  Contacts <- OneContact
  Tasks <- OneTask
  Notes <- OneNote
  Names <- TwoNames
  Users <- TwoPeople
  CrmRequests <- TwoRequests
  NoAppt = NoAppt
  ApptIds <- TwoRows
  ApptRequests <- TwoRequests
  Starts <- MCStarts
  Lengths <- MCLengths
  SlotIndexes <- MCSlotIndexes
  Horizon = 1
  NoFile = NoFile
  FileIds <- ThreeFiles
  DocIds <- OneDocument
  FileRequests <- TwoRequests
  ScanTasks <- TwoRequests
  DAILY_USER_LIMIT = 1
  DocTargets <- MCDocTargets
INVARIANTS
  RecordsTypeOK
  NothingInvented
  AppliedOnce
  MergesAreKept
  EntersOnce
  RoundRobinEven
  OneDefaultPipeline
  HeldWhileOpen
  
  
PROPERTIES
  ConvertedIsFinal
  VerdictIsFinal
CONSTRAINT RecordsBound
SYMMETRY RecordsSymmetry
CHECK_DEADLOCK FALSE
