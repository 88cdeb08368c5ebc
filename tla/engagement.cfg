SPECIFICATION EngagementSpec
CONSTANTS
  m1 = m1
  m2 = m2
  p1 = p1
  p2 = p2
  q1 = q1
  q2 = q2
  c1 = c1
  c2 = c2
  c3 = c3
  e1 = e1
  e2 = e2
  o1 = o1
  o2 = o2
  NoOrg = NoOrg
  Orgs <- TwoOrgs
  Workspace = o1
  Emails <- TwoEmails
  Staff <- OneEmail
  Invitations <- TwoInvitations
  Links <- OneLink
  OrgRequests <- TwoRequests
  None = None
  Inbound <- MCInbound
  Phones <- MCPhones
  From <- MCFrom
  MaxRequests = 3
  MaxLost = 1
  NoConsent = NoConsent
  ConsentRequests <- ThreeRequests
  MaxMoments = 5
  QueuedMessages <- TwoMessages
  NoChat = NoChat
  Chats <- OneChat
  ChatRequests <- TwoRequests
  MaxKeys = 2
  MaxPosts = 3
  MAX_MESSAGES_PER_SESSION = 1
  Nameless = Nameless
  Own = Own
  NoRun = NoRun
  Pollers <- TwoRequests
  MaxNames = 3
  MaxActivities = 2
  MaxEdits = 1
INVARIANTS
  EngagementTypeOK
  NothingDropped
  AnsweredOnce
  
  
  WithdrawalIsHonoured
  ChatIsKept
  
CONSTRAINT EngagementBound
SYMMETRY RequestSymmetry
CHECK_DEADLOCK FALSE
