\* Two handlers, two accounts and two rows or threads of each component.
CONSTANTS
  User = {u1, u2}
  Post = {p1}
  Comment = {x1, x2}
  Tag = {t1}
  Req = {r1, r2}
  Capacity = 3
  MaxCalls = 4
  Owner = u1
  Nobody = Nobody
  NoRow = NoRow
  Thread = {x1, x2}
  Sender = {r1, r2}
  freeChatLimit = 2
  MaxAsked = 2
  Editor = {r1, r2}
  Value = {"default", "other"}
  None = None
  Request = {r1, r2, r3, r4}
  freeLimit = 1
  premiumLimit = 2
  MaxMinute = 1
  Account = {u1, u2}
  Legacy = {u2}
  Sub = {x1, x2}
  Customer = {x1, x2}
  Slot = {r1, r2}
  MaxTime = 2
  MaxEvents = 3
  Nil = Nil
  NoThread = NoThread
  Ritual = {x1, x2}
  Caller = {r1, r2}
  LastDay = 3
  NoCall = NoCall
  Client = {r1, r2}
  Name = {x1, x2}
  NoFile = NoFile
  Item = {x1, x2}
SPECIFICATION MCSpec
SYMMETRY Symmetric
INVARIANTS
  TypeOK
  
  
  
  ThreadsIntact
  
  
  
  RowFollowsStripe
  BudgetHolds
  AnswersFollowQuestions
  StreakIsRun
  ScreensAgree
  SavedFieldsStay
  LimitsHold
PROPERTIES
  PremiumOutlastsCancel
  
CHECK_DEADLOCK FALSE
