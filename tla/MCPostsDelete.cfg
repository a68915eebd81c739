\* Deleting one post, with and without its hashtag.
CONSTANTS
  User = {u1}
  Post = {p1}
  Comment = {}
  Tag = {t1}
  Req = {r1}
  Capacity = 2
  MaxCalls = 2
  Owner = u1
  Nobody = Nobody
  NoRow = NoRow
SPECIFICATION FairSpec
PROPERTY DeleteReturns
CHECK_DEADLOCK FALSE
