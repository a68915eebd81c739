----------------------------- MODULE PostsProofs -----------------------------
(***************************************************************************)
(* The counters and the threads of Posts for every number of users, rows,  *)
(* hashtags and handlers.  The inductive invariants share the handlers'    *)
(* types and that a row is inserted once.  They add: a Like that holds its *)
(* lock is alone on its row and not counted yet; a hashtag's counter is at *)
(* least its links; a comment about to be written names a post and a       *)
(* parent on that post; a post's counter is its comments and those being   *)
(* taken off; a row that is or was there has an author, and a comment a    *)
(* post; a handler takes a connection when one is free; who holds a row or *)
(* a link waits for nothing but the pool, and so someone can go on.        *)
(***************************************************************************)
EXTENDS Posts, FiniteSetTheorems, TLAPS

Steps == {"idle", "delete_row", "cascade", "uncount", "tell_author"} \union Waiting
         \union {"insert_post", "relink", "unlink", "insert_comment", "erase", "add", "remove"}

Inserting == {"create_post", "insert_post", "create_comment", "insert_comment"}

HandlerTypes ==
  /\ state \in [Target -> {"absent", "live", "gone"}]
  /\ pc \in [Req -> Steps]
  /\ usr \in [Req -> User \union {Nobody}]
  /\ row \in [Req -> Target \union {NoRow}]
  /\ DOMAIN arg = Req
  /\ \A r \in Req : pc[r] # "idle" => usr[r] \in User /\ row[r] \in Target

\* A row is inserted by one handler, once.
InsertInv ==
  /\ \A r \in Req : pc[r] \in Inserting => state[row[r]] = "absent"
  /\ \A r, q \in Req : pc[r] \in Inserting /\ pc[q] \in Inserting /\ row[r] = row[q] => r = q

-----------------------------------------------------------------------------
(* How handlers move *)

\* The names of the steps behind a BeginTxx.
LEMMA TransactionSteps ==
  /\ Waiting = {"create_post", "update_post", "delete_post", "create_comment",
                "delete_comment", "like", "unlike"}
  /\ Transaction["create_post"] = "insert_post"
  /\ Transaction["update_post"] = "relink"
  /\ Transaction["delete_post"] = "unlink"
  /\ Transaction["create_comment"] = "insert_comment"
  /\ Transaction["delete_comment"] = "erase"
  /\ Transaction["like"] = "add"
  /\ Transaction["unlike"] = "remove"
BY DEF Waiting, Transaction

\* What a step that waited for the pool, or for the row it likes, finds.
LEMMA Grants ==
  ASSUME NEW r \in Req, Granted(r)
  PROVE  /\ pc[r] \in Waiting \union {"delete_row", "tell_author"} => FreeConnection
         /\ pc[r] = "add" => <<usr[r], row[r]>> \in likes \/ ~Locked(row[r])
BY TransactionSteps DEF Granted

\* A call puts an idle handler on its way.
LEMMA Calls ==
  ASSUME HandlerTypes, InsertInv, NEW r \in Req, NEW u \in User, NEW x \in Target, NEW a,
         NEW s \in Waiting, Call(r, s, u, x, a), s \in Inserting => Unused(x)
  PROVE  HandlerTypes' /\ InsertInv'
<1>1. /\ pc[r] = "idle"
      /\ pc' = [pc EXCEPT ![r] = s] /\ usr' = [usr EXCEPT ![r] = u]
      /\ row' = [row EXCEPT ![r] = x] /\ arg' = [arg EXCEPT ![r] = a] /\ state' = state
  BY DEF Call, content
<1>2. HandlerTypes'
  BY <1>1, TransactionSteps DEF HandlerTypes, Steps
<1>3. \A q \in Req : pc'[q] \in Inserting => state'[row'[q]] = "absent"
  BY <1>1 DEF HandlerTypes, InsertInv, Unused
<1>4. \A p, q \in Req : pc'[p] \in Inserting /\ pc'[q] \in Inserting /\ row'[p] = row'[q]
                          => p = q
  BY <1>1 DEF HandlerTypes, InsertInv, Unused
<1>5. QED
  BY <1>2, <1>3, <1>4 DEF InsertInv

\* A handler goes on, and nothing is inserted.
LEMMA Moves ==
  ASSUME HandlerTypes, InsertInv, NEW r \in Req, NEW s \in Steps, pc[r] # "idle",
         pc' = [pc EXCEPT ![r] = s], UNCHANGED <<usr, row, arg>>,
         state' \in [Target -> {"absent", "live", "gone"}],
         \A x \in Target : state[x] = "absent" => state'[x] = "absent",
         s \in Inserting => pc[r] \in Inserting
  PROVE  HandlerTypes' /\ InsertInv'
<1>1. HandlerTypes'
  BY DEF HandlerTypes
<1>2. \A q \in Req : pc'[q] \in Inserting => pc[q] \in Inserting /\ row[q] \in Target
  BY DEF HandlerTypes, Inserting
<1>3. InsertInv'
  BY <1>2 DEF InsertInv
<1>4. QED
  BY <1>1, <1>3

\* A handler returns; one that inserts has its own row inserted, or not.
LEMMA Returns ==
  ASSUME HandlerTypes, InsertInv, NEW r \in Req, Return(r),
         state' \in [Target -> {"absent", "live", "gone"}],
         \A x \in Target : state[x] = "absent" /\ state'[x] # "absent" =>
                             pc[r] \in Inserting /\ row[r] = x
  PROVE  HandlerTypes' /\ InsertInv'
<1>1. /\ pc' = [pc EXCEPT ![r] = "idle"] /\ usr' = [usr EXCEPT ![r] = Nobody]
      /\ row' = [row EXCEPT ![r] = NoRow] /\ arg' = [arg EXCEPT ![r] = {}]
  BY DEF Return
<1>2. HandlerTypes'
  BY <1>1 DEF HandlerTypes, Steps
<1>3. \A q \in Req : pc'[q] \in Inserting =>
        q # r /\ pc[q] \in Inserting /\ row'[q] = row[q] /\ row[q] \in Target
  BY <1>1 DEF HandlerTypes, Inserting
<1>4. InsertInv'
  BY <1>3 DEF InsertInv
<1>5. QED
  BY <1>2, <1>4

\* The types and the inserts are inductive together.
LEMMA Handlers ==
  ASSUME HandlerTypes, InsertInv, [Next]_vars
  PROVE  HandlerTypes' /\ InsertInv'
<1> USE DEF content
<1>1. ASSUME NEW r \in Req, NEW u \in User, NEW p \in Post, NEW T \in SUBSET Tag,
             CreatePost(r, u, p, T) \/ UpdatePost(r, u, p, T)
      PROVE  HandlerTypes' /\ InsertInv'
  <2>1. p \in Target
    BY DEF Target
  <2>2. CASE CreatePost(r, u, p, T)
    BY <2>1, <2>2, Calls, TransactionSteps DEF CreatePost
  <2>3. CASE UpdatePost(r, u, p, T)
    BY <2>1, <2>3, Calls, TransactionSteps DEF UpdatePost, Inserting
  <2>4. QED
    BY <1>1, <2>2, <2>3
<1>2. ASSUME NEW r \in Req, NEW u \in User, NEW c \in Comment, NEW p \in Post,
             NEW par \in Comment \union {NoRow}, CreateComment(r, u, c, p, par)
      PROVE  HandlerTypes' /\ InsertInv'
  <2>1. c \in Target
    BY DEF Target
  <2>2. QED
    BY <1>2, <2>1, Calls, TransactionSteps DEF CreateComment
<1>3. ASSUME NEW r \in Req, NEW u \in User, NEW x \in Target,
             \/ x \in Post /\ DeletePost(r, u, x)
             \/ x \in Comment /\ DeleteComment(r, u, x)
             \/ Like(r, u, x) \/ Unlike(r, u, x)
      PROVE  HandlerTypes' /\ InsertInv'
  BY <1>3, Calls, TransactionSteps DEF DeletePost, DeleteComment, Like, Unlike, Inserting
<1>4. ASSUME NEW r \in Req, BeginTxx(r) PROVE HandlerTypes' /\ InsertInv'
  <2>1. /\ pc[r] \in Waiting /\ pc' = [pc EXCEPT ![r] = Transaction[pc[r]]]
        /\ UNCHANGED <<state, usr, row, arg>>
    BY <1>4 DEF BeginTxx, Goto
  <2>2. /\ pc[r] # "idle" /\ Transaction[pc[r]] \in Steps
        /\ Transaction[pc[r]] \in Inserting => pc[r] \in Inserting
    BY <2>1, TransactionSteps DEF Steps, Inserting
  <2>3. QED
    BY <2>1, <2>2, Moves DEF HandlerTypes
<1>5. ASSUME NEW r \in Req, Unlink(r) \/ SendDelete(r) \/ Erase(r)
      PROVE  HandlerTypes' /\ InsertInv'
  <2>1. PICK s \in {"delete_row", "cascade", "uncount"} : pc' = [pc EXCEPT ![r] = s]
    BY <1>5 DEF Unlink, SendDelete, Erase, Goto
  <2>2. pc[r] # "idle" /\ UNCHANGED <<usr, row, arg>>
    BY <1>5 DEF Unlink, SendDelete, Erase, Goto
  <2>3. /\ state' \in [Target -> {"absent", "live", "gone"}]
        /\ \A x \in Target : state[x] = "absent" => state'[x] = "absent"
    <3>1. CASE Unlink(r) \/ SendDelete(r)
      BY <3>1 DEF Unlink, SendDelete, HandlerTypes
    <3>2. CASE Erase(r)
      BY <3>2 DEF Erase, HandlerTypes, Live
    <3>3. QED
      BY <1>5, <3>1, <3>2
  <2>4. QED
    BY <2>1, <2>2, <2>3, Moves DEF Steps, Inserting
<1>6. ASSUME NEW r \in Req, Add(r) PROVE HandlerTypes' /\ InsertInv'
  <2>1. CASE Return(r)
    BY <1>6, <2>1, Returns DEF Add, HandlerTypes
  <2>2. CASE Goto(r, "tell_author")
    BY <1>6, <2>2, Moves DEF Add, Goto, HandlerTypes, Steps, Inserting
  <2>3. QED
    BY <1>6, <2>1, <2>2 DEF Add
<1>7. ASSUME NEW r \in Req, InsertPost(r) \/ InsertComment(r)
      PROVE  HandlerTypes' /\ InsertInv'
  <2>1. Return(r) /\ pc[r] \in Inserting
    BY <1>7 DEF InsertPost, InsertComment, Inserting
  <2>2. state' = state \/ state' = [state EXCEPT ![row[r]] = "live"]
    BY <1>7 DEF InsertPost, InsertComment, InsertRow
  <2>3. QED
    BY <2>1, <2>2, Returns DEF HandlerTypes
<1>8. ASSUME NEW r \in Req, Relink(r) \/ Uncount(r) \/ TellAuthor(r) \/ RemoveLike(r) \/ Abandon(r)
      PROVE  HandlerTypes' /\ InsertInv'
  <2>1. Return(r) /\ state' = state
    BY <1>8 DEF Relink, Uncount, TellAuthor, RemoveLike, Abandon
  <2>2. QED
    BY <2>1, Returns DEF HandlerTypes
<1>9. ASSUME NEW r \in Req, Cascade(r) PROVE HandlerTypes' /\ InsertInv'
  <2>1. Return(r)
    BY <1>9 DEF Cascade
  <2>2. /\ state' \in [Target -> {"absent", "live", "gone"}]
        /\ \A x \in Target : state[x] = "absent" => state'[x] = "absent"
    BY <1>9 DEF Cascade, HandlerTypes
  <2>3. QED
    BY <2>1, <2>2, Returns
<1>10. CASE SpaceGone
  <2>1. UNCHANGED <<pc, usr, row, arg>>
    BY <1>10 DEF SpaceGone, handler
  <2>2. /\ state' \in [Target -> {"absent", "live", "gone"}]
        /\ \A x \in Target : state[x] = "absent" => state'[x] = "absent"
    BY <1>10 DEF SpaceGone, HandlerTypes, Live
  <2>3. \A r \in Req : pc[r] \in Inserting => row[r] \in Target
    BY DEF HandlerTypes, Inserting
  <2>4. QED
    BY <2>1, <2>2, <2>3 DEF HandlerTypes, InsertInv
<1>11. ASSUME NEW p \in Post, FanOutNewPost(p) PROVE HandlerTypes' /\ InsertInv'
  BY <1>11 DEF FanOutNewPost, handler, HandlerTypes, InsertInv
<1>12. CASE UNCHANGED vars
  BY <1>12 DEF vars, handler, HandlerTypes, InsertInv
<1>13. Post \subseteq Target /\ Comment \subseteq Target
  BY DEF Target
<1>14. QED
  BY <1>1, <1>2, <1>3, <1>4, <1>5, <1>6, <1>7, <1>8, <1>9, <1>10, <1>11, <1>12, <1>13
  DEF Next, Step

-----------------------------------------------------------------------------
(* like_count *)

Likers(x) == {u \in User : <<u, x>> \in likes}

Liking == {"like", "add", "tell_author"}

LikeTypes == likes \subseteq User \X Target /\ likeCount \in [Target -> Nat]

AbsentUnliked == \A x \in Target : state[x] = "absent" => likeCount[x] = 0 /\ Likers(x) = {}

LikesCounted == \A x \in Target : state[x] = "live" => likeCount[x] = Cardinality(Likers(x))

\* A Like that holds its lock is alone on its row, and its own like is not there yet.
TellInv ==
  /\ \A r \in Req : pc[r] \in Liking => state[row[r]] # "absent"
  /\ \A r \in Req : pc[r] = "tell_author" => <<usr[r], row[r]>> \notin likes
  /\ \A r, q \in Req : pc[r] = "tell_author" /\ pc[q] = "tell_author" /\ row[r] = row[q]
                         => r = q

LikeInv == LikeTypes /\ AbsentUnliked /\ LikesCounted /\ TellInv

\* The handlers whose like is under way are those of before, or start with a row that
\* is there.
StillLiking ==
  \A q \in Req : pc'[q] \in Liking =>
    \/ /\ pc[q] \in Liking /\ usr'[q] = usr[q] /\ row'[q] = row[q]
       /\ pc'[q] = "tell_author" => pc[q] = "tell_author"
    \/ pc'[q] = "like" /\ state'[row'[q]] # "absent"

\* Rows come from absent and are not made absent again.
RowsAge ==
  /\ \A x \in Target : state'[x] = "live" => state[x] \in {"live", "absent"}
  /\ \A x \in Target : state'[x] = "absent" => state[x] = "absent"

\* A step that leaves the likes and their counters alone.
LEMMA Unliked ==
  ASSUME HandlerTypes, LikeInv, UNCHANGED <<likes, likeCount>>, RowsAge, StillLiking
  PROVE  LikeInv'
<1>1. LikeTypes'
  BY DEF LikeInv, LikeTypes
<1>2. \A x \in Target : Likers(x)' = Likers(x)
  BY DEF Likers
<1>3. AbsentUnliked'
  BY <1>2 DEF LikeInv, AbsentUnliked, RowsAge
<1>4. LikesCounted'
  BY <1>2, FS_EmptySet DEF LikeInv, AbsentUnliked, LikesCounted, RowsAge
<1>5. \A q \in Req : pc'[q] = "tell_author" =>
        pc[q] = "tell_author" /\ usr'[q] = usr[q] /\ row'[q] = row[q]
  BY DEF StillLiking, Liking
<1>6. \A q \in Req : pc'[q] \in Liking => state'[row'[q]] # "absent"
  <2> SUFFICES ASSUME NEW q \in Req, pc'[q] \in Liking, pc[q] \in Liking, row'[q] = row[q]
               PROVE  state'[row'[q]] # "absent"
    BY DEF StillLiking
  <2>1. row[q] \in Target /\ state[row[q]] # "absent"
    BY DEF LikeInv, TellInv, HandlerTypes, Liking
  <2>2. QED
    BY <2>1 DEF RowsAge
<1>7. TellInv'
  BY <1>5, <1>6 DEF LikeInv, TellInv
<1>8. QED
  BY <1>1, <1>3, <1>4, <1>7 DEF LikeInv

\* One user more or less likes x.
LEMMA CountingLikers ==
  ASSUME IsFiniteSet(User), NEW x, NEW u \in User
  PROVE  /\ Cardinality(Likers(x)) \in Nat
         /\ u \notin Likers(x) => Cardinality(Likers(x) \union {u}) = Cardinality(Likers(x)) + 1
         /\ u \in Likers(x) => Cardinality(Likers(x) \ {u}) = Cardinality(Likers(x)) - 1
<1>1. Likers(x) \subseteq User
  BY DEF Likers
<1>2. IsFiniteSet(Likers(x))
  BY <1>1, FS_Subset
<1>3. QED
  BY <1>2, FS_CardinalityType, FS_AddElement, FS_RemoveElement

LEMMA LikeStep ==
  ASSUME IsFiniteSet(User), HandlerTypes, InsertInv, LikeInv, [Next]_vars
  PROVE  LikeInv'
<1> USE DEF content, counters
<1>1. ASSUME NEW r \in Req, NEW u \in User, NEW x \in Target, NEW a, NEW s \in Waiting,
             Call(r, s, u, x, a), s = "like" => state[x] # "absent"
      PROVE  LikeInv'
  <2>1. /\ pc' = [pc EXCEPT ![r] = s] /\ usr' = [usr EXCEPT ![r] = u]
        /\ row' = [row EXCEPT ![r] = x] /\ UNCHANGED <<state, likes, likeCount>>
    BY <1>1 DEF Call
  <2>2. StillLiking
    BY <1>1, <2>1, TransactionSteps DEF HandlerTypes, Liking, StillLiking
  <2>3. RowsAge
    BY <2>1 DEF RowsAge
  <2>4. QED
    BY <2>1, <2>2, <2>3, Unliked
<1>2. ASSUME NEW r \in Req, BeginTxx(r) PROVE LikeInv'
  <2>1. /\ pc[r] \in Waiting /\ pc' = [pc EXCEPT ![r] = Transaction[pc[r]]]
        /\ UNCHANGED <<state, usr, row, likes, likeCount>>
    BY <1>2 DEF BeginTxx, Goto
  <2>2. Transaction[pc[r]] \in Liking => pc[r] = "like" /\ Transaction[pc[r]] = "add"
    BY <2>1, TransactionSteps DEF Liking
  <2>3. StillLiking
    BY <2>1, <2>2 DEF HandlerTypes, Liking, StillLiking
  <2>4. QED
    BY <2>1, <2>3, Unliked DEF RowsAge
<1>3. ASSUME NEW r \in Req, Unlink(r) \/ SendDelete(r) \/ Erase(r) PROVE LikeInv'
  <2>1. PICK s \in {"delete_row", "cascade", "uncount"} : pc' = [pc EXCEPT ![r] = s]
    BY <1>3 DEF Unlink, SendDelete, Erase, Goto
  <2>2. UNCHANGED <<usr, row, likes, likeCount>>
    BY <1>3 DEF Unlink, SendDelete, Erase, Goto
  <2>3. StillLiking
    BY <2>1, <2>2 DEF HandlerTypes, Liking, StillLiking
  <2>4. RowsAge
    <3>1. CASE Unlink(r) \/ SendDelete(r)
      BY <3>1 DEF Unlink, SendDelete, RowsAge
    <3>2. CASE Erase(r)
      BY <3>2 DEF Erase, RowsAge, Live
    <3>3. QED
      BY <1>3, <3>1, <3>2
  <2>5. QED
    BY <2>2, <2>3, <2>4, Unliked
<1>4. ASSUME NEW r \in Req, Return(r), UNCHANGED <<likes, likeCount>>, RowsAge PROVE LikeInv'
  <2>1. StillLiking
    BY <1>4 DEF Return, HandlerTypes, Liking, StillLiking
  <2>2. QED
    BY <1>4, <2>1, Unliked
<1>5. ASSUME NEW r \in Req, InsertPost(r) \/ InsertComment(r) PROVE LikeInv'
  <2>1. Return(r) /\ UNCHANGED <<likes, likeCount>> /\ pc[r] \in Inserting
    BY <1>5 DEF InsertPost, InsertComment, Inserting
  <2>2. state' = state \/ state' = [state EXCEPT ![row[r]] = "live"]
    BY <1>5 DEF InsertPost, InsertComment, InsertRow
  <2>3. state[row[r]] = "absent"
    BY <2>1 DEF InsertInv
  <2>4. RowsAge
    BY <2>2, <2>3 DEF RowsAge, HandlerTypes
  <2>5. QED
    BY <1>4, <2>1, <2>4
<1>6. ASSUME NEW r \in Req, Relink(r) \/ Uncount(r) \/ Cascade(r) \/ Abandon(r) PROVE LikeInv'
  <2>1. Return(r) /\ UNCHANGED <<likes, likeCount>>
    BY <1>6 DEF Relink, Uncount, Cascade, Abandon
  <2>2. RowsAge
    <3>1. CASE Relink(r) \/ Uncount(r) \/ Abandon(r)
      BY <3>1 DEF Relink, Uncount, Abandon, RowsAge
    <3>2. CASE Cascade(r)
      BY <3>2 DEF Cascade, RowsAge
    <3>3. QED
      BY <1>6, <3>1, <3>2
  <2>3. QED
    BY <1>4, <2>1, <2>2
<1>7. ASSUME NEW r \in Req, Add(r) PROVE LikeInv'
  <2>1. pc[r] = "add" /\ UNCHANGED <<state, likes, likeCount>>
    BY <1>7 DEF Add
  <2>2. CASE <<usr[r], row[r]>> \in likes
    BY <1>4, <1>7, <2>1, <2>2 DEF Add, RowsAge
  <2>3. CASE <<usr[r], row[r]>> \notin likes
    <3>1. pc' = [pc EXCEPT ![r] = "tell_author"] /\ UNCHANGED <<usr, row>>
      BY <1>7, <2>3 DEF Add, Goto
    <3>2. \A q \in Req : pc[q] = "tell_author" => row[q] # row[r]
      BY <1>7, <2>3, Grants DEF Add, Locked
    <3>3. TellInv'
      BY <2>1, <2>3, <3>1, <3>2 DEF LikeInv, TellInv, HandlerTypes, Liking
    <3>4. QED
      BY <2>1, <3>3 DEF LikeInv, LikeTypes, AbsentUnliked, LikesCounted, Likers
  <2>4. QED
    BY <2>2, <2>3
<1>8. ASSUME NEW r \in Req, TellAuthor(r) PROVE LikeInv'
  <2> DEFINE x == row[r]
             u == usr[r]
  <2>1. /\ pc[r] = "tell_author" /\ Return(r) /\ UNCHANGED state
        /\ likes' = likes \union {<<u, x>>}
        /\ likeCount' = [likeCount EXCEPT ![x] = IF x \in Live THEN Floor(@ + 1) ELSE @]
    BY <1>8 DEF TellAuthor, IncrementLikeCount
  <2>2. u \in User /\ x \in Target /\ <<u, x>> \notin likes /\ state[x] # "absent"
    BY <2>1 DEF HandlerTypes, LikeInv, TellInv, Liking
  <2>3. LikeTypes'
    BY <2>1, <2>2 DEF LikeInv, LikeTypes, Floor
  <2> HIDE DEF x, u
  <2>4. \A y \in Target \ {x} : {v \in User : <<v, y>> \in likes'} = Likers(y)
                                /\ likeCount'[y] = likeCount[y]
    BY <2>1, <2>2 DEF Likers, LikeInv, LikeTypes
  <2>5. {v \in User : <<v, x>> \in likes'} = Likers(x) \union {u} /\ u \notin Likers(x)
    BY <2>1, <2>2 DEF Likers
  <2>6. state[x] = "live" => likeCount'[x] = Cardinality(Likers(x)) + 1
    BY <2>1, <2>2 DEF LikeInv, LikeTypes, LikesCounted, Live, Floor
  <2>7. AbsentUnliked'
    BY <2>1, <2>2, <2>4 DEF LikeInv, AbsentUnliked, Likers
  <2>8. LikesCounted'
    <3>1. Cardinality(Likers(x) \union {u}) = Cardinality(Likers(x)) + 1
      BY <2>2, <2>5, CountingLikers
    <3>2. QED
      BY <2>1, <2>4, <2>5, <2>6, <3>1 DEF LikeInv, LikesCounted, Likers
  <2>9. TellInv'
    <3>1. \A q \in Req : pc'[q] \in Liking =>
            q # r /\ pc[q] = pc'[q] /\ usr'[q] = usr[q] /\ row'[q] = row[q]
      BY <2>1 DEF Return, HandlerTypes, Liking
    <3>2. \A q \in Req : pc'[q] = "tell_author" => row[q] # x
      BY <2>1, <3>1 DEF LikeInv, TellInv, Liking, x
    <3>3. QED
      BY <2>1, <3>1, <3>2 DEF LikeInv, TellInv, Liking
  <2>10. QED
    BY <2>3, <2>7, <2>8, <2>9 DEF LikeInv
<1>9. ASSUME NEW r \in Req, RemoveLike(r) PROVE LikeInv'
  <2> DEFINE x == row[r]
             u == usr[r]
  <2>1. pc[r] = "remove" /\ Return(r) /\ UNCHANGED state /\ u \in User /\ x \in Target
    BY <1>9 DEF RemoveLike, HandlerTypes
  <2>2. CASE <<u, x>> \notin likes
    <3>1. UNCHANGED <<likes, likeCount>>
      BY <1>9, <2>2 DEF RemoveLike
    <3>2. QED
      BY <1>4, <2>1, <3>1 DEF RowsAge
  <2>3. CASE <<u, x>> \in likes
    <3>1. /\ likes' = likes \ {<<u, x>>}
          /\ likeCount' = [likeCount EXCEPT ![x] = IF x \in Live THEN Floor(@ + (-1)) ELSE @]
      BY <1>9, <2>3 DEF RemoveLike, IncrementLikeCount
    <3>2. LikeTypes'
      BY <2>1, <3>1 DEF LikeInv, LikeTypes, Floor
    <3> HIDE DEF x, u
    <3>3. \A y \in Target \ {x} : {v \in User : <<v, y>> \in likes'} = Likers(y)
                                  /\ likeCount'[y] = likeCount[y]
      BY <2>1, <3>1 DEF Likers, LikeInv, LikeTypes
    <3>4. {v \in User : <<v, x>> \in likes'} = Likers(x) \ {u} /\ u \in Likers(x)
      BY <2>1, <2>3, <3>1 DEF Likers
    <3>5. /\ Cardinality(Likers(x)) \in Nat
          /\ Cardinality(Likers(x) \ {u}) = Cardinality(Likers(x)) - 1
      BY <2>1, <3>4, CountingLikers
    <3>6. Cardinality(Likers(x) \ {u}) \in Nat
      <4>1. Likers(x) \ {u} \subseteq User
        BY DEF Likers
      <4>2. QED
        BY <4>1, FS_Subset, FS_CardinalityType
    <3>7. state[x] = "live" => likeCount'[x] = Cardinality(Likers(x)) - 1
      BY <2>1, <3>1, <3>5, <3>6 DEF LikeInv, LikeTypes, LikesCounted, Live, Floor
    <3>8. state[x] # "absent"
      BY <2>1, <3>4 DEF LikeInv, AbsentUnliked
    <3>9. AbsentUnliked'
      BY <2>1, <3>3, <3>8 DEF LikeInv, AbsentUnliked, Likers
    <3>10. LikesCounted'
      BY <2>1, <3>3, <3>4, <3>5, <3>7 DEF LikeInv, LikesCounted, Likers
    <3>11. TellInv'
      <4>1. \A q \in Req : pc'[q] \in Liking =>
              q # r /\ pc[q] = pc'[q] /\ usr'[q] = usr[q] /\ row'[q] = row[q]
        BY <2>1 DEF Return, HandlerTypes, Liking
      <4>2. QED
        BY <2>1, <3>1, <4>1 DEF LikeInv, TellInv, Liking
    <3>12. QED
      BY <3>2, <3>9, <3>10, <3>11 DEF LikeInv
  <2>4. QED
    BY <2>2, <2>3
<1>10. CASE SpaceGone \/ (\E p \in Post : FanOutNewPost(p)) \/ UNCHANGED vars
  <2>1. UNCHANGED <<pc, usr, row, likes, likeCount>>
    BY <1>10 DEF SpaceGone, FanOutNewPost, vars, handler
  <2>2. RowsAge
    <3>1. CASE SpaceGone
      BY <3>1 DEF SpaceGone, RowsAge, Live
    <3>2. CASE (\E p \in Post : FanOutNewPost(p)) \/ UNCHANGED vars
      BY <3>2 DEF FanOutNewPost, vars, RowsAge
    <3>3. QED
      BY <1>10, <3>1, <3>2
  <2>3. StillLiking
    BY <2>1 DEF StillLiking
  <2>4. QED
    BY <2>1, <2>2, <2>3, Unliked
<1>11. Post \subseteq Target /\ Comment \subseteq Target
  BY DEF Target
<1>12. ASSUME NEW r \in Req, NEW u \in User, NEW p \in Post, NEW T \in SUBSET Tag,
              CreatePost(r, u, p, T) \/ UpdatePost(r, u, p, T)
       PROVE  LikeInv'
  BY <1>1, <1>11, <1>12, TransactionSteps DEF CreatePost, UpdatePost
<1>13. ASSUME NEW r \in Req, NEW u \in User, NEW c \in Comment, NEW p \in Post,
              NEW par \in Comment \union {NoRow}, CreateComment(r, u, c, p, par)
       PROVE  LikeInv'
  BY <1>1, <1>11, <1>13, TransactionSteps DEF CreateComment
<1>14. ASSUME NEW r \in Req, NEW u \in User, NEW x \in Target,
              \/ x \in Post /\ DeletePost(r, u, x)
              \/ x \in Comment /\ DeleteComment(r, u, x)
              \/ Like(r, u, x) \/ Unlike(r, u, x)
       PROVE  LikeInv'
  BY <1>1, <1>14, TransactionSteps DEF DeletePost, DeleteComment, Like, Unlike, Live
<1>15. QED
  BY <1>2, <1>3, <1>5, <1>6, <1>7, <1>8, <1>9, <1>10, <1>11, <1>12, <1>13, <1>14
  DEF Next, Step

LEMMA LikeInitial == Init => HandlerTypes /\ InsertInv /\ LikeInv
<1> SUFFICES ASSUME Init PROVE HandlerTypes /\ InsertInv /\ LikeInv
  OBVIOUS
<1>1. /\ pc = [r \in Req |-> "idle"] /\ usr = [r \in Req |-> Nobody]
      /\ row = [r \in Req |-> NoRow] /\ arg = [r \in Req |-> {}] /\ likes = {} /\ likeCount = [x \in Target |-> 0]
      /\ state \in [Target -> {"absent", "live", "gone"}]
  BY DEF Init
<1>2. HandlerTypes /\ InsertInv
  BY <1>1 DEF HandlerTypes, InsertInv, Inserting, Steps
<1>3. \A x : Likers(x) = {}
  BY <1>1 DEF Likers
<1>4. LikeInv
  BY <1>1, <1>3, FS_EmptySet
  DEF LikeInv, LikeTypes, AbsentUnliked, LikesCounted, TellInv, Liking
<1>5. QED
  BY <1>2, <1>4

\* like_count is the number of rows of likes of a post or comment that can be read,
\* however likes, their withdrawals and deletions overlap (LikeService).
THEOREM LikesAreCounted ==
  ASSUME IsFiniteSet(User)
  PROVE  Spec => []LikeCountExact
<1> DEFINE Inv == HandlerTypes /\ InsertInv /\ LikeInv
<1>1. Init => Inv
  BY LikeInitial
<1>2. Inv /\ [Next]_vars => Inv'
  BY Handlers, LikeStep
<1>3. Inv => LikeCountExact
  BY DEF LikeInv, LikesCounted, Likers, LikeCountExact, Live
<1>4. QED
  BY <1>1, <1>2, <1>3, PTL DEF Spec

-----------------------------------------------------------------------------
(* use_count *)

Linked(t) == {p \in Post : t \in tags[p]}

Tagging == {"create_post", "insert_post", "update_post", "relink"}

TagInv ==
  /\ tags \in [Post -> SUBSET Tag]
  /\ uses \in [Tag -> Nat]
  /\ UsesCoverLinks

\* A handler that writes links is about a post, with the hashtags of its content.
TagArgs == \A r \in Req : pc[r] \in Tagging => row[r] \in Post /\ arg[r] \subseteq Tag

\* The links of one post are written anew.
LEMMA Relinked ==
  ASSUME IsFiniteSet(Post), TagInv, NEW p \in Post, NEW T \in SUBSET Tag, RelinkTags(p, T)
  PROVE  TagInv'
<1>1. tags' = [tags EXCEPT ![p] = T]
  BY DEF RelinkTags
<1>2. \A t \in Tag : uses'[t] = (IF t \in tags[p] THEN Floor(uses[t] - 1) ELSE uses[t])
                                 + (IF t \in T THEN 1 ELSE 0)
  BY DEF RelinkTags, TagInv, Floor
<1>3. tags' \in [Post -> SUBSET Tag]
  BY <1>1 DEF TagInv
<1>4. uses' \in [Tag -> Nat]
  BY DEF RelinkTags, TagInv, Floor
<1>5. ASSUME NEW t \in Tag PROVE uses'[t] >= Cardinality({q \in Post : t \in tags'[q]})
  <2> DEFINE S == Linked(t)
             N == {q \in Post : t \in tags'[q]}
  <2>1. S \subseteq Post /\ N \subseteq Post /\ S \ {p} \subseteq Post
    BY DEF Linked
  <2>2. IsFiniteSet(S) /\ IsFiniteSet(N) /\ IsFiniteSet(S \ {p})
    BY <2>1, FS_Subset
  <2>3. Cardinality(S) \in Nat /\ Cardinality(N) \in Nat /\ Cardinality(S \ {p}) \in Nat
    BY <2>2, FS_CardinalityType
  <2>4. Cardinality(S \ {p}) = IF p \in S THEN Cardinality(S) - 1 ELSE Cardinality(S)
    BY <2>2, FS_RemoveElement
  <2>5. N = IF t \in T THEN (S \ {p}) \union {p} ELSE S \ {p}
    BY <1>1 DEF Linked, TagInv
  <2>6. Cardinality((S \ {p}) \union {p}) = Cardinality(S \ {p}) + 1
    BY <2>2, FS_AddElement
  <2>7. uses[t] \in Nat /\ uses[t] >= Cardinality(S)
    BY DEF TagInv, UsesCoverLinks, Linked
  <2>8. p \in S <=> t \in tags[p]
    BY DEF Linked
  <2> HIDE DEF S, N
  <2>9. Cardinality(N) = Cardinality(S \ {p}) + (IF t \in T THEN 1 ELSE 0)
    BY <2>3, <2>5, <2>6
  <2>10. (IF t \in tags[p] THEN Floor(uses[t] - 1) ELSE uses[t]) >= Cardinality(S \ {p})
    BY <2>3, <2>4, <2>7, <2>8 DEF Floor
  <2>11. (IF t \in tags[p] THEN Floor(uses[t] - 1) ELSE uses[t]) \in Nat
    BY <2>7 DEF Floor
  <2>12. QED
    BY <1>2, <2>3, <2>9, <2>10, <2>11 DEF N
<1>6. QED
  BY <1>3, <1>4, <1>5 DEF TagInv, UsesCoverLinks

\* Links go, and the counters stay.
LEMMA Unlinked ==
  ASSUME IsFiniteSet(Post), TagInv, uses' = uses, tags' \in [Post -> SUBSET Tag],
         \A p \in Post : tags'[p] \subseteq tags[p]
  PROVE  TagInv'
<1>1. ASSUME NEW t \in Tag PROVE uses[t] >= Cardinality({p \in Post : t \in tags'[p]})
  <2>1. {p \in Post : t \in tags'[p]} \subseteq Linked(t) /\ Linked(t) \subseteq Post
    BY DEF Linked
  <2>2. IsFiniteSet(Linked(t))
    BY <2>1, FS_Subset
  <2>3. /\ Cardinality({p \in Post : t \in tags'[p]}) <= Cardinality(Linked(t))
        /\ IsFiniteSet({p \in Post : t \in tags'[p]})
    BY <2>1, <2>2, FS_Subset
  <2>4. Cardinality(Linked(t)) \in Nat /\ Cardinality({p \in Post : t \in tags'[p]}) \in Nat
    BY <2>2, <2>3, FS_CardinalityType
  <2>5. uses[t] \in Nat /\ uses[t] >= Cardinality(Linked(t))
    BY DEF TagInv, UsesCoverLinks, Linked
  <2>6. QED
    BY <2>3, <2>4, <2>5
<1>2. QED
  BY <1>1 DEF TagInv, UsesCoverLinks

\* The handlers that write links are those of before, or one that was called.
LEMMA ArgsStay ==
  ASSUME TagArgs,
         \A q \in Req : pc'[q] \in Tagging =>
           \/ pc[q] \in Tagging /\ row'[q] = row[q] /\ arg'[q] = arg[q]
           \/ row'[q] \in Post /\ arg'[q] \subseteq Tag
  PROVE  TagArgs'
BY DEF TagArgs

LEMMA TagStep ==
  ASSUME IsFiniteSet(Post), HandlerTypes, TagArgs, TagInv, [Next]_vars
  PROVE  TagArgs' /\ TagInv'
<1> USE DEF tagged
<1>1. ASSUME UNCHANGED <<tags, uses>> PROVE TagInv'
  BY <1>1 DEF TagInv, UsesCoverLinks
<1>2. ASSUME NEW r \in Req, Return(r) PROVE TagArgs'
  BY <1>2, ArgsStay DEF Return, HandlerTypes, Tagging
<1>3. ASSUME NEW r \in Req, NEW u \in User, NEW x \in Target, NEW a, NEW s \in Waiting,
             Call(r, s, u, x, a), s \in Tagging => x \in Post /\ a \subseteq Tag
      PROVE  TagArgs' /\ TagInv'
  <2>1. /\ pc' = [pc EXCEPT ![r] = s] /\ row' = [row EXCEPT ![r] = x]
        /\ arg' = [arg EXCEPT ![r] = a] /\ UNCHANGED <<tags, uses>>
    BY <1>3 DEF Call
  <2>2. TagArgs'
    BY <1>3, <2>1, ArgsStay DEF HandlerTypes
  <2>3. QED
    BY <1>1, <2>1, <2>2
<1>4. ASSUME NEW r \in Req, BeginTxx(r) PROVE TagArgs' /\ TagInv'
  <2>1. /\ pc[r] \in Waiting /\ pc' = [pc EXCEPT ![r] = Transaction[pc[r]]]
        /\ UNCHANGED <<row, arg, tags, uses>>
    BY <1>4 DEF BeginTxx, Goto
  <2>2. Transaction[pc[r]] \in Tagging => pc[r] \in Tagging
    BY <2>1, TransactionSteps DEF Tagging
  <2>3. QED
    BY <1>1, <2>1, <2>2, ArgsStay DEF HandlerTypes
<1>5. ASSUME NEW r \in Req, Unlink(r) \/ SendDelete(r) \/ Erase(r) PROVE TagArgs' /\ TagInv'
  <2>1. PICK s \in {"delete_row", "cascade", "uncount"} : pc' = [pc EXCEPT ![r] = s]
    BY <1>5 DEF Unlink, SendDelete, Erase, Goto
  <2>2. UNCHANGED <<row, arg, tags, uses>>
    BY <1>5 DEF Unlink, SendDelete, Erase, Goto
  <2>3. QED
    BY <1>1, <2>1, <2>2, ArgsStay DEF HandlerTypes, Tagging
<1>6. ASSUME NEW r \in Req, Add(r) PROVE TagArgs' /\ TagInv'
  <2>1. CASE Return(r)
    BY <1>1, <1>2, <1>6, <2>1 DEF Add
  <2>2. CASE Goto(r, "tell_author")
    BY <1>1, <1>6, <2>2, ArgsStay DEF Add, Goto, HandlerTypes, Tagging
  <2>3. QED
    BY <1>6, <2>1, <2>2 DEF Add
<1>7. ASSUME NEW r \in Req, InsertPost(r) \/ Relink(r) PROVE TagArgs' /\ TagInv'
  <2>1. pc[r] \in Tagging /\ Return(r)
    BY <1>7 DEF InsertPost, Relink, Tagging
  <2>2. row[r] \in Post /\ arg[r] \in SUBSET Tag
    BY <2>1 DEF TagArgs
  <2>3. RelinkTags(row[r], arg[r]) \/ UNCHANGED <<tags, uses>>
    BY <1>7 DEF InsertPost, Relink
  <2>4. QED
    BY <1>1, <1>2, <2>1, <2>2, <2>3, Relinked
<1>8. ASSUME NEW r \in Req, Cascade(r) PROVE TagArgs' /\ TagInv'
  <2>1. Return(r) /\ uses' = uses /\ tags' = [tags EXCEPT ![row[r]] = {}]
    BY <1>8 DEF Cascade
  <2>2. /\ tags' \in [Post -> SUBSET Tag]
        /\ \A p \in Post : tags'[p] \subseteq tags[p]
    BY <2>1 DEF TagInv
  <2>3. QED
    BY <1>2, <2>1, <2>2, Unlinked
<1>9. ASSUME NEW r \in Req, \/ InsertComment(r) \/ Uncount(r) \/ TellAuthor(r) \/ RemoveLike(r)
                            \/ Abandon(r)
      PROVE  TagArgs' /\ TagInv'
  <2>1. Return(r) /\ UNCHANGED <<tags, uses>>
    BY <1>9 DEF InsertComment, Uncount, TellAuthor, RemoveLike, Abandon
  <2>2. QED
    BY <1>1, <1>2, <2>1
<1>10. CASE SpaceGone
  <2>1. UNCHANGED <<pc, row, arg, uses>> /\ tags' = [p \in Post |-> {}]
    BY <1>10 DEF SpaceGone, handler
  <2>2. TagInv'
    BY <2>1, Unlinked
  <2>3. QED
    BY <2>1, <2>2, ArgsStay
<1>11. CASE (\E p \in Post : FanOutNewPost(p)) \/ UNCHANGED vars
  <2>1. UNCHANGED <<pc, row, arg, tags, uses>>
    BY <1>11 DEF FanOutNewPost, vars, handler
  <2>2. QED
    BY <1>1, <2>1, ArgsStay
<1>12. Post \subseteq Target /\ Comment \subseteq Target
  BY DEF Target
<1>13. ASSUME NEW r \in Req, NEW u \in User, NEW p \in Post, NEW T \in SUBSET Tag,
              CreatePost(r, u, p, T) \/ UpdatePost(r, u, p, T)
       PROVE  TagArgs' /\ TagInv'
  BY <1>3, <1>12, <1>13, TransactionSteps DEF CreatePost, UpdatePost
<1>14. ASSUME NEW r \in Req, NEW u \in User, NEW c \in Comment, NEW p \in Post,
              NEW par \in Comment \union {NoRow}, CreateComment(r, u, c, p, par)
       PROVE  TagArgs' /\ TagInv'
  BY <1>3, <1>12, <1>14, TransactionSteps DEF CreateComment, Tagging
<1>15. ASSUME NEW r \in Req, NEW u \in User, NEW x \in Target,
              \/ x \in Post /\ DeletePost(r, u, x)
              \/ x \in Comment /\ DeleteComment(r, u, x)
              \/ Like(r, u, x) \/ Unlike(r, u, x)
       PROVE  TagArgs' /\ TagInv'
  BY <1>3, <1>15, TransactionSteps DEF DeletePost, DeleteComment, Like, Unlike, Tagging
<1>16. QED
  BY <1>4, <1>5, <1>6, <1>7, <1>8, <1>9, <1>10, <1>11, <1>12, <1>13, <1>14, <1>15
  DEF Next, Step

LEMMA TagInitial == IsFiniteSet(Post) /\ Init => TagArgs /\ TagInv
<1> SUFFICES ASSUME IsFiniteSet(Post), Init PROVE TagArgs /\ TagInv
  OBVIOUS
<1>1. \A t \in Tag : uses[t] = Cardinality(Linked(t)) /\ uses[t] \in Nat
  <2>1. \A t \in Tag : Linked(t) \subseteq Post
    BY DEF Linked
  <2>2. \A t \in Tag : Cardinality(Linked(t)) \in Nat
    BY <2>1, FS_Subset, FS_CardinalityType
  <2>3. QED
    BY <2>2 DEF Init, Linked
<1>2. uses \in [Tag -> Nat] /\ tags \in [Post -> SUBSET Tag]
  BY <1>1 DEF Init
<1>3. TagInv
  BY <1>1, <1>2 DEF TagInv, UsesCoverLinks, Linked
<1>4. TagArgs
  BY DEF Init, TagArgs, Tagging
<1>5. QED
  BY <1>3, <1>4

\* use_count never falls below the posts that carry the hashtag, whatever updates,
\* deletions and cascades overlap (UpsertMany, LinkPost, UnlinkPost).
THEOREM UsesAreCovered ==
  ASSUME IsFiniteSet(Post)
  PROVE  Spec => []UsesCoverLinks
<1> DEFINE Inv == HandlerTypes /\ InsertInv /\ TagArgs /\ TagInv
<1>1. Init => Inv
  BY TagInitial, LikeInitial
<1>2. Inv /\ [Next]_vars => Inv'
  BY Handlers, TagStep
<1>3. Inv => UsesCoverLinks
  BY DEF TagInv
<1>4. QED
  BY <1>1, <1>2, <1>3, PTL DEF Spec

-----------------------------------------------------------------------------
(* Threads *)

Commenting == {"create_comment", "insert_comment"}
Erasing == {"delete_comment", "erase"}
Dropping == {"delete_post", "unlink", "delete_row", "cascade"}
Posting == {"create_post", "insert_post"}

ThreadInv ==
  /\ on \in [Comment -> Post \union {NoRow}]
  /\ parent \in [Comment -> Comment \union {NoRow}]
  /\ ThreadsIntact

\* What a handler that writes a comment has checked, as far as it stays true.
Checked(S) ==
  \E p \in Post, par \in Comment \union {NoRow} :
    /\ S = {p, par}
    /\ par # NoRow => on[par] = p /\ state[par] # "absent"

RowKinds ==
  \A r \in Req :
    /\ pc[r] \in Commenting => row[r] \in Comment /\ Checked(arg[r])
    /\ pc[r] \in Erasing => row[r] \in Comment
    /\ pc[r] \in Dropping \union Posting => row[r] \in Post

\* The handlers at a step of each kind are those of before, or were called for such a row.
KindsStay ==
  \A q \in Req :
    /\ pc'[q] \in Commenting =>
         \/ pc[q] \in Commenting /\ row'[q] = row[q] /\ arg'[q] = arg[q]
         \/ row'[q] \in Comment /\ Checked(arg'[q])
    /\ pc'[q] \in Erasing => (pc[q] \in Erasing /\ row'[q] = row[q]) \/ row'[q] \in Comment
    /\ pc'[q] \in Dropping \union Posting =>
         (pc[q] \in Dropping \union Posting /\ row'[q] = row[q]) \/ row'[q] \in Post

\* Rows that are there keep their post, and are not made absent.
LinksStay ==
  \A x \in Comment : state[x] # "absent" => state'[x] # "absent" /\ on'[x] = on[x]

LEMMA RowKindsStay ==
  ASSUME RowKinds, KindsStay, LinksStay
  PROVE  RowKinds'
<1>1. ASSUME NEW S, Checked(S)
      PROVE  \E p \in Post, par \in Comment \union {NoRow} :
               /\ S = {p, par}
               /\ par # NoRow => on'[par] = p /\ state'[par] # "absent"
  BY <1>1 DEF Checked, LinksStay
<1>2. ASSUME NEW r \in Req
      PROVE  /\ pc'[r] \in Commenting => row'[r] \in Comment /\ Checked(arg[r])'
             /\ pc'[r] \in Erasing => row'[r] \in Comment
             /\ pc'[r] \in Dropping \union Posting => row'[r] \in Post
  <2>1. pc'[r] \in Commenting => row'[r] \in Comment /\ Checked(arg'[r])
    BY DEF RowKinds, KindsStay
  <2>2. Checked(arg'[r]) => Checked(arg[r])'
    BY <1>1 DEF Checked
  <2>3. QED
    BY <2>1, <2>2 DEF RowKinds, KindsStay
<1>3. QED
  BY <1>2 DEF RowKinds

\* The foreign key takes a comment's replies and their replies along.
LEMMA ThreadClosed ==
  ASSUME NEW c \in Comment
  PROVE  /\ c \in Subtree(c) /\ Subtree(c) \subseteq Comment
         /\ \A e \in Comment : parent[e] \in Subtree(c) => e \in Subtree(c)
<1>1. c \in Subtree(c) /\ Subtree(c) \subseteq Comment
  BY DEF Subtree
<1>2. ASSUME NEW e \in Comment, parent[e] \in Subtree(c) PROVE e \in Subtree(c)
  <2>1. ASSUME NEW S \in SUBSET Comment, c \in S, \A d \in Comment : parent[d] \in S => d \in S
        PROVE  e \in S
    <3>1. parent[e] \in S
      BY <1>2, <2>1 DEF Subtree
    <3>2. QED
      BY <2>1, <3>1
  <2>2. QED
    BY <2>1 DEF Subtree
<1>3. QED
  BY <1>1, <1>2

\* Rows leave together with all that hang on them.
LEMMA Removing ==
  ASSUME ThreadInv, NEW R, UNCHANGED <<on, parent>>,
         state' = [x \in Target |-> IF x \in R /\ state[x] = "live" THEN "gone" ELSE state[x]],
         \A d \in Comment \intersect Live : on[d] \in R \/ parent[d] \in R => d \in R
  PROVE  ThreadInv'
<1>1. ASSUME NEW d \in Comment, d \in Target, state'[d] = "live"
      PROVE  /\ on[d] \in Target /\ state'[on[d]] = "live"
             /\ parent[d] # NoRow => /\ parent[d] \in Target /\ state'[parent[d]] = "live"
                                     /\ on[parent[d]] = on[d]
  <2>1. state[d] = "live" /\ d \notin R
    BY <1>1
  <2>2. Attached(d)
    BY <1>1, <2>1 DEF ThreadInv, ThreadsIntact, Live
  <2>3. on[d] \notin R /\ parent[d] \notin R
    BY <1>1, <2>1 DEF Live
  <2>4. QED
    BY <2>2, <2>3 DEF Attached, Live
<1>2. QED
  BY <1>1 DEF ThreadInv, ThreadsIntact, Attached, Live

\* The post and the parent that InsertComment takes out of what was checked.
LEMMA CheckedArgs ==
  ASSUME Post \intersect Comment = {}, NoRow \notin Target, NEW S, Checked(S)
  PROVE  LET p == CHOOSE x \in S : x \in Post
             par == IF S \intersect Comment = {} THEN NoRow ELSE CHOOSE x \in S : x \in Comment
         IN  /\ p \in Post /\ par \in Comment \union {NoRow} /\ S = {p, par}
             /\ par # NoRow => on[par] = p /\ state[par] # "absent"
<1>1. PICK p0 \in Post, par0 \in Comment \union {NoRow} :
        /\ S = {p0, par0}
        /\ par0 # NoRow => on[par0] = p0 /\ state[par0] # "absent"
  BY DEF Checked
<1>2. NoRow \notin Post /\ NoRow \notin Comment
  BY DEF Target
<1>3. (CHOOSE x \in S : x \in Post) = p0
  BY <1>1, <1>2
<1>4. (IF S \intersect Comment = {} THEN NoRow ELSE CHOOSE x \in S : x \in Comment) = par0
  BY <1>1, <1>2
<1>5. QED
  BY <1>1, <1>3, <1>4

LEMMA ThreadStep ==
  ASSUME Post \intersect Comment = {}, NoRow \notin Target,
         HandlerTypes, InsertInv, RowKinds, ThreadInv, [Next]_vars
  PROVE  RowKinds' /\ ThreadInv'
<1> USE DEF content
<1>1. ASSUME UNCHANGED <<state, on, parent>> PROVE LinksStay /\ ThreadInv'
  BY <1>1 DEF LinksStay, ThreadInv, ThreadsIntact, Attached, Live
<1>2. ASSUME NEW r \in Req, Return(r), LinksStay PROVE RowKinds'
  <2>1. KindsStay
    BY <1>2 DEF Return, HandlerTypes, KindsStay, Commenting, Erasing, Dropping, Posting
  <2>2. QED
    BY <1>2, <2>1, RowKindsStay
<1>3. ASSUME NEW r \in Req, NEW u \in User, NEW x \in Target, NEW a, NEW s \in Waiting,
             Call(r, s, u, x, a),
             s = "create_comment" => x \in Comment /\ Checked(a),
             s = "delete_comment" => x \in Comment,
             s \in {"delete_post", "create_post"} => x \in Post
      PROVE  RowKinds' /\ ThreadInv'
  <2>1. /\ pc' = [pc EXCEPT ![r] = s] /\ row' = [row EXCEPT ![r] = x]
        /\ arg' = [arg EXCEPT ![r] = a] /\ UNCHANGED <<state, on, parent>>
    BY <1>3 DEF Call
  <2>2. s \in {"create_post", "update_post", "delete_post", "create_comment",
                "delete_comment", "like", "unlike"}
    BY TransactionSteps
  <2>3. KindsStay
    BY <1>3, <2>1, <2>2 DEF HandlerTypes, KindsStay, Commenting, Erasing, Dropping, Posting
  <2>4. QED
    BY <1>1, <2>1, <2>3, RowKindsStay
<1>4. ASSUME NEW r \in Req, BeginTxx(r) PROVE RowKinds' /\ ThreadInv'
  <2>1. /\ pc[r] \in Waiting /\ pc' = [pc EXCEPT ![r] = Transaction[pc[r]]]
        /\ UNCHANGED <<row, arg, state, on, parent>>
    BY <1>4 DEF BeginTxx, Goto
  <2>2. /\ Transaction[pc[r]] \in Commenting => pc[r] \in Commenting
        /\ Transaction[pc[r]] \in Erasing => pc[r] \in Erasing
        /\ Transaction[pc[r]] \in Dropping \union Posting =>
             pc[r] \in Dropping \union Posting
    BY <2>1, TransactionSteps DEF Commenting, Erasing, Dropping, Posting
  <2>3. KindsStay
    BY <2>1, <2>2 DEF HandlerTypes, KindsStay
  <2>4. QED
    BY <1>1, <2>1, <2>3, RowKindsStay
<1>5. ASSUME NEW r \in Req, Unlink(r) \/ SendDelete(r) PROVE RowKinds' /\ ThreadInv'
  <2>1. /\ pc[r] \in Dropping /\ UNCHANGED <<row, arg, state, on, parent>>
        /\ \/ pc' = [pc EXCEPT ![r] = "delete_row"]
           \/ pc' = [pc EXCEPT ![r] = "cascade"]
    BY <1>5 DEF Unlink, SendDelete, Goto, Dropping
  <2>2. KindsStay
    BY <2>1 DEF HandlerTypes, KindsStay, Commenting, Erasing, Dropping, Posting
  <2>3. QED
    BY <1>1, <2>1, <2>2, RowKindsStay
<1>6. ASSUME NEW r \in Req, Add(r) PROVE RowKinds' /\ ThreadInv'
  <2>1. UNCHANGED <<state, on, parent>>
    BY <1>6 DEF Add
  <2>2. CASE Return(r)
    BY <1>1, <1>2, <2>1, <2>2
  <2>3. CASE Goto(r, "tell_author")
    <3>1. KindsStay
      BY <2>3 DEF Goto, HandlerTypes, KindsStay, Commenting, Erasing, Dropping, Posting
    <3>2. QED
      BY <1>1, <2>1, <3>1, RowKindsStay
  <2>4. QED
    BY <1>6, <2>2, <2>3 DEF Add
<1>7. ASSUME NEW r \in Req, Erase(r) PROVE RowKinds' /\ ThreadInv'
  <2> DEFINE c == row[r]
  <2>1. /\ pc[r] = "erase" /\ pc' = [pc EXCEPT ![r] = "uncount"]
        /\ UNCHANGED <<row, arg, on, parent>>
        /\ state' = [x \in Target |-> IF x \in Subtree(c) \intersect Live
                                        THEN "gone" ELSE state[x]]
    BY <1>7 DEF Erase, Goto
  <2>2. c \in Comment
    BY <2>1 DEF RowKinds, Erasing
  <2>3. state' = [x \in Target |-> IF x \in Subtree(c) /\ state[x] = "live"
                                     THEN "gone" ELSE state[x]]
    BY <2>1 DEF Live
  <2>4. \A d \in Comment \intersect Live :
          on[d] \in Subtree(c) \/ parent[d] \in Subtree(c) => d \in Subtree(c)
    BY <2>2, ThreadClosed DEF ThreadInv, Target
  <2>5. ThreadInv'
    BY <2>1, <2>3, <2>4, Removing
  <2>6. LinksStay
    BY <2>1, <2>3 DEF LinksStay, Target
  <2>7. KindsStay
    BY <2>1 DEF HandlerTypes, KindsStay, Commenting, Erasing, Dropping, Posting
  <2>8. QED
    BY <2>5, <2>6, <2>7, RowKindsStay
<1>8. ASSUME NEW r \in Req, Cascade(r) PROVE RowKinds' /\ ThreadInv'
  <2> DEFINE p == row[r]
             R == {p} \union {c \in Comment : on[c] = p}
  <2>1. /\ pc[r] = "cascade" /\ Return(r) /\ UNCHANGED <<on, parent>>
        /\ state' = [x \in Target |-> IF x \in R /\ state[x] = "live" THEN "gone" ELSE state[x]]
    BY <1>8 DEF Cascade, PostAndComments
  <2>2. p \in Post
    BY <2>1 DEF RowKinds, Dropping
  <2>3. \A d \in Comment \intersect Live : on[d] \in R \/ parent[d] \in R => d \in R
    <3> SUFFICES ASSUME NEW d \in Comment, d \in Live, on[d] \in R \/ parent[d] \in R
                 PROVE  on[d] = p
      OBVIOUS
    <3>1. Attached(d) /\ on[d] \in Post \union {NoRow}
      BY DEF ThreadInv, ThreadsIntact
    <3>2. CASE on[d] \in R
      BY <2>2, <3>1, <3>2 DEF Attached, Live, Target
    <3>3. CASE parent[d] \in R
      <4>1. parent[d] \in Comment \union {NoRow}
        BY DEF ThreadInv
      <4>2. NoRow \notin Comment /\ p # NoRow
        BY <2>2 DEF Target
      <4>3. parent[d] \in Comment /\ on[parent[d]] = p
        BY <2>2, <3>3, <4>1, <4>2
      <4>4. QED
        BY <3>1, <4>2, <4>3 DEF Attached
    <3>4. QED
      BY <3>2, <3>3
  <2>4. ThreadInv'
    BY <2>1, <2>3, Removing
  <2>5. LinksStay
    BY <2>1 DEF LinksStay, Target
  <2>6. QED
    BY <1>2, <2>1, <2>4, <2>5
<1>9. ASSUME NEW r \in Req, InsertPost(r) PROVE RowKinds' /\ ThreadInv'
  <2>1. pc[r] = "insert_post" /\ Return(r) /\ UNCHANGED <<on, parent>>
    BY <1>9 DEF InsertPost
  <2>2. state' = state \/ state' = [state EXCEPT ![row[r]] = "live"]
    BY <1>9 DEF InsertPost, InsertRow
  <2>3. state[row[r]] = "absent" /\ row[r] \in Target
    BY <2>1 DEF InsertInv, Inserting, HandlerTypes
  <2>4. CASE state' = state
    BY <1>1, <1>2, <2>1, <2>4
  <2>5. CASE state' = [state EXCEPT ![row[r]] = "live"] /\ row[r] \in Post
    <3>1. LinksStay
      BY <2>1, <2>5 DEF LinksStay, HandlerTypes, Target
    <3>2. \A x \in Comment : state'[x] = state[x]
      BY <2>5 DEF HandlerTypes, Target
    <3>3. \A x \in Target : state[x] = "live" => state'[x] = "live"
      BY <2>5 DEF HandlerTypes
    <3>4. \A c \in Comment : c \in Target
      BY DEF Target
    <3>5. ThreadInv'
      BY <2>1, <3>2, <3>3, <3>4 DEF ThreadInv, ThreadsIntact, Attached, Live
    <3>6. QED
      BY <1>2, <2>1, <3>1, <3>5
  <2>6. row[r] \in Post
    BY <2>1 DEF RowKinds, Posting
  <2>7. QED
    BY <2>2, <2>4, <2>5, <2>6
<1>10. ASSUME NEW r \in Req, InsertComment(r) PROVE RowKinds' /\ ThreadInv'
  <2> DEFINE c == row[r]
             p == CHOOSE x \in arg[r] : x \in Post
             par == IF arg[r] \intersect Comment = {} THEN NoRow
                    ELSE CHOOSE x \in arg[r] : x \in Comment
  <2>1. pc[r] = "insert_comment" /\ Return(r)
    BY <1>10 DEF InsertComment
  <2>2. c \in Comment /\ c \in Target /\ state[c] = "absent"
    BY <2>1 DEF RowKinds, Commenting, InsertInv, Inserting, Target
  <2>3. /\ p \in Post /\ par \in Comment \union {NoRow} /\ arg[r] = {p, par}
        /\ par # NoRow => on[par] = p /\ state[par] # "absent"
    BY <2>1, CheckedArgs DEF RowKinds, Commenting
  <2>4. CASE ~(arg[r] \subseteq Live \union {NoRow})
    <3>1. UNCHANGED <<state, on, parent>>
      BY <1>10, <2>4 DEF InsertComment
    <3>2. QED
      BY <1>1, <1>2, <2>1, <3>1
  <2>5. CASE arg[r] \subseteq Live \union {NoRow}
    <3>1. /\ state' = [state EXCEPT ![c] = "live"]
          /\ on' = [on EXCEPT ![c] = p] /\ parent' = [parent EXCEPT ![c] = par]
      BY <1>10, <2>5 DEF InsertComment, InsertRow, Commented
    <3> HIDE DEF c, p, par
    <3>2. p \in Live /\ (par # NoRow => par \in Live)
      BY <2>3, <2>5 DEF Target
    <3>3. LinksStay
      BY <2>2, <3>1 DEF LinksStay, ThreadInv, HandlerTypes
    <3>4. \A x \in Live : x # c /\ x \in Target /\ state'[x] = "live"
      BY <2>2, <3>1 DEF Live, HandlerTypes
    <3>5. ASSUME NEW d \in Comment, state'[d] = "live" PROVE Attached(d)'
      <4>1. CASE d = c
        <5>1. on'[c] = p /\ parent'[c] = par
          BY <2>2, <3>1 DEF ThreadInv
        <5>2. par # NoRow => on'[par] = p
          BY <2>3, <3>1, <3>2, <3>4 DEF ThreadInv
        <5>3. QED
          BY <3>2, <3>4, <4>1, <5>1, <5>2 DEF Attached, Live
      <4>2. CASE d # c
        <5>1. d \in Live /\ on'[d] = on[d] /\ parent'[d] = parent[d]
          BY <3>1, <3>5, <4>2 DEF Live, HandlerTypes, ThreadInv, Target
        <5>2. Attached(d)
          BY <5>1 DEF ThreadInv, ThreadsIntact
        <5>3. parent[d] # NoRow => parent[d] # c /\ on'[parent[d]] = on[parent[d]]
          BY <3>1, <3>4, <5>2 DEF Attached, ThreadInv
        <5>4. QED
          BY <3>4, <5>1, <5>2, <5>3 DEF Attached, Live
      <4>3. QED
        BY <4>1, <4>2
    <3>6. /\ on' \in [Comment -> Post \union {NoRow}]
          /\ parent' \in [Comment -> Comment \union {NoRow}]
      BY <2>2, <2>3, <3>1 DEF ThreadInv
    <3>7. ThreadInv'
      BY <3>5, <3>6 DEF ThreadInv, ThreadsIntact, Live
    <3>8. QED
      BY <1>2, <2>1, <3>3, <3>7
  <2>6. QED
    BY <2>4, <2>5
<1>11. ASSUME NEW r \in Req, \/ Relink(r) \/ Uncount(r) \/ TellAuthor(r) \/ RemoveLike(r)
                             \/ Abandon(r)
       PROVE  RowKinds' /\ ThreadInv'
  <2>1. Return(r) /\ UNCHANGED <<state, on, parent>>
    BY <1>11 DEF Relink, Uncount, TellAuthor, RemoveLike, Abandon
  <2>2. QED
    BY <1>1, <1>2, <2>1
<1>12. CASE SpaceGone
  <2>1. /\ UNCHANGED <<pc, row, arg, on, parent>>
        /\ state' = [x \in Target |-> IF x \in Live THEN "gone" ELSE state[x]]
    BY <1>12 DEF SpaceGone, handler
  <2>2. \A x \in Comment : x \in Target /\ state'[x] # "live"
    BY <2>1 DEF Live, Target
  <2>3. ThreadInv'
    BY <2>1, <2>2 DEF ThreadInv, ThreadsIntact, Live
  <2>4. LinksStay /\ KindsStay
    BY <2>1 DEF LinksStay, KindsStay, Live, Target
  <2>5. QED
    BY <2>3, <2>4, RowKindsStay
<1>13. CASE (\E p \in Post : FanOutNewPost(p)) \/ UNCHANGED vars
  <2>1. UNCHANGED <<pc, row, arg, state, on, parent>>
    BY <1>13 DEF FanOutNewPost, vars, handler
  <2>2. KindsStay
    BY <2>1 DEF KindsStay
  <2>3. QED
    BY <1>1, <2>1, <2>2, RowKindsStay
<1>14. Post \subseteq Target /\ Comment \subseteq Target
  BY DEF Target
<1>15. ASSUME NEW r \in Req, NEW u \in User, NEW p \in Post, NEW T \in SUBSET Tag,
              CreatePost(r, u, p, T) \/ UpdatePost(r, u, p, T)
       PROVE  RowKinds' /\ ThreadInv'
  BY <1>3, <1>14, <1>15, TransactionSteps DEF CreatePost, UpdatePost
<1>16. ASSUME NEW r \in Req, NEW u \in User, NEW c \in Comment, NEW p \in Post,
              NEW par \in Comment \union {NoRow}, CreateComment(r, u, c, p, par)
       PROVE  RowKinds' /\ ThreadInv'
  <2>1. Checked({p, par})
    BY <1>16 DEF CreateComment, Checked, Live
  <2>2. QED
    BY <1>3, <1>14, <1>16, <2>1, TransactionSteps DEF CreateComment
<1>17. ASSUME NEW r \in Req, NEW u \in User, NEW x \in Target,
              \/ x \in Post /\ DeletePost(r, u, x)
              \/ x \in Comment /\ DeleteComment(r, u, x)
              \/ Like(r, u, x) \/ Unlike(r, u, x)
       PROVE  RowKinds' /\ ThreadInv'
  BY <1>3, <1>17, TransactionSteps DEF DeletePost, DeleteComment, Like, Unlike
<1>18. QED
  BY <1>4, <1>5, <1>6, <1>7, <1>8, <1>9, <1>10, <1>11, <1>12, <1>13, <1>14, <1>15, <1>16,
     <1>17
  DEF Next, Step

LEMMA ThreadInitial == Init => RowKinds /\ ThreadInv
<1> SUFFICES ASSUME Init PROVE RowKinds /\ ThreadInv
  OBVIOUS
<1>1. RowKinds
  BY DEF Init, RowKinds, Commenting, Erasing, Dropping, Posting
<1>2. ASSUME state = [x \in Target |-> "absent"] PROVE ThreadInv
  BY <1>2 DEF Init, ThreadInv, ThreadsIntact, Live, Target
<1>3. ASSUME state = [x \in Target |-> "live"] PROVE ThreadInv
  BY <1>3 DEF Init, ThreadInv, ThreadsIntact, Attached, Live, Target
<1>4. QED
  BY <1>1, <1>2, <1>3 DEF Init

\* A comment that can be read hangs on a live post, and a reply on a live comment of the
\* same post, although both are read before the transaction (CommentService.Create, and
\* the foreign keys of comments).
THEOREM ThreadsStayIntact ==
  ASSUME Post \intersect Comment = {}, NoRow \notin Target
  PROVE  Spec => []ThreadsIntact
<1> DEFINE Inv == HandlerTypes /\ InsertInv /\ RowKinds /\ ThreadInv
<1>1. Init => Inv
  BY LikeInitial, ThreadInitial
<1>2. Inv /\ [Next]_vars => Inv'
  BY Handlers, ThreadStep
<1>3. Inv => ThreadsIntact
  BY DEF ThreadInv
<1>4. QED
  BY <1>1, <1>2, <1>3, PTL DEF Spec

-----------------------------------------------------------------------------
(* comment_count *)

LiveOn(p) == {c \in Comment \intersect Live : on[c] = p}

\* Handlers that have erased a comment of p and not taken it off yet.
Owing(p) == {r \in Req : pc[r] = "uncount" /\ on[row[r]] = p}

\* A reply has the post of its parent, and both have been there.
Rooted ==
  \A e \in Comment :
    /\ on[e] # NoRow => state[on[e]] # "absent"
    /\ parent[e] # NoRow => on[e] = on[parent[e]] /\ state[parent[e]] # "absent"

Removal == Erasing \union {"uncount"}

RemovalRows == \A r \in Req : pc[r] \in Removal => row[r] \in Comment /\ state[row[r]] # "absent"

CommentsCounted ==
  \A p \in Post :
    /\ state[p] = "absent" => comments[p] = 0
    /\ state[p] = "live" /\ p \notin parted =>
         comments[p] = Cardinality(LiveOn(p)) + Cardinality(Owing(p))

CountInv ==
  /\ comments \in [Post -> Nat]
  /\ Rooted
  /\ RemovalRows
  /\ CommentsCounted

\* The sets that are counted are finite, and one member more or less counts for one.
LEMMA CountingComments ==
  ASSUME IsFiniteSet(Comment), IsFiniteSet(Req), NEW p, NEW x
  PROVE  /\ Cardinality(LiveOn(p)) \in Nat /\ Cardinality(Owing(p)) \in Nat
         /\ x \notin LiveOn(p) => Cardinality(LiveOn(p) \union {x}) = Cardinality(LiveOn(p)) + 1
         /\ x \in LiveOn(p) => Cardinality(LiveOn(p) \ {x}) = Cardinality(LiveOn(p)) - 1
         /\ x \notin Owing(p) => Cardinality(Owing(p) \union {x}) = Cardinality(Owing(p)) + 1
         /\ x \in Owing(p) => Cardinality(Owing(p) \ {x}) = Cardinality(Owing(p)) - 1
<1>1. LiveOn(p) \subseteq Comment /\ Owing(p) \subseteq Req
  BY DEF LiveOn, Owing
<1>2. IsFiniteSet(LiveOn(p)) /\ IsFiniteSet(Owing(p))
  BY <1>1, FS_Subset
<1>3. QED
  BY <1>2, FS_CardinalityType, FS_AddElement, FS_RemoveElement

\* All of a thread is under one post.
LEMMA ThreadOnOnePost ==
  ASSUME CountInv, NoRow \notin Target, NEW c \in Comment
  PROVE  \A d \in Subtree(c) : on[d] = on[c]
<1> DEFINE S == {d \in Comment : on[d] = on[c]}
<1>1. S \in SUBSET Comment /\ c \in S
  OBVIOUS
<1>2. ASSUME NEW e \in Comment, parent[e] \in S PROVE e \in S
  <2>1. parent[e] # NoRow
    BY <1>2 DEF Target
  <2>2. QED
    BY <1>2, <2>1 DEF CountInv, Rooted
<1>3. \A d \in Subtree(c) : d \in S
  BY <1>1, <1>2 DEF Subtree
<1>4. QED
  BY <1>3

\* A step of which the counters see nothing.
LEMMA Uncounted ==
  ASSUME CountInv, UNCHANGED <<state, on, parent, comments>>, parted \subseteq parted',
         \A q \in Req : /\ pc'[q] = "uncount" <=> pc[q] = "uncount"
                        /\ pc[q] = "uncount" => row'[q] = row[q]
                        /\ pc'[q] \in Removal =>
                             \/ pc[q] \in Removal /\ row'[q] = row[q]
                             \/ row'[q] \in Comment /\ state[row'[q]] # "absent"
  PROVE  CountInv'
<1>1. \A p \in Post : LiveOn(p)' = LiveOn(p) /\ Owing(p)' = Owing(p)
  BY DEF LiveOn, Live, Owing
<1>2. CommentsCounted'
  BY <1>1 DEF CountInv, CommentsCounted
<1>3. Rooted' /\ RemovalRows'
  BY DEF CountInv, Rooted, RemovalRows
<1>4. QED
  BY <1>2, <1>3 DEF CountInv

LEMMA CountStep ==
  ASSUME IsFiniteSet(Comment), IsFiniteSet(Req),
         Post \intersect Comment = {}, NoRow \notin Target,
         HandlerTypes, InsertInv, RowKinds, ThreadInv, CountInv, [Next]_vars
  PROVE  CountInv'
<1> USE DEF content, counters
<1>1. ASSUME NEW r \in Req, Return(r), pc[r] # "uncount",
             UNCHANGED <<state, on, parent, comments>>, parted \subseteq parted'
      PROVE  CountInv'
  BY <1>1, Uncounted DEF Return, HandlerTypes, Removal, Erasing
<1>2. ASSUME NEW r \in Req, NEW u \in User, NEW x \in Target, NEW a, NEW s \in Waiting,
             Call(r, s, u, x, a),
             s = "delete_comment" => x \in Comment /\ state[x] # "absent"
      PROVE  CountInv'
  <2>1. /\ pc[r] = "idle" /\ pc' = [pc EXCEPT ![r] = s] /\ row' = [row EXCEPT ![r] = x]
        /\ UNCHANGED <<state, on, parent, comments, parted>>
    BY <1>2 DEF Call
  <2>2. s # "uncount" /\ s # "erase"
    BY TransactionSteps
  <2>3. QED
    BY <1>2, <2>1, <2>2, Uncounted DEF HandlerTypes, Removal, Erasing
<1>3. ASSUME NEW r \in Req, BeginTxx(r) PROVE CountInv'
  <2>1. /\ pc[r] \in Waiting /\ pc' = [pc EXCEPT ![r] = Transaction[pc[r]]]
        /\ UNCHANGED <<row, state, on, parent, comments, parted>>
    BY <1>3 DEF BeginTxx, Goto
  <2>2. /\ Transaction[pc[r]] # "uncount" /\ pc[r] # "uncount"
        /\ Transaction[pc[r]] \in Removal => pc[r] \in Removal
    BY <2>1, TransactionSteps DEF Removal, Erasing
  <2>3. QED
    BY <2>1, <2>2, Uncounted DEF HandlerTypes
<1>4. ASSUME NEW r \in Req, Unlink(r) \/ SendDelete(r) PROVE CountInv'
  <2>1. /\ pc[r] # "uncount" /\ UNCHANGED <<row, state, on, parent, comments, parted>>
        /\ \/ pc' = [pc EXCEPT ![r] = "delete_row"]
           \/ pc' = [pc EXCEPT ![r] = "cascade"]
    BY <1>4 DEF Unlink, SendDelete, Goto
  <2>2. QED
    BY <2>1, Uncounted DEF HandlerTypes, Removal, Erasing
<1>5. ASSUME NEW r \in Req, Add(r) PROVE CountInv'
  <2>1. pc[r] = "add" /\ UNCHANGED <<state, on, parent, comments, parted>>
    BY <1>5 DEF Add
  <2>2. CASE Return(r)
    BY <1>1, <2>1, <2>2
  <2>3. CASE Goto(r, "tell_author")
    BY <2>1, <2>3, Uncounted DEF Goto, HandlerTypes, Removal, Erasing
  <2>4. QED
    BY <1>5, <2>2, <2>3 DEF Add
<1>6. ASSUME NEW r \in Req, Relink(r) \/ TellAuthor(r) \/ RemoveLike(r) PROVE CountInv'
  <2>1. /\ Return(r) /\ pc[r] # "uncount"
        /\ UNCHANGED <<state, on, parent, comments, parted>>
    BY <1>6 DEF Relink, TellAuthor, RemoveLike
  <2>2. QED
    BY <1>1, <2>1
<1>7. ASSUME NEW r \in Req, Abandon(r) PROVE CountInv'
  <2>1. Return(r) /\ UNCHANGED <<state, on, parent, comments>> /\ parted \subseteq parted'
    BY <1>7 DEF Abandon
  <2>2. CASE pc[r] # "uncount"
    BY <1>1, <2>1, <2>2
  <2>3. CASE pc[r] = "uncount"
    <3>1. parted' = parted \union {on[row[r]]}
      BY <1>7, <2>3 DEF Abandon
    <3>2. \A q \in Req : q # r => pc'[q] = pc[q] /\ row'[q] = row[q]
      BY <2>1 DEF Return
    <3>3. pc'[r] = "idle"
      BY <2>1 DEF Return, HandlerTypes
    <3>4. \A p \in Post : /\ LiveOn(p)' = LiveOn(p)
                          /\ p \notin parted' => Owing(p)' = Owing(p)
      BY <2>1, <3>1, <3>2, <3>3 DEF LiveOn, Live, Owing
    <3>5. CommentsCounted'
      BY <2>1, <3>1, <3>4 DEF CountInv, CommentsCounted
    <3>6. Rooted' /\ RemovalRows'
      BY <2>1, <3>2, <3>3 DEF CountInv, Rooted, RemovalRows, Removal, Erasing
    <3>7. QED
      BY <2>1, <3>5, <3>6 DEF CountInv
  <2>4. QED
    BY <2>2, <2>3
<1>8. ASSUME NEW r \in Req, InsertPost(r) PROVE CountInv'
  <2>1. /\ pc[r] = "insert_post" /\ Return(r) /\ UNCHANGED <<on, parent, comments, parted>>
        /\ state' = state \/ state' = [state EXCEPT ![row[r]] = "live"]
    BY <1>8 DEF InsertPost, InsertRow
  <2>2. row[r] \in Post /\ state[row[r]] = "absent" /\ row[r] \in Target
    BY <2>1 DEF RowKinds, Posting, InsertInv, Inserting, HandlerTypes
  <2>3. CASE state' = state
    BY <1>1, <2>1, <2>3
  <2>4. CASE state' = [state EXCEPT ![row[r]] = "live"]
    <3> DEFINE new == row[r]
    <3>1. \A q \in Req : /\ pc'[q] = "uncount" <=> pc[q] = "uncount"
                         /\ pc'[q] \in Removal => pc[q] \in Removal /\ row'[q] = row[q]
                         /\ pc[q] = "uncount" => row'[q] = row[q]
      BY <2>1 DEF Return, HandlerTypes, Removal, Erasing
    <3>2. \A x \in Target : x # new => state'[x] = state[x]
      BY <2>4 DEF HandlerTypes
    <3>3. \A c \in Comment : c \in Target /\ c # new
      BY <2>2 DEF Target
    <3>4. state'[new] = "live"
      BY <2>2, <2>4 DEF HandlerTypes
    <3> HIDE DEF new
    <3>5. \A p \in Post : p \in Target
      BY DEF Target
    <3>6. \A p : {c \in Comment : c \in Target /\ state'[c] = "live" /\ on'[c] = p} = LiveOn(p)
      BY <2>1, <3>2, <3>3 DEF LiveOn, Live
    <3>7. \A p : LiveOn(p)' = LiveOn(p) /\ Owing(p)' = Owing(p)
      BY <2>1, <3>1, <3>6 DEF LiveOn, Live, Owing
    <3>8. LiveOn(new) = {} /\ Owing(new) = {} /\ comments[new] = 0
      <4>1. new \in Post /\ new \in Target /\ new # NoRow /\ state[new] = "absent"
        BY <2>2 DEF new
      <4>2. \A c \in Comment : on[c] # new
        BY <4>1 DEF CountInv, Rooted
      <4>3. \A q \in Req : pc[q] = "uncount" => row[q] \in Comment
        BY DEF CountInv, RemovalRows, Removal
      <4>4. QED
        BY <4>1, <4>2, <4>3 DEF CountInv, CommentsCounted, LiveOn, Owing
    <3>9. CommentsCounted'
      BY <2>1, <3>2, <3>4, <3>5, <3>7, <3>8, FS_EmptySet DEF CountInv, CommentsCounted
    <3>10. Rooted' /\ RemovalRows'
      <4>1. \A x \in Target : state[x] # "absent" => state'[x] # "absent"
        BY <3>2, <3>4
      <4>2. Rooted'
        BY <2>1, <4>1, <3>3 DEF CountInv, Rooted, ThreadInv, Target
      <4>3. RemovalRows'
        BY <3>1, <3>3, <4>1 DEF CountInv, RemovalRows
      <4>4. QED
        BY <4>2, <4>3
    <3>11. QED
      BY <2>1, <3>9, <3>10 DEF CountInv
  <2>5. QED
    BY <2>1, <2>3, <2>4
<1>9. ASSUME NEW r \in Req, Erase(r) PROVE CountInv'
  <2> DEFINE c == row[r]
             rows == Subtree(c) \intersect Live
  <2>1. /\ pc[r] = "erase" /\ pc' = [pc EXCEPT ![r] = "uncount"]
        /\ UNCHANGED <<row, on, parent, comments>>
        /\ state' = [x \in Target |-> IF x \in rows THEN "gone" ELSE state[x]]
        /\ parted' = IF rows = {c} THEN parted ELSE parted \union {on[c]}
    BY <1>9 DEF Erase, Goto
  <2>2. c \in Comment /\ state[c] # "absent"
    BY <2>1 DEF CountInv, RemovalRows, Removal, Erasing
  <2>3. rows \subseteq Comment /\ \A d \in rows : on[d] = on[c]
    BY <2>2, ThreadClosed, ThreadOnOnePost
  <2> HIDE DEF c, rows
  <2>4. \A x \in Target : /\ x \notin rows => state'[x] = state[x]
                          /\ x \in rows => state'[x] = "gone"
                          /\ state'[x] = "absent" <=> state[x] = "absent"
    BY <2>1 DEF rows, Live
  <2>5. \A x \in Comment : x \in Target
    BY DEF Target
  <2>6. \A p \in Post : state'[p] = state[p]
    BY <2>3, <2>4 DEF Target
  <2>7. \A p : LiveOn(p)' = LiveOn(p) \ {d \in rows : on[d] = p}
    BY <2>1, <2>4, <2>5 DEF LiveOn, Live
  <2>8. \A p : Owing(p)' = IF on[c] = p THEN Owing(p) \union {r} ELSE Owing(p)
    BY <2>1 DEF Owing, HandlerTypes, c
  <2>9. \A p : p # on[c] => LiveOn(p)' = LiveOn(p) /\ Owing(p)' = Owing(p)
    BY <2>3, <2>7, <2>8
  <2>10. rows = {c} =>
           Cardinality(LiveOn(on[c])') + Cardinality(Owing(on[c])')
             = Cardinality(LiveOn(on[c])) + Cardinality(Owing(on[c]))
    <3> SUFFICES ASSUME rows = {c}
                 PROVE  Cardinality(LiveOn(on[c])') + Cardinality(Owing(on[c])')
                          = Cardinality(LiveOn(on[c])) + Cardinality(Owing(on[c]))
      OBVIOUS
    <3> DEFINE p == on[c]
    <3>1. c \in LiveOn(p) /\ r \notin Owing(p)
      BY <2>1, <2>2 DEF LiveOn, Owing, rows
    <3>2. LiveOn(on[c])' = LiveOn(p) \ {c} /\ Owing(on[c])' = Owing(p) \union {r}
      <4>1. on'[c'] = on[c]
        BY <2>1 DEF c
      <4>2. QED
        BY <2>7, <2>8, <4>1
    <3>3. /\ Cardinality(LiveOn(p)) \in Nat /\ Cardinality(Owing(p)) \in Nat
          /\ Cardinality(LiveOn(p) \ {c}) = Cardinality(LiveOn(p)) - 1
          /\ Cardinality(Owing(p) \union {r}) = Cardinality(Owing(p)) + 1
      BY <3>1, CountingComments
    <3>4. QED
      BY <3>2, <3>3
  <2>11. CommentsCounted'
    <3> SUFFICES ASSUME NEW p \in Post
                 PROVE  /\ state'[p] = "absent" => comments'[p] = 0
                        /\ state'[p] = "live" /\ p \notin parted' =>
                             comments'[p] = Cardinality(LiveOn(p)') + Cardinality(Owing(p)')
      BY DEF CommentsCounted
    <3>1. CASE p # on[c]
      BY <2>1, <2>6, <2>9, <3>1 DEF CountInv, CommentsCounted
    <3>2. CASE p = on[c] /\ rows = {c}
      <4>1. LiveOn(p)' = LiveOn(on[c])' /\ Owing(p)' = Owing(on[c])'
        <5>1. on'[c'] = on[c]
          BY <2>1 DEF c
        <5>2. QED
          BY <3>2, <5>1
      <4>2. QED
        BY <2>1, <2>6, <2>10, <3>2, <4>1 DEF CountInv, CommentsCounted
    <3>3. CASE p = on[c] /\ rows # {c}
      BY <2>1, <2>6, <3>3 DEF CountInv, CommentsCounted
    <3>4. QED
      BY <3>1, <3>2, <3>3
  <2>12. Rooted'
    BY <2>1, <2>4 DEF CountInv, Rooted, ThreadInv, Target
  <2>13. RemovalRows'
    <3>1. \A q \in Req : pc'[q] \in Removal => pc[q] \in Removal
      BY <2>1 DEF HandlerTypes, Removal, Erasing
    <3>2. QED
      BY <2>1, <2>4, <2>5, <3>1 DEF CountInv, RemovalRows
  <2>14. QED
    BY <2>1, <2>11, <2>12, <2>13 DEF CountInv
<1>10. ASSUME NEW r \in Req, Uncount(r) PROVE CountInv'
  <2> DEFINE p == on[row[r]]
  <2>1. /\ pc[r] = "uncount" /\ Return(r) /\ UNCHANGED <<state, on, parent, parted>>
        /\ comments' = [comments EXCEPT ![p] = IF p \in Live THEN Floor(@ + (-1)) ELSE @]
    BY <1>10 DEF Uncount, IncrementCommentCount
  <2>2. \A q \in Req : /\ q # r => pc'[q] = pc[q] /\ row'[q] = row[q]
                       /\ pc'[r] = "idle"
    BY <2>1 DEF Return, HandlerTypes
  <2>3. \A s : LiveOn(s)' = LiveOn(s)
    BY <2>1 DEF LiveOn, Live
  <2>4. r \in Owing(p)
    BY <2>1 DEF Owing
  <2>5. \A s : Owing(s)' = IF s = p THEN Owing(s) \ {r} ELSE Owing(s)
    BY <2>1, <2>2 DEF Owing
  <2> HIDE DEF p
  <2>6. /\ Cardinality(LiveOn(p)) \in Nat /\ Cardinality(Owing(p)) \in Nat
        /\ Cardinality(Owing(p) \ {r}) = Cardinality(Owing(p)) - 1
    BY <2>4, CountingComments
  <2>7. Cardinality(Owing(p) \ {r}) \in Nat
    <3>1. IsFiniteSet(Owing(p) \ {r})
      BY FS_Subset DEF Owing
    <3>2. QED
      BY <3>1, FS_CardinalityType
  <2>8. comments' \in [Post -> Nat]
    <3>1. \A n \in Nat : Floor(n + (-1)) \in Nat
      BY DEF Floor
    <3>2. QED
      BY <2>1, <3>1 DEF CountInv
  <2>9. CommentsCounted'
    <3> SUFFICES ASSUME NEW s \in Post
                 PROVE  /\ state[s] = "absent" => comments'[s] = 0
                        /\ state[s] = "live" /\ s \notin parted =>
                             comments'[s] = Cardinality(LiveOn(s)') + Cardinality(Owing(s)')
      BY <2>1 DEF CommentsCounted
    <3>1. CASE s # p
      BY <2>1, <2>3, <2>5, <3>1 DEF CountInv, CommentsCounted
    <3>2. CASE s = p
      <4>1. LiveOn(s)' = LiveOn(p) /\ Owing(s)' = Owing(p) \ {r}
        BY <2>3, <2>5, <3>2
      <4>2. comments[p] \in Nat /\ comments'[p] = IF state[p] = "live" THEN Floor(comments[p] - 1)
                                                                      ELSE comments[p]
        BY <2>1, <3>2 DEF CountInv, Live, Target
      <4>3. state[p] = "live" /\ p \notin parted =>
              comments[p] = Cardinality(LiveOn(p)) + Cardinality(Owing(p))
        BY <3>2 DEF CountInv, CommentsCounted
      <4>4. state[p] = "absent" => comments[p] = 0
        BY <3>2 DEF CountInv, CommentsCounted
      <4>5. QED
        BY <2>6, <2>7, <3>2, <4>1, <4>2, <4>3, <4>4 DEF Floor
    <3>3. QED
      BY <3>1, <3>2
  <2>10. Rooted' /\ RemovalRows'
    BY <2>1, <2>2 DEF CountInv, Rooted, RemovalRows, Removal, Erasing
  <2>11. QED
    BY <2>8, <2>9, <2>10 DEF CountInv
<1>11. ASSUME NEW r \in Req, InsertComment(r) PROVE CountInv'
  <2> DEFINE c == row[r]
             p == CHOOSE x \in arg[r] : x \in Post
             par == IF arg[r] \intersect Comment = {} THEN NoRow
                    ELSE CHOOSE x \in arg[r] : x \in Comment
  <2>1. pc[r] = "insert_comment" /\ Return(r) /\ UNCHANGED parted
    BY <1>11 DEF InsertComment
  <2>2. c \in Comment /\ c \in Target /\ state[c] = "absent"
    BY <2>1 DEF RowKinds, Commenting, InsertInv, Inserting, Target
  <2>3. /\ p \in Post /\ par \in Comment \union {NoRow} /\ arg[r] = {p, par}
        /\ par # NoRow => on[par] = p /\ state[par] # "absent"
    BY <2>1, CheckedArgs DEF RowKinds, Commenting
  <2>4. CASE ~(arg[r] \subseteq Live \union {NoRow})
    <3>1. UNCHANGED <<state, on, parent, comments>>
      BY <1>11, <2>4 DEF InsertComment
    <3>2. QED
      BY <1>1, <2>1, <3>1
  <2>5. CASE arg[r] \subseteq Live \union {NoRow}
    <3>1. /\ state' = [state EXCEPT ![c] = "live"]
          /\ on' = [on EXCEPT ![c] = p] /\ parent' = [parent EXCEPT ![c] = par]
          /\ comments' = [comments EXCEPT ![p] = IF p \in Live THEN Floor(@ + 1) ELSE @]
      BY <1>11, <2>5 DEF InsertComment, InsertRow, IncrementCommentCount, Commented
    <3> HIDE DEF c, p, par
    <3>2. p \in Live /\ NoRow \notin Post /\ NoRow \notin Comment
      BY <2>3, <2>5 DEF Target
    <3>3. \A q \in Req : /\ q # r => pc'[q] = pc[q] /\ row'[q] = row[q]
                         /\ pc'[r] = "idle"
      BY <2>1 DEF Return, HandlerTypes
    <3>4. /\ state'[c] = "live" /\ on'[c] = p /\ parent'[c] = par
          /\ \A x \in Target : x # c => state'[x] = state[x]
          /\ \A x \in Comment : x # c => on'[x] = on[x] /\ parent'[x] = parent[x]
      BY <2>2, <3>1 DEF HandlerTypes, ThreadInv
    <3>5. \A x \in Post : x \in Target /\ x # c
      BY <2>2 DEF Target
    <3>6. \A q \in Req : pc[q] \in Removal => row[q] \in Comment /\ row[q] # c
      BY <2>2 DEF CountInv, RemovalRows
    <3>7. \A s : Owing(s)' = Owing(s)
      <4>1. \A q \in Req : pc'[q] = "uncount" <=> pc[q] = "uncount"
        BY <2>1, <3>3
      <4>2. \A q \in Req : pc[q] = "uncount" => row'[q] = row[q] /\ on'[row[q]] = on[row[q]]
        BY <2>1, <3>3, <3>4, <3>6 DEF Removal
      <4>3. QED
        BY <4>1, <4>2 DEF Owing
    <3>8. \A s : LiveOn(s)' = IF s = p THEN LiveOn(s) \union {c} ELSE LiveOn(s)
      <4>1. \A x \in Comment : x \in Target
        BY DEF Target
      <4>2. c \notin Live
        BY <2>2 DEF Live
      <4>3. \A x \in Comment : x \in Live' <=> x \in Live \/ x = c
        BY <2>2, <3>4, <4>1 DEF Live
      <4>4. \A s, x : x \in LiveOn(s)' <=> x \in Comment /\ x \in Live' /\ on'[x] = s
        BY DEF LiveOn
      <4>5. \A s, x : x \in LiveOn(s) <=> x \in Comment /\ x \in Live /\ on[x] = s
        BY DEF LiveOn
      <4>6. \A s, x : x \in LiveOn(s)' <=> (x = c /\ s = p) \/ x \in LiveOn(s)
        BY <2>2, <3>4, <4>2, <4>3, <4>4, <4>5
      <4>7. QED
        BY <4>6
    <3>9. c \notin LiveOn(p)
      BY <2>2 DEF LiveOn, Live
    <3>10. /\ Cardinality(LiveOn(p)) \in Nat /\ Cardinality(Owing(p)) \in Nat
           /\ Cardinality(LiveOn(p) \union {c}) = Cardinality(LiveOn(p)) + 1
      BY <3>9, CountingComments
    <3>11. /\ comments' \in [Post -> Nat] /\ comments[p] \in Nat
           /\ comments'[p] = comments[p] + 1
           /\ \A s \in Post : s # p => comments'[s] = comments[s]
      BY <2>3, <3>1, <3>2 DEF CountInv, Floor
    <3>12. CommentsCounted'
      <4> SUFFICES ASSUME NEW s \in Post
                   PROVE  /\ state'[s] = "absent" => comments'[s] = 0
                          /\ state'[s] = "live" /\ s \notin parted' =>
                               comments'[s] = Cardinality(LiveOn(s)') + Cardinality(Owing(s)')
        BY DEF CommentsCounted
      <4>1. state'[s] = state[s]
        BY <3>4, <3>5
      <4>2. CASE s # p
        BY <2>1, <3>7, <3>8, <3>11, <4>1, <4>2 DEF CountInv, CommentsCounted
      <4>3. CASE s = p
        <5>1. LiveOn(s)' = LiveOn(p) \union {c} /\ Owing(s)' = Owing(p)
          BY <3>7, <3>8, <4>3
        <5>2. state[p] = "live"
          BY <3>2 DEF Live
        <5>3. p \notin parted =>
                comments[p] = Cardinality(LiveOn(p)) + Cardinality(Owing(p))
          BY <4>3, <5>2 DEF CountInv, CommentsCounted
        <5>4. QED
          BY <2>1, <3>10, <3>11, <4>1, <4>3, <5>1, <5>2, <5>3
      <4>4. QED
        BY <4>2, <4>3
    <3>13. Rooted'
      <4> SUFFICES ASSUME NEW e \in Comment
                   PROVE  /\ on'[e] # NoRow => state'[on'[e]] # "absent"
                          /\ parent'[e] # NoRow => /\ on'[e] = on'[parent'[e]]
                                                   /\ state'[parent'[e]] # "absent"
        BY DEF Rooted
      <4>1. \A x \in Target : state[x] # "absent" => state'[x] # "absent"
        BY <3>4
      <4>2. CASE e = c
        <5>1. on'[e] = p /\ state[p] # "absent" /\ p \in Target
          BY <3>2, <3>4, <4>2 DEF Live
        <5>2. par # NoRow => par \in Comment /\ par \in Target /\ par # c /\ state[par] # "absent"
          BY <2>2, <2>3 DEF Target
        <5>3. QED
          BY <2>3, <3>4, <4>1, <4>2, <5>1, <5>2
      <4>3. CASE e # c
        <5>1. /\ on[e] # NoRow => on[e] \in Target /\ state[on[e]] # "absent"
              /\ parent[e] # NoRow => /\ parent[e] \in Comment /\ parent[e] \in Target
                                      /\ on[e] = on[parent[e]] /\ state[parent[e]] # "absent"
          BY DEF CountInv, Rooted, ThreadInv, Target
        <5>2. QED
          BY <2>2, <3>4, <4>1, <4>3, <5>1
      <4>4. QED
        BY <4>2, <4>3
    <3>14. RemovalRows'
      <4>1. \A q \in Req : pc'[q] \in Removal => pc[q] \in Removal /\ row'[q] = row[q]
        BY <2>1, <3>3 DEF Removal, Erasing
      <4>2. QED
        BY <3>4, <3>6, <4>1 DEF CountInv, RemovalRows, Target
    <3>15. QED
      BY <3>11, <3>12, <3>13, <3>14 DEF CountInv
  <2>6. QED
    BY <2>4, <2>5
<1>12. ASSUME NEW r \in Req, Cascade(r) PROVE CountInv'
  <2> DEFINE p == row[r]
             R == {p} \union {c \in Comment : on[c] = p}
  <2>1. /\ pc[r] = "cascade" /\ Return(r) /\ UNCHANGED <<on, parent, comments, parted>>
        /\ state' = [x \in Target |-> IF x \in R /\ state[x] = "live" THEN "gone" ELSE state[x]]
    BY <1>12 DEF Cascade, PostAndComments
  <2>2. p \in Post /\ p \in Target
    BY <2>1 DEF RowKinds, Dropping, Target
  <2>3. \A q \in Req : /\ pc'[q] = "uncount" <=> pc[q] = "uncount"
                       /\ pc'[q] \in Removal => pc[q] \in Removal /\ row'[q] = row[q]
                       /\ pc[q] = "uncount" => row'[q] = row[q]
    BY <2>1 DEF Return, HandlerTypes, Removal, Erasing
  <2>4. \A x \in Target : state'[x] = "absent" <=> state[x] = "absent"
    BY <2>1
  <2>5. state'[p] # "live"
    BY <2>1, <2>2
  <2> HIDE DEF p
  <2>6. \A s \in Post : s # p => /\ state'[s] = state[s]
                                 /\ LiveOn(s)' = LiveOn(s)
    <3>1. \A x \in Comment : on[x] # p /\ x # p => state'[x] = state[x]
      BY <2>1 DEF Target
    <3>2. \A x \in Comment : x # p /\ x \in Target
      BY <2>2 DEF Target
    <3>3. ASSUME NEW s \in Post, s # p PROVE state'[s] = state[s] /\ LiveOn(s)' = LiveOn(s)
      <4>1. s \in Target /\ s \notin Comment
        BY DEF Target
      <4>2. state'[s] = state[s]
        BY <2>1, <3>3, <4>1
      <4>3. \A x \in Comment : on[x] = s => state'[x] = state[x]
        BY <3>1, <3>2, <3>3
      <4>4. LiveOn(s)' = LiveOn(s)
        BY <2>1, <4>3 DEF LiveOn, Live
      <4>5. QED
        BY <4>2, <4>4
    <3>4. QED
      BY <3>3
  <2>7. \A s : Owing(s)' = Owing(s)
    BY <2>1, <2>3 DEF Owing
  <2>8. CommentsCounted'
    BY <2>1, <2>2, <2>4, <2>5, <2>6, <2>7 DEF CountInv, CommentsCounted
  <2>9. Rooted' /\ RemovalRows'
    <3>1. Rooted'
      BY <2>1, <2>4 DEF CountInv, Rooted, ThreadInv, Target
    <3>2. RemovalRows'
      BY <2>3, <2>4 DEF CountInv, RemovalRows, Target
    <3>3. QED
      BY <3>1, <3>2
  <2>10. QED
    BY <2>1, <2>8, <2>9 DEF CountInv
<1>13. CASE SpaceGone
  <2>1. /\ UNCHANGED <<pc, row, on, parent, comments>>
        /\ state' = [x \in Target |-> IF x \in Live THEN "gone" ELSE state[x]]
    BY <1>13 DEF SpaceGone, handler
  <2>2. \A x \in Target : /\ state'[x] # "live"
                          /\ state'[x] = "absent" <=> state[x] = "absent"
    BY <2>1 DEF Live
  <2>3. CommentsCounted'
    BY <2>1, <2>2 DEF CountInv, CommentsCounted, Target
  <2>4. Rooted' /\ RemovalRows'
    BY <2>1, <2>2 DEF CountInv, Rooted, RemovalRows, ThreadInv, Target
  <2>5. QED
    BY <2>1, <2>3, <2>4 DEF CountInv
<1>14. CASE (\E p \in Post : FanOutNewPost(p)) \/ UNCHANGED vars
  <2>1. UNCHANGED <<pc, row, state, on, parent, comments, parted>>
    BY <1>14 DEF FanOutNewPost, vars, handler
  <2>2. QED
    BY <2>1, Uncounted
<1>15. Post \subseteq Target /\ Comment \subseteq Target
  BY DEF Target
<1>16. ASSUME NEW r \in Req, NEW u \in User, NEW p \in Post, NEW T \in SUBSET Tag,
              CreatePost(r, u, p, T) \/ UpdatePost(r, u, p, T)
       PROVE  CountInv'
  BY <1>2, <1>15, <1>16, TransactionSteps DEF CreatePost, UpdatePost
<1>17. ASSUME NEW r \in Req, NEW u \in User, NEW c \in Comment, NEW p \in Post,
              NEW par \in Comment \union {NoRow}, CreateComment(r, u, c, p, par)
       PROVE  CountInv'
  BY <1>2, <1>15, <1>17, TransactionSteps DEF CreateComment
<1>18. ASSUME NEW r \in Req, NEW u \in User, NEW x \in Target,
              \/ x \in Post /\ DeletePost(r, u, x)
              \/ x \in Comment /\ DeleteComment(r, u, x)
              \/ Like(r, u, x) \/ Unlike(r, u, x)
       PROVE  CountInv'
  BY <1>2, <1>18, TransactionSteps DEF DeletePost, DeleteComment, Like, Unlike, Live
<1>19. QED
  BY <1>3, <1>4, <1>5, <1>6, <1>7, <1>8, <1>9, <1>10, <1>11, <1>12, <1>13, <1>14, <1>15,
     <1>16, <1>17, <1>18
  DEF Next, Step

LEMMA CountInitial ==
  ASSUME IsFiniteSet(Comment), IsFiniteSet(Req), NoRow \notin Target
  PROVE  Init => CountInv
<1> SUFFICES ASSUME Init PROVE CountInv
  OBVIOUS
<1>1. \A p : {c \in Comment : on[c] = p} \subseteq Comment
  OBVIOUS
<1>2. \A p \in Post : /\ comments[p] = Cardinality({c \in Comment : on[c] = p})
                      /\ comments[p] \in Nat
  BY <1>1, FS_Subset, FS_CardinalityType DEF Init
<1>3. comments \in [Post -> Nat]
  BY <1>2 DEF Init
<1>4. RemovalRows /\ \A p : Owing(p) = {}
  BY DEF Init, RemovalRows, Removal, Erasing, Owing
<1>5. ASSUME state = [x \in Target |-> "absent"], on = [c \in Comment |-> NoRow],
             parent = [c \in Comment |-> NoRow]
      PROVE  CountInv
  <2>1. \A p \in Post : p \in Target /\ {c \in Comment : on[c] = p} = {}
    BY <1>5 DEF Target
  <2>2. CommentsCounted
    BY <1>2, <1>5, <2>1, FS_EmptySet DEF CommentsCounted
  <2>3. QED
    BY <1>3, <1>4, <1>5, <2>2 DEF CountInv, Rooted
<1>6. ASSUME state = [x \in Target |-> "live"], NEW p \in Post, NEW top \in Comment,
             on = [c \in Comment |-> p], parent \in [Comment -> {NoRow, top}]
      PROVE  CountInv
  <2>1. /\ \A q : LiveOn(q) = {c \in Comment : on[c] = q}
        /\ \A q \in Post : q \in Target
    BY <1>6 DEF LiveOn, Live, Target
  <2>2. CommentsCounted
    BY <1>2, <1>4, <1>6, <2>1, FS_EmptySet DEF CommentsCounted
  <2>3. Rooted
    BY <1>6 DEF Rooted, Target
  <2>4. QED
    BY <1>3, <1>4, <2>2, <2>3 DEF CountInv
<1>7. QED
  BY <1>5, <1>6 DEF Init

\* comment_count is the comments there are, and those erased but not yet taken off, but for
\* a post that lost a reply with its comment, a comment to two deletions at once, or the
\* handler of one (CommentService.Create and Delete).
THEOREM CommentCountIsKept ==
  ASSUME IsFiniteSet(Comment), IsFiniteSet(Req),
         Post \intersect Comment = {}, NoRow \notin Target
  PROVE  Spec => []CommentCountFollows
<1> DEFINE Inv == HandlerTypes /\ InsertInv /\ RowKinds /\ ThreadInv /\ CountInv
<1>1. Init => Inv
  BY ThreadInitial, CountInitial, LikeInitial
<1>2. Inv /\ [Next]_vars => Inv'
  BY Handlers, ThreadStep, CountStep
<1>3. Inv => CommentCountFollows
  <2> SUFFICES ASSUME Inv, NEW p \in Live, p \notin parted, p \in Post
               PROVE  comments[p] = Cardinality(LiveOn(p)) + Cardinality(Owing(p))
    BY DEF CommentCountFollows, LiveOn, Owing
  <2>1. QED
    BY DEF CountInv, CommentsCounted, Live
<1>4. QED
  BY <1>1, <1>2, <1>3, PTL DEF Spec

-----------------------------------------------------------------------------
(* Notifications of likes *)

\* A step that adds no like and makes nobody the author of a liked row.
LEMMA StaysAnnounced ==
  ASSUME LikesAnnounced, likes' \subseteq likes, notes \subseteq notes',
         \A u \in User, x \in Target : state'[x] = "live" /\ <<u, x>> \in likes =>
           state[x] = "live" /\ author'[x] = author[x]
  PROVE  LikesAnnounced'
BY DEF LikesAnnounced, Live

\* A row's author is set in the place of the row and nowhere else.
Authored == DOMAIN author = Target

LEMMA AuthoredStep == ASSUME Authored, [Next]_vars PROVE Authored'
<1> USE DEF content, counters
<1>1. CASE author' = author
  BY <1>1 DEF Authored
<1>2. ASSUME NEW r \in Req, InsertPost(r) \/ InsertComment(r) PROVE Authored'
  <2>1. author' = author \/ author' = [author EXCEPT ![row[r]] = usr[r]]
    BY <1>2 DEF InsertPost, InsertComment, InsertRow
  <2>2. QED
    BY <2>1 DEF Authored
<1>3. ASSUME NEW r \in Req, \/ BeginTxx(r) \/ Relink(r) \/ Unlink(r) \/ SendDelete(r) \/ Add(r)
                            \/ RemoveLike(r) \/ Uncount(r) \/ Abandon(r) \/ Cascade(r) \/ Erase(r)
                            \/ TellAuthor(r)
      PROVE  author' = author
  BY <1>3 DEF BeginTxx, Relink, Unlink, SendDelete, Add, RemoveLike, Uncount, Abandon, Cascade,
              Erase, TellAuthor
<1>4. ASSUME \/ SpaceGone
             \/ \E p \in Post : FanOutNewPost(p)
             \/ \E r \in Req : \E u, x, a, s : Call(r, s, u, x, a)
             \/ UNCHANGED vars
      PROVE  author' = author
  BY <1>4 DEF SpaceGone, FanOutNewPost, Call, vars
<1>5. QED
  BY <1>1, <1>2, <1>3, <1>4
  DEF Next, Step, CreatePost, UpdatePost, DeletePost, CreateComment, DeleteComment, Like, Unlike

LEMMA AnnounceStep ==
  ASSUME HandlerTypes, InsertInv, LikeInv, Authored, LikesAnnounced, [Next]_vars
  PROVE  LikesAnnounced'
<1> USE DEF content, counters
<1>1. ASSUME NEW r \in Req, TellAuthor(r) PROVE LikesAnnounced'
  <2> DEFINE told == IF row[r] \in Post THEN "post_liked" ELSE "comment_liked"
  <2>1. /\ likes' = likes \union {<<usr[r], row[r]>>} /\ UNCHANGED <<state, author>>
        /\ notes \subseteq notes'
        /\ row[r] \in Live /\ author[row[r]] # usr[r] =>
             <<told, author[row[r]], usr[r], row[r]>> \in notes'
    BY <1>1 DEF TellAuthor, Emit
  <2>2. ASSUME NEW u \in User, NEW x \in Live, <<u, x>> \in likes', author[x] # u
        PROVE  <<IF x \in Post THEN "post_liked" ELSE "comment_liked", author[x], u, x>>
                 \in notes'
    <3>1. CASE <<u, x>> \in likes
      BY <2>1, <2>2, <3>1 DEF LikesAnnounced
    <3>2. CASE u = usr[r] /\ x = row[r]
      BY <2>1, <2>2, <3>2
    <3>3. QED
      BY <2>1, <2>2, <3>1, <3>2
  <2>3. Live' = Live /\ author' = author
    BY <2>1 DEF Live
  <2>4. SUFFICES ASSUME NEW u \in User, NEW x \in Live', <<u, x>> \in likes', author'[x] # u
                 PROVE  <<IF x \in Post THEN "post_liked" ELSE "comment_liked",
                          author'[x], u, x>> \in notes'
    BY DEF LikesAnnounced
  <2>5. x \in Live /\ author[x] # u /\ author'[x] = author[x]
    BY <2>3, <2>4
  <2>6. <<IF x \in Post THEN "post_liked" ELSE "comment_liked", author[x], u, x>> \in notes'
    BY <2>2, <2>4, <2>5
  <2>7. QED
    BY <2>5, <2>6
<1>2. ASSUME NEW r \in Req, InsertPost(r) \/ InsertComment(r) PROVE LikesAnnounced'
  <2>1. /\ pc[r] \in Inserting /\ likes' = likes /\ notes \subseteq notes'
        /\ \/ UNCHANGED <<state, author>>
           \/ /\ state' = [state EXCEPT ![row[r]] = "live"]
              /\ author' = [author EXCEPT ![row[r]] = usr[r]]
    BY <1>2 DEF InsertPost, InsertComment, InsertRow, Inserting
  <2>2. row[r] \in Target /\ state[row[r]] = "absent"
    BY <2>1 DEF InsertInv, HandlerTypes, Inserting
  <2>3. \A u \in User : <<u, row[r]>> \notin likes
    BY <2>2 DEF LikeInv, AbsentUnliked, Likers
  <2>4. ASSUME NEW u \in User, NEW x \in Target, state'[x] = "live", <<u, x>> \in likes
        PROVE  state[x] = "live" /\ author'[x] = author[x]
    <3>1. x # row[r]
      BY <2>3, <2>4
    <3>2. QED
      BY <2>1, <2>2, <2>4, <3>1 DEF Authored, HandlerTypes
  <2>5. LikesAnnounced
    OBVIOUS
  <2>6. QED
    BY <2>1, <2>4, <2>5, StaysAnnounced
<1>3. ASSUME likes' \subseteq likes, UNCHANGED <<author, notes>>,
             \A x \in Target : state'[x] = "live" => state[x] = "live"
      PROVE  LikesAnnounced'
  BY <1>3, StaysAnnounced
<1>4. ASSUME NEW r \in Req, \/ BeginTxx(r) \/ Relink(r) \/ Unlink(r) \/ SendDelete(r) \/ Add(r)
                            \/ RemoveLike(r) \/ Uncount(r) \/ Abandon(r)
      PROVE  LikesAnnounced'
  <2>1. likes' \subseteq likes /\ UNCHANGED <<state, author, notes>>
    BY <1>4 DEF BeginTxx, Relink, Unlink, SendDelete, Add, RemoveLike, Uncount, Abandon
  <2>2. QED
    BY <1>3, <2>1
<1>5. ASSUME NEW r \in Req, Cascade(r) \/ Erase(r) PROVE LikesAnnounced'
  <2>1. UNCHANGED <<likes, author, notes>>
    BY <1>5 DEF Cascade, Erase
  <2>2. \A x \in Target : state'[x] = "live" => state[x] = "live"
    BY <1>5 DEF Cascade, Erase
  <2>3. QED
    BY <1>3, <2>1, <2>2
<1>6. CASE SpaceGone
  BY <1>3, <1>6 DEF SpaceGone
<1>7. ASSUME NEW p \in Post, FanOutNewPost(p) PROVE LikesAnnounced'
  BY <1>7, StaysAnnounced DEF FanOutNewPost
<1>8. ASSUME NEW r \in Req, NEW u, NEW x, NEW a, NEW s, Call(r, s, u, x, a)
      PROVE  LikesAnnounced'
  BY <1>3, <1>8 DEF Call
<1>9. CASE UNCHANGED vars
  BY <1>3, <1>9 DEF vars
<1>10. QED
  BY <1>1, <1>2, <1>4, <1>5, <1>6, <1>7, <1>8, <1>9
  DEF Next, Step, CreatePost, UpdatePost, DeletePost, CreateComment, DeleteComment, Like, Unlike

\* The author has been told of every like of another user on a row that can be read: the
\* like, its counter and the notification are one transaction (LikeService.Like).
THEOREM LikesAreAnnounced ==
  ASSUME IsFiniteSet(User)
  PROVE  Spec => []LikesAnnounced
<1> DEFINE Inv == HandlerTypes /\ InsertInv /\ LikeInv /\ Authored /\ LikesAnnounced
<1>1. Init => Inv
  <2>1. Init => Authored /\ LikesAnnounced
    BY DEF Init, Authored, LikesAnnounced
  <2>2. QED
    BY <2>1, LikeInitial
<1>2. Inv /\ [Next]_vars => Inv'
  BY Handlers, LikeStep, AuthoredStep, AnnounceStep
<1>3. QED
  BY <1>1, <1>2, PTL DEF Spec
-----------------------------------------------------------------------------
(* Types, and the connection pool *)

\* The connections of a handler at step s.
Needs(s) ==
  IF s \in {"idle"} \union Waiting THEN 0 ELSE IF s = "cascade" THEN 2 ELSE 1

\* A handler that goes from one step to another changes the pool by what the steps need.
LEMMA PoolMoves ==
  ASSUME IsFiniteSet(Req), Capacity \in Nat, pc \in [Req -> Steps], NEW r \in Req, NEW s \in Steps,
         pc' = [pc EXCEPT ![r] = s], InUse <= Capacity,
         Needs(s) <= Needs(pc[r]) \/ (FreeConnection /\ Needs(s) = Needs(pc[r]) + 1)
  PROVE  InUse' <= Capacity
<1> DEFINE A == {q \in Req : Needs(pc[q]) > 0}
           B == {q \in Req : Needs(pc[q]) > 1}
           C == {q \in Req : Needs(pc'[q]) > 0}
           D == {q \in Req : Needs(pc'[q]) > 1}
<1>1. \A q \in Req : Connections(q) = Needs(pc[q]) /\ Connections(q)' = Needs(pc'[q])
  BY TransactionSteps DEF Connections, Needs
<1>2. InUse = Cardinality(A) + Cardinality(B) /\ InUse' = Cardinality(C) + Cardinality(D)
  <2>1. A = {q \in Req : Connections(q) > 0} /\ B = {q \in Req : Connections(q) > 1}
    BY <1>1
  <2>2. C = {q \in Req : Connections(q)' > 0} /\ D = {q \in Req : Connections(q)' > 1}
    BY <1>1
  <2>3. QED
    BY <2>1, <2>2 DEF InUse
<1>3. /\ C = IF Needs(s) > 0 THEN A \union {r} ELSE A \ {r}
      /\ D = IF Needs(s) > 1 THEN B \union {r} ELSE B \ {r}
  OBVIOUS
<1>4. /\ r \in A <=> Needs(pc[r]) > 0
      /\ r \in B <=> Needs(pc[r]) > 1
  OBVIOUS
<1>5. A \subseteq Req /\ B \subseteq Req
  OBVIOUS
<1> HIDE DEF A, B, C, D
<1>6. IsFiniteSet(A) /\ IsFiniteSet(B)
  BY <1>5, FS_Subset
<1>7. Cardinality(A) \in Nat /\ Cardinality(B) \in Nat
  BY <1>6, FS_CardinalityType
<1>8. /\ Cardinality(A \union {r}) = IF r \in A THEN Cardinality(A) ELSE Cardinality(A) + 1
      /\ Cardinality(B \union {r}) = IF r \in B THEN Cardinality(B) ELSE Cardinality(B) + 1
  BY <1>6, FS_AddElement
<1>9. /\ Cardinality(A \ {r}) = IF r \in A THEN Cardinality(A) - 1 ELSE Cardinality(A)
      /\ Cardinality(B \ {r}) = IF r \in B THEN Cardinality(B) - 1 ELSE Cardinality(B)
  BY <1>6, FS_RemoveElement
<1>10. Needs(s) \in 0 .. 2 /\ Needs(pc[r]) \in 0 .. 2
  BY DEF Needs
<1>11. InUse' = InUse + Needs(s) - Needs(pc[r])
  BY <1>2, <1>3, <1>4, <1>7, <1>8, <1>9, <1>10
<1>12. InUse \in Nat
  BY <1>2, <1>7
<1>13. QED
  BY <1>10, <1>11, <1>12 DEF FreeConnection

\* A handler takes a connection only when one is free: BeginTxx for its transaction, and
\* Post.Delete a second one for the DELETE.
LEMMA PoolStep ==
  ASSUME IsFiniteSet(Req), Capacity \in Nat, HandlerTypes, InUse <= Capacity, [Next]_vars
  PROVE  InUse' <= Capacity
<1>1. CASE pc' = pc
  BY <1>1 DEF InUse, Connections
<1>2. ASSUME NEW r \in Req, NEW u, NEW x, NEW a, NEW s \in Waiting, Call(r, s, u, x, a)
      PROVE  InUse' <= Capacity
  <2>1. pc[r] = "idle" /\ pc' = [pc EXCEPT ![r] = s]
    BY <1>2 DEF Call
  <2>2. Needs(s) <= Needs(pc[r]) /\ s \in Steps
    BY <2>1 DEF Needs, Steps
  <2>3. QED
    BY <2>1, <2>2, PoolMoves DEF HandlerTypes
<1>3. ASSUME NEW r \in Req, Return(r) PROVE InUse' <= Capacity
  <2>1. pc' = [pc EXCEPT ![r] = "idle"] /\ "idle" \in Steps
    BY <1>3 DEF Return, Steps
  <2>2. Needs("idle") = 0 /\ Needs(pc[r]) >= 0
    BY DEF Needs
  <2>3. QED
    BY <2>1, <2>2, PoolMoves DEF HandlerTypes
<1>4. ASSUME NEW r \in Req, BeginTxx(r) PROVE InUse' <= Capacity
  <2>1. /\ pc[r] \in Waiting /\ FreeConnection
        /\ pc' = [pc EXCEPT ![r] = Transaction[pc[r]]]
    BY <1>4, Grants DEF BeginTxx, Goto
  <2>2. Needs(Transaction[pc[r]]) = Needs(pc[r]) + 1 /\ Transaction[pc[r]] \in Steps
    BY <2>1, TransactionSteps DEF Needs, Steps
  <2>3. QED
    BY <2>1, <2>2, PoolMoves DEF HandlerTypes
<1>5. ASSUME NEW r \in Req, SendDelete(r) PROVE InUse' <= Capacity
  <2>1. pc[r] = "delete_row" /\ FreeConnection /\ pc' = [pc EXCEPT ![r] = "cascade"]
    BY <1>5, Grants DEF SendDelete, Goto
  <2>2. Needs("cascade") = Needs(pc[r]) + 1 /\ "cascade" \in Steps
    BY <2>1, TransactionSteps DEF Needs, Steps
  <2>3. QED
    BY <2>1, <2>2, PoolMoves DEF HandlerTypes
<1>6. ASSUME NEW r \in Req, \/ Unlink(r) \/ Erase(r)
                            \/ pc[r] = "add" /\ Goto(r, "tell_author")
      PROVE  InUse' <= Capacity
  <2>1. PICK s \in {"delete_row", "uncount", "tell_author"} :
          pc[r] \in {"unlink", "erase", "add"} /\ pc' = [pc EXCEPT ![r] = s]
    BY <1>6 DEF Unlink, Erase, Goto
  <2>2. Needs(s) <= Needs(pc[r]) /\ s \in Steps
    BY <2>1, TransactionSteps DEF Needs, Steps
  <2>3. QED
    BY <2>1, <2>2, PoolMoves DEF HandlerTypes
<1>7. ASSUME NEW r \in Req, Add(r) PROVE InUse' <= Capacity
  BY <1>3, <1>6, <1>7 DEF Add
<1>8. ASSUME NEW r \in Req, \/ InsertPost(r) \/ Relink(r) \/ Cascade(r) \/ InsertComment(r)
                            \/ Uncount(r) \/ TellAuthor(r) \/ RemoveLike(r) \/ Abandon(r)
      PROVE  InUse' <= Capacity
  <2>1. Return(r)
    BY <1>8 DEF InsertPost, Relink, Cascade, InsertComment, Uncount, TellAuthor, RemoveLike, Abandon
  <2>2. QED
    BY <1>3, <2>1
<1>9. CASE SpaceGone \/ (\E p \in Post : FanOutNewPost(p)) \/ UNCHANGED vars
  BY <1>1, <1>9 DEF SpaceGone, FanOutNewPost, vars, handler
<1>10. ASSUME NEW r \in Req, NEW u \in User,
              \/ \E p \in Post, T \in SUBSET Tag : CreatePost(r, u, p, T) \/ UpdatePost(r, u, p, T)
              \/ \E p \in Post : DeletePost(r, u, p)
              \/ \E c \in Comment, p \in Post, par \in Comment \union {NoRow} :
                   CreateComment(r, u, c, p, par)
              \/ \E c \in Comment : DeleteComment(r, u, c)
              \/ \E x \in Target : Like(r, u, x) \/ Unlike(r, u, x)
       PROVE  InUse' <= Capacity
  BY <1>2, <1>10, TransactionSteps
  DEF CreatePost, UpdatePost, DeletePost, CreateComment, DeleteComment, Like, Unlike
<1>11. QED
  BY <1>4, <1>5, <1>6, <1>7, <1>8, <1>9, <1>10 DEF Next, Step

\* The kinds of notification, and what one says.
Told == {"post_in_space", "post_liked", "comment_liked", "post_commented", "comment_replied"}
NoteType == Told \X User \X User \X Target

\* A row that is or was there has an author; so has a post whose members are to be told.
AuthorTypes ==
  /\ approved \subseteq User
  /\ author \in [Target -> User \union {Nobody}]
  /\ \A x \in Target : state[x] # "absent" => author[x] \in User
  /\ fanouts \subseteq Post
  /\ \A p \in fanouts : state[p] # "absent"
  /\ notes \subseteq NoteType

\* A comment that is or was there has a post, the one whose counter it may part.
CommentsOnPosts ==
  /\ \A c \in Comment : state[c] # "absent" => on[c] \in Post
  /\ parted \subseteq Post

CallTypes ==
  /\ open \in BOOLEAN
  /\ calls \in 0 .. MaxCalls
  /\ arg \in [Req -> SUBSET (Tag \union Target \union {NoRow})]
  /\ unlinked \in [Req -> SUBSET Tag]

\* Emit tells a user of a user.
LEMMA Emitted ==
  ASSUME NEW t \in Told, NEW to \in User, NEW by \in User, NEW x \in Target
  PROVE  Emit(t, to, by, x) \subseteq NoteType
BY DEF Emit, NoteType

LEMMA AuthorStep ==
  ASSUME Post \intersect Comment = {}, NoRow \notin Target,
         HandlerTypes, InsertInv, RowKinds, AuthorTypes, [Next]_vars
  PROVE  AuthorTypes'
<1> USE DEF content, counters
<1>1. CASE /\ UNCHANGED <<author, fanouts, notes>> /\ approved' \subseteq approved
           /\ \A x \in Target : state'[x] = "absent" <=> state[x] = "absent"
  BY <1>1 DEF AuthorTypes, Target
<1>2. ASSUME NEW r \in Req, pc[r] \in Inserting, InsertRow(row[r], usr[r]), row[r] \in Target,
             UNCHANGED approved, fanouts' \subseteq fanouts \union {row[r]}, fanouts' \subseteq Post,
             notes' \subseteq NoteType
      PROVE  AuthorTypes'
  <2>1. usr[r] \in User
    BY <1>2 DEF HandlerTypes, Inserting
  <2>2. /\ state' = [state EXCEPT ![row[r]] = "live"]
        /\ author' = [author EXCEPT ![row[r]] = usr[r]]
    BY <1>2 DEF InsertRow
  <2>3. \A x \in Target : state'[x] # "absent" => author'[x] \in User
    BY <1>2, <2>1, <2>2 DEF AuthorTypes, HandlerTypes
  <2>4. \A p \in fanouts' : state'[p] # "absent"
    BY <1>2, <2>2 DEF AuthorTypes, HandlerTypes, Target
  <2>5. author' \in [Target -> User \union {Nobody}]
    BY <2>1, <2>2 DEF AuthorTypes
  <2>6. QED
    BY <1>2, <2>3, <2>4, <2>5 DEF AuthorTypes
<1>3. ASSUME NEW r \in Req, InsertPost(r) PROVE AuthorTypes'
  <2>1. pc[r] \in Inserting /\ row[r] \in Post
    BY <1>3 DEF InsertPost, Inserting, RowKinds, Posting
  <2>2. CASE open
    <3>1. InsertRow(row[r], usr[r]) /\ fanouts' = fanouts \union {row[r]}
          /\ UNCHANGED <<approved, notes>>
      BY <1>3, <2>2 DEF InsertPost, space
    <3>2. QED
      BY <1>2, <2>1, <3>1 DEF AuthorTypes, Target
  <2>3. CASE ~open
    BY <1>1, <1>3, <2>3 DEF InsertPost, space
  <2>4. QED
    BY <2>2, <2>3
<1>4. ASSUME NEW r \in Req, InsertComment(r) PROVE AuthorTypes'
  <2> DEFINE p == CHOOSE x \in arg[r] : x \in Post
             par == IF arg[r] \intersect Comment = {} THEN NoRow
                    ELSE CHOOSE x \in arg[r] : x \in Comment
  <2>1. pc[r] = "insert_comment" /\ pc[r] \in Inserting
    BY <1>4 DEF InsertComment, Inserting
  <2>2. row[r] \in Comment /\ Checked(arg[r])
    BY <2>1 DEF RowKinds, Commenting
  <2>3. p \in Post /\ par \in Comment \union {NoRow} /\ arg[r] = {p, par}
    BY <2>2, CheckedArgs
  <2>4. CASE arg[r] \subseteq Live \union {NoRow}
    <3>1. /\ InsertRow(row[r], usr[r]) /\ UNCHANGED <<approved, fanouts>>
          /\ notes' = notes
               \union Emit("post_commented", author[p], usr[r], p)
               \union (IF par # NoRow /\ author[par] # author[p]
                         THEN Emit("comment_replied", author[par], usr[r], par) ELSE {})
      BY <1>4, <2>4 DEF InsertComment, space, Commented
    <3>2. p \in Live /\ (par # NoRow => par \in Live)
      BY <2>3, <2>4 DEF Target
    <3> HIDE DEF p, par
    <3>3. usr[r] \in User /\ author[p] \in User /\ p \in Target
      BY <2>1, <3>2 DEF HandlerTypes, AuthorTypes, Live
    <3>4. par # NoRow => author[par] \in User /\ par \in Target
      BY <3>2 DEF AuthorTypes, Live
    <3>5. Emit("post_commented", author[p], usr[r], p) \subseteq NoteType
      BY <3>3, Emitted DEF Told
    <3>6. par # NoRow => Emit("comment_replied", author[par], usr[r], par) \subseteq NoteType
      BY <3>3, <3>4, Emitted DEF Told
    <3>7. notes' \subseteq NoteType
      BY <3>1, <3>5, <3>6 DEF AuthorTypes
    <3>8. QED
      BY <1>2, <2>1, <2>2, <3>1, <3>7 DEF AuthorTypes, Target
  <2>5. CASE ~(arg[r] \subseteq Live \union {NoRow})
    BY <1>1, <1>4, <2>5 DEF InsertComment, space
  <2>6. QED
    BY <2>4, <2>5
<1>5. ASSUME NEW r \in Req, TellAuthor(r) PROVE AuthorTypes'
  <2> DEFINE x == row[r]
             t == IF x \in Post THEN "post_liked" ELSE "comment_liked"
  <2>1. /\ UNCHANGED <<state, author, approved, fanouts>> /\ pc[r] = "tell_author"
        /\ notes' = IF x \in Live THEN notes \union Emit(t, author[x], usr[r], x) ELSE notes
    BY <1>5 DEF TellAuthor, space
  <2>2. usr[r] \in User /\ x \in Target /\ t \in Told
    BY <2>1 DEF HandlerTypes, Told
  <2>3. x \in Live => author[x] \in User
    BY DEF AuthorTypes, Live
  <2> HIDE DEF x, t
  <2>4. x \in Live => Emit(t, author[x], usr[r], x) \subseteq NoteType
    BY <2>2, <2>3, Emitted
  <2>5. notes' \subseteq NoteType
    BY <2>1, <2>4 DEF AuthorTypes
  <2>6. QED
    BY <2>1, <2>5 DEF AuthorTypes
<1>6. ASSUME NEW p \in Post, FanOutNewPost(p) PROVE AuthorTypes'
  <2>1. /\ UNCHANGED <<state, author, approved>> /\ p \in fanouts /\ fanouts' = fanouts \ {p}
    BY <1>6 DEF FanOutNewPost, space
  <2>2. PICK told \in SUBSET approved :
          notes' = notes \union EmitMany("post_in_space", told, author[p], p)
    BY <1>6 DEF FanOutNewPost
  <2>3. author[p] \in User /\ p \in Target
    BY <2>1 DEF AuthorTypes, Target
  <2>4. \A to \in told : Emit("post_in_space", to, author[p], p) \subseteq NoteType
    <3>1. told \subseteq User /\ "post_in_space" \in Told
      BY DEF AuthorTypes, Told
    <3>2. QED
      BY <2>3, <3>1, Emitted
  <2>5. notes' \subseteq NoteType
    BY <2>2, <2>4 DEF EmitMany, AuthorTypes
  <2>6. QED
    BY <2>1, <2>5 DEF AuthorTypes
<1>7. ASSUME NEW r \in Req, \/ BeginTxx(r) \/ Relink(r) \/ Unlink(r) \/ SendDelete(r) \/ Add(r)
                            \/ RemoveLike(r) \/ Uncount(r) \/ Abandon(r)
      PROVE  AuthorTypes'
  <2>1. UNCHANGED <<state, author, fanouts, notes, approved>>
    BY <1>7 DEF BeginTxx, Relink, Unlink, SendDelete, Add, RemoveLike, Uncount, Abandon, space
  <2>2. QED
    BY <1>1, <2>1
<1>8. ASSUME NEW r \in Req, Cascade(r) \/ Erase(r) PROVE AuthorTypes'
  <2>1. UNCHANGED <<author, fanouts, notes, approved>>
    BY <1>8 DEF Cascade, Erase, space
  <2>2. \A x \in Target : state'[x] = "absent" <=> state[x] = "absent"
    BY <1>8 DEF Cascade, Erase, Live
  <2>3. QED
    BY <1>1, <2>1, <2>2
<1>9. CASE SpaceGone
  <2>1. UNCHANGED <<author, fanouts, notes>> /\ approved' = {}
    BY <1>9 DEF SpaceGone
  <2>2. \A x \in Target : state'[x] = "absent" <=> state[x] = "absent"
    BY <1>9 DEF SpaceGone, Live
  <2>3. QED
    BY <1>1, <2>1, <2>2
<1>10. ASSUME NEW r \in Req, NEW u, NEW x, NEW a, NEW s, Call(r, s, u, x, a) PROVE AuthorTypes'
  BY <1>1, <1>10 DEF Call, space
<1>11. CASE UNCHANGED vars
  BY <1>1, <1>11 DEF vars, space
<1>12. QED
  BY <1>3, <1>4, <1>5, <1>6, <1>7, <1>8, <1>9, <1>10, <1>11
  DEF Next, Step, CreatePost, UpdatePost, DeletePost, CreateComment, DeleteComment, Like, Unlike

LEMMA OnPostsStep ==
  ASSUME Post \intersect Comment = {}, NoRow \notin Target,
         HandlerTypes, InsertInv, RowKinds, ThreadInv, RemovalRows, CommentsOnPosts, [Next]_vars
  PROVE  CommentsOnPosts'
<1> USE DEF content, counters
<1>1. CASE /\ UNCHANGED on /\ parted' \subseteq Post
           /\ \A x \in Target : state'[x] = "absent" <=> state[x] = "absent"
  BY <1>1 DEF CommentsOnPosts, Target
<1>2. ASSUME NEW r \in Req, InsertPost(r) PROVE CommentsOnPosts'
  <2>1. UNCHANGED <<on, parted>> /\ (InsertRow(row[r], usr[r]) \/ UNCHANGED state)
    BY <1>2 DEF InsertPost
  <2>2. row[r] \in Post
    BY <1>2 DEF InsertPost, RowKinds, Posting
  <2>3. \A c \in Comment : state'[c] = state[c]
    BY <2>1, <2>2 DEF InsertRow, HandlerTypes, Target
  <2>4. QED
    BY <2>1, <2>3 DEF CommentsOnPosts
<1>3. ASSUME NEW r \in Req, InsertComment(r) PROVE CommentsOnPosts'
  <2> DEFINE p == CHOOSE x \in arg[r] : x \in Post
  <2>1. /\ pc[r] = "insert_comment" /\ UNCHANGED parted
        /\ \/ UNCHANGED <<state, on>>
           \/ InsertRow(row[r], usr[r]) /\ on' = [on EXCEPT ![row[r]] = p]
    BY <1>3 DEF InsertComment, Commented
  <2>2. row[r] \in Comment /\ p \in Post
    BY <2>1, CheckedArgs DEF RowKinds, Commenting
  <2> HIDE DEF p
  <2>3. \A c \in Comment : state'[c] # "absent" => on'[c] \in Post
    BY <2>1, <2>2 DEF InsertRow, HandlerTypes, ThreadInv, CommentsOnPosts, Target
  <2>4. QED
    BY <2>1, <2>3 DEF CommentsOnPosts
<1>4. ASSUME NEW r \in Req, pc[r] \in Removal PROVE on[row[r]] \in Post
  BY <1>4 DEF RemovalRows, CommentsOnPosts
<1>5. ASSUME NEW r \in Req, Erase(r) PROVE CommentsOnPosts'
  <2>1. pc[r] \in Removal /\ UNCHANGED on /\ parted' \subseteq parted \union {on[row[r]]}
    BY <1>5 DEF Erase, Removal, Erasing
  <2>2. \A x \in Target : state'[x] = "absent" <=> state[x] = "absent"
    BY <1>5 DEF Erase, Live
  <2>3. QED
    BY <1>1, <1>4, <2>1, <2>2 DEF CommentsOnPosts
<1>6. ASSUME NEW r \in Req, Abandon(r) PROVE CommentsOnPosts'
  <2>1. UNCHANGED <<state, on>>
        /\ parted' \in {parted, IF pc[r] = "uncount" THEN parted \union {on[row[r]]} ELSE parted}
    BY <1>6 DEF Abandon
  <2>2. parted' \subseteq Post
    BY <1>4, <2>1 DEF CommentsOnPosts, Removal
  <2>3. QED
    BY <1>1, <2>1, <2>2
<1>7. ASSUME NEW r \in Req, \/ BeginTxx(r) \/ Relink(r) \/ Unlink(r) \/ SendDelete(r) \/ Add(r)
                            \/ TellAuthor(r) \/ RemoveLike(r) \/ Uncount(r)
      PROVE  CommentsOnPosts'
  <2>1. UNCHANGED <<state, on, parted>>
    BY <1>7 DEF BeginTxx, Relink, Unlink, SendDelete, Add, TellAuthor, RemoveLike, Uncount
  <2>2. QED
    BY <1>1, <2>1 DEF CommentsOnPosts
<1>8. CASE SpaceGone \/ \E r \in Req : Cascade(r)
  <2>1. UNCHANGED <<on, parted>>
    BY <1>8 DEF SpaceGone, Cascade
  <2>2. \A x \in Target : state'[x] = "absent" <=> state[x] = "absent"
    BY <1>8 DEF SpaceGone, Cascade, Live
  <2>3. QED
    BY <1>1, <2>1, <2>2 DEF CommentsOnPosts
<1>9. ASSUME \/ UNCHANGED vars
             \/ \E p \in Post : FanOutNewPost(p)
             \/ \E r \in Req : \E u, x, a, s : Call(r, s, u, x, a)
      PROVE  CommentsOnPosts'
  <2>1. UNCHANGED <<state, on, parted>>
    BY <1>9 DEF vars, FanOutNewPost, Call
  <2>2. QED
    BY <1>1, <2>1 DEF CommentsOnPosts
<1>10. QED
  BY <1>2, <1>3, <1>5, <1>6, <1>7, <1>8, <1>9
  DEF Next, Step, CreatePost, UpdatePost, DeletePost, CreateComment, DeleteComment, Like, Unlike

LEMMA CallStep ==
  ASSUME MaxCalls \in Nat, HandlerTypes, RowKinds, TagInv, CallTypes, [Next]_vars
  PROVE  CallTypes'
<1>1. ASSUME NEW r \in Req, NEW u, NEW x, NEW a \in SUBSET (Tag \union Target \union {NoRow}),
             NEW s, Call(r, s, u, x, a)
      PROVE  CallTypes'
  BY <1>1 DEF Call, CallTypes, space
<1>2. ASSUME NEW r \in Req, Return(r), UNCHANGED open PROVE CallTypes'
  BY <1>2 DEF Return, CallTypes
<1>3. ASSUME NEW r \in Req, \/ InsertPost(r) \/ Relink(r) \/ Cascade(r) \/ InsertComment(r)
                            \/ Uncount(r) \/ TellAuthor(r) \/ RemoveLike(r) \/ Abandon(r)
      PROVE  CallTypes'
  <2>1. Return(r) /\ UNCHANGED open
    BY <1>3 DEF InsertPost, Relink, Cascade, InsertComment, Uncount, TellAuthor, RemoveLike,
                Abandon, space
  <2>2. QED
    BY <1>2, <2>1
<1>4. ASSUME NEW r \in Req, Unlink(r) PROVE CallTypes'
  <2>1. /\ pc[r] = "unlink" /\ unlinked' = [unlinked EXCEPT ![r] = tags[row[r]]]
        /\ UNCHANGED <<open, calls, arg>>
    BY <1>4 DEF Unlink, Goto, space
  <2>2. tags[row[r]] \in SUBSET Tag
    BY <2>1 DEF RowKinds, Dropping, TagInv
  <2>3. QED
    BY <2>1, <2>2 DEF CallTypes
<1>5. ASSUME NEW r \in Req, BeginTxx(r) \/ SendDelete(r) \/ Erase(r) PROVE CallTypes'
  BY <1>5 DEF BeginTxx, SendDelete, Erase, Goto, CallTypes, space
<1>6. ASSUME NEW r \in Req, Add(r) PROVE CallTypes'
  BY <1>2, <1>6 DEF Add, Goto, CallTypes, space
<1>7. CASE SpaceGone \/ (\E p \in Post : FanOutNewPost(p)) \/ UNCHANGED vars
  BY <1>7 DEF SpaceGone, FanOutNewPost, vars, space, handler, CallTypes
<1>8. ASSUME NEW r \in Req, NEW u \in User, NEW c \in Comment, NEW p \in Post,
             NEW par \in Comment \union {NoRow}, CreateComment(r, u, c, p, par)
      PROVE  CallTypes'
  <2>1. {p, par} \in SUBSET (Tag \union Target \union {NoRow})
    BY DEF Target
  <2>2. QED
    BY <1>1, <1>8, <2>1 DEF CreateComment
<1>9. ASSUME NEW r \in Req, NEW u \in User,
             \/ \E p \in Post, T \in SUBSET Tag : CreatePost(r, u, p, T) \/ UpdatePost(r, u, p, T)
             \/ \E p \in Post : DeletePost(r, u, p)
             \/ \E c \in Comment : DeleteComment(r, u, c)
             \/ \E x \in Target : Like(r, u, x) \/ Unlike(r, u, x)
      PROVE  CallTypes'
  <2>1. \A T \in SUBSET Tag : T \in SUBSET (Tag \union Target \union {NoRow})
    OBVIOUS
  <2>2. QED
    BY <1>1, <1>9, <2>1
    DEF CreatePost, UpdatePost, DeletePost, DeleteComment, Like, Unlike
<1>10. QED
  BY <1>3, <1>4, <1>5, <1>6, <1>7, <1>8, <1>9 DEF Next, Step

\* Only a handler between UnlinkPost and the end of its transaction holds links.
UnlinkInv == \A r \in Req : unlinked[r] # {} => pc[r] \in {"delete_row", "cascade"}

LEMMA UnlinkStep ==
  ASSUME HandlerTypes, CallTypes, UnlinkInv, [Next]_vars PROVE UnlinkInv'
<1> USE DEF HandlerTypes, CallTypes, UnlinkInv
<1>1. CASE pc' = pc /\ unlinked' = unlinked
  BY <1>1
<1>2. ASSUME NEW r \in Req, NEW s \in Steps, pc' = [pc EXCEPT ![r] = s], unlinked' = unlinked,
             pc[r] \notin {"delete_row", "cascade"}
      PROVE  UnlinkInv'
  BY <1>2
<1>3. ASSUME NEW r \in Req, Return(r) PROVE UnlinkInv'
  BY <1>3 DEF Return
<1>4. ASSUME NEW r \in Req, Unlink(r) \/ SendDelete(r) PROVE UnlinkInv'
  BY <1>4 DEF Unlink, SendDelete, Goto
<1>5. ASSUME NEW r \in Req, \/ BeginTxx(r) \/ Erase(r)
                            \/ Add(r) /\ Goto(r, "tell_author") /\ UNCHANGED unlinked
      PROVE  UnlinkInv'
  <2>1. PICK s \in Steps : /\ pc' = [pc EXCEPT ![r] = s] /\ unlinked' = unlinked
                           /\ pc[r] \notin {"delete_row", "cascade"}
    BY <1>5, TransactionSteps DEF BeginTxx, Erase, Add, Goto, Steps
  <2>2. QED
    BY <1>2, <2>1
<1>6. ASSUME NEW r \in Req, Add(r) PROVE UnlinkInv'
  BY <1>3, <1>5, <1>6 DEF Add
<1>7. ASSUME NEW r \in Req, \/ InsertPost(r) \/ Relink(r) \/ Cascade(r) \/ InsertComment(r)
                            \/ Uncount(r) \/ TellAuthor(r) \/ RemoveLike(r) \/ Abandon(r)
      PROVE  UnlinkInv'
  <2>1. Return(r)
    BY <1>7 DEF InsertPost, Relink, Cascade, InsertComment, Uncount, TellAuthor, RemoveLike, Abandon
  <2>2. QED
    BY <1>3, <2>1
<1>8. CASE SpaceGone \/ (\E p \in Post : FanOutNewPost(p)) \/ UNCHANGED vars
  BY <1>1, <1>8 DEF SpaceGone, FanOutNewPost, vars, handler
<1>9. ASSUME NEW r \in Req, NEW u \in User, NEW x, NEW a, NEW s \in Waiting, Call(r, s, u, x, a)
      PROVE  UnlinkInv'
  <2>1. /\ pc[r] = "idle" /\ pc' = [pc EXCEPT ![r] = s] /\ unlinked' = unlinked /\ s \in Steps
    BY <1>9 DEF Call, Steps
  <2>2. QED
    BY <1>2, <2>1
<1>10. ASSUME NEW r \in Req, NEW u \in User,
              \/ \E p \in Post, T \in SUBSET Tag : CreatePost(r, u, p, T) \/ UpdatePost(r, u, p, T)
              \/ \E p \in Post : DeletePost(r, u, p)
              \/ \E c \in Comment, p \in Post, par \in Comment \union {NoRow} :
                   CreateComment(r, u, c, p, par)
              \/ \E c \in Comment : DeleteComment(r, u, c)
              \/ \E x \in Target : Like(r, u, x) \/ Unlike(r, u, x)
       PROVE  UnlinkInv'
  BY <1>9, <1>10, TransactionSteps
  DEF CreatePost, UpdatePost, DeletePost, CreateComment, DeleteComment, Like, Unlike
<1>11. QED
  BY <1>4, <1>5, <1>6, <1>7, <1>8, <1>10 DEF Next, Step

\* What the types of Posts need: the counters are numbers, rows have authors and posts.
PostInv ==
  /\ HandlerTypes
  /\ InsertInv
  /\ LikeInv
  /\ TagArgs
  /\ TagInv
  /\ RowKinds
  /\ ThreadInv
  /\ CountInv
  /\ AuthorTypes
  /\ CommentsOnPosts
  /\ CallTypes
  /\ UnlinkInv
  /\ InUse <= Capacity

LEMMA PostInitial ==
  ASSUME IsFiniteSet(Post), IsFiniteSet(Comment), IsFiniteSet(Req), NoRow \notin Target,
         Capacity \in Nat, MaxCalls \in Nat \ {0}
  PROVE  Init => PostInv
<1> SUFFICES ASSUME Init PROVE PostInv
  OBVIOUS
<1>1. HandlerTypes /\ InsertInv /\ LikeInv /\ TagArgs /\ TagInv /\ RowKinds /\ ThreadInv /\ CountInv
  BY LikeInitial, TagInitial, ThreadInitial, CountInitial
<1>2. author \in [Target -> User \union {Nobody}]
  BY DEF Init
<1>3. ASSUME NEW x \in Target, state[x] # "absent" PROVE author[x] \in User
  BY <1>3 DEF Init
<1>4. AuthorTypes
  BY <1>2, <1>3 DEF Init, AuthorTypes
<1>5. CommentsOnPosts
  <2>1. ASSUME NEW c \in Comment, state[c] # "absent" PROVE on[c] \in Post
    BY <2>1 DEF Init, Target
  <2>2. QED
    BY <2>1 DEF Init, CommentsOnPosts
<1>6. CallTypes /\ UnlinkInv
  BY DEF Init, CallTypes, UnlinkInv
<1>7. InUse <= Capacity
  <2>1. \A r \in Req : Connections(r) = 0
    BY DEF Init, Connections
  <2>2. {r \in Req : Connections(r) > 0} = {} /\ {r \in Req : Connections(r) > 1} = {}
    BY <2>1
  <2>3. InUse = 0
    BY <2>2, FS_EmptySet DEF InUse
  <2>4. QED
    BY <2>3
<1>8. QED
  BY <1>1, <1>4, <1>5, <1>6, <1>7 DEF PostInv

LEMMA PostStep ==
  ASSUME IsFiniteSet(User), IsFiniteSet(Post), IsFiniteSet(Comment), IsFiniteSet(Req),
         Post \intersect Comment = {}, NoRow \notin Target, Capacity \in Nat,
         MaxCalls \in Nat \ {0}, PostInv, [Next]_vars
  PROVE  PostInv'
<1> USE DEF PostInv
<1>1. HandlerTypes' /\ InsertInv'
  BY Handlers
<1>2. LikeInv' /\ TagArgs' /\ TagInv'
  BY LikeStep, TagStep
<1>3. RowKinds' /\ ThreadInv' /\ CountInv'
  BY ThreadStep, CountStep
<1>4. AuthorTypes' /\ CallTypes' /\ InUse' <= Capacity /\ UnlinkInv'
  BY AuthorStep, CallStep, PoolStep, UnlinkStep
<1>5. CommentsOnPosts'
  BY OnPostsStep DEF CountInv
<1>6. QED
  BY <1>1, <1>2, <1>3, <1>4, <1>5

\* Every variable of Posts has its type, and the pool never hands out more connections than
\* it has, although Post.Delete asks for a second one while it holds its first.
THEOREM PostTypes ==
  ASSUME IsFiniteSet(User), IsFiniteSet(Post), IsFiniteSet(Comment), IsFiniteSet(Req),
         Post \intersect Comment = {}, NoRow \notin Target,
         Capacity \in Nat, MaxCalls \in Nat \ {0}
  PROVE  Spec => []TypeOK
<1>1. Init => PostInv
  BY PostInitial
<1>2. PostInv /\ [Next]_vars => PostInv'
  BY PostStep
<1>3. PostInv => TypeOK
  <2> SUFFICES ASSUME PostInv PROVE TypeOK
    OBVIOUS
  <2>1. Steps = {"idle", "delete_row", "cascade", "uncount", "tell_author"}
                  \union Waiting \union {Transaction[w] : w \in Waiting}
    BY TransactionSteps DEF Steps
  <2>2. /\ state \in [Target -> {"absent", "live", "gone"}]
        /\ pc \in [Req -> {"idle", "delete_row", "cascade", "uncount", "tell_author"}
                            \union Waiting \union {Transaction[w] : w \in Waiting}]
        /\ usr \in [Req -> User \union {Nobody}]
        /\ row \in [Req -> Target \union {NoRow}]
    BY <2>1 DEF PostInv, HandlerTypes
  <2>3. likes \subseteq User \X Target /\ likeCount \in [Target -> Nat]
    BY DEF PostInv, LikeInv, LikeTypes
  <2>4. tags \in [Post -> SUBSET Tag] /\ uses \in [Tag -> Nat] /\ comments \in [Post -> Nat]
    BY DEF PostInv, TagInv, CountInv
  <2>5. on \in [Comment -> Post \union {NoRow}] /\ parent \in [Comment -> Comment \union {NoRow}]
    BY DEF PostInv, ThreadInv
  <2>6. /\ approved \subseteq User /\ author \in [Target -> User \union {Nobody}]
        /\ fanouts \subseteq Post
        /\ notes \subseteq {"post_in_space", "post_liked", "comment_liked", "post_commented",
                            "comment_replied"} \X User \X User \X Target
    BY DEF PostInv, AuthorTypes, NoteType, Told
  <2>7. /\ open \in BOOLEAN /\ calls \in 0 .. MaxCalls /\ unlinked \in [Req -> SUBSET Tag]
        /\ arg \in [Req -> SUBSET (Tag \union Target \union {NoRow})] /\ parted \subseteq Post
    BY DEF PostInv, CallTypes, CommentsOnPosts
  <2>8. InUse <= Capacity
    BY DEF PostInv
  <2>9. QED
    BY <2>2, <2>3, <2>4, <2>5, <2>6, <2>7, <2>8 DEF TypeOK
<1>4. QED
  BY <1>1, <1>2, <1>3, PTL DEF Spec

-----------------------------------------------------------------------------
(* Waiting for connections and locks *)

\* Handlers that have not sent a DELETE use one connection each, at the most.
LEMMA PoolLasts ==
  ASSUME IsFiniteSet(Req), Capacity \in Nat, Cardinality(Req) < Capacity,
         \A r \in Req : pc[r] # "cascade"
  PROVE  FreeConnection
<1> DEFINE A == {r \in Req : Connections(r) > 0}
           B == {r \in Req : Connections(r) > 1}
<1>1. B = {}
  BY DEF Connections
<1>2. Cardinality(A) <= Cardinality(Req) /\ Cardinality(A) \in Nat
  BY FS_Subset, FS_CardinalityType
<1>3. Cardinality(B) = 0 /\ Cardinality(Req) \in Nat
  BY <1>1, FS_EmptySet, FS_CardinalityType
<1>4. InUse = Cardinality(A) + Cardinality(B)
  BY DEF InUse
<1> HIDE DEF A, B
<1>5. QED
  BY <1>2, <1>3, <1>4 DEF FreeConnection

\* Who holds a row has all it needs, but for a connection of the pool: a Like between its
\* UPDATE and its commit, a Post.Delete between UnlinkPost and its DELETE.
LEMMA SomeoneGoesOn ==
  ASSUME IsFiniteSet(Req), Capacity \in Nat, Cardinality(Req) < Capacity,
         HandlerTypes, UnlinkInv
  PROVE  NoStandstill
<1> SUFFICES ASSUME NEW r0 \in Req, pc[r0] # "idle"
             PROVE  \E r \in Req : \/ Granted(r)
                                   \/ pc[r] = "cascade" /\ (unlinked[r] # {} \/ ~FreeConnection)
  BY DEF NoStandstill
<1>1. CASE ~FreeConnection
  BY <1>1, PoolLasts
<1>2. CASE FreeConnection /\ \E r \in Req : pc[r] \in Waiting \union {"delete_row", "tell_author"}
  <2>1. PICK r \in Req : pc[r] \in Waiting \union {"delete_row", "tell_author"}
    BY <1>2
  <2>2. Granted(r)
    BY <1>2, <2>1, TransactionSteps DEF Granted
  <2>3. QED
    BY <2>2
<1>3. CASE /\ FreeConnection
           /\ ~ \E r \in Req : pc[r] \in Waiting \union {"delete_row", "tell_author"}
           /\ \E r \in Req : unlinked[r] # {}
  BY <1>3 DEF UnlinkInv
<1>4. CASE /\ FreeConnection
           /\ ~ \E r \in Req : pc[r] \in Waiting \union {"delete_row", "tell_author"}
           /\ \A r \in Req : unlinked[r] = {}
  <2>1. /\ \A x : ~Locked(x)
        /\ \A u, x : ~KeyLocked(u, x)
        /\ \A T : ~TagLocked(T)
    BY <1>4 DEF Locked, KeyLocked, TagLocked
  <2>2. pc[r0] \in {"insert_post", "relink", "unlink", "cascade", "insert_comment", "erase",
                    "uncount", "add", "remove"}
    BY <1>4 DEF HandlerTypes, Steps
  <2>3. Granted(r0)
    BY <1>4, <2>1, <2>2, TransactionSteps DEF Granted
  <2>4. QED
    BY <2>3
<1>5. QED
  BY <1>1, <1>2, <1>3, <1>4

\* With a pool that has one more connection than there are handlers, they never wait for
\* each other's row locks and connections in a circle, but for deletions of posts that are
\* at their DELETE: one that waits for itself, or several that have emptied the pool.
THEOREM HandlersDoNotBlock ==
  ASSUME IsFiniteSet(User), IsFiniteSet(Post), IsFiniteSet(Comment), IsFiniteSet(Req),
         Post \intersect Comment = {}, NoRow \notin Target,
         Capacity \in Nat, Cardinality(Req) < Capacity, MaxCalls \in Nat \ {0}
  PROVE  Spec => []NoStandstill
<1>1. Init => PostInv
  BY PostInitial
<1>2. PostInv /\ [Next]_vars => PostInv'
  BY PostStep
<1>3. PostInv => NoStandstill
  BY SomeoneGoesOn DEF PostInv
<1>4. QED
  BY <1>1, <1>2, <1>3, PTL DEF Spec
=============================================================================
