------------------------------- MODULE Posts -------------------------------
(***************************************************************************)
(* Posts, comments, likes and hashtags of one community space, with their  *)
(* denormalised counters and notifications: PostService, CommentService,   *)
(* LikeService and CommunityNotificationService over one connection pool.  *)
(*                                                                         *)
(* A handler checks through the pool, then opens a transaction, which      *)
(* keeps a connection until it ends.  A transaction that reads or writes   *)
(* through the pool while it is open is several steps, and holds its row   *)
(* locks in between; any other is one step, its commit.  pc[r] is the next *)
(* step of the handler in slot r:                                          *)
(*                                                                         *)
(*   Post.Create     IsApprovedMember ; (Create, UpsertMany, LinkPost)     *)
(*   Post.Update     GetBareByID ; (UpdateTx, UnlinkPost, LinkPost)        *)
(*   Post.Delete     GetBareByID ; (UnlinkPost ; Delete by the pool)       *)
(*   Comment.Create  GetBareByID, IsApprovedMember ;                       *)
(*                     (Create, IncrementCommentCount, Emit)               *)
(*   Comment.Delete  GetBareByID ; (Delete by the pool ;                   *)
(*                     IncrementCommentCount)                              *)
(*   Like            assertMemberForTarget ; (Add, IncrementLikeCount ;    *)
(*                     GetBareByID by the pool, Emit)                      *)
(*   Unlike          (Remove, IncrementLikeCount)                          *)
(*                                                                         *)
(* with the transactions in parentheses.  A failed statement, a lost       *)
(* process and a client that hangs up (which cancels the request's         *)
(* context) all roll the transaction back: Abandon.  The members stay the  *)
(* same while the space is there: one that leaves between a handler's      *)
(* check and its writes changes nothing in what the writes do.             *)
(***************************************************************************)
EXTENDS Integers, FiniteSets

CONSTANTS
  User,
  Post, Comment,   \* rows, those of the future included
  Tag,
  Req,             \* handlers that may run at the same time
  Capacity,        \* SetMaxOpenConns
  MaxCalls,        \* bound: calls of the services in a behaviour
  Owner,           \* spaces.created_by
  Nobody, NoRow

VARIABLES
  open,         \* the row of spaces is there
  approved,     \* space_members with status approved
  state,        \* row of posts or comments: absent, live or gone
  author,       \* author_id
  on, parent,   \* comments: post_id, parent_comment_id
  tags,         \* post_hashtags
  uses,         \* hashtags.use_count
  comments,     \* posts.comment_count
  likes,        \* rows of likes: <<user, target>>
  likeCount,    \* like_count of a post or a comment
  notes,        \* community_notifications: <<type, recipient, actor, target>>
  fanouts,      \* posts whose fan-out goroutine is still to run
  parted,       \* history: posts with a cause for comment_count to be wrong
  calls,        \* history: calls made, for the bound
  pc, usr, row, \* the handlers: next step, user, row it is about
  arg,          \*   the hashtags of its content, or the parent of its comment
  unlinked      \*   rows of post_hashtags its open transaction has deleted

content == <<state, author, on, parent>>
counters == <<comments, likes, likeCount, parted>>
tagged == <<tags, uses>>
handler == <<calls, pc, usr, row, arg, unlinked>>
space == <<open, approved>>
vars == <<space, content, counters, tagged, notes, fanouts, handler>>

Target == Post \union Comment
Live == {x \in Target : state[x] = "live"}

-----------------------------------------------------------------------------
\* A comment that can be read hangs on a live post, a reply on a live comment of it.
Attached(c) ==
  /\ on[c] \in Live
  /\ parent[c] # NoRow => parent[c] \in Live /\ on[parent[c]] = on[c]

\* A new space, or one with a comment under a post and others that may be replies to
\* it, not liked yet, and the counters that belong to them.
Init ==
  /\ open = TRUE
  /\ approved = User
  /\ \/ /\ state = [x \in Target |-> "absent"]
        /\ author = [x \in Target |-> Nobody]
        /\ on = [c \in Comment |-> NoRow]
        /\ parent = [c \in Comment |-> NoRow]
     \/ /\ state = [x \in Target |-> "live"]
        /\ author \in [Target -> User]
        /\ \E p \in Post, top \in Comment :
             /\ on = [c \in Comment |-> p]
             /\ parent \in [Comment -> {NoRow, top}]
             /\ parent[top] = NoRow
  /\ tags \in [Post -> SUBSET Tag]
  /\ \A p \in Post \ Live : tags[p] = {}
  /\ uses = [t \in Tag |-> Cardinality({p \in Post : t \in tags[p]})]
  /\ comments = [p \in Post |-> Cardinality({c \in Comment : on[c] = p})]
  /\ likes = {}
  /\ likeCount = [x \in Target |-> 0]
  /\ notes = {}
  /\ fanouts = {}
  /\ parted = {}
  /\ calls = IF Live = {} THEN 0 ELSE 1 \* what filled the space counts for one
  /\ pc = [r \in Req |-> "idle"]
  /\ usr = [r \in Req |-> Nobody]
  /\ row = [r \in Req |-> NoRow]
  /\ arg = [r \in Req |-> {}]
  /\ unlinked = [r \in Req |-> {}]

-----------------------------------------------------------------------------
(* Connections and row locks *)

\* What follows BeginTxx, by what comes before it.
Transaction == [create_post |-> "insert_post", update_post |-> "relink",
                delete_post |-> "unlink", create_comment |-> "insert_comment",
                delete_comment |-> "erase", like |-> "add", unlike |-> "remove"]

Waiting == DOMAIN Transaction

\* The cascade of Post.Delete waits for row locks on a second connection.
Connections(r) ==
  CASE pc[r] \in {"idle"} \union Waiting -> 0
    [] pc[r] = "cascade" -> 2
    [] OTHER -> 1

InUse == Cardinality({r \in Req : Connections(r) > 0})
         + Cardinality({r \in Req : Connections(r) > 1})

\* Faulty variant: one connection too many.
FreeConnectionMiscounted == InUse \leq Capacity

FreeConnection == InUse < Capacity

\* A Like between its UPDATE and its commit holds the target's row and its own key.
Locked(x) == \E q \in Req : pc[q] = "tell_author" /\ row[q] = x
KeyLocked(u, x) == \E q \in Req : pc[q] = "tell_author" /\ row[q] = x /\ usr[q] = u

\* A Post.Delete after UnlinkPost holds the links it deleted and their hashtags.
TagLocked(T) == \E q \in Req : unlinked[q] \intersect T # {}

\* The rows a DELETE of post p takes along, and those of a comment: c and the replies
\* below it.  The foreign keys see to both.
PostAndComments(p) == {p} \union {c \in Comment : on[c] = p}

\* Faulty variant: no cascade over parent_comment_id.
ThreadAlone(c) == {c}

Subtree(c) ==
  {d \in Comment : \A S \in SUBSET Comment :
      (c \in S /\ \A e \in Comment : parent[e] \in S => e \in S) => d \in S}

\* The post a new comment is for.
Commented(r) == CHOOSE x \in arg[r] : x \in Post

\* What the next step of a handler waits for: a connection, and the rows it writes.  A
\* link that a Post.Delete has deleted is never free for its own cascade, which waits
\* for the transaction that waits for it.
Granted(r) ==
  LET x == row[r] IN
  CASE pc[r] \in Waiting \union {"delete_row", "tell_author"} -> FreeConnection
    [] pc[r] = "insert_post"    -> ~TagLocked(arg[r])
    [] pc[r] = "relink"         -> ~Locked(x) /\ ~TagLocked(arg[r] \union tags[x])
    [] pc[r] = "unlink"         -> ~TagLocked(tags[x])
    [] pc[r] = "cascade"        -> /\ unlinked[r] = {} /\ ~TagLocked(tags[x])
                                   /\ \A y \in PostAndComments(x) : ~Locked(y)
    [] pc[r] = "insert_comment" -> ~Locked(Commented(r))
    [] pc[r] = "erase"          -> /\ FreeConnection
                                   /\ \A y \in Subtree(x) \intersect Live : ~Locked(y)
    [] pc[r] = "uncount"        -> ~Locked(on[x])
    [] pc[r] = "add"            -> /\ ~KeyLocked(usr[r], x)
                                   /\ <<usr[r], x>> \in likes \/ ~Locked(x)
    [] pc[r] = "remove"         -> <<usr[r], x>> \in likes => ~Locked(x)
    [] OTHER                    -> FALSE

Call(r, next, u, x, a) ==
  /\ pc[r] = "idle"
  /\ calls < MaxCalls
  /\ calls' = calls + 1
  /\ pc' = [pc EXCEPT ![r] = next]
  /\ usr' = [usr EXCEPT ![r] = u]
  /\ row' = [row EXCEPT ![r] = x]
  /\ arg' = [arg EXCEPT ![r] = a]
  /\ UNCHANGED <<space, content, counters, tagged, notes, fanouts, unlinked>>

Goto(r, next) ==
  /\ pc' = [pc EXCEPT ![r] = next]
  /\ UNCHANGED <<calls, usr, row, arg>>

\* Faulty variant: the transaction is not rolled back, and keeps the links it deleted.
ReturnInTransaction(r) ==
  /\ pc' = [pc EXCEPT ![r] = "idle"]
  /\ usr' = [usr EXCEPT ![r] = Nobody]
  /\ row' = [row EXCEPT ![r] = NoRow]
  /\ arg' = [arg EXCEPT ![r] = {}]
  /\ UNCHANGED <<calls, unlinked>>

Return(r) ==
  /\ pc' = [pc EXCEPT ![r] = "idle"]
  /\ usr' = [usr EXCEPT ![r] = Nobody]
  /\ row' = [row EXCEPT ![r] = NoRow]
  /\ arg' = [arg EXCEPT ![r] = {}]
  /\ unlinked' = [unlinked EXCEPT ![r] = {}]
  /\ UNCHANGED calls

BeginTxx(r) ==
  /\ pc[r] \in Waiting
  /\ Granted(r)
  /\ Goto(r, Transaction[pc[r]])
  /\ UNCHANGED <<space, content, counters, tagged, notes, fanouts, unlinked>>

\* Emit: nobody is told of what he does himself.
Emit(type, to, by, x) == IF to = by THEN {} ELSE {<<type, to, by, x>>}
EmitMany(type, told, by, x) == UNION {Emit(type, to, by, x) : to \in told}

\* GREATEST(n, 0)
Floor(n) == IF n > 0 THEN n ELSE 0

InsertRow(x, u) ==
  /\ state' = [state EXCEPT ![x] = "live"]
  /\ author' = [author EXCEPT ![x] = u]

\* A row no other handler is about to insert.
Unused(x) == state[x] = "absent" /\ \A q \in Req : row[q] # x

-----------------------------------------------------------------------------
(* PostService *)

CreatePost(r, u, p, T) ==
  /\ u \in approved
  /\ Unused(p)
  /\ Call(r, "create_post", u, p, T)

\* Faulty variant: a link that was there before is not counted again.
RelinkTagsOnce(p, T) ==
  /\ tags' = [tags EXCEPT ![p] = T]
  /\ uses' = [t \in Tag |->
       IF t \in tags[p] THEN Floor(uses[t] - 1)
       ELSE IF t \in T THEN uses[t] + 1 ELSE uses[t]]

\* UnlinkPost, then LinkPost, which counts a use for every name of the content.
RelinkTags(p, T) ==
  /\ tags' = [tags EXCEPT ![p] = T]
  /\ uses' = [t \in Tag |->
       LET kept == IF t \in tags[p] THEN Floor(uses[t] - 1) ELSE uses[t]
       IN  IF t \in T THEN kept + 1 ELSE kept]

\* The foreign key refuses a post of a space that went in the meantime.
InsertPost(r) ==
  LET p == row[r] IN
  /\ pc[r] = "insert_post"
  /\ Granted(r)
  /\ IF open
       THEN /\ InsertRow(p, usr[r])
            /\ RelinkTags(p, arg[r])
            /\ fanouts' = fanouts \union {p}
       ELSE UNCHANGED <<state, author, tagged, fanouts>>
  /\ Return(r)
  /\ UNCHANGED <<space, on, parent, counters, notes>>

\* The goroutine tells the members of that moment; each INSERT fails on its own.
FanOutNewPost(p) ==
  /\ p \in fanouts
  /\ FreeConnection
  /\ \E told \in SUBSET approved :
       notes' = notes \union EmitMany("post_in_space", told, author[p], p)
  /\ fanouts' = fanouts \ {p}
  /\ UNCHANGED <<space, content, counters, tagged, handler>>

UpdatePost(r, u, p, T) ==
  /\ p \in Live
  /\ author[p] = u
  /\ Call(r, "update_post", u, p, T)

\* A post that went in the meantime: the UPDATE touches no row, and a link is refused.
Relink(r) ==
  LET p == row[r] IN
  /\ pc[r] = "relink"
  /\ Granted(r)
  /\ IF p \in Live THEN RelinkTags(p, arg[r]) ELSE UNCHANGED tagged
  /\ Return(r)
  /\ UNCHANGED <<space, content, counters, notes, fanouts>>

DeletePost(r, u, p) ==
  /\ p \in Live
  /\ u \in {author[p], Owner}
  /\ Call(r, "delete_post", u, p, {})

Unlink(r) ==
  /\ pc[r] = "unlink"
  /\ Granted(r)
  /\ unlinked' = [unlinked EXCEPT ![r] = tags[row[r]]]
  /\ Goto(r, "delete_row")
  /\ UNCHANGED <<space, content, counters, tagged, notes, fanouts>>

\* postRepo.Delete asks the pool for a second connection.
SendDelete(r) ==
  /\ pc[r] = "delete_row"
  /\ Granted(r)
  /\ Goto(r, "cascade")
  /\ UNCHANGED <<space, content, counters, tagged, notes, fanouts, unlinked>>

\* The DELETE and its cascade, which run when every row they touch is free.
Cascade(r) ==
  LET p == row[r]
      rows == PostAndComments(p)
  IN
  /\ pc[r] = "cascade"
  /\ Granted(r)
  /\ state' = [x \in Target |-> IF x \in rows /\ state[x] = "live" THEN "gone" ELSE state[x]]
  /\ tags' = [tags EXCEPT ![p] = {}]
  /\ Return(r)
  /\ UNCHANGED <<space, author, on, parent, counters, uses, notes, fanouts>>

-----------------------------------------------------------------------------
(* CommentService *)

CreateComment(r, u, c, p, par) ==
  /\ u \in approved
  /\ p \in Live
  /\ Unused(c)
  /\ par = NoRow \/ (par \in Live /\ on[par] = p)
  /\ Call(r, "create_comment", u, c, {p, par})

IncrementCommentCount(p, delta) ==
  comments' = [comments EXCEPT
    ![p] = IF p \in Live THEN Floor(@ + delta) ELSE @]

\* The foreign keys refuse a comment whose post or parent went in the meantime.
InsertComment(r) ==
  LET c == row[r]
      p == Commented(r)
      par == IF arg[r] \intersect Comment = {} THEN NoRow
             ELSE CHOOSE x \in arg[r] : x \in Comment
  IN
  /\ pc[r] = "insert_comment"
  /\ Granted(r)
  /\ IF arg[r] \subseteq Live \union {NoRow}
       THEN /\ InsertRow(c, usr[r])
            /\ on' = [on EXCEPT ![c] = p]
            /\ parent' = [parent EXCEPT ![c] = par]
            /\ IncrementCommentCount(p, 1)
            /\ notes' = notes
                 \union Emit("post_commented", author[p], usr[r], p)
                 \union (IF par # NoRow /\ author[par] # author[p]
                           THEN Emit("comment_replied", author[par], usr[r], par) ELSE {})
       ELSE UNCHANGED <<content, comments, notes>>
  /\ Return(r)
  /\ UNCHANGED <<space, likes, likeCount, parted, tagged, fanouts>>

DeleteComment(r, u, c) ==
  /\ c \in Live
  /\ author[c] = u
  /\ Call(r, "delete_comment", u, c, {})

\* commentRepo.Delete goes through the pool and is committed at once.
Erase(r) ==
  LET c == row[r]
      rows == Subtree(c) \intersect Live
  IN
  /\ pc[r] = "erase"
  /\ Granted(r)
  /\ state' = [x \in Target |-> IF x \in rows THEN "gone" ELSE state[x]]
  /\ parted' = IF rows = {c} THEN parted ELSE parted \union {on[c]}
  /\ Goto(r, "uncount")
  /\ UNCHANGED <<space, author, on, parent, comments, likes, likeCount, tagged,
                 notes, fanouts, unlinked>>

\* Faulty variant: the counter stays.
UncountForgotten(r) ==
  /\ pc[r] = "uncount"
  /\ Return(r)
  /\ UNCHANGED <<space, content, counters, tagged, notes, fanouts>>

Uncount(r) ==
  /\ pc[r] = "uncount"
  /\ Granted(r)
  /\ IncrementCommentCount(on[row[r]], -1)
  /\ Return(r)
  /\ UNCHANGED <<space, content, likes, likeCount, parted, tagged, notes, fanouts>>

-----------------------------------------------------------------------------
(* LikeService *)

Like(r, u, x) ==
  /\ u \in approved
  /\ x \in Live
  /\ Call(r, "like", u, x, {})

IncrementLikeCount(x, delta) ==
  likeCount' = [likeCount EXCEPT
    ![x] = IF x \in Live THEN Floor(@ + delta) ELSE @]

\* Faulty variant: the counter moves even when the row was there.
AddBlindly(r) ==
  /\ pc[r] = "add"
  /\ Granted(r)
  /\ Goto(r, "tell_author")
  /\ UNCHANGED <<space, content, counters, tagged, notes, fanouts, unlinked>>

\* Add and IncrementLikeCount; their rows stay locked until TellAuthor commits.
Add(r) ==
  /\ pc[r] = "add"
  /\ Granted(r)
  /\ IF <<usr[r], row[r]>> \in likes
       THEN Return(r)
       ELSE Goto(r, "tell_author") /\ UNCHANGED unlinked
  /\ UNCHANGED <<space, content, counters, tagged, notes, fanouts>>

\* Faulty variant: the author is not told.
TellAuthorNever(r) ==
  LET x == row[r] IN
  /\ pc[r] = "tell_author"
  /\ Granted(r)
  /\ likes' = likes \union {<<usr[r], x>>}
  /\ IncrementLikeCount(x, 1)
  /\ Return(r)
  /\ UNCHANGED <<space, content, comments, parted, tagged, notes, fanouts>>

\* GetBareByID through the pool, Emit, commit.
TellAuthor(r) ==
  LET x == row[r] IN
  /\ pc[r] = "tell_author"
  /\ Granted(r)
  /\ likes' = likes \union {<<usr[r], x>>}
  /\ IncrementLikeCount(x, 1)
  /\ notes' = IF x \in Live
       THEN notes \union Emit(IF x \in Post THEN "post_liked" ELSE "comment_liked",
                              author[x], usr[r], x)
       ELSE notes
  /\ Return(r)
  /\ UNCHANGED <<space, content, comments, parted, tagged, fanouts>>

\* Unlike asks for no membership, and any id will do.
Unlike(r, u, x) == Call(r, "unlike", u, x, {})

RemoveLike(r) ==
  LET x == row[r] IN
  /\ pc[r] = "remove"
  /\ Granted(r)
  /\ IF <<usr[r], x>> \in likes
       THEN /\ likes' = likes \ {<<usr[r], x>>}
            /\ IncrementLikeCount(x, -1)
       ELSE UNCHANGED <<likes, likeCount>>
  /\ Return(r)
  /\ UNCHANGED <<space, content, comments, parted, tagged, notes, fanouts>>

-----------------------------------------------------------------------------
(* The rest of the system *)

\* An error, a crash, or the client hangs up: Rollback.
Abandon(r) ==
  /\ pc[r] # "idle"
  /\ parted' = IF pc[r] = "uncount" THEN parted \union {on[row[r]]} ELSE parted
  /\ Return(r)
  /\ UNCHANGED <<space, content, comments, likes, likeCount, tagged, notes, fanouts>>

\* The space is deleted, and the cascade takes its posts: use_count stays.
SpaceGone ==
  /\ \A x \in Target : ~Locked(x)
  /\ \A p \in Post : ~TagLocked(tags[p])
  /\ open' = FALSE
  /\ approved' = {}
  /\ state' = [x \in Target |-> IF x \in Live THEN "gone" ELSE state[x]]
  /\ tags' = [p \in Post |-> {}]
  /\ UNCHANGED <<author, on, parent, counters, uses, notes, fanouts, handler>>

\* A transaction's step; it may have to wait for a lock or a connection.
Step(r) ==
  \/ BeginTxx(r)
  \/ InsertPost(r)
  \/ Relink(r)
  \/ Unlink(r)
  \/ SendDelete(r)
  \/ Cascade(r)
  \/ InsertComment(r)
  \/ Erase(r)
  \/ Uncount(r)
  \/ Add(r)
  \/ TellAuthor(r)
  \/ RemoveLike(r)

Next ==
  \/ \E r \in Req, u \in User :
       \/ \E p \in Post, T \in SUBSET Tag : CreatePost(r, u, p, T) \/ UpdatePost(r, u, p, T)
       \/ \E p \in Post : DeletePost(r, u, p)
       \/ \E c \in Comment, p \in Post, par \in Comment \union {NoRow} :
            CreateComment(r, u, c, p, par)
       \/ \E c \in Comment : DeleteComment(r, u, c)
       \/ \E x \in Target : Like(r, u, x) \/ Unlike(r, u, x)
  \/ \E r \in Req : Step(r) \/ Abandon(r)
  \/ \E p \in Post : FanOutNewPost(p)
  \/ SpaceGone

Spec == Init /\ [][Next]_vars

\* PostgreSQL queues the waiters of a row, and database/sql those of the pool.  Nobody
\* is made to hang up.
Fairness == \A r \in Req : SF_vars(Step(r))

FairSpec == Spec /\ Fairness

-----------------------------------------------------------------------------
(* Properties *)

\* Every variable has its type, and the pool never hands out more than it has.
TypeOK ==
  /\ open \in BOOLEAN
  /\ approved \subseteq User
  /\ state \in [Target -> {"absent", "live", "gone"}]
  /\ author \in [Target -> User \union {Nobody}]
  /\ on \in [Comment -> Post \union {NoRow}]
  /\ parent \in [Comment -> Comment \union {NoRow}]
  /\ tags \in [Post -> SUBSET Tag]
  /\ uses \in [Tag -> Nat]
  /\ comments \in [Post -> Nat]
  /\ likes \subseteq User \X Target
  /\ likeCount \in [Target -> Nat]
  /\ notes \subseteq {"post_in_space", "post_liked", "comment_liked", "post_commented",
                      "comment_replied"} \X User \X User \X Target
  /\ fanouts \subseteq Post
  /\ parted \subseteq Post
  /\ calls \in 0..MaxCalls
  /\ pc \in [Req -> {"idle", "delete_row", "cascade", "uncount", "tell_author"}
                     \union Waiting \union {Transaction[w] : w \in Waiting}]
  /\ usr \in [Req -> User \union {Nobody}]
  /\ row \in [Req -> Target \union {NoRow}]
  /\ arg \in [Req -> SUBSET (Tag \union Target \union {NoRow})]
  /\ unlinked \in [Req -> SUBSET Tag]
  /\ InUse \leq Capacity

\* like_count is the number of rows of likes, however likes, their withdrawals and
\* deletions of the target overlap: LikeService moves the counter only with a row.
LikeCountExact ==
  \A x \in Live : likeCount[x] = Cardinality({u \in User : <<u, x>> \in likes})

\* comment_count is the number of comments, but for those erased and not yet taken
\* off, unless a comment went with its replies, was deleted twice at once, or was
\* erased by a handler that did not come to its UPDATE: CommentService.Delete.
CommentCountFollows ==
  \A p \in Live \ parted : p \in Post =>
    comments[p] = Cardinality({c \in Comment \intersect Live : on[c] = p})
                  + Cardinality({r \in Req : pc[r] = "uncount" /\ on[row[r]] = p})

\* use_count never falls below the number of posts that carry the hashtag, whatever
\* updates, deletions and cascades overlap (it may stay above: cascades do not count).
UsesCoverLinks ==
  \A t \in Tag : uses[t] >= Cardinality({p \in Post : t \in tags[p]})

\* A comment that can be read hangs on a live post, and a reply on a live comment of
\* the same post, although post and parent are read before the transaction.
ThreadsIntact ==
  \A c \in Comment \intersect Live : Attached(c)

\* The author has been told of every like of another user: the row, the counter and
\* the notification are committed together or not at all.
LikesAnnounced ==
  \A u \in User, x \in Live : <<u, x>> \in likes /\ author[x] # u =>
    <<IF x \in Post THEN "post_liked" ELSE "comment_liked", author[x], u, x>> \in notes

\* Locks and connections are not waited for in a circle, with a pool that has one more
\* connection than there are handlers: someone can go on, or is a Post.Delete at its
\* DELETE that waits for itself (its client ends it), or the deletions that wait at
\* theirs with a second connection have left none to the handlers they wait for.
NoStandstill ==
  (\E r \in Req : pc[r] # "idle") =>
    \E r \in Req : \/ Granted(r)
                   \/ pc[r] = "cascade" /\ (unlinked[r] # {} \/ ~FreeConnection)

\* post_service.go:229, "Tx commits even though we use the bare repo here": a DELETE that
\* has been sent comes back, by itself or by an error.
DeleteReturns == \A r \in Req : pc[r] = "cascade" ~> pc[r] # "cascade"

=============================================================================
