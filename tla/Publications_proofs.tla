-------------------------- MODULE Publications_proofs --------------------------
(***************************************************************************)
(* The handlers of Publications implement ArticleDesk, for any articles,   *)
(* posts and handlers.  What makes a commit one step of the desk is that   *)
(* the row a transaction has locked has still the status it read, that a   *)
(* row is locked by one transaction at a time, and that a key which a      *)
(* transaction has inserted is neither registered nor inserted by another. *)
(***************************************************************************)
EXTENDS Publications, TLAPS

Locked == {"insert", "publish", "commit"}

\* A handler works on the kind of request its phase is for.
AtWork ==
    \A h \in Handlers :
        /\ phase[h] \in {"read", "write"} => ask[h] \in Reviews
        /\ phase[h] \in {"lock"} \cup Locked => ask[h] \in Postings
        /\ phase[h] = "write" => seen[h] = "pending_review"
        /\ phase[h] = "publish" => seen[h] = "approved"

LocksHold ==
    /\ \A h \in Handlers : phase[h] \in Locked =>
        /\ status[ask[h].article] = seen[h]
        /\ seen[h] \in {"approved", "published"}
    /\ \A g, h \in Handlers :
        g # h /\ phase[g] \in Locked /\ phase[h] \in Locked
            => ask[g].article # ask[h].article

KeyOf(h) == <<PlatformOf[ask[h].article], ask[h].post>>

KeysAreFree ==
    /\ \A h \in Handlers : HoldsPost(h) =>
        \A q \in publications : <<PlatformOf[q.article], q.post>> # KeyOf(h)
    /\ \A g, h \in Handlers :
        g # h /\ HoldsPost(g) /\ HoldsPost(h) => KeyOf(g) # KeyOf(h)

Inv == TypeOK /\ AtWork /\ LocksHold /\ KeysAreFree

-------------------------------------------------------------------------------
LEMMA InitInv == Init => Inv
<1> SUFFICES ASSUME Init PROVE Inv
  OBVIOUS
<1>1. left \in 0 .. MaxRequests
  BY PublicationsAssumption DEF Init
<1>2. TypeOK
  BY <1>1 DEF Init, TypeOK, Phases, Answers, ArticleStatus
<1>3. AtWork /\ LocksHold /\ KeysAreFree
  BY DEF Init, AtWork, LocksHold, KeysAreFree, Locked, HoldsPost
<1>4. QED BY <1>2, <1>3 DEF Inv

\* Where the requests go.
LEMMA RequestKinds ==
    /\ \A r \in Reviews : r.article \in Articles /\ r.to \in {"approved", "rejected"}
    /\ \A r \in Postings : r.article \in Articles /\ r.post \in Posts
BY DEF Reviews, Postings

\* The table, where the handlers use it.
LEMMA TableFacts ==
    /\ \A s \in ArticleStatus, to \in {"approved", "rejected"} :
           CanArticleTransition(s, to) <=> s = "pending_review"
    /\ CanArticleTransition("draft", "scored")
    /\ CanArticleTransition("scored", "pending_review")
    /\ CanArticleTransition("scored", "rewrite_queued")
    /\ CanArticleTransition("approved", "published")
BY DEF ArticleStatus, CanArticleTransition, articleTransitions

-------------------------------------------------------------------------------
LEMMA AnswerKeeps ==
    ASSUME Inv, NEW h \in Handlers, NEW code \in Answers, Answer(h, code),
           UNCHANGED <<rows, left>>
    PROVE  Inv'
BY DEF Inv, TypeOK, AtWork, LocksHold, KeysAreFree, KeyOf, HoldsPost, Locked,
       Answer, rows, Phases, NoRequest

LEMMA ReceiveKeeps ==
    ASSUME Inv, NEW h \in Handlers, Receive(h)
    PROVE  Inv'
<1>1. PICK r \in Requests :
        /\ ask' = [ask EXCEPT ![h] = r]
        /\ phase' = [phase EXCEPT ![h] = IF r \in Reviews THEN "read" ELSE "lock"]
  BY DEF Receive
<1>2. r \in Reviews \/ r \in Postings
  BY DEF Requests
<1>3. TypeOK'
  <2>1. left' \in 0 .. MaxRequests
    BY PublicationsAssumption DEF Inv, TypeOK, Receive
  <2>2. QED BY <1>1, <2>1 DEF Inv, TypeOK, Receive, rows, Phases
<1>4. AtWork'
  BY <1>1, <1>2 DEF Inv, TypeOK, AtWork, Receive, Locked
<1>5. LocksHold' /\ KeysAreFree'
  BY <1>1 DEF Inv, TypeOK, LocksHold, KeysAreFree, KeyOf, HoldsPost, Locked, Receive, rows
<1>6. QED BY <1>3, <1>4, <1>5 DEF Inv

LEMMA ReadKeeps ==
    ASSUME Inv, NEW h \in Handlers, ReadArticle(h)
    PROVE  Inv'
<1>1. CASE Answer(h, "invalid_transition")
  BY <1>1, AnswerKeeps DEF ReadArticle, Answers
<1>2. CASE /\ Goes(h, "write") /\ seen' = [seen EXCEPT ![h] = status[ask[h].article]]
           /\ CanArticleTransition(status[ask[h].article], ask[h].to)
  <2>1. ask[h] \in Reviews /\ phase[h] = "read"
    BY DEF Inv, AtWork, ReadArticle
  <2>2. status[ask[h].article] = "pending_review"
    BY <1>2, <2>1, RequestKinds, TableFacts DEF Inv, TypeOK
  <2>3. UNCHANGED <<status, publications, ask, answer, left>>
    BY <1>2 DEF ReadArticle, Goes, rows
  <2>4. phase' = [phase EXCEPT ![h] = "write"]
    BY <1>2 DEF Goes
  <2>5. TypeOK' /\ AtWork'
    BY <1>2, <2>1, <2>2, <2>3, <2>4 DEF Inv, TypeOK, AtWork, Phases, Locked, ArticleStatus
  <2>6. LocksHold' /\ KeysAreFree'
    BY <1>2, <2>3, <2>4 DEF Inv, TypeOK, LocksHold, KeysAreFree, KeyOf, HoldsPost, Locked
  <2>7. QED BY <2>5, <2>6 DEF Inv
<1>3. QED BY <1>1, <1>2 DEF ReadArticle

\* A status that changes while nobody has the row locked disturbs no lock.
LEMMA MoveKeepsLocks ==
    ASSUME Inv, NEW a \in Articles, NEW from, NEW to, TransitionRow(a, from, to),
           Unlocked(a), NEW h \in Handlers, phase[h] \in Locked
    PROVE  status'[ask[h].article] = status[ask[h].article]
<1>1. ask[h].article \in Articles /\ ask[h].article # a
  BY RequestKinds DEF Inv, AtWork, Unlocked, Locks, Locked
<1>2. QED BY <1>1 DEF TransitionRow, Inv, TypeOK

LEMMA WriteKeeps ==
    ASSUME Inv, NEW h \in Handlers, WriteDecision(h)
    PROVE  Inv'
<1> DEFINE a == ask[h].article
<1>1. CASE Answer(h, "state_changed") /\ UNCHANGED status
  BY <1>1, AnswerKeeps DEF WriteDecision, Answers, rows
<1>2. CASE TransitionRow(a, seen[h], ask[h].to) /\ Answer(h, "ok")
  <2>1. ask[h] \in Reviews /\ phase[h] = "write" /\ Unlocked(a)
    BY DEF Inv, AtWork, WriteDecision
  <2>2. a \in Articles /\ ask[h].to \in ArticleStatus
    BY <2>1, RequestKinds DEF ArticleStatus
  <2>3. UNCHANGED <<publications, left>>
    BY DEF WriteDecision
  <2>4. TypeOK'
    BY <1>2, <2>2, <2>3 DEF Inv, TypeOK, TransitionRow, Answer, Phases, Answers, NoRequest
  <2>5. AtWork' /\ KeysAreFree'
    BY <1>2, <2>3 DEF Inv, TypeOK, AtWork, KeysAreFree, KeyOf, HoldsPost, Locked, Answer
  <2>6. LocksHold'
    BY <1>2, <2>1, <2>2, MoveKeepsLocks DEF Inv, TypeOK, LocksHold, Locked, Answer
  <2>7. QED BY <2>4, <2>5, <2>6 DEF Inv
<1>3. QED BY <1>1, <1>2 DEF WriteDecision

LEMMA LockKeeps ==
    ASSUME Inv, NEW h \in Handlers, LockArticle(h)
    PROVE  Inv'
<1> DEFINE a == ask[h].article
<1>1. CASE Answer(h, "invalid_transition")
  BY <1>1, AnswerKeeps DEF LockArticle, Answers
<1>2. CASE /\ Goes(h, "insert") /\ seen' = [seen EXCEPT ![h] = status[a]]
           /\ status[a] \in {"approved", "published"}
  <2>1. ask[h] \in Postings /\ phase[h] = "lock" /\ Unlocked(a)
    BY DEF Inv, AtWork, LockArticle, Locked
  <2>2. UNCHANGED <<status, publications, ask, answer, left>>
    BY <1>2 DEF LockArticle, Goes, rows
  <2>3. phase' = [phase EXCEPT ![h] = "insert"]
    BY <1>2 DEF Goes
  <2>4. TypeOK' /\ AtWork'
    BY <1>2, <2>1, <2>2, <2>3 DEF Inv, TypeOK, AtWork, Phases, Locked, ArticleStatus
  <2>5. \A g \in Handlers : phase[g] \in Locked => ask[g].article # a
    BY <2>1 DEF Unlocked, Locks, Locked
  <2>6. LocksHold' /\ KeysAreFree'
    BY <1>2, <2>2, <2>3, <2>5
       DEF Inv, TypeOK, LocksHold, KeysAreFree, KeyOf, HoldsPost, Locked
  <2>7. QED BY <2>4, <2>6 DEF Inv
<1>3. QED BY <1>1, <1>2 DEF LockArticle

LEMMA InsertKeeps ==
    ASSUME Inv, NEW h \in Handlers, InsertPublication(h)
    PROVE  Inv'
<1>1. CASE Answer(h, "duplicate_publication")
  BY <1>1, AnswerKeeps DEF InsertPublication, Answers
<1>2. CASE /\ Goes(h, IF seen[h] = "approved" THEN "publish" ELSE "commit")
           /\ UNCHANGED seen
           /\ ~PostIsTaken(h)
  <2>1. UNCHANGED <<status, publications, ask, answer, left, seen>>
    BY <1>2 DEF InsertPublication, Goes, rows
  <2>2. phase' = [phase EXCEPT ![h] = IF seen[h] = "approved" THEN "publish" ELSE "commit"]
    BY <1>2 DEF Goes
  <2>3. phase[h] = "insert" /\ ~PostIsPending(h)
    BY DEF InsertPublication
  <2>4. TypeOK' /\ AtWork' /\ LocksHold'
    BY <2>1, <2>2, <2>3 DEF Inv, TypeOK, AtWork, LocksHold, Phases, Locked
  <2>5. \A q \in publications : <<PlatformOf[q.article], q.post>> # KeyOf(h)
    BY <1>2 DEF PostIsTaken, Desk!Key, Post, KeyOf
  <2>6. \A g \in Handlers : g # h /\ HoldsPost(g) => KeyOf(g) # KeyOf(h)
    BY <2>3 DEF PostIsPending, Desk!Key, Post, KeyOf
  <2>7. KeysAreFree'
    BY <2>1, <2>2, <2>5, <2>6 DEF Inv, TypeOK, KeysAreFree, KeyOf, HoldsPost
  <2>8. QED BY <2>4, <2>7 DEF Inv
<1>3. QED BY <1>1, <1>2 DEF InsertPublication

LEMMA PublishKeeps ==
    ASSUME Inv, NEW h \in Handlers, PublishArticle(h)
    PROVE  Inv'
<1>1. CASE Answer(h, "state_changed")
  BY <1>1, AnswerKeeps DEF PublishArticle, Answers
<1>2. CASE Goes(h, "commit") /\ UNCHANGED seen
  <2>1. UNCHANGED <<status, publications, ask, answer, left, seen>>
    BY <1>2 DEF PublishArticle, Goes, rows
  <2>2. phase[h] = "publish" /\ phase' = [phase EXCEPT ![h] = "commit"]
    BY <1>2 DEF Goes, PublishArticle
  <2>3. TypeOK' /\ AtWork' /\ LocksHold'
    BY <2>1, <2>2 DEF Inv, TypeOK, AtWork, LocksHold, Phases, Locked
  <2>4. KeysAreFree'
    BY <2>1, <2>2 DEF Inv, TypeOK, KeysAreFree, KeyOf, HoldsPost
  <2>5. QED BY <2>3, <2>4 DEF Inv
<1>3. QED BY <1>1, <1>2 DEF PublishArticle

LEMMA CommitKeeps ==
    ASSUME Inv, NEW h \in Handlers, CommitPublication(h)
    PROVE  Inv'
<1> DEFINE a == ask[h].article
<1>1. /\ phase[h] = "commit" /\ ask[h] \in Postings
      /\ a \in Articles /\ ask[h].post \in Posts
      /\ status[a] = seen[h] /\ seen[h] \in {"approved", "published"}
  BY RequestKinds DEF CommitPublication, Inv, AtWork, LocksHold, Locked
<1>2. Answer(h, "ok") /\ UNCHANGED left /\ publications' = publications \cup {Post(h)}
  BY DEF CommitPublication
<1>3. status' = [status EXCEPT ![a] = "published"]
  BY <1>1 DEF CommitPublication, TransitionRow, Inv, TypeOK
<1>4. Post(h) \in Desk!Publications
  BY <1>1 DEF Post, Desk!Publications
<1>5. TypeOK'
  BY <1>1, <1>2, <1>3, <1>4
     DEF Inv, TypeOK, Answer, Phases, Answers, NoRequest, ArticleStatus
<1>6. AtWork'
  BY <1>2 DEF Inv, TypeOK, AtWork, Answer, Locked
<1>7. \A g \in Handlers : g # h /\ phase[g] \in Locked =>
        ask[g].article \in Articles /\ ask[g].article # a
  BY <1>1, RequestKinds DEF Inv, AtWork, LocksHold, Locked
<1>8. LocksHold'
  BY <1>1, <1>2, <1>3, <1>7 DEF Inv, TypeOK, LocksHold, Answer, Locked
<1>9. \A g \in Handlers : g # h /\ HoldsPost(g) => KeyOf(g) # KeyOf(h)
  BY <1>1 DEF Inv, KeysAreFree, HoldsPost
<1>10. <<PlatformOf[Post(h).article], Post(h).post>> = KeyOf(h)
  BY DEF Post, KeyOf
<1>11. KeysAreFree'
  BY <1>2, <1>9, <1>10 DEF Inv, TypeOK, KeysAreFree, KeyOf, HoldsPost, Answer
<1>12. QED BY <1>5, <1>6, <1>8, <1>11 DEF Inv

LEMMA JudgeKeeps ==
    ASSUME Inv, NEW a \in Articles, Judge(a)
    PROVE  Inv'
<1>1. PICK from, to \in ArticleStatus : TransitionRow(a, from, to)
  BY DEF Judge, ArticleStatus
<1>2. UNCHANGED <<publications, phase, ask, seen, answer, left>> /\ Unlocked(a)
  BY DEF Judge, handlers
<1>3. TypeOK'
  BY <1>1, <1>2 DEF Inv, TypeOK, TransitionRow
<1>4. AtWork' /\ KeysAreFree'
  BY <1>2 DEF Inv, AtWork, KeysAreFree, KeyOf, HoldsPost, Locked
<1>5. LocksHold'
  BY <1>1, <1>2, MoveKeepsLocks DEF Inv, LocksHold
<1>6. QED BY <1>3, <1>4, <1>5 DEF Inv

LEMMA NextKeeps ==
    ASSUME Inv, [Next]_vars
    PROVE  Inv'
<1>1. ASSUME NEW h \in Handlers, Handle(h) PROVE Inv'
  BY <1>1, ReadKeeps, WriteKeeps, LockKeeps, InsertKeeps, PublishKeeps, CommitKeeps
     DEF Handle
<1>2. ASSUME NEW h \in Handlers, Fail(h) PROVE Inv'
  BY <1>2, AnswerKeeps DEF Fail, Answers
<1>3. CASE UNCHANGED vars
  BY <1>3 DEF vars, Inv, TypeOK, AtWork, LocksHold, KeysAreFree, KeyOf, HoldsPost, Locked
<1>4. QED BY <1>1, <1>2, <1>3, ReceiveKeeps, JudgeKeeps DEF Next

(***************************************************************************)
(* Types, locks and pending keys are kept by every step of every handler.  *)
(***************************************************************************)
THEOREM LocksAndKeys == Spec => []Inv
BY InitInv, NextKeeps, PTL DEF Spec

(***************************************************************************)
(* A publication that has locked an approved article finds it approved     *)
(* when it moves it: no second publisher and no reviewer comes between.    *)
(***************************************************************************)
THEOREM PublishersInTurn == Spec => []PublishersWaitTheirTurn
<1>1. Inv => PublishersWaitTheirTurn
  BY DEF Inv, LocksHold, Locked, PublishersWaitTheirTurn
<1>2. QED BY <1>1, LocksAndKeys, PTL

-------------------------------------------------------------------------------
\* Every step of the handlers is a step of the desk, or leaves it as it is.
LEMMA StepIsDeskStep ==
    ASSUME Inv, [Next]_vars
    PROVE  [Desk!Next]_(Desk!desk)
<1> USE DEF Desk!desk
<1>1. CASE UNCHANGED rows
  BY <1>1 DEF rows
<1>2. ASSUME NEW h \in Handlers, Handle(h) PROVE [Desk!Next]_(Desk!desk)
  <2> DEFINE a == ask[h].article
  <2>1. CASE WriteDecision(h) /\ TransitionRow(a, seen[h], ask[h].to)
    <3>1. /\ seen[h] = "pending_review" /\ a \in Articles
          /\ ask[h].to \in {"approved", "rejected"}
      BY <2>1, RequestKinds DEF WriteDecision, Inv, AtWork
    <3>2. Desk!Moved(a, "pending_review", ask[h].to)
      BY <2>1, <3>1, TableFacts DEF Desk!Moved, TransitionRow, ArticleStatus, Desk!CanArticleTransition, CanArticleTransition, Desk!articleTransitions, articleTransitions
    <3>3. Desk!Decide(a)
      BY <2>1, <3>1, <3>2 DEF Desk!Decide, WriteDecision
    <3>4. QED BY <3>1, <3>3 DEF Desk!Next
  <2>2. CASE CommitPublication(h)
    <3>1. /\ ask[h] \in Postings /\ a \in Articles /\ ask[h].post \in Posts
          /\ status[a] = seen[h] /\ seen[h] \in {"approved", "published"}
      BY <2>2, RequestKinds DEF CommitPublication, Inv, AtWork, LocksHold, Locked
    <3>2. status' = [status EXCEPT ![a] = "published"]
      BY <2>2, <3>1 DEF CommitPublication, TransitionRow, Inv, TypeOK
    <3>3. Post(h) \in Desk!Publications /\ Post(h).article = a
      BY <3>1 DEF Post, Desk!Publications
    <3>4. \A q \in publications : Desk!Key(q) # Desk!Key(Post(h))
      BY <2>2 DEF CommitPublication, Inv, KeysAreFree, KeyOf, HoldsPost, Desk!Key, Post
    <3>5. Desk!Register(Post(h))
      BY <2>2, <3>1, <3>2, <3>3, <3>4 DEF Desk!Register, CommitPublication
    <3>6. QED BY <3>3, <3>5 DEF Desk!Next
  <2>3. QED BY <1>1, <1>2, <2>1, <2>2
       DEF Handle, ReadArticle, WriteDecision, LockArticle, InsertPublication,
           PublishArticle, rows
<1>3. ASSUME NEW a \in Articles, Judge(a) PROVE [Desk!Next]_(Desk!desk)
  <2>1. Desk!Judge(a)
    BY <1>3, TableFacts DEF Judge, Desk!Judge, Desk!Moved, TransitionRow,
       Desk!CanArticleTransition, CanArticleTransition, Desk!articleTransitions, articleTransitions
  <2>2. QED BY <2>1 DEF Desk!Next
<1>4. QED BY <1>1, <1>2, <1>3 DEF Next, Receive, Fail, rows, vars

(***************************************************************************)
(* The handlers implement the desk: seen from outside, a decision and a    *)
(* publication are one step each, however they interleave and fail.        *)
(***************************************************************************)
THEOREM HandlersImplementTheDesk == Spec => ImplementsDesk
<1>1. Init => Desk!Init
  BY DEF Init, Desk!Init
<1>2. QED BY <1>1, StepIsDeskStep, LocksAndKeys, PTL DEF Spec, ImplementsDesk, Desk!Spec

-------------------------------------------------------------------------------
\* What holds of the desk.
DeskInv == Desk!DeskTypeOK /\ Desk!PublishedMeansRegistered /\ Desk!PostsAreRegisteredOnce

LEMMA DeskStepKeeps ==
    ASSUME DeskInv, [Desk!Next]_(Desk!desk)
    PROVE  DeskInv'
<1> USE DEF DeskInv, Desk!DeskTypeOK, Desk!PublishedMeansRegistered,
            Desk!PostsAreRegisteredOnce, Desk!Publications
<1>1. ASSUME NEW a \in Articles, Desk!Judge(a) \/ Desk!Decide(a) PROVE DeskInv'
  <2>1. PICK from, to \in ArticleStatus \ {"published"} : Desk!Moved(a, from, to)
    BY <1>1 DEF Desk!Judge, Desk!Decide, ArticleStatus
  <2>2. UNCHANGED publications
    BY <1>1 DEF Desk!Judge, Desk!Decide
  <2>3. QED BY <2>1, <2>2 DEF Desk!Moved, Desk!Key, ArticleStatus, Desk!ArticleStatus
<1>2. ASSUME NEW p \in Desk!Publications, Desk!Register(p) PROVE DeskInv'
  BY <1>2 DEF Desk!Register, Desk!Key, ArticleStatus, Desk!ArticleStatus
<1>3. CASE UNCHANGED Desk!desk
  BY <1>3 DEF Desk!desk, Desk!Key
<1>4. QED BY <1>1, <1>2, <1>3 DEF Desk!Next

(***************************************************************************)
(* So an article is published exactly when a post of it is registered, and *)
(* no post of a platform is registered twice, whatever the handlers do.    *)
(***************************************************************************)
THEOREM PublishedIsRegistered ==
    Spec => [](Desk!PublishedMeansRegistered /\ Desk!PostsAreRegisteredOnce)
<1>1. Desk!Init => DeskInv
  BY DEF Desk!Init, DeskInv, Desk!DeskTypeOK, Desk!PublishedMeansRegistered,
         Desk!PostsAreRegisteredOnce, ArticleStatus, Desk!ArticleStatus
<1>2. DeskInv => Desk!PublishedMeansRegistered /\ Desk!PostsAreRegisteredOnce
  BY DEF DeskInv
<1>3. QED
  BY <1>1, <1>2, DeskStepKeeps, HandlersImplementTheDesk, PTL DEF ImplementsDesk, Desk!Spec
===============================================================================
