----------------------------- MODULE Publications -----------------------------
(***************************************************************************)
(* The review desk of the API (internal/api/article_handlers.go): people   *)
(* approve and reject articles and register what they published.  A        *)
(* decision reads the article, asks the table and then updates the row     *)
(* from the status it read, in two statements of their own; a publication  *)
(* is a transaction that locks the article's row, inserts the post and     *)
(* moves the article.  Handlers run side by side, beside the harvester,    *)
(* and any of them can be cut off before it commits.                       *)
(***************************************************************************)
EXTENDS Naturals, Sequences, Pipeline

CONSTANTS Articles, Posts, PlatformOf,
          Handlers,        \* requests the server works on at a time
          MaxRequests      \* bound: requests that arrive in all

ASSUME PublicationsAssumption ==
    /\ PlatformOf \in [Articles -> {"xiaohongshu", "zhihu", "wechat"}]
    /\ MaxRequests \in Nat

VARIABLES status,          \* articles.status, committed
          publications,    \* the committed rows of publications
          phase,           \* what each handler does next
          ask,             \* the request it works on
          seen,            \* the article's status as it read it
          answer,          \* what it answered last
          left             \* requests still to come

vars == <<status, publications, phase, ask, seen, answer, left>>
handlers == <<phase, ask, seen, answer>>

Desk == INSTANCE ArticleDesk

Reviews == [article : Articles, to : {"approved", "rejected"}, post : {"none"}]
Postings == [article : Articles, to : {"published"}, post : Posts]
Requests == Reviews \cup Postings
NoRequest == [article |-> "none", to |-> "none", post |-> "none"]

Phases == {"idle", "read", "write", "lock", "insert", "publish", "commit"}
Answers ==
    {"none", "ok", "invalid_transition", "state_changed",
     "duplicate_publication", "error"}

Init ==
    /\ status = [a \in Articles |-> "draft"]
    /\ publications = {}
    /\ phase = [h \in Handlers |-> "idle"]
    /\ ask = [h \in Handlers |-> NoRequest]
    /\ seen = [h \in Handlers |-> "none"]
    /\ answer = [h \in Handlers |-> "none"]
    /\ left = MaxRequests

-------------------------------------------------------------------------------
\* Mutant of Locks: GetArticle instead of GetArticleForUpdate.
NeverLocks(h, a) == phase[h] = "none" /\ ask[h].article = a

\* The transaction of handler h holds the row of article a, or has inserted
\* the row of its post.
Locks(h, a) ==
    phase[h] \in {"insert", "publish", "commit"} /\ ask[h].article = a
HoldsPost(h) == phase[h] \in {"publish", "commit"}

Unlocked(a) == \A h \in Handlers : ~Locks(h, a)

\* Mutant of TransitionRow: where id = $3, without the status.
TransitionByID(a, from, to) == status' = [status EXCEPT ![a] = to]

(***************************************************************************)
(* TransitionArticle: the row changes only from the status the caller      *)
(* read; the same statement writes the audit row.                          *)
(***************************************************************************)
TransitionRow(a, from, to) ==
    /\ status[a] = from
    /\ status' = [status EXCEPT ![a] = to]

\* The handler returns, and with it goes a transaction it did not commit.
Answer(h, code) ==
    /\ answer' = [answer EXCEPT ![h] = code]
    /\ phase' = [phase EXCEPT ![h] = "idle"]
    /\ ask' = [ask EXCEPT ![h] = NoRequest]
    /\ seen' = [seen EXCEPT ![h] = "none"]

Goes(h, next) ==
    /\ phase' = [phase EXCEPT ![h] = next]
    /\ UNCHANGED <<ask, answer>>

rows == <<status, publications>>

-------------------------------------------------------------------------------
\* Requests with an empty post, title or body never reach the database.
Receive(h) ==
    /\ phase[h] = "idle"
    /\ left > 0
    /\ left' = left - 1
    /\ \E r \in Requests :
        /\ ask' = [ask EXCEPT ![h] = r]
        /\ phase' = [phase EXCEPT ![h] =
                        IF r \in Reviews THEN "read" ELSE "lock"]
    /\ UNCHANGED <<rows, seen, answer>>

\* reviewArticle, first statement: the status as it is now, without a lock.
ReadArticle(h) ==
    LET a == ask[h].article IN
    /\ phase[h] = "read"
    /\ IF CanArticleTransition(status[a], ask[h].to)
       THEN Goes(h, "write") /\ seen' = [seen EXCEPT ![h] = status[a]]
       ELSE Answer(h, "invalid_transition")
    /\ UNCHANGED <<rows, left>>

\* reviewArticle, second statement: it waits for whoever holds the row.
WriteDecision(h) ==
    LET a == ask[h].article IN
    /\ phase[h] = "write"
    /\ Unlocked(a)
    /\ \/ TransitionRow(a, seen[h], ask[h].to) /\ Answer(h, "ok")
       \/ /\ status[a] # seen[h]
          /\ Answer(h, "state_changed")
          /\ UNCHANGED status
    /\ UNCHANGED <<publications, left>>

\* CreatePublication: GetArticleForUpdate and the status check.
LockArticle(h) ==
    LET a == ask[h].article IN
    /\ phase[h] = "lock"
    /\ Unlocked(a)
    /\ IF status[a] \in {"approved", "published"}
       THEN Goes(h, "insert") /\ seen' = [seen EXCEPT ![h] = status[a]]
       ELSE Answer(h, "invalid_transition")
    /\ UNCHANGED <<rows, left>>

Post(h) == [article |-> ask[h].article, post |-> ask[h].post]

PostIsTaken(h) == \E q \in publications : Desk!Key(q) = Desk!Key(Post(h))

PostIsPending(h) ==
    \E g \in Handlers \ {h} :
        HoldsPost(g) /\ Desk!Key(Post(g)) = Desk!Key(Post(h))

(***************************************************************************)
(* The insert waits while another transaction has the same key pending and *)
(* fails once the key is committed.                                        *)
(***************************************************************************)
InsertPublication(h) ==
    /\ phase[h] = "insert"
    /\ ~PostIsPending(h)
    /\ IF PostIsTaken(h)
       THEN Answer(h, "duplicate_publication")
       ELSE /\ Goes(h, IF seen[h] = "approved" THEN "publish" ELSE "commit")
            /\ UNCHANGED seen
    /\ UNCHANGED <<rows, left>>

(***************************************************************************)
(* The first registration moves the article, inside the transaction: what  *)
(* the move writes is seen by nobody before the commit.                    *)
(***************************************************************************)
PublishArticle(h) ==
    /\ phase[h] = "publish"
    /\ IF CanArticleTransition(seen[h], "published") /\ status[ask[h].article] = seen[h]
       THEN Goes(h, "commit") /\ UNCHANGED seen
       ELSE Answer(h, "state_changed")
    /\ UNCHANGED <<rows, left>>

CommitPublication(h) ==
    /\ phase[h] = "commit"
    /\ publications' = publications \cup {Post(h)}
    /\ IF seen[h] = "approved"
       THEN TransitionRow(ask[h].article, "approved", "published")
       ELSE UNCHANGED status
    /\ Answer(h, "ok")
    /\ UNCHANGED left

\* A statement fails, the client gives up or the process ends: rollback.
Fail(h) ==
    /\ phase[h] # "idle"
    /\ Answer(h, "error")
    /\ UNCHANGED <<rows, left>>

\* The harvester's scans move an article to the desk, or to a rewrite.
Judge(a) ==
    /\ Unlocked(a)
    /\ \/ TransitionRow(a, "draft", "scored")
       \/ TransitionRow(a, "scored", "pending_review")
       \/ TransitionRow(a, "scored", "rewrite_queued")
    /\ UNCHANGED <<publications, handlers, left>>

Handle(h) ==
    \/ ReadArticle(h) \/ WriteDecision(h)
    \/ LockArticle(h) \/ InsertPublication(h)
    \/ PublishArticle(h) \/ CommitPublication(h)

Next ==
    \/ \E h \in Handlers : Receive(h) \/ Handle(h) \/ Fail(h)
    \/ \E a \in Articles : Judge(a)

\* A handler that can go on goes on; nothing makes a request come or fail.
Fairness == \A h \in Handlers : WF_vars(Handle(h))

Spec == Init /\ [][Next]_vars /\ Fairness

-------------------------------------------------------------------------------
TypeOK ==
    /\ status \in [Articles -> ArticleStatus]
    /\ publications \subseteq Desk!Publications
    /\ phase \in [Handlers -> Phases]
    /\ ask \in [Handlers -> Requests \cup {NoRequest}]
    /\ seen \in [Handlers -> ArticleStatus \cup {"none"}]
    /\ answer \in [Handlers -> Answers]
    /\ left \in 0 .. MaxRequests

(***************************************************************************)
(* A publication of an approved article is never told that the article     *)
(* changed under it: two at once wait for each other, and both are         *)
(* registered when their posts differ (GetArticleForUpdate).               *)
(***************************************************************************)
PublishersWaitTheirTurn ==
    \A h \in Handlers :
        phase[h] = "publish" => status[ask[h].article] = seen[h]

\* The desk as its users know it: every step of a handler is one of its
\* steps, or none.
ImplementsDesk == Desk!Spec

(***************************************************************************)
(* Every request is answered, whoever holds the rows and keys it waits     *)
(* for: the handlers never wait for each other in a ring.                  *)
(***************************************************************************)
EveryRequestEnds == \A h \in Handlers : []<>(phase[h] = "idle")
===============================================================================
