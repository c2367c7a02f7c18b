------------------------------ MODULE ArticleDesk ------------------------------
(***************************************************************************)
(* What the review desk promises of an article, in steps that take no      *)
(* time: the harvester judges it, one person decides it, and it is         *)
(* published by the first of its registrations.  There are no handlers, no *)
(* locks and no half-done transactions here; Publications has them and     *)
(* implements this.                                                        *)
(***************************************************************************)
EXTENDS Pipeline

CONSTANTS Articles, Posts,
          PlatformOf       \* the platform of each article

VARIABLES status,          \* articles.status
          publications     \* the rows of publications

desk == <<status, publications>>

Publications == [article : Articles, post : Posts]

\* publications_platform_post_unique: a post is registered once per platform.
Key(p) == <<PlatformOf[p.article], p.post>>

Init ==
    /\ status = [a \in Articles |-> "draft"]
    /\ publications = {}

Moved(a, from, to) ==
    /\ status[a] = from
    /\ CanArticleTransition(from, to)
    /\ status' = [status EXCEPT ![a] = to]

Judge(a) ==
    /\ \/ Moved(a, "draft", "scored")
       \/ Moved(a, "scored", "pending_review")
       \/ Moved(a, "scored", "rewrite_queued")
    /\ UNCHANGED publications

Decide(a) ==
    /\ \E to \in {"approved", "rejected"} : Moved(a, "pending_review", to)
    /\ UNCHANGED publications

Register(p) ==
    /\ status[p.article] \in {"approved", "published"}
    /\ \A q \in publications : Key(q) # Key(p)
    /\ publications' = publications \cup {p}
    /\ status' = [status EXCEPT ![p.article] = "published"]

Next ==
    \/ \E a \in Articles : Judge(a) \/ Decide(a)
    \/ \E p \in Publications : Register(p)

Spec == Init /\ [][Next]_desk

-------------------------------------------------------------------------------
DeskTypeOK ==
    /\ status \in [Articles -> ArticleStatus]
    /\ publications \subseteq Publications

(***************************************************************************)
(* An article is published exactly when a post of it is registered         *)
(* (CreatePublication: the row and the status in one transaction).         *)
(***************************************************************************)
PublishedMeansRegistered ==
    \A a \in Articles :
        status[a] = "published" <=> \E p \in publications : p.article = a

(***************************************************************************)
(* No post of a platform is registered twice, for whichever article.       *)
(***************************************************************************)
PostsAreRegisteredOnce ==
    \A p, q \in publications : Key(p) = Key(q) => p = q
===============================================================================
