------------------------------- MODULE Pipeline -------------------------------
(***************************************************************************)
(* The status tables of topics and articles (internal/pipeline).  Every    *)
(* status change of either kind is a compare-and-set in the database from  *)
(* an expected status; the tables say which changes the system ever asks   *)
(* for.                                                                    *)
(***************************************************************************)

TopicStatus ==
    {"candidate", "scored", "approved", "in_writing", "written", "rejected"}

ArticleStatus ==
    {"draft", "scored", "pending_review", "rewrite_queued", "approved",
     "published", "rejected"}

topicTransitions ==
    [candidate  |-> {"scored", "rejected"},
     scored     |-> {"approved", "rejected"},
     approved   |-> {"in_writing"},
     in_writing |-> {"written"},
     written    |-> {},
     rejected   |-> {}]

articleTransitions ==
    [draft          |-> {"scored"},
     scored         |-> {"pending_review", "rewrite_queued"},
     rewrite_queued |-> {},
     pending_review |-> {"approved", "rejected"},
     approved       |-> {"published"},
     published      |-> {},
     rejected       |-> {}]

\* Both arguments are statuses of a row that exists.
CanTopicTransition(from, to) == to \in topicTransitions[from]
CanArticleTransition(from, to) == to \in articleTransitions[from]
===============================================================================
