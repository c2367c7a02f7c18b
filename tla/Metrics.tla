-------------------------------- MODULE Metrics --------------------------------
(***************************************************************************)
(* Imports of metric snapshots (internal/api/m3_handlers.go).  One import  *)
(* is one transaction: its rows in the order given, then the percentiles   *)
(* of every platform and window it touched, in an order Go's map chooses.  *)
(* Imports run side by side under READ COMMITTED: an insert waits for an   *)
(* uncommitted row of the same key, a ranking is computed from what its    *)
(* statement sees and then waits for the rows another import has ranked.   *)
(* PostgreSQL ends a ring of waits by aborting one of its transactions.    *)
(* Days pass: a row ages out of its group's ranking with no import at hand *)
(* and keeps the percentile it had, and so do the rows that stay.          *)
(***************************************************************************)
EXTENDS Integers, FiniteSets, Sequences, SequencesExt

CONSTANTS Pubs,            \* publications a request can name
          Existing,        \* those that exist
          PlatformOf,      \* publications.platform
          PublishedAt,     \* publications.published_at
          WeightOf,        \* the weight of a view on each platform
          Kept,            \* interval '90 days'
          MaxDay,          \* bound: days that pass
          Batches,         \* what an import may carry
          Handlers,
          MaxImports       \* bound: imports that arrive in all

MetricWindow == {"h24", "h72", "d7", "custom"}
Rows == [pub : Pubs, window : MetricWindow, at : Int, views : Nat]

VARIABLES now,             \* the day
          snapshots,       \* the committed rows of metric_snapshots
          percentile,      \* performance_percentile of a row; none is null
          phase,           \* what each handler does next
          began,           \* now() of its transaction: when that began
          batch,           \* the rows it imports
          inserted,        \* how many of them it has inserted
          todo,            \* affected: the groups it has still to rank
          ranking,         \* what its current ranking has computed
          ranked,          \* the percentiles its transaction has written
          answer,          \* what it answered last
          late,            \* history: groups it ranked before others' rows
          stale,           \* history: groups ranked last by such an import
          rankedAt,        \* history: now() of the last commit of each group
          left             \* imports still to come

vars == <<now, snapshots, percentile, phase, began, batch, inserted, todo,
          ranking, ranked, answer, late, stale, rankedAt, left>>
tables == <<snapshots, percentile, stale, rankedAt>>

NoRanks == <<>>            \* the function of no row

GroupOf(r) == <<PlatformOf[r.pub], r.window>>
Groups == {PlatformOf[p] : p \in Pubs} \X (MetricWindow \ {"custom"})

Init ==
    /\ now = 0
    /\ snapshots = {}
    /\ percentile = NoRanks
    /\ phase = [h \in Handlers |-> "idle"]
    /\ began = [h \in Handlers |-> 0]
    /\ batch = [h \in Handlers |-> <<>>]
    /\ inserted = [h \in Handlers |-> 0]
    /\ todo = [h \in Handlers |-> {}]
    /\ ranking = [h \in Handlers |-> NoRanks]
    /\ ranked = [h \in Handlers |-> NoRanks]
    /\ answer = [h \in Handlers |-> "none"]
    /\ late = [h \in Handlers |-> {}]
    /\ stale = {}
    /\ rankedAt = [g \in Groups |-> 0]
    /\ left = MaxImports

-------------------------------------------------------------------------------
Raw(r) == r.views * WeightOf[PlatformOf[r.pub]]

\* percent_rank() over (order by performance_raw) * 100, over the rows rs.
PercentRank(rs) ==
    [r \in rs |->
        IF Cardinality(rs) = 1 THEN 0
        ELSE (100 * Cardinality({q \in rs : Raw(q) < Raw(r)}))
                \div (Cardinality(rs) - 1)]

\* The rows of a group that are ranked at t, and their ranks.
Recent(g, rs, t) == {r \in rs : GroupOf(r) = g /\ r.at >= t - Kept}
Ranks(g, rs, t) == PercentRank(Recent(g, rs, t))

\* The rows of its batch a transaction has inserted.
Own(h) == {batch[h][i] : i \in 1 .. inserted[h]}

\* The two unique indexes of metric_snapshots.
SameKey(r, q) ==
    /\ r.pub = q.pub
    /\ r.at = q.at \/ (r.window = q.window /\ r.window # "custom")

-------------------------------------------------------------------------------
PassDay ==
    /\ now < MaxDay
    /\ now' = now + 1
    /\ UNCHANGED <<tables, phase, began, batch, inserted, todo, ranking, ranked,
                   answer, late, left>>

EndTransaction(h) ==
    /\ began' = [began EXCEPT ![h] = 0]
    /\ batch' = [batch EXCEPT ![h] = <<>>]
    /\ inserted' = [inserted EXCEPT ![h] = 0]
    /\ todo' = [todo EXCEPT ![h] = {}]
    /\ ranking' = [ranking EXCEPT ![h] = NoRanks]
    /\ ranked' = [ranked EXCEPT ![h] = NoRanks]

\* history: what is late of others, and of h no more.
NotLate(h) == late' = [late EXCEPT ![h] = {}]

Answer(h, code) ==
    /\ EndTransaction(h) /\ NotLate(h)
    /\ phase' = [phase EXCEPT ![h] = "idle"]
    /\ answer' = [answer EXCEPT ![h] = code]

\* An error inside the transaction: nothing of it is kept.
Refuse(h, code) == Answer(h, code) /\ UNCHANGED tables

Receive(h) ==
    /\ phase[h] = "idle"
    /\ left > 0
    /\ left' = left - 1
    /\ \E b \in Batches : batch' = [batch EXCEPT ![h] = b]
    /\ began' = [began EXCEPT ![h] = now]
    /\ phase' = [phase EXCEPT ![h] = "row"]
    /\ UNCHANGED <<now, tables, inserted, todo, ranking, ranked, answer, late>>

\* The next row of the batch.
Row(h) == batch[h][inserted[h] + 1]

\* validateMetricInput; readings without any number are left out.
ValidReading(r) == r.at <= now

WaitsToInsert(h, g) ==
    /\ phase[h] = "row" /\ g # h
    /\ \E q \in Own(g) : SameKey(Row(h), q)

(***************************************************************************)
(* One row: it names a publication, is not older than that and not from    *)
(* the future, and is inserted.  Any refusal takes back the whole batch.   *)
(***************************************************************************)
InsertRow(h) ==
    LET r == Row(h) IN
    /\ phase[h] = "row"
    /\ \/ /\ ~ValidReading(r)
          /\ Refuse(h, "invalid_metric")
       \/ /\ ValidReading(r) /\ r.pub \notin Existing
          /\ Refuse(h, "not_found")
       \/ /\ ValidReading(r) /\ r.pub \in Existing
          /\ r.at < PublishedAt[r.pub]
          /\ Refuse(h, "invalid_metric")
       \/ /\ ValidReading(r) /\ r.pub \in Existing
          /\ r.at >= PublishedAt[r.pub]
          /\ \A g \in Handlers : ~WaitsToInsert(h, g)
          /\ \E q \in snapshots \cup Own(h) : SameKey(r, q)
          /\ Refuse(h, "duplicate_snapshot")
       \/ /\ ValidReading(r) /\ r.pub \in Existing
          /\ r.at >= PublishedAt[r.pub]
          /\ \A g \in Handlers : ~WaitsToInsert(h, g)
          /\ \A q \in snapshots \cup Own(h) : ~SameKey(r, q)
          /\ inserted' = [inserted EXCEPT ![h] = @ + 1]
          /\ todo' = [todo EXCEPT ![h] =
                         IF r.window = "custom" THEN @ ELSE @ \cup {GroupOf(r)}]
          /\ phase' = [phase EXCEPT ![h] =
                          IF inserted[h] + 1 = Len(batch[h])
                          THEN "rank" ELSE "row"]
          /\ UNCHANGED <<tables, began, batch, ranking, ranked, answer, late>>
    /\ UNCHANGED <<now, left>>

\* What a statement of h sees: the committed rows and its own.
Visible(h) == snapshots \cup Own(h)

\* Mutant of Rank: only the rows of the import are ranked.
RankOwnRows(h) ==
    /\ phase[h] = "rank"
    /\ \E g \in todo[h] :
        /\ todo' = [todo EXCEPT ![h] = @ \ {g}]
        /\ ranking' = [ranking EXCEPT ![h] = Ranks(g, Own(h), began[h])]
    /\ phase' = [phase EXCEPT ![h] = "update"]
    /\ UNCHANGED <<now, tables, began, batch, inserted, ranked, answer, late, left>>

\* Mutant of Rank: a group stays in the map.
RankAgain(h) ==
    /\ phase[h] = "rank"
    /\ \E g \in todo[h] :
        ranking' = [ranking EXCEPT ![h] = Ranks(g, Visible(h), began[h])]
    /\ phase' = [phase EXCEPT ![h] = "update"]
    /\ UNCHANGED <<now, tables, began, batch, inserted, todo, ranked, answer,
                   late, left>>

(***************************************************************************)
(* RecomputePerformancePercentiles, up to its first row lock: the ranks    *)
(* are those of the rows this statement sees, recent ones as of the time   *)
(* its transaction began.                                                  *)
(***************************************************************************)
Rank(h) ==
    /\ phase[h] = "rank"
    /\ \E g \in todo[h] :
        /\ todo' = [todo EXCEPT ![h] = @ \ {g}]
        /\ ranking' = [ranking EXCEPT ![h] = Ranks(g, Visible(h), began[h])]
    /\ phase' = [phase EXCEPT ![h] = "update"]
    /\ UNCHANGED <<now, tables, began, batch, inserted, ranked, answer, late, left>>

WaitsToUpdate(h, g) ==
    /\ phase[h] = "update" /\ g # h
    /\ DOMAIN ranking[h] \cap DOMAIN ranked[g] # {}

\* Its updates: what it computed before it waited is what it writes.
UpdateRanks(h) ==
    /\ phase[h] = "update"
    /\ \A g \in Handlers : ~WaitsToUpdate(h, g)
    /\ ranked' = [ranked EXCEPT ![h] =
                     [r \in DOMAIN @ \cup DOMAIN ranking[h] |->
                         IF r \in DOMAIN ranking[h]
                         THEN ranking[h][r] ELSE @[r]]]
    /\ ranking' = [ranking EXCEPT ![h] = NoRanks]
    /\ phase' = [phase EXCEPT ![h] = "rank"]
    /\ UNCHANGED <<now, tables, began, batch, inserted, todo, answer, late, left>>

\* The groups of the rows h has inserted, and those of them it has ranked.
Touched(h) == {GroupOf(r) : r \in Own(h)} \cap Groups
Done(h) == Touched(h) \ todo[h]

(***************************************************************************)
(* The commit.  Its rows come too late for the imports that have ranked    *)
(* their groups already and have not committed yet.                        *)
(***************************************************************************)
Commit(h) ==
    /\ phase[h] = "rank" /\ todo[h] = {}
    /\ snapshots' = Visible(h)
    /\ percentile' = [r \in DOMAIN percentile \cup DOMAIN ranked[h] |->
                         IF r \in DOMAIN ranked[h]
                         THEN ranked[h][r] ELSE percentile[r]]
    /\ late' = [g \in Handlers |->
                   IF g = h THEN {} ELSE late[g] \cup (Done(g) \cap Touched(h))]
    /\ stale' = (stale \ Touched(h)) \cup late[h]
    /\ rankedAt' = [g \in Groups |->
                       IF g \in Touched(h) THEN began[h] ELSE rankedAt[g]]
    /\ EndTransaction(h)
    /\ phase' = [phase EXCEPT ![h] = "reply"]
    /\ UNCHANGED <<now, answer, left>>

\* The rows are read back after the commit, for the answer.
Reply(h) ==
    /\ phase[h] = "reply"
    /\ Refuse(h, "created")
    /\ UNCHANGED <<now, left>>

-------------------------------------------------------------------------------
Waits(h, g) == WaitsToInsert(h, g) \/ WaitsToUpdate(h, g)

\* h waits, through others perhaps, for itself.
InRing(h) ==
    /\ \E g \in Handlers : Waits(h, g)
    /\ \A S \in SUBSET Handlers :
        \/ h \in S
        \/ \E g \in Handlers \ S, k \in S \cup {h} : Waits(k, g)

\* The database picks one transaction of the ring: an internal error.
DeadlockVictim(h) ==
    /\ InRing(h)
    /\ Refuse(h, "internal")
    /\ UNCHANGED <<now, left>>

\* A statement fails, the client gives up or the process ends: after the
\* commit too, and then the rows are there and the answer is an error.
Fail(h) ==
    /\ phase[h] # "idle"
    /\ Refuse(h, "internal")
    /\ UNCHANGED <<now, left>>

Handle(h) ==
    \/ InsertRow(h) \/ Rank(h) \/ UpdateRanks(h) \/ Commit(h) \/ Reply(h)
    \/ DeadlockVictim(h)

Next == PassDay \/ \E h \in Handlers : Receive(h) \/ Handle(h) \/ Fail(h)

Fairness == \A h \in Handlers : WF_vars(Handle(h))

Spec == Init /\ [][Next]_vars /\ Fairness

-------------------------------------------------------------------------------
(***************************************************************************)
(* Whatever imports overlap and however much later it is: the percentiles  *)
(* of a group are the ranks, among all rows of the group, of those that    *)
(* were recent when the import that committed it last began.  The one      *)
(* exception is an import that ranked the group and then saw another one   *)
(* of the group commit before it did; it lasts until the group's next      *)
(* import that sees none.  Rows that have aged since are still part of the *)
(* ranking: only an import computes a new one.                             *)
(***************************************************************************)
RanksFollowTheRows ==
    \A g \in Groups \ stale :
        \A r \in Recent(g, snapshots, rankedAt[g]) :
            /\ r \in DOMAIN percentile
            /\ percentile[r] = Ranks(g, snapshots, rankedAt[g])[r]

(***************************************************************************)
(* Every import is answered: two that wait for each other's rows or ranks  *)
(* are not left waiting.                                                   *)
(***************************************************************************)
EveryImportEnds == \A h \in Handlers : []<>(phase[h] = "idle")
===============================================================================
