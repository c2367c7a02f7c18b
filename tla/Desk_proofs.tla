----------------------------- MODULE Desk_proofs -----------------------------
(***************************************************************************)
(* Theorems about two kinds of request to the API that share no state:     *)
(* requests for replays (ReplayRequests), for any handlers, requests and   *)
(* versions, and imports of metrics (Metrics, here Imports), for any       *)
(* handlers, publications, platforms and batches.                          *)
(***************************************************************************)
EXTENDS ReplayRequests, TLAPS

\* The key of a request: what its parent ran with is part of it.
KeyOf(a) ==
    <<a.parent, a.from, a.scope, Merge(Inheritance(runs[a.parent]), a.overrides)>>

\* Run r is what request a asks for.
Fits(a, r) ==
    /\ r \in DOMAIN runs /\ a.parent \in DOMAIN runs
    /\ runs[r].key = KeyOf(a)
    /\ runs[r].parent = a.parent /\ runs[r].from = a.from
    /\ runs[r].scope = a.scope
    /\ runs[r].requested = Merge(Inheritance(runs[a.parent]), a.overrides)

TypeOK ==
    /\ nextID \in Nat
    /\ \A r \in DOMAIN runs : r \in Nat /\ r < nextID
    /\ phase \in [Handlers -> {"idle", "check", "registry", "insert", "fill", "reply"}]
    /\ child \in [Handlers -> Nat]
    /\ ask = [h \in Handlers |-> ask[h]]
    /\ merged = [h \in Handlers |-> merged[h]]

\* Every run but the root has the key of its row, and no two the same.
KeysHold ==
    /\ \A r \in DOMAIN runs :
           \/ runs[r].key = <<>>
           \/ runs[r].key = <<runs[r].parent, runs[r].from, runs[r].scope,
                              runs[r].requested>>
    /\ \A q, r \in DOMAIN runs : runs[q].key = runs[r].key => q = r

\* What a handler has merged is what its parent's configuration makes of it.
MergedHold ==
    \A h \in Handlers : phase[h] \in {"registry", "insert", "fill"} =>
        /\ ask[h].parent \in DOMAIN runs
        /\ merged[h] = Merge(Inheritance(runs[ask[h].parent]), ask[h].overrides)

\* An open transaction has an id and a key of its own.
FillsHold ==
    \A h \in Handlers : phase[h] = "fill" =>
        /\ child[h] < nextID /\ child[h] \notin DOMAIN runs
        /\ \A r \in DOMAIN runs : runs[r].key # Key(h)
        /\ \A g \in Handlers : phase[g] = "fill" /\ g # h =>
               child[g] # child[h] /\ Key(g) # Key(h)

AnswersHold ==
    /\ \A h \in Handlers : phase[h] = "reply" => Fits(ask[h], child[h])
    /\ \A x \in answers : Fits(x.ask, x.id)

Inv == TypeOK /\ KeysHold /\ MergedHold /\ FillsHold /\ AnswersHold

LEMMA InitInv == Init => Inv
<1> SUFFICES ASSUME Init PROVE Inv
  OBVIOUS
<1>1. DOMAIN runs = {1} /\ runs[1] = Root
  BY DEF Init
<1>2. QED
  BY <1>1 DEF Init, Inv, TypeOK, KeysHold, MergedHold, FillsHold, AnswersHold, Root

-------------------------------------------------------------------------------
\* Runs are never changed or removed.
Grown == \A r \in DOMAIN runs : r \in DOMAIN runs' /\ runs'[r] = runs[r]

LEMMA FitsStays ==
    ASSUME Grown, NEW a, NEW r, Fits(a, r)
    PROVE  Fits(a, r)'
BY DEF Grown, Fits, KeyOf

(***************************************************************************)
(* A step of one handler that leaves the runs alone and neither enters nor *)
(* leaves its transaction.                                                 *)
(***************************************************************************)
LEMMA QuietKeeps ==
    ASSUME Inv, NEW h \in Handlers, TypeOK', UNCHANGED <<runs, nextID>>,
           \A g \in Handlers \ {h} :
               /\ phase'[g] = phase[g] /\ ask'[g] = ask[g]
               /\ merged'[g] = merged[g] /\ child'[g] = child[g],
           phase'[h] # "fill",
           phase'[h] \in {"registry", "insert"} =>
               /\ ask'[h].parent \in DOMAIN runs
               /\ merged'[h] = Merge(Inheritance(runs[ask'[h].parent]),
                                     ask'[h].overrides),
           phase'[h] = "reply" => Fits(ask'[h], child'[h]),
           \A x \in answers' : Fits(x.ask, x.id)
    PROVE  Inv'
<1>1. KeysHold'
  BY DEF Inv, KeysHold
<1>2. MergedHold'
  BY DEF Inv, MergedHold
<1>3. \A g \in Handlers \ {h} : Key(g)' = Key(g)
  BY DEF Key
<1>4. FillsHold'
  BY <1>3 DEF Inv, FillsHold
<1>5. \A a, r : Fits(a, r)' <=> Fits(a, r)
  BY DEF Fits, KeyOf
<1>6. AnswersHold'
  BY <1>5 DEF Inv, AnswersHold
<1>7. QED BY <1>1, <1>2, <1>4, <1>6 DEF Inv

LEMMA RefuseKeeps ==
    ASSUME Inv, NEW h \in Handlers, Refuse(h)
    PROVE  Inv'
<1>1. TypeOK'
  BY DEF Inv, TypeOK, Refuse, Idle
<1>2. phase'[h] = "idle"
  BY DEF Inv, TypeOK, Refuse, Idle
<1>3. \A g \in Handlers \ {h} :
          /\ phase'[g] = phase[g] /\ ask'[g] = ask[g]
          /\ merged'[g] = merged[g] /\ child'[g] = child[g]
  BY DEF Inv, TypeOK, Refuse, Idle
<1>4. \A x \in answers' : Fits(x.ask, x.id)
  BY DEF Inv, AnswersHold, Refuse
<1>5. UNCHANGED <<runs, nextID>>
  BY DEF Refuse
<1>6. QED BY <1>1, <1>2, <1>3, <1>4, <1>5, QuietKeeps

LEMMA ReceiveKeeps ==
    ASSUME Inv, NEW h \in Handlers, Receive(h)
    PROVE  Inv'
<1>1. TypeOK'
  BY DEF Inv, TypeOK, Receive, Goes
<1>2. phase'[h] = "check"
  BY DEF Inv, TypeOK, Receive, Goes
<1>3. \A g \in Handlers \ {h} :
          /\ phase'[g] = phase[g] /\ ask'[g] = ask[g]
          /\ merged'[g] = merged[g] /\ child'[g] = child[g]
  BY DEF Inv, TypeOK, Receive, Goes
<1>4. \A x \in answers' : Fits(x.ask, x.id)
  BY DEF Inv, AnswersHold, Receive
<1>5. UNCHANGED <<runs, nextID>>
  BY DEF Receive
<1>6. QED BY <1>1, <1>2, <1>3, <1>4, <1>5, QuietKeeps

LEMMA CheckKeeps ==
    ASSUME Inv, NEW h \in Handlers, Check(h)
    PROVE  Inv'
<1> DEFINE all == Merge(Inheritance(runs[ask[h].parent]), ask[h].overrides)
<1>1. CASE Refuse(h)
  BY <1>1, RefuseKeeps
<1>2. CASE /\ ask[h].parent \in DOMAIN runs
           /\ merged' = [merged EXCEPT ![h] = all]
           /\ Goes(h, "registry")
           /\ UNCHANGED <<runs, registry, ask, child, answers, nextID, left>>
  <2>1. TypeOK'
    BY <1>2 DEF Inv, TypeOK, Goes
  <2>2. phase'[h] = "registry" /\ merged'[h] = all
    BY <1>2 DEF Inv, TypeOK, Goes
  <2>3. \A g \in Handlers \ {h} :
            /\ phase'[g] = phase[g] /\ ask'[g] = ask[g]
            /\ merged'[g] = merged[g] /\ child'[g] = child[g]
    BY <1>2 DEF Inv, TypeOK, Goes
  <2>4. \A x \in answers' : Fits(x.ask, x.id)
    BY <1>2 DEF Inv, AnswersHold
  <2>5. QED BY <1>2, <2>1, <2>2, <2>3, <2>4, QuietKeeps
<1>3. QED BY <1>1, <1>2 DEF Check

LEMMA CheckRegistryKeeps ==
    ASSUME Inv, NEW h \in Handlers, CheckRegistry(h)
    PROVE  Inv'
<1>1. CASE Refuse(h)
  BY <1>1, RefuseKeeps
<1>2. CASE /\ Goes(h, "insert")
           /\ UNCHANGED <<runs, registry, ask, merged, child, answers, nextID, left>>
  <2>1. TypeOK'
    BY <1>2 DEF Inv, TypeOK, Goes
  <2>2. phase'[h] = "insert" /\ phase[h] = "registry"
    BY <1>2 DEF Inv, TypeOK, Goes, CheckRegistry
  <2>3. \A g \in Handlers \ {h} :
            /\ phase'[g] = phase[g] /\ ask'[g] = ask[g]
            /\ merged'[g] = merged[g] /\ child'[g] = child[g]
    BY <1>2 DEF Inv, TypeOK, Goes
  <2>4. \A x \in answers' : Fits(x.ask, x.id)
    BY <1>2 DEF Inv, AnswersHold
  <2>5. /\ ask'[h].parent \in DOMAIN runs
        /\ merged'[h] = Merge(Inheritance(runs[ask'[h].parent]), ask'[h].overrides)
    BY <1>2, <2>2 DEF Inv, MergedHold
  <2>6. QED BY <1>2, <2>1, <2>2, <2>3, <2>4, <2>5, QuietKeeps
<1>3. QED BY <1>1, <1>2 DEF CheckRegistry

(***************************************************************************)
(* The key is there already: the run that has it is what was asked for.    *)
(***************************************************************************)
LEMMA FoundKeeps ==
    ASSUME Inv, NEW h \in Handlers, phase[h] = "insert",
           NEW r \in DOMAIN runs, runs[r].key = Key(h),
           child' = [child EXCEPT ![h] = r], Goes(h, "reply"),
           UNCHANGED <<nextID, runs, registry, ask, merged, answers, left>>
    PROVE  Inv'
<1>1. TypeOK'
  BY DEF Inv, TypeOK, Goes
<1>2. phase'[h] = "reply" /\ child'[h] = r
  BY DEF Inv, TypeOK, Goes
<1>3. \A g \in Handlers \ {h} :
          /\ phase'[g] = phase[g] /\ ask'[g] = ask[g]
          /\ merged'[g] = merged[g] /\ child'[g] = child[g]
  BY DEF Inv, TypeOK, Goes
<1>4. \A x \in answers' : Fits(x.ask, x.id)
  BY DEF Inv, AnswersHold
<1>5. /\ ask[h].parent \in DOMAIN runs
      /\ merged[h] = Merge(Inheritance(runs[ask[h].parent]), ask[h].overrides)
  BY DEF Inv, MergedHold
<1>6. Fits(ask[h], r)
  <2>1. runs[r].key = <<ask[h].parent, ask[h].from, ask[h].scope, merged[h]>>
    BY DEF Key
  <2>2. runs[r].key = <<runs[r].parent, runs[r].from, runs[r].scope,
                        runs[r].requested>>
    <3>1. runs[r].key # <<>>
      BY <2>1
    <3>2. QED BY <3>1 DEF Inv, KeysHold
  <2>3. QED BY <1>5, <2>1, <2>2 DEF Fits, KeyOf
<1>7. QED BY <1>1, <1>2, <1>3, <1>4, <1>6, QuietKeeps

\* The key is inserted: nobody else has it, committed or not.
LEMMA EnterKeeps ==
    ASSUME Inv, NEW h \in Handlers, phase[h] = "insert",
           Holders(h) = {}, Same(h) = {},
           child' = [child EXCEPT ![h] = nextID], nextID' = nextID + 1,
           Goes(h, "fill"),
           UNCHANGED <<runs, registry, ask, merged, answers, left>>
    PROVE  Inv'
<1>1. TypeOK'
  BY DEF Inv, TypeOK, Goes
<1>2. phase'[h] = "fill" /\ child'[h] = nextID
  BY DEF Inv, TypeOK, Goes
<1>3. \A g \in Handlers \ {h} : phase'[g] = phase[g] /\ child'[g] = child[g]
  BY DEF Inv, TypeOK, Goes
<1>4. \A g \in Handlers : Key(g)' = Key(g)
  BY DEF Key
<1>5. KeysHold'
  BY DEF Inv, KeysHold
<1>6. MergedHold'
  BY <1>2, <1>3 DEF Inv, MergedHold
<1>7. nextID \notin DOMAIN runs /\ nextID < nextID'
  BY DEF Inv, TypeOK
<1>8. \A g \in Handlers \ {h} : phase[g] = "fill" =>
          child[g] # nextID /\ Key(g) # Key(h) /\ child[g] < nextID'
  BY DEF Inv, TypeOK, FillsHold, Holders
<1>9. \A r \in DOMAIN runs : runs[r].key # Key(h)
  BY DEF Same
<1>10. FillsHold'
  BY <1>2, <1>3, <1>4, <1>7, <1>8, <1>9 DEF Inv, FillsHold
<1>11. \A a, r : Fits(a, r)' <=> Fits(a, r)
  BY DEF Fits, KeyOf
<1>12. AnswersHold'
  BY <1>2, <1>3, <1>11 DEF Inv, AnswersHold
<1>13. QED BY <1>1, <1>5, <1>6, <1>10, <1>12 DEF Inv

LEMMA InsertKeeps ==
    ASSUME Inv, NEW h \in Handlers, Insert(h)
    PROVE  Inv'
<1>1. CASE Same(h) # {}
  <2>1. (CHOOSE r \in Same(h) : TRUE) \in Same(h)
    BY <1>1
  <2> DEFINE found == CHOOSE r \in Same(h) : TRUE
  <2>2. found \in DOMAIN runs /\ runs[found].key = Key(h)
    BY <2>1 DEF Same
  <2>3. child' = [child EXCEPT ![h] = found] /\ Goes(h, "reply")
    BY <1>1 DEF Insert
  <2> HIDE DEF found
  <2>4. QED BY <1>1, <2>2, <2>3, FoundKeeps DEF Insert
<1>2. CASE Same(h) = {}
  BY <1>2, EnterKeeps DEF Insert
<1>3. QED BY <1>1, <1>2

\* The commit: one more run, with the key and the id of the transaction.
LEMMA FillKeeps ==
    ASSUME Inv, NEW h \in Handlers, Fill(h)
    PROVE  Inv'
<1> DEFINE new == [key |-> Key(h), parent |-> ask[h].parent, from |-> ask[h].from,
                   scope |-> ask[h].scope, requested |-> merged[h],
                   asked |-> ask[h].overrides]
<1>1. phase[h] = "fill" /\ phase'[h] = "reply"
  BY DEF Inv, TypeOK, Fill, Goes
<1>2. child[h] \notin DOMAIN runs /\ child[h] < nextID /\ child[h] \in Nat
  BY <1>1 DEF Inv, TypeOK, FillsHold
<1>3. runs' = Over(runs, [r \in {child[h]} |-> new])
  BY DEF Fill
<1> HIDE DEF new
<1>4. /\ DOMAIN runs' = DOMAIN runs \cup {child[h]}
      /\ runs'[child[h]] = new
      /\ \A r \in DOMAIN runs : runs'[r] = runs[r]
  BY <1>2, <1>3 DEF Over
<1>5. /\ new.key = Key(h) /\ new.parent = ask[h].parent /\ new.from = ask[h].from
      /\ new.scope = ask[h].scope /\ new.requested = merged[h]
  BY DEF new
<1>6. UNCHANGED <<ask, merged, child, answers, nextID>>
  BY DEF Fill
<1>7. \A g \in Handlers \ {h} : phase'[g] = phase[g]
  BY DEF Inv, TypeOK, Fill, Goes
<1>8. Grown
  BY <1>4 DEF Grown
<1>9. TypeOK'
  BY <1>2, <1>4, <1>6 DEF Inv, TypeOK, Fill, Goes
<1>10. \A g \in Handlers : Key(g)' = Key(g)
  BY <1>6 DEF Key
<1>11. KeysHold'
  <2>1. \A r \in DOMAIN runs : runs[r].key # Key(h)
    BY <1>1 DEF Inv, FillsHold
  <2>2. new.key = <<new.parent, new.from, new.scope, new.requested>>
    BY <1>5 DEF Key
  <2>3. QED BY <1>4, <1>5, <2>1, <2>2 DEF Inv, KeysHold
<1>12. MergedHold'
  BY <1>1, <1>4, <1>6, <1>7 DEF Inv, MergedHold
<1>13. FillsHold'
  <2>1. ASSUME NEW g \in Handlers, phase'[g] = "fill"
        PROVE  /\ child[g] < nextID /\ child[g] \notin DOMAIN runs'
               /\ \A r \in DOMAIN runs' : runs'[r].key # Key(g)
               /\ \A k \in Handlers : phase'[k] = "fill" /\ k # g =>
                      child[k] # child[g] /\ Key(k) # Key(g)
    <3>1. g # h /\ phase[g] = "fill"
      BY <1>1, <1>7, <2>1
    <3>2. child[g] # child[h] /\ Key(g) # Key(h)
      BY <1>1, <3>1 DEF Inv, FillsHold
    <3>3. QED BY <1>1, <1>4, <1>5, <1>7, <3>1, <3>2 DEF Inv, FillsHold
  <2>2. QED BY <1>6, <1>10, <2>1 DEF FillsHold
<1>14. AnswersHold'
  <2>1. Fits(ask[h], child[h])'
    <3>1. /\ ask[h].parent \in DOMAIN runs
          /\ merged[h] = Merge(Inheritance(runs[ask[h].parent]), ask[h].overrides)
      BY <1>1 DEF Inv, MergedHold
    <3>2. QED BY <1>4, <1>5, <1>6, <3>1 DEF Fits, KeyOf, Key
  <2>2. ASSUME NEW g \in Handlers \ {h}, phase'[g] = "reply"
        PROVE  Fits(ask[g], child[g])'
    <3>1. Fits(ask[g], child[g])
      BY <1>7, <2>2 DEF Inv, AnswersHold
    <3>2. QED BY <1>6, <1>8, <3>1 DEF Fits, KeyOf, Grown
  <2>3. ASSUME NEW x \in answers
        PROVE  Fits(x.ask, x.id)'
    BY <1>8, <2>3, FitsStays DEF Inv, AnswersHold
  <2>4. QED BY <1>6, <2>1, <2>2, <2>3 DEF AnswersHold
<1>15. QED BY <1>9, <1>11, <1>12, <1>13, <1>14 DEF Inv

LEMMA ReplyKeeps ==
    ASSUME Inv, NEW h \in Handlers, Reply(h)
    PROVE  Inv'
<1>1. TypeOK'
  BY DEF Inv, TypeOK, Reply, Idle
<1>2. phase'[h] = "idle"
  BY DEF Inv, TypeOK, Reply, Idle
<1>3. \A g \in Handlers \ {h} :
          /\ phase'[g] = phase[g] /\ ask'[g] = ask[g]
          /\ merged'[g] = merged[g] /\ child'[g] = child[g]
  BY DEF Inv, TypeOK, Reply, Idle
<1>4. \A x \in answers' : Fits(x.ask, x.id)
  BY DEF Inv, AnswersHold, Reply
<1>5. UNCHANGED <<runs, nextID>>
  BY DEF Reply
<1>6. QED BY <1>1, <1>2, <1>3, <1>4, <1>5, QuietKeeps

LEMMA NextKeeps == Inv /\ [Next]_vars => Inv'
<1> SUFFICES ASSUME Inv, [Next]_vars PROVE Inv'
  OBVIOUS
<1>1. CASE UNCHANGED vars
  BY <1>1 DEF vars, Inv, TypeOK, KeysHold, MergedHold, FillsHold, AnswersHold,
              Fits, KeyOf, Key
<1>2. ASSUME NEW h \in Handlers, Receive(h) \/ Handle(h) \/ Fail(h)
      PROVE  Inv'
  BY <1>2, ReceiveKeeps, CheckKeeps, CheckRegistryKeeps, InsertKeeps, FillKeeps,
     ReplyKeeps, RefuseKeeps DEF Handle, Fail
<1>3. ASSUME NEW v \in Versions, RegisterVersion(v)
      PROVE  Inv'
  BY <1>3 DEF RegisterVersion, Inv, TypeOK, KeysHold, MergedHold, FillsHold,
              AnswersHold, Fits, KeyOf, Key
<1>4. QED BY <1>1, <1>2, <1>3 DEF Next

\* The invariant: keys, ids and configurations of runs, requests and answers.
THEOREM KeysAndRuns == Spec => []Inv
BY InitInv, NextKeeps, PTL DEF Spec

-------------------------------------------------------------------------------
(***************************************************************************)
(* "Identical requests are idempotent": for any number of instances and    *)
(* people, in any order, the same request has one run, and it is what was  *)
(* asked for (CreateReplay, the unique index on replay_key).               *)
(***************************************************************************)
THEOREM SameRequestSameRun == Spec => []OneRunPerRequest
<1>1. Inv => OneRunPerRequest
  <2> SUFFICES ASSUME Inv PROVE OneRunPerRequest
    OBVIOUS
  <2>1. ASSUME NEW x \in answers, NEW y \in answers, x.ask = y.ask
        PROVE  x.id = y.id
    <3>1. Fits(x.ask, x.id) /\ Fits(y.ask, y.id)
      BY DEF Inv, AnswersHold
    <3>2. runs[x.id].key = runs[y.id].key
      BY <2>1, <3>1 DEF Fits
    <3>3. QED BY <3>1, <3>2 DEF Fits, Inv, KeysHold
  <2>2. ASSUME NEW x \in answers, NEW k \in DOMAIN x.ask.overrides
        PROVE  /\ k \in DOMAIN runs[x.id].requested
               /\ runs[x.id].requested[k] = x.ask.overrides[k]
    <3>1. runs[x.id].requested = Merge(Inheritance(runs[x.ask.parent]), x.ask.overrides)
      BY DEF Inv, AnswersHold, Fits
    <3>2. QED BY <3>1 DEF Merge, Over
  <2>3. QED BY <2>1, <2>2 DEF Inv, AnswersHold, Fits, OneRunPerRequest
<1>2. QED BY <1>1, KeysAndRuns, PTL

-------------------------------------------------------------------------------
\* Every run but the root has the configuration its parent's and its own
\* overrides make.
LineHolds ==
    /\ 1 \in DOMAIN runs
    /\ runs[1].requested = NoOverrides /\ runs[1].asked = NoOverrides
    /\ \A r \in DOMAIN runs \ {1} :
           /\ runs[r].parent \in DOMAIN runs
           /\ runs[r].requested = Merge(Inheritance(runs[runs[r].parent]), runs[r].asked)

\* What a run has for a key if value says what the others have.
FromParent(key, r, value) ==
    IF key \in DOMAIN runs[r].asked THEN {runs[r].asked[key]}
    ELSE IF r = 1 THEN IF key = "topicPassThreshold" THEN {defaultTopicPass} ELSE {}
    ELSE value[runs[r].parent]

\* The equation that Inherited solves.
Solves(key, value) == value = [r \in DOMAIN runs |-> FromParent(key, r, value)]

\* What the snapshot of each run's configuration says.
Configured(key) ==
    [r \in DOMAIN runs |->
        IF key \in DOMAIN Effective(runs[r]) THEN {Effective(runs[r])[key]} ELSE {}]

\* No other function solves it: runs come after their parents.
OneSolution == \A key, value : Solves(key, value) => value = Configured(key)

LineInv == LineHolds /\ OneSolution

LEMMA LineBegins == Init => LineInv
<1> SUFFICES ASSUME Init PROVE LineInv
  OBVIOUS
<1>1. DOMAIN runs = {1} /\ runs[1] = Root
  BY DEF Init
<1>2. LineHolds
  BY <1>1 DEF LineHolds, Root
<1>3. ASSUME NEW key, NEW value, Solves(key, value) PROVE value = Configured(key)
  <2>1. value = [r \in {1} |-> FromParent(key, r, value)]
    BY <1>1, <1>3 DEF Solves
  <2>2. FromParent(key, 1, value) =
            IF key = "topicPassThreshold" THEN {defaultTopicPass} ELSE {}
    BY <1>1 DEF FromParent, Root, NoOverrides
  <2>3. /\ DOMAIN Effective(runs[1]) = {"topicPassThreshold"}
        /\ Effective(runs[1])["topicPassThreshold"] = defaultTopicPass
    BY <1>1 DEF Effective, Over, Root, NoOverrides
  <2>4. Configured(key) = [r \in {1} |-> FromParent(key, r, value)]
    BY <1>1, <2>2, <2>3 DEF Configured
  <2>5. QED BY <2>1, <2>4
<1>4. QED BY <1>2, <1>3 DEF LineInv, OneSolution

\* The configuration of a run is what it was asked for or else its parent's.
EachFromParent ==
    \A key : \A r \in DOMAIN runs :
        Configured(key)[r] = FromParent(key, r, Configured(key))

LEMMA ConfiguredFromParent == LineHolds => EachFromParent
<1> SUFFICES ASSUME LineHolds, NEW key, NEW r \in DOMAIN runs
             PROVE  Configured(key)[r] = FromParent(key, r, Configured(key))
  BY DEF EachFromParent
<1> DEFINE own == runs[r].asked
           all == Effective(runs[r])
<1>1. CASE r = 1
  <2>1. runs[1].requested = NoOverrides /\ own = NoOverrides
    BY <1>1 DEF LineHolds
  <2>2. /\ DOMAIN all = {"topicPassThreshold"}
        /\ all["topicPassThreshold"] = defaultTopicPass
    BY <1>1, <2>1 DEF Effective, Over, NoOverrides
  <2>3. key \notin DOMAIN own
    BY <2>1 DEF NoOverrides
  <2>4. QED BY <1>1, <2>2, <2>3 DEF Configured, FromParent
<1>2. CASE r # 1
  <2> DEFINE p == runs[r].parent
             theirs == Effective(runs[p])
  <2>1. p \in DOMAIN runs /\ runs[r].requested = Over(own, theirs)
    BY <1>2 DEF LineHolds, Merge, Inheritance
  <2>2. "topicPassThreshold" \in DOMAIN theirs
    BY DEF Effective, Over
  <2> HIDE DEF theirs, own
  <2>3. /\ DOMAIN all = DOMAIN own \cup DOMAIN theirs
        /\ \A k \in DOMAIN all : all[k] = IF k \in DOMAIN own THEN own[k] ELSE theirs[k]
    BY <2>1, <2>2 DEF Effective, Over
  <2>4. Configured(key)[r] = IF key \in DOMAIN all THEN {all[key]} ELSE {}
    BY DEF Configured
  <2>5. Configured(key)[p] = IF key \in DOMAIN theirs THEN {theirs[key]} ELSE {}
    BY <2>1 DEF Configured, theirs
  <2>6. FromParent(key, r, Configured(key)) =
            IF key \in DOMAIN own THEN {own[key]} ELSE Configured(key)[p]
    BY <1>2 DEF FromParent, own
  <2> HIDE DEF all, p
  <2>7. QED BY <2>3, <2>4, <2>5, <2>6
<1>3. QED BY <1>1, <1>2

LEMMA ConfiguredFromParentNext == LineHolds' => EachFromParent'
BY ConfiguredFromParent, PTL

\* A commit adds one run, whose parent is there, and changes none.
LEMMA LineStays ==
    ASSUME LineInv, LineHolds', Grown, NEW new, new \notin DOMAIN runs,
           DOMAIN runs' = DOMAIN runs \cup {new}, runs'[new].parent \in DOMAIN runs
    PROVE  LineInv'
<1> SUFFICES ASSUME NEW key, NEW value, Solves(key, value)'
             PROVE  value = Configured(key)'
  BY DEF LineInv, OneSolution
<1> DEFINE before == [r \in DOMAIN runs |-> value[r]]
<1>1. /\ 1 \in DOMAIN runs /\ new # 1
      /\ \A r \in DOMAIN runs \ {1} : runs[r].parent \in DOMAIN runs
  BY DEF LineInv, LineHolds
<1>2. /\ value = [r \in DOMAIN runs' |-> FromParent(key, r, value)']
      /\ \A r \in DOMAIN runs' : value[r] = FromParent(key, r, value)'
  BY DEF Solves
<1>3. \A r \in DOMAIN runs : FromParent(key, r, value)' = FromParent(key, r, before)
  BY <1>1 DEF Grown, FromParent
<1>4. before = [r \in DOMAIN runs |-> FromParent(key, r, before)]
  BY <1>2, <1>3
<1>5. before = Configured(key)
  BY <1>4 DEF Solves, LineInv, OneSolution
<1>6. \A r \in DOMAIN runs : value[r] = Configured(key)'[r]
  <2>1. TAKE r \in DOMAIN runs
  <2>2. value[r] = Configured(key)[r]
    BY <1>5
  <2>3. QED BY <2>2 DEF Configured, Grown, Effective
<1>7. value[new] = Configured(key)'[new]
  <2> DEFINE p == runs'[new].parent
  <2>1. Configured(key)'[new] = FromParent(key, new, Configured(key))'
    BY ConfiguredFromParentNext DEF EachFromParent
  <2>2. value[new] = FromParent(key, new, value)'
    BY <1>2
  <2>3. value[p] = Configured(key)'[p]
    BY <1>6
  <2>4. QED BY <1>1, <2>1, <2>2, <2>3 DEF FromParent
<1>8. Configured(key)' = [r \in DOMAIN runs' |-> Configured(key)'[r]]
  BY DEF Configured
<1>9. \A r \in DOMAIN runs' : value[r] = Configured(key)'[r]
  BY <1>6, <1>7
<1> HIDE DEF before
<1>10. value = [r \in DOMAIN runs' |-> value[r]]
  BY <1>2
<1>11. QED BY <1>8, <1>9, <1>10

LEMMA NextLine == Inv /\ LineInv /\ [Next]_vars => LineInv'
<1> SUFFICES ASSUME Inv, LineInv, [Next]_vars PROVE LineInv'
  OBVIOUS
<1>1. CASE UNCHANGED runs
  BY <1>1 DEF LineInv, LineHolds, OneSolution, Solves, Configured, FromParent
<1>2. ASSUME NEW h \in Handlers, Fill(h) PROVE LineInv'
  <2> DEFINE new == [key |-> Key(h), parent |-> ask[h].parent, from |-> ask[h].from,
                     scope |-> ask[h].scope, requested |-> merged[h],
                     asked |-> ask[h].overrides]
  <2>1. /\ ask[h].parent \in DOMAIN runs /\ child[h] \notin DOMAIN runs
        /\ merged[h] = Merge(Inheritance(runs[ask[h].parent]), ask[h].overrides)
    BY <1>2 DEF Fill, Inv, MergedHold, FillsHold
  <2>2. runs' = Over(runs, [r \in {child[h]} |-> new])
    BY <1>2 DEF Fill
  <2>3. /\ new.parent = ask[h].parent /\ new.requested = merged[h]
        /\ new.asked = ask[h].overrides
    OBVIOUS
  <2> HIDE DEF new
  <2>4. /\ DOMAIN runs' = DOMAIN runs \cup {child[h]}
        /\ runs'[child[h]] = new
        /\ \A r \in DOMAIN runs : runs'[r] = runs[r]
    BY <2>1, <2>2 DEF Over
  <2>5. Grown
    BY <2>4 DEF Grown
  <2>6. LineHolds'
    <3>1. ASSUME NEW r \in DOMAIN runs \ {1}
          PROVE  /\ runs'[r].parent \in DOMAIN runs'
                 /\ runs'[r].requested =
                        Merge(Inheritance(runs'[runs'[r].parent]), runs'[r].asked)
      BY <2>4 DEF LineInv, LineHolds
    <3>2. /\ runs'[child[h]].parent \in DOMAIN runs'
          /\ runs'[child[h]].requested =
                 Merge(Inheritance(runs'[runs'[child[h]].parent]), runs'[child[h]].asked)
      BY <2>1, <2>3, <2>4
    <3>3. 1 \in DOMAIN runs' /\ runs'[1] = runs[1]
      BY <2>4 DEF LineInv, LineHolds
    <3>4. QED BY <2>4, <3>1, <3>2, <3>3 DEF LineInv, LineHolds
  <2>7. QED BY <2>1, <2>3, <2>4, <2>5, <2>6, LineStays
<1>3. \/ UNCHANGED runs
      \/ \E h \in Handlers : Fill(h)
  BY DEF Next, vars, Receive, Handle, Fail, Check, CheckRegistry, Insert, Reply,
         Refuse, RegisterVersion
<1>4. QED BY <1>1, <1>2, <1>3

(***************************************************************************)
(* A run is configured by the nearest of its ancestors that was asked for  *)
(* each key (parentConfigOverrides, mergeConfigOverrides), across any      *)
(* number of generations of replays and however their requests overlap.    *)
(***************************************************************************)
THEOREM LinesAreFollowed == Spec => []ConfigsFollowTheLine
<1>1. LineInv => ConfigsFollowTheLine
  <2> SUFFICES ASSUME LineInv, NEW r \in DOMAIN runs, NEW key
               PROVE  Inherited(key)[r] =
                          IF key \in DOMAIN Effective(runs[r])
                          THEN {Effective(runs[r])[key]} ELSE {}
    BY DEF ConfigsFollowTheLine
  <2>1. Solves(key, Configured(key))
    <3>1. \A q \in DOMAIN runs : Configured(key)[q] = FromParent(key, q, Configured(key))
      BY ConfiguredFromParent DEF LineInv, EachFromParent
    <3>2. Configured(key) = [q \in DOMAIN runs |-> Configured(key)[q]]
      BY DEF Configured
    <3>3. QED BY <3>1, <3>2 DEF Solves
  <2>2. Solves(key, Inherited(key))
    <3>1. Inherited(key) = CHOOSE value : Solves(key, value)
      BY DEF Inherited, Solves, FromParent
    <3>2. QED BY <2>1, <3>1
  <2>3. Inherited(key) = Configured(key)
    BY <2>2 DEF LineInv, OneSolution
  <2>4. QED BY <2>3 DEF Configured
<1>2. Spec => []LineInv
  BY LineBegins, NextLine, KeysAndRuns, PTL DEF Spec
<1>3. QED BY <1>1, <1>2, PTL

-------------------------------------------------------------------------------
(* Imports of metrics.                                                     *)

CONSTANTS Pubs, Existing, PlatformOf, PublishedAt, WeightOf, Kept, MaxDay,
          Batches, MaxImports

VARIABLES now, snapshots, percentile, importPhase, began, batch, inserted, todo,
          ranking, ranked, importAnswer, late, stale, rankedAt, importsLeft

Imports == INSTANCE Metrics WITH
    phase <- importPhase, answer <- importAnswer, left <- importsLeft

\* The rows of one group among rs.
OfGroup(g, rs) == {r \in rs : Imports!GroupOf(r) = g}

\* The groups of the rows an import has inserted, custom ones among them.
Touched(h) == {Imports!GroupOf(r) : r \in Imports!Own(h)}

ImportTypes ==
    /\ importPhase \in [Handlers -> {"idle", "row", "rank", "update", "reply"}]
    /\ inserted \in [Handlers -> Nat]
    /\ batch = [h \in Handlers |-> batch[h]]
    /\ began = [h \in Handlers |-> began[h]]
    /\ late = [h \in Handlers |-> late[h]]
    /\ todo = [h \in Handlers |-> todo[h]]
    /\ ranking = [h \in Handlers |-> ranking[h]]
    /\ ranked = [h \in Handlers |-> ranked[h]]

(***************************************************************************)
(* What an import has ranked are recent rows it can see, of groups it has  *)
(* inserted into; the rank of each is its rank among those of its group    *)
(* that the import has ranked.                                             *)
(***************************************************************************)
RankedHolds(h) ==
    \A r \in DOMAIN ranked[h] :
        /\ Imports!GroupOf(r) \in Touched(h)
        /\ r \in Imports!Visible(h) /\ r.at >= began[h] - Kept
        /\ ranked[h][r] =
               Imports!PercentRank(OfGroup(Imports!GroupOf(r), DOMAIN ranked[h]))[r]

\* The rows of a group an import should rank.
Due(h, g) == Imports!Recent(g, Imports!Visible(h), began[h])

\* All rows of the groups it has ranked are ranked, of g perhaps not, unless
\* others have committed some since.
AllButOneDone(h, g) ==
    \A k \in Imports!Done(h) \ (late[h] \cup {g}) : Due(h, k) \subseteq DOMAIN ranked[h]

AllDone(h) ==
    \A k \in Imports!Done(h) \ late[h] : Due(h, k) \subseteq DOMAIN ranked[h]

\* What it is about to write are the ranks of one group, of all of its rows that
\* it has ranked before and perhaps of more.
RankingHolds(h) ==
    \E g \in Touched(h) :
        /\ ranking[h] = Imports!PercentRank(DOMAIN ranking[h])
        /\ DOMAIN ranking[h] \subseteq Due(h, g)
        /\ g \notin todo[h]
        /\ g \in Imports!Groups \ late[h] => Due(h, g) \subseteq DOMAIN ranking[h]
        /\ OfGroup(g, DOMAIN ranked[h]) \subseteq DOMAIN ranking[h]
        /\ AllButOneDone(h, g)

ImportFits(h) ==
    /\ importPhase[h] = "idle" =>
           todo[h] = {} /\ DOMAIN ranked[h] = {} /\ inserted[h] = 0
    /\ todo[h] \subseteq Touched(h)
    /\ RankedHolds(h)
    /\ importPhase[h] = "update" => RankingHolds(h)
    /\ importPhase[h] \in {"row", "rank"} => AllDone(h)

ImportInv ==
    /\ ImportTypes
    /\ \A h \in Handlers : ImportFits(h)
    /\ Imports!RanksFollowTheRows

-------------------------------------------------------------------------------
LEMMA RanksOfRows == ASSUME NEW rs PROVE DOMAIN Imports!PercentRank(rs) = rs
BY DEF Imports!PercentRank

LEMMA ImportsBegin == Imports!Init => ImportInv
<1> SUFFICES ASSUME Imports!Init PROVE ImportInv
  OBVIOUS
<1>1. ImportTypes
  BY DEF Imports!Init, ImportTypes
<1>2. ASSUME NEW h \in Handlers PROVE ImportFits(h)
  <2>1. /\ DOMAIN ranked[h] = {} /\ todo[h] = {} /\ inserted[h] = 0
        /\ importPhase[h] = "idle"
    BY DEF Imports!Init, Imports!NoRanks
  <2>2. QED BY <2>1 DEF ImportFits, RankedHolds
<1>3. Imports!RanksFollowTheRows
  BY DEF Imports!Init, Imports!RanksFollowTheRows, Imports!Recent
<1>4. QED BY <1>1, <1>2, <1>3 DEF ImportInv

\* What an import is doing is left as it is.
ImportWaits(h) ==
    /\ batch'[h] = batch[h] /\ began'[h] = began[h] /\ inserted'[h] = inserted[h]
    /\ todo'[h] = todo[h] /\ ranking'[h] = ranking[h] /\ ranked'[h] = ranked[h]
    /\ importPhase'[h] = importPhase[h]

(***************************************************************************)
(* An import that others overtake sees more rows and has ranked the same:  *)
(* either the new rows are of groups it has still to rank, or it is late.  *)
(***************************************************************************)
LEMMA ImportStays ==
    ASSUME NEW h \in Handlers, ImportFits(h), ImportWaits(h),
           snapshots \subseteq snapshots', late[h] \subseteq late'[h],
           \A r \in snapshots' \ snapshots :
               Imports!GroupOf(r) \notin Imports!Done(h) \ late'[h]
    PROVE  ImportFits(h)'
<1>1. Imports!Own(h)' = Imports!Own(h)
  BY DEF Imports!Own, ImportWaits
<1>2. /\ Touched(h)' = Touched(h) /\ Imports!Done(h)' = Imports!Done(h)
      /\ Imports!Visible(h) \subseteq Imports!Visible(h)'
  BY <1>1 DEF Touched, Imports!Visible, Imports!Done, Imports!Touched, ImportWaits,
              Imports!GroupOf, Imports!Groups
<1>3. RankedHolds(h)'
  BY <1>2 DEF ImportFits, RankedHolds, ImportWaits
<1>4. \A g : Due(h, g) \subseteq Due(h, g)'
  BY <1>2 DEF Due, Imports!Recent, ImportWaits
<1>5. ASSUME NEW g \in Imports!Done(h) \ late'[h] PROVE Due(h, g)' = Due(h, g)
  <2>1. \A r \in Imports!Visible(h)' : Imports!GroupOf(r) = g => r \in Imports!Visible(h)
    BY <1>1, <1>5 DEF Imports!Visible
  <2>2. QED BY <1>4, <2>1 DEF Due, Imports!Recent, ImportWaits
<1>6. importPhase'[h] = "update" => RankingHolds(h)'
  <2> SUFFICES ASSUME importPhase[h] = "update" PROVE RankingHolds(h)'
    BY DEF ImportWaits
  <2>1. PICK g \in Touched(h) :
            /\ ranking[h] = Imports!PercentRank(DOMAIN ranking[h])
            /\ DOMAIN ranking[h] \subseteq Due(h, g)
            /\ g \notin todo[h]
            /\ g \in Imports!Groups \ late[h] => Due(h, g) \subseteq DOMAIN ranking[h]
            /\ OfGroup(g, DOMAIN ranked[h]) \subseteq DOMAIN ranking[h]
            /\ AllButOneDone(h, g)
    BY DEF ImportFits, RankingHolds
  <2>2. g \in Imports!Groups => g \in Imports!Done(h)
    BY <2>1 DEF Touched, Imports!Done, Imports!Touched
  <2>3. g \in Imports!Groups \ late'[h] => Due(h, g)' \subseteq DOMAIN ranking[h]
    BY <1>5, <2>1, <2>2
  <2>4. AllButOneDone(h, g)'
    BY <1>2, <1>5, <2>1 DEF AllButOneDone, ImportWaits
  <2>5. ranking'[h] = Imports!PercentRank(DOMAIN ranking'[h])
    BY <2>1 DEF ImportWaits
  <2>6. OfGroup(g, DOMAIN ranked'[h]) \subseteq DOMAIN ranking'[h]
    BY <2>1 DEF ImportWaits
  <2>7. DOMAIN ranking'[h] \subseteq Due(h, g)'
    BY <1>4, <2>1 DEF ImportWaits
  <2>8. QED
    BY <1>2, <2>1, <2>3, <2>4, <2>5, <2>6, <2>7
       DEF RankingHolds, ImportWaits, OfGroup, Imports!Groups, Imports!GroupOf
<1>7. importPhase'[h] \in {"row", "rank"} => AllDone(h)'
  BY <1>2, <1>5 DEF ImportFits, AllDone, ImportWaits
<1>8. QED BY <1>2, <1>3, <1>6, <1>7 DEF ImportFits, ImportWaits

\* An import that is over holds nothing.
LEMMA OverIsFine ==
    ASSUME ImportTypes, NEW h \in Handlers, Imports!EndTransaction(h),
           late' = [k \in Handlers |-> late'[k]],
           NEW next \in {"idle", "reply"},
           importPhase' = [importPhase EXCEPT ![h] = next]
    PROVE  ImportTypes' /\ ImportFits(h)'
<1>1. ImportTypes'
  BY DEF ImportTypes, Imports!EndTransaction
<1>2. /\ DOMAIN ranked'[h] = {} /\ todo'[h] = {} /\ inserted'[h] = 0
      /\ importPhase'[h] \notin {"row", "rank", "update"}
  BY DEF ImportTypes, Imports!EndTransaction, Imports!NoRanks
<1>3. ImportFits(h)'
  BY <1>2 DEF ImportFits, RankedHolds
<1>4. QED BY <1>1, <1>3

LEMMA RanksStay ==
    ASSUME Imports!RanksFollowTheRows,
           UNCHANGED <<snapshots, percentile, stale, rankedAt>>
    PROVE  Imports!RanksFollowTheRows'
<1>1. \A g, t : Imports!Recent(g, snapshots, t)' = Imports!Recent(g, snapshots, t)
  BY DEF Imports!Recent
<1>2. ASSUME NEW g, NEW t
      PROVE  Imports!Ranks(g, snapshots, t)' = Imports!Ranks(g, snapshots, t)
  BY <1>1 DEF Imports!Ranks, Imports!PercentRank
<1>3. QED BY <1>1, <1>2 DEF Imports!RanksFollowTheRows

\* A step that changes one import only and none of the tables.
LEMMA OneImportKeeps ==
    ASSUME ImportInv, NEW h \in Handlers, ImportTypes', ImportFits(h)',
           UNCHANGED <<snapshots, percentile, stale, rankedAt>>,
           \A k \in Handlers \ {h} : ImportWaits(k) /\ late'[k] = late[k]
    PROVE  ImportInv'
<1>1. \A k \in Handlers \ {h} : ImportFits(k)'
  BY ImportStays DEF ImportInv
<1>2. Imports!RanksFollowTheRows'
  BY RanksStay DEF ImportInv
<1>3. QED BY <1>1, <1>2 DEF ImportInv

LEMMA RefusedImportKeeps ==
    ASSUME ImportInv, NEW h \in Handlers, NEW code, Imports!Refuse(h, code)
    PROVE  ImportInv'
<1>1. /\ UNCHANGED <<snapshots, percentile, stale, rankedAt>>
      /\ late' = [k \in Handlers |-> late'[k]]
      /\ \A k \in Handlers \ {h} : ImportWaits(k) /\ late'[k] = late[k]
  BY DEF Imports!Refuse, Imports!Answer, Imports!EndTransaction, Imports!tables,
         Imports!NotLate, ImportInv, ImportTypes, ImportWaits
<1>2. ImportTypes' /\ ImportFits(h)'
  BY <1>1, OverIsFine DEF Imports!Refuse, Imports!Answer, ImportInv
<1>3. QED BY <1>1, <1>2, OneImportKeeps

LEMMA ImportReceiveKeeps ==
    ASSUME ImportInv, NEW h \in Handlers, Imports!Receive(h)
    PROVE  ImportInv'
<1>1. PICK b \in Batches : batch' = [batch EXCEPT ![h] = b]
  BY DEF Imports!Receive
<1>2. /\ importPhase' = [importPhase EXCEPT ![h] = "row"]
      /\ began' = [began EXCEPT ![h] = now]
      /\ UNCHANGED <<snapshots, percentile, stale, rankedAt>>
      /\ UNCHANGED <<inserted, todo, ranking, ranked, late>>
  BY DEF Imports!Receive, Imports!tables
<1>3. ImportTypes'
  BY <1>1, <1>2 DEF ImportInv, ImportTypes
<1>4. /\ importPhase'[h] # "update" /\ importPhase'[h] # "idle"
      /\ DOMAIN ranked'[h] = {} /\ todo'[h] = {} /\ inserted'[h] = 0
  BY <1>2 DEF ImportInv, ImportTypes, ImportFits, Imports!Receive
<1>5. Imports!Done(h)' = {}
  <2>1. Imports!Own(h)' = {}
    BY <1>4 DEF Imports!Own
  <2>2. QED BY <2>1 DEF Imports!Done, Imports!Touched
<1>6. ImportFits(h)'
  BY <1>4, <1>5 DEF ImportFits, RankedHolds, AllDone
<1>7. \A k \in Handlers \ {h} : ImportWaits(k) /\ late'[k] = late[k]
  BY <1>1, <1>2 DEF ImportInv, ImportTypes, ImportWaits
<1>8. QED BY <1>2, <1>3, <1>6, <1>7, OneImportKeeps

LEMMA InsertRowKeeps ==
    ASSUME ImportInv, NEW h \in Handlers, Imports!InsertRow(h)
    PROVE  ImportInv'
<1> DEFINE r == Imports!Row(h)
<1>1. CASE \E code : Imports!Refuse(h, code)
  BY <1>1, RefusedImportKeeps
<1>2. CASE /\ inserted' = [inserted EXCEPT ![h] = @ + 1]
           /\ todo' = [todo EXCEPT ![h] =
                          IF r.window = "custom" THEN @
                          ELSE @ \cup {Imports!GroupOf(r)}]
           /\ importPhase' = [importPhase EXCEPT ![h] =
                                 IF inserted[h] + 1 = Len(batch[h])
                                 THEN "rank" ELSE "row"]
           /\ UNCHANGED <<Imports!tables, began, batch, ranking, ranked,
                          importAnswer, late>>
  <2>1. UNCHANGED <<snapshots, percentile, stale, rankedAt, began, batch,
                    ranking, ranked, late>>
    BY <1>2 DEF Imports!tables
  <2>2. ImportTypes'
    <3>1. inserted' \in [Handlers -> Nat]
      BY <1>2 DEF ImportInv, ImportTypes
    <3>2. importPhase' \in [Handlers -> {"idle", "row", "rank", "update", "reply"}]
      BY <1>2 DEF ImportInv, ImportTypes
    <3>3. todo' = [k \in Handlers |-> todo'[k]]
      BY <1>2 DEF ImportInv, ImportTypes
    <3>4. QED BY <2>1, <3>1, <3>2, <3>3 DEF ImportInv, ImportTypes
  <2>3. inserted[h] \in Nat /\ inserted'[h] = inserted[h] + 1
    BY <1>2 DEF ImportInv, ImportTypes
  <2>4. Imports!Own(h)' = Imports!Own(h) \cup {r}
    <3>1. 1..(inserted[h] + 1) = (1..inserted[h]) \cup {inserted[h] + 1}
      BY <2>3
    <3>2. Imports!Own(h)' = {batch[h][i] : i \in 1..(inserted[h] + 1)}
      BY <2>1, <2>3 DEF Imports!Own
    <3>3. QED BY <3>1, <3>2 DEF Imports!Own, Imports!Row
  <2>5. /\ todo[h] \subseteq todo'[h]
        /\ Imports!GroupOf(r) \in Imports!Groups => Imports!GroupOf(r) \in todo'[h]
        /\ todo'[h] \subseteq todo[h] \cup {Imports!GroupOf(r)}
    <3>1. todo'[h] = IF r.window = "custom" THEN todo[h]
                     ELSE todo[h] \cup {Imports!GroupOf(r)}
      BY <1>2 DEF ImportInv, ImportTypes
    <3>2. Imports!GroupOf(r) \in Imports!Groups => r.window # "custom"
      BY DEF Imports!GroupOf, Imports!Groups
    <3>3. QED BY <3>1, <3>2
  <2> HIDE DEF r
  <2>6. /\ Touched(h) \subseteq Touched(h)' /\ Imports!GroupOf(r) \in Touched(h)'
        /\ Imports!Visible(h) \subseteq Imports!Visible(h)'
    BY <2>1, <2>4 DEF Touched, Imports!Visible
  <2>7. ImportFits(h)
    BY DEF ImportInv
  <2>8. todo'[h] \subseteq Touched(h)'
    BY <2>5, <2>6, <2>7 DEF ImportFits
  <2>9. RankedHolds(h)'
    BY <2>1, <2>6, <2>7 DEF ImportFits, RankedHolds
  <2>10. AllDone(h)'
    <3> SUFFICES ASSUME NEW g \in Imports!Done(h)' \ late[h]
                 PROVE  Due(h, g)' \subseteq DOMAIN ranked[h]
      BY <2>1 DEF AllDone
    <3>1. g \in Imports!Groups /\ g \notin todo'[h]
      BY DEF Imports!Done, Imports!Touched, Imports!Groups
    <3>2. g # Imports!GroupOf(r) /\ g \notin todo[h]
      BY <2>5, <3>1
    <3>3. g \in Imports!Done(h)
      BY <2>4, <3>1, <3>2
         DEF Imports!Done, Imports!Touched, Imports!Groups, Imports!GroupOf
    <3>4. Due(h, g)' \subseteq Due(h, g)
      BY <2>1, <2>4, <3>2 DEF Due, Imports!Recent, Imports!Visible
    <3>5. QED BY <2>7, <3>3, <3>4 DEF ImportFits, AllDone, Imports!InsertRow
  <2>11. importPhase'[h] \in {"rank", "row"}
    BY <1>2 DEF ImportInv, ImportTypes
  <2>12. ImportFits(h)'
    BY <2>8, <2>9, <2>10, <2>11 DEF ImportFits
  <2>13. \A k \in Handlers \ {h} : ImportWaits(k) /\ late'[k] = late[k]
    BY <1>2, <2>1 DEF ImportInv, ImportTypes, ImportWaits
  <2>14. QED BY <2>1, <2>2, <2>12, <2>13, OneImportKeeps
<1>3. QED BY <1>1, <1>2 DEF Imports!InsertRow

LEMMA RankKeeps ==
    ASSUME ImportInv, NEW h \in Handlers, Imports!Rank(h)
    PROVE  ImportInv'
<1>1. PICK g \in todo[h] :
          /\ todo' = [todo EXCEPT ![h] = @ \ {g}]
          /\ ranking' = [ranking EXCEPT ![h] =
                            Imports!Ranks(g, Imports!Visible(h), began[h])]
  BY DEF Imports!Rank
<1>2. /\ importPhase' = [importPhase EXCEPT ![h] = "update"]
      /\ UNCHANGED <<snapshots, percentile, stale, rankedAt, began, batch,
                     inserted, ranked, late>>
  BY DEF Imports!Rank, Imports!tables
<1>3. ImportTypes'
  BY <1>1, <1>2 DEF ImportInv, ImportTypes
<1>4. ImportFits(h) /\ g \in Touched(h) /\ AllDone(h)
  BY DEF ImportInv, ImportFits, Imports!Rank
<1>5. /\ Touched(h)' = Touched(h) /\ Imports!Visible(h)' = Imports!Visible(h)
      /\ Imports!Touched(h)' = Imports!Touched(h)
  BY <1>2 DEF Touched, Imports!Touched, Imports!Visible, Imports!Own,
              Imports!GroupOf, Imports!Groups
<1>6. \A k : Due(h, k)' = Due(h, k)
  BY <1>2, <1>5 DEF Due, Imports!Recent
<1>7. ranking'[h] = Imports!PercentRank(Due(h, g)) /\ DOMAIN ranking'[h] = Due(h, g)
  <2>1. ranking'[h] = Imports!PercentRank(Due(h, g))
    BY <1>1 DEF ImportInv, ImportTypes, Imports!Ranks, Due
  <2>2. QED BY <2>1, RanksOfRows
<1>8. OfGroup(g, DOMAIN ranked[h]) \subseteq Due(h, g)
  BY <1>4 DEF ImportFits, RankedHolds, OfGroup, Due, Imports!Recent
<1>9. g \notin todo'[h] /\ todo'[h] = todo[h] \ {g}
  BY <1>1 DEF ImportInv, ImportTypes
<1>10. RankingHolds(h)'
  <2>1. /\ ranked'[h] = ranked[h]
        /\ OfGroup(g, DOMAIN ranked[h])' = OfGroup(g, DOMAIN ranked[h])
    BY <1>2 DEF OfGroup
  <2>2. AllButOneDone(h, g)'
    <3>1. \A k \in Imports!Done(h)' \ {g} : k \in Imports!Done(h)
      BY <1>5, <1>9 DEF Imports!Done
    <3>2. QED BY <1>2, <1>4, <1>6, <3>1 DEF AllButOneDone, AllDone
  <2>3. QED
    BY <1>2, <1>4, <1>5, <1>6, <1>7, <1>8, <1>9, <2>1, <2>2
       DEF RankingHolds, Imports!Groups
<1>11. RankedHolds(h)'
  BY <1>2, <1>4, <1>5 DEF ImportFits, RankedHolds
<1>12. todo'[h] \subseteq Touched(h)' /\ importPhase'[h] = "update"
  BY <1>2, <1>4, <1>5, <1>9 DEF ImportInv, ImportTypes, ImportFits
<1>13. ImportFits(h)'
  BY <1>10, <1>11, <1>12 DEF ImportFits
<1>14. \A k \in Handlers \ {h} : ImportWaits(k) /\ late'[k] = late[k]
  BY <1>1, <1>2 DEF ImportInv, ImportTypes, ImportWaits
<1>15. QED BY <1>2, <1>3, <1>13, <1>14, OneImportKeeps

LEMMA UpdateRanksKeeps ==
    ASSUME ImportInv, NEW h \in Handlers, Imports!UpdateRanks(h)
    PROVE  ImportInv'
<1> DEFINE old == DOMAIN ranked[h]
           new == DOMAIN ranking[h]
<1>1. /\ importPhase' = [importPhase EXCEPT ![h] = "rank"]
      /\ ranking' = [ranking EXCEPT ![h] = Imports!NoRanks]
      /\ UNCHANGED <<snapshots, percentile, stale, rankedAt, began, batch,
                     inserted, todo, late>>
  BY DEF Imports!UpdateRanks, Imports!tables
<1>2. ranked' = [ranked EXCEPT ![h] =
                    [r \in old \cup new |->
                        IF r \in new THEN ranking[h][r] ELSE ranked[h][r]]]
  BY DEF Imports!UpdateRanks, ImportInv, ImportTypes
<1>3. ImportTypes'
  BY <1>1, <1>2 DEF ImportInv, ImportTypes
<1>4. ImportFits(h) /\ RankedHolds(h) /\ RankingHolds(h)
  BY DEF ImportInv, ImportFits, Imports!UpdateRanks
<1>5. PICK g \in Touched(h) :
          /\ ranking[h] = Imports!PercentRank(new)
          /\ new \subseteq Due(h, g)
          /\ g \notin todo[h]
          /\ g \in Imports!Groups \ late[h] => Due(h, g) \subseteq new
          /\ OfGroup(g, old) \subseteq new
          /\ AllButOneDone(h, g)
  BY <1>4 DEF RankingHolds
<1>6. /\ Touched(h)' = Touched(h) /\ Imports!Visible(h)' = Imports!Visible(h)
      /\ Imports!Done(h)' = Imports!Done(h)
  BY <1>1 DEF Touched, Imports!Done, Imports!Touched, Imports!Visible, Imports!Own,
              Imports!GroupOf, Imports!Groups
<1>7. /\ DOMAIN ranked'[h] = old \cup new
      /\ \A r \in old \cup new :
             ranked'[h][r] = IF r \in new THEN ranking[h][r] ELSE ranked[h][r]
  BY <1>2 DEF ImportInv, ImportTypes
<1>8. \A r \in new : /\ Imports!GroupOf(r) = g /\ r.at >= began[h] - Kept
                      /\ r \in Imports!Visible(h)
  BY <1>5 DEF Due, Imports!Recent
<1>9. AllDone(h)'
  <2>1. \A k : Due(h, k)' = Due(h, k)
    BY <1>1, <1>6 DEF Due, Imports!Recent
  <2>2. ASSUME NEW k \in Imports!Done(h) \ late[h] PROVE Due(h, k) \subseteq old \cup new
    <3>1. CASE k = g
      BY <1>5, <2>2, <3>1 DEF Imports!Done, Imports!Touched
    <3>2. CASE k # g
      BY <1>5, <2>2, <3>2 DEF AllButOneDone
    <3>3. QED BY <3>1, <3>2
  <2>3. QED BY <1>1, <1>6, <1>7, <2>1, <2>2 DEF AllDone
<1> HIDE DEF old, new
<1>10. ASSUME NEW r \in old \cup new
       PROVE  /\ Imports!GroupOf(r) \in Touched(h)
              /\ r \in Imports!Visible(h) /\ r.at >= began[h] - Kept
              /\ ranked'[h][r] =
                     Imports!PercentRank(OfGroup(Imports!GroupOf(r), old \cup new))[r]
  <2>1. CASE r \in new
    <3>1. OfGroup(g, old \cup new) = new
      BY <1>5, <1>8 DEF OfGroup
    <3>2. QED BY <1>5, <1>7, <1>8, <2>1, <3>1
  <2>2. CASE r \notin new
    <3>1. r \in old /\ Imports!GroupOf(r) # g
      BY <1>5, <1>10, <2>2 DEF OfGroup
    <3>2. OfGroup(Imports!GroupOf(r), old \cup new) = OfGroup(Imports!GroupOf(r), old)
      BY <1>8, <3>1 DEF OfGroup
    <3>3. QED BY <1>4, <1>7, <2>2, <3>1, <3>2 DEF RankedHolds, old
  <2>3. QED BY <2>1, <2>2
<1>11. RankedHolds(h)'
  <2>1. \A k, rs : OfGroup(k, rs)' = OfGroup(k, rs)
    OBVIOUS
  <2>2. QED BY <1>1, <1>6, <1>7, <1>10 DEF RankedHolds, OfGroup
<1>12. ImportFits(h)'
  BY <1>1, <1>4, <1>6, <1>9, <1>11 DEF ImportInv, ImportTypes, ImportFits
<1>13. \A k \in Handlers \ {h} : ImportWaits(k) /\ late'[k] = late[k]
  BY <1>1, <1>2 DEF ImportInv, ImportTypes, ImportWaits
<1>14. QED BY <1>1, <1>3, <1>12, <1>13, OneImportKeeps

(***************************************************************************)
(* A commit leaves the groups alone it has no row of.  Of the others it    *)
(* has ranked all the rows there now are, or they are stale.               *)
(***************************************************************************)
LEMMA CommittedRanks ==
    ASSUME ImportInv, NEW h \in Handlers, Imports!Commit(h)
    PROVE  Imports!RanksFollowTheRows'
<1>1. /\ snapshots' = Imports!Visible(h)
      /\ stale' = (stale \ Imports!Touched(h)) \cup late[h]
      /\ rankedAt' = [g \in Imports!Groups |->
                         IF g \in Imports!Touched(h) THEN began[h] ELSE rankedAt[g]]
      /\ percentile' = [r \in DOMAIN percentile \cup DOMAIN ranked[h] |->
                           IF r \in DOMAIN ranked[h]
                           THEN ranked[h][r] ELSE percentile[r]]
      /\ todo[h] = {}
  BY DEF Imports!Commit
<1>2. RankedHolds(h) /\ AllDone(h) /\ Imports!RanksFollowTheRows
  BY DEF ImportInv, ImportFits, Imports!Commit
<1> SUFFICES ASSUME NEW g \in Imports!Groups \ stale',
                    NEW r \in Imports!Recent(g, snapshots', rankedAt'[g])
             PROVE  /\ r \in DOMAIN percentile'
                    /\ percentile'[r] = Imports!Ranks(g, snapshots', rankedAt'[g])[r]
  BY DEF Imports!RanksFollowTheRows, Imports!Groups, Imports!Ranks, Imports!Recent,
         Imports!PercentRank, Imports!GroupOf, Imports!Raw
<1>3. Imports!GroupOf(r) = g /\ r \in Imports!Visible(h)
  BY <1>1 DEF Imports!Recent
<1>4. CASE g \in Imports!Touched(h)
  <2>1. rankedAt'[g] = began[h] /\ g \in Imports!Done(h) \ late[h]
    BY <1>1, <1>4 DEF Imports!Done
  <2>2. Due(h, g) \subseteq DOMAIN ranked[h]
    BY <1>2, <2>1 DEF AllDone
  <2>3. OfGroup(g, DOMAIN ranked[h]) = Due(h, g)
    BY <1>2, <2>2 DEF RankedHolds, OfGroup, Due, Imports!Recent
  <2>4. r \in DOMAIN ranked[h]
    BY <1>1, <2>1, <2>2 DEF Due
  <2>5. ranked[h][r] = Imports!PercentRank(Due(h, g))[r]
    BY <1>2, <1>3, <2>3, <2>4 DEF RankedHolds
  <2>6. QED BY <1>1, <2>1, <2>4, <2>5 DEF Imports!Ranks, Due
<1>5. CASE g \notin Imports!Touched(h)
  <2>1. g \notin Touched(h) /\ rankedAt'[g] = rankedAt[g]
    BY <1>1, <1>5 DEF Imports!Touched, Touched
  <2>2. Imports!Recent(g, Imports!Visible(h), rankedAt[g])
            = Imports!Recent(g, snapshots, rankedAt[g])
    BY <2>1 DEF Imports!Recent, Imports!Visible, Touched
  <2>3. r \notin DOMAIN ranked[h]
    BY <1>2, <1>3, <2>1 DEF RankedHolds
  <2>4. g \in Imports!Groups \ stale
    BY <1>1, <1>5
  <2>5. /\ r \in DOMAIN percentile
        /\ percentile[r] = Imports!Ranks(g, snapshots, rankedAt[g])[r]
    BY <1>1, <1>2, <2>1, <2>2, <2>4 DEF Imports!RanksFollowTheRows
  <2>6. QED BY <1>1, <2>1, <2>2, <2>3, <2>5 DEF Imports!Ranks
<1>6. QED BY <1>4, <1>5

LEMMA CommitKeeps ==
    ASSUME ImportInv, NEW h \in Handlers, Imports!Commit(h)
    PROVE  ImportInv'
<1>1. /\ Imports!EndTransaction(h)
      /\ importPhase' = [importPhase EXCEPT ![h] = "reply"]
      /\ snapshots' = snapshots \cup Imports!Own(h)
      /\ late' = [g \in Handlers |->
                     IF g = h THEN {}
                     ELSE late[g] \cup (Imports!Done(g) \cap Imports!Touched(h))]
  BY DEF Imports!Commit, Imports!Visible
<1>2. ImportTypes' /\ ImportFits(h)'
  BY <1>1, OverIsFine DEF ImportInv
<1>3. ASSUME NEW k \in Handlers \ {h} PROVE ImportFits(k)'
  <2>1. ImportWaits(k)
    BY <1>1, <1>3 DEF Imports!EndTransaction, ImportInv, ImportTypes, ImportWaits
  <2>2. late'[k] = late[k] \cup (Imports!Done(k) \cap Imports!Touched(h))
    BY <1>1, <1>3
  <2>3. ASSUME NEW r \in snapshots' \ snapshots
        PROVE  Imports!GroupOf(r) \notin Imports!Done(k) \ late'[k]
    <3>1. r \in Imports!Own(h)
      BY <1>1, <2>3
    <3>2. Imports!GroupOf(r) \in Imports!Groups =>
              Imports!GroupOf(r) \in Imports!Touched(h)
      BY <3>1 DEF Imports!Touched
    <3>3. QED BY <2>2, <3>2 DEF Imports!Done, Imports!Touched
  <2>4. QED BY <1>1, <1>3, <2>1, <2>2, <2>3, ImportStays DEF ImportInv
<1>4. QED BY <1>2, <1>3, CommittedRanks DEF ImportInv

LEMMA ImportsNext == ImportInv /\ [Imports!Next]_(Imports!vars) => ImportInv'
<1> SUFFICES ASSUME ImportInv, [Imports!Next]_(Imports!vars) PROVE ImportInv'
  OBVIOUS
<1>1. CASE UNCHANGED Imports!vars \/ Imports!PassDay
  <2>1. /\ UNCHANGED <<snapshots, percentile, importPhase, began, batch, inserted>>
        /\ UNCHANGED <<todo, ranking, ranked, late, stale, rankedAt>>
    BY <1>1 DEF Imports!vars, Imports!PassDay, Imports!tables
  <2>2. ImportTypes'
    BY <2>1 DEF ImportInv, ImportTypes
  <2>3. ASSUME NEW h \in Handlers PROVE ImportFits(h)'
    <3>1. ImportWaits(h) /\ late'[h] = late[h] /\ snapshots' = snapshots
      BY <2>1 DEF ImportWaits
    <3>2. QED BY <3>1, ImportStays DEF ImportInv
  <2>4. Imports!RanksFollowTheRows'
    <3>1. /\ UNCHANGED <<snapshots, percentile, stale, rankedAt>>
          /\ Imports!RanksFollowTheRows
      BY <2>1 DEF ImportInv
    <3>2. QED BY <3>1, RanksStay
  <2>5. QED BY <2>2, <2>3, <2>4 DEF ImportInv
<1>2. ASSUME NEW h \in Handlers,
             Imports!Receive(h) \/ Imports!Handle(h) \/ Imports!Fail(h)
      PROVE  ImportInv'
  <2>1. CASE Imports!Receive(h)
    BY <2>1, ImportReceiveKeeps
  <2>2. CASE Imports!InsertRow(h)
    BY <2>2, InsertRowKeeps
  <2>3. CASE Imports!Rank(h)
    BY <2>3, RankKeeps
  <2>4. CASE Imports!UpdateRanks(h)
    BY <2>4, UpdateRanksKeeps
  <2>5. CASE Imports!Commit(h)
    BY <2>5, CommitKeeps
  <2>6. CASE Imports!Reply(h) \/ Imports!DeadlockVictim(h) \/ Imports!Fail(h)
    BY <2>6, RefusedImportKeeps DEF Imports!Reply, Imports!DeadlockVictim, Imports!Fail
  <2>7. QED BY <1>2, <2>1, <2>2, <2>3, <2>4, <2>5, <2>6 DEF Imports!Handle
<1>3. QED BY <1>1, <1>2 DEF Imports!Next

(***************************************************************************)
(* Whatever imports run side by side, fail or are ended by a deadlock, and *)
(* however many days have passed since: the percentiles of a group are the *)
(* ranks of its rows that were recent when the import that committed the   *)
(* group last began, unless another import of the group committed after    *)
(* that one had ranked it (RecomputePerformancePercentiles).               *)
(***************************************************************************)
THEOREM RanksAreKept == Imports!Spec => []Imports!RanksFollowTheRows
<1>1. Imports!Spec => []ImportInv
  BY ImportsBegin, ImportsNext, PTL DEF Imports!Spec
<1>2. ImportInv => Imports!RanksFollowTheRows
  BY DEF ImportInv
<1>3. QED BY <1>1, <1>2, PTL
==============================================================================
