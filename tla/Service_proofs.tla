---------------------------- MODULE Service_proofs ----------------------------
(***************************************************************************)
(* Theorems about two parts of the service that share no state: the        *)
(* history of a run and its readers (EventStream), for any writers,        *)
(* readers and numbers of events and of lost connections, and the settings *)
(* of the scheduler (SchedulerSettings), for any handlers, requests and    *)
(* known time zones.                                                       *)
(***************************************************************************)
EXTENDS EventStream, FiniteSetTheorems, SequenceTheorems, TLAPS

CONSTANTS Handlers, Patches, KnownZones, MaxRequests

VARIABLES stored, phase, patch, current, fresh, left

Settings == INSTANCE SchedulerSettings

-------------------------------------------------------------------------------
(* The history of a run and its readers.                                   *)

\* Every place in the order of a set is taken by one of its members.
Ranked(S) ==
    \A i \in 1..Cardinality(S) :
        \E e \in S : Cardinality({d \in S : d < e}) = i - 1

\* What is listed comes in order.
Ascending(s) == \A i, j \in 1..Len(s) : i < j => s[i] < s[j]

\* What a reader has received and what is on its way to it.
Line(r) == got[r] \o wire[r]

TypeOK ==
    /\ last \in Nat
    /\ committed \in SUBSET (1..last)
    /\ open \in [Writers -> SUBSET (1..last)]
    /\ connected \in [Readers -> BOOLEAN]
    /\ after \in [Readers -> Nat]
    /\ wire \in [Readers -> Seq(Nat)]
    /\ got \in [Readers -> Seq(Nat)]

\* Sequences are handed out one by one, so that any of them can be listed.
Listable == \A S \in SUBSET (1..last) : Ranked(S)

(***************************************************************************)
(* A line has committed events in order.  The cursor of a stream is at its *)
(* end or behind it, and without a stream nothing is on its way.           *)
(***************************************************************************)
LineFits(r) ==
    /\ Ascending(Line(r))
    /\ \A i \in 1..Len(Line(r)) : Line(r)[i] \in committed
    /\ connected[r] => \A i \in 1..Len(Line(r)) : Line(r)[i] <= after[r]
    /\ ~connected[r] => wire[r] = <<>>

Inv == TypeOK /\ Listable /\ \A r \in Readers : LineFits(r)

-------------------------------------------------------------------------------
\* With one more sequence, every set can still be listed: the new one is last.
LEMMA OneMoreIsListed ==
    ASSUME NEW n \in Nat, \A S \in SUBSET (1..n) : Ranked(S)
    PROVE  \A S \in SUBSET (1..(n + 1)) : Ranked(S)
<1> SUFFICES ASSUME NEW S \in SUBSET (1..(n + 1)), NEW i \in 1..Cardinality(S)
             PROVE  \E e \in S : Cardinality({d \in S : d < e}) = i - 1
  BY DEF Ranked
<1> DEFINE T == S \ {n + 1}
<1>1. IsFiniteSet(S) /\ IsFiniteSet(T) /\ T \in SUBSET (1..n)
  <2>1. IsFiniteSet(1..(n + 1))
    BY FS_Interval
  <2>2. IsFiniteSet(S)
    BY <2>1, FS_Subset
  <2>3. QED BY <2>2, FS_Subset
<1>2. CASE n + 1 \notin S
  <2>1. S \in SUBSET (1..n)
    BY <1>2
  <2>2. QED BY <2>1 DEF Ranked
<1>3. CASE n + 1 \in S
  <2>1. /\ Cardinality(T) = Cardinality(S) - 1
        /\ Cardinality(S) \in Nat /\ Cardinality(T) \in Nat
    BY <1>1, <1>3, FS_RemoveElement, FS_CardinalityType
  <2>2. CASE i = Cardinality(S)
    <3>1. \A d \in S : d < n + 1 <=> d # n + 1
      OBVIOUS
    <3>2. {d \in S : d < n + 1} = T
      BY <3>1
    <3>3. QED BY <1>3, <2>1, <2>2, <3>2
  <2>3. CASE i # Cardinality(S)
    <3>1. i \in 1..Cardinality(T)
      BY <2>1, <2>3
    <3>2. PICK e \in T : Cardinality({d \in T : d < e}) = i - 1
      BY <1>1, <3>1 DEF Ranked
    <3>3. {d \in S : d < e} = {d \in T : d < e}
      BY <1>1
    <3>4. QED BY <3>2, <3>3
  <2>4. QED BY <2>2, <2>3
<1>4. QED BY <1>2, <1>3

\* Rows come in order, and they are rows of the table.
LEMMA RowsInOrder ==
    ASSUME NEW n \in Nat, NEW S \in SUBSET (1..n), Ranked(S)
    PROVE  /\ InOrder(S) \in Seq(S)
           /\ Ascending(InOrder(S))
<1> DEFINE rows == InOrder(S)
           before(e) == {d \in S : d < e}
<1>1. IsFiniteSet(S) /\ Cardinality(S) \in Nat
  <2>1. IsFiniteSet(1..n)
    BY FS_Interval
  <2>2. QED BY <2>1, FS_Subset, FS_CardinalityType
<1>2. \A i \in 1..Cardinality(S) : rows[i] \in S /\ Cardinality(before(rows[i])) = i - 1
  <2>1. TAKE i \in 1..Cardinality(S)
  <2>2. \E e \in S : Cardinality(before(e)) = i - 1
    BY DEF Ranked
  <2>3. rows[i] = CHOOSE e \in S : Cardinality(before(e)) = i - 1
    BY DEF InOrder
  <2>4. QED BY <2>2, <2>3
<1>3. DOMAIN rows = 1..Cardinality(S)
  BY DEF InOrder
<1>4. rows \in [1..Cardinality(S) -> S]
  <2>1. \A i \in 1..Cardinality(S) :
            (CHOOSE e \in S : Cardinality({d \in S : d < e}) = i - 1) \in S
    <3>1. TAKE i \in 1..Cardinality(S)
    <3>2. \E e \in S : Cardinality({d \in S : d < e}) = i - 1
      BY DEF Ranked
    <3>3. QED BY <3>2
  <2>2. QED BY <2>1 DEF InOrder
<1> HIDE DEF rows
<1>5. rows \in Seq(S) /\ Len(rows) = Cardinality(S)
  <2>1. rows \in Seq(S)
    BY <1>1, <1>4, SeqDef
  <2>2. 1..Len(rows) = 1..Cardinality(S) /\ Len(rows) \in Nat
    BY <1>3, <2>1
  <2>3. QED BY <1>1, <2>1, <2>2
<1>6. ASSUME NEW i \in 1..Len(rows), NEW j \in 1..Len(rows), i < j
      PROVE  rows[i] < rows[j]
  <2>1. i \in 1..Cardinality(S) /\ j \in 1..Cardinality(S)
    BY <1>5
  <2>2. rows[i] \in S /\ rows[j] \in S /\ S \subseteq Nat
    <3>1. \A k \in 1..Cardinality(S) : rows[k] \in S
      BY <1>2
    <3>2. S \subseteq Nat
      OBVIOUS
    <3>3. QED BY <2>1, <3>1, <3>2
  <2>3. SUFFICES ASSUME ~(rows[i] < rows[j]) PROVE FALSE
    OBVIOUS
  <2>4. ASSUME NEW d \in S, d < rows[j] PROVE d < rows[i]
    <3>1. d \in Nat /\ rows[i] \in Nat /\ rows[j] \in Nat
      BY <2>2
    <3>2. QED BY <2>3, <2>4, <3>1
  <2>5. before(rows[j]) \subseteq before(rows[i]) /\ before(rows[i]) \subseteq S
    BY <2>4
  <2>6. IsFiniteSet(before(rows[i]))
    BY <1>1, <2>5, FS_Subset
  <2>7. Cardinality(before(rows[j])) <= Cardinality(before(rows[i]))
    BY <2>5, <2>6, FS_Subset
  <2>8. Cardinality(before(rows[i])) = i - 1 /\ Cardinality(before(rows[j])) = j - 1
    BY <1>2, <2>1
  <2>9. QED BY <1>6, <2>7, <2>8
<1>7. QED BY <1>5, <1>6 DEF Ascending, rows

\* A page has committed events after the cursor, in order.
LEMMA PageInOrder ==
    ASSUME PageSize \in Nat, Inv, NEW seq \in Nat
    PROVE  LET page == workflowEventsAfter(seq)
           IN  /\ page \in Seq(Nat)
               /\ Ascending(page)
               /\ \A i \in 1..Len(page) : page[i] \in committed /\ page[i] > seq
<1> DEFINE S == {e \in committed : e > seq}
           rows == InOrder(S)
           page == workflowEventsAfter(seq)
           n == IF Len(rows) < PageSize THEN Len(rows) ELSE PageSize
<1>1. rows \in Seq(S) /\ Ascending(rows) /\ S \subseteq Nat
  <2>1. last \in Nat /\ S \in SUBSET (1..last) /\ Ranked(S)
    BY DEF Inv, TypeOK, Listable
  <2>2. InOrder(S) \in Seq(S) /\ Ascending(InOrder(S))
    BY <2>1, RowsInOrder
  <2>3. QED BY <2>1, <2>2
<1>2. page = SubSeq(rows, 1, n)
  BY DEF workflowEventsAfter, FirstPage
<1> HIDE DEF rows, page
<1>3. n \in Nat /\ n <= Len(rows)
  BY <1>1
<1>4. page \in Seq(S) /\ Len(page) = n /\ \A i \in 1..n : page[i] = rows[i]
  BY <1>1, <1>2, <1>3
<1>5. page \in Seq(Nat)
  BY <1>1, <1>4
<1>6. Ascending(page)
  BY <1>1, <1>3, <1>4 DEF Ascending
<1>7. \A i \in 1..Len(page) : page[i] \in S
  BY <1>4
<1>8. QED BY <1>5, <1>6, <1>7 DEF page

\* Two lines in order, all of the first before all of the second, are one.
LEMMA LinesJoin ==
    ASSUME NEW s \in Seq(Nat), NEW t \in Seq(Nat), Ascending(s), Ascending(t),
           \A i \in 1..Len(s), j \in 1..Len(t) : s[i] < t[j]
    PROVE  Ascending(s \o t)
<1> SUFFICES ASSUME NEW i \in 1..Len(s \o t), NEW j \in 1..Len(s \o t), i < j
             PROVE  (s \o t)[i] < (s \o t)[j]
  BY DEF Ascending
<1>1. Len(s) \in Nat /\ Len(t) \in Nat /\ Len(s \o t) = Len(s) + Len(t)
  OBVIOUS
<1>2. CASE j <= Len(s)
  BY <1>1, <1>2 DEF Ascending
<1>3. CASE i <= Len(s) /\ j > Len(s)
  <2>1. j - Len(s) \in 1..Len(t)
    BY <1>1, <1>3
  <2>2. QED BY <1>1, <1>3, <2>1
<1>4. CASE i > Len(s)
  <2>1. i - Len(s) \in 1..Len(t) /\ j - Len(s) \in 1..Len(t) /\ i - Len(s) < j - Len(s)
    BY <1>1, <1>4
  <2>2. (s \o t)[i] = t[i - Len(s)] /\ (s \o t)[j] = t[j - Len(s)]
    BY <1>1, <1>4
  <2>3. t[i - Len(s)] < t[j - Len(s)]
    BY <2>1 DEF Ascending
  <2>4. QED BY <2>2, <2>3
<1>5. QED BY <1>1, <1>2, <1>3, <1>4

-------------------------------------------------------------------------------
LEMMA StartOfLine ==
    ASSUME NEW s \in Seq(Nat), NEW t \in Seq(Nat)
    PROVE  /\ Len(s) \in Nat /\ Len(s \o t) \in Nat /\ Len(s) <= Len(s \o t)
           /\ \A i \in 1..Len(s) : (s \o t)[i] = s[i]
OBVIOUS

LEMMA Regrouped ==
    ASSUME NEW s \in Seq(Nat), NEW t \in Seq(Nat), NEW u \in Seq(Nat)
    PROVE  (s \o t) \o u = s \o (t \o u)
BY ConcatAssociative, SMTT(30)

\* What both have only members of, their concatenation has, too.
LEMMA JoinedOf ==
    ASSUME NEW s \in Seq(Nat), NEW t \in Seq(Nat), NEW S,
           \A i \in 1..Len(s) : s[i] \in S, \A i \in 1..Len(t) : t[i] \in S
    PROVE  \A i \in 1..Len(s \o t) : (s \o t)[i] \in S
<1>1. TAKE i \in 1..Len(s \o t)
<1>2. Len(s) \in Nat /\ Len(t) \in Nat /\ Len(s \o t) = Len(s) + Len(t)
  OBVIOUS
<1>3. CASE i <= Len(s)
  BY <1>2, <1>3
<1>4. CASE i > Len(s)
  <2>1. i - Len(s) \in 1..Len(t) /\ (s \o t)[i] = t[i - Len(s)]
    BY <1>2, <1>4
  <2>2. QED BY <2>1
<1>5. QED BY <1>2, <1>3, <1>4

LEMMA LastIsGreatest ==
    ASSUME NEW s \in Seq(Nat), s # <<>>, Ascending(s)
    PROVE  Last(s) \in Nat /\ \A i \in 1..Len(s) : s[i] <= Last(s)
<1>1. Len(s) \in Nat /\ Len(s) >= 1 /\ Last(s) = s[Len(s)]
  BY DEF Last
<1>2. \A i \in 1..Len(s) : s[i] \in Nat
  OBVIOUS
<1>3. ASSUME NEW i \in 1..Len(s) PROVE s[i] <= s[Len(s)]
  <2>1. CASE i = Len(s)
    BY <1>1, <1>2, <2>1
  <2>2. CASE i < Len(s)
    BY <1>1, <1>2, <2>2 DEF Ascending
  <2>3. QED BY <1>1, <2>1, <2>2
<1>4. QED BY <1>1, <1>2, <1>3

LEMMA EventsBegin == Init => Inv
<1> SUFFICES ASSUME Init PROVE Inv
  OBVIOUS
<1>1. TypeOK
  BY DEF Init, TypeOK
<1>2. Listable
  <2>1. 1..last = {}
    BY DEF Init
  <2>2. \A S \in SUBSET (1..last) : Cardinality(S) = 0
    BY <2>1, FS_EmptySet
  <2>3. QED BY <2>2 DEF Listable, Ranked
<1>3. ASSUME NEW r \in Readers PROVE LineFits(r)
  <2>1. Line(r) = <<>> /\ wire[r] = <<>>
    BY <1>3 DEF Init, Line
  <2>2. QED BY <2>1 DEF LineFits, Ascending
<1>4. QED BY <1>1, <1>2, <1>3 DEF Inv

\* Whoever's line and stream stay as they are goes on fitting, as events come in.
LEMMA LineStays ==
    ASSUME Inv, NEW r \in Readers, committed \subseteq committed',
           got'[r] = got[r], wire'[r] = wire[r], after'[r] = after[r],
           connected'[r] = connected[r]
    PROVE  LineFits(r)'
<1>1. Line(r)' = Line(r) /\ LineFits(r)
  BY DEF Line, Inv
<1>2. QED BY <1>1 DEF LineFits, Ascending

LEMMA WritersKeep ==
    ASSUME Inv, NEW w \in Writers, AppendEvent(w) \/ Commit(w) \/ Rollback(w)
    PROVE  Inv'
<1>1. TypeOK'
  <2>1. CASE AppendEvent(w)
    <3>1. last' = last + 1 /\ last \in Nat
      BY <2>1 DEF AppendEvent, Inv, TypeOK
    <3>2. 1..last \subseteq 1..last' /\ last + 1 \in 1..last'
      BY <3>1
    <3>3. open' \in [Writers -> SUBSET (1..last')]
      BY <2>1, <3>2 DEF AppendEvent, Inv, TypeOK
    <3>4. QED BY <2>1, <3>1, <3>2, <3>3 DEF AppendEvent, Inv, TypeOK
  <2>2. CASE Commit(w)
    BY <2>2 DEF Commit, Inv, TypeOK
  <2>3. CASE Rollback(w)
    BY <2>3 DEF Rollback, Inv, TypeOK
  <2>4. QED BY <2>1, <2>2, <2>3
<1>2. Listable'
  <2>1. last \in Nat /\ \A S \in SUBSET (1..last) : Ranked(S)
    BY DEF Inv, TypeOK, Listable
  <2>2. CASE last' = last + 1
    <3>1. \A S \in SUBSET (1..(last + 1)) : Ranked(S)
      BY <2>1, OneMoreIsListed
    <3>2. QED BY <2>2, <3>1 DEF Listable, Ranked
  <2>3. CASE last' = last
    BY <2>1, <2>3 DEF Listable, Ranked
  <2>4. QED BY <2>2, <2>3 DEF AppendEvent, Commit, Rollback
<1>3. ASSUME NEW r \in Readers PROVE LineFits(r)'
  <2>1. committed \subseteq committed' /\ UNCHANGED <<got, wire, after, connected>>
    BY DEF AppendEvent, Commit, Rollback
  <2>2. QED BY <1>3, <2>1, LineStays
<1>4. QED BY <1>1, <1>2, <1>3 DEF Inv

\* What a step of one reader has to show.
LEMMA ReaderKeeps ==
    ASSUME Inv, NEW r \in Readers, UNCHANGED server,
           NEW conn \in BOOLEAN, connected' = [connected EXCEPT ![r] = conn],
           NEW cursor \in Nat, after' = [after EXCEPT ![r] = cursor],
           NEW way \in Seq(Nat), wire' = [wire EXCEPT ![r] = way],
           NEW events \in Seq(Nat), got' = [got EXCEPT ![r] = events],
           Ascending(events \o way),
           \A i \in 1..Len(events \o way) : (events \o way)[i] \in committed,
           conn => \A i \in 1..Len(events \o way) : (events \o way)[i] <= cursor,
           ~conn => way = <<>>
    PROVE  Inv'
<1>1. TypeOK'
  BY DEF Inv, TypeOK, server
<1>2. Listable'
  BY DEF Inv, Listable, Ranked, server
<1>3. ASSUME NEW q \in Readers PROVE LineFits(q)'
  <2>1. CASE q = r
    <3>1. /\ got'[q] = events /\ wire'[q] = way
          /\ after'[q] = cursor /\ connected'[q] = conn
      BY <1>3, <2>1 DEF Inv, TypeOK
    <3>2. Line(q)' = events \o way /\ committed' = committed
      BY <3>1 DEF Line, server
    <3>3. QED BY <3>1, <3>2 DEF LineFits, Ascending
  <2>2. CASE q # r
    <3>1. /\ got'[q] = got[q] /\ wire'[q] = wire[q]
          /\ after'[q] = after[q] /\ connected'[q] = connected[q]
      BY <1>3, <2>2 DEF Inv, TypeOK
    <3>2. QED BY <1>3, <3>1, LineStays DEF server
  <2>3. QED BY <2>1, <2>2
<1>4. QED BY <1>1, <1>2, <1>3 DEF Inv

\* A reader without a stream resumes behind all it has received.
LEMMA ResumesBehind ==
    ASSUME Inv, NEW r \in Readers, ~connected[r]
    PROVE  /\ Line(r) = got[r] /\ wire[r] = <<>>
           /\ lastEventSequence(got[r]) \in Nat
           /\ \A i \in 1..Len(got[r]) : got[r][i] <= lastEventSequence(got[r])
<1>1. got[r] \in Seq(Nat) /\ LineFits(r)
  BY DEF Inv, TypeOK
<1>2. Line(r) = got[r] /\ wire[r] = <<>>
  <2>1. wire[r] = <<>>
    BY <1>1 DEF LineFits
  <2>2. QED BY <1>1, <2>1, ConcatEmptySeq DEF Line
<1>3. CASE got[r] = <<>>
  BY <1>2, <1>3 DEF lastEventSequence
<1>4. CASE got[r] # <<>>
  <2>1. Ascending(got[r]) /\ lastEventSequence(got[r]) = Last(got[r])
    BY <1>1, <1>2, <1>4 DEF LineFits, lastEventSequence
  <2>2. QED BY <1>1, <1>2, <1>4, <2>1, LastIsGreatest
<1>5. QED BY <1>3, <1>4

LEMMA ListKeeps ==
    ASSUME PageSize \in Nat, Inv, NEW r \in Readers, ListWorkflowEvents(r)
    PROVE  Inv'
<1> DEFINE seq == lastEventSequence(got[r])
           page == workflowEventsAfter(seq)
<1>1. /\ Line(r) = got[r] /\ wire[r] = <<>> /\ seq \in Nat
      /\ \A i \in 1..Len(got[r]) : got[r][i] <= seq
  BY ResumesBehind DEF ListWorkflowEvents
<1>2. /\ page \in Seq(Nat) /\ Ascending(page)
      /\ \A i \in 1..Len(page) : page[i] \in committed /\ page[i] > seq
  BY <1>1, PageInOrder
<1>3. /\ got[r] \in Seq(Nat) /\ Ascending(got[r])
      /\ \A i \in 1..Len(got[r]) : got[r][i] \in committed
  BY <1>1 DEF Inv, TypeOK, LineFits
<1>4. got' = [got EXCEPT ![r] = got[r] \o page]
  BY DEF ListWorkflowEvents
<1> HIDE DEF seq, page
<1>5. Ascending(got[r] \o page)
  <2>1. \A i \in 1..Len(got[r]) : got[r][i] \in Nat
    BY <1>3
  <2>2. \A i \in 1..Len(page) : page[i] \in Nat
    BY <1>2
  <2>3. \A i \in 1..Len(got[r]), j \in 1..Len(page) : got[r][i] < page[j]
    BY <1>1, <1>2, <2>1, <2>2
  <2>4. QED BY <1>2, <1>3, <2>3, LinesJoin
<1>6. got[r] \o page \in Seq(Nat)
  BY <1>2, <1>3
<1>7. \A i \in 1..Len(got[r] \o page) : (got[r] \o page)[i] \in committed
  BY <1>2, <1>3, JoinedOf
<1>8. (got[r] \o page) \o <<>> = got[r] \o page
  BY <1>6, ConcatEmptySeq
<1>9. /\ connected' = [connected EXCEPT ![r] = FALSE]
      /\ after' = [after EXCEPT ![r] = after[r]]
      /\ wire' = [wire EXCEPT ![r] = <<>>]
      /\ after[r] \in Nat /\ UNCHANGED server
  BY <1>1 DEF ListWorkflowEvents, Inv, TypeOK
<1>10. <<>> \in Seq(Nat)
  OBVIOUS
<1>11. QED BY <1>4, <1>5, <1>6, <1>7, <1>8, <1>9, <1>10, ReaderKeeps

LEMMA StreamKeeps ==
    ASSUME Inv, NEW r \in Readers, StreamWorkflowRun(r)
    PROVE  Inv'
<1>1. /\ Line(r) = got[r] /\ wire[r] = <<>>
      /\ lastEventSequence(got[r]) \in Nat
      /\ \A i \in 1..Len(got[r]) : got[r][i] <= lastEventSequence(got[r])
  BY ResumesBehind DEF StreamWorkflowRun
<1>2. got[r] \in Seq(Nat) /\ wire[r] \in Seq(Nat) /\ LineFits(r)
  BY DEF Inv, TypeOK
<1>3. /\ connected' = [connected EXCEPT ![r] = TRUE]
      /\ after' = [after EXCEPT ![r] = lastEventSequence(got[r])]
      /\ wire' = [wire EXCEPT ![r] = wire[r]]
      /\ got' = [got EXCEPT ![r] = got[r]]
      /\ UNCHANGED server
  BY DEF StreamWorkflowRun, Inv, TypeOK
<1>4. got[r] \o wire[r] = got[r]
  BY <1>1 DEF Line
<1>5. QED BY <1>1, <1>2, <1>3, <1>4, ReaderKeeps DEF LineFits

LEMMA PollKeeps ==
    ASSUME PageSize \in Nat, Inv, NEW r \in Readers, Poll(r)
    PROVE  Inv'
<1> DEFINE page == workflowEventsAfter(after[r])
<1>1. /\ got[r] \in Seq(Nat) /\ wire[r] \in Seq(Nat) /\ after[r] \in Nat
      /\ connected[r] /\ LineFits(r)
  BY DEF Inv, TypeOK, Poll
<1>2. /\ page \in Seq(Nat) /\ Ascending(page)
      /\ \A i \in 1..Len(page) : page[i] \in committed /\ page[i] > after[r]
  BY <1>1, PageInOrder
<1>3. /\ page # <<>> /\ UNCHANGED server
      /\ connected' = [connected EXCEPT ![r] = TRUE]
      /\ after' = [after EXCEPT ![r] = Last(page)]
      /\ wire' = [wire EXCEPT ![r] = wire[r] \o page]
      /\ got' = [got EXCEPT ![r] = got[r]]
  BY <1>1 DEF Poll, Inv, TypeOK
<1> HIDE DEF page
<1>4. Line(r) \in Seq(Nat) /\ (got[r] \o wire[r]) \o page = Line(r) \o page
  BY <1>1 DEF Line
<1>5. got[r] \o (wire[r] \o page) = Line(r) \o page
  BY <1>1, <1>2, <1>4, Regrouped
<1>6. Last(page) \in Nat /\ \A i \in 1..Len(page) : page[i] <= Last(page)
  BY <1>2, <1>3, LastIsGreatest
<1>7. /\ Ascending(Line(r))
      /\ \A i \in 1..Len(Line(r)) : Line(r)[i] \in committed /\ Line(r)[i] <= after[r]
  BY <1>1 DEF LineFits
<1>8. \A i \in 1..Len(Line(r)), j \in 1..Len(page) : Line(r)[i] < page[j]
  <2>1. \A i \in 1..Len(Line(r)) : Line(r)[i] \in Nat
    BY <1>4
  <2>2. \A j \in 1..Len(page) : page[j] \in Nat
    BY <1>2
  <2>3. QED BY <1>1, <1>2, <1>7, <2>1, <2>2
<1>9. Ascending(Line(r) \o page)
  BY <1>2, <1>4, <1>7, <1>8, LinesJoin
<1>10. \A i \in 1..Len(Line(r) \o page) : (Line(r) \o page)[i] \in committed
  BY <1>2, <1>4, <1>7, JoinedOf
<1>11. \A i \in 1..Len(Line(r) \o page) : (Line(r) \o page)[i] <= Last(page)
  <2>1. Len(page) \in Nat /\ 1 \in 1..Len(page)
    BY <1>2, <1>3
  <2>2. \A i \in 1..Len(Line(r)) : Line(r)[i] \in Nat
    BY <1>4
  <2>3. \A j \in 1..Len(page) : page[j] \in Nat
    BY <1>2
  <2>4. \A i \in 1..Len(Line(r)) : Line(r)[i] <= Last(page)
    BY <1>6, <1>8, <2>1, <2>2, <2>3
  <2>5. \A i \in 1..Len(Line(r)) : Line(r)[i] \in {x \in Nat : x <= Last(page)}
    BY <2>2, <2>4
  <2>6. \A j \in 1..Len(page) : page[j] \in {x \in Nat : x <= Last(page)}
    BY <1>6, <2>3
  <2>7. \A i \in 1..Len(Line(r) \o page) :
            (Line(r) \o page)[i] \in {x \in Nat : x <= Last(page)}
    BY <1>2, <1>4, <2>5, <2>6, JoinedOf
  <2>8. QED BY <2>7
<1>12. wire[r] \o page \in Seq(Nat)
  BY <1>1, <1>2
<1>13. QED BY <1>1, <1>3, <1>5, <1>6, <1>9, <1>10, <1>11, <1>12, ReaderKeeps

\* What is received was on its way: the line is the same.
LEMMA ReceiveKeeps ==
    ASSUME Inv, NEW r \in Readers, Receive(r)
    PROVE  Inv'
<1> DEFINE head == Head(wire[r])
           tail == Tail(wire[r])
<1>1. /\ got[r] \in Seq(Nat) /\ wire[r] \in Seq(Nat) /\ after[r] \in Nat
      /\ wire[r] # <<>> /\ LineFits(r)
  BY DEF Inv, TypeOK, Receive
<1>2. connected[r]
  BY <1>1 DEF LineFits
<1>3. head \in Nat /\ tail \in Seq(Nat) /\ <<head>> \o tail = wire[r]
  BY <1>1, HeadTailProperties, ConcatSimplifications
<1>4. Append(got[r], head) = got[r] \o <<head>>
  BY <1>1, <1>3, AppendIsConcat
<1>5. Append(got[r], head) \in Seq(Nat)
  BY <1>1, <1>3
<1>6. Append(got[r], head) \o tail = Line(r)
  <2>1. <<head>> \in Seq(Nat)
    BY <1>3
  <2>2. (got[r] \o <<head>>) \o tail = got[r] \o (<<head>> \o tail)
    BY <1>1, <1>3, <2>1, Regrouped
  <2>3. QED BY <1>3, <1>4, <2>2 DEF Line
<1>7. /\ UNCHANGED server
      /\ connected' = [connected EXCEPT ![r] = TRUE]
      /\ after' = [after EXCEPT ![r] = after[r]]
      /\ wire' = [wire EXCEPT ![r] = tail]
      /\ got' = [got EXCEPT ![r] = Append(got[r], head)]
  <2>1. connected[r] = TRUE
    BY <1>2 DEF Inv, TypeOK
  <2>2. QED BY <2>1 DEF Receive, Inv, TypeOK
<1> HIDE DEF head, tail
<1>8. /\ Ascending(Line(r))
      /\ \A i \in 1..Len(Line(r)) : Line(r)[i] \in committed
      /\ \A i \in 1..Len(Line(r)) : Line(r)[i] <= after[r]
  BY <1>1, <1>2 DEF LineFits
<1> DEFINE events == Append(got[r], head)
<1>9. /\ Ascending(events \o tail)
      /\ \A i \in 1..Len(events \o tail) : (events \o tail)[i] \in committed
      /\ \A i \in 1..Len(events \o tail) : (events \o tail)[i] <= after[r]
  BY <1>6, <1>8
<1>10. events \in Seq(Nat) /\ got' = [got EXCEPT ![r] = events]
  BY <1>5, <1>7
<1> HIDE DEF events
<1>11. QED BY <1>1, <1>3, <1>7, <1>9, <1>10, ReaderKeeps

\* What is lost is the end of the line.
LEMMA DisconnectKeeps ==
    ASSUME Inv, NEW r \in Readers, Disconnect(r)
    PROVE  Inv'
<1>1. /\ got[r] \in Seq(Nat) /\ wire[r] \in Seq(Nat) /\ after[r] \in Nat
      /\ LineFits(r)
  BY DEF Inv, TypeOK
<1>2. /\ UNCHANGED server
      /\ connected' = [connected EXCEPT ![r] = FALSE]
      /\ after' = [after EXCEPT ![r] = after[r]]
      /\ wire' = [wire EXCEPT ![r] = <<>>]
      /\ got' = [got EXCEPT ![r] = got[r]]
  BY DEF Disconnect, Inv, TypeOK
<1>3. /\ Len(Line(r)) \in Nat /\ Len(got[r]) \in Nat /\ Len(got[r]) <= Len(Line(r))
      /\ \A i \in 1..Len(got[r]) : got[r][i] = Line(r)[i]
  BY <1>1, StartOfLine DEF Line
<1>4. Ascending(got[r]) /\ \A i \in 1..Len(got[r]) : got[r][i] \in committed
  <2>1. \A i \in 1..Len(got[r]) : i \in 1..Len(Line(r))
    BY <1>3
  <2>2. \A i, j \in 1..Len(Line(r)) : i < j => Line(r)[i] < Line(r)[j]
    BY <1>1 DEF LineFits, Ascending
  <2>3. \A i \in 1..Len(Line(r)) : Line(r)[i] \in committed
    BY <1>1 DEF LineFits
  <2>4. Ascending(got[r])
    BY <1>3, <2>1, <2>2 DEF Ascending
  <2>5. QED BY <1>3, <2>1, <2>3, <2>4
<1>5. got[r] \o <<>> = got[r] /\ <<>> \in Seq(Nat)
  BY <1>1, ConcatEmptySeq
<1>6. QED BY <1>1, <1>2, <1>4, <1>5, ReaderKeeps

\* EventStream's invariant, for any page size.
LEMMA EventsFit == ASSUME PageSize \in Nat PROVE Spec => []Inv
<1>1. Inv /\ UNCHANGED vars => Inv'
  <2> SUFFICES ASSUME Inv, UNCHANGED vars PROVE Inv'
    OBVIOUS
  <2>1. TypeOK' /\ Listable'
    BY DEF Inv, TypeOK, Listable, Ranked, vars
  <2>2. \A r \in Readers : LineFits(r)'
    BY LineStays DEF vars
  <2>3. QED BY <2>1, <2>2 DEF Inv
<1>2. Inv /\ Next => Inv'
  BY WritersKeep, ListKeeps, StreamKeeps, PollKeeps, ReceiveKeeps, DisconnectKeeps
     DEF Next
<1>3. QED BY <1>1, <1>2, EventsBegin, PTL DEF Spec

\* However often a reader is cut off, pages and comes back, whatever the size of
\* a page and in whichever order transactions commit, it sees committed events
\* only, each at most once and never an older one after a newer one.
THEOREM ReadersSeeEventsInOrder ==
    ASSUME PageSize \in Nat PROVE Spec => []InOrderAndOnce
<1>1. Inv => InOrderAndOnce
  <2> SUFFICES ASSUME Inv, NEW r \in Readers
               PROVE  /\ ToSet(got[r]) \subseteq committed
                      /\ \A i, j \in DOMAIN got[r] : i < j => got[r][i] < got[r][j]
    BY DEF InOrderAndOnce
  <2>1. got[r] \in Seq(Nat) /\ wire[r] \in Seq(Nat) /\ LineFits(r)
    BY DEF Inv, TypeOK
  <2>2. /\ Len(Line(r)) \in Nat /\ Len(got[r]) \in Nat /\ Len(got[r]) <= Len(Line(r))
        /\ \A i \in 1..Len(got[r]) : got[r][i] = Line(r)[i]
    BY <2>1, StartOfLine DEF Line
  <2>3. \A i \in 1..Len(got[r]) : i \in 1..Len(Line(r))
    BY <2>2
  <2>4. DOMAIN got[r] = 1..Len(got[r])
    BY <2>1
  <2>5. ToSet(got[r]) \subseteq committed
    <3>1. \A i \in 1..Len(Line(r)) : Line(r)[i] \in committed
      BY <2>1 DEF LineFits
    <3>2. \A i \in 1..Len(got[r]) : got[r][i] \in committed
      BY <2>2, <2>3, <3>1
    <3>3. QED BY <2>4, <3>2 DEF ToSet
  <2>6. \A i, j \in 1..Len(Line(r)) : i < j => Line(r)[i] < Line(r)[j]
    BY <2>1 DEF LineFits, Ascending
  <2>7. \A i, j \in 1..Len(got[r]) : i < j => got[r][i] < got[r][j]
    BY <2>2, <2>3, <2>6
  <2>8. QED BY <2>4, <2>5, <2>7
<1>2. QED BY <1>1, EventsFit, PTL

-------------------------------------------------------------------------------
(* The settings of the scheduler.                                          *)

\* What a request is merged into when it reads the row.
Base == IF stored = Settings!NoRow THEN Settings!DefaultSettings ELSE stored

SettingsTypes ==
    /\ phase \in [Handlers -> {"idle", "read", "save"}]
    /\ fresh \in [Handlers -> BOOLEAN]
    /\ DOMAIN patch = Handlers /\ patch = [h \in Handlers |-> patch[h]]
    /\ DOMAIN current = Handlers /\ current = [h \in Handlers |-> current[h]]

(***************************************************************************)
(* What a handler is about to write has been validated, and is the stored  *)
(* row with its own sections as long as nobody has written since.          *)
(***************************************************************************)
SavesHold ==
    \A h \in Handlers : phase[h] = "save" =>
        /\ Settings!validateSettings(current[h])
        /\ fresh[h] => current[h] = Settings!Merged(Base, patch[h])

SettingsInv == SettingsTypes /\ SavesHold

LEMMA SettingsBegin == Settings!Init => SettingsInv
BY DEF Settings!Init, SettingsInv, SettingsTypes, SavesHold

-------------------------------------------------------------------------------
LEMMA SeedKeeps == SettingsInv /\ Settings!Seed => SettingsInv'
BY DEF SettingsInv, SettingsTypes, SavesHold, Settings!Seed, Settings!Written

LEMMA RequestKeeps ==
    ASSUME SettingsInv, NEW h \in Handlers, Settings!Receive(h)
    PROVE  SettingsInv'
<1>1. SettingsTypes'
  BY DEF SettingsInv, SettingsTypes, Settings!Receive
<1>2. \A g \in Handlers : phase'[g] = "save" =>
          phase[g] = "save" /\ current'[g] = current[g]
          /\ fresh'[g] = fresh[g] /\ patch'[g] = patch[g]
  BY DEF SettingsInv, SettingsTypes, Settings!Receive
<1>3. Base' = Base
  BY DEF Settings!Receive, Base
<1>4. SavesHold'
  BY <1>2, <1>3 DEF SettingsInv, SavesHold
<1>5. QED BY <1>1, <1>4 DEF SettingsInv

\* A handler that has read merges with what it read, or gives up.
LEMMA MergeKeeps ==
    ASSUME SettingsInv, NEW h \in Handlers, NEW base, NEW truth \in BOOLEAN,
           phase[h] = "read", Settings!MergeAndValidate(h, base),
           fresh' = [fresh EXCEPT ![h] = truth], UNCHANGED stored,
           truth => base = Base
    PROVE  SettingsInv'
<1>1. CASE Settings!validateSettings(Settings!Merged(base, patch[h]))
  <2>1. /\ current' = [current EXCEPT ![h] = Settings!Merged(base, patch[h])]
        /\ phase' = [phase EXCEPT ![h] = "save"]
        /\ patch' = patch
    BY <1>1 DEF Settings!MergeAndValidate
  <2>2. SettingsTypes'
    BY <2>1 DEF SettingsInv, SettingsTypes
  <2>3. Base' = Base
    BY DEF Base
  <2>4. ASSUME NEW g \in Handlers, phase'[g] = "save"
        PROVE  /\ Settings!validateSettings(current'[g])
               /\ fresh'[g] => current'[g] = Settings!Merged(Base', patch'[g])
    <3>1. CASE g = h
      <4>1. current'[g] = Settings!Merged(base, patch[h]) /\ fresh'[g] = truth
        BY <2>1, <3>1 DEF SettingsInv, SettingsTypes
      <4>2. QED BY <1>1, <2>1, <2>3, <3>1, <4>1
    <3>2. CASE g # h
      <4>1. current'[g] = current[g] /\ fresh'[g] = fresh[g] /\ phase[g] = "save"
        BY <2>1, <2>4, <3>2 DEF SettingsInv, SettingsTypes
      <4>2. QED BY <2>1, <2>3, <4>1 DEF SettingsInv, SavesHold
    <3>3. QED BY <3>1, <3>2
  <2>5. QED BY <2>2, <2>4 DEF SettingsInv, SavesHold
<1>2. CASE ~Settings!validateSettings(Settings!Merged(base, patch[h]))
  <2>1. Settings!Idle(h)
    BY <1>2 DEF Settings!MergeAndValidate
  <2>2. SettingsTypes'
    BY <2>1 DEF SettingsInv, SettingsTypes, Settings!Idle
  <2>3. \A g \in Handlers : phase'[g] = "save" =>
            phase[g] = "save" /\ current'[g] = current[g]
            /\ fresh'[g] = fresh[g] /\ patch'[g] = patch[g]
    BY <2>1 DEF SettingsInv, SettingsTypes, Settings!Idle
  <2>4. Base' = Base
    BY DEF Base
  <2>5. SavesHold'
    BY <2>3, <2>4 DEF SettingsInv, SavesHold
  <2>6. QED BY <2>2, <2>5 DEF SettingsInv
<1>3. QED BY <1>1, <1>2

LEMMA ReadKeeps ==
    ASSUME SettingsInv, NEW h \in Handlers, Settings!Read(h)
    PROVE  SettingsInv'
BY MergeKeeps DEF Settings!Read, Base

LEMMA FailToReadKeeps ==
    ASSUME SettingsInv, NEW h \in Handlers, Settings!FailToRead(h)
    PROVE  SettingsInv'
BY MergeKeeps DEF Settings!FailToRead

\* After a write nothing that was read before is fresh.
LEMMA SaveKeeps ==
    ASSUME SettingsInv, NEW h \in Handlers, Settings!Save(h)
    PROVE  SettingsInv'
<1>1. SettingsTypes'
  BY DEF SettingsInv, SettingsTypes, Settings!Save, Settings!Written, Settings!Idle
<1>2. \A g \in Handlers : ~fresh'[g]
  BY DEF Settings!Save, Settings!Written
<1>3. \A g \in Handlers : phase'[g] = "save" =>
          phase[g] = "save" /\ current'[g] = current[g]
  BY DEF SettingsInv, SettingsTypes, Settings!Save, Settings!Idle
<1>4. SavesHold'
  BY <1>2, <1>3 DEF SettingsInv, SavesHold
<1>5. QED BY <1>1, <1>4 DEF SettingsInv

LEMMA FailKeeps ==
    ASSUME SettingsInv, NEW h \in Handlers, Settings!Fail(h)
    PROVE  SettingsInv'
<1>1. SettingsTypes'
  BY DEF SettingsInv, SettingsTypes, Settings!Fail, Settings!Idle
<1>2. \A g \in Handlers : phase'[g] = "save" =>
          phase[g] = "save" /\ current'[g] = current[g]
          /\ fresh'[g] = fresh[g] /\ patch'[g] = patch[g]
  BY DEF SettingsInv, SettingsTypes, Settings!Fail, Settings!Idle
<1>3. Base' = Base
  BY DEF Settings!Fail, Base
<1>4. SavesHold'
  BY <1>2, <1>3 DEF SettingsInv, SavesHold
<1>5. QED BY <1>1, <1>4 DEF SettingsInv

LEMMA SettingsStay == SettingsInv /\ [Settings!Next]_(Settings!vars) => SettingsInv'
<1> SUFFICES ASSUME SettingsInv, [Settings!Next]_(Settings!vars) PROVE SettingsInv'
  OBVIOUS
<1>1. CASE UNCHANGED Settings!vars
  <2>1. SettingsTypes'
    BY <1>1 DEF SettingsInv, SettingsTypes, Settings!vars
  <2>2. SavesHold'
    BY <1>1 DEF SettingsInv, SavesHold, Settings!vars, Base
  <2>3. QED BY <2>1, <2>2 DEF SettingsInv
<1>2. CASE Settings!Seed
  BY <1>2, SeedKeeps
<1>3. CASE \E h \in Handlers :
              \/ Settings!Receive(h) \/ Settings!Read(h) \/ Settings!FailToRead(h)
              \/ Settings!Save(h) \/ Settings!Fail(h)
  BY <1>3, RequestKeeps, ReadKeeps, FailToReadKeeps, SaveKeeps, FailKeeps
<1>4. QED BY <1>1, <1>2, <1>3 DEF Settings!Next

\* The invariant: what is about to be written is valid, and fresh if it may be.
THEOREM SavesAreSound == Settings!Spec => []SettingsInv
BY SettingsBegin, SettingsStay, PTL DEF Settings!Spec

-------------------------------------------------------------------------------
LEMMA StoredBySeedOrSave ==
    ASSUME SettingsInv, [Settings!Next]_(Settings!vars), stored' # stored
    PROVE  \/ stored = Settings!NoRow /\ stored' = Settings!DefaultSettings
           \/ \E h \in Handlers : phase[h] = "save" /\ stored' = current[h]
<1>1. \/ Settings!Seed
      \/ \E h \in Handlers : Settings!Save(h)
  <2>1. ASSUME NEW h \in Handlers,
               \/ Settings!Receive(h) \/ Settings!Read(h)
               \/ Settings!FailToRead(h) \/ Settings!Fail(h)
        PROVE  FALSE
    BY <2>1 DEF Settings!Receive, Settings!Read, Settings!FailToRead, Settings!Fail
  <2>2. QED BY <2>1 DEF Settings!Next, Settings!vars
<1>2. QED BY <1>1 DEF Settings!Seed, Settings!Save, Settings!Written

(***************************************************************************)
(* An update whose read succeeded and that nobody has overtaken changes    *)
(* the sections it names and no other (UpdateSchedulerSettings).           *)
(***************************************************************************)
THEOREM FreshWritesAreLocal == Settings!Spec => Settings!FreshWritesKeepTheRest
<1>1. ASSUME SettingsInv, [Settings!Next]_(Settings!vars), NEW h \in Handlers,
             phase[h] = "save", fresh[h], stored' = current[h]
      PROVE  Settings!KeepsTheRest(h)
  BY <1>1, ZenonT(60) DEF SettingsInv, SavesHold, Settings!Merged, Base,
                      Settings!KeepsTheRest
<1>2. ASSUME SettingsInv, [Settings!Next]_(Settings!vars), stored' # stored
      PROVE  \/ stored = Settings!NoRow
             \/ \E h \in Handlers : phase[h] = "save" /\ stored' = current[h]
  BY <1>2, StoredBySeedOrSave
<1> DEFINE Local ==
        /\ \A h \in Handlers :
               phase[h] = "save" /\ fresh[h] /\ stored' = current[h]
                   => Settings!KeepsTheRest(h)
        /\ stored' # stored =>
               \/ stored = Settings!NoRow
               \/ \E h \in Handlers : phase[h] = "save" /\ stored' = current[h]
<1>3. SettingsInv /\ [Settings!Next]_(Settings!vars) => Local
  BY <1>1, <1>2
<1>4. SettingsInv /\ [Settings!Next]_(Settings!vars) => [Local]_(Settings!vars)
  BY <1>3
<1> HIDE DEF Local
<1>5. Settings!Spec => [][Local]_(Settings!vars)
  BY <1>4, SavesAreSound, PTL DEF Settings!Spec
<1>6. QED BY <1>5 DEF Local, Settings!FreshWritesKeepTheRest

(***************************************************************************)
(* What comes to be stored is the defaults or has been validated as a      *)
(* whole, however requests overlap and reads fail.                         *)
(***************************************************************************)
ValidOrSeeded ==
    [][stored' # stored =>
          \/ stored' = Settings!DefaultSettings
          \/ Settings!validateSettings(stored')]_(Settings!vars)

\* No request brings settings into the table that validateSettings refuses.
THEOREM NothingInvalidIsStored == Settings!Spec => ValidOrSeeded
<1>1. ASSUME SettingsInv, [Settings!Next]_(Settings!vars), stored' # stored
      PROVE  stored' = Settings!DefaultSettings \/ Settings!validateSettings(stored')
  <2>1. CASE stored = Settings!NoRow /\ stored' = Settings!DefaultSettings
    BY <2>1
  <2>2. CASE \E h \in Handlers : phase[h] = "save" /\ stored' = current[h]
    BY <1>1, <2>2 DEF SettingsInv, SavesHold
  <2>3. QED BY <1>1, <2>1, <2>2, StoredBySeedOrSave
<1>2. SettingsInv /\ [Settings!Next]_(Settings!vars) =>
          [stored' # stored =>
              \/ stored' = Settings!DefaultSettings
              \/ Settings!validateSettings(stored')]_(Settings!vars)
  BY <1>1
<1>3. QED BY <1>2, SavesAreSound, PTL DEF ValidOrSeeded, Settings!Spec
===============================================================================
