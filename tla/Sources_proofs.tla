---------------------------- MODULE Sources_proofs ----------------------------
(***************************************************************************)
(* Theorems about Sources, for any handlers, names and URLs.               *)
(***************************************************************************)
EXTENDS Sources, SequenceTheorems, TLAPS

Source == [name : Names \cup {"Manual Feed"}, type : Types,
           enabled : BOOLEAN, archived : BOOLEAN]

\* What is asked of a handler, whichever sources there were at the time.
Asks ==
         [kind : {"create"}, name : Names, type : Types, url : Urls]
    \cup [kind : {"update"}, id : Nat, enabled : BOOLEAN]
    \cup [kind : {"rename"}, id : Nat, name : Names]
    \cup [kind : {"delete", "trigger"}, id : Nat]
    \cup [kind : {"ingest", "run"}]
    \cup [kind : {"run"}, some : SUBSET Nat]

TypeOK ==
    /\ sources \in Seq(Source)
    /\ phase \in [Handlers -> {"idle", "first", "create", "send"}]
    /\ ask \in [Handlers -> Asks \cup {NoAsk}]
    /\ read \in [Handlers -> SUBSET Nat]
    /\ lately \in [Handlers -> SUBSET Nat]
    /\ answer = [h \in Handlers |-> answer[h]]

\* An idle handler has no request; only a feed creates the manual source.
PhasesFit ==
    \A h \in Handlers :
        /\ phase[h] = "idle" => ask[h] = NoAsk /\ read[h] = {}
        /\ phase[h] # "idle" => ask[h].kind # "none"
        /\ phase[h] = "create" => ask[h].kind = "ingest"

\* No source is ever removed, so a request names sources that are there.
AsksFit ==
    \A h \in Handlers :
        /\ ask[h].kind \in {"update", "rename", "delete", "trigger"} =>
               ask[h].id \in Ids
        /\ ask[h].kind = "run" /\ "some" \in DOMAIN ask[h] =>
               ask[h].some \subseteq Ids

(***************************************************************************)
(* While a request is at work, lately has every source that is or was live *)
(* since it came; what it has read for a job is among them.                *)
(***************************************************************************)
ReadsWereLive ==
    \A h \in Handlers : phase[h] # "idle" =>
        /\ Live(sources) \subseteq lately[h]
        /\ ask[h].kind # "ingest" => read[h] \subseteq lately[h]

Inv == TypeOK /\ PhasesFit /\ AsksFit /\ ReadsWereLive /\ JobsWereWanted

-------------------------------------------------------------------------------
LEMMA InitInv == Init => Inv
<1> SUFFICES ASSUME Init PROVE Inv
  OBVIOUS
<1>1. TypeOK
  <2>1. <<>> \in Seq(Source)
    OBVIOUS
  <2>2. QED BY <2>1 DEF Init, TypeOK
<1>2. PhasesFit /\ AsksFit /\ ReadsWereLive /\ JobsWereWanted
  BY DEF Init, PhasesFit, AsksFit, ReadsWereLive, JobsWereWanted, NoAsk
<1>3. QED BY <1>1, <1>2 DEF Inv

\* A function on the indices of the table is a table.
LEMMA TableFromFunction ==
    ASSUME sources \in Seq(Source), NEW table \in [Ids -> Source]
    PROVE  table \in Seq(Source) /\ DOMAIN table = Ids
<1>1. Len(sources) \in Nat /\ Ids = 1 .. Len(sources)
  BY DEF Ids
<1>2. table \in [1 .. Len(sources) -> Source]
  BY <1>1
<1>3. QED BY <1>1, <1>2, SeqDef

\* What a handler may do to the table: append a source, or change some of them.
TableStep(table) ==
    /\ table \in Seq(Source)
    /\ Ids \subseteq DOMAIN table

LEMMA AppendIsStep ==
    ASSUME sources \in Seq(Source), NEW new \in Source
    PROVE  TableStep(Append(sources, new))
BY AppendProperties DEF TableStep, Ids

LEMMA LiveIsNat ==
    ASSUME NEW table \in Seq(Source)
    PROVE  Live(table) \subseteq Nat
BY DEF Live

(***************************************************************************)
(* A change of the table by a handler that has not read anything yet, or   *)
(* feeds a URL, and that then is idle or goes on with its feed.            *)
(***************************************************************************)
LEMMA ChangeKeeps ==
    ASSUME Inv, NEW h \in Handlers, NEW table, Changed(table), TableStep(table),
           UNCHANGED jobs,
           \/ \E code : Idle(h, code)
           \/ /\ phase[h] = "create"
              /\ phase' = [phase EXCEPT ![h] = "send"]
              /\ \E ids \in SUBSET Nat : read' = [read EXCEPT ![h] = ids]
              /\ UNCHANGED <<ask, answer>>
    PROVE  Inv'
<1>1. /\ sources' = table /\ table \in Seq(Source)
      /\ lately' = [g \in Handlers |-> lately[g] \cup Live(table)]
      /\ Live(table) \subseteq Nat
  BY LiveIsNat DEF Changed, TableStep
<1>2. TypeOK'
  BY <1>1 DEF Inv, TypeOK, Idle, NoAsk
<1>3. \A g \in Handlers : g # h => /\ phase'[g] = phase[g] /\ ask'[g] = ask[g]
                                   /\ read'[g] = read[g]
  BY DEF Inv, TypeOK, Idle
<1>4. \A g \in Handlers : Live(sources') \subseteq lately'[g]
                          /\ lately[g] \subseteq lately'[g]
  BY <1>1
<1>5. \/ phase'[h] = "idle" /\ ask'[h] = NoAsk /\ read'[h] = {}
      \/ /\ phase'[h] = "send" /\ ask'[h] = ask[h]
         /\ ask[h].kind = "ingest"
  BY DEF Inv, TypeOK, Idle, PhasesFit
<1>6. PhasesFit'
  BY <1>3, <1>5 DEF Inv, PhasesFit, NoAsk
<1>7. AsksFit'
  BY <1>1, <1>3, <1>5 DEF Inv, AsksFit, NoAsk, Ids, TableStep
<1>8. ReadsWereLive'
  BY <1>3, <1>4, <1>5 DEF Inv, ReadsWereLive, Live
<1>9. QED BY <1>2, <1>6, <1>7, <1>8 DEF Inv, JobsWereWanted

\* A handler that leaves the table alone and returns.
LEMMA AnswerKeeps ==
    ASSUME Inv, NEW h \in Handlers, NEW code, Answer(h, code), JobsWereWanted'
    PROVE  Inv'
<1>1. TypeOK'
  BY DEF Inv, TypeOK, Answer, Idle, NoAsk
<1>2. \A g \in Handlers : g # h => /\ phase'[g] = phase[g] /\ ask'[g] = ask[g]
                                   /\ read'[g] = read[g]
  BY DEF Inv, TypeOK, Answer, Idle
<1>3. phase'[h] = "idle" /\ ask'[h] = NoAsk /\ read'[h] = {}
  BY DEF Inv, TypeOK, Answer, Idle
<1>4. PhasesFit'
  BY <1>2, <1>3 DEF Inv, PhasesFit, NoAsk
<1>5. AsksFit'
  BY <1>2, <1>3 DEF Inv, AsksFit, NoAsk, Ids, Answer
<1>6. ReadsWereLive'
  BY <1>2, <1>3 DEF Inv, ReadsWereLive, Live, Answer
<1>7. QED BY <1>1, <1>4, <1>5, <1>6 DEF Inv

\* A handler reads sources that are live, or feeds a URL.
LEMMA ReadKeeps ==
    ASSUME Inv, NEW h \in Handlers, NEW ids \in SUBSET Nat, NEW next,
           phase[h] = "first", Reads(h, ids, next), UNCHANGED jobs,
           \/ next \in {"first", "send"}
           \/ next = "create" /\ ask[h].kind = "ingest",
           ask[h].kind = "ingest" \/ ids \subseteq read[h] \cup Live(sources)
    PROVE  Inv'
<1>1. TypeOK'
  BY DEF Inv, TypeOK, Reads
<1>2. \A g \in Handlers : g # h => phase'[g] = phase[g] /\ read'[g] = read[g]
  BY DEF Inv, TypeOK, Reads
<1>3. phase'[h] = next /\ read'[h] = ids /\ next # "idle"
  BY DEF Inv, TypeOK, Reads
<1>4. PhasesFit'
  BY <1>2, <1>3 DEF Inv, PhasesFit, Reads
<1>5. ASSUME NEW g \in Handlers, phase'[g] # "idle"
      PROVE  /\ Live(sources') \subseteq lately'[g]
             /\ ask'[g].kind # "ingest" => read'[g] \subseteq lately'[g]
  <2>1. CASE g = h
    BY <1>3, <2>1 DEF Inv, ReadsWereLive, Reads, Live
  <2>2. CASE g # h
    BY <1>2, <1>5, <2>2 DEF Inv, ReadsWereLive, Reads, Live
  <2>3. QED BY <2>1, <2>2
<1>6. AsksFit'
  BY DEF Inv, AsksFit, Ids, Reads
<1>7. QED BY <1>1, <1>4, <1>5, <1>6 DEF Inv, ReadsWereLive, JobsWereWanted

LEMMA ReceiveKeeps ==
    ASSUME Inv, NEW h \in Handlers, Receive(h)
    PROVE  Inv'
<1>1. PICK r \in Requests : ask' = [ask EXCEPT ![h] = r]
  BY DEF Receive
<1>2. r \in Asks /\ r.kind # "none"
  BY DEF Inv, TypeOK, Requests, Asks, Ids
<1>3. Live(sources) \subseteq Nat
  BY LiveIsNat DEF Inv, TypeOK
<1>4. TypeOK'
  BY <1>1, <1>2, <1>3 DEF Inv, TypeOK, Receive
<1>5. \A g \in Handlers : g # h => /\ phase'[g] = phase[g] /\ ask'[g] = ask[g]
                                   /\ lately'[g] = lately[g]
  BY <1>1 DEF Inv, TypeOK, Receive
<1>6. /\ phase'[h] = "first" /\ ask'[h] = r /\ lately'[h] = Live(sources)
      /\ read'[h] = {}
  BY <1>1 DEF Inv, TypeOK, PhasesFit, Receive
<1>7. PhasesFit'
  BY <1>2, <1>5, <1>6 DEF Inv, PhasesFit, Receive
<1>8. ASSUME NEW g \in Handlers, phase'[g] # "idle"
      PROVE  /\ Live(sources') \subseteq lately'[g]
             /\ ask'[g].kind # "ingest" => read'[g] \subseteq lately'[g]
  <2>1. CASE g = h
    BY <1>6, <2>1 DEF Receive, Live
  <2>2. CASE g # h
    BY <1>5, <1>8, <2>2 DEF Inv, ReadsWereLive, Receive, Live
  <2>3. QED BY <2>1, <2>2
<1>9. AsksFit'
  <2>1. /\ r.kind \in {"update", "rename", "delete", "trigger"} => r.id \in Ids
        /\ r.kind = "run" /\ "some" \in DOMAIN r => r.some \subseteq Ids
    BY <1>1 DEF Requests
  <2>2. QED BY <1>5, <1>6, <2>1 DEF Inv, AsksFit, Receive, Ids
<1>10. QED
  BY <1>4, <1>7, <1>8, <1>9 DEF Inv, ReadsWereLive, JobsWereWanted, Receive

LEMMA CreateSourceKeeps ==
    ASSUME Inv, NEW h \in Handlers, CreateSource(h)
    PROVE  Inv'
<1> DEFINE new == [name |-> ask[h].name, type |-> ask[h].type,
                   enabled |-> TRUE, archived |-> FALSE]
<1>1. CASE \E code : Answer(h, code)
  BY <1>1, AnswerKeeps DEF CreateSource, Inv, JobsWereWanted
<1>2. CASE Changed(Append(sources, new)) /\ Idle(h, "ok")
  <2>1. ask[h] \in [kind : {"create"}, name : Names, type : Types, url : Urls]
    BY DEF Inv, TypeOK, Asks, NoAsk, CreateSource, At
  <2>2. new \in Source
    BY <2>1 DEF Source
  <2>3. TableStep(Append(sources, new))
    BY <2>2, AppendIsStep DEF Inv, TypeOK
  <2>4. QED BY <1>2, <2>3, ChangeKeeps DEF CreateSource
<1>3. QED BY <1>1, <1>2 DEF CreateSource

LEMMA UpdateSourceKeeps ==
    ASSUME Inv, NEW h \in Handlers, UpdateSource(h)
    PROVE  Inv'
<1> DEFINE i == ask[h].id
<1>1. sources \in Seq(Source) /\ sources \in [Ids -> Source]
  BY DEF Inv, TypeOK, Ids
<1>2. CASE \E code : Answer(h, code)
  BY <1>2, AnswerKeeps DEF UpdateSource, Inv, JobsWereWanted
<1>3. CASE /\ At(h, "update")
           /\ Changed([sources EXCEPT ![i] = Updated(@, ask[h].enabled)])
           /\ Idle(h, "ok")
  <2>1. ask[h].enabled \in BOOLEAN
    BY <1>3 DEF Inv, TypeOK, Asks, NoAsk, At
  <2>2. ASSUME i \in Ids PROVE Updated(sources[i], ask[h].enabled) \in Source
    BY <1>1, <2>1, <2>2 DEF Updated, Source
  <2>3. [sources EXCEPT ![i] = Updated(@, ask[h].enabled)] \in [Ids -> Source]
    BY <1>1, <2>2
  <2>4. TableStep([sources EXCEPT ![i] = Updated(@, ask[h].enabled)])
    BY <1>1, <2>3, TableFromFunction DEF TableStep
  <2>5. QED BY <1>3, <2>4, ChangeKeeps DEF UpdateSource
<1>4. CASE /\ At(h, "rename")
           /\ Changed([sources EXCEPT ![i].name = ask[h].name])
           /\ Idle(h, "ok")
  <2>1. ask[h].name \in Names
    BY <1>4 DEF Inv, TypeOK, Asks, NoAsk, At
  <2>2. ASSUME i \in Ids PROVE [sources[i] EXCEPT !.name = ask[h].name] \in Source
    BY <1>1, <2>1, <2>2 DEF Source
  <2>3. [sources EXCEPT ![i].name = ask[h].name] \in [Ids -> Source]
    BY <1>1, <2>2
  <2>4. TableStep([sources EXCEPT ![i].name = ask[h].name])
    BY <1>1, <2>3, TableFromFunction DEF TableStep
  <2>5. QED BY <1>4, <2>4, ChangeKeeps DEF UpdateSource
<1>5. QED BY <1>2, <1>3, <1>4 DEF UpdateSource

LEMMA DeleteSourceKeeps ==
    ASSUME Inv, NEW h \in Handlers, DeleteSource(h)
    PROVE  Inv'
<1> DEFINE i == ask[h].id
           table == [sources EXCEPT ![i].enabled = FALSE, ![i].archived = TRUE]
<1>1. sources \in Seq(Source) /\ sources \in [Ids -> Source]
  BY DEF Inv, TypeOK, Ids
<1>2. CASE \E code : Answer(h, code)
  BY <1>2, AnswerKeeps DEF DeleteSource, Inv, JobsWereWanted
<1>3. CASE Changed(table) /\ Idle(h, "ok")
  <2>1. ASSUME i \in Ids
        PROVE  [sources[i] EXCEPT !.enabled = FALSE, !.archived = TRUE] \in Source
    BY <1>1, <2>1 DEF Source
  <2>2. table = [sources EXCEPT ![i] =
                    [@ EXCEPT !.enabled = FALSE, !.archived = TRUE]]
    BY <1>1
  <2>3. table \in [Ids -> Source]
    BY <1>1, <2>1, <2>2
  <2>4. TableStep(table)
    BY <1>1, <2>3, TableFromFunction DEF TableStep
  <2>5. QED BY <1>3, <2>4, ChangeKeeps DEF DeleteSource
<1>4. QED BY <1>2, <1>3 DEF DeleteSource

LEMMA CreateManualSourceKeeps ==
    ASSUME Inv, NEW h \in Handlers, CreateManualSource(h)
    PROVE  Inv'
<1> DEFINE feed == [name |-> "Manual Feed", type |-> "manual",
                    enabled |-> TRUE, archived |-> FALSE]
           old == Named("Manual Feed")
           table == [k \in Ids |->
                        IF k \in old
                        THEN [sources[k] EXCEPT !.enabled = TRUE, !.archived = FALSE]
                        ELSE sources[k]]
<1>1. sources \in Seq(Source) /\ sources \in [Ids -> Source] /\ Ids \subseteq Nat
  BY DEF Inv, TypeOK, Ids
<1>2. CASE Changed(Append(sources, feed)) /\ read' = [read EXCEPT ![h] = {Len(sources) + 1}]
  <2>1. feed \in Source
    BY DEF Source, Types
  <2>2. TableStep(Append(sources, feed))
    BY <1>1, <2>1, AppendIsStep
  <2>3. {Len(sources) + 1} \in SUBSET Nat
    BY <1>1
  <2>4. QED BY <1>2, <2>2, <2>3, ChangeKeeps DEF CreateManualSource
<1>3. CASE Changed(table) /\ read' = [read EXCEPT ![h] = old]
  <2>1. ASSUME NEW k \in Ids
        PROVE  [sources[k] EXCEPT !.enabled = TRUE, !.archived = FALSE] \in Source
    BY <1>1 DEF Source
  <2>2. table \in [Ids -> Source]
    BY <1>1, <2>1
  <2>3. TableStep(table)
    BY <1>1, <2>2, TableFromFunction DEF TableStep
  <2>4. old \in SUBSET Nat
    BY <1>1 DEF Named
  <2>5. QED BY <1>3, <2>3, <2>4, ChangeKeeps DEF CreateManualSource
<1>4. QED BY <1>2, <1>3 DEF CreateManualSource

LEMMA TriggerKeeps ==
    ASSUME Inv, NEW h \in Handlers, TriggerSourceFetch(h)
    PROVE  Inv'
<1>1. CASE \E code : Answer(h, code)
  BY <1>1, AnswerKeeps DEF TriggerSourceFetch, Inv, JobsWereWanted
<1>2. CASE Fetchable(ask[h].id) /\ Reads(h, {ask[h].id}, "send")
  <2>1. ask[h] \in [kind : {"delete", "trigger"}, id : Nat]
    BY DEF Inv, TypeOK, Asks, NoAsk, TriggerSourceFetch, At
  <2>2. ask[h].id \in Ids
    BY DEF Inv, AsksFit, TriggerSourceFetch, At
  <2>3. ask[h].id \in Live(sources)
    BY <1>2, <2>2 DEF Fetchable, Live, Ids
  <2>4. {ask[h].id} \in SUBSET Nat
    BY <2>1
  <2>5. QED BY <1>2, <2>3, <2>4, ReadKeeps DEF TriggerSourceFetch, At
<1>3. QED BY <1>1, <1>2 DEF TriggerSourceFetch

LEMMA GetManualSourceKeeps ==
    ASSUME Inv, NEW h \in Handlers, GetManualSource(h)
    PROVE  Inv'
<1>1. phase[h] = "first" /\ ask[h].kind = "ingest"
  BY DEF GetManualSource, At
<1>2. Feeds \in SUBSET Nat /\ {} \in SUBSET Nat
  <2>1. Ids \subseteq Nat
    BY DEF Ids, Inv, TypeOK
  <2>2. QED BY <2>1 DEF Feeds, Named
<1>3. QED BY <1>1, <1>2, ReadKeeps DEF GetManualSource

LEMMA ListSourcesKeeps ==
    ASSUME Inv, NEW h \in Handlers, ListSources(h)
    PROVE  Inv'
<1> DEFINE found == {i \in Live(sources) : sources[i].type # "manual"}
<1>1. found \in SUBSET Nat /\ found \subseteq read[h] \cup Live(sources)
  BY LiveIsNat DEF Inv, TypeOK
<1>2. phase[h] = "first" /\ Reads(h, found, "send") /\ UNCHANGED jobs
  BY DEF ListSources, At
<1> HIDE DEF found
<1>3. QED BY <1>1, <1>2, ReadKeeps

LEMMA LookAtSourceKeeps ==
    ASSUME Inv, NEW h \in Handlers, LookAtSource(h)
    PROVE  Inv'
<1>1. CASE \E code : Answer(h, code)
  BY <1>1, AnswerKeeps DEF LookAtSource, Inv, JobsWereWanted
<1>2. CASE \E i \in ask[h].some \ read[h] :
              /\ Fetchable(i)
              /\ \/ Reads(h, read[h] \cup {i}, "send")
                 \/ Reads(h, read[h] \cup {i}, "first")
  <2>1. PICK i \in ask[h].some : /\ Fetchable(i)
                                /\ \/ Reads(h, read[h] \cup {i}, "send")
                                   \/ Reads(h, read[h] \cup {i}, "first")
    BY <1>2
  <2>2. i \in Ids
    BY DEF Inv, AsksFit, LookAtSource, At
  <2>3. i \in Live(sources) /\ i \in Nat
    BY <2>1, <2>2 DEF Fetchable, Live, Ids, Inv, TypeOK
  <2>4. read[h] \cup {i} \in SUBSET Nat
    BY <2>3 DEF Inv, TypeOK
  <2>5. QED BY <2>1, <2>3, <2>4, ReadKeeps DEF LookAtSource, At
<1>3. QED BY <1>1, <1>2 DEF LookAtSource

LEMMA SendKeeps ==
    ASSUME Inv, NEW h \in Handlers, Send(h)
    PROVE  Inv'
<1>1. ask[h].kind # "ingest" => \A i \in read[h] : i \in lately[h]
  BY DEF Inv, ReadsWereLive, Send
<1>2. ASSUME NEW j \in jobs', j.by # "ingest"
      PROVE  j.wanted
  <2>1. CASE j \in jobs
    BY <1>2, <2>1 DEF Inv, JobsWereWanted
  <2>2. CASE j \notin jobs
    <3>1. PICK i \in read[h] :
              j = [by |-> ask[h].kind, id |-> i, wanted |-> i \in lately[h]]
      BY <2>2 DEF Send
    <3>2. j.by = ask[h].kind
      BY <3>1
    <3>3. (i \in lately[h]) = TRUE
      BY <1>1, <1>2, <3>2
    <3>4. j = [by |-> ask[h].kind, id |-> i, wanted |-> TRUE]
      BY <3>1, <3>3, Zenon
    <3>5. QED BY <3>4
  <2>3. QED BY <2>1, <2>2
<1>3. QED BY <1>2, AnswerKeeps DEF Send, JobsWereWanted

LEMMA FailKeeps ==
    ASSUME Inv, NEW h \in Handlers, Fail(h)
    PROVE  Inv'
BY AnswerKeeps DEF Fail, Inv, JobsWereWanted

LEMMA NextKeeps == Inv /\ [Next]_vars => Inv'
<1> SUFFICES ASSUME Inv, [Next]_vars PROVE Inv'
  OBVIOUS
<1>1. CASE UNCHANGED vars
  BY <1>1 DEF vars, Inv, TypeOK, PhasesFit, AsksFit, ReadsWereLive,
              JobsWereWanted, Live, Ids
<1>2. ASSUME NEW h \in Handlers,
             \/ Receive(h) \/ CreateSource(h) \/ UpdateSource(h) \/ DeleteSource(h)
             \/ TriggerSourceFetch(h) \/ GetManualSource(h)
             \/ CreateManualSource(h) \/ ListSources(h) \/ LookAtSource(h)
             \/ Send(h) \/ Fail(h)
      PROVE  Inv'
  BY <1>2, ReceiveKeeps, CreateSourceKeeps, UpdateSourceKeeps, DeleteSourceKeeps,
     TriggerKeeps, GetManualSourceKeeps, CreateManualSourceKeeps,
     ListSourcesKeeps, LookAtSourceKeeps, SendKeeps, FailKeeps
<1>3. QED BY <1>1, <1>2 DEF Next

(***************************************************************************)
(* However handlers overlap, a fetch job is for a source that was enabled  *)
(* and not deleted at some moment of the request that sent it, unless that *)
(* feeds a URL (TriggerSourceFetch, workflowSourceIDs).                    *)
(***************************************************************************)
THEOREM FetchesWereWanted == Spec => []JobsWereWanted
<1>1. Inv => JobsWereWanted
  BY DEF Inv
<1>2. QED BY <1>1, InitInv, NextKeeps, PTL DEF Spec

-------------------------------------------------------------------------------
Acts(h) ==
    \/ Receive(h) \/ CreateSource(h) \/ UpdateSource(h) \/ DeleteSource(h)
    \/ TriggerSourceFetch(h) \/ GetManualSource(h) \/ CreateManualSource(h)
    \/ ListSources(h) \/ LookAtSource(h) \/ Send(h) \/ Fail(h)

\* A step of one handler is no step of another.
LEMMA OthersWait ==
    ASSUME Inv, NEW h \in Handlers, NEW g \in Handlers \ {h}, Acts(g)
    PROVE  phase'[h] = phase[h]
<1> USE DEF Inv, TypeOK
<1>1. CASE Receive(g)
  BY <1>1 DEF Receive
<1>2. CASE CreateSource(g) \/ UpdateSource(g) \/ DeleteSource(g)
  BY <1>2 DEF CreateSource, UpdateSource, DeleteSource, Answer, Idle
<1>3. CASE TriggerSourceFetch(g) \/ GetManualSource(g) \/ ListSources(g)
  BY <1>3 DEF TriggerSourceFetch, GetManualSource, ListSources, Answer, Idle, Reads
<1>4. CASE LookAtSource(g)
  BY <1>4 DEF LookAtSource, Answer, Idle, Reads
<1>5. CASE CreateManualSource(g)
  BY <1>5 DEF CreateManualSource
<1>6. CASE Send(g) \/ Fail(g)
  BY <1>6 DEF Send, Fail, Answer, Idle
<1>7. QED BY <1>1, <1>2, <1>3, <1>4, <1>5, <1>6 DEF Acts

LEMMA FeedsEndWell ==
    ASSUME Inv, [Next]_vars, NEW h \in Handlers,
           ask[h].kind = "ingest", phase'[h] = "idle"
    PROVE  answer'[h] \in {"ok", "cut off"}
<1>1. phase[h] # "idle"
  BY DEF Inv, PhasesFit, NoAsk
<1>2. Acts(h)
  <2>1. PICK g \in Handlers : Acts(g)
    BY <1>1 DEF Next, vars, Acts
  <2>2. QED BY <1>1, <2>1, OthersWait
<1>3. ~(Receive(h) \/ CreateSource(h) \/ UpdateSource(h) \/ DeleteSource(h)
         \/ TriggerSourceFetch(h) \/ ListSources(h) \/ LookAtSource(h))
  BY <1>1 DEF Receive, CreateSource, UpdateSource, DeleteSource,
              TriggerSourceFetch, ListSources, LookAtSource, At
<1>4. ~(GetManualSource(h) \/ CreateManualSource(h))
  BY DEF GetManualSource, CreateManualSource, Reads, Inv, TypeOK
<1>5. Send(h) \/ Fail(h)
  BY <1>2, <1>3, <1>4 DEF Acts
<1>6. QED BY <1>5 DEF Send, Fail, Answer, Idle, Inv, TypeOK

LEMMA DeletedStayDeleted ==
    ASSUME Inv, [Next]_vars, NEW i \in Ids, sources[i].archived
    PROVE  \/ sources'[i].archived
           \/ sources[i].name = "Manual Feed"
              /\ \E h \in Handlers : ask[h].kind = "ingest"
<1>1. sources \in Seq(Source) /\ sources \in [Ids -> Source]
  BY DEF Inv, TypeOK, Ids
<1>2. CASE sources' = sources
  BY <1>2
<1>3. ASSUME NEW new \in Source, sources' = Append(sources, new)
      PROVE  sources'[i].archived
  BY <1>1, <1>3, AppendProperties DEF Ids
<1>4. ASSUME NEW h \in Handlers, CreateSource(h)
      PROVE  sources'[i].archived
  <2>1. CASE sources' = sources
    BY <2>1
  <2>2. CASE sources' = Append(sources, [name |-> ask[h].name, type |-> ask[h].type,
                                         enabled |-> TRUE, archived |-> FALSE])
    <3>1. ask[h] \in [kind : {"create"}, name : Names, type : Types, url : Urls]
      BY <1>4 DEF Inv, TypeOK, Asks, NoAsk, CreateSource, At
    <3>2. [name |-> ask[h].name, type |-> ask[h].type,
           enabled |-> TRUE, archived |-> FALSE] \in Source
      BY <3>1 DEF Source
    <3>3. QED BY <1>3, <2>2, <3>2
  <2>3. QED BY <1>4, <2>1, <2>2 DEF CreateSource, Answer, Changed
<1>5. ASSUME NEW h \in Handlers, UpdateSource(h)
      PROVE  sources'[i].archived
  <2>1. CASE sources' = sources
    BY <2>1
  <2>2. CASE sources' = [sources EXCEPT ![ask[h].id] = Updated(@, ask[h].enabled)]
    BY <1>1, <2>2 DEF Updated, Source
  <2>3. CASE sources' = [sources EXCEPT ![ask[h].id].name = ask[h].name]
    BY <1>1, <2>3 DEF Source
  <2>4. QED BY <1>5, <2>1, <2>2, <2>3 DEF UpdateSource, Answer, Changed
<1>6. ASSUME NEW h \in Handlers, DeleteSource(h)
      PROVE  sources'[i].archived
  <2>1. CASE sources' = sources
    BY <2>1
  <2>2. CASE sources' = [sources EXCEPT ![ask[h].id].enabled = FALSE,
                                        ![ask[h].id].archived = TRUE]
    <3>1. sources' = [sources EXCEPT ![ask[h].id] =
                         [@ EXCEPT !.enabled = FALSE, !.archived = TRUE]]
      BY <1>1, <2>2
    <3>2. QED BY <1>1, <3>1 DEF Source
  <2>3. QED BY <1>6, <2>1, <2>2 DEF DeleteSource, Answer, Changed
<1>7. ASSUME NEW h \in Handlers, CreateManualSource(h)
      PROVE  \/ sources'[i].archived
             \/ sources[i].name = "Manual Feed" /\ ask[h].kind = "ingest"
  <2>1. ask[h].kind = "ingest"
    BY <1>7 DEF Inv, PhasesFit, CreateManualSource
  <2>2. CASE sources' = Append(sources, [name |-> "Manual Feed", type |-> "manual",
                                         enabled |-> TRUE, archived |-> FALSE])
    <3>1. [name |-> "Manual Feed", type |-> "manual",
           enabled |-> TRUE, archived |-> FALSE] \in Source
      BY DEF Source, Types
    <3>2. QED BY <1>3, <2>2, <3>1
  <2>3. CASE sources' = [k \in Ids |->
                 IF k \in Named("Manual Feed")
                 THEN [sources[k] EXCEPT !.enabled = TRUE, !.archived = FALSE]
                 ELSE sources[k]]
    <3>1. CASE i \in Named("Manual Feed")
      BY <2>1, <3>1 DEF Named
    <3>2. CASE i \notin Named("Manual Feed")
      BY <2>3, <3>2
    <3>3. QED BY <3>1, <3>2
  <2>4. QED BY <1>7, <2>2, <2>3 DEF CreateManualSource, Changed
<1>8. ASSUME NEW h \in Handlers,
             \/ Receive(h) \/ TriggerSourceFetch(h) \/ GetManualSource(h)
             \/ ListSources(h) \/ LookAtSource(h) \/ Send(h) \/ Fail(h)
      PROVE  sources' = sources
  BY <1>8 DEF Receive, TriggerSourceFetch, GetManualSource, ListSources,
              LookAtSource, Send, Fail, Reads, Answer
<1>9. QED BY <1>2, <1>4, <1>5, <1>6, <1>7, <1>8 DEF Next, vars

(***************************************************************************)
(* No feed is refused, whoever else creates or deletes the manual source   *)
(* in between, and nothing but a feed brings a deleted source back         *)
(* (IngestUrl, CreateManualSource, DeleteSource).                          *)
(***************************************************************************)
THEOREM FeedsAreServed == Spec => FeedsAreAccepted
<1> DEFINE Accepted ==
        /\ \A h \in Handlers :
               ask[h].kind = "ingest" /\ phase'[h] = "idle"
                   => answer'[h] \in {"ok", "cut off"}
        /\ \A i \in Ids :
               sources[i].archived =>
                   \/ sources'[i].archived
                   \/ sources[i].name = "Manual Feed"
                      /\ \E h \in Handlers : ask[h].kind = "ingest"
<1>1. Inv /\ [Next]_vars => [Accepted]_vars
  BY FeedsEndWell, DeletedStayDeleted
<1> HIDE DEF Accepted
<1>2. Spec => [][Accepted]_vars
  BY <1>1, InitInv, NextKeeps, PTL DEF Spec
<1>3. QED BY <1>2 DEF Accepted, FeedsAreAccepted
===============================================================================
