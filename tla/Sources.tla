-------------------------------- MODULE Sources --------------------------------
(***************************************************************************)
(* The sources of material and the requests that fetch from them           *)
(* (internal/api/m1_handlers.go and workflow_handlers.go): creating,       *)
(* changing and deleting one, fetching one at once, feeding a URL through  *)
(* the built-in manual source, and starting a run over all of them or over *)
(* some.  Each statement is a transaction of its own: a handler sends      *)
(* jobs for what it read some statements ago.                              *)
(***************************************************************************)
EXTENDS Naturals, Sequences, FiniteSets

CONSTANTS Handlers, Names, Urls,
          MaxRequests      \* bound: requests that arrive in all

VARIABLES sources,         \* the table, in the order of creation
          jobs,            \* source_fetch jobs: by which handler, for whom
          phase,           \* what each handler does next
          ask,             \* the request it works on
          read,            \* the sources it has read, still to be sent
          lately,          \* history: sources that were live since it came
          answer,          \* what it answered last
          left             \* requests still to come

vars == <<sources, jobs, phase, ask, read, lately, answer, left>>

Types == {"rss", "manual"}
Ids == DOMAIN sources
NoAsk == [kind |-> "none"]

Init ==
    /\ sources = <<>>
    /\ jobs = {}
    /\ phase = [h \in Handlers |-> "idle"]
    /\ ask = [h \in Handlers |-> NoAsk]
    /\ read = [h \in Handlers |-> {}]
    /\ lately = [h \in Handlers |-> {}]
    /\ answer = [h \in Handlers |-> "none"]
    /\ left = MaxRequests

-------------------------------------------------------------------------------
IsLive(s) == s.enabled /\ ~s.archived
Live(table) == {i \in DOMAIN table : IsLive(table[i])}

Named(name) == {i \in Ids : sources[i].name = name}

\* Every change of the table is one of these moments for all that are at work.
Changed(table) ==
    /\ sources' = table
    /\ lately' = [h \in Handlers |-> lately[h] \cup Live(table)]

Idle(h, code) ==
    /\ phase' = [phase EXCEPT ![h] = "idle"]
    /\ ask' = [ask EXCEPT ![h] = NoAsk]
    /\ read' = [read EXCEPT ![h] = {}]
    /\ answer' = [answer EXCEPT ![h] = code]

Answer(h, code) == Idle(h, code) /\ UNCHANGED <<sources, lately>>

Requests ==
         [kind : {"create"}, name : Names, type : Types, url : Urls]
    \cup [kind : {"update"}, id : Ids, enabled : BOOLEAN]
    \cup [kind : {"rename"}, id : Ids, name : Names]
    \cup [kind : {"delete", "trigger"}, id : Ids]
    \cup [kind : {"ingest", "run"}]
    \cup [kind : {"run"}, some : SUBSET Ids \ {{}}]

Receive(h) ==
    /\ phase[h] = "idle"
    /\ left > 0
    /\ left' = left - 1
    /\ \E r \in Requests : ask' = [ask EXCEPT ![h] = r]
    /\ phase' = [phase EXCEPT ![h] = "first"]
    /\ lately' = [lately EXCEPT ![h] = Live(sources)]
    /\ UNCHANGED <<sources, jobs, read, answer>>

At(h, kind) == phase[h] = "first" /\ ask[h].kind = kind
Reads(h, ids, next) ==
    /\ read' = [read EXCEPT ![h] = ids]
    /\ phase' = [phase EXCEPT ![h] = next]
    /\ UNCHANGED <<sources, lately, ask, answer>>

ValidURL(r) == r.type = "manual" \/ r.url = "http"

\* sources_name_key holds for deleted sources too.
CreateSource(h) ==
    LET r == ask[h] IN
    /\ At(h, "create")
    /\ IF ~ValidURL(r) THEN Answer(h, "invalid_url")
       ELSE IF Named(r.name) # {} THEN Answer(h, "duplicate_name")
       ELSE /\ Changed(Append(sources, [name |-> r.name, type |-> r.type,
                                        enabled |-> TRUE, archived |-> FALSE]))
            /\ Idle(h, "ok")
    /\ UNCHANGED <<jobs, left>>

\* UpdateSource does not ask whether the source was deleted.
Updated(s, enabled) == [s EXCEPT !.enabled = enabled]

UpdateSource(h) ==
    LET r == ask[h] IN
    /\ \/ /\ At(h, "update")
          /\ Changed([sources EXCEPT ![r.id] = Updated(@, r.enabled)])
          /\ Idle(h, "ok")
       \/ /\ At(h, "rename")
          /\ IF Named(r.name) \subseteq {r.id}
             THEN /\ Changed([sources EXCEPT ![r.id].name = r.name])
                  /\ Idle(h, "ok")
             ELSE Answer(h, "internal")
    /\ UNCHANGED <<jobs, left>>

DeleteSource(h) ==
    LET i == ask[h].id IN
    /\ At(h, "delete")
    /\ IF sources[i].archived THEN Answer(h, "not_found")
       ELSE /\ Changed([sources EXCEPT ![i].enabled = FALSE, ![i].archived = TRUE])
            /\ Idle(h, "ok")
    /\ UNCHANGED <<jobs, left>>

\* Mutant of Fetchable: a source that is disabled is fetched too.
NotDeleted(i) == ~sources[i].archived

\* GetSource finds what is not deleted; the handler asks whether it is enabled.
Fetchable(i) == IsLive(sources[i])

TriggerSourceFetch(h) ==
    /\ At(h, "trigger")
    /\ IF Fetchable(ask[h].id)
       THEN Reads(h, {ask[h].id}, "send")
       ELSE Answer(h, "refused")
    /\ UNCHANGED <<jobs, left>>

\* The manual source is found whether it is enabled or not.
Feeds ==
    {i \in Named("Manual Feed") : sources[i].type = "manual" /\ ~sources[i].archived}

GetManualSource(h) ==
    /\ At(h, "ingest")
    /\ IF Feeds # {} THEN Reads(h, Feeds, "send") ELSE Reads(h, {}, "create")
    /\ UNCHANGED <<jobs, left>>

\* Mutant of CreateManualSource: an insert without on conflict.
InsertManualSource(h) ==
    /\ phase[h] = "create"
    /\ IF Named("Manual Feed") # {}
       THEN Idle(h, "internal") /\ UNCHANGED <<sources, lately>>
       ELSE /\ Changed(Append(sources, [name |-> "Manual Feed", type |-> "manual",
                                        enabled |-> TRUE, archived |-> FALSE]))
            /\ read' = [read EXCEPT ![h] = {Len(sources) + 1}]
            /\ phase' = [phase EXCEPT ![h] = "send"]
            /\ UNCHANGED <<ask, answer>>
    /\ UNCHANGED <<jobs, left>>

(***************************************************************************)
(* CreateManualSource: whatever has the name is enabled and brought back,  *)
(* of whichever type it is; only when nothing has it a row is inserted.    *)
(***************************************************************************)
CreateManualSource(h) ==
    LET feed == [name |-> "Manual Feed", type |-> "manual",
                 enabled |-> TRUE, archived |-> FALSE]
        old == Named("Manual Feed")
    IN
    /\ phase[h] = "create"
    /\ \/ /\ old = {}
          /\ Changed(Append(sources, feed))
          /\ read' = [read EXCEPT ![h] = {Len(sources) + 1}]
       \/ /\ old # {}
          /\ Changed([i \in Ids |->
                 IF i \in old
                 THEN [sources[i] EXCEPT !.enabled = TRUE, !.archived = FALSE]
                 ELSE sources[i]])
          /\ read' = [read EXCEPT ![h] = old]
    /\ phase' = [phase EXCEPT ![h] = "send"]
    /\ UNCHANGED <<jobs, ask, answer, left>>

(***************************************************************************)
(* workflowSourceIDs: without a choice all that are live and have a URL,   *)
(* in one statement; of a choice every source, in a statement each, and    *)
(* none may be disabled or deleted when it is looked at.                   *)
(***************************************************************************)
ListSources(h) ==
    /\ At(h, "run") /\ "some" \notin DOMAIN ask[h]
    /\ Reads(h, {i \in Live(sources) : sources[i].type # "manual"}, "send")
    /\ UNCHANGED <<jobs, left>>

LookAtSource(h) ==
    /\ At(h, "run") /\ "some" \in DOMAIN ask[h]
    /\ \E i \in ask[h].some \ read[h] :
        IF Fetchable(i)
        THEN Reads(h, read[h] \cup {i},
                   IF read[h] \cup {i} = ask[h].some THEN "send" ELSE "first")
        ELSE Answer(h, "invalid_source")
    /\ UNCHANGED <<jobs, left>>

\* One transaction sends what was read, all of it.
Send(h) ==
    /\ phase[h] = "send"
    /\ jobs' = jobs \cup {[by |-> ask[h].kind, id |-> i,
                           wanted |-> i \in lately[h]] : i \in read[h]}
    /\ Answer(h, "ok")
    /\ UNCHANGED left

Fail(h) ==
    /\ phase[h] # "idle"
    /\ Answer(h, "cut off")
    /\ UNCHANGED <<jobs, left>>

Next ==
    \E h \in Handlers :
        \/ Receive(h) \/ CreateSource(h) \/ UpdateSource(h) \/ DeleteSource(h)
        \/ TriggerSourceFetch(h) \/ GetManualSource(h) \/ CreateManualSource(h)
        \/ ListSources(h) \/ LookAtSource(h) \/ Send(h) \/ Fail(h)

Spec == Init /\ [][Next]_vars

-------------------------------------------------------------------------------
(***************************************************************************)
(* A job is for a source that was enabled and not deleted at some moment   *)
(* of the request that sent it: a request may miss a change made while it  *)
(* runs, never one made before it came.  Feeding a URL is not bound to     *)
(* this: it goes to the manual source even while that is disabled.         *)
(***************************************************************************)
JobsWereWanted == \A j \in jobs : j.by # "ingest" => j.wanted

(***************************************************************************)
(* Two people who feed the first URL at the same time are both served: no  *)
(* feed is refused, however the manual source comes into being.  And a     *)
(* deleted source stays deleted, unless it has the name of the feed.       *)
(***************************************************************************)
FeedsAreAccepted ==
    [][/\ \A h \in Handlers :
           ask[h].kind = "ingest" /\ phase'[h] = "idle"
               => answer'[h] \in {"ok", "cut off"}
       /\ \A i \in Ids :
           sources[i].archived =>
               \/ sources'[i].archived
               \/ sources[i].name = "Manual Feed"
                  /\ \E h \in Handlers : ask[h].kind = "ingest"]_vars
===============================================================================
