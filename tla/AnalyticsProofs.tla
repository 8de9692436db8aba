-------------------------- MODULE AnalyticsProofs ---------------------------
(***************************************************************************)
(* The clicks table, its retention and its statistics, for any number of    *)
(* clicks, workers, URLs and readers and any limits.                       *)
(***************************************************************************)
EXTENDS Analytics, ServerProofs, FunctionTheorems

\* The pipeline of Server goes on under the table's other users: every step is
\* one of its own or leaves it alone.
THEOREM AnalyticsKeepsServer == AnalyticsSpec => ServerSpec
<1>1. AnalyticsInit => ServerInit  BY DEF AnalyticsInit
<1>2. [AnalyticsNext]_analyticsVars => [ServerNext]_serverVars
  <2> SUFFICES ASSUME [AnalyticsNext]_analyticsVars  PROVE ServerNext \/ UNCHANGED serverVars
    OBVIOUS
  <2>1. ASSUME NEW c \in Clicks, SubmitClick(c)  PROVE ServerNext
    BY <2>1 DEF SubmitClick, ServerNext
  <2>2. ASSUME NEW w \in Workers, WorkClick(w)  PROVE ServerNext
    BY <2>2 DEF WorkClick, ServerNext
  <2>3. ASSUME NEW q \in Readers, GetStats(q)  PROVE UNCHANGED serverVars
    BY <2>3 DEF GetStats
  <2>4. CASE Lifecycle  BY <2>4 DEF Lifecycle, ServerNext
  <2>5. CASE CleanupClicks \/ DayPasses  BY <2>5 DEF CleanupClicks, DayPasses
  <2>6. CASE UNCHANGED analyticsVars  BY <2>6 DEF analyticsVars
  <2> QED  BY <2>1, <2>2, <2>3, <2>4, <2>5, <2>6 DEF AnalyticsNext
<1> QED  BY <1>1, <1>2, PTL DEF AnalyticsSpec, ServerSpec

-----------------------------------------------------------------------------
(* What the steps do to the table.                                          *)

\* A click's row comes from a worker that is about to insert it.
LEMMA RowsCome ==
  ASSUME ServerTypeOK, [ServerNext]_serverVars, NEW c \in Clicks
  PROVE  \/ inserted'[c] = inserted[c]
         \/ inserted'[c] = inserted[c] + 1 /\ AtWorker(c, "insert")
<1>0. inserted \in [Clicks -> Nat]  BY DEF ServerTypeOK, DispatcherTypeOK
<1>1. ASSUME NEW w \in Workers, InsertClick(w)
      PROVE  \/ inserted'[c] = inserted[c]
             \/ inserted'[c] = inserted[c] + 1 /\ AtWorker(c, "insert")
  <2>1. /\ wk[w].pc = "insert"
        /\ inserted' = inserted \/ inserted' = [inserted EXCEPT ![wk[w].click] = @ + 1]
    BY <1>1 DEF InsertClick
  <2> QED  BY <1>0, <2>1 DEF AtWorker
<1>2. UNCHANGED inserted \/ \E w \in Workers : InsertClick(w)
  BY DEF ServerNext, Accept, Submit, Enqueue, HandOver, Drop, SendPanics, Work, WorkerStep, Receive,
         Return, TouchUrl, CountClick, Signal, ListenerError, HttpShutdown, CloseDispatcher,
         CloseEvents, WorkersDone, DrainTimeout, Goto, Exit, dispatcherVars, serverVars
<1> QED  BY <1>1, <1>2

\* A queued click stays queued.
LEMMA QueuedStays ==
  ASSUME ServerTypeOK, [ServerNext]_serverVars, NEW c \in Clicks, handler[c] = "queued"
  PROVE  handler'[c] = "queued"
<1>0. handler \in [Clicks -> {"new", "busy", "queued", "dropped", "panicked"}]  BY DEF ServerTypeOK
<1>1. ASSUME NEW d \in Clicks, Accept(d) \/ Submit(d)  PROVE handler'[c] = "queued"
  <2>1. handler[d] # "queued" /\ \E h : handler' = [handler EXCEPT ![d] = h]
    BY <1>1 DEF Accept, Submit
  <2> QED  BY <1>0, <2>1
<1>2. UNCHANGED handler \/ \E d \in Clicks : Accept(d) \/ Submit(d)
  BY DEF ServerNext, Work, Signal, ListenerError, HttpShutdown, CloseDispatcher,
         WorkersDone, DrainTimeout, Goto, Exit, serverVars
<1> QED  BY <1>1, <1>2

OnItsWay(c) == InChannel(c) \/ AtWorker(c, "insert")

\* A click gets on its way to the table only by its own Submit.
LEMMA WayStarts ==
  ASSUME ServerTypeOK, DeliveryInv, [ServerNext]_serverVars, NEW c \in Clicks, ~Submit(c), OnItsWay(c)'
  PROVE  OnItsWay(c)
<1>0. /\ events \in Seq(Clicks)
      /\ wk \in [Workers -> [pc : {"receive", "returned"}, click : {NoClick}]
                      \cup [pc : {"insert", "update", "count"}, click : Clicks]]
  BY DEF ServerTypeOK, DispatcherTypeOK
<1>1. CASE UNCHANGED << events, wk >>  BY <1>1 DEF OnItsWay, InChannel, AtWorker
<1>2. ASSUME NEW d \in Clicks, Submit(d), ~UNCHANGED << events, wk >>  PROVE OnItsWay(c)
  <2>0. d # c  BY <1>2
  <2>1. CASE Enqueue(d)
    <3>1. events' = Append(events, d) /\ wk' = wk  BY <2>1 DEF Enqueue
    <3>2. InChannel(c)' => InChannel(c)
      <4>1. /\ DOMAIN events = 1 .. Len(events) /\ Len(events) \in Nat
            /\ DOMAIN events' = 1 .. Len(events) + 1
            /\ \A i \in 1 .. Len(events) : events'[i] = events[i]
            /\ events'[Len(events) + 1] = d
        BY <1>0, <3>1, ChannelAppend
      <4>2. ASSUME NEW i \in DOMAIN events', events'[i] = c  PROVE i \in DOMAIN events /\ events[i] = c
        BY <2>0, <4>1, <4>2
      <4> QED  BY <4>2 DEF InChannel
    <3> QED  BY <3>1, <3>2 DEF OnItsWay, AtWorker
  <2>2. CASE HandOver(d)
    <3>1. events' = events  BY <2>2 DEF HandOver
    <3>2. PICK w \in Workers : wk' = [wk EXCEPT ![w] = [pc |-> "insert", click |-> d]]
      BY <2>2 DEF HandOver
    <3>3. ASSUME NEW v \in Workers, wk'[v].pc = "insert", wk'[v].click = c  PROVE wk[v] = wk'[v]
      BY <1>0, <2>0, <3>2, <3>3
    <3> QED  BY <3>1, <3>3 DEF OnItsWay, InChannel, AtWorker
  <2> QED  BY <1>2, <2>1, <2>2 DEF Submit, Drop, SendPanics, dispatcherVars
<1>3. ASSUME NEW w \in Workers, Receive(w)  PROVE OnItsWay(c)
  <2>1. /\ events # << >> /\ events' = Tail(events)
        /\ wk' = [wk EXCEPT ![w] = [pc |-> "insert", click |-> Head(events)]]
    BY <1>3 DEF Receive
  <2>2. /\ InChannel(Head(events)) /\ \A d \in Clicks : InChannel(d)' => InChannel(d)
    BY <2>1, ReceiveChannel DEF DeliveryInv, OnePlace, Distinct
  <2>3. ASSUME NEW v \in Workers, wk'[v].pc = "insert", wk'[v].click = c  PROVE wk[v] = wk'[v] \/ c = Head(events)
    BY <1>0, <2>1, <2>3
  <2> QED  BY <2>2, <2>3 DEF OnItsWay, AtWorker
<1>4. ASSUME NEW w \in Workers, Return(w) \/ InsertClick(w) \/ TouchUrl(w) \/ CountClick(w)
      PROVE  OnItsWay(c)
  <2>1. /\ events' = events
        /\ \E rec : wk' = [wk EXCEPT ![w] = rec] /\ rec.pc # "insert"
    BY <1>0, <1>4 DEF Return, InsertClick, TouchUrl, CountClick
  <2>2. ASSUME NEW v \in Workers, wk'[v].pc = "insert"  PROVE wk[v] = wk'[v]
    BY <1>0, <2>1, <2>2
  <2> QED  BY <2>1, <2>2 DEF OnItsWay, InChannel, AtWorker
<1> QED  BY <1>1, <1>2, <1>3, <1>4
         DEF ServerNext, Accept, Work, WorkerStep, Signal, ListenerError, HttpShutdown,
             CloseDispatcher, CloseEvents, WorkersDone, DrainTimeout, Goto, Exit, dispatcherVars, serverVars

-----------------------------------------------------------------------------
(* Types.                                                                   *)

\* Sets of clicks can be counted, and a larger one counts no less.
LEMMA ClickCounts ==
  ASSUME NEW S \in SUBSET Clicks
  PROVE  /\ IsFiniteSet(S) /\ Cardinality(S) \in Nat
         /\ \A T \in SUBSET S : IsFiniteSet(T) /\ Cardinality(T) \in Nat /\ Cardinality(T) <= Cardinality(S)
BY FS_Subset, FS_CardinalityType, DispatcherAssumption

\* The numbers that the statements give are numbers of rows.
LEMMA CountsAreNats ==
  ASSUME NEW id
  PROVE  /\ CountByURLID(id) \in Nat /\ CountByURLID(id) <= Cardinality(RowsOf(id))
         /\ GroupByDay(id, StatsDays) \in Nat /\ GroupByDay(id, StatsDays) <= Cardinality(RowsOf(id))
         /\ \A top \in TopUserAgents(id, StatsAgents) : top \in Nat /\ top <= Cardinality(RowsOf(id))
<1>1. RowsOf(id) \in SUBSET Clicks  BY DEF RowsOf, ClickRows
<1>2. \A A : OfAgents(id, A) \in Nat /\ OfAgents(id, A) <= Cardinality(RowsOf(id))
  <2> TAKE A
  <2> DEFINE T == {c \in RowsOf(id) : Agent[c] \in A}
  <2>1. T \in SUBSET RowsOf(id)  OBVIOUS
  <2>2. Cardinality(T) \in Nat /\ Cardinality(T) <= Cardinality(RowsOf(id))
    BY <1>1, <2>1, ClickCounts
  <2> QED  BY <2>2 DEF OfAgents
<1>3. GroupByDay(id, StatsDays) \in Nat /\ GroupByDay(id, StatsDays) <= Cardinality(RowsOf(id))
  <2> DEFINE T == {c \in RowsOf(id) : at[c] >= day - StatsDays}
  <2>1. T \in SUBSET RowsOf(id)  OBVIOUS
  <2>2. Cardinality(T) \in Nat /\ Cardinality(T) <= Cardinality(RowsOf(id))
    BY <1>1, <2>1, ClickCounts
  <2> QED  BY <2>2 DEF GroupByDay
<1>4. CountByURLID(id) \in Nat /\ CountByURLID(id) <= Cardinality(RowsOf(id))
  BY <1>1, ClickCounts DEF CountByURLID
<1>5. ASSUME NEW top \in TopUserAgents(id, StatsAgents)  PROVE \E A : top = OfAgents(id, A)
  BY <1>5 DEF TopUserAgents
<1> QED  BY <1>2, <1>3, <1>4, <1>5

\* What one statement of GetStats does to its locals.
Reads(q, rec) ==
  \/ rec = [st[q] EXCEPT !.pc = "done", !.reply = "404"] /\ st[q].pc = "idle"
  \/ rec = [st[q] EXCEPT !.pc = "done", !.reply = "500"] /\ st[q].pc # "done"
  \/ st[q].pc = "idle" /\ \E id \in UrlIds : rec = [st[q] EXCEPT !.pc = "count", !.id = id]
  \/ st[q].pc = "count" /\ rec = [st[q] EXCEPT !.pc = "byday", !.total = CountByURLID(st[q].id)]
  \/ st[q].pc = "byday" /\ rec = [st[q] EXCEPT !.pc = "agents", !.days = GroupByDay(st[q].id, StatsDays)]
  \/ /\ st[q].pc = "agents"
     /\ \E top \in TopUserAgents(st[q].id, StatsAgents) :
          rec = [st[q] EXCEPT !.pc = "done", !.top = top, !.reply = "200"]

\* A request for statistics writes its own locals: it starts on a row and
\* reads, one statement after the other, numbers that the table has.
LEMMA ReaderWrites ==
  ASSUME AnalyticsTypeOK, NEW q \in Readers, GetStats(q)
  PROVE  \E rec : st' = [st EXCEPT ![q] = rec] /\ Reads(q, rec)
<1>1. CASE StatsFind(q)  BY <1>1 DEF StatsFind, StatsGoto, Reads
<1>2. CASE StatsCount(q)  BY <1>2 DEF StatsCount, StatsGoto, Reads
<1>3. CASE StatsByDay(q)  BY <1>3 DEF StatsByDay, StatsGoto, Reads
<1>4. CASE StatsTop(q)  BY <1>4 DEF StatsTop, StatsGoto, Reads
<1>5. CASE StatsFails(q)  BY <1>5 DEF StatsFails, StatsGoto, Reads
<1> QED  BY <1>1, <1>2, <1>3, <1>4, <1>5 DEF GetStats

\* Each statement leaves the request's locals well typed.
LEMMA ReaderTypes ==
  ASSUME AnalyticsTypeOK, NEW q \in Readers, GetStats(q)
  PROVE  st' \in [Readers -> StatsState]
<1>1. PICK rec : st' = [st EXCEPT ![q] = rec] /\ Reads(q, rec)  BY ReaderWrites
<1>2. st \in [Readers -> StatsState]  BY DEF AnalyticsTypeOK
<1>3. rec \in StatsState
  <2>1. /\ CountByURLID(st[q].id) \in Nat /\ GroupByDay(st[q].id, StatsDays) \in Nat
        /\ \A top \in TopUserAgents(st[q].id, StatsAgents) : top \in Nat
    BY CountsAreNats
  <2> QED  BY <1>1, <1>2, <2>1 DEF StatsState, Reads
<1> QED  BY <1>1, <1>2, <1>3

\* The foreign key: a row that comes has its URL.
LEMMA ForeignKey ==
  ASSUME AnalyticsTypeOK, [AnalyticsNext]_analyticsVars, NEW c \in Clicks, inserted'[c] > 0
  PROVE  Target[c] \in UrlIds
<1>0. /\ inserted \in [Clicks -> Nat]
      /\ \A d \in Clicks : inserted[d] > 0 => Target[d] \in UrlIds
  BY DEF AnalyticsTypeOK, ServerTypeOK, DispatcherTypeOK
<1>1. CASE UNCHANGED inserted  BY <1>0, <1>1
<1>2. ASSUME NEW w \in Workers, WorkClick(w), ~UNCHANGED inserted  PROVE Target[c] \in UrlIds
  <2>1. InsertClick(w)
    BY <1>2 DEF WorkClick, Work, WorkerStep, Receive, Return, TouchUrl, CountClick
  <2>2. inserted' = [inserted EXCEPT ![wk[w].click] = @ + 1] /\ wk[w].pc = "insert"
    BY <1>2, <2>1 DEF InsertClick
  <2>3. CASE c = wk[w].click  BY <1>2, <2>3 DEF WorkClick, RefusesRow
  <2>4. CASE c # wk[w].click  BY <1>0, <2>2, <2>4
  <2> QED  BY <2>3, <2>4
<1> QED  BY <1>1, <1>2
         DEF AnalyticsNext, SubmitClick, Submit, Enqueue, HandOver, Drop, SendPanics, GetStats, Lifecycle,
             Accept, Signal, ListenerError, HttpShutdown, CloseDispatcher, CloseEvents, WorkersDone,
             DrainTimeout, Goto, Exit, CleanupClicks, DayPasses, dispatcherVars, serverVars, analyticsVars

\* The clock, the ticker and the rows that retention deletes.
LEMMA ClockStep ==
  ASSUME AnalyticsTypeOK, keeper.sweeps + Due <= day, [AnalyticsNext]_analyticsVars
  PROVE  /\ day' \in 0 .. MaxDay /\ at' \in [Clicks -> 0 .. day'] /\ deleted' \subseteq deleted \cup ClickRows
         /\ keeper' \in [fired : BOOLEAN, sweeps : 0 .. day'] /\ (keeper.sweeps + Due <= day)'
<1>0. /\ day \in 0 .. MaxDay /\ at \in [Clicks -> 0 .. day] /\ MaxDay \in Nat
      /\ keeper \in [fired : BOOLEAN, sweeps : 0 .. day]
  BY AnalyticsAssumption DEF AnalyticsTypeOK
<1>1. ASSUME NEW c \in Clicks, SubmitClick(c)
      PROVE  at' \in [Clicks -> 0 .. day] /\ UNCHANGED << day, deleted, keeper >>
  BY <1>0, <1>1 DEF SubmitClick
<1>2. CASE UNCHANGED << day, deleted, keeper >> /\ at' \in [Clicks -> 0 .. day]
  BY <1>0, <1>2 DEF Due
<1>3. CASE CleanupClicks
  <2>1. UNCHANGED << day, at >> /\ keeper.fired  BY <1>3 DEF CleanupClicks
  <2>2. /\ \/ keeper' = [fired |-> FALSE, sweeps |-> keeper.sweeps + 1]
           \/ keeper' = [keeper EXCEPT !.fired = FALSE]
        /\ \/ \E S \in DeleteOlderThan(RetentionDays) : deleted' = deleted \cup S
           \/ deleted' = deleted
    BY <1>3 DEF CleanupClicks
  <2>3. \A S \in DeleteOlderThan(RetentionDays) : S \subseteq ClickRows
    BY DEF DeleteOlderThan, Old
  <2>4. deleted' \subseteq deleted \cup ClickRows  BY <2>2, <2>3
  <2>5. keeper' = [fired |-> FALSE, sweeps |-> keeper.sweeps + 1] \/ keeper' = [fired |-> FALSE, sweeps |-> keeper.sweeps]
    BY <1>0, <2>2
  <2>6. Due = 1 /\ Due' = 0  BY <2>1, <2>5 DEF Due
  <2>7. keeper'.sweeps \in 0 .. day /\ (keeper.sweeps + Due <= day)'
    BY <1>0, <2>1, <2>5, <2>6
  <2>8. keeper' \in [fired : BOOLEAN, sweeps : 0 .. day']
    <3>1. PICK n : n = keeper'.sweeps  OBVIOUS
    <3>2. keeper' = [fired |-> FALSE, sweeps |-> n] /\ n \in 0 .. day  BY <2>5, <2>7, <3>1
    <3> QED  BY <2>1, <3>2
  <2> QED  BY <1>0, <2>1, <2>4, <2>7, <2>8
<1>4. CASE DayPasses
  <2>1. /\ day < MaxDay /\ ~keeper.fired /\ day' = day + 1 /\ keeper' = [keeper EXCEPT !.fired = TRUE]
        /\ UNCHANGED << at, deleted >>
    BY <1>4 DEF DayPasses
  <2>2. Due = 0 /\ Due' = 1  BY <1>0, <2>1 DEF Due
  <2>3. keeper' = [fired |-> TRUE, sweeps |-> keeper.sweeps]  BY <1>0, <2>1
  <2>4. day \in Nat /\ day + 1 \in 0 .. MaxDay /\ 0 .. day \subseteq 0 .. day + 1  BY <1>0, <2>1
  <2>5. at' \in [Clicks -> 0 .. day']  BY <1>0, <2>1, <2>4
  <2>6. keeper' \in [fired : BOOLEAN, sweeps : 0 .. day']  BY <1>0, <2>1, <2>3, <2>4
  <2>7. (keeper.sweeps + Due <= day)'  BY <1>0, <2>1, <2>2, <2>3
  <2> QED  BY <2>1, <2>4, <2>5, <2>6, <2>7
<1> QED  BY <1>0, <1>1, <1>2, <1>3, <1>4
         DEF AnalyticsNext, WorkClick, GetStats, Lifecycle, analyticsVars

\* The type invariant, with the ticker never ahead of the clock, is inductive.
LEMMA AnalyticsTypeStep ==
  ASSUME AnalyticsTypeOK, keeper.sweeps + Due <= day, ServerTypeOK', [AnalyticsNext]_analyticsVars,
         [ServerNext]_serverVars
  PROVE  AnalyticsTypeOK' /\ (keeper.sweeps + Due <= day)'
<1>0. ServerTypeOK /\ inserted \in [Clicks -> Nat] /\ inserted' \in [Clicks -> Nat]
  BY DEF AnalyticsTypeOK, ServerTypeOK, DispatcherTypeOK
<1>1. \A c \in Clicks : inserted'[c] > 0 => Target[c] \in UrlIds  BY ForeignKey
<1>2. \A c \in Clicks : inserted[c] > 0 => inserted'[c] > 0
  <2> TAKE c \in Clicks
  <2>1. inserted'[c] = inserted[c] \/ inserted'[c] = inserted[c] + 1  BY <1>0, RowsCome
  <2> QED  BY <1>0, <2>1
<1>3. deleted' \subseteq {c \in Clicks : inserted'[c] > 0}
  BY <1>2, ClockStep DEF AnalyticsTypeOK, ClickRows
<1>4. st' \in [Readers -> StatsState]
  <2>1. st' = st \/ \E q \in Readers : GetStats(q)
    BY DEF AnalyticsNext, SubmitClick, WorkClick, Lifecycle, CleanupClicks, DayPasses, analyticsVars
  <2> QED  BY <2>1, ReaderTypes DEF AnalyticsTypeOK
<1> QED  BY <1>1, <1>3, <1>4, ClockStep DEF AnalyticsTypeOK

-----------------------------------------------------------------------------
(* The most frequent agents.                                                *)

\* The smaller of two finite sets fits into the other.
LEMMA FitsInto ==
  ASSUME NEW S, NEW T, IsFiniteSet(S), IsFiniteSet(T), Cardinality(S) <= Cardinality(T)
  PROVE  \E f \in [S -> T] : \A x, y \in S : f[x] = f[y] => x = y
<1>1. /\ Cardinality(S) \in Nat /\ Cardinality(T) \in Nat
      /\ ExistsBijection(S, 1 .. Cardinality(S)) /\ ExistsBijection(1 .. Cardinality(T), T)
  BY FS_CardinalityType, Fun_ExistsBijSymmetric
<1>2. PICK g \in Bijection(S, 1 .. Cardinality(S)) : TRUE  BY <1>1 DEF ExistsBijection
<1>3. PICK h \in Bijection(1 .. Cardinality(T), T) : TRUE  BY <1>1 DEF ExistsBijection
<1>4. /\ g \in [S -> 1 .. Cardinality(S)] /\ \A x, y \in S : g[x] = g[y] => x = y
      /\ h \in [1 .. Cardinality(T) -> T] /\ \A i, j \in 1 .. Cardinality(T) : h[i] = h[j] => i = j
  <2>0. g \in Injection(S, 1 .. Cardinality(S))  BY <1>2, Fun_BijectionProperties
  <2>1. g \in [S -> 1 .. Cardinality(S)] /\ \A x, y \in S : g[x] = g[y] => x = y
    BY <2>0, Fun_InjectionProperties
  <2>2. h \in [1 .. Cardinality(T) -> T] /\ \A i, j \in 1 .. Cardinality(T) : h[i] = h[j] => i = j
    BY <1>3, Fun_BijectionProperties
  <2> QED  BY <2>1, <2>2
<1>5. 1 .. Cardinality(S) \subseteq 1 .. Cardinality(T)  BY <1>1
<1> DEFINE f == [x \in S |-> h[g[x]]]
<1>6. \A x \in S : g[x] \in 1 .. Cardinality(T)  BY <1>4, <1>5
<1>7. f \in [S -> T]  BY <1>4, <1>6
<1>8. ASSUME NEW x \in S, NEW y \in S, f[x] = f[y]  PROVE x = y  BY <1>4, <1>6, <1>8
<1> QED  BY <1>7, <1>8

Having(R, A) == {c \in R : Agent[c] \in A}

\* When each agent of B has no fewer clicks than each agent of O, their clicks
\* are at least in proportion: a click of O, with an agent a of B, is matched
\* by a click of a's, with the agent of the first.
LEMMA Proportion ==
  ASSUME NEW R \in SUBSET Clicks, NEW B, NEW O, IsFiniteSet(B), IsFiniteSet(O),
         \A a \in B, b \in O : Cardinality(Having(R, {b})) <= Cardinality(Having(R, {a}))
  PROVE  Cardinality(Having(R, O)) * Cardinality(B) <= Cardinality(Having(R, B)) * Cardinality(O)
<1>0. \A A : Having(R, A) \in SUBSET Clicks /\ IsFiniteSet(Having(R, A))
  BY ClickCounts DEF Having
<1> DEFINE Fits(f, b, a) ==
             /\ f \in [Having(R, {b}) -> Having(R, {a})]
             /\ \A x, y \in Having(R, {b}) : f[x] = f[y] => x = y
           Match(b, a) == CHOOSE f : Fits(f, b, a)
           S == Having(R, O) \X B
           T == Having(R, B) \X O
           F == [p \in S |-> << Match(Agent[p[1]], p[2])[p[1]], Agent[p[1]] >>]
<1>1. ASSUME NEW a \in B, NEW b \in O  PROVE Fits(Match(b, a), b, a)
  <2>1. \E f \in [Having(R, {b}) -> Having(R, {a})] : \A x, y \in Having(R, {b}) : f[x] = f[y] => x = y
    BY <1>0, FitsInto
  <2>2. \E f : Fits(f, b, a)  BY <2>1
  <2> QED  BY <2>2
<1> HIDE DEF Match
<1>2. ASSUME NEW p \in S
      PROVE  /\ Agent[p[1]] \in O /\ p[1] \in Having(R, {Agent[p[1]]}) /\ p[2] \in B
             /\ F[p][1] = Match(Agent[p[1]], p[2])[p[1]]
             /\ F[p][1] \in Having(R, {p[2]}) /\ F[p][2] = Agent[p[1]]
             /\ F[p] \in T
  <2>1. Agent[p[1]] \in O /\ p[1] \in Having(R, {Agent[p[1]]}) /\ p[2] \in B
    BY DEF Having
  <2>2. F[p] = << Match(Agent[p[1]], p[2])[p[1]], Agent[p[1]] >>  OBVIOUS
  <2>3. Fits(Match(Agent[p[1]], p[2]), Agent[p[1]], p[2])  BY <1>1, <2>1
  <2>4. Match(Agent[p[1]], p[2])[p[1]] \in Having(R, {p[2]})  BY <2>1, <2>3
  <2>5. Having(R, {p[2]}) \subseteq Having(R, B)  BY <2>1 DEF Having
  <2> QED  BY <2>1, <2>2, <2>4, <2>5
<1>3. ASSUME NEW p \in S, NEW r \in S, F[p] = F[r]  PROVE p = r
  <2>1. Agent[p[1]] = Agent[r[1]] /\ F[p][1] = F[r][1]  BY <1>2, <1>3
  <2>2. p[2] = r[2]
    <3>1. F[p][1] \in Having(R, {p[2]}) /\ F[r][1] \in Having(R, {r[2]})  BY <1>2
    <3> QED  BY <2>1, <3>1 DEF Having
  <2>3. Fits(Match(Agent[p[1]], p[2]), Agent[p[1]], p[2])  BY <1>1, <1>2
  <2>4. /\ p[1] \in Having(R, {Agent[p[1]]}) /\ r[1] \in Having(R, {Agent[p[1]]})
        /\ Match(Agent[p[1]], p[2])[p[1]] = Match(Agent[p[1]], p[2])[r[1]]
    BY <1>2, <2>1, <2>2
  <2>5. p[1] = r[1]  BY <2>3, <2>4
  <2> QED  BY <2>2, <2>5
<1>4. F \in [S -> T]  BY <1>2
<1> HIDE DEF F
<1>5. F \in Injection(S, T)  BY <1>3, <1>4, Fun_IsInj
<1>6. /\ IsFiniteSet(T) /\ Cardinality(T) = Cardinality(Having(R, B)) * Cardinality(O)
      /\ Cardinality(S) = Cardinality(Having(R, O)) * Cardinality(B)
  BY <1>0, FS_Product
<1>7. Cardinality(S) <= Cardinality(T)  BY <1>5, <1>6, FS_Injection
<1> QED  BY <1>6, <1>7

\* Multiplication respects the order of the naturals.
LEMMA Products ==
  ASSUME NEW a \in Nat, NEW b \in Nat, NEW c \in Nat, NEW d \in Nat, a <= b, c <= d
  PROVE  a * c <= b * d
<1>1. PICK e \in Nat : b = a + e  BY b - a \in Nat
<1>2. PICK f \in Nat : d = c + f  BY d - c \in Nat
<1>3. b * d = (a * c + e * c) + (a * f + e * f)  BY <1>1, <1>2
<1>4. e * c \in Nat /\ a * f \in Nat /\ e * f \in Nat /\ a * c \in Nat  OBVIOUS
<1> QED  BY <1>3, <1>4

\* The agents of a set of clicks can be counted.
LEMMA AgentCounts ==
  ASSUME NEW S \in SUBSET Clicks
  PROVE  LET G == {Agent[c] : c \in S} IN IsFiniteSet(G) /\ Cardinality(G) \in Nat
<1> DEFINE G == {Agent[c] : c \in S}
           F == [c \in S |-> Agent[c]]
<1>1. F \in [S -> G] /\ \A g \in G : \E c \in S : F[c] = g  OBVIOUS
<1>2. IsFiniteSet(S)  BY ClickCounts
<1> HIDE DEF F, G
<1>3. F \in Surjection(S, G)  BY <1>1, Fun_IsSurj
<1>4. IsFiniteSet(G)  BY <1>2, <1>3, FS_Surjection
<1> QED  BY <1>4, FS_CardinalityType DEF G

AgentsOf(id) == Cardinality({Agent[c] : c \in {d \in Clicks : Target[d] = id}})

\* The list of the most frequent agents covers its share of the rows.
LEMMA TopCovers ==
  ASSUME NEW id, NEW top \in TopUserAgents(id, StatsAgents), NEW n \in Nat, n <= Cardinality(RowsOf(id))
  PROVE  top * AgentsOf(id) >= n * Lesser(AgentsOf(id), StatsAgents)
<1> DEFINE R == RowsOf(id)
           G == {Agent[c] : c \in R}
           All == {Agent[c] : c \in {d \in Clicks : Target[d] = id}}
           N == Cardinality(R)
           m == Cardinality(G)
           M == AgentsOf(id)
           L == StatsAgents
<1>0. R \in SUBSET Clicks /\ G \subseteq All /\ L \in Nat  BY AnalyticsAssumption DEF RowsOf, ClickRows
<1>1. IsFiniteSet(G) /\ m \in Nat /\ IsFiniteSet(All) /\ M \in Nat /\ m <= M
  <2>1. {d \in Clicks : Target[d] = id} \in SUBSET Clicks  OBVIOUS
  <2>2. IsFiniteSet(All) /\ Cardinality(All) \in Nat  BY <2>1, AgentCounts
  <2>3. IsFiniteSet(G) /\ m \in Nat  BY <1>0, AgentCounts
  <2>4. m <= Cardinality(All)  BY <1>0, <2>2, FS_Subset
  <2> QED  BY <2>2, <2>3, <2>4 DEF AgentsOf
<1>2. PICK B \in SUBSET G :
        /\ top = Cardinality(Having(R, B)) /\ Cardinality(B) = Lesser(m, L)
        /\ \A a \in B, b \in G \ B : Cardinality(Having(R, {a})) >= Cardinality(Having(R, {b}))
  BY DEF TopUserAgents, OfAgents, Having
<1> DEFINE O == G \ B
<1>3. IsFiniteSet(B) /\ IsFiniteSet(O) /\ Cardinality(O) = m - Cardinality(B) /\ Cardinality(B) \in Nat
  <2>1. IsFiniteSet(B) /\ IsFiniteSet(O)  BY <1>1, FS_Subset
  <2>2. G \cap B = B  OBVIOUS
  <2>3. Cardinality(O) = m - Cardinality(B)  BY <1>1, <2>2, FS_Difference
  <2> QED  BY <2>1, <2>3, FS_CardinalityType
<1>4. /\ N \in Nat /\ top \in Nat /\ Cardinality(Having(R, O)) = N - top /\ top <= N
  <2>1. Having(R, B) \in SUBSET R /\ Having(R, O) = R \ Having(R, B) /\ R \cap Having(R, B) = Having(R, B)
    BY DEF Having
  <2>2. IsFiniteSet(R) /\ N \in Nat /\ top \in Nat /\ top <= N
    BY <1>0, <1>2, <2>1, ClickCounts
  <2>3. Cardinality(R \ Having(R, B)) = N - Cardinality(R \cap Having(R, B))  BY <2>2, FS_Difference
  <2> QED  BY <1>2, <2>1, <2>2, <2>3
<1>5. n <= N /\ Lesser(M, L) \in Nat /\ Lesser(M, L) <= M  BY <1>0, <1>1 DEF Lesser
<1>6. CASE m <= L
  <2>0. Cardinality(B) = m  BY <1>0, <1>1, <1>2, <1>6 DEF Lesser
  <2>1. B = G  BY <1>1, <2>0, FS_Subset
  <2>2. Having(R, B) = R  BY <2>1 DEF Having
  <2>3. top = N  BY <1>2, <2>2
  <2>4. n * Lesser(M, L) <= N * M  BY <1>1, <1>4, <1>5, Products
  <2> HIDE DEF M, N
  <2>5. n * Lesser(M, L) \in Nat /\ top * M \in Nat  BY <1>1, <1>4, <1>5
  <2> QED  BY <2>3, <2>4, <2>5 DEF M
<1>7. CASE m > L
  <2>1. Cardinality(B) = L /\ Lesser(M, L) = L  BY <1>0, <1>1, <1>2, <1>7 DEF Lesser
  <2>2. Cardinality(Having(R, O)) * Cardinality(B) <= Cardinality(Having(R, B)) * Cardinality(O)
    <3>1. \A a \in B, b \in O : Cardinality(Having(R, {b})) <= Cardinality(Having(R, {a}))
      <4> TAKE a \in B, b \in O
      <4>1. Cardinality(Having(R, {a})) >= Cardinality(Having(R, {b}))  BY <1>2
      <4>2. Cardinality(Having(R, {a})) \in Nat /\ Cardinality(Having(R, {b})) \in Nat
        BY <1>0, ClickCounts DEF Having
      <4> QED  BY <4>1, <4>2
    <3> HIDE DEF O, R
    <3> QED  BY <1>0, <1>3, <3>1, Proportion DEF R
  <2>3. (N - top) * L <= top * (m - L)  BY <1>2, <1>3, <1>4, <2>1, <2>2
  <2>4. n * L <= N * L /\ top * m <= top * M  BY <1>0, <1>1, <1>4, <1>5, Products
  <2> HIDE DEF M, N, L, m
  <2>5. (N - top) * L = N * L - top * L /\ top * (m - L) = top * m - top * L
    BY <1>0, <1>1, <1>4
  <2>6. /\ N * L \in Nat /\ top * L \in Nat /\ top * m \in Nat /\ n * L \in Nat /\ top * M \in Nat
    BY <1>0, <1>1, <1>4
  <2>7. n * L <= top * M  BY <2>3, <2>4, <2>5, <2>6
  <2> QED  BY <2>1, <2>6, <2>7 DEF M, L
<1> QED  BY <1>0, <1>1, <1>6, <1>7

-----------------------------------------------------------------------------
(* The step of each part of the invariant.                                  *)

\* What every step starts from.
Before ==
  AnalyticsTypeOK /\ AnalyticsInv /\ DeliveryInv /\ [AnalyticsNext]_analyticsVars /\ [ServerNext]_serverVars

\* A click's event is made by its handler, and dated then.
LEMMA OnlySubmit ==
  ASSUME AnalyticsTypeOK, [AnalyticsNext]_analyticsVars, NEW c \in Clicks, Submit(c)
  PROVE  SubmitClick(c)
<1>0. handler \in [Clicks -> {"new", "busy", "queued", "dropped", "panicked"}]
  BY DEF AnalyticsTypeOK, ServerTypeOK
<1>1. handler[c] = "busy" /\ handler'[c] # "busy"  BY <1>0 DEF Submit
<1>2. ASSUME NEW d \in Clicks, SubmitClick(d)  PROVE d = c
  <2>1. \E h : handler' = [handler EXCEPT ![d] = h]  BY <1>2 DEF SubmitClick, Submit
  <2> QED  BY <1>0, <1>1, <2>1
<1>3. ASSUME NEW d \in Clicks, Accept(d)  PROVE FALSE
  BY <1>0, <1>1, <1>3 DEF Accept
<1>4. handler' # handler  BY <1>1
<1> QED  BY <1>2, <1>3, <1>4
         DEF AnalyticsNext, WorkClick, Work, GetStats, Lifecycle, Signal, ListenerError, HttpShutdown,
             CloseDispatcher, WorkersDone, DrainTimeout, Goto, Exit, CleanupClicks, DayPasses,
             serverVars, analyticsVars

\* The date of an event that was submitted does not change.
LEMMA DateStays ==
  ASSUME AnalyticsTypeOK, [AnalyticsNext]_analyticsVars, NEW c \in Clicks, handler[c] = "queued"
  PROVE  at'[c] = at[c]
<1>0. at \in [Clicks -> 0 .. day]  BY DEF AnalyticsTypeOK
<1>1. ASSUME NEW d \in Clicks, SubmitClick(d)  PROVE at'[c] = at[c]
  <2>1. d # c  BY <1>1 DEF SubmitClick, Submit
  <2> QED  BY <1>0, <1>1, <2>1 DEF SubmitClick
<1> QED  BY <1>1
         DEF AnalyticsNext, WorkClick, GetStats, Lifecycle, CleanupClicks, DayPasses, analyticsVars

\* A click on its way keeps today's date until the day can pass.
LEMMA FreshStep ==
  ASSUME Before  PROVE FreshInv'
<1>0. ServerTypeOK /\ DeliveryInv /\ FreshInv /\ at \in [Clicks -> 0 .. day]
  BY DEF Before, AnalyticsTypeOK, AnalyticsInv
<1> SUFFICES ASSUME NEW c \in Clicks, OnItsWay(c)'  PROVE at'[c] = day'
  BY DEF FreshInv, OnItsWay
<1>1. CASE SubmitClick(c)  BY <1>0, <1>1 DEF SubmitClick
<1>2. CASE ~SubmitClick(c)
  <2>1. ~Submit(c)  BY <1>2, OnlySubmit DEF Before
  <2>2. OnItsWay(c)  BY <1>0, <2>1, WayStarts DEF Before
  <2>3. at[c] = day  BY <1>0, <2>2 DEF FreshInv, OnItsWay
  <2>4. handler[c] = "queued"
    BY <1>0, <2>2 DEF OnItsWay, AtWorker, DeliveryInv, OnePlace, Held
  <2>5. at'[c] = at[c]  BY <2>4, DateStays DEF Before
  <2>6. ~DayPasses  BY <1>0, <2>2 DEF DayPasses, OnItsWay, AtWorker, InChannel
  <2>7. day' = day
    BY <2>6 DEF Before, AnalyticsNext, SubmitClick, WorkClick, GetStats, Lifecycle, CleanupClicks, analyticsVars
  <2> QED  BY <2>3, <2>5, <2>7
<1> QED  BY <1>1, <1>2

\* The rows of a URL are of clicks queued for it, which stay; and until
\* retention deletes, so do the rows.
LEMMA RowsGrow ==
  ASSUME Before, NEW id
  PROVE  /\ RowsOf(id) \subseteq QueuedFor(id) /\ QueuedFor(id) \subseteq QueuedFor(id)'
         /\ Cardinality(RowsOf(id)) \in Nat /\ Cardinality(QueuedFor(id)) \in Nat
         /\ Cardinality(QueuedFor(id)') \in Nat /\ Cardinality(RowsOf(id)') \in Nat
         /\ Cardinality(RowsOf(id)) <= Cardinality(QueuedFor(id))
         /\ Cardinality(QueuedFor(id)) <= Cardinality(QueuedFor(id)')
         /\ deleted' = {} => deleted = {} /\ Cardinality(RowsOf(id)) <= Cardinality(RowsOf(id)')
<1>0. /\ ServerTypeOK /\ DeliveryInv /\ inserted \in [Clicks -> Nat] /\ [ServerNext]_serverVars
  BY DEF Before, AnalyticsTypeOK, ServerTypeOK, DispatcherTypeOK
<1>1. RowsOf(id) \subseteq QueuedFor(id)
  <2>1. \A c \in Clicks : inserted[c] > 0 => handler[c] = "queued"
    BY <1>0 DEF DeliveryInv, OnePlace
  <2> QED  BY <2>1 DEF RowsOf, ClickRows, QueuedFor
<1>2. QueuedFor(id) \subseteq QueuedFor(id)'  BY <1>0, QueuedStays DEF QueuedFor
<1>3. QueuedFor(id) \in SUBSET Clicks /\ QueuedFor(id)' \in SUBSET Clicks /\ RowsOf(id)' \in SUBSET Clicks
  BY DEF QueuedFor, RowsOf, ClickRows
<1>4. ASSUME deleted' = {}  PROVE deleted = {} /\ RowsOf(id) \subseteq RowsOf(id)'
  <2>1. deleted \subseteq deleted'
    BY DEF Before, AnalyticsNext, SubmitClick, WorkClick, GetStats, Lifecycle, CleanupClicks, DayPasses,
           analyticsVars
  <2>2. ASSUME NEW c \in Clicks, inserted[c] > 0  PROVE inserted'[c] > 0
    <3>1. inserted'[c] = inserted[c] \/ inserted'[c] = inserted[c] + 1  BY <1>0, RowsCome
    <3> QED  BY <1>0, <2>2, <3>1
  <2> QED  BY <1>4, <2>1, <2>2 DEF RowsOf, ClickRows
<1>5. Cardinality(QueuedFor(id)') \in Nat /\ Cardinality(QueuedFor(id)) \in Nat
  BY <1>3, ClickCounts
<1>6. Cardinality(QueuedFor(id)) <= Cardinality(QueuedFor(id)')  BY <1>2, <1>3, ClickCounts
<1>7. Cardinality(RowsOf(id)) \in Nat /\ Cardinality(RowsOf(id)) <= Cardinality(QueuedFor(id))
  BY <1>1, <1>3, ClickCounts
<1>8. Cardinality(RowsOf(id)') \in Nat  BY <1>3, ClickCounts
<1>9. deleted' = {} => Cardinality(RowsOf(id)) <= Cardinality(RowsOf(id)')
  BY <1>3, <1>4, ClickCounts
<1> QED  BY <1>1, <1>2, <1>4, <1>5, <1>6, <1>7, <1>8, <1>9

\* The other requests' numbers keep their bounds.
LEMMA ReadsStay ==
  ASSUME Before, NEW rec \in StatsState, ReadsOK(rec)
  PROVE  ReadsOK(rec)'
<1> DEFINE Q == Cardinality(QueuedFor(rec.id))
           P == Cardinality(QueuedFor(rec.id)')
           R == Cardinality(RowsOf(rec.id))
           T == Cardinality(RowsOf(rec.id)')
<1>1. /\ Q \in Nat /\ P \in Nat /\ Q <= P /\ R \in Nat /\ T \in Nat
      /\ deleted' = {} => deleted = {} /\ R <= T
  BY RowsGrow
<1>2. rec.total \in Nat /\ rec.days \in Nat /\ rec.top \in Nat  BY DEF StatsState
<1>3. /\ \A n \in {rec.total, rec.days, rec.top} : n <= Q
      /\ deleted = {} => \A n \in {rec.total, rec.days} : n <= R
  BY DEF ReadsOK
<1> HIDE DEF P, Q, R, T
<1>4. \A n \in {rec.total, rec.days, rec.top} : n <= P  BY <1>1, <1>2, <1>3
<1>5. deleted' = {} => \A n \in {rec.total, rec.days} : n <= T  BY <1>1, <1>2, <1>3
<1> QED  BY <1>4, <1>5 DEF ReadsOK, P, T

\* A request reads numbers of rows, and rows only grow until retention deletes.
LEMMA ReaderStep ==
  ASSUME Before  PROVE ReaderInv'
<1>0. AnalyticsTypeOK /\ ReaderInv /\ st \in [Readers -> StatsState]
  BY DEF Before, AnalyticsTypeOK, AnalyticsInv
<1> SUFFICES ASSUME NEW r \in Readers, NEW rec, rec = st'[r]  PROVE ReadsOK(rec)'
  BY DEF ReaderInv, ReadsOK
<1>1. CASE rec = st[r]
  <2>1. rec \in StatsState /\ ReadsOK(rec)  BY <1>0, <1>1 DEF ReaderInv
  <2> QED  BY <2>1, ReadsStay
<1>2. ASSUME NEW q \in Readers, GetStats(q)  PROVE ReadsOK(rec)'
  <2>1. PICK new : st' = [st EXCEPT ![q] = new] /\ Reads(q, new)  BY <1>0, <1>2, ReaderWrites
  <2>2. CASE r # q  BY <1>0, <1>1, <2>1, <2>2
  <2>3. CASE r = q
    <3>1. Reads(q, rec)  BY <1>0, <2>1, <2>3
    <3>2. st[q] \in StatsState /\ ReadsOK(st[q])  BY <1>0 DEF ReaderInv
    <3>3. /\ CountByURLID(st[q].id) \in Nat /\ CountByURLID(st[q].id) <= Cardinality(RowsOf(st[q].id))
          /\ GroupByDay(st[q].id, StatsDays) \in Nat
          /\ GroupByDay(st[q].id, StatsDays) <= Cardinality(RowsOf(st[q].id))
          /\ \A top \in TopUserAgents(st[q].id, StatsAgents) :
               top \in Nat /\ top <= Cardinality(RowsOf(st[q].id))
      BY CountsAreNats
    <3>4. \A id : /\ Cardinality(RowsOf(id)) \in Nat /\ Cardinality(QueuedFor(id)) \in Nat
                  /\ Cardinality(RowsOf(id)) <= Cardinality(QueuedFor(id))
      BY RowsGrow
    <3>5. ReadsOK(rec)
      <4>1. CASE rec = [st[q] EXCEPT !.pc = "done", !.reply = "404"] \/ rec = [st[q] EXCEPT !.pc = "done", !.reply = "500"]
        <5>1. /\ rec.id = st[q].id /\ rec.days = st[q].days /\ rec.total = st[q].total
              /\ rec.top = st[q].top /\ rec.pc = "done"
          BY <3>2, <4>1 DEF StatsState
        <5> QED  BY <3>2, <5>1 DEF ReadsOK
      <4>2. ASSUME NEW id \in UrlIds, st[q].pc = "idle", rec = [st[q] EXCEPT !.pc = "count", !.id = id]
            PROVE  ReadsOK(rec)
        <5>1. /\ rec.total = 0 /\ rec.days = 0 /\ rec.top = 0 /\ rec.pc = "count" /\ rec.reply = "none"
          BY <3>2, <4>2 DEF ReadsOK, StatsState
        <5> QED  BY <3>4, <5>1 DEF ReadsOK
      <4>3. CASE st[q].pc = "count" /\ rec = [st[q] EXCEPT !.pc = "byday", !.total = CountByURLID(st[q].id)]
        <5>1. /\ rec.id = st[q].id /\ rec.total = CountByURLID(st[q].id) /\ rec.days = st[q].days
              /\ rec.top = st[q].top /\ rec.pc = "byday" /\ rec.reply = "none"
          BY <3>2, <4>3 DEF ReadsOK, StatsState
        <5>2. rec.total <= Cardinality(QueuedFor(st[q].id))  BY <3>3, <3>4, <5>1
        <5> QED  BY <3>2, <3>3, <5>1, <5>2 DEF ReadsOK
      <4>4. CASE st[q].pc = "byday" /\ rec = [st[q] EXCEPT !.pc = "agents", !.days = GroupByDay(st[q].id, StatsDays)]
        <5>1. /\ rec.id = st[q].id /\ rec.days = GroupByDay(st[q].id, StatsDays) /\ rec.total = st[q].total
              /\ rec.top = st[q].top /\ rec.pc = "agents" /\ rec.reply = "none"
          BY <3>2, <4>4 DEF ReadsOK, StatsState
        <5>2. rec.days <= Cardinality(QueuedFor(st[q].id))  BY <3>3, <3>4, <5>1
        <5> QED  BY <3>2, <3>3, <5>1, <5>2 DEF ReadsOK
      <4>5. ASSUME NEW top \in TopUserAgents(st[q].id, StatsAgents), st[q].pc = "agents",
                   rec = [st[q] EXCEPT !.pc = "done", !.top = top, !.reply = "200"]
            PROVE  ReadsOK(rec)
        <5>1. /\ rec.id = st[q].id /\ rec.days = st[q].days /\ rec.total = st[q].total
              /\ rec.top = top /\ rec.pc = "done"
          BY <3>2, <4>5 DEF StatsState
        <5>2. rec.top <= Cardinality(QueuedFor(st[q].id))  BY <3>3, <3>4, <5>1
        <5> QED  BY <3>2, <5>1, <5>2 DEF ReadsOK
      <4> QED  BY <3>1, <4>1, <4>2, <4>3, <4>4, <4>5 DEF Reads
    <3>6. UNCHANGED << inserted, deleted, handler >>
      BY <1>2 DEF GetStats, serverVars, dispatcherVars
    <3>7. ReadsOK(rec)'  BY <3>5, <3>6 DEF ReadsOK, RowsOf, QueuedFor, ClickRows
    <3> QED  BY <3>7
  <2> QED  BY <2>2, <2>3
<1>3. st' = st \/ \E q \in Readers : GetStats(q)
  BY DEF Before, AnalyticsNext, SubmitClick, WorkClick, Lifecycle, CleanupClicks, DayPasses, analyticsVars
<1> QED  BY <1>1, <1>2, <1>3

\* An answer is complete when the list of agents is read, from the rows that
\* the earlier numbers counted and those that came since.
LEMMA LaterStep ==
  ASSUME Before  PROVE LaterReadsSeeMore'
<1>0. /\ AnalyticsTypeOK /\ ReaderInv /\ LaterReadsSeeMore /\ st \in [Readers -> StatsState]
  BY DEF Before, AnalyticsTypeOK, AnalyticsInv
<1> DEFINE Covers(rec) ==
      /\ rec.top * AgentsOf(rec.id) >= rec.total * Lesser(AgentsOf(rec.id), StatsAgents)
      /\ rec.top * AgentsOf(rec.id) >= rec.days * Lesser(AgentsOf(rec.id), StatsAgents)
<1>1. \A q \in Readers : st[q].reply = "200" /\ deleted = {} => Covers(st[q])
  BY <1>0 DEF LaterReadsSeeMore, AgentsOf
<1>2. SUFFICES ASSUME NEW r \in Readers, NEW rec, rec = st'[r], rec.reply = "200", deleted' = {}  PROVE Covers(rec)
  BY <1>2 DEF LaterReadsSeeMore, AgentsOf
<1> HIDE DEF Covers
<1>3. deleted = {}  BY <1>2, RowsGrow
<1>4. CASE rec = st[r]  BY <1>1, <1>2, <1>3, <1>4
<1>5. ASSUME NEW q \in Readers, GetStats(q), rec # st[r]  PROVE Covers(rec)
  <2>1. PICK new : st' = [st EXCEPT ![q] = new] /\ Reads(q, new)  BY <1>0, <1>5, ReaderWrites
  <2>2. r = q /\ rec = new  BY <1>0, <1>2, <1>5, <2>1
  <2>3. st[q] \in StatsState /\ ReadsOK(st[q])  BY <1>0 DEF ReaderInv
  <2>4. PICK top \in TopUserAgents(st[q].id, StatsAgents) :
          rec = [st[q] EXCEPT !.pc = "done", !.top = top, !.reply = "200"]
    BY <1>2, <2>1, <2>2, <2>3 DEF Reads, ReadsOK, StatsState
  <2>5. /\ rec.id = st[q].id /\ rec.days = st[q].days /\ rec.total = st[q].total /\ rec.top = top
        /\ rec.days \in Nat /\ rec.total \in Nat
    BY <2>3, <2>4 DEF StatsState
  <2>6. rec.total <= Cardinality(RowsOf(rec.id)) /\ rec.days <= Cardinality(RowsOf(rec.id))
    BY <1>3, <2>3, <2>5 DEF ReadsOK
  <2>7. top \in TopUserAgents(rec.id, StatsAgents)  BY <2>4, <2>5
  <2>8. /\ top * AgentsOf(rec.id) >= rec.total * Lesser(AgentsOf(rec.id), StatsAgents)
        /\ top * AgentsOf(rec.id) >= rec.days * Lesser(AgentsOf(rec.id), StatsAgents)
    BY <2>5, <2>6, <2>7, TopCovers
  <2> QED  BY <2>5, <2>8 DEF Covers
<1>6. st' = st \/ \E q \in Readers : GetStats(q)
  BY DEF Before, AnalyticsNext, SubmitClick, WorkClick, Lifecycle, CleanupClicks, DayPasses, analyticsVars
<1> QED  BY <1>2, <1>4, <1>5, <1>6

\* What a step may do to the clock and the ticker.
LEMMA ClockCases ==
  ASSUME Before
  PROVE  \/ UNCHANGED << day, keeper, deleted >>
         \/ /\ Due = 0 /\ Due' = 1 /\ day' = day + 1 /\ keeper'.sweeps = keeper.sweeps
            /\ UNCHANGED << deleted, inserted, at >>
         \/ /\ Due = 1 /\ Due' = 0 /\ keeper'.sweeps = keeper.sweeps
            /\ UNCHANGED << day, inserted, at >>
            /\ \/ UNCHANGED deleted
               \/ \E S \in DeleteOlderThan(RetentionDays) : deleted' = deleted \cup S
         \/ /\ Due = 1 /\ Due' = 0 /\ keeper'.sweeps = keeper.sweeps + 1
            /\ UNCHANGED << day, inserted, at >>
            /\ \E S \in DeleteOlderThan(RetentionDays) : deleted' = deleted \cup S
<1>0. keeper \in [fired : BOOLEAN, sweeps : 0 .. day]  BY DEF Before, AnalyticsTypeOK
<1>1. CASE DayPasses
  <2>1. /\ ~keeper.fired /\ keeper' = [keeper EXCEPT !.fired = TRUE] /\ day' = day + 1
        /\ UNCHANGED << deleted, inserted, at >>
    BY <1>1 DEF DayPasses, serverVars, dispatcherVars
  <2>2. keeper' = [fired |-> TRUE, sweeps |-> keeper.sweeps]  BY <1>0, <2>1
  <2> QED  BY <2>1, <2>2 DEF Due
<1>2. CASE CleanupClicks
  <2>1. keeper.fired /\ UNCHANGED << day, inserted, at >>
    BY <1>2 DEF CleanupClicks, serverVars, dispatcherVars
  <2>2. /\ \/ keeper' = [fired |-> FALSE, sweeps |-> keeper.sweeps + 1]
              /\ \E S \in DeleteOlderThan(RetentionDays) : deleted' = deleted \cup S
           \/ keeper' = [keeper EXCEPT !.fired = FALSE]
        /\ UNCHANGED deleted \/ \E S \in DeleteOlderThan(RetentionDays) : deleted' = deleted \cup S
    BY <1>2 DEF CleanupClicks
  <2>3. CASE keeper' = [fired |-> FALSE, sweeps |-> keeper.sweeps + 1]
               /\ \E S \in DeleteOlderThan(RetentionDays) : deleted' = deleted \cup S
    BY <2>1, <2>3 DEF Due
  <2>4. CASE keeper' = [keeper EXCEPT !.fired = FALSE]
    <3>1. keeper' = [fired |-> FALSE, sweeps |-> keeper.sweeps]  BY <1>0, <2>4
    <3> QED  BY <2>1, <2>2, <3>1 DEF Due
  <2> QED  BY <2>2, <2>3, <2>4
<1> QED  BY <1>1, <1>2 DEF Before, AnalyticsNext, SubmitClick, WorkClick, GetStats, Lifecycle, analyticsVars

\* A row stays, with its date; a row that comes is of today.
LEMMA RowDates ==
  ASSUME Before, NEW c \in Clicks
  PROVE  /\ inserted[c] > 0 => inserted'[c] > 0 /\ at'[c] = at[c]
         /\ inserted'[c] > 0 /\ ~(inserted[c] > 0) => at'[c] = day /\ day' = day
<1>0. /\ ServerTypeOK /\ DeliveryInv /\ FreshInv /\ AnalyticsTypeOK /\ [ServerNext]_serverVars
      /\ [AnalyticsNext]_analyticsVars /\ inserted \in [Clicks -> Nat]
  BY DEF Before, AnalyticsTypeOK, AnalyticsInv, ServerTypeOK, DispatcherTypeOK
<1>1. \/ inserted'[c] = inserted[c]
      \/ inserted'[c] = inserted[c] + 1 /\ AtWorker(c, "insert")
  BY <1>0, RowsCome
<1>2. ASSUME inserted[c] > 0  PROVE inserted'[c] > 0 /\ at'[c] = at[c]
  <2>1. handler[c] = "queued"  BY <1>0, <1>2 DEF DeliveryInv, OnePlace
  <2> QED  BY <1>0, <1>1, <1>2, <2>1, DateStays
<1>3. ASSUME inserted'[c] > 0, ~(inserted[c] > 0)  PROVE at'[c] = day /\ day' = day
  <2>1. AtWorker(c, "insert")  BY <1>1, <1>3
  <2>2. handler[c] = "queued" /\ at[c] = day
    BY <1>0, <2>1 DEF AtWorker, DeliveryInv, OnePlace, Held, FreshInv
  <2>3. at'[c] = at[c]  BY <1>0, <2>2, DateStays
  <2>4. ~DayPasses  BY <2>1 DEF DayPasses, AtWorker
  <2>5. day' = day
    BY <1>0, <2>4 DEF AnalyticsNext, SubmitClick, WorkClick, GetStats, Lifecycle, CleanupClicks, analyticsVars
  <2> QED  BY <2>2, <2>3, <2>5
<1> QED  BY <1>2, <1>3

\* A service that keeps up has kept up.
LEMMA KeptUp ==
  ASSUME Before, KeepsUp'
  PROVE  KeepsUp
<1>0. /\ day \in Nat /\ keeper.sweeps \in Nat /\ keeper.sweeps + Due <= day
      /\ at \in [Clicks -> 0 .. day] /\ DeleteLimit \in Nat
  BY AnalyticsAssumption DEF Before, AnalyticsTypeOK, AnalyticsInv
<1>1. keeper'.sweeps = day' - Due'  BY DEF KeepsUp
<1>2. keeper.sweeps = day - Due /\ (day' = day \/ day' = day + 1)
  BY <1>0, <1>1, ClockCases DEF Due
<1>3. ASSUME NEW d \in 0 .. day  PROVE Cardinality(InsertedOn(d)) <= DeleteLimit
  <2>1. d \in 0 .. day'  BY <1>0, <1>2
  <2>2. Cardinality(InsertedOn(d)') <= DeleteLimit  BY <2>1 DEF KeepsUp
  <2>3. InsertedOn(d) \subseteq InsertedOn(d)'  BY RowDates DEF InsertedOn
  <2>4. InsertedOn(d)' \in SUBSET Clicks  BY DEF InsertedOn
  <2>5. /\ Cardinality(InsertedOn(d)') \in Nat /\ Cardinality(InsertedOn(d)) \in Nat
        /\ Cardinality(InsertedOn(d)) <= Cardinality(InsertedOn(d)')
    BY <2>3, <2>4, ClickCounts
  <2> QED  BY <1>0, <2>2, <2>5
<1> QED  BY <1>2, <1>3 DEF KeepsUp

\* A service that keeps up deletes every old row.
LEMMA DeletesAllOld ==
  ASSUME Before, KeepsUp, Due = 1, NEW S \in DeleteOlderThan(RetentionDays)
  PROVE  S = Old(RetentionDays)
<1> DEFINE O == Old(RetentionDays)
           D == (day - RetentionDays) - 1
<1>0. /\ day \in Nat /\ RetentionDays \in Nat /\ DeleteLimit \in Nat
      /\ at \in [Clicks -> 0 .. day] /\ RetentionHolds
  BY AnalyticsAssumption DEF Before, AnalyticsTypeOK, AnalyticsInv
<1>1. O \in SUBSET Clicks /\ S \in SUBSET O /\ Cardinality(S) = Lesser(Cardinality(O), DeleteLimit)
  BY DEF Old, ClickRows, DeleteOlderThan
<1>2. IsFiniteSet(O) /\ Cardinality(O) \in Nat  BY <1>1, ClickCounts
<1>3. Cardinality(O) <= DeleteLimit
  <2>1. CASE O = {}  BY <1>0, <2>1, FS_EmptySet
  <2>2. CASE O # {}
    <3>1. \A c \in O : c \in Clicks /\ inserted[c] > 0 /\ at[c] = D /\ D \in 0 .. day
      <4> TAKE c \in O
      <4>1. c \in ClickRows /\ c \in Clicks /\ at[c] < day - RetentionDays /\ at[c] \in 0 .. day
        BY <1>0 DEF Old, ClickRows
      <4>2. day - at[c] <= RetentionDays + 1  BY <1>0, <4>1 DEF RetentionHolds
      <4>3. at[c] = D  BY <1>0, <4>1, <4>2
      <4> QED  BY <4>1, <4>3 DEF ClickRows
    <3>2. D \in 0 .. day  BY <2>2, <3>1
    <3>3. O \subseteq InsertedOn(D)  BY <3>1 DEF InsertedOn
    <3>4. InsertedOn(D) \in SUBSET Clicks  BY DEF InsertedOn
    <3>5. Cardinality(InsertedOn(D)) \in Nat /\ Cardinality(O) <= Cardinality(InsertedOn(D))
      BY <3>3, <3>4, ClickCounts
    <3>6. Cardinality(InsertedOn(D)) <= DeleteLimit  BY <3>2 DEF KeepsUp
    <3> QED  BY <1>0, <1>2, <3>5, <3>6
  <2> QED  BY <2>1, <2>2
<1> HIDE DEF O
<1>4. Cardinality(S) = Cardinality(O)  BY <1>0, <1>1, <1>2, <1>3 DEF Lesser
<1>5. S = O  BY <1>1, <1>2, <1>4, FS_Subset
<1> QED  BY <1>5 DEF O

\* Rows are deleted when they are old; and while the service keeps up, the
\* DELETE that is due makes good for the day that has passed.
LEMMA RetentionStep ==
  ASSUME Before, AnalyticsTypeOK'  PROVE RetentionHolds'
<1>0. /\ day \in Nat /\ day' \in Nat /\ RetentionDays \in Nat /\ RetentionHolds
      /\ at \in [Clicks -> 0 .. day] /\ at' \in [Clicks -> 0 .. day']
      /\ deleted \subseteq {c \in Clicks : inserted[c] > 0}
      /\ deleted' \subseteq Clicks
      /\ keeper.sweeps \in Nat /\ keeper.sweeps + Due <= day /\ Due \in {0, 1}
  BY AnalyticsAssumption DEF Before, AnalyticsTypeOK, AnalyticsInv, Due
<1>1. day <= day'  BY <1>0, ClockCases
<1>2. ASSUME NEW c \in deleted'  PROVE day' - at'[c] > RetentionDays
  <2>1. CASE c \in deleted
    <3>1. c \in Clicks /\ at'[c] = at[c]  BY <1>0, <2>1, RowDates
    <3>2. day - at[c] > RetentionDays /\ at[c] \in Nat  BY <1>0, <2>1, <3>1 DEF RetentionHolds
    <3> QED  BY <1>0, <1>1, <3>1, <3>2
  <2>2. CASE c \notin deleted
    <3>1. PICK S \in DeleteOlderThan(RetentionDays) : deleted' = deleted \cup S /\ UNCHANGED << day, at >>
      BY <1>2, <2>2, ClockCases
    <3>2. c \in Clicks /\ at[c] < day - RetentionDays  BY <1>2, <2>2, <3>1 DEF DeleteOlderThan, Old, ClickRows
    <3> QED  BY <1>0, <3>1, <3>2
  <2> QED  BY <2>1, <2>2
<1>3. ASSUME KeepsUp', NEW c \in ClickRows'  PROVE day' - at'[c] <= RetentionDays + Due'
  <2>0. c \in Clicks /\ inserted'[c] > 0 /\ c \notin deleted' /\ Due' \in {0, 1}
    BY <1>3 DEF ClickRows, Due
  <2>1. CASE ~(inserted[c] > 0)
    <3>1. day' - at'[c] = 0  BY <1>0, <2>0, <2>1, RowDates
    <3>2. RetentionDays \in Nat /\ (Due' = 0 \/ Due' = 1)  BY <1>0, <2>0
    <3>3. RetentionDays + Due' >= 0  BY <3>2
    <3> QED  BY <3>1, <3>3
  <2>2. CASE inserted[c] > 0
    <3>1. KeepsUp  BY <1>3, KeptUp
    <3>2. at'[c] = at[c] /\ at[c] \in Nat  BY <1>0, <2>0, <2>2, RowDates
    <3>3. c \in ClickRows  BY <2>0, <2>2, ClockCases DEF ClickRows
    <3>4. day - at[c] <= RetentionDays + Due  BY <1>0, <3>1, <3>3 DEF RetentionHolds
    <3>5. CASE UNCHANGED << day, keeper, deleted >>
      <4>1. Due' = Due  BY <3>5 DEF Due
      <4> QED  BY <1>0, <3>2, <3>4, <3>5, <4>1
    <3>6. CASE Due = 0 /\ Due' = 1 /\ day' = day + 1  BY <1>0, <3>2, <3>4, <3>6
    <3>7. CASE Due = 1 /\ Due' = 0 /\ keeper'.sweeps = keeper.sweeps /\ day' = day
      BY <1>0, <1>3, <3>7 DEF KeepsUp
    <3>8. ASSUME Due = 1, Due' = 0, day' = day,
                 NEW S \in DeleteOlderThan(RetentionDays), deleted' = deleted \cup S
          PROVE  day' - at'[c] <= RetentionDays + Due'
      <4>1. S = Old(RetentionDays)  BY <3>1, <3>8, DeletesAllOld
      <4>2. ~(at[c] < day - RetentionDays)  BY <2>0, <3>3, <3>8, <4>1 DEF Old
      <4> QED  BY <1>0, <3>2, <3>8, <4>2
    <3> QED  BY <3>5, <3>6, <3>7, <3>8, ClockCases
  <2> QED  BY <2>1, <2>2
<1> QED  BY <1>2, <1>3 DEF RetentionHolds

-----------------------------------------------------------------------------
(* The theorems.                                                            *)

\* The clicks table, its retention and its readers, together with the pipeline
\* that feeds them, whatever the interleaving: types, dates, ticker and
\* numbers read.
THEOREM AnalyticsCorrect == AnalyticsSpec => [](AnalyticsTypeOK /\ AnalyticsInv)
<1>1. ASSUME AnalyticsInit  PROVE AnalyticsTypeOK /\ AnalyticsInv
  <2>1. /\ ServerTypeOK /\ day = 0 /\ at = [c \in Clicks |-> 0] /\ deleted = {}
        /\ keeper = [fired |-> FALSE, sweeps |-> 0] /\ inserted = [c \in Clicks |-> 0]
        /\ st = [q \in Readers |-> [pc |-> "idle", id |-> 0, total |-> 0, days |-> 0, top |-> 0,
                                    reply |-> "none"]]
    BY <1>1 DEF AnalyticsInit, ServerInit, DispatcherInit, ServerTypeOK, DispatcherTypeOK
  <2>2. Due = 0  BY <2>1 DEF Due
  <2>3. 0 \in 0 .. 0 /\ 0 \in 0 .. MaxDay  BY AnalyticsAssumption
  <2>4. AnalyticsTypeOK  BY <2>1, <2>3 DEF AnalyticsTypeOK, StatsState
  <2>5. FreshInv  BY <2>1 DEF FreshInv
  <2>6. ReaderInv
    <3> SUFFICES ASSUME NEW q \in Readers  PROVE ReadsOK(st[q])  BY DEF ReaderInv
    <3>1. st[q].pc = "idle" /\ st[q].reply = "none" /\ st[q].total = 0 /\ st[q].days = 0 /\ st[q].top = 0
      BY <2>1
    <3>2. QueuedFor(st[q].id) \in SUBSET Clicks /\ RowsOf(st[q].id) \in SUBSET Clicks
      BY DEF QueuedFor, RowsOf, ClickRows
    <3>3. Cardinality(QueuedFor(st[q].id)) \in Nat /\ Cardinality(RowsOf(st[q].id)) \in Nat
      BY <3>2, ClickCounts
    <3> QED  BY <3>1, <3>3 DEF ReadsOK
  <2>7. LaterReadsSeeMore  BY <2>1 DEF LaterReadsSeeMore
  <2>8. RetentionHolds  BY <2>1 DEF RetentionHolds, ClickRows
  <2> QED  BY <2>1, <2>2, <2>4, <2>5, <2>6, <2>7, <2>8 DEF AnalyticsInv
<1>2. ASSUME AnalyticsTypeOK, AnalyticsInv, DeliveryInv, ServerTypeOK', [AnalyticsNext]_analyticsVars,
             [ServerNext]_serverVars
      PROVE  AnalyticsTypeOK' /\ AnalyticsInv'
  <2>1. Before  BY <1>2 DEF Before
  <2>2. AnalyticsTypeOK' /\ (keeper.sweeps + Due <= day)'  BY <1>2, AnalyticsTypeStep DEF AnalyticsInv
  <2> QED  BY <2>1, <2>2, FreshStep, ReaderStep, LaterStep, RetentionStep DEF AnalyticsInv
<1> QED  BY <1>1, <1>2, AnalyticsKeepsServer, ServerTypeCorrect, Delivery, PTL DEF AnalyticsSpec, ServerSpec

\* No row is without its URL, retention deletes only rows, and the ticker and
\* the readers stay within their types.
THEOREM AnalyticsTypeCorrect == AnalyticsSpec => []AnalyticsTypeOK
BY AnalyticsCorrect, PTL

\* No number of an answer exceeds the clicks queued for its URL.
THEOREM StatsCorrect == AnalyticsSpec => []StatsAreOfTheUrl
<1>1. AnalyticsInv => StatsAreOfTheUrl  BY DEF AnalyticsInv, ReaderInv, ReadsOK, StatsAreOfTheUrl
<1> QED  BY <1>1, AnalyticsCorrect, PTL

\* Until retention deletes, the list of agents covers its share of the numbers
\* that were read before it.
THEOREM LaterReadsCorrect == AnalyticsSpec => []LaterReadsSeeMore
<1>1. AnalyticsInv => LaterReadsSeeMore  BY DEF AnalyticsInv
<1> QED  BY <1>1, AnalyticsCorrect, PTL

\* Retention deletes nothing early, and nothing late while it keeps up.
THEOREM RetentionCorrect == AnalyticsSpec => []RetentionHolds
<1>1. AnalyticsInv => RetentionHolds  BY DEF AnalyticsInv
<1> QED  BY <1>1, AnalyticsCorrect, PTL
=============================================================================
