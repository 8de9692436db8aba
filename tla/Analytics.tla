----------------------------- MODULE Analytics ------------------------------
(***************************************************************************)
(* The table `clicks` and its three users, through one life of the process: *)
(* the workers insert under the foreign key on url_id, cleanupLoop deletes  *)
(* old rows once a day, and GET /api/analytics/{hash}                       *)
(* (internal/handler/analytics.go, internal/service/analytics.go,           *)
(* click_repository.go) reads it in three statements without a transaction. *)
(* The redirects are the clicks of Server, which goes on as it is.         *)
(***************************************************************************)
EXTENDS Server

CONSTANTS
  UrlIds,          \* rows of the table urls
  Target,          \* click -> the id its lookup gave; 0 when the meta key was gone
  Agent,           \* click -> its User-Agent
  Readers,         \* requests for statistics; each is made at most once
  StatsDays,       \* 30, the window of GroupByDay
  StatsAgents,     \* 5, the limit of TopUserAgents
  RetentionDays,   \* ANALYTICS_RETENTION_DAYS
  DeleteLimit,     \* 10000, the LIMIT of DeleteOlderThan
  MaxDay           \* bound on the clock

\* FOREIGN KEY (url_id) REFERENCES urls(id): MySQL refuses id 0.
ASSUME AnalyticsAssumption ==
  /\ UrlIds \subseteq Nat \ {0}
  /\ Target \in [Clicks -> UrlIds \cup {0}] /\ DOMAIN Agent = Clicks
  /\ {c \in Clicks : Target[c] = 0} \subseteq MayFail
  /\ StatsDays \in Nat /\ StatsAgents \in Nat \ {0}
  /\ RetentionDays \in Nat /\ DeleteLimit \in Nat \ {0} /\ MaxDay \in Nat

VARIABLES
  day,       \* the clock
  at,        \* click -> AccessedAt of its event
  deleted,   \* clicks whose rows retention has deleted
  keeper,    \* the daily ticker, and the number of DELETEs that succeeded
  st         \* request for statistics -> where it is and what it has read

analyticsVars == << serverVars, day, at, deleted, keeper, st >>

\* The locals of GetStats.
StatsState == [pc : {"idle", "count", "byday", "agents", "done"}, id : UrlIds \cup {0},
               total : Nat, days : Nat, top : Nat, reply : {"none", "200", "404", "500"}]

\* No row is without its URL, and retention deletes what was inserted.
AnalyticsTypeOK ==
  /\ ServerTypeOK
  /\ day \in 0 .. MaxDay
  /\ at \in [Clicks -> 0 .. day]
  /\ \A c \in Clicks : inserted[c] > 0 => Target[c] \in UrlIds
  /\ deleted \subseteq {c \in Clicks : inserted[c] > 0}
  /\ keeper \in [fired : BOOLEAN, sweeps : 0 .. day]
  /\ st \in [Readers -> StatsState]

AnalyticsInit ==
  /\ ServerInit
  /\ day = 0
  /\ at = [c \in Clicks |-> 0]
  /\ deleted = {}
  /\ keeper = [fired |-> FALSE, sweeps |-> 0]
  /\ st = [q \in Readers |-> [pc |-> "idle", id |-> 0, total |-> 0, days |-> 0, top |-> 0,
                              reply |-> "none"]]

-----------------------------------------------------------------------------
(* Redirects and workers.                                                   *)

SubmitClick(c) ==
  /\ Submit(c)
  /\ at' = [at EXCEPT ![c] = day]
  /\ UNCHANGED << day, deleted, keeper, st >>

\* Mutant: no foreign key.
RefusesNone(c) == FALSE

\* The foreign key: INSERT needs the row that UPDATE then looks for.
RefusesRow(c) == Target[c] \notin UrlIds

WorkClick(w) ==
  /\ Work(w)
  /\ wk[w].click \in Clicks /\ RefusesRow(wk[w].click) => inserted' = inserted /\ touched' = touched
  /\ UNCHANGED << day, at, deleted, keeper, st >>

\* run(): a request comes, the signal, both shutdowns, the end of the process.
Lifecycle ==
  /\ \/ \E c \in Clicks : Accept(c)
     \/ Signal \/ ListenerError \/ HttpShutdown \/ CloseDispatcher \/ WorkersDone \/ DrainTimeout
  /\ UNCHANGED << day, at, deleted, keeper, st >>

-----------------------------------------------------------------------------
(* The statements on the table.                                             *)

ClickRows == {c \in Clicks : inserted[c] > 0} \ deleted

\* Mutant: the clicks of every URL.
RowsOfAll(id) == ClickRows

\* WHERE url_id = id
RowsOf(id) == {c \in ClickRows : Target[c] = id}

CountByURLID(id) == Cardinality(RowsOf(id))

\* The sum over the days that are listed.
GroupByDay(id, days) == Cardinality({c \in RowsOf(id) : at[c] >= day - days})

OfAgents(id, A) == Cardinality({c \in RowsOf(id) : Agent[c] \in A})

Lesser(m, n) == IF m < n THEN m ELSE n

\* Mutant: agents that are not the most frequent.
SomeUserAgents(id, limit) ==
  LET agents == {Agent[c] : c \in RowsOf(id)}
  IN  {OfAgents(id, B) : B \in {A \in SUBSET agents : Cardinality(A) <= limit}}

\* The sums that a list of the `limit` most frequent agents may have: ORDER BY
\* count leaves ties open.
TopUserAgents(id, limit) ==
  LET agents == {Agent[c] : c \in RowsOf(id)}
  IN  {OfAgents(id, A) : A \in {B \in SUBSET agents :
        /\ Cardinality(B) = Lesser(Cardinality(agents), limit)
        /\ \A a \in B, b \in agents \ B : OfAgents(id, {a}) >= OfAgents(id, {b})}}

Old(days) == {c \in ClickRows : at[c] < day - days}

\* Mutant: rows of the last day of retention are not old yet.
DeleteLate(days) ==
  {S \in SUBSET Old(days + 1) : Cardinality(S) = Lesser(Cardinality(Old(days + 1)), DeleteLimit)}

\* Mutant: accessed_at <= NOW() - INTERVAL days DAY.
DeleteEarly(days) ==
  {S \in SUBSET Old(days - 1) : Cardinality(S) = Lesser(Cardinality(Old(days - 1)), DeleteLimit)}

\* DELETE ... WHERE accessed_at < NOW() - INTERVAL days DAY LIMIT DeleteLimit,
\* without ORDER BY: any so many of the old rows.
DeleteOlderThan(days) ==
  {S \in SUBSET Old(days) : Cardinality(S) = Lesser(Cardinality(Old(days)), DeleteLimit)}

-----------------------------------------------------------------------------
(* cleanupLoop: one DELETE a day.  An error is logged, and the next try is  *)
(* the next day's; a DELETE that fails may have taken effect, its reply     *)
(* lost.  The signal ends the loop.                                        *)

CleanupClicks ==
  /\ phase = "serving" /\ keeper.fired
  /\ \/ \E S \in DeleteOlderThan(RetentionDays) :
          /\ deleted' = deleted \cup S
          /\ \/ keeper' = [fired |-> FALSE, sweeps |-> keeper.sweeps + 1]
             \/ keeper' = [keeper EXCEPT !.fired = FALSE]
     \/ keeper' = [keeper EXCEPT !.fired = FALSE] /\ UNCHANGED deleted
  /\ UNCHANGED << serverVars, day, at, st >>

\* A day passes, and the ticker fires.  The end of the process and the way
\* from Submit to the INSERT take seconds.
DayPasses ==
  /\ day < MaxDay /\ phase = "serving" /\ ~keeper.fired
  /\ events = << >> /\ \A w \in Workers : wk[w].pc # "insert"
  /\ day' = day + 1
  /\ keeper' = [keeper EXCEPT !.fired = TRUE]
  /\ UNCHANGED << serverVars, at, deleted, st >>

-----------------------------------------------------------------------------
(* GetStats                                                                 *)

StatsGoto(q, rec) == st' = [st EXCEPT ![q] = rec]

\* FindByHash gives a row or none.
StatsFind(q) ==
  /\ st[q].pc = "idle" /\ phase = "serving"
  /\ \/ StatsGoto(q, [st[q] EXCEPT !.pc = "done", !.reply = "404"])
     \/ \E id \in UrlIds : StatsGoto(q, [st[q] EXCEPT !.pc = "count", !.id = id])

StatsCount(q) ==
  /\ st[q].pc = "count"
  /\ StatsGoto(q, [st[q] EXCEPT !.pc = "byday", !.total = CountByURLID(st[q].id)])

StatsByDay(q) ==
  /\ st[q].pc = "byday"
  /\ StatsGoto(q, [st[q] EXCEPT !.pc = "agents", !.days = GroupByDay(st[q].id, StatsDays)])

StatsTop(q) ==
  /\ st[q].pc = "agents"
  /\ \E top \in TopUserAgents(st[q].id, StatsAgents) :
       StatsGoto(q, [st[q] EXCEPT !.pc = "done", !.top = top, !.reply = "200"])

\* Any of the four statements may fail.
StatsFails(q) ==
  /\ st[q].pc # "done"
  /\ st[q].pc = "idle" => phase = "serving"
  /\ StatsGoto(q, [st[q] EXCEPT !.pc = "done", !.reply = "500"])

GetStats(q) ==
  /\ Running
  /\ StatsFind(q) \/ StatsCount(q) \/ StatsByDay(q) \/ StatsTop(q) \/ StatsFails(q)
  /\ UNCHANGED << serverVars, day, at, deleted, keeper >>

AnalyticsNext ==
  \/ \E c \in Clicks : SubmitClick(c)
  \/ \E w \in Workers : WorkClick(w)
  \/ \E q \in Readers : GetStats(q)
  \/ Lifecycle \/ CleanupClicks \/ DayPasses

AnalyticsSpec == AnalyticsInit /\ [][AnalyticsNext]_analyticsVars

-----------------------------------------------------------------------------
\* Clicks on row id that were neither dropped nor lost to a panic.
QueuedFor(id) == {c \in Clicks : handler[c] = "queued" /\ Target[c] = id}

\* Statistics never run ahead of the redirects: whatever the interleaving of
\* handlers, workers and readers, no number of an answer exceeds the clicks
\* that were queued for that very row.  A click without an id counts for none.
StatsAreOfTheUrl ==
  \A q \in Readers : st[q].reply = "200" =>
    \A n \in {st[q].total, st[q].days, st[q].top} : n <= Cardinality(QueuedFor(st[q].id))

\* The three statements of GetStats are not one snapshot, but inserts only
\* add: until retention deletes, a later number misses nothing an earlier one
\* counted.  The most frequent agents have at least their share of the clicks,
\* so they cover it of the total and of the days, which were read before.
LaterReadsSeeMore ==
  \A q \in Readers : st[q].reply = "200" /\ deleted = {} =>
    LET agents == Cardinality({Agent[c] : c \in {d \in Clicks : Target[d] = st[q].id}})
        listed == Lesser(agents, StatsAgents)
    IN  /\ st[q].top * agents >= st[q].total * listed
        /\ st[q].top * agents >= st[q].days * listed

\* DELETEs that are due: the ticker has fired and its DELETE has not run.
Due == IF keeper.fired THEN 1 ELSE 0

InsertedOn(d) == {c \in Clicks : inserted[c] > 0 /\ at[c] = d}

\* No DELETE has failed, and no day brought more clicks than the LIMIT.
KeepsUp ==
  /\ keeper.sweeps = day - Due
  /\ \A d \in 0 .. day : Cardinality(InsertedOn(d)) <= DeleteLimit

\* Retention deletes nothing before its time, and its one bounded DELETE a day
\* is enough as long as no day brings more clicks than the LIMIT and no DELETE
\* fails: then a click outlives its retention by no more than the DELETE that
\* is due.
RetentionHolds ==
  /\ \A c \in deleted : day - at[c] > RetentionDays
  /\ KeepsUp => \A c \in ClickRows : day - at[c] <= RetentionDays + Due

-----------------------------------------------------------------------------
(* The inductive invariant behind the three.                                *)

\* A click on its way to the table was submitted today.
FreshInv ==
  \A c \in Clicks : InChannel(c) \/ AtWorker(c, "insert") => at[c] = day

\* What a request for statistics has read so far: no number exceeds the clicks
\* queued for its row or, until retention deletes, the rows there are now.
ReadsOK(rec) ==
  /\ rec.pc # "done" => rec.reply = "none"
  /\ rec.pc = "idle" => rec.total = 0 /\ rec.days = 0 /\ rec.top = 0
  /\ \A n \in {rec.total, rec.days, rec.top} : n <= Cardinality(QueuedFor(rec.id))
  /\ deleted = {} => \A n \in {rec.total, rec.days} : n <= Cardinality(RowsOf(rec.id))

ReaderInv == \A q \in Readers : ReadsOK(st[q])

\* What clicks, rows, ticker and readers owe to one another.
AnalyticsInv ==
  /\ keeper.sweeps + Due <= day
  /\ FreshInv /\ ReaderInv /\ LaterReadsSeeMore /\ RetentionHolds
=============================================================================
