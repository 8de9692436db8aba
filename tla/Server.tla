------------------------------- MODULE Server -------------------------------
(***************************************************************************)
(* The life of the process, cmd/api/main.go: serve until a signal or a      *)
(* listener error; on a signal give the handlers ten seconds to finish,     *)
(* then close the dispatcher's channel and give its workers five.  Both     *)
(* time limits are modelled by the choice to stop waiting at any moment.   *)
(***************************************************************************)
EXTENDS Dispatcher

VARIABLES
  phase,     \* where run() is
  exit,      \* how the process ended
  handler    \* click -> the redirect handler that submits it

serverVars == << dispatcherVars, phase, exit, handler >>

ServerTypeOK ==
  /\ DispatcherTypeOK
  /\ phase \in {"serving", "httpwait", "httpdone", "draining", "exited"}
  /\ exit \in {"none", "drained", "timeout", "error"}
  /\ handler \in [Clicks -> {"new", "busy", "queued", "dropped", "panicked"}]

ServerInit ==
  /\ DispatcherInit
  /\ phase = "serving"
  /\ exit = "none"
  /\ handler = [c \in Clicks |-> "new"]

Running == phase # "exited"

\* A request is accepted and resolved; its handler is about to Submit.
Accept(c) ==
  /\ phase = "serving" /\ handler[c] = "new"
  /\ handler' = [handler EXCEPT ![c] = "busy"]
  /\ UNCHANGED << dispatcherVars, phase, exit >>

\* Submit, then the redirect.  A panic is answered 500 by Recovery.
Submit(c) ==
  /\ Running /\ handler[c] = "busy"
  /\ \/ (Enqueue(c) \/ HandOver(c)) /\ handler' = [handler EXCEPT ![c] = "queued"]
     \/ Drop /\ handler' = [handler EXCEPT ![c] = "dropped"]
     \/ SendPanics /\ handler' = [handler EXCEPT ![c] = "panicked"]
  /\ UNCHANGED << phase, exit >>

Work(w) == Running /\ WorkerStep(w) /\ UNCHANGED << phase, exit, handler >>

Goto(p) == phase' = p /\ UNCHANGED << dispatcherVars, exit, handler >>

Exit(how) ==
  /\ phase' = "exited" /\ exit' = how
  /\ UNCHANGED << dispatcherVars, handler >>

\* <-ctx.Done(): SIGINT or SIGTERM.
Signal == phase = "serving" /\ Goto("httpwait")

\* <-serverErr: run returns at once, without Shutdown.
ListenerError == phase = "serving" /\ Exit("error")

\* Mutant: srv.Shutdown without a deadline, for clients that never finish.
HttpShutdownUnbounded ==
  phase = "httpwait" /\ (\A c \in Clicks : handler[c] \notin {"new", "busy"}) /\ Goto("httpdone")

\* srv.Shutdown returns when no handler is left or at its deadline, and the
\* error of the second case is only logged.
HttpShutdown == phase = "httpwait" /\ Goto("httpdone")

\* dispatcher.Shutdown
CloseDispatcher ==
  /\ phase = "httpdone"
  /\ phase' = "draining"
  /\ CloseEvents
  /\ UNCHANGED << exit, handler >>

WorkersDone == phase = "draining" /\ AllReturned /\ Exit("drained")

DrainTimeout == phase = "draining" /\ Exit("timeout")

ServerNext ==
  \/ \E c \in Clicks : Accept(c) \/ Submit(c)
  \/ \E w \in Workers : Work(w)
  \/ Signal \/ ListenerError \/ HttpShutdown \/ CloseDispatcher
  \/ WorkersDone \/ DrainTimeout

ServerSpec == ServerInit /\ [][ServerNext]_serverVars

\* Handlers and workers are goroutines, and each of main's waits has a time
\* limit.  Nothing makes a client call or a signal come.
FairServerSpec ==
  /\ ServerSpec
  /\ \A c \in Clicks : WF_serverVars(Submit(c))
  /\ \A w \in Workers : WF_serverVars(Work(w))
  /\ WF_serverVars(HttpShutdown \/ CloseDispatcher)
  /\ WF_serverVars(WorkersDone \/ DrainTimeout)

-----------------------------------------------------------------------------
(* The books.                                                               *)

Held(w) == wk[w].pc \in {"insert", "update", "count"}

\* Between the handlers' selects, the channel and the workers no click is
\* counted twice or forgotten: what was submitted without a panic is dropped,
\* queued, held by a worker or processed.  The statistics line and the
\* shutdown line print these counters.
CountersAddUp ==
  Cardinality({c \in Clicks : handler[c] \in {"queued", "dropped"}})
    = dropped + Len(events) + Cardinality({w \in Workers : Held(w)}) + processed

InChannel(c) == \E i \in DOMAIN events : events[i] = c

AtWorker(c, pc) == \E w \in Workers : wk[w].pc = pc /\ wk[w].click = c

\* A queued click is in one slot of the channel or with one worker, and is not
\* yet in the table while it can still be inserted; no other click is
\* anywhere.  So no click is ever written twice.
OnePlace ==
  /\ \A i, j \in DOMAIN events : events[i] = events[j] => i = j
  /\ \A v, w \in Workers : Held(v) /\ Held(w) /\ wk[v].click = wk[w].click => v = w
  /\ \A w \in Workers : Held(w) =>
       /\ wk[w].click \in Clicks /\ handler[wk[w].click] = "queued"
       /\ ~InChannel(wk[w].click)
       /\ wk[w].pc = "insert" => inserted[wk[w].click] = 0
  /\ \A c \in Clicks : InChannel(c) => handler[c] = "queued" /\ inserted[c] = 0
  /\ \A c \in Clicks : inserted[c] <= 1 /\ (inserted[c] = 1 => handler[c] = "queued")

\* A queued click that MySQL accepts is on its way or has arrived.
NotForgotten ==
  \A c \in Clicks : handler[c] = "queued" /\ c \notin MayFail =>
    \/ InChannel(c) \/ AtWorker(c, "insert")
    \/ inserted[c] = 1 /\ (AtWorker(c, "update") \/ c \in touched)

\* A worker returns only from a closed, empty channel, and Shutdown's wait
\* ends by itself only when all have.
OrderlyEnd ==
  /\ \A w \in Workers : wk[w].pc = "returned" => chan = "closed" /\ events = << >>
  /\ exit = "drained" => phase = "exited" /\ AllReturned

\* The three together are inductive: this is where a click can be, at every
\* moment between Submit, the channel, the workers and Shutdown.
DeliveryInv == OnePlace /\ NotForgotten /\ OrderlyEnd

\* Shutdown that ends by itself, and not at its time limit, has drained the
\* channel: every click that was queued, before or after the signal, has its
\* row and its last_accessed_at unless MySQL refused it.
DrainedMeansRecorded ==
  exit = "drained" =>
    \A c \in Clicks : handler[c] = "queued" /\ c \notin MayFail => inserted[c] = 1 /\ c \in touched

\* The refinement mapping: the entry a click has in the ledger.
EntryOf(c) ==
  CASE handler[c] \in {"new", "busy"} -> "none"
    [] handler[c] \in {"dropped", "panicked"} -> "lost"
    [] handler[c] = "queued" /\ inserted[c] > 0 -> "recorded"
    [] handler[c] = "queued" /\ inserted[c] = 0 /\ (InChannel(c) \/ AtWorker(c, "insert")) -> "owed"
    [] OTHER -> "lost"

Ledger == INSTANCE ClickLedger WITH
  ledger <- [c \in Clicks |-> EntryOf(c)],
  books <- IF exit = "drained" THEN "closed" ELSE "open"

\* The channel, the worker pool and the shutdown sequence keep the ledger.
KeepsLedger == Ledger!LedgerSpec

\* A queued click that MySQL accepts is recorded, or the process ends first.
QueuedIsRecorded ==
  \A c \in Clicks :
    (handler[c] = "queued" /\ c \notin MayFail) ~> (inserted[c] = 1 \/ phase = "exited")

\* A signal ends the process, whatever handlers and workers are doing.
SignalEndsProcess == (phase = "httpwait") ~> (phase = "exited")

-----------------------------------------------------------------------------
\* README.md:699, "Dropped events are counted and logged rather than blocking
\* callers", and :36, "Graceful shutdown draining in-flight events before
\* exit".  A handler that outlives srv.Shutdown's deadline sends on the
\* closed channel: its event is neither queued nor counted, and its client
\* gets 500.
EventsAreQueuedOrCounted == \A c \in Clicks : handler[c] # "panicked"
=============================================================================
