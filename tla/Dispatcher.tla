----------------------------- MODULE Dispatcher -----------------------------
(***************************************************************************)
(* The click pipeline of internal/analytics/dispatcher.go: a channel of     *)
(* fixed capacity between the redirect handlers, which never wait, and a   *)
(* pool of workers, which write each click to MySQL.                       *)
(***************************************************************************)
EXTENDS Integers, Sequences, FiniteSets

CONSTANTS
  Clicks,       \* redirects that reach Submit; each submits one event
  Workers,      \* the goroutines started by Run; without one nothing is drained
  BufferSize,   \* ANALYTICS_BUFFER; 0 makes the channel unbuffered
  MayFail       \* clicks whose INSERT or UPDATE may fail

ASSUME DispatcherAssumption ==
  /\ BufferSize \in Nat
  /\ MayFail \subseteq Clicks
  /\ IsFiniteSet(Clicks) /\ IsFiniteSet(Workers)
  /\ Workers # {}

VARIABLES
  events,      \* the channel's buffer
  chan,        \* "open" until close(d.events)
  wk,          \* worker -> where it is and the event it holds
  processed,   \* the two atomic counters
  dropped,
  inserted,    \* click -> rows it has in the table clicks
  touched      \* clicks whose UpdateLastAccessed took effect

dispatcherVars == << events, chan, wk, processed, dropped, inserted, touched >>

NoClick == "no click"

DispatcherTypeOK ==
  /\ events \in Seq(Clicks)
  /\ chan \in {"open", "closed"}
  /\ wk \in [Workers -> [pc : {"receive", "returned"}, click : {NoClick}]
                      \cup [pc : {"insert", "update", "count"}, click : Clicks]]
  /\ processed \in Nat /\ dropped \in Nat
  /\ inserted \in [Clicks -> Nat]
  /\ touched \subseteq Clicks

\* NewDispatcher, then Run.
DispatcherInit ==
  /\ events = << >>
  /\ chan = "open"
  /\ wk = [w \in Workers |-> [pc |-> "receive", click |-> NoClick]]
  /\ processed = 0 /\ dropped = 0
  /\ inserted = [c \in Clicks |-> 0]
  /\ touched = {}

-----------------------------------------------------------------------------
(* Submit: a select with a default.                                         *)

\* Room in the buffer, and no worker that is already waiting (a worker in
\* "receive" may not have reached the channel yet).
Enqueue(c) ==
  /\ chan = "open" /\ Len(events) < BufferSize
  /\ events' = Append(events, c)
  /\ UNCHANGED << chan, wk, processed, dropped, inserted, touched >>

\* Mutant: a send may reach a worker that is busy.
HandOverToAny(c) ==
  /\ chan = "open" /\ events = << >>
  /\ \E w \in Workers : wk' = [wk EXCEPT ![w] = [pc |-> "insert", click |-> c]]
  /\ UNCHANGED << events, chan, processed, dropped, inserted, touched >>

\* A worker that waits on the empty channel takes the event from the sender's
\* hands; without a buffer this is the only way to send.
HandOver(c) ==
  /\ chan = "open" /\ events = << >>
  /\ \E w \in Workers :
       /\ wk[w].pc = "receive"
       /\ wk' = [wk EXCEPT ![w] = [pc |-> "insert", click |-> c]]
  /\ UNCHANGED << events, chan, processed, dropped, inserted, touched >>

\* No room, or no worker that waits yet: count the event and forget it.
Drop ==
  /\ chan = "open" /\ Len(events) >= BufferSize
  /\ dropped' = dropped + 1
  /\ UNCHANGED << events, chan, wk, processed, inserted, touched >>

\* A send on a closed channel panics, default case or not.
SendPanics == chan = "closed" /\ UNCHANGED dispatcherVars

-----------------------------------------------------------------------------
(* worker                                                                   *)

\* Mutant: the last event stays in the channel.
ReceiveAllButLast(w) ==
  /\ wk[w].pc = "receive" /\ Len(events) > 1
  /\ wk' = [wk EXCEPT ![w] = [pc |-> "insert", click |-> Head(events)]]
  /\ events' = Tail(events)
  /\ UNCHANGED << chan, processed, dropped, inserted, touched >>

Receive(w) ==
  /\ wk[w].pc = "receive" /\ events # << >>
  /\ wk' = [wk EXCEPT ![w] = [pc |-> "insert", click |-> Head(events)]]
  /\ events' = Tail(events)
  /\ UNCHANGED << chan, processed, dropped, inserted, touched >>

\* Mutant: a worker returns as soon as the channel is closed.
ReturnOnClose(w) ==
  /\ wk[w].pc = "receive" /\ chan = "closed"
  /\ wk' = [wk EXCEPT ![w] = [pc |-> "returned", click |-> NoClick]]
  /\ UNCHANGED << events, chan, processed, dropped, inserted, touched >>

\* The range loop ends when the channel is closed and empty.
Return(w) ==
  /\ wk[w].pc = "receive" /\ events = << >> /\ chan = "closed"
  /\ wk' = [wk EXCEPT ![w] = [pc |-> "returned", click |-> NoClick]]
  /\ UNCHANGED << events, chan, processed, dropped, inserted, touched >>

\* Mutant: any click may go without its INSERT.
InsertOrSkip(w) ==
  /\ wk[w].pc = "insert"
  /\ inserted' \in {inserted, [inserted EXCEPT ![wk[w].click] = @ + 1]}
  /\ wk' = [wk EXCEPT ![w] = [@ EXCEPT !.pc = "update"]]
  /\ UNCHANGED << events, chan, processed, dropped, touched >>

\* clickRepo.Insert; an error is logged and the worker goes on.
InsertClick(w) ==
  LET c == wk[w].click IN
  /\ wk[w].pc = "insert"
  /\ \/ inserted' = [inserted EXCEPT ![c] = @ + 1]
     \/ c \in MayFail /\ UNCHANGED inserted
  /\ wk' = [wk EXCEPT ![w] = [@ EXCEPT !.pc = "update"]]
  /\ UNCHANGED << events, chan, processed, dropped, touched >>

\* urlRepo.UpdateLastAccessed; likewise.
TouchUrl(w) ==
  LET c == wk[w].click IN
  /\ wk[w].pc = "update"
  /\ \/ touched' = touched \cup {c}
     \/ c \in MayFail /\ UNCHANGED touched
  /\ wk' = [wk EXCEPT ![w] = [@ EXCEPT !.pc = "count"]]
  /\ UNCHANGED << events, chan, processed, dropped, inserted >>

\* Mutant: the worker keeps the event it has finished.
CountAndKeep(w) ==
  /\ wk[w].pc = "count"
  /\ processed' = processed + 1
  /\ wk' = [wk EXCEPT ![w] = [@ EXCEPT !.pc = "receive"]]
  /\ UNCHANGED << events, chan, dropped, inserted, touched >>

CountClick(w) ==
  /\ wk[w].pc = "count"
  /\ processed' = processed + 1
  /\ wk' = [wk EXCEPT ![w] = [pc |-> "receive", click |-> NoClick]]
  /\ UNCHANGED << events, chan, dropped, inserted, touched >>

WorkerStep(w) ==
  Receive(w) \/ Return(w) \/ InsertClick(w) \/ TouchUrl(w) \/ CountClick(w)

\* Shutdown's first statement, and what its WaitGroup waits for.
CloseEvents == chan' = "closed" /\ UNCHANGED << events, wk, processed, dropped, inserted, touched >>

\* Mutant: the first worker to return ends the wait.
AnyReturned == \E w \in Workers : wk[w].pc = "returned"

AllReturned == \A w \in Workers : wk[w].pc = "returned"
=============================================================================
