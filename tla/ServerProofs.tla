---------------------------- MODULE ServerProofs ----------------------------
(***************************************************************************)
(* Theorems about Server for every number of clicks and workers and every   *)
(* channel capacity.                                                       *)
(***************************************************************************)
EXTENDS Server, SequenceTheorems, FiniteSetTheorems, TLAPS

\* What the actions do to the channel, in terms of its elements.
LEMMA ChannelAppend ==
  ASSUME NEW S, NEW s \in Seq(S), NEW c \in S
  PROVE  /\ Append(s, c) \in Seq(S)
         /\ DOMAIN s = 1 .. Len(s) /\ Len(s) \in Nat
         /\ DOMAIN Append(s, c) = 1 .. Len(s) + 1
         /\ \A i \in 1 .. Len(s) : Append(s, c)[i] = s[i]
         /\ Append(s, c)[Len(s) + 1] = c
<1> QED  BY AppendProperties, LenProperties

\* The same for a receive.
LEMMA ChannelTail ==
  ASSUME NEW S, NEW s \in Seq(S), s # << >>
  PROVE  /\ Tail(s) \in Seq(S)
         /\ Len(s) \in Nat \ {0} /\ DOMAIN s = 1 .. Len(s)
         /\ Head(s) \in S /\ Head(s) = s[1]
         /\ DOMAIN Tail(s) = 1 .. Len(s) - 1
         /\ \A i \in 1 .. Len(s) - 1 : Tail(s)[i] = s[i + 1]
<1> QED  BY HeadTailProperties, EmptySeq, LenProperties

\* Every value stays in its type.
THEOREM ServerTypeCorrect == ServerSpec => []ServerTypeOK
<1> USE DispatcherAssumption
<1>1. ServerInit => ServerTypeOK
  BY DEF ServerInit, DispatcherInit, ServerTypeOK, DispatcherTypeOK
<1>2. ServerTypeOK /\ [ServerNext]_serverVars => ServerTypeOK'
  <2> SUFFICES ASSUME ServerTypeOK, [ServerNext]_serverVars PROVE ServerTypeOK'
    OBVIOUS
  <2> USE DEF ServerTypeOK, DispatcherTypeOK, dispatcherVars
  <2>1. ASSUME NEW c \in Clicks, Accept(c) PROVE ServerTypeOK'
    BY <2>1 DEF Accept
  <2>2. ASSUME NEW c \in Clicks, Submit(c) PROVE ServerTypeOK'
    <3>1. CASE Enqueue(c)  BY <2>2, <3>1, ChannelAppend DEF Submit, Enqueue
    <3>2. CASE HandOver(c)
      <4>1. PICK w \in Workers : wk' = [wk EXCEPT ![w] = [pc |-> "insert", click |-> c]]
        BY <3>2 DEF HandOver
      <4>2. UNCHANGED << events, chan, processed, dropped, inserted, touched, phase, exit >>
        BY <2>2, <3>2 DEF Submit, HandOver
      <4>3. handler' \in [Clicks -> {"new", "busy", "queued", "dropped", "panicked"}]
        BY <2>2 DEF Submit
      <4> QED  BY <4>1, <4>2, <4>3
    <3>3. CASE Drop
      <4>1. UNCHANGED << events, chan, wk, processed, inserted, touched, phase, exit >> /\ dropped' = dropped + 1
        BY <2>2, <3>3 DEF Submit, Drop
      <4>2. handler' \in [Clicks -> {"new", "busy", "queued", "dropped", "panicked"}]
        BY <2>2 DEF Submit
      <4> QED  BY <4>1, <4>2
    <3>4. CASE SendPanics  BY <2>2, <3>4 DEF Submit, SendPanics
    <3> QED  BY <2>2, <3>1, <3>2, <3>3, <3>4 DEF Submit
  <2>3. ASSUME NEW w \in Workers, Work(w) PROVE ServerTypeOK'
    <3>1. CASE Receive(w)  BY <2>3, <3>1, ChannelTail DEF Work, Receive
    <3>2. CASE Return(w)  BY <2>3, <3>2 DEF Work, Return
    <3>3. CASE InsertClick(w)  BY <2>3, <3>3 DEF Work, InsertClick
    <3>4. CASE TouchUrl(w)  BY <2>3, <3>4 DEF Work, TouchUrl
    <3>5. CASE CountClick(w)  BY <2>3, <3>5 DEF Work, CountClick
    <3> QED  BY <2>3, <3>1, <3>2, <3>3, <3>4, <3>5 DEF Work, WorkerStep
  <2>4. CASE Signal \/ ListenerError \/ HttpShutdown \/ WorkersDone \/ DrainTimeout
    BY <2>4 DEF Signal, ListenerError, HttpShutdown, WorkersDone, DrainTimeout, Goto, Exit
  <2>5. CASE CloseDispatcher
    BY <2>5 DEF CloseDispatcher, CloseEvents
  <2>6. CASE UNCHANGED serverVars
    BY <2>6 DEF serverVars
  <2> QED  BY <2>1, <2>2, <2>3, <2>4, <2>5, <2>6 DEF ServerNext
<1> QED  BY <1>1, <1>2, PTL DEF ServerSpec

-----------------------------------------------------------------------------
Distinct == \A i, j \in DOMAIN events : events[i] = events[j] => i = j

\* An enqueued click is the only new one in the channel.
LEMMA EnqueueChannel ==
  ASSUME ServerTypeOK, NEW c \in Clicks, events' = Append(events, c), Distinct, ~InChannel(c)
  PROVE  Distinct' /\ \A d \in Clicks : InChannel(d)' <=> (InChannel(d) \/ d = c)
<1> DEFINE n == Len(events)
<1>1. /\ DOMAIN events = 1 .. n /\ n \in Nat /\ DOMAIN events' = 1 .. n + 1
      /\ \A i \in 1 .. n : events'[i] = events[i]
      /\ events'[n + 1] = c
  BY ChannelAppend DEF ServerTypeOK, DispatcherTypeOK
<1>2. ASSUME NEW d \in Clicks PROVE InChannel(d)' <=> (InChannel(d) \/ d = c)
  <2> HIDE DEF n
  <2>1. InChannel(d)' => InChannel(d) \/ d = c
    <3> SUFFICES ASSUME NEW i \in 1 .. n + 1, events'[i] = d PROVE InChannel(d) \/ d = c
      BY <1>1 DEF InChannel
    <3>1. i \in 1 .. n \/ i = n + 1  BY <1>1
    <3> QED  BY <1>1, <3>1 DEF InChannel
  <2>2. InChannel(d) => InChannel(d)'
    <3> SUFFICES ASSUME NEW i \in 1 .. n, events[i] = d PROVE InChannel(d)'
      BY <1>1 DEF InChannel
    <3> QED  BY <1>1 DEF InChannel
  <2>3. InChannel(c)'
    BY <1>1 DEF InChannel
  <2> QED  BY <2>1, <2>2, <2>3
<1>3. Distinct'
  <2> HIDE DEF n
  <2> SUFFICES ASSUME NEW i \in 1 .. n + 1, NEW j \in 1 .. n + 1, events'[i] = events'[j]
               PROVE  i = j
    BY <1>1 DEF Distinct
  <2>1. \A k \in 1 .. n : events'[k] # c
    BY <1>1 DEF InChannel
  <2>2. (i \in 1 .. n \/ i = n + 1) /\ (j \in 1 .. n \/ j = n + 1)
    BY <1>1
  <2> QED  BY <1>1, <2>1, <2>2 DEF Distinct
<1> QED  BY <1>2, <1>3

\* A received click leaves the channel, and only that one.
LEMMA ReceiveChannel ==
  ASSUME ServerTypeOK, events # << >>, events' = Tail(events), Distinct
  PROVE  /\ Head(events) \in Clicks /\ InChannel(Head(events))
         /\ Distinct'
         /\ \A d \in Clicks : InChannel(d)' <=> (InChannel(d) /\ d # Head(events))
<1> DEFINE n == Len(events)
<1>1. /\ n \in Nat \ {0} /\ DOMAIN events = 1 .. n /\ DOMAIN events' = 1 .. n - 1
      /\ Head(events) \in Clicks /\ Head(events) = events[1]
      /\ \A i \in 1 .. n - 1 : events'[i] = events[i + 1]
  BY ChannelTail DEF ServerTypeOK, DispatcherTypeOK
<1> HIDE DEF n
<1>2. InChannel(Head(events))
  BY <1>1 DEF InChannel
<1>3. Distinct'
  BY <1>1 DEF Distinct
<1>4. ASSUME NEW d \in Clicks PROVE InChannel(d)' <=> (InChannel(d) /\ d # Head(events))
  <2>1. InChannel(d)' => InChannel(d) /\ d # Head(events)
    <3> SUFFICES ASSUME NEW i \in 1 .. n - 1, events'[i] = d PROVE InChannel(d) /\ d # Head(events)
      BY <1>1 DEF InChannel
    <3>1. i + 1 \in 1 .. n /\ 1 \in 1 .. n /\ i + 1 # 1 /\ events[i + 1] = d  BY <1>1
    <3> QED  BY <1>1, <3>1 DEF InChannel, Distinct
  <2>2. InChannel(d) /\ d # Head(events) => InChannel(d)'
    <3> SUFFICES ASSUME NEW i \in 1 .. n, events[i] = d, d # events[1] PROVE InChannel(d)'
      BY <1>1 DEF InChannel
    <3>1. i - 1 \in 1 .. n - 1 /\ (i - 1) + 1 = i  BY <1>1
    <3>2. events'[i - 1] = d  BY <1>1, <3>1
    <3> QED  BY <1>1, <3>1, <3>2 DEF InChannel
  <2> QED  BY <2>1, <2>2
<1> QED  BY <1>1, <1>2, <1>3, <1>4

-----------------------------------------------------------------------------
\* Submit keeps every click in one place.
LEMMA SubmitKeeps ==
  ASSUME ServerTypeOK, DeliveryInv, NEW c \in Clicks, Submit(c)
  PROVE  DeliveryInv'
<1> USE DEF ServerTypeOK, DispatcherTypeOK, Held, AtWorker, AllReturned
<1>0. /\ Distinct /\ phase # "exited" /\ exit # "drained" /\ UNCHANGED << phase, exit >>
      /\ handler[c] = "busy" /\ ~InChannel(c) /\ inserted[c] = 0
      /\ \A w \in Workers : Held(w) => wk[w].click # c
  BY DEF Submit, Running, DeliveryInv, OnePlace, OrderlyEnd, Distinct
<1>1. CASE Enqueue(c)
  <2>1. /\ chan = "open" /\ handler' = [handler EXCEPT ![c] = "queued"]
        /\ UNCHANGED << chan, wk, inserted, touched >>
    BY <1>1 DEF Submit, Enqueue, HandOver, Drop, SendPanics, dispatcherVars
  <2>2. Distinct' /\ \A d \in Clicks : InChannel(d)' <=> (InChannel(d) \/ d = c)
    BY <1>0, <1>1, EnqueueChannel DEF Enqueue
  <2>3. OnePlace'  BY <1>0, <2>1, <2>2 DEF DeliveryInv, OnePlace, Distinct
  <2>4. NotForgotten'  BY <1>0, <2>1, <2>2 DEF DeliveryInv, NotForgotten
  <2>5. OrderlyEnd'  BY <1>0, <2>1 DEF DeliveryInv, OrderlyEnd
  <2> QED  BY <2>3, <2>4, <2>5 DEF DeliveryInv
<1>2. CASE HandOver(c)
  <2>1. PICK w \in Workers : wk[w].pc = "receive" /\ wk' = [wk EXCEPT ![w] = [pc |-> "insert", click |-> c]]
    BY <1>2 DEF HandOver
  <2>2. /\ chan = "open" /\ handler' = [handler EXCEPT ![c] = "queued"]
        /\ UNCHANGED << events, chan, inserted, touched >>
    BY <1>2, <2>1 DEF Submit, Enqueue, HandOver, Drop, SendPanics, dispatcherVars
  <2>3. \A d : InChannel(d)' <=> InChannel(d)
    BY <2>2 DEF InChannel
  <2>4. OnePlace'  BY <1>0, <2>1, <2>2, <2>3 DEF DeliveryInv, OnePlace
  <2>5. NotForgotten'  BY <1>0, <2>1, <2>2, <2>3 DEF DeliveryInv, NotForgotten
  <2>6. OrderlyEnd'  BY <1>0, <2>1, <2>2 DEF DeliveryInv, OrderlyEnd
  <2> QED  BY <2>4, <2>5, <2>6 DEF DeliveryInv
<1>3. CASE Drop \/ SendPanics
  <2>1. /\ \E a \in {"dropped", "panicked"} : handler' = [handler EXCEPT ![c] = a]
        /\ UNCHANGED << events, chan, wk, inserted, touched >>
    BY <1>3 DEF Submit, Enqueue, HandOver, Drop, SendPanics, dispatcherVars
  <2>2. \A d : InChannel(d)' <=> InChannel(d)
    BY <2>1 DEF InChannel
  <2>3. OnePlace'  BY <1>0, <2>1, <2>2 DEF DeliveryInv, OnePlace
  <2>4. NotForgotten'  BY <1>0, <2>1, <2>2 DEF DeliveryInv, NotForgotten
  <2>5. OrderlyEnd'  BY <1>0, <2>1 DEF DeliveryInv, OrderlyEnd
  <2> QED  BY <2>3, <2>4, <2>5 DEF DeliveryInv
<1> QED  BY <1>1, <1>2, <1>3 DEF Submit

\* So does every step of a worker.
LEMMA WorkKeeps ==
  ASSUME ServerTypeOK, DeliveryInv, NEW w \in Workers, Work(w)
  PROVE  DeliveryInv'
<1> USE DEF ServerTypeOK, DispatcherTypeOK, Held, AtWorker, AllReturned
<1>0. phase # "exited" /\ exit # "drained" /\ UNCHANGED << phase, exit, handler >>
  BY DEF Work, Running, DeliveryInv, OrderlyEnd
<1>1. CASE Receive(w)
  <2>1. /\ wk[w].pc = "receive"
        /\ wk' = [wk EXCEPT ![w] = [pc |-> "insert", click |-> Head(events)]]
        /\ events # << >>
        /\ UNCHANGED << chan, inserted, touched >>
    BY <1>1 DEF Receive
  <2>2. /\ Head(events) \in Clicks /\ InChannel(Head(events)) /\ Distinct'
        /\ \A d \in Clicks : InChannel(d)' <=> (InChannel(d) /\ d # Head(events))
    BY <1>1, ReceiveChannel DEF Receive, DeliveryInv, OnePlace, Distinct
  <2>3. OnePlace'  BY <1>0, <2>1, <2>2 DEF DeliveryInv, OnePlace, Distinct
  <2>4. NotForgotten'  BY <1>0, <2>1, <2>2 DEF DeliveryInv, NotForgotten
  <2>5. OrderlyEnd'  BY <1>0, <2>1, <2>2 DEF DeliveryInv, OrderlyEnd
  <2> QED  BY <2>3, <2>4, <2>5 DEF DeliveryInv
<1>2. ASSUME UNCHANGED events PROVE \A d : InChannel(d)' <=> InChannel(d)
  BY <1>2 DEF InChannel
<1>3. CASE Return(w)
  <2> USE <1>0, <1>2, <1>3 DEF Return
  <2>1. OnePlace'  BY DEF DeliveryInv, OnePlace
  <2>2. NotForgotten'  BY DEF DeliveryInv, NotForgotten
  <2>3. OrderlyEnd'  BY DEF DeliveryInv, OrderlyEnd
  <2> QED  BY <2>1, <2>2, <2>3 DEF DeliveryInv
<1>4. CASE InsertClick(w)
  <2> USE <1>0, <1>2, <1>4 DEF InsertClick
  <2>1. OnePlace'  BY DEF DeliveryInv, OnePlace
  <2>2. NotForgotten'  BY DEF DeliveryInv, NotForgotten, OnePlace
  <2>3. OrderlyEnd'  BY DEF DeliveryInv, OrderlyEnd
  <2> QED  BY <2>1, <2>2, <2>3 DEF DeliveryInv
<1>5. CASE TouchUrl(w)
  <2> USE <1>0, <1>2, <1>5 DEF TouchUrl
  <2>1. OnePlace'  BY DEF DeliveryInv, OnePlace
  <2>2. NotForgotten'  BY DEF DeliveryInv, NotForgotten
  <2>3. OrderlyEnd'  BY DEF DeliveryInv, OrderlyEnd
  <2> QED  BY <2>1, <2>2, <2>3 DEF DeliveryInv
<1>6. CASE CountClick(w)
  <2> USE <1>0, <1>2, <1>6 DEF CountClick
  <2>1. OnePlace'  BY DEF DeliveryInv, OnePlace
  <2>2. NotForgotten'  BY DEF DeliveryInv, NotForgotten
  <2>3. OrderlyEnd'  BY DEF DeliveryInv, OrderlyEnd
  <2> QED  BY <2>1, <2>2, <2>3 DEF DeliveryInv
<1> QED  BY <1>1, <1>3, <1>4, <1>5, <1>6 DEF Work, WorkerStep

\* Nothing else moves a click.
LEMMA DeliveryStep ==
  ASSUME ServerTypeOK, DeliveryInv, [ServerNext]_serverVars
  PROVE  DeliveryInv'
<1> USE DEF ServerTypeOK, DispatcherTypeOK, Held, AtWorker, AllReturned
<1>1. ASSUME NEW c \in Clicks, Accept(c) PROVE DeliveryInv'
  <2> USE <1>1 DEF Accept, dispatcherVars, InChannel
  <2>1. OnePlace'  BY DEF DeliveryInv, OnePlace
  <2>2. NotForgotten'  BY DEF DeliveryInv, NotForgotten
  <2>3. OrderlyEnd'  BY DEF DeliveryInv, OrderlyEnd
  <2> QED  BY <2>1, <2>2, <2>3 DEF DeliveryInv
<1>2. CASE Signal \/ ListenerError \/ HttpShutdown \/ WorkersDone \/ DrainTimeout \/ CloseDispatcher
  <2>1. UNCHANGED << events, wk, inserted, touched, handler >>
    BY <1>2 DEF Signal, ListenerError, HttpShutdown, WorkersDone, DrainTimeout, CloseDispatcher,
                CloseEvents, Goto, Exit, dispatcherVars
  <2>2. OnePlace'  BY <2>1 DEF DeliveryInv, OnePlace, InChannel
  <2>3. NotForgotten'  BY <2>1 DEF DeliveryInv, NotForgotten, InChannel
  <2>4. OrderlyEnd'
    BY <1>2, <2>1 DEF DeliveryInv, OrderlyEnd, Signal, ListenerError, HttpShutdown, WorkersDone,
       DrainTimeout, CloseDispatcher, CloseEvents, Goto, Exit, dispatcherVars
  <2> QED  BY <2>2, <2>3, <2>4 DEF DeliveryInv
<1>3. CASE UNCHANGED serverVars
  BY <1>3 DEF serverVars, dispatcherVars, DeliveryInv, OnePlace, NotForgotten, OrderlyEnd, InChannel
<1> QED  BY <1>1, <1>2, <1>3, SubmitKeeps, WorkKeeps DEF ServerNext

\* At every moment each click is in one place, none that was queued is
\* forgotten, and workers end only after the channel is closed and empty:
\* Submit, worker and Shutdown of the dispatcher, in any interleaving.
THEOREM Delivery == ServerSpec => []DeliveryInv
<1>1. ServerInit => DeliveryInv
  BY DispatcherAssumption
     DEF ServerInit, DispatcherInit, DeliveryInv, OnePlace, NotForgotten, OrderlyEnd, Held,
         InChannel, AtWorker, AllReturned
<1>2. ServerTypeOK /\ DeliveryInv /\ [ServerNext]_serverVars => DeliveryInv'
  BY DeliveryStep
<1> QED  BY <1>1, <1>2, ServerTypeCorrect, PTL DEF ServerSpec

\* An orderly shutdown loses no queued click that MySQL accepts.
THEOREM DrainRecordsAll == ServerSpec => []DrainedMeansRecorded
<1>1. ServerTypeOK /\ DeliveryInv => DrainedMeansRecorded
  <2> SUFFICES ASSUME ServerTypeOK, DeliveryInv, exit = "drained", NEW c \in Clicks,
                      handler[c] = "queued", c \notin MayFail
               PROVE  inserted[c] = 1 /\ c \in touched
    BY DEF DrainedMeansRecorded
  <2>1. \A w \in Workers : wk[w].pc = "returned"
    BY DEF DeliveryInv, OrderlyEnd, AllReturned
  <2>2. events = << >>
    BY <2>1, DispatcherAssumption DEF DeliveryInv, OrderlyEnd
  <2>3. ~InChannel(c) /\ ~AtWorker(c, "insert") /\ ~AtWorker(c, "update")
    BY <2>1, <2>2 DEF InChannel, AtWorker
  <2> QED  BY <2>3 DEF DeliveryInv, NotForgotten
<1> QED  BY <1>1, ServerTypeCorrect, Delivery, PTL

-----------------------------------------------------------------------------
\* One entry changes in the ledger.
LEMMA OneEntry ==
  ASSUME NEW c \in Clicks, NEW from, NEW to, exit # "drained", exit' # "drained",
         EntryOf(c) = from, EntryOf(c)' = to,
         \A d \in Clicks \ {c} : EntryOf(d)' = EntryOf(d)
  PROVE  Ledger!Enter(c, from, to)
BY DEF Ledger!Enter

\* No entry changes.
LEMMA NoEntry ==
  ASSUME UNCHANGED exit, \A d \in Clicks : EntryOf(d)' = EntryOf(d)
  PROVE  UNCHANGED Ledger!ledgerVars
BY DEF Ledger!ledgerVars

\* Every step of the server is one of the ledger or leaves it alone.
LEMMA LedgerStep ==
  ASSUME ServerTypeOK, DeliveryInv, DeliveryInv', [ServerNext]_serverVars
  PROVE  [Ledger!LedgerNext]_(Ledger!ledgerVars)
<1> USE DEF ServerTypeOK, DispatcherTypeOK, Held, AtWorker
<1>0. ASSUME UNCHANGED events PROVE \A d : InChannel(d)' <=> InChannel(d)
  BY <1>0 DEF InChannel
<1>1. ASSUME NEW c \in Clicks, Accept(c) PROVE UNCHANGED Ledger!ledgerVars
  <2>1. /\ UNCHANGED << events, wk, inserted, exit >>
        /\ handler[c] = "new" /\ handler' = [handler EXCEPT ![c] = "busy"]
    BY <1>1 DEF Accept, dispatcherVars
  <2>2. \A d \in Clicks : EntryOf(d)' = EntryOf(d)
    BY <1>0, <2>1 DEF EntryOf
  <2> QED  BY <2>1, <2>2, NoEntry
<1>2. ASSUME NEW c \in Clicks, Submit(c) PROVE Ledger!LedgerNext
  <2>0. /\ handler[c] = "busy" /\ inserted[c] = 0 /\ exit # "drained" /\ exit' = exit
        /\ EntryOf(c) = "none"
    BY <1>2 DEF Submit, Running, DeliveryInv, OnePlace, OrderlyEnd, EntryOf
  <2>1. CASE Enqueue(c)
    <3>1. /\ handler' = [handler EXCEPT ![c] = "queued"]
          /\ UNCHANGED << wk, inserted >>
      BY <1>2, <2>1 DEF Submit, Enqueue, HandOver, Drop, SendPanics, dispatcherVars
    <3>2. \A d \in Clicks : InChannel(d)' <=> (InChannel(d) \/ d = c)
      BY <2>0, <2>1, EnqueueChannel DEF Enqueue, DeliveryInv, OnePlace, Distinct
    <3>3. EntryOf(c)' = "owed" /\ \A d \in Clicks \ {c} : EntryOf(d)' = EntryOf(d)
      BY <2>0, <3>1, <3>2 DEF EntryOf
    <3>4. Ledger!Take(c)  BY <2>0, <3>3, OneEntry DEF Ledger!Take
    <3> QED  BY <3>4 DEF Ledger!LedgerNext
  <2>2. CASE HandOver(c)
    <3>1. PICK w \in Workers : wk[w].pc = "receive" /\ wk' = [wk EXCEPT ![w] = [pc |-> "insert", click |-> c]]
      BY <2>2 DEF HandOver
    <3>2. handler' = [handler EXCEPT ![c] = "queued"] /\ UNCHANGED << events, inserted >>
      BY <1>2, <2>2, <3>1 DEF Submit, Enqueue, HandOver, Drop, SendPanics, dispatcherVars
    <3>3. EntryOf(c)' = "owed" /\ \A d \in Clicks \ {c} : EntryOf(d)' = EntryOf(d)
      BY <1>0, <2>0, <3>1, <3>2 DEF EntryOf
    <3>4. Ledger!Take(c)  BY <2>0, <3>3, OneEntry DEF Ledger!Take
    <3> QED  BY <3>4 DEF Ledger!LedgerNext
  <2>3. CASE Drop \/ SendPanics
    <3>1. /\ \E a \in {"dropped", "panicked"} : handler' = [handler EXCEPT ![c] = a]
          /\ UNCHANGED << events, wk, inserted >>
      BY <1>2, <2>3 DEF Submit, Enqueue, HandOver, Drop, SendPanics, dispatcherVars
    <3>2. EntryOf(c)' = "lost" /\ \A d \in Clicks \ {c} : EntryOf(d)' = EntryOf(d)
      BY <1>0, <2>0, <3>1 DEF EntryOf
    <3>3. Ledger!Refuse(c)  BY <2>0, <3>2, OneEntry DEF Ledger!Refuse
    <3> QED  BY <3>3 DEF Ledger!LedgerNext
  <2> QED  BY <1>2, <2>1, <2>2, <2>3 DEF Submit
<1>3. ASSUME NEW w \in Workers, Work(w) PROVE [Ledger!LedgerNext]_(Ledger!ledgerVars)
  <2>0. exit # "drained" /\ UNCHANGED << exit, handler >>
    BY <1>3 DEF Work, Running, DeliveryInv, OrderlyEnd
  <2>1. CASE Receive(w)
    <3>1. /\ wk[w].pc = "receive" /\ UNCHANGED inserted
          /\ wk' = [wk EXCEPT ![w] = [pc |-> "insert", click |-> Head(events)]]
      BY <2>1 DEF Receive
    <3>2. /\ Head(events) \in Clicks /\ InChannel(Head(events))
          /\ \A d \in Clicks : InChannel(d)' <=> (InChannel(d) /\ d # Head(events))
      BY <2>1, ReceiveChannel DEF Receive, DeliveryInv, OnePlace, Distinct
    <3>3. \A d \in Clicks : EntryOf(d)' = EntryOf(d)
      BY <2>0, <3>1, <3>2 DEF EntryOf
    <3> QED  BY <2>0, <3>3, NoEntry
  <2>2. CASE Return(w) \/ TouchUrl(w) \/ CountClick(w)
    <3>1. /\ UNCHANGED << events, inserted >> /\ wk[w].pc # "insert" /\ wk'[w].pc # "insert"
          /\ \A v \in Workers \ {w} : wk'[v] = wk[v]
      BY <2>2 DEF Return, TouchUrl, CountClick
    <3>2. \A d \in Clicks : EntryOf(d)' = EntryOf(d)
      BY <1>0, <2>0, <3>1 DEF EntryOf
    <3> QED  BY <2>0, <3>2, NoEntry
  <2>3. CASE InsertClick(w)
    <3>0. PICK c \in Clicks : c = wk[w].click
      BY <2>3 DEF InsertClick
    <3>1. /\ c \in Clicks /\ handler[c] = "queued" /\ inserted[c] = 0 /\ ~InChannel(c)
          /\ \A v \in Workers \ {w} : Held(v) => wk[v].click # c
      BY <2>3, <3>0 DEF InsertClick, DeliveryInv, OnePlace
    <3>2. /\ wk[w].pc = "insert" /\ wk'[w].pc = "update" /\ UNCHANGED events
          /\ \A v \in Workers \ {w} : wk'[v] = wk[v]
          /\ \A d \in Clicks \ {c} : inserted'[d] = inserted[d]
          /\ inserted'[c] = 1 \/ (c \in MayFail /\ inserted'[c] = 0)
      BY <2>3, <3>0, <3>1 DEF InsertClick
    <3>3. EntryOf(c) = "owed"
      BY <3>0, <3>1, <3>2 DEF EntryOf
    <3>4. \A d \in Clicks \ {c} : EntryOf(d)' = EntryOf(d)
      BY <1>0, <2>0, <3>0, <3>1, <3>2 DEF EntryOf
    <3>5. CASE inserted'[c] = 1
      <4>1. EntryOf(c)' = "recorded"  BY <2>0, <3>1, <3>5 DEF EntryOf
      <4>2. Ledger!Record(c)  BY <2>0, <3>1, <3>3, <3>4, <4>1, OneEntry DEF Ledger!Record
      <4> QED  BY <3>1, <4>2 DEF Ledger!LedgerNext
    <3>6. CASE c \in MayFail /\ inserted'[c] = 0
      <4>1. EntryOf(c)' = "lost"  BY <1>0, <2>0, <3>1, <3>2, <3>6 DEF EntryOf
      <4>2. Ledger!Lose(c)  BY <2>0, <3>1, <3>3, <3>4, <3>6, <4>1, OneEntry DEF Ledger!Lose
      <4> QED  BY <3>1, <4>2 DEF Ledger!LedgerNext
    <3> QED  BY <3>2, <3>5, <3>6
  <2> QED  BY <1>3, <2>1, <2>2, <2>3 DEF Work, WorkerStep
<1>4. CASE Signal \/ ListenerError \/ HttpShutdown \/ WorkersDone \/ DrainTimeout \/ CloseDispatcher
  <2>1. UNCHANGED << events, wk, inserted, handler >>
    BY <1>4 DEF Signal, ListenerError, HttpShutdown, WorkersDone, DrainTimeout, CloseDispatcher,
                CloseEvents, Goto, Exit, dispatcherVars
  <2>2. \A d \in Clicks : EntryOf(d)' = EntryOf(d)
    BY <1>0, <2>1 DEF EntryOf
  <2>3. CASE (exit = "drained") <=> (exit' = "drained")
    BY <2>2, <2>3 DEF Ledger!ledgerVars
  <2>4. CASE ~((exit = "drained") <=> (exit' = "drained"))
    <3>1. WorkersDone /\ exit' = "drained"
      BY <1>4, <2>4 DEF Signal, ListenerError, HttpShutdown, WorkersDone, DrainTimeout,
         CloseDispatcher, Goto, Exit, DeliveryInv, OrderlyEnd
    <3>2. events = << >> /\ \A w \in Workers : wk[w].pc = "returned"
      BY <3>1, DispatcherAssumption DEF WorkersDone, AllReturned, DeliveryInv, OrderlyEnd
    <3>3. \A c \in Clicks : EntryOf(c) # "owed"
      BY <3>2 DEF EntryOf, InChannel
    <3>4. Ledger!Balance
      BY <2>2, <3>1, <3>3 DEF Ledger!Balance
    <3> QED  BY <3>4 DEF Ledger!LedgerNext
  <2> QED  BY <2>3, <2>4
<1>5. CASE UNCHANGED serverVars
  <2>1. UNCHANGED << events, wk, inserted, handler, exit >>
    BY <1>5 DEF serverVars, dispatcherVars
  <2>2. \A d \in Clicks : EntryOf(d)' = EntryOf(d)
    BY <1>0, <2>1 DEF EntryOf
  <2> QED  BY <2>1, <2>2, NoEntry
<1> QED  BY <1>1, <1>2, <1>3, <1>4, <1>5 DEF ServerNext

\* The channel, the workers and the shutdown sequence implement the ledger:
\* a click gets one row or is lost once and for all, only a click MySQL may
\* refuse is lost after it was queued, and an orderly end owes nothing.
THEOREM Refinement == ServerSpec => KeepsLedger
<1>1. ServerInit => Ledger!LedgerInit
  BY DEF ServerInit, DispatcherInit, Ledger!LedgerInit, EntryOf
<1>2. /\ ServerTypeOK /\ DeliveryInv /\ DeliveryInv' /\ [ServerNext]_serverVars
      => [Ledger!LedgerNext]_(Ledger!ledgerVars)
  BY LedgerStep
<1> QED  BY <1>1, <1>2, ServerTypeCorrect, Delivery, PTL DEF ServerSpec, KeepsLedger, Ledger!LedgerSpec

-----------------------------------------------------------------------------
Submitted == {c \in Clicks : handler[c] \in {"queued", "dropped"}}
Holding == {w \in Workers : Held(w)}

\* The sets the counters are compared with are finite.
LEMMA Counts ==
  ASSUME ServerTypeOK
  PROVE  /\ IsFiniteSet(Submitted) /\ IsFiniteSet(Holding)
         /\ Cardinality(Submitted) \in Nat /\ Cardinality(Holding) \in Nat
         /\ Len(events) \in Nat
  BY DispatcherAssumption, FS_Subset, FS_CardinalityType, LenProperties
     DEF Submitted, Holding, ServerTypeOK, DispatcherTypeOK

\* The counters the dispatcher logs always account for every submitted click.
THEOREM CountersCorrect == ServerSpec => []CountersAddUp
<1> USE DispatcherAssumption DEF ServerTypeOK, DispatcherTypeOK, Held
<1>0. CountersAddUp <=>
        Cardinality(Submitted) = dropped + Len(events) + Cardinality(Holding) + processed
  BY DEF CountersAddUp, Submitted, Holding
<1>1. ServerInit => CountersAddUp
  <2> SUFFICES ASSUME ServerInit PROVE CountersAddUp
    OBVIOUS
  <2>1. Submitted = {} /\ Holding = {} /\ dropped = 0 /\ processed = 0 /\ events = << >>
    BY DEF ServerInit, DispatcherInit, Submitted, Holding
  <2>2. Len(events) = 0  BY <2>1
  <2> QED  BY <1>0, <2>1, <2>2, FS_EmptySet
<1>2. ServerTypeOK /\ DeliveryInv /\ CountersAddUp /\ [ServerNext]_serverVars => CountersAddUp'
  <2> SUFFICES ASSUME ServerTypeOK, DeliveryInv, CountersAddUp, [ServerNext]_serverVars
               PROVE  Cardinality(Submitted') =
                        dropped' + Len(events') + Cardinality(Holding') + processed'
    BY DEF CountersAddUp, Submitted, Holding
  <2> HIDE DEF Held
  <2>0. /\ Cardinality(Submitted) = dropped + Len(events) + Cardinality(Holding) + processed
        /\ IsFiniteSet(Submitted) /\ IsFiniteSet(Holding)
        /\ Cardinality(Submitted) \in Nat /\ Cardinality(Holding) \in Nat
        /\ Len(events) \in Nat /\ dropped \in Nat /\ processed \in Nat
    BY <1>0, Counts
  <2>1. ASSUME NEW c \in Clicks, Submit(c) PROVE
          Cardinality(Submitted') = dropped' + Len(events') + Cardinality(Holding') + processed'
    <3>0. handler[c] = "busy" /\ c \notin Submitted /\ Cardinality(Submitted \cup {c}) = Cardinality(Submitted) + 1
      BY <2>0, <2>1, FS_AddElement DEF Submit, Submitted
    <3>1. CASE Enqueue(c)
      <4>1. Len(events') = Len(events) + 1 /\ UNCHANGED << dropped, processed, wk >>
        BY <3>1, AppendProperties DEF Enqueue
      <4>2. handler' = [handler EXCEPT ![c] = "queued"]
        BY <2>1, <3>1 DEF Submit, Enqueue, HandOver, Drop, SendPanics, dispatcherVars
      <4>3. Submitted' = Submitted \cup {c}  BY <4>2 DEF Submitted
      <4>4. Holding' = Holding  BY <4>1 DEF Holding, Held
      <4> QED  BY <2>0, <3>0, <4>1, <4>3, <4>4
    <3>2. CASE HandOver(c)
      <4>1. PICK w \in Workers : wk[w].pc = "receive" /\ wk' = [wk EXCEPT ![w] = [pc |-> "insert", click |-> c]]
        BY <3>2 DEF HandOver
      <4>2. handler' = [handler EXCEPT ![c] = "queued"] /\ UNCHANGED << events, dropped, processed >>
        BY <2>1, <3>2, <4>1 DEF Submit, Enqueue, HandOver, Drop, SendPanics, dispatcherVars
      <4>3. Submitted' = Submitted \cup {c}  BY <4>2 DEF Submitted
      <4>4. w \notin Holding /\ Holding' = Holding \cup {w}  BY <4>1 DEF Holding, Held
      <4>5. Cardinality(Holding') = Cardinality(Holding) + 1  BY <2>0, <4>4, FS_AddElement
      <4> QED  BY <2>0, <3>0, <4>2, <4>3, <4>5
    <3>3. CASE Drop
      <4>1. dropped' = dropped + 1 /\ UNCHANGED << events, wk, processed >>
        BY <3>3 DEF Drop
      <4>2. handler' = [handler EXCEPT ![c] = "dropped"]
        BY <2>1, <3>3, <4>1, <2>0 DEF Submit, Enqueue, HandOver, Drop, SendPanics, dispatcherVars
      <4>3. Submitted' = Submitted \cup {c}  BY <4>2 DEF Submitted
      <4>4. Holding' = Holding  BY <4>1 DEF Holding, Held
      <4> QED  BY <2>0, <3>0, <4>1, <4>3, <4>4
    <3>4. CASE SendPanics
      <4>1. /\ UNCHANGED << events, wk, processed, dropped >>
            /\ handler' = [handler EXCEPT ![c] = "panicked"]
        BY <2>1, <3>4 DEF Submit, Enqueue, HandOver, Drop, SendPanics, dispatcherVars
      <4>2. Submitted' = Submitted  BY <3>0, <4>1 DEF Submitted
      <4>3. Holding' = Holding  BY <4>1 DEF Holding, Held
      <4> QED  BY <2>0, <4>1, <4>2, <4>3
    <3> QED  BY <2>1, <3>1, <3>2, <3>3, <3>4 DEF Submit
  <2>2. ASSUME NEW w \in Workers, Work(w) PROVE
          Cardinality(Submitted') = dropped' + Len(events') + Cardinality(Holding') + processed'
    <3>0. Submitted' = Submitted  BY <2>2 DEF Work, Submitted
    <3>1. CASE Receive(w)
      <4>1. /\ Len(events') = Len(events) - 1 /\ Len(events) > 0
            /\ UNCHANGED << dropped, processed >>
        BY <2>0, <3>1, HeadTailProperties, EmptySeq DEF Receive
      <4>2. w \notin Holding /\ Holding' = Holding \cup {w}  BY <3>1 DEF Receive, Holding, Held
      <4>3. Cardinality(Holding') = Cardinality(Holding) + 1  BY <2>0, <4>2, FS_AddElement
      <4> QED  BY <2>0, <3>0, <4>1, <4>3
    <3>2. CASE Return(w) \/ InsertClick(w) \/ TouchUrl(w)
      <4>1. UNCHANGED << events, dropped, processed >>
        BY <3>2 DEF Return, InsertClick, TouchUrl
      <4>2. \A v \in Workers : Held(v)' <=> Held(v)
        <5>1. CASE Return(w)  BY <5>1 DEF Return, Held
        <5>2. CASE InsertClick(w)  BY <5>2 DEF InsertClick, Held
        <5>3. CASE TouchUrl(w)  BY <5>3 DEF TouchUrl, Held
        <5> QED  BY <3>2, <5>1, <5>2, <5>3
      <4>3. Holding' = Holding  BY <4>2 DEF Holding
      <4> QED  BY <2>0, <3>0, <4>1, <4>3
    <3>3. CASE CountClick(w)
      <4>1. processed' = processed + 1 /\ UNCHANGED << events, dropped >>
        BY <3>3 DEF CountClick
      <4>2. w \in Holding /\ Holding' = Holding \ {w}  BY <3>3 DEF CountClick, Holding, Held
      <4>3. Cardinality(Holding') = Cardinality(Holding) - 1  BY <2>0, <4>2, FS_RemoveElement
      <4>4. PICK d \in Nat, n \in Nat, h \in Nat, p \in Nat :
              dropped = d /\ Len(events) = n /\ Cardinality(Holding) = h /\ processed = p
        BY <2>0
      <4>5. /\ dropped' = d /\ Len(events') = n
            /\ Cardinality(Holding') = h - 1 /\ processed' = p + 1
        BY <4>1, <4>3, <4>4
      <4>6. d + n + (h - 1) + (p + 1) = d + n + h + p
        BY <4>4
      <4>7. Cardinality(Submitted') = d + n + h + p
        BY <2>0, <3>0, <4>4
      <4> QED  BY <4>5, <4>6, <4>7, Zenon
    <3> QED  BY <2>2, <3>1, <3>2, <3>3 DEF Work, WorkerStep
  <2>3. ASSUME NEW c \in Clicks, Accept(c) PROVE
          Cardinality(Submitted') = dropped' + Len(events') + Cardinality(Holding') + processed'
    <3>1. UNCHANGED << events, wk, dropped, processed >>  BY <2>3 DEF Accept, dispatcherVars
    <3>2. Submitted' = Submitted  BY <2>3 DEF Accept, Submitted
    <3>3. Holding' = Holding  BY <3>1 DEF Holding, Held
    <3> QED  BY <2>0, <3>1, <3>2, <3>3
  <2>4. CASE \/ Signal \/ ListenerError \/ HttpShutdown \/ CloseDispatcher \/ WorkersDone
             \/ DrainTimeout \/ UNCHANGED serverVars
    <3>1. UNCHANGED << events, wk, dropped, processed, handler >>
      BY <2>4 DEF Signal, ListenerError, HttpShutdown, CloseDispatcher, WorkersDone, DrainTimeout,
                  Goto, Exit, CloseEvents, serverVars, dispatcherVars
    <3>2. Submitted' = Submitted /\ Holding' = Holding  BY <3>1 DEF Submitted, Holding, Held
    <3> QED  BY <2>0, <3>1, <3>2
  <2> QED  BY <2>1, <2>2, <2>3, <2>4 DEF ServerNext
<1> QED  BY <1>1, <1>2, ServerTypeCorrect, Delivery, PTL DEF ServerSpec
=============================================================================
