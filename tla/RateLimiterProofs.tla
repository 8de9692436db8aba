------------------------- MODULE RateLimiterProofs --------------------------
(***************************************************************************)
(* The rate limiter for any number of requests and addresses, any burst and *)
(* any periods that LimiterAssumption allows.                              *)
(***************************************************************************)
EXTENDS RateLimiter, FiniteSetTheorems, TLAPS

\* A request is counted under an address of the model.
LEMMA AddressOf ==
  ASSUME NEW remote \in IPs, NEW xff \in IPs \cup {NoHeader}
  PROVE  getIP(remote, xff) \in IPs
<1> QED  BY DEF getIP

-----------------------------------------------------------------------------
(* What each step of a request does, field by field.                        *)

\* Only the record of r changes, in the fields given.
Writes(r, pc, ip, entry, at, reply) ==
  /\ rq' \in [Requests -> RequestState]
  /\ \A q \in Requests \ {r} : rq'[q] = rq[q]
  /\ rq'[r].pc = pc /\ rq'[r].ip = ip /\ rq'[r].entry = entry
  /\ rq'[r].at = at /\ rq'[r].reply = reply

\* Replacing the record of r by one of the right type.
LEMMA Replaced ==
  ASSUME LimiterTypeOK, NEW r \in Requests, NEW rec \in RequestState,
         rq' = [rq EXCEPT ![r] = rec]
  PROVE  Writes(r, rec.pc, rec.ip, rec.entry, rec.at, rec.reply) /\ rq'[r] = rec
<1> QED  BY DEF Writes, LimiterTypeOK

\* What Load writes: the request gets an entry, its own one made anew or the
\* one in the table.
LEMMA LoadWrites ==
  ASSUME LimiterTypeOK, NEW r \in Requests, NEW ip \in IPs, Load(r, ip)
  PROVE  \/ /\ table[ip] # NoEntry
            /\ Writes(r, "touch", ip, table[ip], now, rq[r].reply)
            /\ UNCHANGED bucket
         \/ /\ table[ip] = NoEntry
            /\ Writes(r, "store", ip, r, now, rq[r].reply)
            /\ bucket' = [bucket EXCEPT ![r] = [tokens |-> Burst, seen |-> now]]
<1> DEFINE hit == [rq[r] EXCEPT !.pc = "touch", !.ip = ip, !.at = now, !.entry = table[ip]]
           miss == [rq[r] EXCEPT !.pc = "store", !.ip = ip, !.at = now, !.entry = r]
<1>1. rq[r] \in RequestState /\ now \in Nat /\ table[ip] \in Requests \cup {NoEntry}
  BY DEF LimiterTypeOK
<1>2. /\ hit \in RequestState /\ hit.pc = "touch" /\ hit.ip = ip /\ hit.at = now
      /\ hit.entry = table[ip] /\ hit.reply = rq[r].reply
  BY <1>1 DEF RequestState
<1>3. /\ miss \in RequestState /\ miss.pc = "store" /\ miss.ip = ip /\ miss.at = now
      /\ miss.entry = r /\ miss.reply = rq[r].reply
  BY <1>1 DEF RequestState
<1>4. \/ table[ip] # NoEntry /\ rq' = [rq EXCEPT ![r] = hit] /\ UNCHANGED bucket
      \/ /\ table[ip] = NoEntry /\ rq' = [rq EXCEPT ![r] = miss]
         /\ bucket' = [bucket EXCEPT ![r] = [tokens |-> Burst, seen |-> now]]
  BY DEF Load
<1> HIDE DEF hit, miss
<1> QED  BY <1>2, <1>3, <1>4, Replaced

\* What Touch writes: the time at which the entry was seen.
LEMMA TouchWrites ==
  ASSUME LimiterTypeOK, NEW r \in Requests, Touch(r)
  PROVE  /\ Writes(r, "allow", rq[r].ip, rq[r].entry, rq[r].at, rq[r].reply)
         /\ bucket' = [bucket EXCEPT ![rq[r].entry].seen = now]
<1> DEFINE rec == [rq[r] EXCEPT !.pc = "allow"]
<1>1. /\ rec \in RequestState /\ rec.pc = "allow" /\ rec.ip = rq[r].ip /\ rec.entry = rq[r].entry
      /\ rec.at = rq[r].at /\ rec.reply = rq[r].reply
  BY DEF LimiterTypeOK, RequestState
<1>2. rq' = [rq EXCEPT ![r] = rec]  BY DEF Touch
<1>3. bucket' = [bucket EXCEPT ![rq[r].entry].seen = now]  BY DEF Touch
<1> HIDE DEF rec
<1>4. Writes(r, rec.pc, rec.ip, rec.entry, rec.at, rec.reply)  BY <1>1, <1>2, Replaced
<1> QED  BY <1>1, <1>3, <1>4

\* What LoadOrStore writes: the table, or the entry of the request.
LEMMA StoreWrites ==
  ASSUME LimiterTypeOK, RequestsInv, NEW r \in Requests, LoadOrStore(r)
  PROVE  \/ /\ table[rq[r].ip] = NoEntry
            /\ table' = [table EXCEPT ![rq[r].ip] = r]
            /\ Writes(r, "allow", rq[r].ip, r, rq[r].at, rq[r].reply)
         \/ /\ table[rq[r].ip] # NoEntry
            /\ Writes(r, "touch", rq[r].ip, table[rq[r].ip], rq[r].at, rq[r].reply)
            /\ UNCHANGED table
<1> DEFINE stored == [rq[r] EXCEPT !.pc = "allow"]
           adopted == [rq[r] EXCEPT !.pc = "touch", !.entry = table[rq[r].ip]]
<1>1. /\ rq[r] \in RequestState /\ rq[r].entry = r
      /\ table[rq[r].ip] \in Requests \cup {NoEntry}
  BY DEF LimiterTypeOK, LoadOrStore, RequestsInv, RequestOK, InFlight
<1>2. /\ stored \in RequestState /\ stored.pc = "allow" /\ stored.ip = rq[r].ip
      /\ stored.entry = r /\ stored.at = rq[r].at /\ stored.reply = rq[r].reply
  BY <1>1 DEF RequestState
<1>3. /\ adopted \in RequestState /\ adopted.pc = "touch" /\ adopted.ip = rq[r].ip
      /\ adopted.entry = table[rq[r].ip] /\ adopted.at = rq[r].at /\ adopted.reply = rq[r].reply
  BY <1>1 DEF RequestState
<1>4. \/ /\ table[rq[r].ip] = NoEntry /\ rq' = [rq EXCEPT ![r] = stored]
         /\ table' = [table EXCEPT ![rq[r].ip] = r]
      \/ table[rq[r].ip] # NoEntry /\ rq' = [rq EXCEPT ![r] = adopted] /\ UNCHANGED table
  BY DEF LoadOrStore
<1> HIDE DEF stored, adopted
<1> QED  BY <1>2, <1>3, <1>4, Replaced

\* What Allow writes: a token less and the reply, or the reply 429.
LEMMA AllowWrites ==
  ASSUME LimiterTypeOK, NEW r \in Requests, Allow(r)
  PROVE  \/ /\ bucket[rq[r].entry].tokens > 0
            /\ bucket' = [bucket EXCEPT ![rq[r].entry].tokens = @ - 1]
            /\ Writes(r, "done", rq[r].ip, rq[r].entry, now, "next")
            /\ rq'[r].raced <=> Abandoned(r)
         \/ /\ bucket[rq[r].entry].tokens = 0
            /\ Writes(r, "done", rq[r].ip, rq[r].entry, rq[r].at, "429")
            /\ UNCHANGED bucket
<1> DEFINE next == [rq[r] EXCEPT !.pc = "done", !.reply = "next", !.at = now, !.raced = Abandoned(r)]
           refused == [rq[r] EXCEPT !.pc = "done", !.reply = "429"]
<1>1. rq[r] \in RequestState /\ now \in Nat /\ Abandoned(r) \in BOOLEAN
  BY DEF LimiterTypeOK, Abandoned
<1>2. /\ next \in RequestState /\ next.pc = "done" /\ next.ip = rq[r].ip /\ next.entry = rq[r].entry
      /\ next.at = now /\ next.reply = "next" /\ next.raced = Abandoned(r)
  BY <1>1 DEF RequestState
<1>3. /\ refused \in RequestState /\ refused.pc = "done" /\ refused.ip = rq[r].ip
      /\ refused.entry = rq[r].entry /\ refused.at = rq[r].at /\ refused.reply = "429"
  BY <1>1 DEF RequestState
<1>4. \/ /\ bucket[rq[r].entry].tokens > 0 /\ rq' = [rq EXCEPT ![r] = next]
         /\ bucket' = [bucket EXCEPT ![rq[r].entry].tokens = @ - 1]
      \/ bucket[rq[r].entry].tokens = 0 /\ rq' = [rq EXCEPT ![r] = refused] /\ UNCHANGED bucket
  BY DEF Allow
<1> HIDE DEF next, refused
<1> QED  BY <1>2, <1>3, <1>4, Replaced

\* The same for the steps of the cleanup.
LEMMA StartWrites ==
  ASSUME LimiterTypeOK, StartSweep
  PROVE  /\ sweep' \in SweepState
         /\ sweep'.pc = "visit" /\ sweep'.cutoff = now - Idle
         /\ sweep'.todo = {ip \in IPs : table[ip] # NoEntry}
<1>1. sweep \in SweepState /\ now - Idle \in Int  BY LimiterAssumption DEF LimiterTypeOK
<1>2. {ip \in IPs : table[ip] # NoEntry} \in SUBSET IPs  OBVIOUS
<1>3. sweep' = [sweep EXCEPT !.pc = "visit", !.cutoff = now - Idle,
                              !.todo = {ip \in IPs : table[ip] # NoEntry}]
  BY DEF StartSweep
<1> QED  BY <1>1, <1>2, <1>3 DEF SweepState

\* What one call of Range's function writes.
LEMMA VisitWrites ==
  ASSUME LimiterTypeOK, NEW ip \in IPs, Visit(ip)
  PROVE  /\ sweep' \in SweepState
         /\ sweep'.pc = IF IsOld(table[ip]) THEN "delete" ELSE "visit"
         /\ sweep'.cutoff = sweep.cutoff /\ sweep'.todo = sweep.todo \ {ip} /\ sweep'.ip = ip
<1> QED  BY DEF LimiterTypeOK, Visit, SweepState

\* What the rest of the cleanup writes.
LEMMA OtherSweepWrites ==
  ASSUME LimiterTypeOK, DeleteEntry \/ EndSweep \/ StopSweeps
  PROVE  /\ sweep' \in SweepState
         /\ sweep'.cutoff = sweep.cutoff /\ sweep'.todo = sweep.todo /\ sweep'.ip = sweep.ip
         /\ DeleteEntry => sweep'.pc = "visit"
         /\ EndSweep => sweep'.pc = "idle"
         /\ StopSweeps => sweep'.pc = "stopped"
<1> QED  BY DEF LimiterTypeOK, DeleteEntry, EndSweep, StopSweeps, SweepState

-----------------------------------------------------------------------------
(* Types.                                                                   *)

\* Every value stays in its type: no bucket is overdrawn or overfull.
LEMMA TypeStep ==
  LimiterTypeOK /\ RequestsInv /\ [LimiterNext]_limiterVars => LimiterTypeOK'
<1> USE LimiterAssumption
<1> SUFFICES ASSUME LimiterTypeOK, RequestsInv, [LimiterNext]_limiterVars PROVE LimiterTypeOK'
  OBVIOUS
<1> USE DEF LimiterTypeOK
<1>1. ASSUME NEW r \in Requests, NEW ip \in IPs, Load(r, ip) PROVE LimiterTypeOK'
  <2>1. UNCHANGED << now, table, sweep, timer >>  BY <1>1 DEF Load
  <2>2. rq' \in [Requests -> RequestState]  BY <1>1, LoadWrites DEF Writes
  <2>3. bucket' \in [Requests -> [tokens : 0 .. Burst, seen : Nat]]
    <3>1. UNCHANGED bucket \/ bucket' = [bucket EXCEPT ![r] = [tokens |-> Burst, seen |-> now]]
      BY <1>1, LoadWrites
    <3> QED  BY <3>1
  <2> QED  BY <2>1, <2>2, <2>3
<1>2. ASSUME NEW r \in Requests, Touch(r) PROVE LimiterTypeOK'
  <2>1. UNCHANGED << now, table, sweep, timer >>  BY <1>2 DEF Touch
  <2>2. rq' \in [Requests -> RequestState]  BY <1>2, TouchWrites DEF Writes
  <2>3. bucket' = [bucket EXCEPT ![rq[r].entry].seen = now]  BY <1>2, TouchWrites
  <2> QED  BY <2>1, <2>2, <2>3
<1>3. ASSUME NEW r \in Requests, LoadOrStore(r) PROVE LimiterTypeOK'
  <2>1. UNCHANGED << now, bucket, sweep, timer >>  BY <1>3 DEF LoadOrStore
  <2>2. rq' \in [Requests -> RequestState]  BY <1>3, StoreWrites DEF Writes
  <2>3. table' = table \/ table' = [table EXCEPT ![rq[r].ip] = r]  BY <1>3, StoreWrites
  <2> QED  BY <2>1, <2>2, <2>3
<1>4. ASSUME NEW r \in Requests, Allow(r) PROVE LimiterTypeOK'
  <2>1. UNCHANGED << now, table, sweep, timer >>  BY <1>4 DEF Allow
  <2>2. rq' \in [Requests -> RequestState]  BY <1>4, AllowWrites DEF Writes
  <2>3. \/ UNCHANGED bucket
        \/ bucket[rq[r].entry].tokens > 0 /\ bucket' = [bucket EXCEPT ![rq[r].entry].tokens = @ - 1]
    BY <1>4, AllowWrites
  <2> QED  BY <2>1, <2>2, <2>3
<1>5. CASE StartSweep  BY <1>5, StartWrites DEF StartSweep
<1>6. ASSUME NEW ip \in IPs, Visit(ip) PROVE LimiterTypeOK'
  BY <1>6, VisitWrites DEF Visit
<1>7. CASE DeleteEntry  BY <1>7, OtherSweepWrites DEF DeleteEntry
<1>8. CASE EndSweep \/ StopSweeps  BY <1>8, OtherSweepWrites DEF EndSweep, StopSweeps
<1>9. CASE Tick
  BY <1>9 DEF Tick, Refill
<1>10. CASE UNCHANGED limiterVars
  BY <1>10 DEF limiterVars
<1> QED  BY <1>1, <1>2, <1>3, <1>4, <1>5, <1>6, <1>7, <1>8, <1>9, <1>10, AddressOf
         DEF LimiterNext, RequestStep, SweepStep

-----------------------------------------------------------------------------
(* Requests and their entries.                                              *)

\* No step but the clock's moves tokens and clock together; a bucket is seen
\* again at the present, or as before.
LEMMA SeenGrows ==
  ASSUME LimiterTypeOK, RequestsInv, TokensInv, [LimiterNext]_limiterVars
  PROVE  \A e \in Requests : bucket'[e].seen >= bucket[e].seen
<1> USE LimiterAssumption DEF LimiterTypeOK
<1> SUFFICES ASSUME NEW e \in Requests  PROVE bucket'[e].seen >= bucket[e].seen
  OBVIOUS
<1>0. bucket[e].seen <= now  BY DEF TokensInv
<1>1. ASSUME NEW r \in Requests, NEW ip \in IPs, Load(r, ip)  PROVE bucket'[e].seen >= bucket[e].seen
  BY <1>0, <1>1, LoadWrites
<1>2. ASSUME NEW r \in Requests, Touch(r)  PROVE bucket'[e].seen >= bucket[e].seen
  <2>1. bucket' = [bucket EXCEPT ![rq[r].entry].seen = now]  BY <1>2, TouchWrites
  <2>2. bucket'[e].seen \in {now, bucket[e].seen}  BY <2>1
  <2> QED  BY <1>0, <2>2
<1>3. ASSUME NEW r \in Requests, Allow(r)  PROVE bucket'[e].seen >= bucket[e].seen
  <2>1. bucket' = bucket \/ bucket' = [bucket EXCEPT ![rq[r].entry].tokens = @ - 1]  BY <1>3, AllowWrites
  <2>2. bucket'[e].seen = bucket[e].seen  BY <2>1
  <2> QED  BY <2>2
<1>4. CASE Tick  BY <1>4 DEF Tick, Refill
<1>5. CASE UNCHANGED bucket  BY <1>5
<1> QED  BY <1>1, <1>2, <1>3, <1>4, <1>5, AddressOf
         DEF LimiterNext, RequestStep, SweepStep, LoadOrStore, StartSweep, Visit, DeleteEntry,
             EndSweep, StopSweeps, limiterVars

\* A request that does nothing stays as it is.
LEMMA OthersOK ==
  ASSUME LimiterTypeOK, RequestsInv, now' = now, NEW q \in Requests, rq'[q] = rq[q],
         \A e \in Requests : bucket'[e].seen >= bucket[e].seen, LimiterTypeOK'
  PROVE  RequestOK(q)'
<1>1. RequestOK(q) /\ rq[q].at \in Nat  BY DEF RequestsInv, LimiterTypeOK, RequestState
<1>2. ASSUME rq[q].pc \in {"store", "allow"}
      PROVE  /\ rq[q].at <= bucket[rq[q].entry].seen
             /\ bucket[rq[q].entry].seen \in Nat /\ bucket'[rq[q].entry].seen \in Nat
             /\ bucket'[rq[q].entry].seen >= bucket[rq[q].entry].seen
  <2>1. rq[q].entry \in Requests  BY <1>1, <1>2 DEF RequestOK, InFlight
  <2> QED  BY <1>1, <1>2, <2>1 DEF RequestOK, LimiterTypeOK
<1> QED  BY <1>1, <1>2 DEF RequestOK, InFlight

\* Every step keeps what requests and their entries owe to one another.
LEMMA RequestsStep ==
  LimiterTypeOK /\ RequestsInv /\ TokensInv /\ [LimiterNext]_limiterVars => RequestsInv'
<1> USE LimiterAssumption
<1> SUFFICES ASSUME LimiterTypeOK, RequestsInv, TokensInv, [LimiterNext]_limiterVars PROVE RequestsInv'
  OBVIOUS
<1>0. (\A e \in Requests : bucket'[e].seen >= bucket[e].seen) /\ LimiterTypeOK'  BY SeenGrows, TypeStep
<1>t. ASSUME NEW ip \in IPs, table[ip] # NoEntry
      PROVE  table[ip] \in Requests /\ rq[table[ip]].pc \notin {"idle", "store"}
  BY <1>t DEF LimiterTypeOK, RequestsInv
<1>1. ASSUME NEW r \in Requests, NEW ip \in IPs, Load(r, ip) PROVE RequestsInv'
  <2>1. UNCHANGED << now, table >> /\ rq[r].pc = "idle"  BY <1>1 DEF Load
  <2>2. \A q \in Requests \ {r} : rq'[q] = rq[q]  BY <1>1, LoadWrites DEF Writes
  <2>3. RequestOK(r)'
    <3>1. rq[r].reply = "none" /\ now \in Nat  BY <2>1 DEF RequestsInv, RequestOK, LimiterTypeOK
    <3>2. CASE table[ip] # NoEntry
      <4>1. Writes(r, "touch", ip, table[ip], now, "none")  BY <1>1, <3>1, <3>2, LoadWrites
      <4> QED  BY <1>t, <2>1, <3>1, <3>2, <4>1 DEF Writes, RequestOK, InFlight
    <3>3. CASE table[ip] = NoEntry
      <4>1. /\ Writes(r, "store", ip, r, now, "none")
            /\ bucket' = [bucket EXCEPT ![r] = [tokens |-> Burst, seen |-> now]]
        BY <1>1, <3>1, <3>3, LoadWrites
      <4>2. bucket'[r].seen = now  BY <4>1 DEF LimiterTypeOK
      <4> QED  BY <2>1, <3>1, <4>1, <4>2 DEF Writes, RequestOK, InFlight
    <3> QED  BY <3>2, <3>3
  <2> QED  BY <1>0, <1>t, <2>1, <2>2, <2>3, OthersOK DEF RequestsInv
<1>2. ASSUME NEW r \in Requests, Touch(r) PROVE RequestsInv'
  <2>1. UNCHANGED << now, table >> /\ rq[r].pc = "touch"  BY <1>2 DEF Touch
  <2>2. /\ Writes(r, "allow", rq[r].ip, rq[r].entry, rq[r].at, rq[r].reply)
        /\ bucket' = [bucket EXCEPT ![rq[r].entry].seen = now]
    BY <1>2, TouchWrites
  <2>3. RequestOK(r) /\ InFlight(r)  BY <2>1 DEF RequestsInv, InFlight
  <2>4. bucket'[rq[r].entry].seen = now  BY <2>2, <2>3 DEF RequestOK, LimiterTypeOK
  <2>5. RequestOK(r)'  BY <2>1, <2>2, <2>3, <2>4 DEF RequestOK, InFlight, Writes
  <2> QED  BY <1>0, <1>t, <2>1, <2>2, <2>5, OthersOK DEF RequestsInv, Writes
<1>3. ASSUME NEW r \in Requests, LoadOrStore(r) PROVE RequestsInv'
  <2>1. UNCHANGED << now, bucket >> /\ rq[r].pc = "store"  BY <1>3 DEF LoadOrStore
  <2>2. RequestOK(r) /\ InFlight(r)  BY <2>1 DEF RequestsInv, InFlight
  <2>3. rq[r].ip \in IPs /\ rq[r].entry = r  BY <2>1, <2>2 DEF RequestOK
  <2>4. \A q \in Requests \ {r} : rq'[q] = rq[q]  BY <1>3, StoreWrites DEF Writes
  <2>5. CASE table[rq[r].ip] = NoEntry
    <3>1. /\ table' = [table EXCEPT ![rq[r].ip] = r]
          /\ Writes(r, "allow", rq[r].ip, r, rq[r].at, rq[r].reply)
      BY <1>3, <2>5, StoreWrites
    <3>2. RequestOK(r)'  BY <2>1, <2>2, <2>3, <3>1 DEF RequestOK, InFlight, Writes
    <3>3. ASSUME NEW ip \in IPs, table'[ip] # NoEntry  PROVE rq'[table'[ip]].pc \notin {"idle", "store"}
      <4>1. CASE ip = rq[r].ip  BY <3>1, <4>1 DEF Writes, LimiterTypeOK
      <4>2. CASE ip # rq[r].ip  BY <1>t, <2>1, <2>4, <3>1, <3>3, <4>2 DEF LimiterTypeOK
      <4> QED  BY <4>1, <4>2
    <3> QED  BY <1>0, <2>1, <2>4, <3>2, <3>3, OthersOK DEF RequestsInv
  <2>6. CASE table[rq[r].ip] # NoEntry
    <3>1. /\ Writes(r, "touch", rq[r].ip, table[rq[r].ip], rq[r].at, rq[r].reply)
          /\ UNCHANGED table
      BY <1>3, <2>6, StoreWrites
    <3>2. RequestOK(r)'  BY <1>t, <2>1, <2>2, <2>3, <2>6, <3>1 DEF RequestOK, InFlight, Writes
    <3> QED  BY <1>0, <1>t, <2>1, <2>4, <3>1, <3>2, OthersOK DEF RequestsInv
  <2> QED  BY <2>5, <2>6
<1>4. ASSUME NEW r \in Requests, Allow(r) PROVE RequestsInv'
  <2>1. UNCHANGED << now, table >> /\ rq[r].pc = "allow"  BY <1>4 DEF Allow
  <2>2. /\ \A q \in Requests \ {r} : rq'[q] = rq[q]
        /\ rq'[r].pc = "done" /\ rq'[r].at \in {now, rq[r].at}
    BY <1>4, AllowWrites DEF Writes
  <2>3. RequestOK(r)'  BY <2>1, <2>2 DEF RequestOK, RequestsInv, InFlight, LimiterTypeOK
  <2> QED  BY <1>0, <1>t, <2>1, <2>2, <2>3, OthersOK DEF RequestsInv
<1>5. CASE SweepStep
  <2>1. UNCHANGED << now, bucket, rq >>
    BY <1>5 DEF SweepStep, StartSweep, Visit, DeleteEntry, EndSweep, StopSweeps
  <2>2. \A ip \in IPs : table'[ip] \in {NoEntry, table[ip]}
    BY <1>5 DEF SweepStep, StartSweep, Visit, DeleteEntry, EndSweep, StopSweeps, LimiterTypeOK
  <2> QED  BY <1>0, <2>1, <2>2, OthersOK DEF RequestsInv
<1>6. CASE Tick
  <2>1. now' = now + 1 /\ UNCHANGED << table, rq >>  BY <1>6 DEF Tick
  <2>2. \A e \in Requests : bucket'[e].seen = bucket[e].seen  BY <1>6 DEF Tick, Refill, LimiterTypeOK
  <2>3. \A r \in Requests : InFlight(r) => now < rq[r].at + MaxPause  BY <1>6 DEF Tick
  <2>4. ASSUME NEW r \in Requests  PROVE RequestOK(r)'
    <3>1. RequestOK(r) /\ now \in Nat /\ rq[r].at \in Nat
      BY <2>3 DEF RequestsInv, LimiterTypeOK, RequestState
    <3> QED  BY <2>1, <2>2, <2>3, <3>1 DEF RequestOK, InFlight, RequestsInv, LimiterTypeOK, RequestState
  <2> QED  BY <1>t, <2>1, <2>4 DEF RequestsInv
<1>7. CASE UNCHANGED limiterVars
  BY <1>0, <1>7, OthersOK DEF limiterVars, RequestsInv
<1> QED  BY <1>1, <1>2, <1>3, <1>4, <1>5, <1>6, <1>7, AddressOf DEF LimiterNext, RequestStep

-----------------------------------------------------------------------------
(* Tokens.                                                                  *)

\* What a bucket is worth depends on it and on the clock alone.
BucketOK(b, t) == b.seen <= t /\ (b.tokens = Burst \/ b.tokens >= t - b.seen - MaxPause)

\* A bucket that has lost a token was seen no longer than MaxPause ago.
LEMMA TokensStep ==
  LimiterTypeOK /\ RequestsInv /\ TokensInv /\ [LimiterNext]_limiterVars => TokensInv'
<1> USE LimiterAssumption
<1> SUFFICES ASSUME LimiterTypeOK, RequestsInv, TokensInv, [LimiterNext]_limiterVars,
                    NEW e \in Requests
             PROVE  BucketOK(bucket'[e], now')
  BY DEF TokensInv, BucketOK
<1>0. /\ BucketOK(bucket[e], now) /\ now \in Nat
      /\ bucket[e].tokens \in 0 .. Burst /\ bucket[e].seen \in Nat
  BY DEF TokensInv, BucketOK, LimiterTypeOK
<1>1. ASSUME NEW r \in Requests, NEW ip \in IPs, Load(r, ip) PROVE BucketOK(bucket'[e], now')
  <2>1. now' = now  BY <1>1 DEF Load
  <2>2. bucket' = bucket \/ bucket' = [bucket EXCEPT ![r] = [tokens |-> Burst, seen |-> now]]
    BY <1>1, LoadWrites
  <2>3. bucket'[e] = bucket[e] \/ bucket'[e] = [tokens |-> Burst, seen |-> now]
    BY <2>2 DEF LimiterTypeOK
  <2> QED  BY <1>0, <2>1, <2>3 DEF BucketOK
<1>2. ASSUME NEW r \in Requests, Touch(r) PROVE BucketOK(bucket'[e], now')
  <2>1. now' = now  BY <1>2 DEF Touch
  <2>2. bucket' = [bucket EXCEPT ![rq[r].entry].seen = now]  BY <1>2, TouchWrites
  <2>3. bucket'[e].tokens = bucket[e].tokens /\ bucket'[e].seen \in {bucket[e].seen, now}
    BY <2>2 DEF LimiterTypeOK
  <2> QED  BY <1>0, <2>1, <2>3 DEF BucketOK
<1>3. ASSUME NEW r \in Requests, Allow(r) PROVE BucketOK(bucket'[e], now')
  <2>1. now' = now /\ rq[r].pc = "allow"  BY <1>3 DEF Allow
  <2>2. CASE bucket' = bucket \/ e # rq[r].entry
    <3>1. bucket'[e] = bucket[e]  BY <1>3, <2>2, AllowWrites DEF LimiterTypeOK
    <3> QED  BY <1>0, <2>1, <3>1
  <2>3. CASE bucket' # bucket /\ e = rq[r].entry
    <3>1. bucket[e].tokens > 0 /\ bucket' = [bucket EXCEPT ![e].tokens = @ - 1]
      BY <1>3, <2>3, AllowWrites
    <3>2. bucket'[e].tokens = bucket[e].tokens - 1 /\ bucket'[e].seen = bucket[e].seen
      BY <3>1 DEF LimiterTypeOK
    <3>3. rq[r].at <= bucket[e].seen /\ now <= rq[r].at + MaxPause /\ rq[r].at \in Nat
      BY <2>1, <2>3 DEF RequestsInv, RequestOK, InFlight, LimiterTypeOK, RequestState
    <3> QED  BY <1>0, <2>1, <3>1, <3>2, <3>3 DEF BucketOK
  <2> QED  BY <2>2, <2>3
<1>4. CASE Tick
  <2>1. now' = now + 1 /\ bucket'[e] = Refill(bucket[e])  BY <1>4 DEF Tick
  <2>2. /\ Refill(bucket[e]).seen = bucket[e].seen
        /\ Refill(bucket[e]).tokens = IF bucket[e].tokens < Burst THEN bucket[e].tokens + 1 ELSE bucket[e].tokens
    BY DEF Refill, LimiterTypeOK
  <2> QED  BY <1>0, <2>1, <2>2 DEF BucketOK
<1>5. CASE UNCHANGED << now, bucket >>  BY <1>0, <1>5
<1> QED  BY <1>1, <1>2, <1>3, <1>4, <1>5, AddressOf
         DEF LimiterNext, RequestStep, SweepStep, LoadOrStore, StartSweep, Visit, DeleteEntry,
             EndSweep, StopSweeps, limiterVars

-----------------------------------------------------------------------------
(* The cleanup.                                                             *)

\* The entry of an address was seen since the last cutoff.
Recent(ip) == table[ip] # NoEntry => bucket[table[ip]].seen >= now - timer - Idle

\* While the cleanup does nothing, entries that were recent are, and an entry
\* that is stored is at most MaxPause old.
LEMMA RecentKeeps ==
  ASSUME LimiterTypeOK, RequestsInv, TokensInv, LimiterTypeOK',
         [(\E r \in Requests : RequestStep(r)) \/ Tick]_limiterVars,
         sweep.pc # "stopped", NEW ip \in IPs, Recent(ip)
  PROVE  Recent(ip)'
<1> USE LimiterAssumption
<1>0. \A e \in Requests : bucket'[e].seen >= bucket[e].seen  BY SeenGrows DEF LimiterNext
<1>1. CASE UNCHANGED << now, timer, table >>
  BY <1>0, <1>1 DEF Recent, LimiterTypeOK
<1>2. ASSUME NEW r \in Requests, LoadOrStore(r), table' # table  PROVE Recent(ip)'
  <2>1. /\ UNCHANGED << now, timer, bucket >> /\ rq[r].pc = "store"
        /\ table' = [table EXCEPT ![rq[r].ip] = r]
    BY <1>2, StoreWrites DEF LoadOrStore
  <2>2. CASE ip = rq[r].ip
    <3>1. bucket[r].seen >= rq[r].at /\ now <= rq[r].at + MaxPause /\ rq[r].at \in Nat
      BY <2>1 DEF RequestsInv, RequestOK, InFlight, LimiterTypeOK, RequestState
    <3>2. table'[ip] = r /\ bucket[r].seen \in Nat /\ now \in Nat /\ timer \in Nat
      BY <2>1, <2>2 DEF LimiterTypeOK
    <3> QED  BY <2>1, <3>1, <3>2 DEF Recent
  <2>3. CASE ip # rq[r].ip  BY <2>1, <2>3 DEF Recent, LimiterTypeOK
  <2> QED  BY <2>2, <2>3
<1>3. CASE Tick
  <2>1. now' = now + 1 /\ timer' = timer + 1 /\ UNCHANGED table
    BY <1>3 DEF Tick
  <2> QED  BY <1>0, <2>1 DEF Recent, LimiterTypeOK
<1> QED  BY <1>1, <1>2, <1>3
         DEF RequestStep, Load, Touch, LoadOrStore, Allow, limiterVars

\* Every step keeps what the cleanup has still to visit.
LEMMA SweepsStep ==
  LimiterTypeOK /\ RequestsInv /\ TokensInv /\ SweepInv /\ [LimiterNext]_limiterVars => SweepInv'
<1> USE LimiterAssumption
<1> SUFFICES ASSUME LimiterTypeOK, RequestsInv, TokensInv, SweepInv, [LimiterNext]_limiterVars
             PROVE  SweepInv'
  OBVIOUS
<1>0. LimiterTypeOK'  BY TypeStep
<1>1. CASE [(\E r \in Requests : RequestStep(r)) \/ Tick]_limiterVars
  <2>1. sweep' = sweep
    BY <1>1 DEF RequestStep, Load, Touch, LoadOrStore, Allow, Tick, limiterVars
  <2>2. sweep.pc # "stopped" => now' - timer' = now - timer
    <3>1. UNCHANGED << now, timer >> \/ Tick
      BY <1>1 DEF RequestStep, Load, Touch, LoadOrStore, Allow, limiterVars
    <3>2. now \in Nat /\ timer \in 0 .. Interval  BY DEF LimiterTypeOK
    <3> QED  BY <3>1, <3>2 DEF Tick
  <2>3. \A ip \in IPs : table[ip] # NoEntry => table'[ip] # NoEntry
    BY <1>0, <1>1, StoreWrites DEF RequestStep, Load, Touch, LoadOrStore, Allow, Tick, limiterVars, LimiterTypeOK
  <2>4. sweep.pc # "stopped" => \A ip \in IPs : Recent(ip) => Recent(ip)'
    BY <1>0, <1>1, RecentKeeps
  <2> QED  BY <2>1, <2>2, <2>3, <2>4 DEF SweepInv, Recent, Condemned, LimiterTypeOK, SweepState
<1>2. CASE StartSweep
  <2>1. UNCHANGED << now, table, bucket >> /\ timer' = 0  BY <1>2 DEF StartSweep
  <2> QED  BY <1>2, <2>1, StartWrites DEF SweepInv, Condemned, LimiterTypeOK
<1>3. ASSUME NEW ip \in IPs, Visit(ip)  PROVE SweepInv'
  <2>1. UNCHANGED << now, table, bucket, timer >> /\ sweep.pc = "visit" /\ ip \in sweep.todo
    BY <1>3 DEF Visit
  <2> QED  BY <1>3, <2>1, VisitWrites DEF SweepInv, Condemned, LimiterTypeOK, IsOld, SweepState
<1>4. CASE DeleteEntry
  <2>1. UNCHANGED << now, bucket, timer >> /\ sweep.pc = "delete" /\ table' = [table EXCEPT ![sweep.ip] = NoEntry]
    BY <1>4 DEF DeleteEntry
  <2> QED  BY <1>4, <2>1, OtherSweepWrites DEF SweepInv, Condemned, LimiterTypeOK, SweepState
<1>5. CASE EndSweep \/ StopSweeps
  <2>1. UNCHANGED << now, bucket, table, timer >> /\ sweep.todo = {}
    BY <1>5 DEF EndSweep, StopSweeps, SweepInv
  <2> QED  BY <1>5, <2>1, OtherSweepWrites DEF SweepInv, Condemned, LimiterTypeOK, SweepState, EndSweep, StopSweeps
<1> QED  BY <1>1, <1>2, <1>3, <1>4, <1>5 DEF LimiterNext, SweepStep

-----------------------------------------------------------------------------
(* Windows.                                                                 *)

\* Sets of requests are finite, so they can be counted.
LEMMA PassedCount ==
  ASSUME NEW ip, NEW s
  PROVE  IsFiniteSet(Passed(ip, s)) /\ Cardinality(Passed(ip, s)) \in Nat
<1>1. Passed(ip, s) \in SUBSET Requests  BY DEF Passed
<1> QED  BY <1>1, LimiterAssumption, FS_Subset, FS_CardinalityType

\* An address has at most a burst left.
LEMMA LeftType ==
  ASSUME LimiterTypeOK, NEW ip \in IPs  PROVE Left(ip) \in 0 .. Burst
<1> QED  BY LimiterAssumption DEF LimiterTypeOK, Left

\* Requests that are not let through add nothing to any window, and a step
\* that does not raise what an address has left keeps its bound.
LEMMA NoMore ==
  ASSUME LimiterTypeOK, LimiterTypeOK', WindowInv, now' = now, NEW ip \in IPs,
         \A r \in Requests : \/ rq'[r] = rq[r]
                             \/ rq'[r].reply # "next" /\ rq[r].reply # "next"
                             \/ rq'[r].raced /\ rq[r].reply # "next",
         Left(ip)' <= Left(ip)
  PROVE  \A s \in 0 .. now' : Cardinality(Passed(ip, s)') + Left(ip)' <= Burst + (now' - s)
<1> SUFFICES ASSUME NEW s \in 0 .. now
             PROVE  Cardinality(Passed(ip, s)') + Left(ip)' <= Burst + (now' - s)
  OBVIOUS
<1>1. Passed(ip, s)' = Passed(ip, s)  BY DEF Passed
<1>2. Cardinality(Passed(ip, s)) + Left(ip) <= Burst + (now - s)  BY DEF WindowInv
<1>3. Left(ip) \in Int /\ Left(ip)' \in Int  BY LeftType, LimiterAssumption DEF LimiterTypeOK, Left
<1>4. Cardinality(Passed(ip, s)) \in Nat /\ now \in Nat /\ s \in Nat /\ Burst \in Nat
  BY PassedCount, LimiterAssumption DEF LimiterTypeOK
<1> QED  BY <1>1, <1>2, <1>3, <1>4

\* Every step keeps the bound: what was let through and what is still left fit
\* into a burst and the refill of the window.
LEMMA WindowStep ==
  LimiterTypeOK /\ RequestsInv /\ TokensInv /\ SweepInv /\ WindowInv /\ [LimiterNext]_limiterVars
    => WindowInv'
<1> USE LimiterAssumption
<1> SUFFICES ASSUME LimiterTypeOK, RequestsInv, TokensInv, SweepInv, WindowInv,
                    [LimiterNext]_limiterVars, NEW ip \in IPs
             PROVE  \A s \in 0 .. now' : Cardinality(Passed(ip, s)') + Left(ip)' <= Burst + (now' - s)
  BY DEF WindowInv
<1> DEFINE Bound == \A s \in 0 .. now' : Cardinality(Passed(ip, s)') + Left(ip)' <= Burst + (now' - s)
<1> HIDE DEF Bound
<1>0. LimiterTypeOK'  BY TypeStep
<1>l. Left(ip) \in 0 .. Burst  BY LeftType
<1>1. ASSUME NEW r \in Requests, NEW a \in IPs, Load(r, a) PROVE Bound
  <2>1. UNCHANGED << now, table, sweep >> /\ rq[r].pc = "idle"  BY <1>1 DEF Load
  <2>2. table[ip] # r /\ rq[r].reply = "none"  BY <2>1 DEF RequestsInv, RequestOK, LimiterTypeOK
  <2>3. /\ \A q \in Requests \ {r} : rq'[q] = rq[q]
        /\ rq'[r].reply = "none"
    BY <1>1, <2>2, LoadWrites DEF Writes
  <2>4. bucket' = bucket \/ bucket' = [bucket EXCEPT ![r] = [tokens |-> Burst, seen |-> now]]
    BY <1>1, LoadWrites
  <2>5. Left(ip)' = Left(ip)
    <3>1. table[ip] # NoEntry => bucket'[table[ip]] = bucket[table[ip]]
      BY <2>2, <2>4 DEF LimiterTypeOK
    <3> QED  BY <2>1, <3>1 DEF Left, Condemned
  <2> QED  BY <1>0, <1>l, <2>1, <2>2, <2>3, <2>5, NoMore DEF Bound
<1>2. ASSUME NEW r \in Requests, Touch(r) PROVE Bound
  <2>1. UNCHANGED << now, table, sweep >> /\ rq[r].pc = "touch"  BY <1>2 DEF Touch
  <2>2. rq[r].reply = "none"  BY <2>1 DEF RequestsInv, RequestOK
  <2>3. /\ \A q \in Requests \ {r} : rq'[q] = rq[q]
        /\ rq'[r].reply = "none"
        /\ bucket' = [bucket EXCEPT ![rq[r].entry].seen = now]
    BY <1>2, <2>2, TouchWrites DEF Writes
  <2>4. \A e \in Requests : bucket'[e].tokens = bucket[e].tokens  BY <2>3 DEF LimiterTypeOK
  <2>5. Left(ip)' = Left(ip)  BY <2>1, <2>4 DEF Left, Condemned, LimiterTypeOK
  <2> QED  BY <1>0, <1>l, <2>1, <2>2, <2>3, <2>5, NoMore DEF Bound
<1>3. ASSUME NEW r \in Requests, LoadOrStore(r) PROVE Bound
  <2>1. UNCHANGED << now, bucket, sweep >> /\ rq[r].pc = "store"  BY <1>3 DEF LoadOrStore
  <2>2. rq[r].reply = "none" /\ rq[r].ip \in IPs  BY <2>1 DEF RequestsInv, RequestOK, InFlight
  <2>3. /\ \A q \in Requests \ {r} : rq'[q] = rq[q]
        /\ rq'[r].reply = "none"
    BY <1>3, <2>2, StoreWrites DEF Writes
  <2>s. \/ table' = table
        \/ table[rq[r].ip] = NoEntry /\ table' = [table EXCEPT ![rq[r].ip] = r]
    BY <1>3, StoreWrites
  <2>4. Left(ip)' <= Left(ip)  BY <1>l, <2>1, <2>s DEF Left, Condemned, LimiterTypeOK
  <2> QED  BY <1>0, <2>1, <2>2, <2>3, <2>4, NoMore DEF Bound
<1>4. ASSUME NEW r \in Requests, Allow(r) PROVE Bound
  <2>1. UNCHANGED << now, table, sweep >> /\ rq[r].pc = "allow"  BY <1>4 DEF Allow
  <2>2. rq[r].reply = "none" /\ rq[r].ip \in IPs /\ rq[r].entry \in Requests
    BY <2>1 DEF RequestsInv, RequestOK, InFlight
  <2>3. \A q \in Requests \ {r} : rq'[q] = rq[q]  BY <1>4, AllowWrites DEF Writes
  <2>4. CASE bucket[rq[r].entry].tokens = 0
    <3>1. bucket' = bucket /\ rq'[r].reply = "429"
      <4>1. ~(bucket[rq[r].entry].tokens > 0)  BY <2>4
      <4> QED  BY <1>4, <4>1, AllowWrites DEF Writes
    <3>2. Left(ip)' = Left(ip)  BY <2>1, <3>1 DEF Left, Condemned
    <3> QED  BY <1>0, <1>l, <2>1, <2>2, <2>3, <3>1, <3>2, NoMore DEF Bound
  <2>5. CASE bucket[rq[r].entry].tokens > 0
    <3>1. /\ bucket' = [bucket EXCEPT ![rq[r].entry].tokens = @ - 1]
          /\ rq'[r].reply = "next" /\ rq'[r].ip = rq[r].ip /\ rq'[r].at = now
          /\ rq'[r].raced <=> Abandoned(r)
      BY <1>4, <2>5, AllowWrites DEF Writes, LimiterTypeOK
    <3>2. \A e \in Requests : bucket'[e].tokens = IF e = rq[r].entry THEN bucket[e].tokens - 1 ELSE bucket[e].tokens
      BY <2>2, <3>1 DEF LimiterTypeOK
    <3>3. Left(ip)' <= Left(ip)  BY <1>l, <2>1, <3>2 DEF Left, Condemned, LimiterTypeOK
    <3>4. CASE Abandoned(r)
      BY <1>0, <2>1, <2>2, <2>3, <3>1, <3>3, <3>4, NoMore DEF Bound
    <3>5. CASE ~Abandoned(r) /\ ip # rq[r].ip
      <4>1. ASSUME NEW s \in 0 .. now  PROVE Passed(ip, s)' = Passed(ip, s)
        BY <2>2, <2>3, <3>1, <3>5 DEF Passed
      <4>2. ASSUME NEW s \in 0 .. now'
            PROVE  Cardinality(Passed(ip, s)') + Left(ip)' <= Burst + (now' - s)
        <5>1. s \in 0 .. now /\ s \in Nat /\ now \in Nat  BY <2>1, <4>2 DEF LimiterTypeOK
        <5>2. Cardinality(Passed(ip, s)) + Left(ip) <= Burst + (now - s)  BY <5>1 DEF WindowInv
        <5>3. Left(ip)' \in Int  BY <1>0, <2>1, <3>2 DEF Left, LimiterTypeOK
        <5> QED  BY <1>l, <2>1, <3>3, <4>1, <5>1, <5>2, <5>3, PassedCount
      <4> QED  BY <4>2 DEF Bound
    <3>6. CASE ~Abandoned(r) /\ ip = rq[r].ip
      <4>1. Left(ip)' = Left(ip) - 1
        <5>1. table[ip] = rq[r].entry /\ table[ip] # NoEntry /\ ~Condemned(ip)  BY <2>2, <3>6 DEF Abandoned
        <5> QED  BY <2>1, <2>2, <3>2, <5>1 DEF Left, Condemned
      <4>2. ASSUME NEW s \in 0 .. now'
            PROVE  Cardinality(Passed(ip, s)') + Left(ip)' <= Burst + (now' - s)
        <5>1. s \in 0 .. now /\ s \in Nat /\ now \in Nat  BY <2>1, <4>2 DEF LimiterTypeOK
        <5>2. Cardinality(Passed(ip, s)) + Left(ip) <= Burst + (now - s)  BY <5>1 DEF WindowInv
        <5>3. Passed(ip, s)' = Passed(ip, s) \cup {r} /\ r \notin Passed(ip, s)
          BY <2>2, <2>3, <3>1, <3>6, <5>1 DEF Passed
        <5>4. Cardinality(Passed(ip, s)') = Cardinality(Passed(ip, s)) + 1
          BY <5>3, PassedCount, FS_AddElement
        <5> QED  BY <1>l, <2>1, <4>1, <5>1, <5>2, <5>4, PassedCount
      <4> QED  BY <4>2 DEF Bound
    <3> QED  BY <3>4, <3>5, <3>6
  <2> QED  BY <2>2, <2>4, <2>5 DEF LimiterTypeOK
<1>5. CASE StartSweep \/ EndSweep \/ StopSweeps
  <2>1. UNCHANGED << now, table, bucket, rq >>  BY <1>5 DEF StartSweep, EndSweep, StopSweeps
  <2>2. sweep.pc # "delete" /\ sweep'.pc # "delete"
    BY <1>5, StartWrites, OtherSweepWrites DEF StartSweep, EndSweep, StopSweeps
  <2>3. Left(ip)' = Left(ip)  BY <2>1, <2>2 DEF Left, Condemned
  <2> QED  BY <1>0, <1>l, <2>1, <2>3, NoMore DEF Bound
<1>6. ASSUME NEW a \in IPs, Visit(a)  PROVE Bound
  <2>1. UNCHANGED << now, table, bucket, rq, timer >> /\ sweep.pc = "visit" /\ a \in sweep.todo
    BY <1>6 DEF Visit
  <2>2. table[a] \in Requests /\ sweep.cutoff = now - timer - Idle
    BY <2>1 DEF SweepInv, LimiterTypeOK
  <2>3. IsOld(table[a]) => bucket[table[a]].tokens = Burst
    BY <2>2 DEF IsOld, TokensInv, LimiterTypeOK
  <2>4. Left(ip)' = Left(ip)
    <3>1. sweep'.pc = IF IsOld(table[a]) THEN "delete" ELSE "visit"  BY <1>6, VisitWrites
    <3>2. sweep'.ip = a  BY <1>6, VisitWrites
    <3> QED  BY <2>1, <2>2, <2>3, <3>1, <3>2 DEF Left, Condemned
  <2> QED  BY <1>0, <1>l, <2>1, <2>4, NoMore DEF Bound
<1>7. CASE DeleteEntry
  <2>1. /\ UNCHANGED << now, bucket, rq >> /\ sweep.pc = "delete"
        /\ table' = [table EXCEPT ![sweep.ip] = NoEntry] /\ sweep'.pc = "visit"
    BY <1>7, OtherSweepWrites DEF DeleteEntry
  <2>2. Left(ip)' = Left(ip)  BY <2>1 DEF Left, Condemned, LimiterTypeOK
  <2> QED  BY <1>0, <1>l, <2>1, <2>2, NoMore DEF Bound
<1>8. CASE Tick
  <2>1. now' = now + 1 /\ UNCHANGED << table, rq, sweep >>  BY <1>8 DEF Tick
  <2>2. ASSUME NEW e \in Requests
        PROVE  bucket'[e].tokens = IF bucket[e].tokens < Burst THEN bucket[e].tokens + 1 ELSE bucket[e].tokens
    BY <1>8 DEF Tick, Refill, LimiterTypeOK
  <2>3. Left(ip)' \in 0 .. Burst /\ Left(ip)' <= Left(ip) + 1
    BY <2>1, <2>2 DEF Left, Condemned, LimiterTypeOK
  <2>4. ASSUME NEW s \in 0 .. now'
        PROVE  Cardinality(Passed(ip, s)') + Left(ip)' <= Burst + (now' - s)
    <3>1. now \in Nat /\ s \in Nat /\ Passed(ip, s)' = Passed(ip, s)  BY <2>1, <2>4 DEF Passed, LimiterTypeOK
    <3>2. CASE s \in 0 .. now
      <4>1. Cardinality(Passed(ip, s)) + Left(ip) <= Burst + (now - s)  BY <3>2 DEF WindowInv
      <4> QED  BY <1>l, <2>1, <2>3, <3>1, <4>1, PassedCount
    <3>3. CASE s = now + 1
      <4>1. Passed(ip, s) = {}  BY <3>3 DEF Passed, RequestsInv, RequestOK, LimiterTypeOK, RequestState
      <4>2. Cardinality(Passed(ip, s)') = 0  BY <3>1, <4>1, FS_EmptySet
      <4> QED  BY <2>1, <2>3, <3>1, <3>3, <4>2
    <3> QED  BY <2>1, <3>1, <3>2, <3>3
  <2> QED  BY <2>4 DEF Bound
<1>9. CASE UNCHANGED limiterVars
  <2>1. UNCHANGED << now, rq >> /\ Left(ip)' = Left(ip)  BY <1>9 DEF limiterVars, Left, Condemned
  <2> QED  BY <1>0, <1>l, <2>1, NoMore DEF Bound
<1> QED  BY <1>1, <1>2, <1>3, <1>4, <1>5, <1>6, <1>7, <1>8, <1>9, AddressOf
         DEF LimiterNext, RequestStep, SweepStep, Bound

-----------------------------------------------------------------------------
\* The invariant is inductive together with the types.
THEOREM LimiterCorrect == LimiterSpec => [](LimiterTypeOK /\ LimiterInv)
<1>1. LimiterInit => LimiterTypeOK /\ LimiterInv
  <2> SUFFICES ASSUME LimiterInit PROVE LimiterTypeOK /\ LimiterInv
    OBVIOUS
  <2> USE LimiterAssumption
  <2>1. LimiterTypeOK  BY DEF LimiterInit, LimiterTypeOK, RequestState, SweepState
  <2>2. RequestsInv /\ TokensInv /\ SweepInv
    BY DEF LimiterInit, RequestsInv, RequestOK, InFlight, TokensInv, SweepInv, Condemned
  <2>3. ASSUME NEW ip \in IPs, NEW s \in 0 .. now
        PROVE  Cardinality(Passed(ip, s)) + Left(ip) <= Burst + (now - s)
    <3>1. Passed(ip, s) = {} /\ Left(ip) = Burst /\ now = 0 /\ s = 0
      BY <2>3 DEF LimiterInit, Passed, Left
    <3> QED  BY <3>1, FS_EmptySet
  <2> QED  BY <2>1, <2>2, <2>3 DEF LimiterInv, WindowInv
<1>2. LimiterTypeOK /\ LimiterInv /\ [LimiterNext]_limiterVars => (LimiterTypeOK /\ LimiterInv)'
  BY TypeStep, RequestsStep, TokensStep, SweepsStep, WindowStep DEF LimiterInv
<1> QED  BY <1>1, <1>2, PTL DEF LimiterSpec

\* No bucket is overdrawn or overfull, whatever races for it.
THEOREM LimiterTypeCorrect == LimiterSpec => []LimiterTypeOK
<1> QED  BY LimiterCorrect, PTL

\* In every window of any length, an address is let through at most as often as
\* one bucket that was never forgotten would allow, requests not counted that
\* the cleanup overtook (raced).
THEOREM WindowsBounded == LimiterSpec => []WindowBound
<1>1. LimiterTypeOK /\ LimiterInv => WindowBound
  <2> SUFFICES ASSUME LimiterTypeOK, LimiterInv, NEW ip \in IPs, NEW s \in 0 .. now
               PROVE  Cardinality(Passed(ip, s)) <= Burst + (now - s)
    BY DEF WindowBound
  <2>1. Cardinality(Passed(ip, s)) + Left(ip) <= Burst + (now - s)  BY DEF LimiterInv, WindowInv
  <2> QED  BY <2>1, LeftType, PassedCount, LimiterAssumption DEF LimiterTypeOK
<1> QED  BY <1>1, LimiterCorrect, PTL

\* Every idle entry is gone at the latest one interval after its time.
THEOREM EntriesForgotten == LimiterSpec => []ForgottenInTime
<1>1. LimiterTypeOK /\ LimiterInv => ForgottenInTime
  <2> SUFFICES ASSUME LimiterTypeOK, LimiterInv, sweep.pc = "idle", NEW ip \in IPs, table[ip] # NoEntry
               PROVE  now - bucket[table[ip]].seen <= Idle + Interval
    BY DEF ForgottenInTime
  <2>1. sweep.todo = {} /\ ~Condemned(ip)  BY DEF LimiterInv, SweepInv, Condemned
  <2>2. bucket[table[ip]].seen >= now - timer - Idle  BY <2>1 DEF LimiterInv, SweepInv
  <2>3. bucket[table[ip]].seen \in Nat /\ now \in Nat /\ timer \in 0 .. Interval  BY DEF LimiterTypeOK
  <2> QED  BY <2>2, <2>3, LimiterAssumption
<1> QED  BY <1>1, LimiterCorrect, PTL
=============================================================================
