---------------------------- MODULE RateLimiter -----------------------------
(***************************************************************************)
(* internal/middleware/ratelimit.go: one token bucket per client address in *)
(* a sync.Map, filled by the requests themselves and emptied by a cleanup   *)
(* goroutine that forgets idle addresses.  Lookup, touch, insertion, token  *)
(* and each visit of the cleanup are steps of their own: only the map and   *)
(* each entry are synchronised, nothing holds both.  The unit of time is    *)
(* the time in which a bucket gains a token (60 s / limit).                *)
(***************************************************************************)
EXTENDS Integers, FiniteSets

CONSTANTS
  Requests,         \* requests of one endpoint; each is made at most once
  IPs,              \* addresses
  TrustedProxies,   \* those of TRUSTED_PROXIES
  Burst,            \* RATE_LIMIT_*, the size of a bucket
  Idle,             \* the ten minutes after which an entry is forgotten
  Interval,         \* the five minutes between two cleanups
  MaxPause,         \* how long a request may take from getEntry to Allow
  MaxTime           \* bound on the clock

NoHeader == "no X-Forwarded-For"
NoEntry == "no entry"

\* A limit per minute refills its bucket in one minute: an address that was
\* idle for ten has a full one unless a handler hung for nine in between.
ASSUME LimiterAssumption ==
  /\ IsFiniteSet(Requests) /\ NoEntry \notin Requests
  /\ TrustedProxies \subseteq IPs /\ NoHeader \notin IPs
  /\ Burst \in Nat /\ Idle \in Nat /\ MaxPause \in Nat /\ MaxTime \in Nat
  /\ Interval \in Nat \ {0}
  /\ Idle >= Burst + MaxPause

VARIABLES
  now,      \* the clock
  table,    \* rl.mu: address -> its entry, named after the request that made it
  bucket,   \* entry -> tokens in its limiter and lastSeen
  rq,       \* request -> where it is; `raced` is read by properties only
  sweep,    \* the cleanup goroutine
  timer     \* time since its ticker fired

limiterVars == << now, table, bucket, rq, sweep, timer >>

RequestState ==
  [pc : {"idle", "touch", "store", "allow", "done"}, ip : IPs \cup {NoHeader},
   entry : Requests \cup {NoEntry}, at : Nat, raced : BOOLEAN, reply : {"none", "next", "429"}]

SweepState ==
  [pc : {"idle", "visit", "delete", "stopped"}, cutoff : Int, todo : SUBSET IPs,
   ip : IPs \cup {NoHeader}]

LimiterTypeOK ==
  /\ now \in Nat /\ timer \in 0 .. Interval
  /\ table \in [IPs -> Requests \cup {NoEntry}]
  /\ bucket \in [Requests -> [tokens : 0 .. Burst, seen : Nat]]
  /\ rq \in [Requests -> RequestState]
  /\ sweep \in SweepState

LimiterInit ==
  /\ now = 0 /\ timer = 0
  /\ table = [ip \in IPs |-> NoEntry]
  /\ bucket = [r \in Requests |-> [tokens |-> Burst, seen |-> 0]]
  /\ rq = [r \in Requests |->
             [pc |-> "idle", ip |-> NoHeader, entry |-> NoEntry, at |-> 0,
              raced |-> FALSE, reply |-> "none"]]
  /\ sweep = [pc |-> "idle", cutoff |-> 0, todo |-> {}, ip |-> NoHeader]

-----------------------------------------------------------------------------
(* A request.                                                               *)

isTrustedProxy(ip) == ip \in TrustedProxies

\* The first address of X-Forwarded-For counts only behind a trusted proxy.
getIP(remote, xff) == IF xff # NoHeader /\ isTrustedProxy(remote) THEN xff ELSE remote

\* rl.mu.Load; when there is no entry, one is made, touched, and kept aside.
Load(r, ip) ==
  /\ rq[r].pc = "idle"
  /\ \/ /\ table[ip] # NoEntry
        /\ rq' = [rq EXCEPT ![r] = [@ EXCEPT !.pc = "touch", !.ip = ip, !.at = now, !.entry = table[ip]]]
        /\ UNCHANGED bucket
     \/ /\ table[ip] = NoEntry
        /\ rq' = [rq EXCEPT ![r] = [@ EXCEPT !.pc = "store", !.ip = ip, !.at = now, !.entry = r]]
        /\ bucket' = [bucket EXCEPT ![r] = [tokens |-> Burst, seen |-> now]]
  /\ UNCHANGED << now, table, sweep, timer >>

\* Mutant: only a new entry is touched.
TouchNone(r) ==
  /\ rq[r].pc = "touch"
  /\ rq' = [rq EXCEPT ![r] = [@ EXCEPT !.pc = "allow"]]
  /\ UNCHANGED << now, table, bucket, sweep, timer >>

\* e.touch()
Touch(r) ==
  /\ rq[r].pc = "touch"
  /\ bucket' = [bucket EXCEPT ![rq[r].entry].seen = now]
  /\ rq' = [rq EXCEPT ![r] = [@ EXCEPT !.pc = "allow"]]
  /\ UNCHANGED << now, table, sweep, timer >>

\* Mutant: Store instead of LoadOrStore; the last of two first requests wins.
StoreAlways(r) ==
  /\ rq[r].pc = "store"
  /\ table' = [table EXCEPT ![rq[r].ip] = r]
  /\ rq' = [rq EXCEPT ![r] = [@ EXCEPT !.pc = "allow"]]
  /\ UNCHANGED << now, bucket, sweep, timer >>

\* rl.mu.LoadOrStore: of two first requests one stores, the other adopts.
LoadOrStore(r) ==
  LET ip == rq[r].ip IN
  /\ rq[r].pc = "store"
  /\ \/ /\ table[ip] = NoEntry
        /\ table' = [table EXCEPT ![ip] = r]
        /\ rq' = [rq EXCEPT ![r] = [@ EXCEPT !.pc = "allow"]]
     \/ /\ table[ip] # NoEntry
        /\ rq' = [rq EXCEPT ![r] = [@ EXCEPT !.pc = "touch", !.entry = table[ip]]]
        /\ UNCHANGED table
  /\ UNCHANGED << now, bucket, sweep, timer >>

\* The cleanup has found the entry old and is about to remove it.
Condemned(ip) == sweep.pc = "delete" /\ sweep.ip = ip

\* The entry of r is, or is about to be, no longer the one of its address.
Abandoned(r) == table[rq[r].ip] # rq[r].entry \/ Condemned(rq[r].ip)

\* Mutant: the bucket may be overdrawn.
AllowAlways(r) ==
  /\ rq[r].pc = "allow"
  /\ bucket' = [bucket EXCEPT ![rq[r].entry].tokens = @ - 1]
  /\ rq' = [rq EXCEPT ![r] = [@ EXCEPT !.pc = "done", !.reply = "next", !.at = now, !.raced = Abandoned(r)]]
  /\ UNCHANGED << now, table, sweep, timer >>

\* e.limiter.Allow(): take a token and go on, or answer 429.
Allow(r) ==
  LET e == rq[r].entry IN
  /\ rq[r].pc = "allow"
  /\ \/ /\ bucket[e].tokens > 0
        /\ bucket' = [bucket EXCEPT ![e].tokens = @ - 1]
        /\ rq' = [rq EXCEPT ![r] = [@ EXCEPT !.pc = "done", !.reply = "next",
                                             !.at = now, !.raced = Abandoned(r)]]
     \/ /\ bucket[e].tokens = 0
        /\ rq' = [rq EXCEPT ![r] = [@ EXCEPT !.pc = "done", !.reply = "429"]]
        /\ UNCHANGED bucket
  /\ UNCHANGED << now, table, sweep, timer >>

-----------------------------------------------------------------------------
(* The cleanup goroutine.                                                   *)

\* The ticker fires: the cutoff is computed once, and Range visits the keys.
\* A key stored meanwhile may be visited or not; its entry is not old.
StartSweep ==
  /\ sweep.pc = "idle" /\ timer = Interval
  /\ sweep' = [sweep EXCEPT !.pc = "visit", !.cutoff = now - Idle,
                            !.todo = {ip \in IPs : table[ip] # NoEntry}]
  /\ timer' = 0
  /\ UNCHANGED << now, table, bucket, rq >>

\* e.seen().Before(cutoff)
IsOld(e) == bucket[e].seen < sweep.cutoff

\* Mutant: the function returns false, which ends Range.
VisitFirst(ip) ==
  /\ sweep.pc = "visit" /\ ip \in sweep.todo
  /\ sweep' = [sweep EXCEPT !.todo = {}, !.ip = ip,
                            !.pc = IF IsOld(table[ip]) THEN "delete" ELSE "visit"]
  /\ UNCHANGED << now, table, bucket, rq, timer >>

\* One call of Range's function, up to its decision.
Visit(ip) ==
  /\ sweep.pc = "visit" /\ ip \in sweep.todo
  /\ sweep' = [sweep EXCEPT !.todo = @ \ {ip}, !.ip = ip,
                            !.pc = IF IsOld(table[ip]) THEN "delete" ELSE "visit"]
  /\ UNCHANGED << now, table, bucket, rq, timer >>

\* rl.mu.Delete(key), whoever has looked the entry up since.
DeleteEntry ==
  /\ sweep.pc = "delete"
  /\ table' = [table EXCEPT ![sweep.ip] = NoEntry]
  /\ sweep' = [sweep EXCEPT !.pc = "visit"]
  /\ UNCHANGED << now, bucket, rq, timer >>

EndSweep ==
  /\ sweep.pc = "visit" /\ sweep.todo = {}
  /\ sweep' = [sweep EXCEPT !.pc = "idle"]
  /\ UNCHANGED << now, table, bucket, rq, timer >>

\* <-ctx.Done(): the signal ends the goroutine; requests go on for a while.
StopSweeps ==
  /\ sweep.pc = "idle"
  /\ sweep' = [sweep EXCEPT !.pc = "stopped"]
  /\ UNCHANGED << now, table, bucket, rq, timer >>

-----------------------------------------------------------------------------
InFlight(r) == rq[r].pc \in {"touch", "store", "allow"}

\* Time passes and every bucket gains a token (golang.org/x/time/rate).  The
\* ticker fires in time, and no request hangs for longer than MaxPause.
Refill(b) == [b EXCEPT !.tokens = IF @ < Burst THEN @ + 1 ELSE @]

Tick ==
  /\ now < MaxTime
  /\ timer < Interval \/ sweep.pc = "stopped"
  /\ \A r \in Requests : InFlight(r) => now < rq[r].at + MaxPause
  /\ now' = now + 1
  /\ timer' = IF timer < Interval THEN timer + 1 ELSE timer
  /\ bucket' = [e \in Requests |-> Refill(bucket[e])]
  /\ UNCHANGED << table, rq, sweep >>

RequestStep(r) ==
  \/ \E remote \in IPs, xff \in IPs \cup {NoHeader} : Load(r, getIP(remote, xff))
  \/ Touch(r) \/ LoadOrStore(r) \/ Allow(r)

SweepStep == StartSweep \/ (\E ip \in IPs : Visit(ip)) \/ DeleteEntry \/ EndSweep \/ StopSweeps

LimiterNext == (\E r \in Requests : RequestStep(r)) \/ SweepStep \/ Tick

LimiterSpec == LimiterInit /\ [][LimiterNext]_limiterVars

-----------------------------------------------------------------------------
\* Requests of an address that were let through since s by the entry of that
\* address, and not by one that the cleanup had condemned or removed.
Passed(ip, s) ==
  {r \in Requests : rq[r].reply = "next" /\ rq[r].ip = ip /\ rq[r].at >= s /\ ~rq[r].raced}

\* However first requests race for the entry and however often it is
\* forgotten and made again, an address gets no more than one bucket that was
\* never forgotten would give it: in every window a burst and what the window
\* refills.  Only a request that the cleanup overtakes between its lookup and
\* its token can come on top.
WindowBound ==
  \A ip \in IPs : \A s \in 0 .. now : Cardinality(Passed(ip, s)) <= Burst + (now - s)

\* Memory is bounded by the addresses of the last fifteen minutes: while the
\* cleanups run, no entry stays longer than that after it was last seen.
ForgottenInTime ==
  sweep.pc = "idle" =>
    \A ip \in IPs : table[ip] # NoEntry => now - bucket[table[ip]].seen <= Idle + Interval

-----------------------------------------------------------------------------
(* The inductive invariant behind the two.                                  *)

\* A request that holds an entry is not older than MaxPause, and its entry was
\* seen since it came; nobody is answered before the end.
RequestOK(r) ==
  /\ rq[r].at <= now
  /\ rq[r].pc # "done" => rq[r].reply = "none"
  /\ InFlight(r) => rq[r].ip \in IPs /\ rq[r].entry \in Requests /\ now <= rq[r].at + MaxPause
  /\ rq[r].pc = "store" => rq[r].entry = r
  /\ rq[r].pc \in {"store", "allow"} => rq[r].at <= bucket[rq[r].entry].seen

\* An entry in the table was made by a request that has stored it.
RequestsInv ==
  /\ \A r \in Requests : RequestOK(r)
  /\ \A ip \in IPs : table[ip] # NoEntry => rq[table[ip]].pc \notin {"idle", "store"}

\* A token leaves a bucket at most MaxPause after the bucket was seen, so a
\* bucket that was idle for longer has gained a token in every unit since.
TokensInv ==
  \A e \in Requests :
    /\ bucket[e].seen <= now
    /\ bucket[e].tokens = Burst \/ bucket[e].tokens >= now - bucket[e].seen - MaxPause

\* The cleanup has still to visit what was last seen before its cutoff, or is
\* about to delete it.
SweepInv ==
  /\ sweep.pc \in {"visit", "delete"} => sweep.cutoff = now - timer - Idle
  /\ sweep.pc \in {"idle", "stopped"} => sweep.todo = {}
  /\ sweep.pc = "delete" => sweep.ip \in IPs \ sweep.todo
  /\ \A ip \in sweep.todo : table[ip] # NoEntry
  /\ sweep.pc # "stopped" =>
       \A ip \in IPs \ sweep.todo :
         table[ip] # NoEntry /\ ~Condemned(ip) => bucket[table[ip]].seen >= now - timer - Idle

\* The tokens an address can still get from the entry it has, or will have.
Left(ip) == IF table[ip] = NoEntry \/ Condemned(ip) THEN Burst ELSE bucket[table[ip]].tokens

WindowInv ==
  \A ip \in IPs : \A s \in 0 .. now :
    Cardinality(Passed(ip, s)) + Left(ip) <= Burst + (now - s)

\* What the table, the buckets, the requests between lookup and token and the
\* cleanup between decision and deletion owe to one another at every moment.
LimiterInv == RequestsInv /\ TokensInv /\ SweepInv /\ WindowInv
=============================================================================
