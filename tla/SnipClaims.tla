----------------------------- MODULE SnipClaims -----------------------------
(***************************************************************************)
(* What README.md and the code's own messages say of the service, stated   *)
(* over Snip.  Each of these is violated by an execution of the code.      *)
(***************************************************************************)
EXTENDS Snip

\* README.md:205, "| `clean` | `201 Created` -- normal response |".  Create
\* inserts hash '' under a UNIQUE key, so a clean URL is answered 500 while
\* another request is between Create and UpdateHash.
CleanIsCreated ==
  \A r \in Shorteners : sh[r].pc = "done" /\ sh[r].result = "clean" => sh[r].reply = "201"

\* README.md:701, "Collision-free and deterministic".  The UNIQUE key compares
\* hashes without case, so distinct ids do collide.
EncodedHashIsFree ==
  \A r \in Shorteners : sh[r].pc = "hash" => ~HashTaken(sh[r].id, Encode(sh[r].id))

\* README.md:221, "The Redis cache key is deleted immediately", and :222, "The
\* redirect endpoint will now return HTTP 403 for that hash".  A redirect
\* that read the row before the block fills the cache after the DEL.
BlockedIsNotCached ==
  \A id \in Ids :
    /\ urls[id].vt = "malicious"
    /\ ~(rs.pc = "evict" /\ rs.id = id)
    /\ \A r \in Reporters : ~(rp[r].pc = "evict" /\ rp[r].id = id)
    => \A k \in urlKeys : k.url # BadUrl => ~Names(k.hash, id)
=============================================================================
