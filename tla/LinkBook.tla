------------------------------ MODULE LinkBook ------------------------------
(***************************************************************************)
(* What the service promises about its links, without table, cache, scans,  *)
(* reports or failures: a book in which a link is entered once, under a     *)
(* hash no other link has, and from which it is never removed or changed.  *)
(* Clients are told links of the book, and visitors are sent where it says. *)
(***************************************************************************)
CONSTANTS
  Clients,         \* requests to shorten
  Visitors,        \* requests to redirect
  Numbers,         \* what links are numbered with
  Askable,         \* hashes of the length and the alphabet of a link
  Nowhere,         \* the answer to a hash that no link has
  UrlKey,          \* URLs with one key are one URL to the deduplication
  SameHash(_, _)   \* hashes that are one hash to the lookup

VARIABLES
  book,   \* number -> hash and URL of the link
  told,   \* client -> the hash it was answered with, and the URL it had sent
  sent    \* visitor -> the hash it asked for, and the URL it was sent to

bookVars == << book, told, sent >>

BookInit ==
  /\ \A i, j \in DOMAIN book : SameHash(book[i].hash, book[j].hash) => i = j
  /\ told = [c \in Clients |-> {}]
  /\ sent = [v \in Visitors |-> {}]

\* Link n is entered, under a hash that no link has.
Enter(n) ==
  /\ n \notin DOMAIN book
  /\ DOMAIN book' = DOMAIN book \cup {n}
  /\ \A i \in DOMAIN book : book'[i] = book[i] /\ ~SameHash(book[i].hash, book'[n].hash)
  /\ UNCHANGED << told, sent >>

\* A client is told, once, the hash of a link to the URL it had sent.
Tell(c, answer) ==
  /\ told[c] = {}
  /\ told' = [told EXCEPT ![c] = {answer}]
  /\ \E i \in DOMAIN book :
       answer.hash = book[i].hash /\ UrlKey[answer.url] = UrlKey[book[i].url]
  /\ UNCHANGED << book, sent >>

\* A visitor is sent, once, to the URL of the link with the hash it asked for,
\* and is told that there is none only when there is none.
Send(v, answer) ==
  /\ sent[v] = {}
  /\ sent' = [sent EXCEPT ![v] = {answer}]
  /\ \/ \E i \in DOMAIN book :
            SameHash(book[i].hash, answer.hash) /\ answer.url = book[i].url
     \/ /\ answer.url = Nowhere
        /\ answer.hash \in Askable => \A i \in DOMAIN book : ~SameHash(book[i].hash, answer.hash)
  /\ UNCHANGED << book, told >>

BookNext ==
  \/ \E n \in Numbers : Enter(n)
  \/ \E c \in Clients : \E answer \in told'[c] : Tell(c, answer)
  \/ \E v \in Visitors : \E answer \in sent'[v] : Send(v, answer)

BookSpec == BookInit /\ [][BookNext]_bookVars
=============================================================================
