---------------------------- MODULE MCFunctions -----------------------------
(***************************************************************************)
(* The pure functions over all their inputs: id runs through a whole word,  *)
(* and raw through the URLs a client may send.                             *)
(***************************************************************************)
EXTENDS HashIds, UrlNorm

MCLower == [w \in {"HTTP", "Example.com", "Snip.io", "DB8"} |->
  CASE w = "HTTP" -> "http" [] w = "Example.com" -> "example.com"
    [] w = "Snip.io" -> "snip.io" [] w = "DB8" -> "db8"]
MCToASCII == [w \in {"idn.com"} |-> "xn--idn.com"]
MCStripWWW == [w \in {"www.bit.ly"} |-> "bit.ly"]
MCDecimals == {"", "1", "80", "443", "8080"}
MCPrivateIPs == {<< "10.0.0.1" >>, << "", "", "1" >>}

Names == {<< >>, << "example.com" >>, << "Example.com" >>, << "idn.com" >>,
          << "www.bit.ly" >>, << "Snip.io" >>, << "10.0.0.1" >>}
\* ::1, and two addresses whose last groups are and are not decimal.
Addresses == {<< "", "", "1" >>, << "2001", "DB8", "", "80" >>, << "2001", "db8", "", "ab" >>}
Ports == {"80", "443", "8080"}

Hosts ==
  {Bare(t) : t \in Names} \cup {Bare(Append(t, p)) : t \in Names \ {<< >>}, p \in Ports}
    \cup [lit : {TRUE}, text : Addresses, port : Ports \cup {NoPort}]

MCRawUrls ==
  [scheme : {"http", "HTTP", "https", "ftp"}, user : {FALSE}, host : Hosts,
   path : {"", "/", "/p"}, fragment : {"", TooLong}]
    \cup [scheme : {"http", "HTTP"}, user : {TRUE}, host : Hosts, path : {"", TooLong}, fragment : {""}]

FirstUrl == CHOOSE u \in RawUrls : u.scheme = "http"

Init == id = 0 /\ raw = FirstUrl

Next ==
  \/ id' = (id + 1) % Word /\ raw = FirstUrl /\ UNCHANGED raw
  \/ id = 0 /\ raw' \in RawUrls /\ UNCHANGED id

Spec == Init /\ [][Next]_<< id, raw >>
=============================================================================
