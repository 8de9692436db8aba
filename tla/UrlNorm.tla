------------------------------ MODULE UrlNorm -------------------------------
(***************************************************************************)
(* What a submitted URL goes through before Shorten calls anything:         *)
(* NormalizeURL (internal/scanner/normalize.go), then ValidateURL           *)
(* (internal/hash/validator.go) with IsBlocked (internal/scanner/           *)
(* blocklist.go), on the parts that net/url distinguishes.                 *)
(*                                                                         *)
(* The text of a host is the sequence of its pieces between colons, which   *)
(* may stand in brackets: << "example.com", "80" >> is example.com:80, and  *)
(* an IPv6 address is the sequence of its groups.  The port of a host in   *)
(* brackets is kept apart.                                                 *)
(***************************************************************************)
EXTENDS Integers, Sequences

CONSTANTS
  Lower,       \* strings.ToLower, for the words it changes
  ToASCII,     \* idna.Lookup.ToASCII, for the lower-case names it changes
  StripWWW,    \* name -> without its prefix www., for the names that have it
  Decimals,    \* words that are decimal numbers; "" passes for one too
  PrivateIPs,  \* addresses in privateCIDRs
  Blocked,     \* blockedDomains
  BaseHost,    \* host name of BASE_URL
  RawUrls      \* URLs that clients send

Image(f, w) == IF w \in DOMAIN f THEN f[w] ELSE w

NoPort == "no port"
TooLong == "more than 2048 characters"

\* The hosts of RFC 3986: a name or an IPv4 address has no colon but its
\* port's, an IPv6 address has brackets and at least two.  A colon with no
\* port after it is left out: NormalizeURL keeps it.
HostParts == [lit : BOOLEAN, text : Seq(STRING), port : STRING \cup {NoPort}]

PortNumbers == Decimals \ {""}

WellFormedHost(h) ==
  /\ ~h.lit => Len(h.text) <= 2 /\ h.port = NoPort /\ (Len(h.text) = 2 => h.text[2] # "")
  /\ h.lit => Len(h.text) >= 3 /\ h.port \in PortNumbers \cup {NoPort}

WellFormed(u) ==
  /\ u \in [scheme : STRING, user : BOOLEAN, host : HostParts, path : STRING, fragment : STRING]
  /\ WellFormedHost(u.host)

\* ToLower is idempotent and neither changes a number nor makes one.
ASSUME UrlNormAssumption ==
  /\ \A w \in DOMAIN Lower : /\ Lower[w] \in STRING /\ Lower[w] \notin DOMAIN Lower
                            /\ w \notin Decimals /\ Lower[w] \notin Decimals
  /\ Decimals \subseteq STRING /\ "" \in Decimals /\ NoPort \notin Decimals
  /\ \A u \in RawUrls : WellFormed(u)

VARIABLE raw   \* the URL at hand

-----------------------------------------------------------------------------
(* net/url: a port is whatever decimal number follows the last colon.       *)

HasPort(h) == ~h.lit /\ Len(h.text) > 1 /\ h.text[Len(h.text)] \in Decimals

Hostname(h) == IF HasPort(h) THEN SubSeq(h.text, 1, Len(h.text) - 1) ELSE h.text

Port(h) ==
  IF h.lit THEN h.port ELSE IF HasPort(h) THEN h.text[Len(h.text)] ELSE NoPort

\* url.Parse refuses a last colon that is not followed by a port.
Parses(u) == u.host.lit \/ Len(u.host.text) <= 1 \/ HasPort(u.host)

LowerText(t) == [i \in DOMAIN t |-> Image(Lower, t[i])]

\* A host without brackets and with no port of its own.
Bare(t) == [lit |-> FALSE, text |-> t, port |-> NoPort]

-----------------------------------------------------------------------------
(* NormalizeURL                                                             *)

DefaultPort(scheme) == CASE scheme = "http" -> "80" [] scheme = "https" -> "443" [] OTHER -> NoPort

LowerHost(h) == [h EXCEPT !.text = LowerText(h.text)]

StripSlash(path) == IF path = "/" THEN "" ELSE path

\* Mutant: 80 and 443 are stripped whatever the scheme.
StripEitherPort(scheme, h) == IF Port(h) \in {"80", "443"} THEN Bare(Hostname(h)) ELSE h

\* u.Host = u.Hostname(), which also drops the brackets of an IPv6 address.
StripDefaultPort(scheme, h) ==
  IF Port(h) # NoPort /\ Port(h) = DefaultPort(scheme) THEN Bare(Hostname(h)) ELSE h

\* Mutant: the path "/" is kept.
NormalizeKeepingSlash(u) ==
  LET scheme == Image(Lower, u.scheme)
  IN  [u EXCEPT !.scheme = scheme,
                !.host = StripDefaultPort(scheme, LowerHost(@)),
                !.fragment = ""]

NormalizeURL(u) ==
  LET scheme == Image(Lower, u.scheme)
  IN  [u EXCEPT !.scheme = scheme,
                !.host = StripDefaultPort(scheme, LowerHost(@)),
                !.fragment = "",
                !.path = StripSlash(@)]

-----------------------------------------------------------------------------
(* ValidateURL                                                              *)

checkSelfRef(h) == LowerText(Hostname(h)) = LowerText(<< BaseHost >>)

\* net.SplitHostPort cuts a port only off a host with one colon or in
\* brackets; any other text is taken as an address as it stands.
checkPrivateIP(h) ==
  (IF ~h.lit /\ Len(h.text) = 2 THEN << h.text[1] >> ELSE h.text) \in PrivateIPs

\* ToASCII lowers names and converts those outside ASCII; a host with colons
\* makes it fail, which passes.
checkHomograph(h) ==
  LET name == Hostname(h)
  IN  Len(name) = 1 /\ Image(ToASCII, Image(Lower, name[1])) # name[1]

IsBlocked(h) ==
  LET name == LowerText(Hostname(h))
  IN  Len(name) = 1 /\ Image(StripWWW, name[1]) \in Blocked

\* The first check that fails, in the code's order.
ValidateURL(u) ==
  CASE u.path = TooLong \/ u.fragment = TooLong -> "invalid"
    [] ~Parses(u) -> "invalid"
    [] u.scheme \notin {"http", "https"} -> "invalid"
    [] u.host.text = << >> -> "invalid"
    [] u.user -> "credentials"
    [] checkSelfRef(u.host) -> "self reference"
    [] checkPrivateIP(u.host) -> "private ip"
    [] checkHomograph(u.host) -> "homograph"
    [] IsBlocked(u.host) -> "blocked"
    [] OTHER -> "ok"

\* Mutant: the URL is validated as it was sent.
VerdictOnRaw(u) == ValidateURL(u)

\* What Shorten answers before its first call.
Verdict(u) == IF Parses(u) THEN ValidateURL(NormalizeURL(u)) ELSE "invalid"

-----------------------------------------------------------------------------
(* What a URL means: where a client that follows it ends up.                *)

Target(u) ==
  LET scheme == Image(Lower, u.scheme)
  IN  [scheme |-> scheme,
       name |-> LowerText(Hostname(u.host)),
       port |-> IF Port(u.host) = NoPort THEN DefaultPort(scheme) ELSE Port(u.host),
       path |-> StripSlash(u.path)]

\* An IPv6 address with the default port, which loses its brackets.
Unbracketed(u) ==
  u.host.lit /\ u.host.port # NoPort /\ u.host.port = DefaultPort(Image(Lower, u.scheme))
-----------------------------------------------------------------------------
\* One URL after the other.
NormSpec == raw \in RawUrls /\ [][raw' \in RawUrls]_raw

\* What Shorten stores leads where the submitted URL led, is its own normal
\* form and would be accepted again: for every URL it accepts but an IPv6
\* address with its scheme's default port, for which the first never holds.
StoredLeadsHome ==
  Verdict(raw) = "ok" =>
    LET stored == NormalizeURL(raw) IN
    /\ Target(stored) = Target(raw) <=> ~Unbracketed(raw)
    /\ ~Unbracketed(raw) => NormalizeURL(stored) = stored /\ Verdict(stored) = "ok"

\* Deduplication by the normal form is deduplication by target: two accepted
\* URLs have the same one exactly when they lead to the same place (and are
\* alike in that exception).
OneSpellingPerTarget ==
  Verdict(raw) = "ok" =>
    \A u \in {v \in RawUrls : Verdict(v) = "ok"} :
      NormalizeURL(u) = NormalizeURL(raw)
        <=> Target(u) = Target(raw) /\ (Unbracketed(u) <=> Unbracketed(raw))

\* No check depends on how a URL is spelled: upper case, a default port, a
\* fragment of any length or a slash change neither whether nor why ValidateURL
\* refuses it.
RefusedAlike ==
  \A u \in RawUrls :
    Target(u) = Target(raw) /\ u.user = raw.user /\ (Unbracketed(u) <=> Unbracketed(raw))
      => Verdict(u) = Verdict(raw)
=============================================================================
