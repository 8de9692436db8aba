--------------------------- MODULE UrlNormProofs ----------------------------
(***************************************************************************)
(* What NormalizeURL keeps and what it identifies, for every well-formed    *)
(* URL, every lower-casing, every set of ports and every blocklist.        *)
(***************************************************************************)
EXTENDS UrlNorm, SequenceTheorems, TLAPS

-----------------------------------------------------------------------------
(* Short sequences, over any set.                                           *)

\* The pieces of a host with one, and of a host with two.
LEMMA Tuples ==
  ASSUME NEW S, NEW a \in S, NEW b \in S
  PROVE  /\ << a >> \in Seq(S) /\ Len(<< a >>) = 1 /\ << a >>[1] = a
         /\ << a, b >> \in Seq(S) /\ Len(<< a, b >>) = 2
OBVIOUS

\* A sequence of one or two is the tuple of its elements.
LEMMA TwoPieces ==
  ASSUME NEW S, NEW t \in Seq(S)
  PROVE  /\ Len(t) = 1 => t = << t[1] >>
         /\ Len(t) = 2 => t = << t[1], t[2] >>
OBVIOUS

\* A length is a number.
LEMMA Lengths ==
  ASSUME NEW S, NEW t \in Seq(S)
  PROVE  Len(t) \in Nat /\ DOMAIN t = 1 .. Len(t)
OBVIOUS

-----------------------------------------------------------------------------
(* Lower case.                                                              *)

\* ToLower is idempotent, and neither makes a number nor changes one.
LEMMA LowWord ==
  ASSUME NEW w \in STRING
  PROVE  /\ Image(Lower, w) \in STRING /\ Image(Lower, Image(Lower, w)) = Image(Lower, w)
         /\ Image(Lower, w) \in Decimals <=> w \in Decimals
         /\ w \in Decimals => Image(Lower, w) = w
BY UrlNormAssumption DEF Image

\* The texts of hosts, and how many pieces they have.
Texts == Seq(STRING)
Size(t) == Len(t)

\* The sizes of texts are numbers, short ones are the tuples of their pieces,
\* and texts are what their pieces are.
LEMMA TextFacts ==
  /\ \A t \in Texts : Size(t) \in Nat /\ (Size(t) = 1 => t = << t[1] >>)
                      /\ (Size(t) = 2 => t = << t[1], t[2] >> /\ t[1] \in STRING)
  /\ \A a \in STRING : << a >> \in Texts /\ Size(<< a >>) = 1
  /\ \A a, b \in STRING : << a, b >> \in Texts
  /\ \A a, b : Size(<< a, b >>) = 2
  /\ \A t, v \in Texts : Size(t) = Size(v) /\ (\A i \in 1 .. Size(t) : t[i] = v[i]) => t = v
<1>1. ASSUME NEW t \in Seq(STRING)
      PROVE  Len(t) \in Nat /\ (Len(t) = 1 => t = << t[1] >>)
             /\ (Len(t) = 2 => t = << t[1], t[2] >> /\ t[1] \in STRING)
  BY Lengths, TwoPieces
<1>2. \A a \in STRING : << a >> \in Seq(STRING) /\ Len(<< a >>) = 1  BY Tuples
<1>3. \A a, b \in STRING : << a, b >> \in Seq(STRING)  BY Tuples
<1>5. \A a, b : Len(<< a, b >>) = 2  OBVIOUS
<1>4. \A t, v \in Seq(STRING) : Len(t) = Len(v) /\ (\A i \in 1 .. Len(t) : t[i] = v[i]) => t = v
  BY SeqEqual
<1> QED  BY <1>1, <1>2, <1>3, <1>4, <1>5 DEF Texts, Size

\* The same for the pieces of a host.
LEMMA LowText ==
  ASSUME NEW t \in Texts
  PROVE  /\ LowerText(t) \in Texts /\ Size(LowerText(t)) = Size(t)
         /\ \A i \in 1 .. Size(t) : LowerText(t)[i] = Image(Lower, t[i])
         /\ LowerText(LowerText(t)) = LowerText(t)
<1> USE DEF Texts, Size
<1>1. DOMAIN t = 1 .. Len(t) /\ Len(t) \in Nat /\ \A i \in 1 .. Len(t) : t[i] \in STRING
  OBVIOUS
<1>2. LowerText(t) = [i \in 1 .. Len(t) |-> Image(Lower, t[i])]  BY <1>1 DEF LowerText
<1>3. \A i \in 1 .. Len(t) : Image(Lower, t[i]) \in STRING  BY <1>1, LowWord
<1>4. LowerText(t) \in [1 .. Len(t) -> STRING]  BY <1>2, <1>3
<1>5. LowerText(t) \in Seq(STRING)  BY <1>1, <1>4, IsASeq
<1>6. Len(LowerText(t)) = Len(t)  BY <1>1, <1>2, <1>5
<1>7. LowerText(LowerText(t)) = [i \in 1 .. Len(t) |-> Image(Lower, Image(Lower, t[i]))]
  BY <1>2 DEF LowerText
<1>8. LowerText(LowerText(t)) = LowerText(t)  BY <1>1, <1>2, <1>7, LowWord
<1> QED  BY <1>2, <1>5, <1>6, <1>8

\* The same for texts of one piece or two.
LEMMA LowTuples ==
  ASSUME NEW a \in STRING, NEW b \in STRING
  PROVE  /\ LowerText(<< a >>) = << Image(Lower, a) >>
         /\ LowerText(<< a, b >>) = << Image(Lower, a), Image(Lower, b) >>
<1>1. ASSUME NEW x \in Texts, x = << a >>
      PROVE  LowerText(x) = << Image(Lower, a) >>
  <2>1. Size(x) = 1 /\ x[1] = a  BY <1>1, TextFacts
  <2>2. LowerText(x) \in Texts /\ Size(LowerText(x)) = 1  BY <2>1, LowText
  <2>3. 1 \in 1 .. 1  OBVIOUS
  <2>4. LowerText(x)[1] = Image(Lower, x[1])  BY <2>1, <2>3, LowText
  <2> QED  BY <2>1, <2>2, <2>4, TextFacts
<1>2. ASSUME NEW x \in Texts, x = << a, b >>
      PROVE  LowerText(x) = << Image(Lower, a), Image(Lower, b) >>
  <2>1. Size(x) = 2 /\ x[1] = a /\ x[2] = b  BY <1>2, TextFacts
  <2>2. LowerText(x) \in Texts /\ Size(LowerText(x)) = 2  BY <2>1, LowText
  <2>3. 1 \in 1 .. 2 /\ 2 \in 1 .. 2  OBVIOUS
  <2>4. LowerText(x)[1] = Image(Lower, x[1]) /\ LowerText(x)[2] = Image(Lower, x[2])
    BY <2>1, <2>3, LowText
  <2> QED  BY <2>1, <2>2, <2>4, TextFacts
<1> QED  BY <1>1, <1>2, TextFacts

-----------------------------------------------------------------------------
(* The three shapes of a host: an address in brackets, a name with a port,  *)
(* and a name without.                                                      *)

\* A port number is a number, not empty, and not the sign that there is none.
LEMMA PortFacts ==
  /\ \A p \in PortNumbers : p \in Decimals /\ p \in STRING /\ p # NoPort /\ p # ""
  /\ \A p \in Decimals : p # "" => p \in PortNumbers
  /\ NoPort \notin Decimals
BY UrlNormAssumption DEF PortNumbers

Literal(t, p) == [lit |-> TRUE, text |-> t, port |-> p]

\* An address has the port behind its brackets.
LEMMA LiteralParts ==
  ASSUME NEW t, NEW p
  PROVE  Hostname(Literal(t, p)) = t /\ Port(Literal(t, p)) = p
BY DEF Literal, Hostname, HasPort, Port

\* A name with a port.
LEMMA PortedParts ==
  ASSUME NEW n, NEW p \in Decimals
  PROVE  /\ Hostname(Bare(<< n, p >>)) = << n >> /\ Port(Bare(<< n, p >>)) = p
         /\ HasPort(Bare(<< n, p >>))
<1>1. SubSeq(<< n, p >>, 1, 1) = << n >>
  <2> DEFINE s == SubSeq(<< n, p >>, 1, 1)
  <2>1. << n, p >> \in Seq({n, p})  OBVIOUS
  <2>2. s \in Seq({n, p}) /\ Len(s) = 1 /\ s[1] = n  BY <2>1, SubSeqProperties
  <2>3. << n >> \in Seq({n, p}) /\ Len(<< n >>) = 1 /\ << n >>[1] = n  OBVIOUS
  <2> HIDE DEF s
  <2>4. \A i \in 1 .. Len(s) : s[i] = << n >>[i]  BY <2>2, <2>3
  <2>5. s = << n >>  BY <2>2, <2>3, <2>4, SeqEqual
  <2> QED  BY <2>5 DEF s
<1> QED  BY <1>1 DEF Bare, Hostname, HasPort, Port

\* A name without a port, or what follows its colon is none.
LEMMA PlainParts ==
  ASSUME NEW t \in Texts, Size(t) > 1 => t[Size(t)] \notin Decimals
  PROVE  /\ Hostname(Bare(t)) = t /\ Port(Bare(t)) = NoPort
         /\ ~HasPort(Bare(t))
BY DEF Bare, Hostname, HasPort, Port, Size

\* Every well-formed host has one of the shapes.
LEMMA Shapes ==
  ASSUME NEW h \in HostParts, WellFormedHost(h)
  PROVE  \/ \E t \in Texts, p \in PortNumbers \cup {NoPort} : Size(t) >= 3 /\ h = Literal(t, p)
         \/ \E n \in STRING, p \in PortNumbers : h = Bare(<< n, p >>)
         \/ \E t \in Texts : Size(t) <= 2 /\ (Size(t) = 2 => t[2] \notin Decimals) /\ h = Bare(t)
<1>0. h = [lit |-> h.lit, text |-> h.text, port |-> h.port] /\ h.text \in Texts /\ h.lit \in BOOLEAN
  BY DEF HostParts, Texts
<1>1. CASE h.lit
  <2>1. h = Literal(h.text, h.port)  BY <1>0, <1>1 DEF Literal
  <2>2. Size(h.text) >= 3 /\ h.port \in PortNumbers \cup {NoPort}  BY <1>1 DEF WellFormedHost, Size
  <2> QED  BY <1>0, <2>1, <2>2
<1>2. CASE ~h.lit
  <2>1. h.lit = FALSE /\ h.port = NoPort /\ Size(h.text) <= 2
        /\ (Size(h.text) = 2 => h.text[2] # "")
    BY <1>0, <1>2 DEF WellFormedHost, Size
  <2>2. h = Bare(h.text)  BY <1>0, <2>1 DEF Bare
  <2>3. CASE Size(h.text) = 2 /\ h.text[2] \in Decimals
    <3>1. h.text = << h.text[1], h.text[2] >> /\ h.text[1] \in STRING  BY <1>0, <2>3, TextFacts
    <3>3. h.text[2] \in PortNumbers  BY <2>1, <2>3, PortFacts
    <3>2. h = Bare(<< h.text[1], h.text[2] >>)  BY <2>2, <3>1
    <3> QED  BY <3>1, <3>2, <3>3
  <2>4. CASE ~(Size(h.text) = 2 /\ h.text[2] \in Decimals)  BY <1>0, <2>1, <2>2, <2>4
  <2> QED  BY <2>3, <2>4
<1> QED  BY <1>1, <1>2

-----------------------------------------------------------------------------
(* The normal form of a host, as a function of where the host leads.        *)

NameOf(h) == LowerText(Hostname(h))
PortOf(s, h) == IF Port(h) = NoPort THEN DefaultPort(s) ELSE Port(h)
LosesBrackets(s, h) == h.lit /\ h.port # NoPort /\ h.port = DefaultPort(s)

\* The host for the name n and the port p, where d is the default port.
HostForm(n, p, d, bare) ==
  IF bare THEN Bare(n)
  ELSE IF Size(n) >= 3 THEN Literal(n, IF p = d THEN NoPort ELSE p)
  ELSE IF p = d THEN Bare(n) ELSE Bare(<< n[1], p >>)

\* Lower case does not touch the shape of a host.
LEMMA LowShapes ==
  ASSUME NEW t, NEW p
  PROVE  LowerHost(Literal(t, p)) = Literal(LowerText(t), p) /\ LowerHost(Bare(t)) = Bare(LowerText(t))
<1>1. LowerHost(Literal(t, p)) = Literal(LowerText(t), p)
  <2>1. Literal(t, p).text = t  BY DEF Literal
  <2> DEFINE l == LowerText(t)
  <2>2. LowerHost(Literal(t, p)) = [Literal(t, p) EXCEPT !.text = l]  BY <2>1 DEF LowerHost
  <2> HIDE DEF l
  <2>3. LowerHost(Literal(t, p)) = Literal(l, p)  BY <2>2 DEF Literal
  <2> QED  BY <2>3 DEF l
<1>2. LowerHost(Bare(t)) = Bare(LowerText(t))
  <2>1. Bare(t).text = t  BY DEF Bare
  <2> DEFINE l == LowerText(t)
  <2>2. LowerHost(Bare(t)) = [Bare(t) EXCEPT !.text = l]  BY <2>1 DEF LowerHost
  <2> HIDE DEF l
  <2>3. LowerHost(Bare(t)) = Bare(l)  BY <2>2 DEF Bare
  <2> QED  BY <2>3 DEF l
<1> QED  BY <1>1, <1>2

\* What is common to the hosts that url.Parse accepts.
Sound(n, p, d, bare) ==
  /\ n \in Texts /\ LowerText(n) = n /\ Size(n) # 2
  /\ bare => Size(n) >= 3 /\ p = d
  /\ p # d => p \in PortNumbers /\ (Size(n) < 3 => Size(n) = 1)

\* url.Parse accepts a well-formed host unless two pieces are left of its name.
LEMMA HostAccepted ==
  ASSUME NEW u, u.host \in HostParts, WellFormedHost(u.host)
  PROVE  Parses(u) <=> Size(NameOf(u.host)) # 2
<1> DEFINE h == u.host
<1>1. ASSUME NEW t \in Texts, NEW p \in PortNumbers \cup {NoPort}, Size(t) >= 3, h = Literal(t, p)
      PROVE  Parses(u) <=> Size(NameOf(h)) # 2
  <2>1. NameOf(h) = LowerText(t) /\ h.lit  BY <1>1, LiteralParts DEF NameOf, Literal
  <2> QED  BY <1>1, <2>1, LowText DEF Parses, Size
<1>2. ASSUME NEW n \in STRING, NEW p \in PortNumbers, h = Bare(<< n, p >>)
      PROVE  Parses(u) <=> Size(NameOf(h)) # 2
  <2>0. p \in Decimals  BY PortFacts
  <2>1. NameOf(h) = LowerText(<< n >>) /\ HasPort(h)  BY <1>2, <2>0, PortedParts DEF NameOf
  <2>2. << n >> \in Texts /\ Size(<< n >>) = 1  BY TextFacts
  <2>3. Size(LowerText(<< n >>)) = 1  BY <2>2, LowText
  <2> QED  BY <2>1, <2>3 DEF Parses, Size
<1>3. ASSUME NEW t \in Texts, Size(t) <= 2, Size(t) = 2 => t[2] \notin Decimals, h = Bare(t)
      PROVE  Parses(u) <=> Size(NameOf(h)) # 2
  <2>0. Size(t) \in Nat /\ Size(LowerText(t)) = Size(t)  BY TextFacts, LowText
  <2>1. Size(t) > 1 => t[Size(t)] \notin Decimals  BY <1>3, <2>0
  <2>2. NameOf(h) = LowerText(t) /\ ~HasPort(h)  BY <1>3, <2>1, PlainParts DEF NameOf
  <2>3. ~h.lit /\ h.text = t  BY <1>3 DEF Bare
  <2>4. Parses(u) <=> Size(t) <= 1  BY <2>2, <2>3 DEF Parses, Size
  <2>5. Size(NameOf(h)) = Size(t)  BY <2>0, <2>2
  <2> HIDE DEF h
  <2> QED  BY <1>3, <2>0, <2>4, <2>5
<1> QED  BY <1>1, <1>2, <1>3, Shapes

\* NormalizeURL leaves of a host its normal form.
LEMMA HostNormal ==
  ASSUME NEW s, NEW h \in HostParts, WellFormedHost(h), Size(NameOf(h)) # 2
  PROVE  /\ StripDefaultPort(s, LowerHost(h))
              = HostForm(NameOf(h), PortOf(s, h), DefaultPort(s), LosesBrackets(s, h))
         /\ Sound(NameOf(h), PortOf(s, h), DefaultPort(s), LosesBrackets(s, h))
<1> DEFINE G == /\ StripDefaultPort(s, LowerHost(h))
                     = HostForm(NameOf(h), PortOf(s, h), DefaultPort(s), LosesBrackets(s, h))
                /\ Sound(NameOf(h), PortOf(s, h), DefaultPort(s), LosesBrackets(s, h))
           d == DefaultPort(s)
<1>0. NoPort \notin Decimals  BY UrlNormAssumption
<1>1. ASSUME NEW t \in Texts, NEW p \in PortNumbers \cup {NoPort}, Size(t) >= 3, h = Literal(t, p)
      PROVE  G
  <2> DEFINE l == LowerText(t)
  <2>1. l \in Texts /\ Size(l) >= 3 /\ LowerText(l) = l  BY <1>1, LowText
  <2>2. NameOf(h) = l /\ Port(h) = p /\ h.lit /\ h.port = p
    BY <1>1, LiteralParts DEF NameOf, Literal
  <2>3. LowerHost(h) = Literal(l, p)  BY <1>1, LowShapes
  <2>4. Hostname(LowerHost(h)) = l /\ Port(LowerHost(h)) = p  BY <2>3, LiteralParts
  <2> HIDE DEF l, d
  <2>5. StripDefaultPort(s, LowerHost(h)) = IF p # NoPort /\ p = d THEN Bare(l) ELSE Literal(l, p)
    BY <2>3, <2>4 DEF StripDefaultPort, d
  <2>6. PortOf(s, h) = IF p = NoPort THEN d ELSE p  BY <2>2 DEF PortOf, d
  <2>7. LosesBrackets(s, h) <=> p # NoPort /\ p = d  BY <2>2 DEF LosesBrackets, d
  <2>8. StripDefaultPort(s, LowerHost(h)) = HostForm(l, PortOf(s, h), d, LosesBrackets(s, h))
    BY <2>1, <2>5, <2>6, <2>7 DEF HostForm
  <2>9. Sound(l, PortOf(s, h), d, LosesBrackets(s, h))
    <3>1. p = NoPort \/ p \in PortNumbers  OBVIOUS
    <3>2. Size(l) \in Nat  BY <2>1, TextFacts
    <3>3. Size(l) # 2 /\ ~(Size(l) < 3)  BY <2>1, <3>2
    <3> QED  BY <2>1, <2>6, <2>7, <3>1, <3>3 DEF Sound
  <2> QED  BY <2>2, <2>8, <2>9 DEF d
<1>2. ASSUME NEW n \in STRING, NEW p \in PortNumbers, h = Bare(<< n, p >>)
      PROVE  G
  <2> DEFINE m == Image(Lower, n)
  <2>0. p \in STRING /\ p \in Decimals  BY PortFacts
  <2>1. << n >> \in Texts /\ << n, p >> \in Texts  BY <2>0, TextFacts
  <2>2. m \in STRING /\ Image(Lower, p) = p  BY <2>0, LowWord
  <2>3. LowerText(<< n >>) = << m >> /\ LowerText(<< n, p >>) = << m, p >>
    BY <2>0, <2>2, LowTuples
  <2>4. NameOf(h) = << m >> /\ Port(h) = p /\ ~h.lit
    BY <1>2, <2>0, <2>3, PortedParts DEF NameOf, Bare
  <2>5. LowerHost(h) = Bare(<< m, p >>)  BY <1>2, <2>3, LowShapes
  <2>6. Hostname(LowerHost(h)) = << m >> /\ Port(LowerHost(h)) = p  BY <2>0, <2>5, PortedParts
  <2>7. /\ << m >> \in Texts /\ LowerText(<< m >>) = << m >>
        /\ Size(<< m >>) = 1 /\ << m >>[1] = m
    BY <2>1, <2>2, <2>3, LowText, TextFacts
  <2> HIDE DEF m, d
  <2>8. StripDefaultPort(s, LowerHost(h)) = IF p = d THEN Bare(<< m >>) ELSE Bare(<< m, p >>)
    BY <2>0, <2>5, <2>6, <1>0 DEF StripDefaultPort, d
  <2>9. PortOf(s, h) = p /\ ~LosesBrackets(s, h)  BY <2>0, <2>4, <1>0 DEF PortOf, LosesBrackets
  <2>10. StripDefaultPort(s, LowerHost(h)) = HostForm(<< m >>, PortOf(s, h), d, LosesBrackets(s, h))
    BY <2>7, <2>8, <2>9 DEF HostForm
  <2>11. Sound(<< m >>, PortOf(s, h), d, LosesBrackets(s, h))
    BY <2>7, <2>9 DEF Sound
  <2> QED  BY <2>4, <2>10, <2>11 DEF d
<1>3. ASSUME NEW t \in Texts, Size(t) <= 2, Size(t) = 2 => t[2] \notin Decimals, h = Bare(t)
      PROVE  G
  <2> DEFINE l == LowerText(t)
  <2>1. l \in Texts /\ Size(l) = Size(t) /\ LowerText(l) = l /\ Size(t) \in Nat
    BY LowText, TextFacts
  <2>2. Size(t) > 1 => t[Size(t)] \notin Decimals  BY <1>3, <2>1
  <2>3. NameOf(h) = l /\ Port(h) = NoPort /\ ~h.lit
    BY <1>3, <2>2, PlainParts DEF NameOf, Bare
  <2>4. Size(t) < 2  BY <1>3, <2>1, <2>3
  <2>5. LowerHost(h) = Bare(l)  BY <1>3, LowShapes
  <2>6. Port(LowerHost(h)) = NoPort  BY <2>1, <2>4, <2>5, PlainParts
  <2> HIDE DEF l, d
  <2>7. StripDefaultPort(s, LowerHost(h)) = Bare(l)  BY <2>5, <2>6 DEF StripDefaultPort
  <2>8. PortOf(s, h) = d /\ ~LosesBrackets(s, h)  BY <2>3 DEF PortOf, LosesBrackets, d
  <2>9. StripDefaultPort(s, LowerHost(h)) = HostForm(l, PortOf(s, h), d, LosesBrackets(s, h))
    BY <2>1, <2>4, <2>7, <2>8 DEF HostForm
  <2>10. Sound(l, PortOf(s, h), d, LosesBrackets(s, h))
    BY <2>1, <2>4, <2>8 DEF Sound
  <2> QED  BY <2>3, <2>9, <2>10 DEF d
<1> QED  BY <1>1, <1>2, <1>3, Shapes

\* Hosts with the same normal form lead to the same place.
LEMMA FormTells ==
  ASSUME NEW n, NEW p, NEW b, NEW m, NEW q, NEW c, NEW d, b \in BOOLEAN, c \in BOOLEAN,
         Sound(n, p, d, b), Sound(m, q, d, c), HostForm(n, p, d, b) = HostForm(m, q, d, c)
  PROVE  n = m /\ p = q /\ b = c
<1> USE DEF Literal, Bare
<1>0. /\ NoPort \notin PortNumbers /\ Size(n) \in Nat /\ Size(m) \in Nat
      /\ n \in Texts /\ m \in Texts
  <2>1. n \in Texts /\ m \in Texts  BY DEF Sound
  <2>2. Size(n) \in Nat /\ Size(m) \in Nat  BY <2>1, TextFacts
  <2>3. NoPort \notin PortNumbers  BY PortFacts
  <2> QED  BY <2>1, <2>2, <2>3
<1> DEFINE F == HostForm(n, p, d, b)   G == HostForm(m, q, d, c)
<1>1. /\ F.lit <=> ~b /\ Size(n) >= 3
      /\ b => F.text = n
      /\ Size(n) >= 3 => F.text = n
      /\ Size(n) >= 3 /\ ~b => F.port = IF p = d THEN NoPort ELSE p
      /\ Size(n) < 3 => F.text = IF p = d THEN n ELSE << n[1], p >>
  BY DEF HostForm, Sound
<1>2. /\ G.lit <=> ~c /\ Size(m) >= 3
      /\ c => G.text = m
      /\ Size(m) >= 3 => G.text = m
      /\ Size(m) >= 3 /\ ~c => G.port = IF q = d THEN NoPort ELSE q
      /\ Size(m) < 3 => G.text = IF q = d THEN m ELSE << m[1], q >>
  BY DEF HostForm, Sound
<1>3. F = G  OBVIOUS
<1> HIDE DEF F, G
<1>4. /\ Size(F.text) >= 3 <=> Size(n) >= 3
      /\ Size(n) < 3 => (Size(F.text) = 2 <=> p # d)
  <2>1. Size(<< n[1], p >>) = 2  BY TextFacts
  <2>2. CASE Size(n) >= 3  BY <1>0, <1>1, <2>2
  <2>3. CASE Size(n) < 3 /\ p = d
    <3>1. Size(F.text) = Size(n) /\ Size(n) # 2  BY <1>1, <2>3 DEF Sound
    <3> QED  BY <1>0, <2>3, <3>1
  <2>4. CASE Size(n) < 3 /\ p # d
    <3>1. Size(F.text) = 2  BY <1>1, <2>1, <2>4
    <3> QED  BY <1>0, <2>4, <3>1
  <2> QED  BY <1>0, <2>2, <2>3, <2>4
<1>5. /\ Size(G.text) >= 3 <=> Size(m) >= 3
      /\ Size(m) < 3 => (Size(G.text) = 2 <=> q # d)
  <2>1. Size(<< m[1], q >>) = 2  BY TextFacts
  <2>2. CASE Size(m) >= 3  BY <1>0, <1>2, <2>2
  <2>3. CASE Size(m) < 3 /\ q = d
    <3>1. Size(G.text) = Size(m) /\ Size(m) # 2  BY <1>2, <2>3 DEF Sound
    <3> QED  BY <1>0, <2>3, <3>1
  <2>4. CASE Size(m) < 3 /\ q # d
    <3>1. Size(G.text) = 2  BY <1>2, <2>1, <2>4
    <3> QED  BY <1>0, <2>4, <3>1
  <2> QED  BY <1>0, <2>2, <2>3, <2>4
<1>6. CASE Size(n) >= 3
  <2>1. Size(m) >= 3 /\ n = m  BY <1>1, <1>2, <1>3, <1>4, <1>5, <1>6
  <2>2. b = c  BY <1>1, <1>2, <1>3, <1>6, <2>1
  <2>3. CASE b  BY <2>1, <2>2, <2>3 DEF Sound
  <2>4. CASE ~b
    <3>1. (IF p = d THEN NoPort ELSE p) = (IF q = d THEN NoPort ELSE q)
      BY <1>1, <1>2, <1>3, <1>6, <2>1, <2>2, <2>4
    <3>2. (p # d => p # NoPort) /\ (q # d => q # NoPort)  BY <1>0 DEF Sound
    <3> QED  BY <2>1, <2>2, <3>1, <3>2
  <2> QED  BY <2>3, <2>4
<1>7. CASE Size(n) < 3
  <2>1. Size(m) < 3  BY <1>0, <1>3, <1>4, <1>5, <1>7
  <2>2. ~b /\ ~c  BY <1>0, <1>7, <2>1 DEF Sound
  <2>3. p # d <=> q # d  BY <1>3, <1>4, <1>5, <1>7, <2>1
  <2>4. CASE p = d  BY <1>1, <1>2, <1>3, <1>7, <2>1, <2>2, <2>3, <2>4
  <2>5. CASE p # d
    <3>1. << n[1], p >> = << m[1], q >>  BY <1>1, <1>2, <1>3, <1>7, <2>1, <2>3, <2>5
    <3>2. n[1] = m[1] /\ p = q  BY <3>1
    <3>3. Size(n) = 1 /\ Size(m) = 1  BY <1>7, <2>1, <2>3, <2>5 DEF Sound
    <3>4. \A i \in 1 .. Size(n) : n[i] = m[i]  BY <3>2, <3>3
    <3>5. n = m  BY <1>0, <3>3, <3>4, TextFacts
    <3> QED  BY <2>2, <3>2, <3>5
  <2> QED  BY <2>4, <2>5
<1> QED  BY <1>0, <1>6, <1>7
-----------------------------------------------------------------------------
(* The normal form of a URL, as a function of its target.                   *)

Normal(t, user, bare) ==
  [scheme |-> t.scheme, user |-> user,
   host |-> HostForm(t.name, t.port, DefaultPort(t.scheme), bare),
   path |-> t.path, fragment |-> ""]

\* The parts of a normal form.
LEMMA NormalParts ==
  ASSUME NEW t, NEW user, NEW bare
  PROVE  LET v == Normal(t, user, bare)
         IN  /\ v.scheme = t.scheme /\ v.user = user /\ v.path = t.path
             /\ v.host = HostForm(t.name, t.port, DefaultPort(t.scheme), bare)
BY DEF Normal

\* The target, in the words of the lemmas about hosts.
LEMMA TargetParts ==
  ASSUME NEW u, WellFormed(u)
  PROVE  LET s == Image(Lower, u.scheme)
         IN  /\ Target(u) = [scheme |-> s, name |-> NameOf(u.host), port |-> PortOf(s, u.host),
                             path |-> StripSlash(u.path)]
             /\ Unbracketed(u) = LosesBrackets(s, u.host)
             /\ Unbracketed(u) \in BOOLEAN
             /\ s \in STRING /\ Image(Lower, s) = s
             /\ Parses(u) <=> Size(Target(u).name) # 2
<1> DEFINE s == Image(Lower, u.scheme)
<1>1. u.scheme \in STRING /\ u.host \in HostParts /\ WellFormedHost(u.host)  BY DEF WellFormed
<1>2. s \in STRING /\ Image(Lower, s) = s  BY <1>1, LowWord
<1>3. Target(u) = [scheme |-> s, name |-> NameOf(u.host), port |-> PortOf(s, u.host),
                   path |-> StripSlash(u.path)]
  BY DEF Target, NameOf, PortOf
<1>4. Unbracketed(u) = LosesBrackets(s, u.host) /\ Unbracketed(u) \in BOOLEAN
  BY DEF Unbracketed, LosesBrackets
<1>5. Parses(u) <=> Size(NameOf(u.host)) # 2  BY <1>1, HostAccepted
<1>6. Target(u).name = NameOf(u.host)  BY <1>3
<1> QED  BY <1>2, <1>3, <1>4, <1>5, <1>6

\* NormalizeURL forgets of a URL everything but its target, its user and whether
\* it is an address with the default port.
LEMMA NormalForm ==
  ASSUME NEW u, WellFormed(u), Parses(u)
  PROVE  /\ NormalizeURL(u) = Normal(Target(u), u.user, Unbracketed(u))
         /\ Sound(Target(u).name, Target(u).port, DefaultPort(Target(u).scheme), Unbracketed(u))
<1> DEFINE s == Image(Lower, u.scheme)
           pp == StripSlash(u.path)
<1>1. u.host \in HostParts /\ WellFormedHost(u.host)  BY DEF WellFormed
<1>2. /\ Target(u) = [scheme |-> s, name |-> NameOf(u.host), port |-> PortOf(s, u.host), path |-> pp]
      /\ Unbracketed(u) = LosesBrackets(s, u.host) /\ Size(Target(u).name) # 2
  BY TargetParts
<1>3. Size(NameOf(u.host)) # 2  BY <1>2
<1>4. /\ StripDefaultPort(s, LowerHost(u.host))
           = HostForm(NameOf(u.host), PortOf(s, u.host), DefaultPort(s), LosesBrackets(s, u.host))
      /\ Sound(NameOf(u.host), PortOf(s, u.host), DefaultPort(s), LosesBrackets(s, u.host))
  BY <1>1, <1>3, HostNormal
<1>6. NormalizeURL(u) = [u EXCEPT !.scheme = s, !.host = StripDefaultPort(s, LowerHost(u.host)),
                                  !.fragment = "", !.path = pp]
  BY DEF NormalizeURL
<1>7. u = [scheme |-> u.scheme, user |-> u.user, host |-> u.host, path |-> u.path,
           fragment |-> u.fragment]
  BY DEF WellFormed
<1> HIDE DEF s, pp
<1>8. NormalizeURL(u) = [scheme |-> s, user |-> u.user, host |-> StripDefaultPort(s, LowerHost(u.host)),
                         path |-> pp, fragment |-> ""]
  BY <1>6, <1>7
<1>9. /\ Target(u).scheme = s /\ Target(u).name = NameOf(u.host)
      /\ Target(u).port = PortOf(s, u.host) /\ Target(u).path = pp
  BY <1>2
<1>10. Normal(Target(u), u.user, Unbracketed(u))
         = [scheme |-> s, user |-> u.user, host |-> StripDefaultPort(s, LowerHost(u.host)),
            path |-> pp, fragment |-> ""]
  BY <1>2, <1>4, <1>9 DEF Normal
<1>11. Sound(Target(u).name, Target(u).port, DefaultPort(Target(u).scheme), Unbracketed(u))
  BY <1>2, <1>4, <1>9
<1> QED  BY <1>8, <1>10, <1>11

\* A normal form keeps its brackets and leads where it was made from.
LEMMA FormParts ==
  ASSUME NEW s, NEW n, NEW p, Sound(n, p, DefaultPort(s), FALSE)
  PROVE  LET h == HostForm(n, p, DefaultPort(s), FALSE)
         IN  /\ h \in HostParts /\ WellFormedHost(h)
             /\ NameOf(h) = n /\ PortOf(s, h) = p /\ ~LosesBrackets(s, h)
<1> DEFINE d == DefaultPort(s)
           h == HostForm(n, p, d, FALSE)
<1>1. /\ n \in Texts /\ LowerText(n) = n /\ Size(n) # 2 /\ Size(n) \in Nat
      /\ p # d => p \in PortNumbers /\ (Size(n) < 3 => Size(n) = 1)
  BY TextFacts DEF Sound
<1>2. NoPort \notin PortNumbers /\ PortNumbers \subseteq STRING  BY PortFacts
<1> DEFINE Goal == /\ h \in HostParts /\ WellFormedHost(h)
                   /\ NameOf(h) = n /\ PortOf(s, h) = p /\ ~LosesBrackets(s, h)
<1> SUFFICES Goal  OBVIOUS
<1> HIDE DEF d
<1>3. CASE Size(n) >= 3
  <2> DEFINE q == IF p = d THEN NoPort ELSE p
  <2>1. h = Literal(n, q)  BY <1>3 DEF HostForm
  <2> HIDE DEF h
  <2>2. q \in PortNumbers \cup {NoPort} /\ q \in STRING \cup {NoPort} /\ (q # NoPort => q # d)
        /\ (IF q = NoPort THEN d ELSE q) = p
    BY <1>1, <1>2
  <2> HIDE DEF q
  <2>3. Hostname(h) = n /\ Port(h) = q  BY <2>1, LiteralParts
  <2>4. NameOf(h) = n /\ PortOf(s, h) = p  BY <1>1, <2>2, <2>3 DEF NameOf, PortOf, d
  <2>5. h.lit = TRUE /\ h.text = n /\ h.port = q  BY <2>1 DEF Literal
  <2>6. WellFormedHost(h)  BY <1>3, <2>2, <2>5 DEF WellFormedHost, Size
  <2>7. h \in HostParts  BY <1>1, <2>1, <2>2 DEF Literal, HostParts, Texts
  <2>8. ~LosesBrackets(s, h)  BY <2>2, <2>5 DEF LosesBrackets, d
  <2> QED  BY <2>4, <2>6, <2>7, <2>8
<1>4. CASE Size(n) < 3 /\ p = d
  <2>1. h = Bare(n)  BY <1>1, <1>4 DEF HostForm
  <2> HIDE DEF h
  <2>2. Size(n) <= 1  BY <1>1, <1>4
  <2>3. Hostname(h) = n /\ Port(h) = NoPort  BY <1>1, <2>1, <2>2, PlainParts
  <2>4. NameOf(h) = n /\ PortOf(s, h) = p  BY <1>1, <1>4, <2>3 DEF NameOf, PortOf, d
  <2>5. h.lit = FALSE /\ h.text = n /\ h.port = NoPort  BY <2>1 DEF Bare
  <2>6. Size(n) <= 2 /\ Size(n) # 2  BY <1>1, <2>2
  <2>7. WellFormedHost(h)  BY <2>5, <2>6 DEF WellFormedHost, Size
  <2>8. h \in HostParts  BY <1>1, <1>2, <2>1 DEF Bare, HostParts, Texts
  <2>9. ~LosesBrackets(s, h)  BY <2>5 DEF LosesBrackets
  <2> QED  BY <2>4, <2>7, <2>8, <2>9
<1>5. CASE Size(n) < 3 /\ p # d
  <2>1. h = Bare(<< n[1], p >>)  BY <1>1, <1>5 DEF HostForm
  <2> HIDE DEF h
  <2>2. Size(n) = 1 /\ n = << n[1] >> /\ p \in PortNumbers  BY <1>1, <1>5, TextFacts
  <2>3. Hostname(h) = << n[1] >> /\ Port(h) = p  BY <2>1, <2>2, PortFacts, PortedParts
  <2>4. NameOf(h) = n /\ PortOf(s, h) = p  BY <1>1, <1>2, <2>2, <2>3 DEF NameOf, PortOf
  <2>5. h.lit = FALSE /\ h.text = << n[1], p >> /\ h.port = NoPort  BY <2>1 DEF Bare
  <2>6. Size(<< n[1], p >>) = 2 /\ n[1] \in STRING
    <3>1. n[1] \in STRING  BY <1>1, <2>2 DEF Texts, Size
    <3> QED  BY <3>1, TextFacts
  <2>7. WellFormedHost(h)
    <3>1. Size(h.text) <= 2  BY <2>5, <2>6
    <3>2. h.text[2] = p  BY <2>5
    <3>3. p # ""  BY <2>2, PortFacts
    <3> QED  BY <2>5, <3>1, <3>2, <3>3 DEF WellFormedHost, Size
  <2>8. << n[1], p >> \in Texts  BY <1>2, <2>2, <2>6, TextFacts
  <2>9. h \in HostParts  BY <1>2, <2>1, <2>8 DEF Bare, HostParts, Texts
  <2>10. ~LosesBrackets(s, h)  BY <2>5 DEF LosesBrackets
  <2> QED  BY <2>4, <2>7, <2>9, <2>10
<1> HIDE DEF Goal, h
<1>6. Size(n) >= 3 \/ Size(n) < 3  BY <1>1
<1> QED  BY <1>3, <1>4, <1>5, <1>6

\* The normal form of a URL that keeps its brackets is well formed, parses, and
\* has the same target.
LEMMA NormalStays ==
  ASSUME NEW u, WellFormed(u), Parses(u), ~Unbracketed(u)
  PROVE  LET v == NormalizeURL(u)
         IN  /\ WellFormed(v) /\ Parses(v) /\ ~Unbracketed(v)
             /\ Target(v) = Target(u) /\ v.user = u.user
<1> DEFINE t == Target(u)
           v == Normal(t, u.user, FALSE)
           d == DefaultPort(t.scheme)
<1>0. Unbracketed(u) = FALSE  BY TargetParts
<1>1. NormalizeURL(u) = v  BY <1>0, NormalForm
<1>2. Sound(t.name, t.port, d, FALSE)  BY <1>0, NormalForm
<1>3. /\ t.scheme \in STRING /\ Image(Lower, t.scheme) = t.scheme
      /\ t = [scheme |-> t.scheme, name |-> t.name, port |-> t.port, path |-> t.path]
      /\ t.path = StripSlash(u.path) /\ Size(t.name) # 2
  BY TargetParts
<1>4. u.user \in BOOLEAN /\ t.path \in STRING /\ t.path # "/"
  <2>1. "" \in STRING  BY UrlNormAssumption
  <2>2. u.user \in BOOLEAN /\ u.path \in STRING  BY DEF WellFormed
  <2> QED  BY <1>3, <2>1, <2>2 DEF StripSlash
<1> HIDE DEF t
<1> DEFINE h == HostForm(t.name, t.port, d, FALSE)
<1>5. /\ h \in HostParts /\ WellFormedHost(h)
      /\ NameOf(h) = t.name /\ PortOf(t.scheme, h) = t.port /\ ~LosesBrackets(t.scheme, h)
  BY <1>2, FormParts
<1> HIDE DEF h
<1>6. v = [scheme |-> t.scheme, user |-> u.user, host |-> h, path |-> t.path, fragment |-> ""]
  BY DEF Normal, h
<1> HIDE DEF v
<1>7. /\ v.scheme = t.scheme /\ v.user = u.user /\ v.host = h /\ v.path = t.path
  BY <1>6
<1>8. WellFormed(v)
  <2>1. "" \in STRING  BY UrlNormAssumption
  <2> QED  BY <1>3, <1>4, <1>5, <1>6, <1>7, <2>1 DEF WellFormed
<1>9. /\ Target(v) = [scheme |-> t.scheme, name |-> t.name, port |-> t.port, path |-> t.path]
      /\ Unbracketed(v) = LosesBrackets(t.scheme, h)
      /\ Parses(v) <=> Size(Target(v).name) # 2
  <2>1. StripSlash(v.path) = t.path  BY <1>4, <1>7 DEF StripSlash
  <2>2. Image(Lower, v.scheme) = t.scheme  BY <1>3, <1>7
  <2>3. /\ Target(v) = [scheme |-> t.scheme, name |-> NameOf(h), port |-> PortOf(t.scheme, h),
                        path |-> StripSlash(v.path)]
        /\ Unbracketed(v) = LosesBrackets(t.scheme, h)
        /\ Parses(v) <=> Size(Target(v).name) # 2
    BY <1>7, <1>8, <2>2, TargetParts
  <2> QED  BY <1>5, <2>1, <2>3
<1>10. Target(v) = t  BY <1>3, <1>9
<1> QED  BY <1>1, <1>3, <1>5, <1>7, <1>8, <1>9, <1>10 DEF t

\* ValidateURL parses what it is given, and takes no user.
LEMMA Accepts ==
  ASSUME NEW u, Verdict(u) = "ok"
  PROVE  Parses(u) /\ Parses(NormalizeURL(u)) /\ ~NormalizeURL(u).user
         /\ ValidateURL(NormalizeURL(u)) = "ok"
<1>1. Parses(u) /\ ValidateURL(NormalizeURL(u)) = "ok"  BY DEF Verdict
<1> DEFINE v == NormalizeURL(u)
<1> HIDE DEF v
<1>2. ValidateURL(v) = "ok" => Parses(v) /\ ~v.user  BY DEF ValidateURL
<1> QED  BY <1>1, <1>2 DEF v
-----------------------------------------------------------------------------
(* The properties, of any well-formed URL.                                  *)

\* Without its brackets, an address is read as a name with one piece fewer.
LEMMA BracketsMatter ==
  ASSUME NEW u, WellFormed(u), Parses(u), Unbracketed(u), Parses(NormalizeURL(u))
  PROVE  Target(NormalizeURL(u)) # Target(u)
<1> DEFINE n == Target(u).name
           v == NormalizeURL(u)
<1>0. Unbracketed(u) = TRUE  BY TargetParts
<1>1. Sound(n, Target(u).port, DefaultPort(Target(u).scheme), TRUE) /\ v = Normal(Target(u), u.user, TRUE)
  BY <1>0, NormalForm
<1>2. n \in Texts /\ Size(n) >= 3 /\ Size(n) \in Nat  BY <1>1, TextFacts DEF Sound
<1>3. v.host = Bare(n)
  <2>1. ASSUME NEW b, b = TRUE
        PROVE  Normal(Target(u), u.user, b).host = Bare(n)
    <3>1. Normal(Target(u), u.user, b).host
            = HostForm(n, Target(u).port, DefaultPort(Target(u).scheme), b)
      BY NormalParts
    <3>2. b  BY <2>1
    <3> QED  BY <3>1, <3>2 DEF HostForm
  <2>2. Normal(Target(u), u.user, TRUE).host = Bare(n)  BY <2>1
  <2> HIDE DEF v, n
  <2> QED  BY <1>1, <2>2
<1> HIDE DEF n, v
<1>4. v.host.lit = FALSE /\ v.host.text = n  BY <1>3 DEF Bare
<1>5. HasPort(v.host)
  <2>1. v.host.lit \/ Size(v.host.text) <= 1 \/ HasPort(v.host)  BY DEF Parses, Size, v
  <2> QED  BY <1>2, <1>4, <2>1
<1> DEFINE k == SubSeq(n, 1, Size(n) - 1)
<1>6. Hostname(v.host) = k  BY <1>4, <1>5 DEF Hostname, Size
<1>7. k \in Texts /\ Size(k) = Size(n) - 1
  <2>1. Size(n) - 1 \in Nat /\ Size(n) - 1 \in 0 .. Size(n)  BY <1>2
  <2> DEFINE e == Size(n) - 1
  <2>2. ASSUME NEW t \in Seq(STRING), NEW f \in Nat, f <= Len(t)
        PROVE  SubSeq(t, 1, f) \in Seq(STRING) /\ Len(SubSeq(t, 1, f)) = f
    <3>1. Len(t) \in Nat  BY Lengths
    <3>2. \A i \in 1 .. f : i \in 1 .. Len(t)  BY <2>2, <3>1
    <3>3. Len(SubSeq(t, 1, f)) = IF 1 <= f THEN f - 1 + 1 ELSE 0
      BY <3>2, SubSeqProperties
    <3>4. SubSeq(t, 1, f) \in Seq(STRING)  BY <3>2, SubSeqProperties
    <3> QED  BY <3>3, <3>4
  <2>3. e \in Nat /\ e <= Size(n)  BY <1>2
  <2> HIDE DEF e
  <2>4. SubSeq(n, 1, e) \in Texts /\ Size(SubSeq(n, 1, e)) = e  BY <1>2, <2>2, <2>3 DEF Texts, Size
  <2> QED  BY <2>4 DEF e
<1>8. Size(Target(v).name) = Size(n) - 1
  <2>1. Target(v).name = LowerText(k)  BY <1>6 DEF Target
  <2> QED  BY <1>7, <2>1, LowText
<1>9. Size(n) - 1 # Size(n)  BY <1>2
<1>10. Target(v).name # n  BY <1>8, <1>9
<1> QED  BY <1>10 DEF n, v

\* Every accepted URL but an address with the default port is stored as a URL
\* that is its own normal form and leads to the same place.
LEMMA LeadsHome ==
  ASSUME NEW u, WellFormed(u), Verdict(u) = "ok"
  PROVE  LET v == NormalizeURL(u)
         IN  /\ Target(v) = Target(u) <=> ~Unbracketed(u)
             /\ ~Unbracketed(u) => NormalizeURL(v) = v /\ Verdict(v) = "ok"
<1> DEFINE v == NormalizeURL(u)
<1>1. Parses(u) /\ Parses(v) /\ ValidateURL(v) = "ok"  BY Accepts
<1>2. CASE Unbracketed(u)  BY <1>1, <1>2, BracketsMatter
<1>3. CASE ~Unbracketed(u)
  <2>1. /\ WellFormed(v) /\ ~Unbracketed(v) /\ Target(v) = Target(u) /\ v.user = u.user
    BY <1>1, <1>3, NormalStays
  <2>2. Unbracketed(u) = FALSE  BY <1>3, TargetParts
  <2>3. Unbracketed(v) = FALSE
    <3> HIDE DEF v
    <3> QED  BY <2>1, TargetParts
  <2>4. v = Normal(Target(u), u.user, FALSE)  BY <1>1, <2>2, NormalForm
  <2>5. NormalizeURL(v) = Normal(Target(v), v.user, FALSE)
    <3> HIDE DEF v
    <3> QED  BY <1>1, <2>1, <2>3, NormalForm
  <2>6. NormalizeURL(v) = v  BY <2>1, <2>4, <2>5
  <2>7. Verdict(v) = "ok"
    <3> HIDE DEF v
    <3> QED  BY <1>1, <2>6 DEF Verdict
  <2> QED  BY <1>3, <2>1, <2>6, <2>7
<1> QED  BY <1>2, <1>3

\* Two accepted URLs have one normal form exactly when they lead to one place and
\* either both or neither lose their brackets.
LEMMA OneSpelling ==
  ASSUME NEW u, NEW w, WellFormed(u), WellFormed(w), Verdict(u) = "ok", Verdict(w) = "ok"
  PROVE  NormalizeURL(u) = NormalizeURL(w)
           <=> Target(u) = Target(w) /\ (Unbracketed(u) <=> Unbracketed(w))
<1> DEFINE t == Target(u)   x == Target(w)   b == Unbracketed(u)   c == Unbracketed(w)
           d == DefaultPort(t.scheme)
<1>1. /\ NormalizeURL(u) = Normal(t, u.user, b) /\ Sound(t.name, t.port, d, b)
      /\ NormalizeURL(w) = Normal(x, w.user, c)
      /\ Sound(x.name, x.port, DefaultPort(x.scheme), c)
  BY Accepts, NormalForm
<1>2. /\ t = [scheme |-> t.scheme, name |-> t.name, port |-> t.port, path |-> t.path]
      /\ x = [scheme |-> x.scheme, name |-> x.name, port |-> x.port, path |-> x.path]
      /\ b \in BOOLEAN /\ c \in BOOLEAN
  BY TargetParts
<1>3. u.user = FALSE /\ w.user = FALSE
  <2>1. ~NormalizeURL(u).user /\ ~NormalizeURL(w).user  BY Accepts
  <2>2. NormalizeURL(u).user = u.user /\ NormalizeURL(w).user = w.user  BY <1>1, NormalParts
  <2>3. u.user \in BOOLEAN /\ w.user \in BOOLEAN  BY DEF WellFormed
  <2> QED  BY <2>1, <2>2, <2>3
<1> HIDE DEF t, x, b, c
<1>4. ASSUME t = x, b <=> c
      PROVE  NormalizeURL(u) = NormalizeURL(w)
  <2>1. b = c  BY <1>2, <1>4
  <2> QED  BY <1>1, <1>3, <1>4, <2>1
<1>5. ASSUME NormalizeURL(u) = NormalizeURL(w)
      PROVE  t = x /\ (b <=> c)
  <2>1. /\ t.scheme = x.scheme /\ t.path = x.path
        /\ HostForm(t.name, t.port, d, b) = HostForm(x.name, x.port, DefaultPort(x.scheme), c)
    <3> DEFINE v == Normal(t, u.user, b)   y == Normal(x, w.user, c)
    <3>1. v = y  BY <1>1, <1>5
    <3>2. v.scheme = t.scheme /\ v.path = t.path /\ v.host = HostForm(t.name, t.port, d, b)
      BY NormalParts
    <3>3. /\ y.scheme = x.scheme /\ y.path = x.path
          /\ y.host = HostForm(x.name, x.port, DefaultPort(x.scheme), c)
      BY NormalParts
    <3> HIDE DEF v, y
    <3> QED  BY <3>1, <3>2, <3>3
  <2> HIDE DEF d
  <2>2. DefaultPort(x.scheme) = d  BY <2>1 DEF d
  <2>3. t.name = x.name /\ t.port = x.port /\ b = c  BY <1>1, <1>2, <2>1, <2>2, FormTells
  <2> QED  BY <1>2, <2>1, <2>3
<1> QED  BY <1>4, <1>5 DEF t, x, b, c

\* Whether and why a URL is refused depends on its target, its user and its
\* brackets.
LEMMA Alike ==
  ASSUME NEW u, NEW w, WellFormed(u), WellFormed(w), Target(u) = Target(w), u.user = w.user,
         Unbracketed(u) <=> Unbracketed(w)
  PROVE  Verdict(u) = Verdict(w)
<1>1. Parses(u) <=> Parses(w)  BY TargetParts
<1>2. Unbracketed(u) = Unbracketed(w)  BY TargetParts
<1>3. CASE Parses(u)
  <2>1. NormalizeURL(u) = NormalizeURL(w)  BY <1>1, <1>2, <1>3, NormalForm
  <2> QED  BY <1>1, <1>3, <2>1 DEF Verdict
<1>4. CASE ~Parses(u)  BY <1>1, <1>4 DEF Verdict
<1> QED  BY <1>3, <1>4

-----------------------------------------------------------------------------
(* The theorems.                                                            *)

\* Every URL at hand is well formed.
LEMMA RawIsWellFormed == NormSpec => [](raw \in RawUrls /\ WellFormed(raw))
<1>1. \A u \in RawUrls : WellFormed(u)  BY UrlNormAssumption
<1> DEFINE I == raw \in RawUrls
<1>2. I /\ [raw' \in RawUrls]_raw => I'  OBVIOUS
<1>3. NormSpec => []I  BY <1>2, PTL DEF NormSpec
<1>4. I => raw \in RawUrls /\ WellFormed(raw)  BY <1>1
<1> QED  BY <1>3, <1>4, PTL

\* What is stored leads where the client's URL led, and is stored unchanged when
\* it is submitted again (NormalizeURL before ValidateURL, in Shorten).
THEOREM StoredLeadsHomeCorrect == NormSpec => []StoredLeadsHome
<1>1. raw \in RawUrls /\ WellFormed(raw) => StoredLeadsHome
  <2>1. ASSUME NEW u, u = raw, WellFormed(u), Verdict(u) = "ok"
        PROVE  LET v == NormalizeURL(u)
               IN  /\ Target(v) = Target(u) <=> ~Unbracketed(u)
                   /\ ~Unbracketed(u) => NormalizeURL(v) = v /\ Verdict(v) = "ok"
    BY <2>1, LeadsHome
  <2> QED  BY <2>1 DEF StoredLeadsHome
<1> QED  BY <1>1, RawIsWellFormed, PTL

\* Deduplicating by the normal form, as Shorten does, is deduplicating by target.
THEOREM OneSpellingCorrect == NormSpec => []OneSpellingPerTarget
<1>1. raw \in RawUrls /\ WellFormed(raw) => OneSpellingPerTarget
  <2> SUFFICES ASSUME raw \in RawUrls, WellFormed(raw), Verdict(raw) = "ok",
                      NEW u \in RawUrls, Verdict(u) = "ok"
               PROVE  NormalizeURL(u) = NormalizeURL(raw)
                        <=> Target(u) = Target(raw) /\ (Unbracketed(u) <=> Unbracketed(raw))
    BY DEF OneSpellingPerTarget
  <2>1. WellFormed(u)  BY UrlNormAssumption
  <2> QED  BY <2>1, OneSpelling
<1> QED  BY <1>1, RawIsWellFormed, PTL

\* ValidateURL treats all the spellings of one target alike, IPv6 addresses apart
\* that lose their brackets.
THEOREM RefusedAlikeCorrect == NormSpec => []RefusedAlike
<1>1. raw \in RawUrls /\ WellFormed(raw) => RefusedAlike
  <2> SUFFICES ASSUME raw \in RawUrls, WellFormed(raw), NEW u \in RawUrls,
                      Target(u) = Target(raw), u.user = raw.user,
                      Unbracketed(u) <=> Unbracketed(raw)
               PROVE  Verdict(u) = Verdict(raw)
    BY DEF RefusedAlike
  <2>1. WellFormed(u)  BY UrlNormAssumption
  <2> QED  BY <2>1, Alike
<1> QED  BY <1>1, RawIsWellFormed, PTL
=============================================================================
