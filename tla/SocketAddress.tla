---------------------------- MODULE SocketAddress ----------------------------
(***************************************************************************)
(* SocketAddress objects: an IP address as bytes and, once somebody has     *)
(* asked for it, as text, with a port.  The parsers and printers are        *)
(* operators on texts, which are sequences of characters.  What the text of *)
(* a literal means comes from the numbers it is written with, not from the  *)
(* code's parsers.                                                         *)
(***************************************************************************)
EXTENDS Integers, Sequences, FiniteSets

CONSTANTS
  Objects,
  Literals,   \* addresses as they are written, see IPv4Literals and IPv6Literals
  OtherTexts, \* other texts: host names, and what is neither
  Addresses,  \* the raw addresses that callers pass
  Ports,
  Junk,       \* what memory may hold before a constructor runs
  NULL

VARIABLES
  obj,    \* _ip_version, _ip_bytes, _ip_address and _port of each object
  called, \* what became of a call by host name that used the object
  asked   \* history: what the last call on the object asked for

vars == <<obj, called, asked>>

(* Characters are the hexadecimal digits 0 to 15 and these.                *)
Dot == 16
Colon == 17
OtherChar == 18
Char == 0..18

NSAPI_IPv4_BYTES == 4
NSAPI_IPv6_BYTES == 16
Bytes(version) ==
  CASE version = "IPv4" -> NSAPI_IPv4_BYTES
    [] version = "IPv6" -> NSAPI_IPv6_BYTES
    [] OTHER -> 0

(* The address an object stands for.                                       *)
Meaning(a) == [version |-> a.version, bytes |-> [k \in 1..Bytes(a.version) |-> a.bytes[k]]]

(* The bytes of eight numbers, high byte first.                            *)
FlippedBytes(shorts) ==
  [k \in 1..NSAPI_IPv6_BYTES |->
     IF k % 2 = 1 THEN shorts[(k + 1) \div 2] \div 256 ELSE shorts[k \div 2] % 256]

-----------------------------------------------------------------------------
(* How addresses are written.  A literal is four decimal numbers, or eight  *)
(* hexadecimal ones of which a :: may stand for some zeros: head and tail   *)
(* are the numerals before and after it.                                   *)

Numerals(base, most) == {d \in Seq(0..base - 1) : Len(d) \in 1..most}
Numeral(d, base) ==
  LET digit(k) == IF k < Len(d) THEN d[Len(d) - k] ELSE 0
  IN digit(0) + base * digit(1) + base * base * digit(2) + base * base * base * digit(3)

IPv4Literals ==
  [version : {"IPv4"},
   head : {h \in Seq(Numerals(10, 3)) : Len(h) = 4 /\ \A k \in 1..4 : Numeral(h[k], 10) < 256},
   tail : {<<>>}]
IPv6Literals ==
  {l \in [version : {"IPv6"}, head : Seq(Numerals(16, 4)), tail : Seq(Numerals(16, 4))] :
     Len(l.head) + Len(l.tail) < 8 \/ (Len(l.head) = 8 /\ Len(l.tail) = 0)}

(* The parts with a separator between them.                                *)
Joined(parts, sep) ==
  LET joined[n \in 0..Len(parts)] ==
        IF n = 0 THEN <<>>
        ELSE IF n = 1 THEN parts[1] ELSE joined[n - 1] \o <<sep>> \o parts[n]
  IN joined[Len(parts)]

Text(l) ==
  IF l.version = "IPv4" THEN Joined(l.head, Dot)
  ELSE IF Len(l.head) = 8 THEN Joined(l.head, Colon)
  ELSE Joined(l.head, Colon) \o <<Colon, Colon>> \o Joined(l.tail, Colon)

Means(l) ==
  [version |-> l.version,
   bytes |->
     IF l.version = "IPv4" THEN [k \in 1..4 |-> Numeral(l.head[k], 10)]
     ELSE FlippedBytes(
            [k \in 1..8 |->
               IF k <= Len(l.head) THEN Numeral(l.head[k], 16)
               ELSE IF k > 8 - Len(l.tail) THEN Numeral(l.tail[k - (8 - Len(l.tail))], 16)
               ELSE 0])]

ASSUME LiteralsAssumption == Literals \subseteq IPv4Literals \cup IPv6Literals

ASSUME InputsAssumption ==
  /\ OtherTexts \subseteq Seq(Char)
  /\ \A raw \in Addresses : raw.bytes \in [1..NSAPI_IPv6_BYTES -> 0..255]
  /\ \A a \in Junk : /\ a = [version |-> a.version, bytes |-> a.bytes, text |-> a.text, port |-> a.port]
                     /\ a.bytes \in [1..NSAPI_IPv6_BYTES -> 0..255]
                     /\ a.text \in Seq(Char)
  /\ NULL \notin Literals \cup Seq(Char)

-----------------------------------------------------------------------------
(* Parsing.                                                                *)

ipv4_is_valid(t) ==
  /\ \A i \in DOMAIN t : t[i] \in 0..9 \cup {Dot}
  /\ t # <<>> => t[Len(t)] # Dot

ipv6_is_valid(t) == \A i \in DOMAIN t : t[i] \in 0..15 \cup {Colon}

(* How many digits there are from i on, and their value cut to fit.        *)
Digits(t, i, base) ==
  CHOOSE n \in 0..Len(t) : /\ \A k \in 0..n - 1 : i + k <= Len(t) /\ t[i + k] < base
                           /\ i + n <= Len(t) => t[i + n] >= base
sscanf(t, i, base, values) ==
  LET value[n \in 0..Digits(t, i, base)] ==
        IF n = 0 THEN 0 ELSE value[n - 1] * base + t[i + n - 1]
  IN value[Digits(t, i, base)] % values

(* The scanning loops look for a number at the start of the text and after  *)
(* each separator.  They stop where there is none, after max numbers, or    *)
(* at the end of the text: Scanned are the numbers they get to.            *)
Starts(t, sep) == {1} \cup {i + 1 : i \in {j \in 1..Len(t) : t[j] = sep}}
Place(starts, i) == Cardinality({j \in starts : j <= i})
Start(t, sep, k) ==
  LET starts == Starts(t, sep) IN CHOOSE i \in starts : Place(starts, i) = k

Scanned(t, sep, base, max) ==
  LET starts == Starts(t, sep)
  IN {k \in 1..max : \A m \in 1..k : \E i \in starts :
                       Place(starts, i) = m /\ i <= Len(t) /\ t[i] < base}

(* bytes and shorts keep what they held where nothing was scanned.         *)
ipv4_from_address(bytes, t) ==
  LET scanned == Scanned(t, Dot, 10, NSAPI_IPv4_BYTES)
  IN [k \in DOMAIN bytes |-> IF k \in scanned THEN sscanf(t, Start(t, Dot, k), 10, 256) ELSE bytes[k]]

ipv6_scan_chunk(shorts, t) ==
  LET scanned == Scanned(t, Colon, 16, 8)
  IN [count |-> Cardinality(scanned),
      shorts |-> [k \in 1..8 |-> IF k \in scanned THEN sscanf(t, Start(t, Colon, k), 16, 65536)
                                 ELSE shorts[k]]]

(* memmove copies: the groups stay where they were as well.                *)
move_suffix_low(s) == s.shorts
move_suffix(s) ==
  [k \in 1..8 |-> s.shorts[IF k > 8 - s.count THEN k - (8 - s.count) ELSE k]]

DoubleColons(t) == {i \in 1..Len(t) - 1 : t[i] = Colon /\ t[i + 1] = Colon}

ipv6_from_address(t) ==
  LET zeroed == [k \in 1..8 |-> 0]
      at == CHOOSE i \in DoubleColons(t) : \A j \in DoubleColons(t) : i <= j
      suffix == IF DoubleColons(t) = {} THEN [count |-> 0, shorts |-> zeroed]
                ELSE ipv6_scan_chunk(zeroed, SubSeq(t, at + 2, Len(t)))
  IN FlippedBytes(ipv6_scan_chunk(move_suffix(suffix), t).shorts)

-----------------------------------------------------------------------------
(* Printing.                                                               *)

Decimal(n) == IF n < 10 THEN <<n>>
              ELSE IF n < 100 THEN <<n \div 10, n % 10>>
              ELSE <<n \div 100, (n \div 10) % 10, n % 10>>

ipv4_to_address(bytes) == Joined([k \in 1..4 |-> Decimal(bytes[k])], Dot)

(* Eight groups of four digits; the last colon is overwritten by the end.  *)
TwoBytes(high, low) == <<high \div 16, high % 16, low \div 16, low % 16>>
ipv6_to_address(bytes) == Joined([k \in 1..8 |-> TwoBytes(bytes[2 * k - 1], bytes[2 * k])], Colon)

-----------------------------------------------------------------------------
(* The methods, as operators on an object.                                 *)

ClearIPv4(bytes) == [k \in DOMAIN bytes |-> IF k <= NSAPI_IPv4_BYTES THEN 0 ELSE bytes[k]]

(* t is NULL or a text.  The cached text is dropped.                       *)
dropped_text_kept(a) == a.text
dropped_text(a) == <<>>

set_ip_address(a, t) ==
  [a EXCEPT !.text = dropped_text(a),
            !.version = IF t # NULL /\ ~ipv4_is_valid(t) /\ ipv6_is_valid(t)
                        THEN "IPv6" ELSE "IPv4",
            !.bytes = IF t = NULL THEN ClearIPv4(@)
                      ELSE IF ipv4_is_valid(t) THEN ipv4_from_address(@, t)
                      ELSE IF ipv6_is_valid(t) THEN ipv6_from_address(t)
                      ELSE ClearIPv4(@)]

(* It is the object's own version that decides, not the one passed.        *)
set_ip_bytes(a, raw) ==
  [a EXCEPT !.text = dropped_text(a),
            !.version = IF @ = "IPv6" THEN "IPv6" ELSE "IPv4",
            !.bytes =
              IF a.version \notin {"IPv4", "IPv6"} THEN ClearIPv4(@)
              ELSE [k \in DOMAIN @ |-> IF k <= Bytes(a.version) THEN raw.bytes[k] ELSE @[k]]]

set_port(a, p) == [a EXCEPT !.port = p]

get_ip_address(a) ==
  [a EXCEPT !.text = IF @ # <<>> THEN @
                     ELSE CASE a.version = "IPv4" -> ipv4_to_address(a.bytes)
                            [] a.version = "IPv6" -> ipv6_to_address(a.bytes)
                            [] OTHER -> @]

(* operator bool.                                                          *)
NonZero(a) == \E k \in 1..Bytes(a.version) : a.bytes[k] # 0

(* dnsQuery's answer is a text, or NULL when it fails.                     *)
gethostbyname(a, answer) == IF answer = NULL THEN a ELSE set_ip_address(a, answer)

no_address_kept(a) == [a EXCEPT !.version = "IPv4", !.port = 0]
no_address(a) == [a EXCEPT !.version = "IPv4", !.bytes = ClearIPv4(@), !.port = 0]

(* The constructor with a host name, on memory that holds a.               *)
NeedsDNS(host) == ~ipv4_is_valid(host) /\ ~ipv6_is_valid(host)
FromHost(a, host, p, answer) ==
  IF ipv4_is_valid(host)
  THEN [a EXCEPT !.version = "IPv4", !.bytes = ipv4_from_address(@, host)]
  ELSE IF ipv6_is_valid(host)
  THEN [a EXCEPT !.version = "IPv6", !.bytes = ipv4_from_address(@, host)]
  ELSE IF answer # NULL THEN set_port(gethostbyname(a, answer), p)
  ELSE no_address(a)

-----------------------------------------------------------------------------
(* The calls an application makes on objects.                              *)

LiteralInputs == {[text |-> Text(l), literal |-> l] : l \in Literals}
OtherInputs == {[text |-> t, literal |-> NULL] : t \in OtherTexts}
NoText == [text |-> NULL, literal |-> NULL]
Texts == LiteralInputs \cup OtherInputs

Init ==
  /\ obj \in [Objects -> Junk]
  /\ called = [o \in Objects |-> "no"]
  /\ asked = [o \in Objects |-> [by |-> "nobody", literal |-> NULL, port |-> 0]]

Constructed == {o \in Objects : asked[o].by # "nobody"}

Becomes(o, a, by, literal, port) ==
  /\ obj' = [obj EXCEPT ![o] = a]
  /\ asked' = [asked EXCEPT ![o] = [by |-> by, literal |-> literal, port |-> port]]

NoCall(o) == called' = [called EXCEPT ![o] = "no"]

text_constructor ==
  \E o \in Objects, a \in Junk, in \in Texts \cup {NoText}, p \in Ports :
    /\ Becomes(o, set_port(set_ip_address(a, in.text), p), "text", in.literal, p)
    /\ NoCall(o)

bytes_constructor ==
  \E o \in Objects, a \in Junk, raw \in Addresses, p \in Ports :
    /\ Becomes(o, set_port(set_ip_bytes(a, raw), p), "bytes", NULL, p)
    /\ NoCall(o)

(* The copy may take the place of the object it was made from.              *)
copy_constructor ==
  \E o \in Objects, a \in Junk, from \in Constructed :
    /\ Becomes(o, set_port(set_ip_bytes(a, obj[from]), obj[from].port), "bytes", NULL, obj[from].port)
    /\ NoCall(o)

(* connect and sendto with a host name build an address and pass it on to   *)
(* the stack unless it is zero.                                            *)
PassedOn(made) == IF NonZero(made) THEN "stack" ELSE "DNS_FAILURE"

connect_host ==
  \E o \in Objects, a \in Junk, host \in Texts, p \in Ports :
    \E answer \in IF NeedsDNS(host.text) THEN LiteralInputs \cup {NoText} ELSE {NoText} :
      LET made == FromHost(a, host.text, p, answer.text) IN
      /\ IF NeedsDNS(host.text)
         THEN Becomes(o, made, "dns", answer.literal, IF answer = NoText THEN 0 ELSE p)
         ELSE Becomes(o, made, "literal", host.literal, p)
      /\ called' = [called EXCEPT ![o] = PassedOn(made)]

ChangeAddress ==
  \E o \in Constructed :
    /\ \/ \E in \in Texts \cup {NoText} :
            Becomes(o, set_ip_address(obj[o], in.text), "text", in.literal, asked[o].port)
       \/ \E raw \in Addresses :
            Becomes(o, set_ip_bytes(obj[o], raw), "bytes", NULL, asked[o].port)
    /\ NoCall(o)

ChangePort ==
  \E o \in Constructed, p \in Ports :
    /\ obj' = [obj EXCEPT ![o] = set_port(@, p)]
    /\ asked' = [asked EXCEPT ![o].port = p]
    /\ NoCall(o)

Read ==
  \E o \in Constructed :
    /\ obj' = [obj EXCEPT ![o] = get_ip_address(@)]
    /\ UNCHANGED <<called, asked>>

Next ==
  \/ text_constructor \/ bytes_constructor \/ copy_constructor \/ connect_host
  \/ ChangeAddress \/ ChangePort \/ Read

Spec == Init /\ [][Next]_vars

-----------------------------------------------------------------------------
(* Properties.                                                             *)

(* Abbreviated literals with more groups after the :: than before it.      *)
Lopsided(l) == Len(l.tail) > Len(l.head)

(* A text of an address gives that address, with nothing left of what the   *)
(* object or its memory held before, for every place and length of the ::   *)
(* but those with more groups after it (set_ip_address).                    *)
TextGivesItsAddress ==
  \A o \in Objects :
    (asked[o].by = "text" /\ asked[o].literal # NULL /\ ~Lopsided(asked[o].literal))
      => Meaning(obj[o]) = Means(asked[o].literal)

LookupFailed(o) == asked[o].by = "dns" /\ asked[o].literal = NULL

(* The cached text is never that of an earlier address, and parsing it gives *)
(* the object's address back; connect and sendto of the stack depend on it.  *)
(* A host that is a literal, or whose lookup fails, leaves the text          *)
(* uninitialised: those objects are left out.                                *)
CachedTextIsCurrent ==
  \A o \in Constructed :
    (obj[o].text # <<>> /\ asked[o].by # "literal" /\ ~LookupFailed(o))
      => Meaning(set_ip_address(obj[o], obj[o].text)) = Meaning(obj[o])

(* A name that was looked up reaches the stack with the answer's address and *)
(* the caller's port, and a lookup that failed, or found the zero address,   *)
(* never does, whatever the memory held (the constructor with a host).       *)
LookupReachesTheStack ==
  \A o \in Objects :
    (asked[o].by = "dns" /\ (asked[o].literal # NULL => ~Lopsided(asked[o].literal))) =>
      /\ obj[o].port = asked[o].port
      /\ IF LookupFailed(o) THEN called[o] # "stack" /\ ~NonZero(obj[o])
         ELSE /\ Meaning(obj[o]) = Means(asked[o].literal)
              /\ called[o] = "stack" => NonZero(obj[o])
              /\ called[o] = "DNS_FAILURE" => ~NonZero(obj[o])

(* The comment "Move suffix to end" in ipv6_from_address: the groups after   *)
(* the :: end up at the end only, so that every text gives its address.      *)
SuffixMovesToTheEnd ==
  \A o \in Objects :
    (asked[o].by = "text" /\ asked[o].literal # NULL)
      => Meaning(obj[o]) = Means(asked[o].literal)
=============================================================================
