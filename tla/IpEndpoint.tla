----------------------------- MODULE IpEndpoint -----------------------------
(***************************************************************************)
(* IP endpoints, platform/network/ip_endpoint.cc, and their socket         *)
(* addresses, tcp_socket_common.h of the three platforms.  A text is a     *)
(* sequence of words and punctuation: a word is a decimal number, a dotted *)
(* IPv4 address or a piece of an IPv6 address that has colons inside.  An  *)
(* address is the text inet_ntop() makes of it.                            *)
(*                                                                         *)
(* The inputs are the texts of endpoints as a user may write them, with a  *)
(* few mistakes: text is read by parseIpEndpoint() whenever it changes.    *)
(***************************************************************************)
EXTENDS Integers, Sequences, SequencesExt

CONSTANTS Numbers,   \* the value of each decimal number
          Dotted,    \* IPv4 addresses
          Hex,       \* IPv6 addresses, which may also be a part of one
          Mapped,    \* what begins an IPv6 address for an IPv4 one, "::ffff"
          None,      \* no value
          MaxEdits   \* bound: mistakes in a text

VARIABLES
  text,    \* what is parsed
  wrote,   \* the endpoint it is printed from, or None
  edits    \* mistakes made in it

textVars == <<text, wrote, edits>>

Pieces == Hex \cup Mapped
Words == DOMAIN Numbers \cup Dotted \cup Pieces
Punctuation == {"[", "]", ":", "%", " "}

\* Words are no punctuation, and what has colons inside is no number and has no dots; one of the
\* numbers is 0.
ASSUME EndpointAssumption ==
  /\ Numbers \in [DOMAIN Numbers -> Nat] /\ MaxEdits \in Nat
  /\ \E n \in DOMAIN Numbers : Numbers[n] = 0
  /\ None \notin DOMAIN Numbers
  /\ Words \cap Punctuation = {}
  /\ Pieces \cap (Dotted \cup DOMAIN Numbers) = {}

MaxPort == 65535
Ports == {n \in DOMAIN Numbers : Numbers[n] <= MaxPort}
Zero == CHOOSE n \in DOMAIN Numbers : Numbers[n] = 0

----------------------------------------------------------------------------
\* inet_pton() and inet_ntop(): an IPv6 text has one piece with "::", groups around
\* it, and an IPv4 address in the place of the last two groups.
Groups4 == {n \in DOMAIN Numbers : Numbers[n] <= 9999}

inet_pton4(t) == Len(t) = 1 /\ t[1] \in Dotted

inet_pton6(t) ==
  /\ Len(t) % 2 = 1
  /\ \A i \in 1 .. Len(t) : i % 2 = 0 => t[i] = ":"
  /\ \E i \in 1 .. Len(t) :
       /\ t[i] \in Pieces /\ (t[i] \in Mapped => i = 1)
       /\ \A j \in 1 .. Len(t) \ {i} :
            j % 2 = 1 => t[j] \in Groups4 \/ (j = Len(t) /\ j > i /\ t[j] \in Dotted)

makeIpEndpointV4(ip, port) == [family |-> 4, ip |-> ip, port |-> port, scope_id |-> Zero]
makeIpEndpointV6(ip, port, scope) == [family |-> 6, ip |-> ip, port |-> port, scope_id |-> scope]
isV4(ep) == ep.family = 4
isV6(ep) == ep.family = 6

ipToString(ep) ==
  ep.ip \o (IF isV6(ep) /\ ep.scope_id # Zero THEN <<"%", ep.scope_id>> ELSE <<>>)

ipPortToString(ep) ==
  IF isV4(ep) THEN ipToString(ep) \o <<":", ep.port>>
    ELSE <<"[">> \o ipToString(ep) \o <<"]", ":", ep.port>>

----------------------------------------------------------------------------
\* Parsing.

parsePort(t) == IF Len(t) = 1 /\ t[1] \in Ports THEN t[1] ELSE None
parseScopeIdNumeric(t) == IF Len(t) = 1 /\ t[1] \in DOMAIN Numbers THEN t[1] ELSE None

Before(t, i) == SubSeq(t, 1, i - 1)
After(t, i) == SubSeq(t, i + 1, Len(t))
Places(t, chars) == {i \in 1 .. Len(t) : t[i] \in chars}
First(places) == CHOOSE i \in places : \A j \in places : i <= j
Final(places) == CHOOSE i \in places : \A j \in places : j <= i

parseIpv6WithOptionalScope(t, port) ==
  LET pct   == Places(t, {"%"})
      addr  == IF pct = {} THEN t ELSE Before(t, First(pct))
      scope == IF pct = {} THEN Zero ELSE parseScopeIdNumeric(After(t, First(pct)))
  IN  IF scope = None \/ ~inet_pton6(addr) THEN None ELSE makeIpEndpointV6(addr, port, scope)

parseIpv4(t, port) == IF inet_pton4(t) THEN makeIpEndpointV4(t, port) ELSE None

\* Mutant: what follows the bracket is skipped if it is not a port.
parseBracketed_skips(t) ==
  LET rbr == Places(t, {"]"})
  IN  IF rbr = {} THEN None
        ELSE LET rest == After(t, First(rbr))
                 port == IF rest # <<>> /\ rest[1] = ":" THEN parsePort(Tail(rest)) ELSE Zero
             IN  IF port = None THEN None
                   ELSE parseIpv6WithOptionalScope(Tail(Before(t, First(rbr))), port)

\* [addr%scope]:port, or without the port.
parseBracketed(t) ==
  LET rbr == Places(t, {"]"})
  IN  IF rbr = {} THEN None
        ELSE LET inside == Tail(Before(t, First(rbr)))
                 rest   == After(t, First(rbr))
                 port   == CASE rest = <<>> -> Zero
                             [] rest # <<>> /\ rest[1] = ":" -> parsePort(Tail(rest))
                             [] OTHER -> None
             IN  IF port = None THEN None ELSE parseIpv6WithOptionalScope(inside, port)

\* The last colon may be inside a piece of an IPv6 address: no port follows it then.
parseDotted(t) ==
  LET colons == Places(t, {":"} \cup Pieces)
      port   == IF colons = {} THEN Zero
                  ELSE IF t[Final(colons)] \in Pieces THEN None ELSE parsePort(After(t, Final(colons)))
      ip     == IF colons = {} THEN t ELSE Before(t, Final(colons))
  IN  IF port = None THEN None ELSE parseIpv4(ip, port)

Trimmed(t) ==
  LET kept == {i \in 1 .. Len(t) : t[i] # " "}
  IN  IF kept = {} THEN <<>> ELSE SubSeq(t, First(kept), Final(kept))

parseIpEndpoint(untrimmed) ==
  LET t == Trimmed(untrimmed)
  IN  CASE t = <<>> -> None
        [] t # <<>> /\ t[1] = "[" -> parseBracketed(t)
        [] t # <<>> /\ t[1] # "[" /\ Places(t, Dotted) # {} -> parseDotted(t)
        [] OTHER -> parseIpv6WithOptionalScope(t, Zero)

----------------------------------------------------------------------------
\* Socket addresses.  A sockaddr_storage is zero where nothing is copied; the kernel
\* returns the address and its length.  Ports are in network order on both sides.
SockaddrLen == [in |-> 16, in6 |-> 28]

toSockaddr(ep) ==
  IF isV4(ep) THEN [family |-> "in", addr |-> ep.ip, port |-> ep.port, scope |-> Zero,
                    len |-> SockaddrLen.in]
    ELSE [family |-> "in6", addr |-> ep.ip, port |-> ep.port, scope |-> ep.scope_id,
          len |-> SockaddrLen.in6]

fromSockaddr(sa) ==
  CASE sa.family = "in" /\ sa.len >= SockaddrLen.in -> makeIpEndpointV4(sa.addr, sa.port)
    [] sa.family = "in6" /\ sa.len >= SockaddrLen.in6 ->
         makeIpEndpointV6(sa.addr, sa.port, sa.scope)
    [] OTHER -> None

\* What a stream shows of its peer, when the socket was connected to ep and it did not
\* know the peer yet; getpeername() fails for a connection that is gone.
bestEffortFillEndpoints(ep, gone) == IF gone THEN None ELSE fromSockaddr(toSockaddr(ep))

----------------------------------------------------------------------------
V4Endpoints == {makeIpEndpointV4(<<a>>, n) : a \in Dotted, n \in Ports}
V6Addresses == {<<h>> : h \in Pieces} \cup {<<h, ":", a>> : h \in Mapped, a \in Dotted}
V6Endpoints == {makeIpEndpointV6(a, n, s) : a \in V6Addresses, n \in Ports, s \in DOMAIN Numbers}
Endpoints == V4Endpoints \cup V6Endpoints

TextInit == text = <<>> /\ wrote = None /\ edits = 0

\* The log line of an accepted connection, and the address of one to be made.
PrintPeer ==
  /\ text = <<>>
  /\ \E ep \in Endpoints, gone \in BOOLEAN :
       /\ wrote' = bestEffortFillEndpoints(ep, gone)
       /\ text' = IF wrote' = None THEN <<"empty">> ELSE ipPortToString(wrote')
  /\ UNCHANGED edits

\* An address alone, for a port that is set afterwards.
PrintHost ==
  /\ text = <<>>
  /\ \E ep \in Endpoints : text' = ipToString(ep)
  /\ UNCHANGED <<wrote, edits>>

\* A character too few, too many, or a wrong one.  Bound: words stay apart, as two of them
\* would make a word of their own.
Apart(t) == \A i \in 1 .. Len(t) - 1 : t[i] \in Punctuation \/ t[i + 1] \in Punctuation

Edit ==
  /\ text # <<>> /\ edits < MaxEdits
  /\ \E i \in 1 .. Len(text), c \in Words \cup Punctuation :
       text' \in {RemoveAt(text, i), ReplaceAt(text, i, c), InsertAt(text, i, c)}
  /\ Apart(text')
  /\ wrote' = None
  /\ edits' = edits + 1

Clear == text # <<>> /\ text' = <<>> /\ wrote' = None /\ edits' = 0

TextNext == PrintPeer \/ PrintHost \/ Edit \/ Clear

----------------------------------------------------------------------------
\* The notations ip_endpoint.h lists, for an endpoint: alone when the port is 0, and
\* with a port.  (An IPv6 address that ends with an IPv4 one needs the brackets.)
Notations(ep) ==
  IF isV4(ep)
    THEN {ep.ip \o <<":", ep.port>>} \cup (IF ep.port = Zero THEN {ep.ip} ELSE {})
    ELSE LET scoped == {ep.ip \o <<"%", ep.scope_id>>}
                         \cup (IF ep.scope_id = Zero THEN {ep.ip} ELSE {})
             closed == {<<"[">> \o s \o <<"]">> : s \in scoped}
         IN  {c \o <<":", ep.port>> : c \in closed}
               \cup (IF ep.port # Zero THEN {}
                       ELSE closed \cup {s \in scoped : Places(s, Dotted) = {}})

\* A text is read as an endpoint exactly if it is one of the notations of that endpoint,
\* with blanks around it; and what is logged of a peer, as the endpoint of the peer.
ReadsWhatIsWritten ==
  text # <<>> =>
  LET ep == parseIpEndpoint(text)
  IN  /\ wrote # None => ep = wrote
      /\ ep # None => ep.port \in Ports /\ Trimmed(text) \in Notations(ep)
      /\ \A e \in Endpoints : Trimmed(text) \in Notations(e) => ep = e
=============================================================================
