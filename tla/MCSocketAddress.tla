--------------------------- MODULE MCSocketAddress ---------------------------
EXTENDS SocketAddress

Group == << <<2, 0, 0, 1>>, <<1, 0>>, <<0>>, <<15, 15, 15, 15>>, <<5>>, <<6, 0, 6>>, <<7>>, <<8>> >>

(* The first i groups, a double colon, and the last j groups.               *)
Abbreviated(i, j) == [version |-> "IPv6", head |-> SubSeq(Group, 1, i), tail |-> SubSeq(Group, 9 - j, 8)]
Dotted(n) == [version |-> "IPv4", head |-> <<Decimal(n), Decimal(n), <<0>>, Decimal(n)>>, tail |-> <<>>]

(* The :: alone, first, last and between, of every length; and no ::.       *)
Places == {<<0, 0>>, <<0, 1>>, <<1, 0>>, <<1, 1>>, <<2, 1>>, <<2, 2>>, <<3, 2>>, <<3, 3>>, <<4, 3>>, <<7, 0>>,
           <<3, 0>>, <<5, 1>>, <<5, 2>>, <<6, 1>>, <<2, 4>>, <<8, 0>>}
SomeLiterals == {Abbreviated(x[1], x[2]) : x \in Places} \cup {Dotted(0), Dotted(137)}

(* A host name.                                                             *)
OneName == {<<OtherChar>>}

Padded(b) == [k \in 1..16 |-> IF k <= Len(b) THEN b[k] ELSE 0]
OneAddress == {[version |-> "IPv4", bytes |-> Padded(<<10, 0, 0, 1>>)]}

(* Memory that looks like an IPv6 address with another one's text.          *)
OldAddress ==
  {[version |-> "IPv6", bytes |-> [k \in 1..16 |-> 9], text |-> <<9, Dot, 9, Dot, 9, Dot, 9>>, port |-> 7]}
=============================================================================
