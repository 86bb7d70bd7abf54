--------------------------- MODULE MCPingResponse ---------------------------
(* Answers of up to three lines, with every kind of line: RLZs that are     *)
(* empty, too long, with a bad character or for an access point that this   *)
(* build does not support, events it does not know, codes that differ, have *)
(* a bad character, are empty, too long or contain ":".  Answers of four    *)
(* lines repeat codes and give new ones in any order.                       *)
EXTENDS PingResponse

CONSTANTS p1, p2, e1, e2, Unknown

RlzOf(point, raw) == [kind |-> "rlz", point |-> point, rlz |-> raw]

DealLines ==
  {[kind |-> "dcc", value |-> v] : v \in {<<"a">>, <<":">>, <<>>}}
  \cup {[kind |-> "set_dcc", value |-> v] :
          v \in {<<"&">>, <<"a">>, <<"a", "a">>, <<>>}}
  \cup {[kind |-> "other"]}

SomeLines ==
  {RlzOf(p1, raw) : raw \in {<<>>, <<"&">>, <<"a", "a">>}}
  \cup {RlzOf(p, <<"a">>) : p \in {p2, NoAccessPoint}}
  \cup {[kind |-> "events", events |-> es] : es \in {{e1}, {e2, Unknown}}}
  \cup {[kind |-> "stateful", events |-> {e1, Unknown}]}
  \cup DealLines \cup {[kind |-> "empty"]}

Checksum == {[kind |-> "crc32", good |-> good] : good \in BOOLEAN}

Messages(n) == UNION {[1..k -> SomeLines] : k \in 0..n}

\* No checksum, one at the end, one somewhere or two.
NoChecksum == [lines : Messages(1) \ {<<>>}, ended : BOOLEAN]
              \cup {[lines |-> <<>>, ended |-> FALSE]}
AtEnd == [lines : {Append(s, c) : s \in Messages(2), c \in Checksum}, ended : BOOLEAN]
DealAnswers ==
  [lines : {Append(s, [kind |-> "crc32", good |-> TRUE]) : s \in [1..3 -> DealLines]},
   ended : {FALSE}]
Within == [lines : {<<c>> \o s : s \in Messages(1), c \in Checksum}
                   \cup {<<x, c, y>> : x, y \in SomeLines \cup Checksum, c \in Checksum},
           ended : BOOLEAN]

\* Longer than kMaxPingResponseLength.
LongResponse ==
  [lines |-> <<[kind |-> "events", events |-> {e1}], [kind |-> "other"],
               [kind |-> "other"], [kind |-> "other"],
               [kind |-> "crc32", good |-> TRUE]>>,
   ended |-> FALSE]

\* Nothing comes after the checksum.
ServerResponse == {LongResponse} \cup NoChecksum \cup AtEnd \cup DealAnswers
AnyResponse == AtEnd \cup Within
=============================================================================
