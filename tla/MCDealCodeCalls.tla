-------------------------- MODULE MCDealCodeCalls --------------------------
(* Answers with up to two lines of the deal code, two threads that apply     *)
(* them, and calls that set and clear the code in between.                   *)
EXTENDS DealCodeCalls

SomeAnswers ==
  LET repeats == {[kind |-> "dcc", value |-> v] : v \in {<<>>, <<"a">>, <<"b">>}}
      sets == {[kind |-> "set_dcc", value |-> v] : v \in {<<"b">>, <<"a", "a">>}}
      crc == {[kind |-> "crc32", good |-> good] : good \in BOOLEAN}
      messages == UNION {[1..n -> repeats \cup sets] : n \in 0..2}
  IN  [lines : {Append(s, c) : s \in messages, c \in crc}, ended : {FALSE}]

\* Of one character, normalised or not, and too long.
SomeCodes == {<<"a">>, <<"&">>, <<"a", "a">>}
=============================================================================
