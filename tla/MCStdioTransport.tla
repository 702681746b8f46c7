-------------------------- MODULE MCStdioTransport --------------------------
(* Instances of StdioTransport for TLC. *)
EXTENDS StdioTransport

CONSTANTS t1, t2

MCWriters == {t1, t2}

\* An empty body, one that looks like the end of one header block and the start
\* of the next, and one whose length has two digits.
MCBodies ==
  {<<>>, Blank \o <<"key", "1", "0">>, [i \in 1 .. 11 |-> "other"]}

ShortBodies == {<<>>, Blank \o <<"1">>}

\* Another header field.
MCFields == {<<"other", "cr", "lf">>}

\* No length, an empty one, one that is no number, and one above the range.
MCMalformed ==
  {<<"other">> \o Blank, <<"key">> \o Blank, <<"key", "1", "other">> \o Blank,
   <<"key", "4", "0">> \o Blank}

None == {}
=============================================================================
