------------------------------ MODULE MCStartup ------------------------------
(* A start-up for TLC: an interface that is down, has too few addresses or    *)
(* three, of which the third is one of several; an object with a resource of  *)
(* every kind.                                                                *)
EXTENDS Startup

CONSTANTS p1, p2

\* Third addresses with one zero block, with two apart, and with a zero block
\* at the end.
OneZero == <<64787, 5110, 0, 1, 55485, 38515, 55757, 42338>>
TwoZeros == <<64787, 5110, 0, 1, 0, 255, 65024, 4096>>
LastZero == <<64787, 5110, 1, 1, 2, 255, 65024, 0>>

Short == <<TwoZeros, OneZero>>

MCNets ==
  {[up |-> FALSE, ip6 |-> <<>>], [up |-> TRUE, ip6 |-> Short]}
    \cup [up : {TRUE},
          ip6 : {Append(Short, a) : a \in {OneZero, TwoZeros, LastZero}}]

MCObjectFiles ==
  {<<[id |-> 1, operations |-> {"R"}], [id |-> 2, operations |-> {"R", "W"}],
     [id |-> 3, operations |-> {"W"}], [id |-> 4, operations |-> {"E"}],
     [id |-> 5, operations |-> {}]>>}
=============================================================================
