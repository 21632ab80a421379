----------------------------- MODULE AddressText -----------------------------
(***************************************************************************)
(* The text of an IPv6 address (main/BridgeUtils.cpp), which InitCoapServer *)
(* hands to init_server, and what its resolution makes of it.              *)
(*                                                                         *)
(* An address is its eight blocks of 16 bits.  A text is the digits of its *)
(* eight groups; the colons between them are left out.                     *)
(***************************************************************************)
EXTENDS Integers, SequencesExt

Radix == 16
Blocks == 1..8
UINT16_MAX == 65535
BlockValues == 0..UINT16_MAX
AddressType == [Blocks -> BlockValues]

\* The digits as the loop appends them, the last one first.
DigitsBackwards[n \in BlockValues] ==
  IF n = 0 THEN <<>> ELSE <<n % Radix>> \o DigitsBackwards[n \div Radix]

\* A slip: the digits are not turned round at the end.
decToHexaBackwards(n) == DigitsBackwards[n]

\* Zero has no digit.
decToHexa(n) == Reverse(DigitsBackwards[n])

Ip6ToStr(address) == [i \in Blocks |-> decToHexa(address[i])]

\* The value of a group as its reader computes it.
GroupValue(digits) ==
  LET value[i \in 0..Len(digits)] ==
        IF i = 0 THEN 0 ELSE Radix * value[i - 1] + digits[i]
  IN value[Len(digits)]

EmptyGroups(text) == {i \in Blocks : text[i] = <<>>}

\* A text with eight groups is a valid address if none is empty, if two colons
\* stand for one block in the middle, or for the first two or the last two.
ValidText(text) ==
  \/ EmptyGroups(text) \in {{}, {1, 2}, {7, 8}}
  \/ \E i \in 2..7 : EmptyGroups(text) = {i}

\* A text that begins or ends with a single colon is no address, but there are
\* resolvers that take it for one.
MayBeRead(text) ==
  \/ ValidText(text)
  \/ EmptyGroups(text) \in {{1}, {8}}

\* What coap_resolve_address_info may find: nothing, or one address.
Resolve(text) ==
  IF MayBeRead(text) THEN {[i \in Blocks |-> GroupValue(text[i])]} ELSE {}
=============================================================================
