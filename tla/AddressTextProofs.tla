--------------------------- MODULE AddressTextProofs ---------------------------
(***************************************************************************)
(* Proofs about the text of an IPv6 address (main/BridgeUtils.cpp): a      *)
(* reader who takes the text for an address takes it for the one it was    *)
(* made from, the digits left out for zero blocks included.                *)
(***************************************************************************)
EXTENDS AddressText, SequenceTheorems, TLAPS

\* The digits of a block, the last one first, if its quotients are a, b and c:
\* four at most.
DigitsWith(n, a, b, c) ==
  IF n = 0 THEN <<>>
  ELSE IF a = 0 THEN <<n % 16>>
  ELSE IF b = 0 THEN <<n % 16, a % 16>>
  ELSE IF c = 0 THEN <<n % 16, a % 16, b % 16>>
  ELSE <<n % 16, a % 16, b % 16, c % 16>>

Digits4(n) ==
  DigitsWith(n, n \div 16, (n \div 16) \div 16, ((n \div 16) \div 16) \div 16)

LEMMA DivModUnique ==
  ASSUME NEW n \in Nat, NEW q \in Nat, NEW r \in 0..15, n = 16 * q + r
  PROVE  n \div 16 = q /\ n % 16 = r
OBVIOUS

LEMMA DivMod ==
  ASSUME NEW n \in Nat
  PROVE  \E q \in Nat, r \in 0..15 :
           n = 16 * q + r /\ n \div 16 = q /\ n % 16 = r
<1>1. n \div 16 \in Nat /\ 16 * (n \div 16) <= n /\ n < 16 * (n \div 16) + 16
  OBVIOUS
<1>2. PICK q \in Nat : 16 * q <= n /\ n < 16 * q + 16
  BY <1>1
<1>3. PICK r \in 0..15 : n = 16 * q + r
  BY <1>2
<1>4. n \div 16 = q /\ n % 16 = r
  BY <1>3, DivModUnique
<1> QED
  BY <1>3, <1>4

LEMMA FourRounds ==
  ASSUME NEW n \in BlockValues
  PROVE  \E a, b, c \in BlockValues, i, j, k, l \in 0..15 :
           /\ n \div 16 = a /\ n % 16 = i /\ n = 16 * a + i
           /\ a \div 16 = b /\ a % 16 = j /\ a = 16 * b + j
           /\ b \div 16 = c /\ b % 16 = k /\ b = 16 * c + k
           /\ c \div 16 = 0 /\ c % 16 = l /\ c = l
<1>1. n \in Nat /\ n <= UINT16_MAX /\ UINT16_MAX = 65535
  BY DEF BlockValues, UINT16_MAX
<1>2. PICK a \in Nat, i \in 0..15 : n = 16 * a + i /\ n \div 16 = a /\ n % 16 = i
  BY <1>1, DivMod
<1>3. PICK b \in Nat, j \in 0..15 : a = 16 * b + j /\ a \div 16 = b /\ a % 16 = j
  BY <1>2, DivMod
<1>4. PICK c \in Nat, k \in 0..15 : b = 16 * c + k /\ b \div 16 = c /\ b % 16 = k
  BY <1>3, DivMod
<1>5. c \in 0..15 /\ c = 16 * 0 + c
  BY <1>1, <1>2, <1>3, <1>4
<1>6. c \div 16 = 0 /\ c % 16 = c
  BY <1>5, DivModUnique
<1>7. a \in BlockValues /\ b \in BlockValues /\ c \in BlockValues
  <2>1. a <= UINT16_MAX /\ b <= UINT16_MAX /\ c <= UINT16_MAX
    BY <1>1, <1>2, <1>3, <1>4
  <2>2. UINT16_MAX \in Nat
    BY <1>1
  <2> QED
    BY <2>1, <2>2 DEF BlockValues
<1> QED
  BY <1>2, <1>3, <1>4, <1>5, <1>6, <1>7

\* The loop of decToHexa, one round of it.
LEMMA DigitsStep ==
  ASSUME NEW n \in BlockValues, n # 0
  PROVE  n \div 16 \in BlockValues
         /\ Digits4(n) = <<n % 16>> \o Digits4(n \div 16)
<1>1. PICK a \in BlockValues, b \in BlockValues, c \in BlockValues,
           i \in 0..15, j \in 0..15, k \in 0..15, l \in 0..15 :
        /\ n \div 16 = a /\ n % 16 = i /\ n = 16 * a + i
        /\ a \div 16 = b /\ a % 16 = j /\ a = 16 * b + j
        /\ b \div 16 = c /\ b % 16 = k /\ b = 16 * c + k
        /\ c \div 16 = 0 /\ c % 16 = l /\ c = l
  BY FourRounds
<1>2. Digits4(n) = DigitsWith(n, a, b, c) /\ Digits4(a) = DigitsWith(a, b, c, 0)
  BY <1>1 DEF Digits4
<1>3. DigitsWith(n, a, b, c) = <<n % 16>> \o DigitsWith(a, b, c, 0)
  <2>1. CASE a = 0
    BY <2>1 DEF DigitsWith
  <2>2. CASE a # 0 /\ b = 0
    BY <2>2 DEF DigitsWith
  <2>3. CASE a # 0 /\ b # 0 /\ c = 0
    BY <2>3 DEF DigitsWith
  <2>4. CASE a # 0 /\ b # 0 /\ c # 0
    BY <2>4 DEF DigitsWith
  <2> QED
    BY <2>1, <2>2, <2>3, <2>4
<1> QED
  BY <1>1, <1>2, <1>3

\* The recursive function is the one that yields these digits.
LEMMA DigitsBackwardsIs ==
  ASSUME NEW n \in BlockValues
  PROVE  DigitsBackwards[n] = IF n = 0 THEN <<>>
                              ELSE <<n % 16>> \o DigitsBackwards[n \div 16]
<1> DEFINE Round(f) == [m \in BlockValues |->
                         IF m = 0 THEN <<>>
                         ELSE <<m % Radix>> \o f[m \div Radix]]
           digits == [m \in BlockValues |-> Digits4(m)]
<1>1. digits = Round(digits)
  <2>1. ASSUME NEW m \in BlockValues
        PROVE  Digits4(m) = IF m = 0 THEN <<>>
                             ELSE <<m % Radix>> \o digits[m \div Radix]
    <3>1. m = 0 => Digits4(m) = <<>>
      BY DEF Digits4, DigitsWith
    <3> QED
      BY <3>1, DigitsStep DEF Radix
  <2> QED
    BY <2>1
<1>2. DigitsBackwards = Round(DigitsBackwards)
  <2>1. \E f : f = Round(f)
    BY <1>1
  <2>2. DigitsBackwards = CHOOSE f : f = Round(f)
    BY DEF DigitsBackwards
  <2> QED
    BY <2>1, <2>2
<1> QED
  BY <1>2 DEF Radix

\* The value of at most four digits, written out.
First(d) == Radix * 0 + d[1]
Second(d) == Radix * First(d) + d[2]
Third(d) == Radix * Second(d) + d[3]
Fourth(d) == Radix * Third(d) + d[4]

LEMMA GroupValueIs ==
  ASSUME NEW d, Len(d) \in {0, 1, 2, 3, 4}
  PROVE  /\ Len(d) = 0 => GroupValue(d) = 0
         /\ Len(d) = 1 => GroupValue(d) = First(d)
         /\ Len(d) = 2 => GroupValue(d) = Second(d)
         /\ Len(d) = 3 => GroupValue(d) = Third(d)
         /\ Len(d) = 4 => GroupValue(d) = Fourth(d)
<1> DEFINE Reading(v) == [i \in 0..Len(d) |->
                           IF i = 0 THEN 0 ELSE Radix * v[i - 1] + d[i]]
           written == [i \in 0..Len(d) |->
                        IF i = 0 THEN 0 ELSE IF i = 1 THEN First(d)
                        ELSE IF i = 2 THEN Second(d)
                        ELSE IF i = 3 THEN Third(d) ELSE Fourth(d)]
           value == CHOOSE v : v = Reading(v)
<1>1. GroupValue(d) = value[Len(d)]
  BY DEF GroupValue
<1>2. written = Reading(written)
  <2>1. ASSUME NEW i \in 0..Len(d)
        PROVE  written[i] = IF i = 0 THEN 0 ELSE Radix * written[i - 1] + d[i]
    <3>1. CASE i = 0
      BY <3>1
    <3>2. CASE i = 1
      BY <3>2 DEF First
    <3>3. CASE i = 2
      BY <3>3 DEF Second
    <3>4. CASE i = 3
      BY <3>4 DEF Third
    <3>5. CASE i = 4
      BY <3>5 DEF Fourth
    <3> QED
      BY <3>1, <3>2, <3>3, <3>4, <3>5
  <2> QED
    BY <2>1
<1>3. value = Reading(value)
  BY <1>2
<1> HIDE DEF value
<1>4. value[0] = 0 /\ \A i \in 0..Len(d) : i # 0 => value[i] = Radix * value[i - 1] + d[i]
  BY <1>3
<1>5. CASE Len(d) = 0
  BY <1>1, <1>4, <1>5
<1>6. CASE Len(d) = 1
  BY <1>1, <1>4, <1>6 DEF First
<1>7. CASE Len(d) = 2
  BY <1>1, <1>4, <1>7 DEF First, Second
<1>8. CASE Len(d) = 3
  BY <1>1, <1>4, <1>8 DEF First, Second, Third
<1>9. CASE Len(d) = 4
  BY <1>1, <1>4, <1>9 DEF First, Second, Third, Fourth
<1> QED
  BY <1>5, <1>6, <1>7, <1>8, <1>9

\* One element put before a sequence, element by element.
LEMMA PutOneBefore ==
  ASSUME NEW S, NEW i \in S, NEW s \in Seq(S)
  PROVE  /\ <<i>> \o s \in Seq(S)
         /\ Len(<<i>> \o s) = Len(s) + 1
         /\ (<<i>> \o s)[1] = i
         /\ \A x \in 1..Len(s) : (<<i>> \o s)[x + 1] = s[x]
<1>1. <<i>> \in Seq(S) /\ Len(<<i>>) = 1 /\ <<i>>[1] = i
  OBVIOUS
<1>2. Len(s) \in Nat
  OBVIOUS
<1> QED
  BY <1>1, <1>2, ConcatProperties

Put(i, s) == <<i>> \o s

LEMMA PutBeforeNone ==
  ASSUME NEW i \in 0..15
  PROVE  Put(i, <<>>) = <<i>>
BY DEF Put

LEMMA PutBeforeOne ==
  ASSUME NEW i \in 0..15, NEW j \in 0..15
  PROVE  Put(i, <<j>>) = <<i, j>>
<1> DEFINE D == 0..15
<1>1. i \in D /\ j \in D
  OBVIOUS
<1> HIDE DEF D
<1>2. /\ <<j>> \in Seq(D) /\ Len(<<j>>) = 1
      /\ <<j>>[1] = j
  BY <1>1
<1>3. PICK t : t = <<i>> \o <<j>>
  OBVIOUS
<1>4. t \in Seq(D) /\ Len(t) = 2 /\ t[1] = i /\ t[2] = j
  BY <1>1, <1>2, <1>3, PutOneBefore
<1>5. t = <<i, j>>
  BY <1>4
<1> QED
  BY <1>3, <1>5 DEF Put

LEMMA PutBeforeTwo ==
  ASSUME NEW i \in 0..15, NEW j \in 0..15, NEW k \in 0..15
  PROVE  Put(i, <<j, k>>) = <<i, j, k>>
<1> DEFINE D == 0..15
<1>1. i \in D /\ j \in D /\ k \in D
  OBVIOUS
<1> HIDE DEF D
<1>2. /\ <<j, k>> \in Seq(D) /\ Len(<<j, k>>) = 2
      /\ <<j, k>>[1] = j /\ <<j, k>>[2] = k
  BY <1>1
<1>3. PICK t : t = <<i>> \o <<j, k>>
  OBVIOUS
<1>4. t \in Seq(D) /\ Len(t) = 3 /\ t[1] = i /\ t[2] = j /\ t[3] = k
  BY <1>1, <1>2, <1>3, PutOneBefore
<1>5. t = <<i, j, k>>
  BY <1>4
<1> QED
  BY <1>3, <1>5 DEF Put

LEMMA PutBeforeThree ==
  ASSUME NEW i \in 0..15, NEW j \in 0..15, NEW k \in 0..15, NEW l \in 0..15
  PROVE  Put(i, <<j, k, l>>) = <<i, j, k, l>>
<1> DEFINE D == 0..15
<1>1. i \in D /\ j \in D /\ k \in D /\ l \in D
  OBVIOUS
<1> HIDE DEF D
<1>2. /\ <<j, k, l>> \in Seq(D) /\ Len(<<j, k, l>>) = 3
      /\ <<j, k, l>>[1] = j /\ <<j, k, l>>[2] = k /\ <<j, k, l>>[3] = l
  BY <1>1
<1>3. PICK t : t = <<i>> \o <<j, k, l>>
  OBVIOUS
<1>4. t \in Seq(D) /\ Len(t) = 4 /\ t[1] = i /\ t[2] = j /\ t[3] = k /\ t[4] = l
  BY <1>1, <1>2, <1>3, PutOneBefore
<1>5. t = <<i, j, k, l>>
  BY <1>4
<1> QED
  BY <1>3, <1>5 DEF Put

\* The reader gets back the block whose digits decToHexa wrote, an empty group
\* for zero included.
LEMMA ReadBack ==
  ASSUME NEW n \in BlockValues
  PROVE  GroupValue(decToHexa(n)) = n
<1>1. PICK a \in BlockValues, b \in BlockValues, c \in BlockValues,
           i \in 0..15, j \in 0..15, k \in 0..15, l \in 0..15 :
        /\ n \div 16 = a /\ n % 16 = i /\ n = 16 * a + i
        /\ a \div 16 = b /\ a % 16 = j /\ a = 16 * b + j
        /\ b \div 16 = c /\ b % 16 = k /\ b = 16 * c + k
        /\ c \div 16 = 0 /\ c % 16 = l /\ c = l
  BY FourRounds
<1>2. DigitsBackwards[n] = DigitsWith(n, a, b, c)
  <2>0. UINT16_MAX \in Nat
    BY DEF UINT16_MAX
  <2>1. 0 \in BlockValues
    BY <2>0 DEF BlockValues
  <2>2. DigitsBackwards[0] = <<>>
    BY <2>1, DigitsBackwardsIs
  <2>3. DigitsBackwards[c] = IF c = 0 THEN <<>> ELSE Put(l, <<>>)
    BY <1>1, <2>2, DigitsBackwardsIs DEF Put
  <2>4. DigitsBackwards[b] = IF b = 0 THEN <<>> ELSE Put(k, DigitsBackwards[c])
    BY <1>1, DigitsBackwardsIs DEF Put
  <2>5. DigitsBackwards[a] = IF a = 0 THEN <<>> ELSE Put(j, DigitsBackwards[b])
    BY <1>1, DigitsBackwardsIs DEF Put
  <2>6. DigitsBackwards[n] = IF n = 0 THEN <<>> ELSE Put(i, DigitsBackwards[a])
    BY <1>1, DigitsBackwardsIs DEF Put
  <2>7. DigitsWith(n, a, b, c) =
          IF n = 0 THEN <<>> ELSE IF a = 0 THEN <<i>> ELSE IF b = 0 THEN <<i, j>>
          ELSE IF c = 0 THEN <<i, j, k>> ELSE <<i, j, k, l>>
    BY <1>1 DEF DigitsWith
  <2>8. c = 0 => DigitsBackwards[c] = <<>>
    BY <2>3
  <2>9. c # 0 => DigitsBackwards[c] = <<l>>
    BY <2>3, PutBeforeNone
  <2>10. /\ Put(k, <<>>) = <<k>> /\ Put(k, <<l>>) = <<k, l>>
         /\ Put(j, <<>>) = <<j>> /\ Put(j, <<k>>) = <<j, k>>
         /\ Put(j, <<k, l>>) = <<j, k, l>>
         /\ Put(i, <<>>) = <<i>> /\ Put(i, <<j>>) = <<i, j>>
         /\ Put(i, <<j, k>>) = <<i, j, k>>
         /\ Put(i, <<j, k, l>>) = <<i, j, k, l>>
    <3>1. /\ Put(k, <<>>) = <<k>>
          /\ Put(j, <<>>) = <<j>>
          /\ Put(i, <<>>) = <<i>>
      BY PutBeforeNone
    <3>2. Put(k, <<l>>) = <<k, l>>
      BY PutBeforeOne
    <3>3. Put(j, <<k>>) = <<j, k>>
      BY PutBeforeOne
    <3>4. Put(i, <<j>>) = <<i, j>>
      BY PutBeforeOne
    <3>5. Put(j, <<k, l>>) = <<j, k, l>>
      BY PutBeforeTwo
    <3>6. Put(i, <<j, k>>) = <<i, j, k>>
      BY PutBeforeTwo
    <3>7. Put(i, <<j, k, l>>) = <<i, j, k, l>>
      BY PutBeforeThree
    <3> QED
      BY <3>1, <3>2, <3>3, <3>4, <3>5, <3>6, <3>7
  <2>11. /\ b = 0 => DigitsBackwards[b] = <<>>
         /\ b # 0 /\ c = 0 => DigitsBackwards[b] = <<k>>
         /\ b # 0 /\ c # 0 => DigitsBackwards[b] = <<k, l>>
    BY <2>4, <2>8, <2>9, <2>10
  <2>12. /\ a = 0 => DigitsBackwards[a] = <<>>
         /\ a # 0 /\ b = 0 => DigitsBackwards[a] = <<j>>
         /\ a # 0 /\ b # 0 /\ c = 0 => DigitsBackwards[a] = <<j, k>>
         /\ a # 0 /\ b # 0 /\ c # 0 => DigitsBackwards[a] = <<j, k, l>>
    BY <2>5, <2>11, <2>10
  <2> QED
    BY <2>6, <2>7, <2>12, <2>10
<1>3. decToHexa(n) = Reverse(IF n = 0 THEN <<>> ELSE IF a = 0 THEN <<i>>
                             ELSE IF b = 0 THEN <<i, j>>
                             ELSE IF c = 0 THEN <<i, j, k>> ELSE <<i, j, k, l>>)
  BY <1>1, <1>2 DEF decToHexa, DigitsWith
\* The equations without the division.
<1>4. n = 16 * a + i /\ a = 16 * b + j /\ b = 16 * c + k /\ c = l
  BY <1>1
<1>5. PICK A \in Nat, B \in Nat, C \in Nat : A = a /\ B = b /\ C = c
  BY DEF BlockValues
<1>6. CASE n = 0
  <2>1. decToHexa(n) = [x \in 1..0 |-> <<>>[(0 - x) + 1]]
    BY <1>3, <1>6 DEF Reverse
  <2>2. Len(decToHexa(n)) = 0
    BY <2>1
  <2> QED
    BY <1>6, <2>2, GroupValueIs
<1>7. CASE n # 0 /\ a = 0
  <2>1. decToHexa(n) = <<i>>
    BY <1>3, <1>7 DEF Reverse
  <2> QED
    BY <1>1, <1>7, <2>1, GroupValueIs DEF First, Radix
<1>8. CASE n # 0 /\ a # 0 /\ b = 0
  <2>1. decToHexa(n) = <<j, i>>
    BY <1>3, <1>8 DEF Reverse
  <2>2. GroupValue(decToHexa(n)) = Second(<<j, i>>)
    <3>1. PICK d : d = <<j, i>>
      OBVIOUS
    <3>2. Len(d) = 2
      BY <3>1
    <3>3. GroupValue(d) = Second(d)
      BY <3>2, GroupValueIs
    <3> QED
      BY <2>1, <3>1, <3>3
  <2>3. Second(<<j, i>>) = 16 * j + i
    BY DEF First, Second, Radix
  <2> QED
    BY <1>4, <1>5, <1>8, <2>2, <2>3
<1>9. CASE n # 0 /\ a # 0 /\ b # 0 /\ c = 0
  <2>1. decToHexa(n) = <<k, j, i>>
    BY <1>3, <1>9 DEF Reverse
  <2>2. GroupValue(decToHexa(n)) = Third(<<k, j, i>>)
    <3>1. PICK d : d = <<k, j, i>>
      OBVIOUS
    <3>2. Len(d) = 3
      BY <3>1
    <3>3. GroupValue(d) = Third(d)
      BY <3>2, GroupValueIs
    <3> QED
      BY <2>1, <3>1, <3>3
  <2>3. Third(<<k, j, i>>) = 16 * (16 * k + j) + i
    BY DEF First, Second, Third, Radix
  <2> QED
    BY <1>4, <1>5, <1>9, <2>2, <2>3
<1>10. CASE n # 0 /\ a # 0 /\ b # 0 /\ c # 0
  <2>1. decToHexa(n) = <<l, k, j, i>>
    BY <1>3, <1>10 DEF Reverse
  <2>2. GroupValue(decToHexa(n)) = Fourth(<<l, k, j, i>>)
    <3>1. PICK d : d = <<l, k, j, i>>
      OBVIOUS
    <3>2. Len(d) = 4 /\ Len(d) \in {0, 1, 2, 3, 4}
      BY <3>1
    <3>3. GroupValue(d) = Fourth(d)
      BY <3>2, GroupValueIs
    <3> QED
      BY <2>1, <3>1, <3>3
  <2>3. Fourth(<<l, k, j, i>>) = 16 * (16 * (16 * l + k) + j) + i
    BY DEF First, Second, Third, Fourth, Radix
  <2> QED
    BY <1>4, <1>5, <1>10, <2>2, <2>3
<1> QED
  BY <1>6, <1>7, <1>8, <1>9, <1>10

\* init_server resolves the text of the third address of the interface to that
\* address, or to none: the text of an address is never read as another one,
\* although decToHexa writes a zero block without a digit (main/BridgeUtils.cpp).
THEOREM TextOfNoOtherAddress ==
  ASSUME NEW address \in AddressType
  PROVE  Resolve(Ip6ToStr(address)) \subseteq {address}
<1>1. \A i \in Blocks : GroupValue(Ip6ToStr(address)[i]) = address[i]
  BY ReadBack DEF Ip6ToStr, AddressType
<1>2. [i \in Blocks |-> GroupValue(Ip6ToStr(address)[i])] = address
  BY <1>1 DEF AddressType
<1> QED
  BY <1>2 DEF Resolve

\* The group of a block is empty exactly if the block is zero.
LEMMA EmptyIsZero ==
  ASSUME NEW n \in BlockValues
  PROVE  decToHexa(n) = <<>> <=> n = 0
<1>1. CASE n = 0
  <2>1. DigitsBackwards[n] = <<>>
    BY <1>1, DigitsBackwardsIs
  <2>2. Reverse(<<>>) = <<>>
    BY DEF Reverse
  <2> QED
    BY <1>1, <2>1, <2>2 DEF decToHexa
<1>2. ASSUME decToHexa(n) = <<>>
      PROVE  n = 0
  <2>1. PICK d : d = decToHexa(n) /\ d = <<>>
    BY <1>2
  <2>2. Len(d) = 0 /\ Len(d) \in {0, 1, 2, 3, 4}
    BY <2>1
  <2>3. GroupValue(d) = 0
    BY <2>2, GroupValueIs
  <2> QED
    BY <2>1, <2>3, ReadBack
<1> QED
  BY <1>1, <1>2

\* Which addresses can get lost on the way: the zero blocks of an address alone
\* decide whether its text is resolved, and then it is resolved to it.  Without
\* a zero block it always is (main/BridgeUtils.cpp).
THEOREM OnlyZeroBlocksGetLost ==
  ASSUME NEW address \in AddressType,
         NEW zeros, zeros = {i \in Blocks : address[i] = 0}
  PROVE  /\ EmptyGroups(Ip6ToStr(address)) = zeros
         /\ zeros = {} => Resolve(Ip6ToStr(address)) = {address}
         /\ \A i, j \in 2..7 :
              i # j /\ {i, j} \subseteq zeros => Resolve(Ip6ToStr(address)) = {}
<1> DEFINE text == Ip6ToStr(address)
<1>1. EmptyGroups(text) = zeros
  BY EmptyIsZero DEF EmptyGroups, Ip6ToStr, AddressType
<1>2. ASSUME zeros = {}
      PROVE  Resolve(text) = {address}
  <2>1. \A i \in Blocks : GroupValue(text[i]) = address[i]
    BY ReadBack DEF Ip6ToStr, AddressType
  <2>2. [i \in Blocks |-> GroupValue(text[i])] = address
    BY <2>1 DEF AddressType
  <2>3. MayBeRead(text)
    BY <1>1, <1>2 DEF MayBeRead, ValidText
  <2> QED
    BY <2>2, <2>3 DEF Resolve
<1>3. ASSUME NEW i \in 2..7, NEW j \in 2..7, i # j, {i, j} \subseteq zeros
      PROVE  Resolve(text) = {}
  <2>1. zeros \notin {{}, {1, 2}, {7, 8}, {1}, {8}}
    BY <1>3
  <2>2. \A k \in 2..7 : zeros # {k}
    BY <1>3
  <2>3. ~MayBeRead(text)
    BY <1>1, <2>1, <2>2 DEF MayBeRead, ValidText
  <2> QED
    BY <2>3 DEF Resolve
<1> QED
  BY <1>1, <1>2, <1>3
=============================================================================
