----------------------------- MODULE Encodings -----------------------------
(***************************************************************************)
(* base64 and the IP address checks of utils/utils.cpp.  A string or an    *)
(* array is a sequence of bytes; text to decode or to check is ASCII.  All *)
(* are short enough for the code's counters: unsigned int for base64, int  *)
(* for the addresses.                                                      *)
(***************************************************************************)
EXTENDS Integers, Sequences, SequencesExt

Byte == 0..255
Pad == 61            \* '='

\* encodeCharacterTable.
EncodeCharacter(v) ==
  CASE v \in 0..25 -> v + 65
    [] v \in 26..51 -> v + 71
    [] v \in 52..61 -> v - 4
    [] v = 62 -> 43
    [] v = 63 -> 47

\* decodeCharacterTable.
DecodeCharacter(c) ==
  CASE c \in 65..90 -> c - 65
    [] c \in 97..122 -> c - 71
    [] c \in 48..57 -> c + 4
    [] c = 43 -> 62
    [] c = 47 -> 63
    [] OTHER -> -1

\* The four values of six bits that three bytes make.
Sextet(a, b, c, r) ==
  CASE r = 0 -> a \div 4
    [] r = 1 -> ((a % 4) * 16) + (b \div 16)
    [] r = 2 -> ((b % 16) * 4) + (c \div 64)
    [] r = 3 -> c % 64

\* Faulty variant of Octet: two bits of the second byte are masked away.
OctetFaulty(p, q, u, v, r) ==
  CASE r = 0 -> ((p * 4) + ((q \div 16) % 4)) % 256
    [] r = 1 -> (((q % 4) * 16) + ((u \div 4) % 16)) % 256
    [] r = 2 -> (((u % 4) * 64) + v) % 256

\* The three bytes that four values of six bits make.
Octet(p, q, u, v, r) ==
  CASE r = 0 -> ((p * 4) + ((q \div 16) % 4)) % 256
    [] r = 1 -> (((q % 16) * 16) + ((u \div 4) % 16)) % 256
    [] r = 2 -> (((u % 4) * 64) + v) % 256

\* An array read past its end: buff1 is filled up with zeros.
At(input, i) == IF i <= Len(input) THEN input[i] ELSE 0

\* The characters that are not padding, and all of them.
Significant(n) == 4 * (n \div 3) + (IF n % 3 = 0 THEN 0 ELSE (n % 3) + 1)
EncodedLength(n) == 4 * (n \div 3) + (IF n % 3 = 0 THEN 0 ELSE 4)

base64_encode(input) ==
  [k \in 1..EncodedLength(Len(input)) |->
     IF k <= Significant(Len(input))
       THEN LET g == 3 * ((k - 1) \div 4)
            IN  EncodeCharacter(Sextet(At(input, g + 1), At(input, g + 2),
                                       At(input, g + 3), (k - 1) % 4))
       ELSE Pad]

\* How many characters come before the first '='.
Stops(input, n) ==
  /\ \A i \in 1..n : input[i] # Pad
  /\ n < Len(input) => input[n + 1] = Pad
Before(input) == CHOOSE n \in 0..Len(input) : Stops(input, n)

\* The value in a slot of buff2; the slots after the last character hold '\0'.
Slot(input, n, i) == IF i <= n THEN DecodeCharacter(input[i]) ELSE DecodeCharacter(0)

DecodedLength(n) == 3 * (n \div 4) + (IF n % 4 = 0 THEN 0 ELSE (n % 4) - 1)

base64_decode(input) ==
  LET n == Before(input)
  IN  [k \in 1..DecodedLength(n) |->
         LET g == 4 * ((k - 1) \div 3)
         IN  Octet(Slot(input, n, g + 1), Slot(input, n, g + 2),
                   Slot(input, n, g + 3), Slot(input, n, g + 4), (k - 1) % 3)]

-----------------------------------------------------------------------------
Colon == 58
Period == 46

Digit == 48..57
HexDigit == Digit \cup 65..70 \cup 97..102

\* to_string of a number below 1000.
to_string(n) ==
  CASE n < 10 -> <<48 + n>>
    [] n \in 10..99 -> <<48 + (n \div 10), 48 + (n % 10)>>
    [] OTHER -> <<48 + (n \div 100), 48 + ((n \div 10) % 10), 48 + (n % 10)>>

stoi(temp) == FoldLeft(LAMBDA v, c : 10 * v + (c - 48), 0, temp)

\* An address whose bytes, lowest first, are ip.
getIpStr(ip) ==
  to_string(ip[1]) \o <<Period>> \o to_string(ip[2]) \o <<Period>>
    \o to_string(ip[3]) \o <<Period>> \o to_string(ip[4])

\* The part between two dots of isIPv4, and between two colons of isIPv6.
IsNumber(temp) ==
  /\ Len(temp) \in 1..3 /\ ToSet(temp) \subseteq Digit
  /\ stoi(temp) <= 255 /\ to_string(stoi(temp)) = temp

IsGroup(temp) == Len(temp) \in 1..4 /\ ToSet(temp) \subseteq HexDigit

Occurrences(IP, mark) == Cardinality({i \in 1..Len(IP) : IP[i] = mark})

\* The loop over the characters: a part ends at a mark and at the last character.
AddressParts(IP, mark) ==
  LET Character(acc, i) ==
        LET temp == IF IP[i] = mark THEN acc.temp ELSE Append(acc.temp, IP[i])
        IN  IF IP[i] = mark \/ i = Len(IP)
              THEN [parts |-> acc.parts \cup {temp}, temp |-> <<>>]
              ELSE [acc EXCEPT !.temp = temp]
  IN  FoldLeft(Character, [parts |-> {}, temp |-> <<>>], [i \in 1..Len(IP) |-> i]).parts

\* Faulty variant of isIPv4: an address that ends in a dot passes.
isIPv4Faulty(IP) == Occurrences(IP, Period) = 3 /\ \A temp \in AddressParts(IP, Period) : IsNumber(temp)

isIPv4(IP) ==
  /\ Occurrences(IP, Period) = 3
  /\ \A temp \in AddressParts(IP, Period) : IsNumber(temp)
  /\ Last(IP) # Period

isIPv6(IP) ==
  /\ Occurrences(IP, Colon) = 7
  /\ \A temp \in AddressParts(IP, Colon) : IsGroup(temp)
  /\ Last(IP) # Colon

\* The first dot or colon decides which check is made.
validIPAddress(IP) ==
  LET i == SelectInSeq(IP, LAMBDA c : c \in {Period, Colon})
  IN  IF i = 0 THEN "Neither"
      ELSE IF IP[i] = Period THEN IF isIPv4(IP) THEN "IPv4" ELSE "Neither"
      ELSE IF isIPv6(IP) THEN "IPv6" ELSE "Neither"
=============================================================================
