-------------------------- MODULE UtilitiesProofs --------------------------
(***************************************************************************)
(* For every text of bytes that is shorter than a size_t can count, the    *)
(* file name functions return the parts of the path, base64_decode gives   *)
(* back what base64_encode was given, CreatePath makes what can be made,   *)
(* and the address checks accept what they describe.                       *)
(***************************************************************************)
EXTENDS Utilities, FilePathsProofs, TLAPS

\* The four parts of FileNameIsBase hold of every text.
LEMMA PathsSplit ==
  ASSUME text \in Seq(Byte), Len(text) < SizeMod
  PROVE  FileNameIsBase
<1>0. Len(text) \in Nat /\ SubSeq(text, 1, Len(text)) = text
  OBVIOUS
<1>1. PICK i \in 0..Len(text) : Found(text, Slash, i)
  BY AfterLast DEF Found
<1>2. PICK j \in 0..Len(text) : Found(text, Dot, j)
  BY AfterLast DEF Found
<1>3. /\ getFileNameAll(text) = SubSeq(text, i + 1, Len(text))
      /\ getFileSuffix(text) = SubSeq(text, j + 1, Len(text))
      /\ i # 0 => getFolderPath(text) = SubSeq(text, 1, i - 1) /\ text[i] = Slash
      /\ j # 0 => getRemoveSuffix(text) = SubSeq(text, 1, j - 1) /\ text[j] = Dot
      /\ Contains(text, Slash) => i # 0
      /\ Contains(text, Dot) => j # 0
  BY <1>1, <1>2, PartsAre DEF getFileNameAll, getFileSuffix, getFolderPath, getRemoveSuffix
<1>4. Contains(text, Slash) =>
        text = getFolderPath(text) \o <<Slash>> \o getFileNameAll(text)
  <2> SUFFICES ASSUME Contains(text, Slash)
               PROVE  text = getFolderPath(text) \o <<Slash>> \o getFileNameAll(text)
    OBVIOUS
  <2>1. i \in 1..Len(text) /\ 1 \in 1..i
    BY <1>0, <1>3
  <2>2. SubSeq(text, 1, Len(text)) =
          SubSeq(text, 1, i - 1) \o <<text[i]>> \o SubSeq(text, i + 1, Len(text))
    BY <2>1, Rejoined
  <2> QED BY <1>0, <1>3, <2>1, <2>2
<1>5. Contains(getFileNameAll(text), Dot) =>
        getFileNameAll(text) = getFileName(text) \o <<Dot>> \o getFileSuffix(text)
  <2>1. SUFFICES ASSUME NEW k \in 1..Len(SubSeq(text, i + 1, Len(text))),
                        SubSeq(text, i + 1, Len(text))[k] = Dot
                 PROVE  getFileNameAll(text) = getFileName(text) \o <<Dot>> \o getFileSuffix(text)
    BY <1>3 DEF Contains
  <2>2. i + k \in 1..Len(text) /\ text[i + k] = Dot
    BY <1>0, <2>1
  <2>3. i + k <= j
    BY <1>0, <1>2, <2>2 DEF Found, IsLast
  <2>4. getFileName(text) = SubSeq(text, i + 1, j - 1)
    BY <1>0, <1>1, <1>2, <2>1, <2>3, NameIs
  <2>5. j \in 1..Len(text) /\ i + 1 \in 1..j
    BY <1>0, <2>1, <2>3
  <2>6. SubSeq(text, i + 1, Len(text)) =
          SubSeq(text, i + 1, j - 1) \o <<text[j]>> \o SubSeq(text, j + 1, Len(text))
    BY <2>5, Rejoined
  <2>7. text[j] = Dot
    BY <1>3, <2>5
  <2>8. getFileNameAll(text) = SubSeq(text, i + 1, Len(text))
    BY <1>3
  <2>9. getFileSuffix(text) = SubSeq(text, j + 1, Len(text))
    BY <1>3
  <2> HIDE DEF getFileName, getFileNameAll, getFileSuffix
  <2> QED BY <2>4, <2>6, <2>7, <2>8, <2>9
<1>6. Contains(text, Dot) => text = getRemoveSuffix(text) \o <<Dot>> \o getFileSuffix(text)
  <2> SUFFICES ASSUME Contains(text, Dot)
               PROVE  text = getRemoveSuffix(text) \o <<Dot>> \o getFileSuffix(text)
    OBVIOUS
  <2>1. j \in 1..Len(text) /\ 1 \in 1..j
    BY <1>0, <1>3
  <2>2. SubSeq(text, 1, Len(text)) =
          SubSeq(text, 1, j - 1) \o <<text[j]>> \o SubSeq(text, j + 1, Len(text))
    BY <2>1, Rejoined
  <2> QED BY <1>0, <1>3, <2>1, <2>2
<1> QED BY <1>4, <1>5, <1>6, NameIsBase DEF FileNameIsBase

-----------------------------------------------------------------------------
\* A value of six bits is not written as '=', and is read back.
LEMMA CharacterBack ==
  ASSUME NEW v \in 0..63
  PROVE  EncodeCharacter(v) # Pad /\ DecodeCharacter(EncodeCharacter(v)) = v
<1>1. CASE v \in 0..25
  BY <1>1 DEF EncodeCharacter, DecodeCharacter, Pad
<1>2. CASE v \in 26..51
  BY <1>2 DEF EncodeCharacter, DecodeCharacter, Pad
<1>3. CASE v \in 52..61
  BY <1>3 DEF EncodeCharacter, DecodeCharacter, Pad
<1>4. CASE v \in 62..63
  BY <1>4 DEF EncodeCharacter, DecodeCharacter, Pad
<1> QED BY <1>1, <1>2, <1>3, <1>4

\* Three bytes are six bits four times, and are put together from them.
LEMMA BitsBack ==
  ASSUME NEW a \in Byte, NEW b \in Byte, NEW c \in Byte, NEW x, NEW y
  PROVE  /\ \A r \in 0..3 : Sextet(a, b, c, r) \in 0..63
         /\ Octet(Sextet(a, b, c, 0), Sextet(a, b, c, 1), x, y, 0) = a
         /\ Octet(x, Sextet(a, b, c, 1), Sextet(a, b, c, 2), y, 1) = b
         /\ Octet(x, y, Sextet(a, b, c, 2), Sextet(a, b, c, 3), 2) = c
<1>0. /\ a \in Int /\ 0 <= a /\ a <= 255
      /\ b \in Int /\ 0 <= b /\ b <= 255
      /\ c \in Int /\ 0 <= c /\ c <= 255
  BY DEF Byte
<1>1. \A r \in 0..3 : Sextet(a, b, c, r) \in 0..63
  <2>1. /\ a \div 4 \in 0..63 /\ ((a % 4) * 16) + (b \div 16) \in 0..63
        /\ ((b % 16) * 4) + (c \div 64) \in 0..63 /\ c % 64 \in 0..63
    BY <1>0
  <2> QED BY <2>1 DEF Sextet
<1>2. Octet(Sextet(a, b, c, 0), Sextet(a, b, c, 1), x, y, 0) = a
  <2>1. /\ Sextet(a, b, c, 0) = a \div 4
        /\ Sextet(a, b, c, 1) = ((a % 4) * 16) + (b \div 16)
    BY DEF Sextet
  <2>2. Octet(a \div 4, ((a % 4) * 16) + (b \div 16), x, y, 0) =
          (((a \div 4) * 4) + (((((a % 4) * 16) + (b \div 16)) \div 16) % 4)) % 256
    BY DEF Octet
  <2>3. (((a \div 4) * 4) + (((((a % 4) * 16) + (b \div 16)) \div 16) % 4)) % 256 = a
    BY <1>0
  <2> QED BY <2>1, <2>2, <2>3
<1>3. Octet(x, Sextet(a, b, c, 1), Sextet(a, b, c, 2), y, 1) = b
  <2>1. /\ Sextet(a, b, c, 1) = ((a % 4) * 16) + (b \div 16)
        /\ Sextet(a, b, c, 2) = ((b % 16) * 4) + (c \div 64)
    BY DEF Sextet
  <2>2. Octet(x, ((a % 4) * 16) + (b \div 16), ((b % 16) * 4) + (c \div 64), y, 1) =
          ((((((a % 4) * 16) + (b \div 16)) % 16) * 16)
             + (((((b % 16) * 4) + (c \div 64)) \div 4) % 16)) % 256
    BY DEF Octet
  <2>3. ((((((a % 4) * 16) + (b \div 16)) % 16) * 16)
             + (((((b % 16) * 4) + (c \div 64)) \div 4) % 16)) % 256 = b
    BY <1>0
  <2> QED BY <2>1, <2>2, <2>3
<1>4. Octet(x, y, Sextet(a, b, c, 2), Sextet(a, b, c, 3), 2) = c
  <2>1. /\ Sextet(a, b, c, 2) = ((b % 16) * 4) + (c \div 64)
        /\ Sextet(a, b, c, 3) = c % 64
    BY DEF Sextet
  <2>2. Octet(x, y, ((b % 16) * 4) + (c \div 64), c % 64, 2) =
          ((((((b % 16) * 4) + (c \div 64)) % 4) * 64) + (c % 64)) % 256
    BY DEF Octet
  <2>3. ((((((b % 16) * 4) + (c \div 64)) % 4) * 64) + (c % 64)) % 256 = c
    BY <1>0
  <2> QED BY <2>1, <2>2, <2>3
<1> QED BY <1>1, <1>2, <1>3, <1>4

\* The lengths: whole groups of four characters, with at most two of padding, of
\* which as many bytes are decoded as were encoded.
LEMMA Lengths ==
  ASSUME NEW n \in Nat
  PROVE  /\ Significant(n) \in Nat /\ EncodedLength(n) \in Nat
         /\ Significant(n) <= EncodedLength(n) /\ EncodedLength(n) <= Significant(n) + 2
         /\ EncodedLength(n) % 4 = 0
         /\ DecodedLength(Significant(n)) = n
         /\ \A k \in 1..n : 4 * ((k - 1) \div 3) + ((k - 1) % 3) + 2 <= Significant(n)
BY DEF Significant, EncodedLength, DecodedLength

\* Every value that is encoded is of six bits.
LEMMA SextetsFit ==
  ASSUME text \in Seq(Byte), NEW k \in Nat \ {0}
  PROVE  Sextet(At(text, 3 * ((k - 1) \div 4) + 1), At(text, 3 * ((k - 1) \div 4) + 2),
                At(text, 3 * ((k - 1) \div 4) + 3), (k - 1) % 4) \in 0..63
<1>1. \A i \in Nat \ {0} : At(text, i) \in Byte
  <2>1. 0 \in Byte
    BY DEF Byte
  <2>2. Len(text) \in Nat /\ \A i \in 1..Len(text) : text[i] \in Byte
    OBVIOUS
  <2> QED BY <2>1, <2>2 DEF At
<1>2. /\ 3 * ((k - 1) \div 4) + 1 \in Nat \ {0} /\ 3 * ((k - 1) \div 4) + 2 \in Nat \ {0}
      /\ 3 * ((k - 1) \div 4) + 3 \in Nat \ {0} /\ (k - 1) % 4 \in 0..3
  OBVIOUS
<1> QED BY <1>1, <1>2, BitsBack

\* A code that begins with the characters of text, and ends there or has '='
\* next, is decoded to text.
LEMMA DecodedIs ==
  ASSUME text \in Seq(Byte),
         NEW code, Len(code) \in Nat, Significant(Len(text)) <= Len(code),
         \A k \in 1..Significant(Len(text)) :
           code[k] = EncodeCharacter(Sextet(At(text, 3 * ((k - 1) \div 4) + 1),
                                            At(text, 3 * ((k - 1) \div 4) + 2),
                                            At(text, 3 * ((k - 1) \div 4) + 3), (k - 1) % 4)),
         Significant(Len(text)) < Len(code) => code[Significant(Len(text)) + 1] = Pad
  PROVE  /\ Before(code) = Significant(Len(text))
         /\ base64_decode(code) = text
<1> DEFINE n == Len(text)
           s == Significant(n)
           Of(k) == Sextet(At(text, 3 * ((k - 1) \div 4) + 1), At(text, 3 * ((k - 1) \div 4) + 2),
                           At(text, 3 * ((k - 1) \div 4) + 3), (k - 1) % 4)
<1>1. n \in Nat /\ s \in Nat
  BY Lengths
<1>2. \A i \in Nat \ {0} : At(text, i) \in Byte
  <2>1. 0 \in Byte
    BY DEF Byte
  <2>2. \A i \in 1..n : text[i] \in Byte
    OBVIOUS
  <2> QED BY <1>1, <2>1, <2>2 DEF At
<1>3. \A k \in 1..s : Of(k) \in 0..63
  BY <1>1, SextetsFit
<1>4. \A k \in 1..s : code[k] = EncodeCharacter(Of(k))
  OBVIOUS
<1>5. \A k \in 1..s : code[k] # Pad /\ DecodeCharacter(code[k]) = Of(k)
  <2> HIDE DEF Of, s
  <2> QED BY <1>3, <1>4, CharacterBack
<1>6. Before(code) = s
  <2>1. Stops(code, s) /\ s \in 0..Len(code)
    BY <1>1, <1>5 DEF Stops
  <2>2. ASSUME NEW m \in 0..Len(code), Stops(code, m) PROVE m = s
    <3>1. CASE m < s
      BY <1>1, <1>5, <2>2, <3>1 DEF Stops
    <3>2. CASE s < m
      BY <1>1, <2>2, <3>2 DEF Stops
    <3> QED BY <1>1, <3>1, <3>2
  <2> QED BY <2>1, <2>2 DEF Before
<1>7. ASSUME NEW k \in 1..n
      PROVE  base64_decode(code)[k] = text[k]
  <2>0. PICK j \in Nat, r \in 0..2 :
          /\ (k - 1) \div 3 = j /\ (k - 1) % 3 = r /\ k = 3 * j + r + 1
          /\ 4 * j + r + 2 <= s /\ k \in 1..DecodedLength(s)
    <3>1. (k - 1) \div 3 \in Nat /\ (k - 1) % 3 \in 0..2 /\ k = 3 * ((k - 1) \div 3) + ((k - 1) % 3) + 1
      <4> HIDE DEF n
      <4> QED BY <1>1
    <3>2. 4 * ((k - 1) \div 3) + ((k - 1) % 3) + 2 <= s /\ DecodedLength(s) = n
      BY <1>1, Lengths
    <3> HIDE DEF s, n
    <3> QED BY <1>1, <3>1, <3>2
  <2> DEFINE a == At(text, 3 * j + 1)
             b == At(text, 3 * j + 2)
             c == At(text, 3 * j + 3)
  <2>1. j \in Nat /\ r \in 0..2 /\ k = 3 * j + r + 1 /\ 4 * j + r + 2 <= s
    BY <2>0
  <2>2. a \in Byte /\ b \in Byte /\ c \in Byte
    BY <1>2, <2>1
  <2>3. ASSUME NEW m \in 1..4, 4 * j + m <= s
        PROVE  Slot(code, s, 4 * j + m) = Sextet(a, b, c, m - 1)
    <3>1. (4 * j + m - 1) \div 4 = j /\ (4 * j + m - 1) % 4 = m - 1 /\ 4 * j + m \in 1..s
      <4> HIDE DEF s
      <4> QED BY <1>1, <2>1, <2>3
    <3>2. Of(4 * j + m) = Sextet(a, b, c, m - 1)
      BY <3>1
    <3> HIDE DEF a, b, c, Of
    <3> QED BY <1>5, <2>3, <3>1, <3>2 DEF Slot
  <2>4. base64_decode(code)[k] =
          Octet(Slot(code, s, 4 * j + 1), Slot(code, s, 4 * j + 2),
                Slot(code, s, 4 * j + 3), Slot(code, s, 4 * j + 4), r)
    BY <1>6, <2>0 DEF base64_decode
  <2>5. /\ r = 0 => text[k] = a
        /\ r = 1 => text[k] = b
        /\ r = 2 => text[k] = c
    <3>1. At(text, k) = text[k]
      BY DEF At
    <3> QED BY <2>1, <3>1
  <2> HIDE DEF a, b, c, s, n
  <2>6. CASE r = 0
    <3>1. /\ Slot(code, s, 4 * j + 1) = Sextet(a, b, c, 0)
          /\ Slot(code, s, 4 * j + 2) = Sextet(a, b, c, 1)
      BY <1>1, <2>1, <2>3, <2>6
    <3> QED BY <2>2, <2>4, <2>5, <2>6, <3>1, BitsBack
  <2>7. CASE r = 1
    <3>1. /\ Slot(code, s, 4 * j + 2) = Sextet(a, b, c, 1)
          /\ Slot(code, s, 4 * j + 3) = Sextet(a, b, c, 2)
      BY <1>1, <2>1, <2>3, <2>7
    <3> QED BY <2>2, <2>4, <2>5, <2>7, <3>1, BitsBack
  <2>8. CASE r = 2
    <3>1. /\ Slot(code, s, 4 * j + 3) = Sextet(a, b, c, 2)
          /\ Slot(code, s, 4 * j + 4) = Sextet(a, b, c, 3)
      BY <1>1, <2>1, <2>3, <2>8
    <3> QED BY <2>2, <2>4, <2>5, <2>8, <3>1, BitsBack
  <2> QED BY <2>1, <2>6, <2>7, <2>8
<1>8. base64_decode(code) = text
  <2>1. DecodedLength(s) = n
    BY <1>1, Lengths
  <2>2. text = [k \in 1..n |-> text[k]]
    OBVIOUS
  <2>3. base64_decode(code) = [k \in 1..n |-> base64_decode(code)[k]]
    BY <1>6, <2>1 DEF base64_decode
  <2> QED BY <1>7, <2>2, <2>3
<1> QED BY <1>6, <1>8

\* The four parts of Base64RoundTrip hold of every text.
LEMMA RoundTrips ==
  ASSUME text \in Seq(Byte)
  PROVE  Base64RoundTrip
<1> DEFINE n == Len(text)
           s == Significant(n)
           code == base64_encode(text)
           bare == SubSeq(code, 1, s)
           Char(k) == EncodeCharacter(Sextet(At(text, 3 * ((k - 1) \div 4) + 1),
                                             At(text, 3 * ((k - 1) \div 4) + 2),
                                             At(text, 3 * ((k - 1) \div 4) + 3), (k - 1) % 4))
<1>1. /\ n \in Nat /\ s \in Nat /\ EncodedLength(n) \in Nat
      /\ s <= EncodedLength(n) /\ EncodedLength(n) <= s + 2 /\ EncodedLength(n) % 4 = 0
  BY Lengths
<1>2. code = [k \in 1..EncodedLength(n) |-> IF k <= s THEN Char(k) ELSE Pad]
  BY DEF base64_encode
<1> HIDE DEF code, Char
<1>3. Len(code) = EncodedLength(n)
  <2> HIDE DEF n
  <2> QED BY <1>1, <1>2
<1>4. \A k \in 1..s : code[k] = Char(k)
  <2> HIDE DEF n, s
  <2> QED BY <1>1, <1>2
<1>5. \A k \in 1..Len(code) : k > s => code[k] = Pad
  <2> HIDE DEF n, s
  <2> QED BY <1>1, <1>2, <1>3
<1>6. Len(bare) = s /\ \A k \in 1..s : bare[k] = Char(k)
  <2>1. \A k \in 1..s : code[k] \in {Char(j) : j \in 1..s}
    BY <1>4
  <2>2. s \in Int /\ 1 \in Int
    BY <1>1
  <2> HIDE DEF n, s
  <2>3. /\ Len(bare) = IF 1 <= s THEN s - 1 + 1 ELSE 0
        /\ \A k \in 1..s - 1 + 1 : bare[k] = code[1 + k - 1]
    BY <2>1, <2>2, SubSeqProperties
  <2> HIDE DEF bare
  <2> QED BY <1>1, <1>4, <2>3
<1>7. /\ Before(code) = s /\ base64_decode(code) = text
  <2>1. s < Len(code) => code[s + 1] = Pad
    <3> HIDE DEF n, s
    <3> QED BY <1>1, <1>3, <1>5
  <2> QED BY <1>1, <1>3, <1>4, <2>1, DecodedIs DEF Char
<1>8. base64_decode(bare) = text
  <2> HIDE DEF bare
  <2>1. /\ Len(bare) \in Nat /\ Significant(Len(text)) <= Len(bare)
        /\ ~(Significant(Len(text)) < Len(bare))
    <3>1. Len(bare) = s /\ s \in Nat
      BY <1>1, <1>6
    <3> HIDE DEF s
    <3>2. Len(bare) \in Nat /\ s <= Len(bare) /\ ~(s < Len(bare))
      BY <3>1
    <3> QED BY <3>2 DEF s
  <2> QED BY <1>6, <2>1, DecodedIs DEF Char
<1>9. ASSUME NEW k \in 1..Len(code), DecodeCharacter(code[k]) = -1
      PROVE  code[k] = Pad /\ k > Len(code) - 2
  <2>1. ASSUME k <= s PROVE DecodeCharacter(code[k]) # -1
    <3> DEFINE v == Sextet(At(text, 3 * ((k - 1) \div 4) + 1), At(text, 3 * ((k - 1) \div 4) + 2),
                           At(text, 3 * ((k - 1) \div 4) + 3), (k - 1) % 4)
    <3>1. v \in 0..63
      BY <1>1, <2>1, SextetsFit
    <3>2. code[k] = EncodeCharacter(v)
      BY <1>4, <2>1 DEF Char
    <3> HIDE DEF v
    <3>3. DecodeCharacter(code[k]) = v
      BY <3>1, <3>2, CharacterBack
    <3> QED BY <3>1, <3>3
  <2> HIDE DEF n, s
  <2> QED BY <1>1, <1>3, <1>5, <1>9, <2>1
<1> QED BY <1>1, <1>3, <1>7, <1>8, <1>9 DEF Base64RoundTrip, code

-----------------------------------------------------------------------------
\* What stoi makes of up to three characters.
LEMMA StoiIs ==
  ASSUME NEW temp \in Seq(Byte), Len(temp) \in 1..3
  PROVE  /\ Len(temp) = 1 => stoi(temp) = temp[1] - 48
         /\ Len(temp) = 2 => stoi(temp) = 10 * (temp[1] - 48) + (temp[2] - 48)
         /\ Len(temp) = 3 =>
              stoi(temp) = 100 * (temp[1] - 48) + 10 * (temp[2] - 48) + (temp[3] - 48)
<1> DEFINE n == Len(temp)
           D == Int
           base == 0
           Number(v, c) == 10 * v + (c - 48)
           Eq(g) == g = [t \in SUBSET DOMAIN temp |->
                           IF t = {} THEN base ELSE Number(g[t \ {Max(t)}], temp[Max(t)])]
           step == [p \in D \X (1..n) |-> Number(p[1], temp[p[2]])]
           G == CHOOSE g : Eq(g)
<1>1. n \in Nat /\ DOMAIN temp = 1..n /\ \A k \in 1..n : temp[k] \in Int
  <2>1. Byte \subseteq Int
    BY DEF Byte
  <2>2. n \in Nat /\ DOMAIN temp = 1..n /\ \A k \in 1..n : temp[k] \in Byte
    OBVIOUS
  <2> QED BY <2>1, <2>2
<1>2. /\ base \in D /\ step \in [D \X (1..n) -> D]
      /\ \A d \in D, k \in 1..n : step[<<d, k>>] = Number(d, temp[k])
  <2>1. base \in D /\ \A d \in D, k \in 1..n : Number(d, temp[k]) \in D
    BY <1>1
  <2> HIDE DEF D, n, Number
  <2>2. \A w \in D \X (1..n) : Number(w[1], temp[w[2]]) \in D
    BY <2>1
  <2> QED BY <2>1, <2>2
<1>3. stoi(temp) = G[1..n]
  BY <1>1 DEF stoi, FoldLeft, MapThenFoldSet
<1> HIDE DEF n, D, step, base, Number
<1>4. PICK f \in [SUBSET (1..n) -> D] : Folds(f, base, n, step)
  BY <1>1, <1>2, FoldExists
<1>5. Eq(f)
  <2>1. ASSUME NEW t \in SUBSET (1..n), t # {}
        PROVE  f[t] = Number(f[t \ {Max(t)}], temp[Max(t)])
    <3>1. Max(t) \in 1..n /\ f[t \ {Max(t)}] \in D
      BY <1>1, <2>1, MaxIn
    <3> QED BY <1>2, <1>4, <2>1, <3>1 DEF Folds
  <2> QED BY <1>1, <1>4, <2>1 DEF Folds
<1>6. G = [t \in SUBSET (1..n) |->
             IF t = {} THEN base ELSE Number(G[t \ {Max(t)}], temp[Max(t)])]
  <2>1. Eq(G)
    <3> HIDE DEF Eq
    <3> QED BY <1>5
  <2> QED BY <1>1, <2>1
<1> HIDE DEF G
<1>7. G[{}] = base /\ \A k \in 1..n : G[1..k] = Number(G[1..(k - 1)], temp[k])
  <2>1. \A k \in 1..n : /\ Max(1..k) = k /\ (1..k) \ {k} = 1..(k - 1)
                         /\ 1..k # {} /\ 1..k \in SUBSET (1..n)
    BY <1>1, MaxOfInterval
  <2> QED BY <1>6, <2>1
<1>8. Chains(G, D, base, n, step)
  BY <1>2, <1>7 DEF Chains
<1>9. PICK h : Runs(h, D, base, n, step) /\ h[n] = G[1..n]
  BY <1>1, <1>2, <1>8, FoldRuns
<1>10. h \in [0..n -> D] /\ h[0] = base /\ \A k \in 1..n : h[k] = Number(h[k - 1], temp[k])
  <2>1. h \in [0..n -> D] /\ h[0] = base
    BY <1>9 DEF Runs
  <2>2. ASSUME NEW k \in 1..n PROVE h[k] = Number(h[k - 1], temp[k])
    <3>1. h[k - 1] \in D /\ h[k] = step[<<h[k - 1], k>>]
      BY <1>1, <1>9 DEF Runs
    <3> QED BY <1>2, <3>1
  <2> QED BY <2>1, <2>2
<1>11. /\ h[0] = 0 /\ n \in 1..3 /\ stoi(temp) = h[n]
       /\ h[1] = 10 * h[0] + (temp[1] - 48)
       /\ n >= 2 => h[2] = 10 * h[1] + (temp[2] - 48)
       /\ n = 3 => h[3] = 10 * h[2] + (temp[3] - 48)
  <2>1. n \in 1..3
    BY DEF n
  <2> QED BY <2>1, <1>3, <1>9, <1>10 DEF base, Number
<1>12. temp[1] \in Int /\ (n >= 2 => temp[2] \in Int) /\ (n = 3 => temp[3] \in Int)
  BY <1>1, <1>11
<1>13. h[1] = temp[1] - 48
  BY <1>11, <1>12
<1>14. n >= 2 => h[2] = 10 * (temp[1] - 48) + (temp[2] - 48)
  BY <1>11, <1>12, <1>13
<1>15. n = 3 => h[3] = 100 * (temp[1] - 48) + 10 * (temp[2] - 48) + (temp[3] - 48)
  <2>1. \A x, y, z \in Int : 10 * (10 * x + y) + z = 100 * x + 10 * y + z
    OBVIOUS
  <2>2. ASSUME n = 3
        PROVE  /\ h[3] = 10 * (10 * (temp[1] - 48) + (temp[2] - 48)) + (temp[3] - 48)
               /\ temp[1] - 48 \in Int /\ temp[2] - 48 \in Int /\ temp[3] - 48 \in Int
    <3>1. h[2] = 10 * (temp[1] - 48) + (temp[2] - 48) /\ h[3] = 10 * h[2] + (temp[3] - 48)
      BY <1>11, <1>14, <2>2
    <3>2. temp[1] \in Int /\ temp[2] \in Int /\ temp[3] \in Int
      BY <1>12, <2>2
    <3>3. h[3] = 10 * (10 * (temp[1] - 48) + (temp[2] - 48)) + (temp[3] - 48)
      BY <3>1, Zenon
    <3>4. temp[1] - 48 \in Int /\ temp[2] - 48 \in Int /\ temp[3] - 48 \in Int
      BY <3>2
    <3> QED BY <3>3, <3>4
  <2> QED BY <2>1, <2>2
<1>16. stoi(temp) = h[n] /\ n = Len(temp)
  BY <1>11 DEF n
<1> HIDE DEF n
<1> QED BY <1>13, <1>14, <1>15, <1>16

\* The parts that isIPv4 accepts are the numbers from 0 to 255, printed.
LEMMA NumberIs ==
  ASSUME NEW temp \in Seq(Byte)
  PROVE  IsNumber(temp) <=> temp \in Numerals
<1>1. ASSUME IsNumber(temp) PROVE temp \in Numerals
  <2>1. Len(temp) \in 1..3 /\ \A i \in 1..Len(temp) : temp[i] - 48 \in 0..9
    <3>1. \A i \in 1..Len(temp) : temp[i] \in Digit
      BY <1>1 DEF IsNumber, ToSet
    <3> QED BY <1>1, <3>1 DEF IsNumber, Digit, Byte
  <2>2. stoi(temp) \in Nat
    <3>1. temp[1] - 48 \in Nat
      BY <2>1
    <3>2. Len(temp) \in 2..3 => temp[2] - 48 \in Nat
      BY <2>1
    <3>3. Len(temp) = 3 => temp[3] - 48 \in Nat
      BY <2>1
    <3> QED BY <2>1, <3>1, <3>2, <3>3, StoiIs
  <2>3. stoi(temp) \in 0..255 /\ temp = to_string(stoi(temp))
    <3>1. stoi(temp) <= 255 /\ temp = to_string(stoi(temp))
      BY <1>1 DEF IsNumber
    <3> DEFINE v == stoi(temp)
    <3>2. v \in Nat /\ v <= 255
      BY <2>2, <3>1
    <3> HIDE DEF v
    <3>3. v \in 0..255
      BY <3>2
    <3> QED BY <3>1, <3>3 DEF v
  <2> QED BY <2>3 DEF Numerals
<1>2. ASSUME temp \in Numerals PROVE IsNumber(temp)
  <2>1. PICK v \in 0..255 : temp = to_string(v)
    BY <1>2 DEF Numerals
  <2>3. Len(temp) \in 1..3 /\ ToSet(temp) \subseteq Digit /\ stoi(temp) = v
    <3>1. CASE v < 10
      <4>1. temp = <<48 + v>>
        BY <2>1, <3>1 DEF to_string
      <4>2. Len(temp) = 1 /\ temp[1] = 48 + v
        BY <4>1
      <4>3. \A i \in 1..Len(temp) : temp[i] \in Digit
        BY <4>2, <3>1 DEF Digit
      <4>4. ToSet(temp) \subseteq Digit
        BY <4>3 DEF ToSet
      <4>5. Len(temp) \in 1..3
        BY <4>2
      <4> QED BY <3>1, <4>2, <4>4, <4>5, StoiIs
    <3>2. CASE v \in 10..99
      <4>1. temp = <<48 + (v \div 10), 48 + (v % 10)>>
        BY <2>1, <3>2 DEF to_string
      <4>2. Len(temp) = 2 /\ temp[1] = 48 + (v \div 10) /\ temp[2] = 48 + (v % 10)
        BY <4>1
      <4>3. \A i \in 1..Len(temp) : temp[i] \in Digit
        <5>1. 48 + (v \div 10) \in Digit /\ 48 + (v % 10) \in Digit
          BY <3>2 DEF Digit
        <5> QED BY <4>2, <5>1
      <4>4. ToSet(temp) \subseteq Digit
        BY <4>3 DEF ToSet
      <4>5. Len(temp) \in 1..3
        BY <4>2
      <4> QED BY <3>2, <4>2, <4>4, <4>5, StoiIs
    <3>3. CASE v \in 100..255
      <4>1. temp = <<48 + (v \div 100), 48 + ((v \div 10) % 10), 48 + (v % 10)>>
        BY <2>1, <3>3 DEF to_string
      <4>2. /\ Len(temp) = 3 /\ temp[1] = 48 + (v \div 100)
            /\ temp[2] = 48 + ((v \div 10) % 10) /\ temp[3] = 48 + (v % 10)
        BY <4>1
      <4>3. \A i \in 1..Len(temp) : temp[i] \in Digit
        <5>1. \A d \in 0..9 : 48 + d \in Digit
          BY DEF Digit
        <5>2. v \div 100 \in 0..9 /\ (v \div 10) % 10 \in 0..9 /\ v % 10 \in 0..9
          BY <3>3
        <5>3. temp[1] \in Digit /\ temp[2] \in Digit /\ temp[3] \in Digit
          BY <4>2, <5>1, <5>2
        <5> QED BY <4>2, <5>3
      <4>4. ToSet(temp) \subseteq Digit
        BY <4>3 DEF ToSet
      <4>5. Len(temp) \in 1..3
        BY <4>2
      <4>6. /\ 100 * (v \div 100) + 10 * ((v \div 10) % 10) + (v % 10) = v
            /\ (48 + (v \div 100)) - 48 = v \div 100
            /\ (48 + ((v \div 10) % 10)) - 48 = (v \div 10) % 10 /\ (48 + (v % 10)) - 48 = v % 10
        BY <3>3
      <4> QED BY <4>2, <4>4, <4>5, <4>6, StoiIs
    <3> QED BY <3>1, <3>2, <3>3
  <2> QED BY <2>1, <2>3 DEF IsNumber
<1> QED BY <1>1, <1>2

\* The parts that isIPv6 accepts are the groups of hexadecimal digits.
LEMMA GroupIs ==
  ASSUME NEW temp \in Seq(Byte)
  PROVE  IsGroup(temp) <=> temp \in Groups
<1>1. Len(temp) \in Nat /\ temp = [i \in 1..Len(temp) |-> temp[i]]
  OBVIOUS
<1>2. ASSUME IsGroup(temp) PROVE temp \in Groups
  <2>1. temp \in [1..Len(temp) -> HexDigit] /\ Len(temp) \in 1..4
    BY <1>1, <1>2 DEF IsGroup, ToSet
  <2> QED BY <2>1 DEF Groups
<1>3. ASSUME NEW n \in 1..4, temp \in [1..n -> HexDigit] PROVE IsGroup(temp)
  <2>1. Len(temp) = n /\ DOMAIN temp = 1..n
    BY <1>3
  <2> QED BY <1>3, <2>1 DEF IsGroup, ToSet
<1> QED BY <1>2, <1>3 DEF Groups

\* h is a run of the loop of isIPv4 and isIPv6 over the characters of an address.
AddressRuns(h, S, IP, mark) ==
  /\ h \in [0..Len(IP) -> [parts : SUBSET Seq(S), temp : Seq(S)]]
  /\ h[0] = [parts |-> {}, temp |-> <<>>]
  /\ \A k \in 1..Len(IP) :
       LET temp == IF IP[k] = mark THEN h[k - 1].temp ELSE Append(h[k - 1].temp, IP[k])
       IN  IF IP[k] = mark \/ k = Len(IP)
             THEN h[k].parts = h[k - 1].parts \cup {temp} /\ h[k].temp = <<>>
             ELSE h[k].parts = h[k - 1].parts /\ h[k].temp = temp
  /\ AddressParts(IP, mark) = h[Len(IP)].parts

\* The loop has such a run.
LEMMA AddressRun ==
  ASSUME NEW S, NEW IP \in Seq(S), NEW mark
  PROVE  \E h : AddressRuns(h, S, IP, mark)
<1> DEFINE places == [i \in 1..Len(IP) |-> i]
           n == Len(IP)
           D == [parts : SUBSET Seq(S), temp : Seq(S)]
           base == [parts |-> {}, temp |-> <<>>]
           Temp(acc, i) == IF IP[i] = mark THEN acc.temp ELSE Append(acc.temp, IP[i])
           Character(acc, i) == IF IP[i] = mark \/ i = n
                                  THEN [parts |-> acc.parts \cup {Temp(acc, i)}, temp |-> <<>>]
                                  ELSE [acc EXCEPT !.temp = Temp(acc, i)]
           Eq(g) == g = [t \in SUBSET DOMAIN places |->
                           IF t = {} THEN base ELSE Character(g[t \ {Max(t)}], places[Max(t)])]
           step == [p \in D \X (1..n) |-> Character(p[1], places[p[2]])]
           G == CHOOSE g : Eq(g)
<1>1. /\ n \in Nat /\ DOMAIN places = 1..n /\ \A k \in 1..n : places[k] = k
      /\ \A k \in 1..n : IP[k] \in S
  OBVIOUS
<1>2. /\ base \in D /\ step \in [D \X (1..n) -> D]
      /\ \A d \in D, k \in 1..n : step[<<d, k>>] = Character(d, places[k])
  <2>1. ASSUME NEW d \in D, NEW k \in 1..n PROVE Character(d, k) \in D
    <3>1. d.parts \in SUBSET Seq(S) /\ d.temp \in Seq(S)
      OBVIOUS
    <3>2. Temp(d, k) \in Seq(S) /\ <<>> \in Seq(S)
      BY <1>1, <3>1
    <3>3. \A x : [d EXCEPT !.temp = x] = [parts |-> d.parts, temp |-> x]
      OBVIOUS
    <3> HIDE DEF Temp
    <3>4. [parts |-> d.parts \cup {Temp(d, k)}, temp |-> <<>>] \in D
      BY <3>1, <3>2
    <3>5. [d EXCEPT !.temp = Temp(d, k)] \in D
      BY <3>1, <3>2, <3>3
    <3> QED BY <3>4, <3>5
  <2>2. base \in D
    OBVIOUS
  <2> HIDE DEF D, n, Character, places
  <2>3. \A p \in D \X (1..n) : Character(p[1], places[p[2]]) \in D
    BY <1>1, <2>1
  <2> QED BY <2>2, <2>3
<1>3. AddressParts(IP, mark) = G[1..n].parts
  <2> HIDE DEF n
  <2> QED BY <1>1 DEF AddressParts, FoldLeft, MapThenFoldSet, n
<1> HIDE DEF n, D, step, base, Character, places
<1>4. PICK f \in [SUBSET (1..n) -> D] : Folds(f, base, n, step)
  BY <1>1, <1>2, FoldExists
<1>5. Eq(f)
  <2>1. ASSUME NEW t \in SUBSET (1..n), t # {}
        PROVE  f[t] = Character(f[t \ {Max(t)}], places[Max(t)])
    <3>1. Max(t) \in 1..n /\ f[t \ {Max(t)}] \in D
      BY <1>1, <2>1, MaxIn
    <3> QED BY <1>2, <1>4, <2>1, <3>1 DEF Folds
  <2> QED BY <1>1, <1>4, <2>1 DEF Folds
<1>6. G = [t \in SUBSET (1..n) |->
             IF t = {} THEN base ELSE Character(G[t \ {Max(t)}], places[Max(t)])]
  <2>1. Eq(G)
    <3> HIDE DEF Eq
    <3> QED BY <1>5
  <2> QED BY <1>1, <2>1
<1> HIDE DEF G
<1>7. G[{}] = base /\ \A k \in 1..n : G[1..k] = Character(G[1..(k - 1)], places[k])
  <2>1. \A k \in 1..n : /\ Max(1..k) = k /\ (1..k) \ {k} = 1..(k - 1)
                         /\ 1..k # {} /\ 1..k \in SUBSET (1..n)
    BY <1>1, MaxOfInterval
  <2> QED BY <1>6, <2>1
<1>8. Chains(G, D, base, n, step)
  BY <1>2, <1>7 DEF Chains
<1>9. PICK h : Runs(h, D, base, n, step) /\ h[n] = G[1..n]
  BY <1>1, <1>2, <1>8, FoldRuns
<1>10. h \in [0..n -> D] /\ h[0] = base /\ \A k \in 1..n : h[k] = Character(h[k - 1], places[k])
  <2>1. h \in [0..n -> D] /\ h[0] = base
    BY <1>9 DEF Runs
  <2>2. ASSUME NEW k \in 1..n PROVE h[k] = Character(h[k - 1], places[k])
    <3>1. h[k - 1] \in D /\ h[k] = step[<<h[k - 1], k>>]
      BY <1>1, <1>9 DEF Runs
    <3> QED BY <1>2, <3>1
  <2> QED BY <2>1, <2>2
<1>11. ASSUME NEW k \in 1..n
       PROVE  IF IP[k] = mark \/ k = n
                THEN h[k].parts = h[k - 1].parts \cup {Temp(h[k - 1], k)} /\ h[k].temp = <<>>
                ELSE h[k].parts = h[k - 1].parts /\ h[k].temp = Temp(h[k - 1], k)
  <2>1. h[k] = Character(h[k - 1], k) /\ h[k - 1] \in D
    BY <1>1, <1>10
  <2>2. \A d \in D : \A x : [d EXCEPT !.temp = x] = [parts |-> d.parts, temp |-> x]
    BY DEF D
  <2> HIDE DEF Temp
  <2> QED BY <2>1, <2>2 DEF Character
<1>12. AddressParts(IP, mark) = h[n].parts
  BY <1>3, <1>9
<1> QED BY <1>10, <1>11, <1>12 DEF n, D, base, AddressRuns

\* The places of the marks and the two ends; the parts between two of them that
\* are next to each other, up to place m.
Marks(IP, mark) == {i \in 1..Len(IP) : IP[i] = mark} \cup {0, Len(IP) + 1}
Adjacent(IP, mark, a, b) == a < b /\ \A k \in Marks(IP, mark) : k <= a \/ k >= b
Cut(IP, mark, m) ==
  {SubSeq(IP, p[1] + 1, p[2] - 1) :
     p \in {q \in Marks(IP, mark) \X Marks(IP, mark) : q[2] <= m /\ Adjacent(IP, mark, q[1], q[2])}}

\* One place more: a part ends there, or none does.
LEMMA CutOn ==
  ASSUME NEW S, NEW IP \in Seq(S), NEW mark, NEW m \in 1..Len(IP) + 1
  PROVE  /\ m \notin Marks(IP, mark) => Cut(IP, mark, m) = Cut(IP, mark, m - 1)
         /\ m \in Marks(IP, mark) =>
              \A a \in Marks(IP, mark) : Adjacent(IP, mark, a, m) =>
                Cut(IP, mark, m) = Cut(IP, mark, m - 1) \cup {SubSeq(IP, a + 1, m - 1)}
<1> DEFINE M == Marks(IP, mark)
           A(a, b) == Adjacent(IP, mark, a, b)
           Pairs(k) == {q \in M \X M : q[2] <= k /\ A(q[1], q[2])}
           Part(q) == SubSeq(IP, q[1] + 1, q[2] - 1)
<1>1. M \subseteq Int /\ m \in Int
  BY DEF Marks
<1>2. \A a, b, c \in M : A(a, c) /\ A(b, c) => a = b
  BY <1>1 DEF Adjacent
<1> HIDE DEF M, A
<1>0. \A i \in M : i <= m <=> i <= m - 1 \/ i = m
  BY <1>1
<1>3. m \notin M => Pairs(m) = Pairs(m - 1)
  <2>1. ASSUME m \notin M, NEW q \in M \X M PROVE q[2] <= m <=> q[2] <= m - 1
    <3>1. q[2] \in M /\ q[2] # m
      BY <2>1
    <3> QED BY <1>0, <3>1
  <2> QED BY <2>1
<1>4. ASSUME NEW a \in M, m \in M, A(a, m)
      PROVE  Pairs(m) = Pairs(m - 1) \cup {<<a, m>>}
  <2>1. <<a, m>> \in Pairs(m)
    <3>1. m <= m
      BY <1>1
    <3> QED BY <1>4, <3>1
  <2>2. ASSUME NEW q \in M \X M, q[2] = m, A(q[1], q[2]) PROVE q = <<a, m>>
    <3>1. q[1] \in M /\ q = <<q[1], q[2]>> /\ A(q[1], m)
      BY <2>2
    <3>2. q[1] = a
      BY <1>2, <1>4, <3>1
    <3> QED BY <2>2, <3>1, <3>2
  <2>3. \A q \in M \X M : q[2] <= m <=> q[2] <= m - 1 \/ q[2] = m
    <3>1. \A q \in M \X M : q[2] \in M
      OBVIOUS
    <3> QED BY <1>0, <3>1
  <2> QED BY <2>1, <2>2, <2>3
<1>5. \A k : Cut(IP, mark, k) = {Part(q) : q \in Pairs(k)}
  BY DEF Cut, M, A
<1>6. \A a : Part(<<a, m>>) = SubSeq(IP, a + 1, m - 1)
  OBVIOUS
<1> HIDE DEF Part, Pairs
<1>7. m \notin M => Cut(IP, mark, m) = Cut(IP, mark, m - 1)
  BY <1>3, <1>5
<1>8. ASSUME NEW a \in M, m \in M, A(a, m)
      PROVE  Cut(IP, mark, m) = Cut(IP, mark, m - 1) \cup {SubSeq(IP, a + 1, m - 1)}
  <2>1. Pairs(m) = Pairs(m - 1) \cup {<<a, m>>}
    BY <1>4, <1>8
  <2>2. {Part(q) : q \in Pairs(m)} = {Part(q) : q \in Pairs(m - 1)} \cup {Part(<<a, m>>)}
    BY <2>1
  <2> QED BY <1>5, <1>6, <2>2
<1> QED BY <1>7, <1>8 DEF M, A

\* Up to every place before the last one the loop has the parts that end there,
\* and in temp the part that has begun.
LEMMA LoopCuts ==
  ASSUME NEW S, NEW IP \in Seq(S), NEW mark, IP # <<>>, Last(IP) # mark
  PROVE  AddressParts(IP, mark) = PartsOf(IP, mark)
<1> DEFINE n == Len(IP)
           M == Marks(IP, mark)
           A(a, b) == Adjacent(IP, mark, a, b)
           C(m) == Cut(IP, mark, m)
<1>1. /\ n \in Nat \ {0} /\ M \subseteq 0..n + 1 /\ 0 \in M /\ n + 1 \in M
      /\ \A i \in 1..n : i \in M <=> IP[i] = mark
      /\ IP[n] # mark /\ \A i \in 1..n : IP[i] \in S
  BY EmptySeq DEF Marks, Last
<1>2. PICK h : AddressRuns(h, S, IP, mark)
  BY AddressRun
<1>3. /\ h \in [0..n -> [parts : SUBSET Seq(S), temp : Seq(S)]]
      /\ h[0].parts = {} /\ h[0].temp = <<>>
      /\ \A k \in 1..n - 1 :
           /\ IP[k] = mark => h[k].parts = h[k - 1].parts \cup {h[k - 1].temp} /\ h[k].temp = <<>>
           /\ IP[k] # mark => h[k].parts = h[k - 1].parts /\ h[k].temp = Append(h[k - 1].temp, IP[k])
      /\ h[n].parts = h[n - 1].parts \cup {Append(h[n - 1].temp, IP[n])}
      /\ AddressParts(IP, mark) = h[n].parts
  <2>1. n - 1 \in Nat /\ n \in 1..n /\ \A k \in 1..n - 1 : k \in 1..n /\ k # n
    <3> HIDE DEF n
    <3> QED BY <1>1
  <2>2. \A k \in 1..n :
          IF IP[k] = mark \/ k = n
            THEN /\ h[k].parts = h[k - 1].parts \cup
                       {IF IP[k] = mark THEN h[k - 1].temp ELSE Append(h[k - 1].temp, IP[k])}
                 /\ h[k].temp = <<>>
            ELSE /\ h[k].parts = h[k - 1].parts
                 /\ h[k].temp = IF IP[k] = mark THEN h[k - 1].temp
                                                ELSE Append(h[k - 1].temp, IP[k])
    BY <1>2 DEF AddressRuns
  <2>3. /\ h \in [0..n -> [parts : SUBSET Seq(S), temp : Seq(S)]]
        /\ h[0] = [parts |-> {}, temp |-> <<>>] /\ AddressParts(IP, mark) = h[n].parts
    BY <1>2 DEF AddressRuns
  <2>4. ASSUME NEW k \in 1..n - 1
        PROVE  /\ IP[k] = mark => h[k].parts = h[k - 1].parts \cup {h[k - 1].temp} /\ h[k].temp = <<>>
               /\ IP[k] # mark => h[k].parts = h[k - 1].parts /\ h[k].temp = Append(h[k - 1].temp, IP[k])
    <3> HIDE DEF n
    <3> QED BY <2>1, <2>2
  <2>5. h[n].parts = h[n - 1].parts \cup {Append(h[n - 1].temp, IP[n])}
    <3> HIDE DEF n
    <3> QED BY <1>1, <2>1, <2>2
  <2>6. h[0].parts = {} /\ h[0].temp = <<>>
    <3>1. h[0] = [parts |-> {}, temp |-> <<>>]
      BY <2>3
    <3> QED BY <3>1
  <2> HIDE DEF n
  <2> QED BY <2>3, <2>4, <2>5, <2>6
<1>4. \A k \in 1..n + 1 : /\ k \notin M => C(k) = C(k - 1)
                          /\ k \in M => \A a \in M : A(a, k) =>
                               C(k) = C(k - 1) \cup {SubSeq(IP, a + 1, k - 1)}
  BY CutOn
<1>5. C(0) = {} /\ C(n + 1) = PartsOf(IP, mark)
  <2>1. \A q \in M \X M : q[2] <= n + 1 /\ (A(q[1], q[2]) => ~(q[2] <= 0))
    <3>1. \A i \in M : i \in Int /\ 0 <= i /\ i <= n + 1
      BY <1>1
    <3>2. \A q \in M \X M : q[1] \in M /\ q[2] \in M
      OBVIOUS
    <3> QED BY <3>1, <3>2 DEF Adjacent
  <2>2. C(0) = {}
    BY <2>1 DEF Cut
  <2>3. C(n + 1) = PartsOf(IP, mark)
    <3>1. {q \in M \X M : q[2] <= n + 1 /\ A(q[1], q[2])} = {q \in M \X M : A(q[1], q[2])}
      BY <2>1
    <3>2. C(n + 1) = {SubSeq(IP, p[1] + 1, p[2] - 1) : p \in {q \in M \X M : q[2] <= n + 1 /\ A(q[1], q[2])}}
      BY DEF Cut
    <3>3. PartsOf(IP, mark) = {SubSeq(IP, p[1] + 1, p[2] - 1) : p \in {q \in M \X M : A(q[1], q[2])}}
      BY DEF PartsOf, Adjacent, Marks
    <3> HIDE DEF M, A, C, n
    <3> QED BY <3>1, <3>2, <3>3
  <2> QED BY <2>2, <2>3
<1>6. \A k \in 0..n, a \in M : a <= k /\ A(a, k + 1) => (k + 1 \notin M => A(a, k + 2))
  BY <1>1 DEF Adjacent
<1>7. A(0, 1) /\ \A k \in 1..n : k \in M => A(k, k + 1)
  BY <1>1 DEF Adjacent
<1>8. \A a \in 0..n, k \in 1..n : a < k =>
         Append(SubSeq(IP, a + 1, k - 1), IP[k]) = SubSeq(IP, a + 1, k)
  OBVIOUS
<1>9. \A k \in 0..n : SubSeq(IP, k + 1, k) = <<>>
  BY <1>1
<1> HIDE DEF n, M, A, C
<1> DEFINE Begun(k, a) == a <= k /\ A(a, k + 1) /\ h[k].temp = SubSeq(IP, a + 1, k)
           Q == {k \in 0..n - 1 : h[k].parts = C(k) /\ \E a \in M : Begun(k, a)}
<1>10. 0 \in Q
  <2>1. 0 \in 0..n - 1 /\ 0 \in 0..n /\ 0 + 1 = 1 /\ 0 <= 0
    BY <1>1
  <2>2. Begun(0, 0)
    BY <1>3, <1>7, <1>9, <2>1
  <2> QED BY <1>1, <1>3, <1>5, <2>1, <2>2
<1>11. ASSUME NEW k \in 1..n - 1, k - 1 \in Q PROVE k \in Q
  <2>0. /\ k \in 1..n /\ k \in 0..n - 1 /\ k \in 0..n /\ k \in 1..n + 1 /\ k - 1 \in 0..n
        /\ (k - 1) + 1 = k /\ (k - 1) + 2 = k + 1 /\ k <= k
    BY <1>1
  <2>1. PICK a \in M : Begun(k - 1, a)
    BY <1>11
  <2>2. /\ h[k - 1].parts = C(k - 1) /\ a \in 0..n /\ a < k /\ a <= k /\ A(a, k)
        /\ h[k - 1].temp = SubSeq(IP, a + 1, k - 1)
    <3>1. a <= k - 1 /\ A(a, k) /\ h[k - 1].temp = SubSeq(IP, a + 1, k - 1)
      <4>1. a <= k - 1 /\ A(a, (k - 1) + 1) /\ h[k - 1].temp = SubSeq(IP, a + 1, k - 1)
        BY <2>1
      <4> QED BY <2>0, <4>1
    <3>2. a \in 0..n + 1
      BY <1>1
    <3>3. a \in 0..n /\ a < k /\ a <= k
      BY <1>1, <2>0, <3>1, <3>2
    <3> QED BY <1>11, <3>1, <3>3
  <2>3. CASE IP[k] = mark
    <3>1. k \in M
      BY <1>1, <2>0, <2>3
    <3>2. h[k].parts = C(k) /\ h[k].temp = <<>>
      <4>1. h[k].parts = h[k - 1].parts \cup {h[k - 1].temp} /\ h[k].temp = <<>>
        BY <1>3, <2>3
      <4>2. C(k) = C(k - 1) \cup {SubSeq(IP, a + 1, k - 1)}
        BY <1>4, <2>0, <2>2, <3>1
      <4> QED BY <2>2, <4>1, <4>2
    <3>3. Begun(k, k)
      BY <1>7, <1>9, <2>0, <3>1, <3>2
    <3> QED BY <2>0, <3>1, <3>2, <3>3
  <2>4. CASE IP[k] # mark
    <3>1. k \notin M
      BY <1>1, <2>0, <2>4
    <3>2. h[k].parts = C(k) /\ h[k].temp = Append(h[k - 1].temp, IP[k])
      <4>1. h[k].parts = h[k - 1].parts /\ h[k].temp = Append(h[k - 1].temp, IP[k])
        BY <1>3, <2>4
      <4>2. C(k) = C(k - 1)
        BY <1>4, <2>0, <3>1
      <4> QED BY <2>2, <4>1, <4>2
    <3>3. A(a, k + 1)
      <4>1. A(a, (k - 1) + 1) /\ a <= k - 1
        BY <2>1
      <4>2. A(a, (k - 1) + 2)
        BY <1>6, <2>0, <3>1, <4>1
      <4> QED BY <2>0, <4>2
    <3>4. h[k].temp = SubSeq(IP, a + 1, k)
      BY <1>8, <2>0, <2>2, <3>2
    <3>5. Begun(k, a)
      BY <2>2, <3>3, <3>4
    <3> QED BY <2>0, <3>2, <3>5
  <2> QED BY <2>3, <2>4
<1>12. n - 1 \in Q
  <2> HIDE DEF Q
  <2>1. n - 1 \in Nat
    BY <1>1
  <2>2. 0..n - 1 \subseteq Q
    BY <1>10, <1>11, <2>1, UpTo
  <2> QED BY <2>1, <2>2
<1>13. PICK a \in M : Begun(n - 1, a)
  BY <1>12
<1>14. h[n - 1].parts = C(n) /\ a \in 0..n /\ a < n /\ A(a, n + 1)
  <2>1. n \notin M /\ n \in 1..n + 1
    BY <1>1
  <2>2. C(n) = C(n - 1)
    BY <1>4, <2>1
  <2>3. A(a, n + 1)
    BY <1>1, <1>6, <1>13, <2>1
  <2> QED BY <1>1, <1>12, <1>13, <2>2, <2>3
<1>15. Append(h[n - 1].temp, IP[n]) = SubSeq(IP, a + 1, n)
  BY <1>1, <1>8, <1>13, <1>14
<1>16. C(n + 1) = C(n) \cup {SubSeq(IP, a + 1, n)}
  BY <1>1, <1>4, <1>14
<1> QED BY <1>3, <1>5, <1>14, <1>15, <1>16

\* The parts are texts of the same characters; what is not a mark is in one of
\* them; and after a mark at the end there is an empty one.
LEMMA PartsCover ==
  ASSUME NEW S, NEW IP \in Seq(S), NEW mark
  PROVE  /\ PartsOf(IP, mark) \subseteq Seq(S)
         /\ \A i \in 1..Len(IP) : IP[i] # mark =>
              \E part \in PartsOf(IP, mark) : \E j \in 1..Len(part) : part[j] = IP[i]
         /\ IP # <<>> /\ Last(IP) = mark => <<>> \in PartsOf(IP, mark)
<1> DEFINE n == Len(IP)
           M == Marks(IP, mark)
           A(a, b) == Adjacent(IP, mark, a, b)
<1>1. /\ n \in Nat /\ M \subseteq 0..n + 1 /\ 0 \in M /\ n + 1 \in M
      /\ \A i \in 1..n : i \in M <=> IP[i] = mark
      /\ \A i \in 1..n : IP[i] \in S
  BY DEF Marks
<1>2. PartsOf(IP, mark) =
        {SubSeq(IP, p[1] + 1, p[2] - 1) : p \in {q \in M \X M : A(q[1], q[2])}}
  BY DEF PartsOf, Adjacent, Marks
<1>3. \A a, b \in 0..n + 1 :
         /\ SubSeq(IP, a + 1, b - 1) \in Seq(S)
         /\ \A i \in a + 1..b - 1 : /\ i - a \in 1..Len(SubSeq(IP, a + 1, b - 1))
                                    /\ SubSeq(IP, a + 1, b - 1)[i - a] = IP[i]
  OBVIOUS
<1>4. SubSeq(IP, n + 1, n) = <<>>
  BY <1>1
<1> HIDE DEF n, M, A
<1>5. \A a, b \in M : A(a, b) => SubSeq(IP, a + 1, b - 1) \in PartsOf(IP, mark)
  <2>1. ASSUME NEW a \in M, NEW b \in M, A(a, b)
        PROVE  \E p \in {q \in M \X M : A(q[1], q[2])} :
                 SubSeq(IP, a + 1, b - 1) = SubSeq(IP, p[1] + 1, p[2] - 1)
    <3> DEFINE p == <<a, b>>
    <3>1. p \in M \X M /\ p[1] = a /\ p[2] = b
      OBVIOUS
    <3> HIDE DEF p
    <3> QED BY <2>1, <3>1
  <2> QED BY <1>2, <2>1
<1>6. PartsOf(IP, mark) \subseteq Seq(S)
  <2>1. ASSUME NEW q \in M \X M PROVE SubSeq(IP, q[1] + 1, q[2] - 1) \in Seq(S)
    <3>1. q[1] \in 0..n + 1 /\ q[2] \in 0..n + 1
      BY <1>1
    <3> QED BY <1>3, <3>1
  <2> QED BY <1>2, <2>1
<1>7. ASSUME NEW i \in 1..n, IP[i] # mark
      PROVE  \E part \in PartsOf(IP, mark) : \E j \in 1..Len(part) : part[j] = IP[i]
  <2> DEFINE Above == {k \in M : i < k}
             Under == {d \in 0..i : i - d \in M}
  <2>0. i \notin M /\ i \in Nat
    BY <1>1, <1>7
  <2>1. PICK b \in Above : \A k \in Above : b <= k
    <3>1. Above \in SUBSET Nat /\ n + 1 \in Above
      <4>1. M \subseteq Nat /\ i < n + 1
        BY <1>1
      <4> QED BY <1>1, <4>1
    <3> HIDE DEF Above
    <3> QED BY <3>1, LeastNumber
  <2>2. PICK d \in Under : \A k \in Under : d <= k
    <3>1. Under \in SUBSET Nat /\ i \in Under
      BY <1>1
    <3> HIDE DEF Under
    <3> QED BY <3>1, LeastNumber
  <2> DEFINE a == i - d
  <2>3. a \in M /\ b \in M /\ a \in 0..n + 1 /\ b \in 0..n + 1 /\ a <= i /\ i < b
    BY <1>1, <2>0
  <2>4. a < i
    <3>1. a # i
      BY <2>0, <2>3
    <3> HIDE DEF a
    <3> QED BY <2>3, <3>1
  <2>5. A(a, b)
    <3>1. ASSUME NEW k \in M PROVE k <= a \/ k >= b
      <4>1. k \in Int /\ 0 <= k /\ k # i
        BY <1>1, <2>0
      <4>2. CASE k > i
        <5>1. b <= k
          BY <2>1, <4>2
        <5> QED BY <2>3, <4>1, <5>1
      <4>3. CASE k < i
        <5>1. i - k \in 0..i /\ i - (i - k) = k
          BY <4>1, <4>3
        <5>2. d <= i - k
          BY <2>2, <5>1
        <5> QED BY <4>1, <5>2
      <4> QED BY <4>1, <4>2, <4>3
    <3>2. a < b
      <4> HIDE DEF a
      <4> QED BY <2>3
    <3> HIDE DEF a
    <3> QED BY <3>1, <3>2 DEF A, M, Adjacent
  <2> HIDE DEF a
  <2>6. i \in a + 1..b - 1
    BY <2>3, <2>4
  <2>7. SubSeq(IP, a + 1, b - 1) \in PartsOf(IP, mark)
    BY <1>5, <2>3, <2>5
  <2> QED BY <1>3, <2>3, <2>6, <2>7
<1>8. ASSUME IP # <<>>, Last(IP) = mark PROVE <<>> \in PartsOf(IP, mark)
  <2>1. n \in 1..n /\ IP[n] = mark
    BY <1>8, EmptySeq DEF n, Last
  <2>2. n \in M /\ n + 1 \in M
    BY <1>1, <2>1
  <2>3. A(n, n + 1)
    BY <1>1 DEF A, M, Adjacent
  <2>4. SubSeq(IP, n + 1, (n + 1) - 1) \in PartsOf(IP, mark)
    BY <1>5, <2>2, <2>3
  <2>5. (n + 1) - 1 = n
    BY <1>1
  <2> QED BY <1>4, <2>4, <2>5
<1> QED BY <1>6, <1>7, <1>8 DEF n

\* The numbers and the groups are not empty, and hold no mark.
LEMMA PiecesAre ==
  /\ \A temp \in Numerals : temp \in Seq(Byte) /\ Len(temp) \in 1..3 /\ \A j \in 1..Len(temp) : temp[j] \in Digit
  /\ \A temp \in Groups : Len(temp) \in 1..4 /\ \A j \in 1..Len(temp) : temp[j] \in HexDigit
  /\ <<>> \notin Numerals /\ <<>> \notin Groups
<1>1. ASSUME NEW temp \in Numerals PROVE temp \in Seq(Byte)
  <2>1. PICK v \in 0..255 : temp = to_string(v)
    BY DEF Numerals
  <2>2. CASE v < 10
    <3>1. temp = <<48 + v>> /\ 48 + v \in Byte
      BY <2>1, <2>2 DEF to_string, Byte
    <3> QED BY <3>1
  <2>3. CASE v \in 10..99
    <3>1. temp = <<48 + (v \div 10), 48 + (v % 10)>> /\ 48 + (v \div 10) \in Byte /\ 48 + (v % 10) \in Byte
      BY <2>1, <2>3 DEF to_string, Byte
    <3> QED BY <3>1
  <2>4. CASE v \in 100..255
    <3>1. temp = <<48 + (v \div 100), 48 + ((v \div 10) % 10), 48 + (v % 10)>>
      BY <2>1, <2>4 DEF to_string
    <3>2. v \div 100 \in 0..9 /\ (v \div 10) % 10 \in 0..9 /\ v % 10 \in 0..9
      BY <2>4
    <3>3. \A k \in 0..9 : 48 + k \in Byte
      BY DEF Byte
    <3>4. 48 + (v \div 100) \in Byte /\ 48 + ((v \div 10) % 10) \in Byte /\ 48 + (v % 10) \in Byte
      BY <3>2, <3>3
    <3> QED BY <3>1, <3>4
  <2> QED BY <2>2, <2>3, <2>4
<1>2. ASSUME NEW temp \in Numerals
      PROVE  Len(temp) \in 1..3 /\ \A j \in 1..Len(temp) : temp[j] \in Digit
  BY <1>1, NumberIs DEF IsNumber, ToSet
<1>3. ASSUME NEW temp \in Groups
      PROVE  Len(temp) \in 1..4 /\ \A j \in 1..Len(temp) : temp[j] \in HexDigit
  <2>1. PICK n \in 1..4 : temp \in [1..n -> HexDigit]
    BY DEF Groups
  <2>2. Len(temp) = n
    BY <2>1
  <2> QED BY <2>1, <2>2
<1>4. Len(<<>>) \notin 1..3 /\ Len(<<>>) \notin 1..4
  BY EmptySeq
<1> QED BY <1>1, <1>2, <1>3, <1>4

\* The two checks of an address.
LEMMA ChecksAre ==
  ASSUME NEW IP \in Seq(Byte)
  PROVE  /\ isIPv4(IP) <=> IsDotted(IP)
         /\ isIPv6(IP) <=> IsGrouped(IP)
<1>1. ASSUME NEW mark, Occurrences(IP, mark) # 0 PROVE IP # <<>>
  <2>1. IP = <<>> => {i \in 1..Len(IP) : IP[i] = mark} = {}
    BY EmptySeq
  <2> QED BY <1>1, <2>1, FS_EmptySet DEF Occurrences
<1>2. \A mark : IP # <<>> /\ Last(IP) # mark => AddressParts(IP, mark) = PartsOf(IP, mark)
  BY LoopCuts
<1>3. \A mark : /\ PartsOf(IP, mark) \subseteq Seq(Byte)
                /\ IP # <<>> /\ Last(IP) = mark => <<>> \in PartsOf(IP, mark)
  BY PartsCover
<1>4. isIPv4(IP) <=> IsDotted(IP)
  <2>1. ASSUME isIPv4(IP) PROVE IsDotted(IP)
    <3>1. IP # <<>> /\ Last(IP) # Period
      BY <1>1, <2>1 DEF isIPv4
    <3> QED BY <1>2, <1>3, <2>1, <3>1, NumberIs DEF isIPv4, IsDotted
  <2>2. ASSUME IsDotted(IP) PROVE isIPv4(IP)
    <3>1. IP # <<>>
      BY <1>1, <2>2 DEF IsDotted
    <3>2. Last(IP) # Period
      BY <1>3, <2>2, <3>1, PiecesAre DEF IsDotted
    <3> QED BY <1>2, <1>3, <2>2, <3>1, <3>2, NumberIs DEF isIPv4, IsDotted
  <2> QED BY <2>1, <2>2
<1>5. isIPv6(IP) <=> IsGrouped(IP)
  <2>1. ASSUME isIPv6(IP) PROVE IsGrouped(IP)
    <3>1. IP # <<>> /\ Last(IP) # Colon
      BY <1>1, <2>1 DEF isIPv6
    <3> QED BY <1>2, <1>3, <2>1, <3>1, GroupIs DEF isIPv6, IsGrouped
  <2>2. ASSUME IsGrouped(IP) PROVE isIPv6(IP)
    <3>1. IP # <<>>
      BY <1>1, <2>2 DEF IsGrouped
    <3>2. Last(IP) # Colon
      BY <1>3, <2>2, <3>1, PiecesAre DEF IsGrouped
    <3> QED BY <1>2, <1>3, <2>2, <3>1, <3>2, GroupIs DEF isIPv6, IsGrouped
  <2> QED BY <2>1, <2>2
<1> QED BY <1>4, <1>5

\* The first dot or colon decides between the two as they would themselves.
LEMMA ValidIs ==
  ASSUME NEW IP \in Seq(Byte)
  PROVE  /\ IsDotted(IP) => validIPAddress(IP) = "IPv4" /\ ~IsGrouped(IP)
         /\ IsGrouped(IP) => validIPAddress(IP) = "IPv6"
         /\ ~IsDotted(IP) /\ ~IsGrouped(IP) => validIPAddress(IP) = "Neither"
<1> DEFINE I == {k \in 1..Len(IP) : IP[k] \in {Period, Colon}}
           i == SelectInSeq(IP, LAMBDA c : c \in {Period, Colon})
<1>1. i = IF I # {} THEN Min(I) ELSE 0
  BY DEF SelectInSeq
<1>2. I # {} => i \in I /\ i # 0
  <2> SUFFICES ASSUME I # {} PROVE i \in I /\ i # 0
    OBVIOUS
  <2>1. I \in SUBSET Nat /\ 0 \notin I
    OBVIOUS
  <2> HIDE DEF I
  <2>2. PICK m \in I : \A k \in I : m <= k
    BY <2>1, LeastNumber
  <2>3. Min(I) \in I
    BY <2>2 DEF Min
  <2> HIDE DEF i
  <2> QED BY <1>1, <2>1, <2>3
<1>3. validIPAddress(IP) =
        IF i = 0 THEN "Neither"
        ELSE IF IP[i] = Period THEN IF isIPv4(IP) THEN "IPv4" ELSE "Neither"
        ELSE IF isIPv6(IP) THEN "IPv6" ELSE "Neither"
  BY DEF validIPAddress
<1> HIDE DEF i
<1>4. ASSUME NEW mark, Occurrences(IP, mark) # 0 PROVE \E k \in 1..Len(IP) : IP[k] = mark
  <2>1. {k \in 1..Len(IP) : IP[k] = mark} # {}
    BY <1>4, FS_EmptySet DEF Occurrences
  <2> QED BY <2>1
<1>5. Colon \notin Digit /\ Period \notin HexDigit /\ Period # Colon
  BY DEF Colon, Period, Digit, HexDigit
<1>6. ASSUME IsDotted(IP) PROVE I # {} /\ \A k \in 1..Len(IP) : IP[k] # Colon
  <2>1. PICK k \in 1..Len(IP) : IP[k] = Period
    BY <1>4, <1>6 DEF IsDotted
  <2>2. \A k_1 \in 1..Len(IP) : IP[k_1] # Period => IP[k_1] \in Digit
    BY <1>6, PartsCover, PiecesAre DEF IsDotted
  <2> QED BY <1>5, <2>1, <2>2
<1>7. ASSUME IsGrouped(IP) PROVE I # {} /\ \A k \in 1..Len(IP) : IP[k] # Period
  <2>1. PICK k \in 1..Len(IP) : IP[k] = Colon
    BY <1>4, <1>7 DEF IsGrouped
  <2>2. \A k_1 \in 1..Len(IP) : IP[k_1] # Colon => IP[k_1] \in HexDigit
    BY <1>7, PartsCover, PiecesAre DEF IsGrouped
  <2> QED BY <1>5, <2>1, <2>2
<1>8. IsDotted(IP) => ~IsGrouped(IP)
  BY <1>4, <1>7 DEF IsDotted
<1>9. ASSUME IsDotted(IP) PROVE validIPAddress(IP) = "IPv4"
  <2>1. i # 0 /\ IP[i] = Period
    BY <1>2, <1>6, <1>9
  <2> QED BY <1>3, <1>9, <2>1, ChecksAre
<1>10. ASSUME IsGrouped(IP) PROVE validIPAddress(IP) = "IPv6"
  <2>1. i # 0 /\ IP[i] # Period
    BY <1>2, <1>7, <1>10
  <2> QED BY <1>3, <1>10, <2>1, ChecksAre
<1>11. ~IsDotted(IP) /\ ~IsGrouped(IP) => validIPAddress(IP) = "Neither"
  BY <1>3, ChecksAre
<1> QED BY <1>8, <1>9, <1>10, <1>11

\* Two texts with a character between them.
LEMMA Joined ==
  ASSUME NEW S, NEW u \in Seq(S), NEW x \in S, NEW v \in Seq(S)
  PROVE  /\ u \o <<x>> \o v \in Seq(S) /\ Len(u \o <<x>> \o v) = Len(u) + 1 + Len(v)
         /\ \A i \in 1..Len(u) : (u \o <<x>> \o v)[i] = u[i]
         /\ (u \o <<x>> \o v)[Len(u) + 1] = x
         /\ \A j \in 1..Len(v) : (u \o <<x>> \o v)[(Len(u) + 1) + j] = v[j]
<1>1. /\ u \o <<x>> \in Seq(S) /\ Len(u \o <<x>>) = Len(u) + 1
      /\ \A i \in 1..Len(u) : (u \o <<x>>)[i] = u[i]
      /\ (u \o <<x>>)[Len(u) + 1] = x
  OBVIOUS
<1>2. Len(u) \in Nat /\ Len(v) \in Nat
  OBVIOUS
<1> DEFINE w == u \o <<x>>
<1>3. /\ w \o v \in Seq(S) /\ Len(w \o v) = Len(w) + Len(v)
      /\ \A i \in 1..Len(w) + Len(v) : (w \o v)[i] = IF i <= Len(w) THEN w[i] ELSE v[i - Len(w)]
  <2> HIDE DEF w
  <2> QED BY <1>1, ConcatProperties DEF w
<1> HIDE DEF w
<1>4. \A j \in 1..Len(v) : /\ (Len(u) + 1) + j \in 1..(Len(u) + 1) + Len(v)
                           /\ ~((Len(u) + 1) + j <= Len(u) + 1)
                           /\ ((Len(u) + 1) + j) - (Len(u) + 1) = j
  BY <1>2
<1>5. \A i \in 1..Len(u) + 1 : i \in 1..(Len(u) + 1) + Len(v) /\ i <= Len(u) + 1
  BY <1>2
<1>6. \A i \in 1..Len(u) : i \in 1..Len(u) + 1
  BY <1>2
<1>7. Len(u) + 1 \in 1..Len(u) + 1
  BY <1>2
<1> QED BY <1>1, <1>3, <1>4, <1>5, <1>6, <1>7 DEF w

\* A part of a text, by its characters.
LEMMA PartIs ==
  ASSUME NEW S, NEW IP \in Seq(S), NEW t \in Seq(S), NEW x \in Nat, x + Len(t) <= Len(IP),
         \A j \in 1..Len(t) : IP[x + j] = t[j]
  PROVE  SubSeq(IP, x + 1, x + Len(t)) = t
<1> DEFINE s == SubSeq(IP, x + 1, x + Len(t))
<1>1. Len(t) \in Nat /\ Len(IP) \in Nat
  OBVIOUS
<1>2. s \in Seq(S) /\ Len(s) = Len(t) /\ \A j \in 1..Len(t) : s[j] = IP[x + j]
  <2>0. /\ x + 1 \in Int /\ x + Len(t) \in Int
        /\ \A i \in x + 1..x + Len(t) : IP[i] \in S
    <3>1. \A i \in x + 1..x + Len(t) : i \in 1..Len(IP)
      BY <1>1
    <3> QED BY <1>1, <3>1
  <2>1. /\ s \in Seq(S)
        /\ Len(s) = IF x + 1 <= x + Len(t) THEN (x + Len(t)) - (x + 1) + 1 ELSE 0
        /\ \A j \in 1..(x + Len(t)) - (x + 1) + 1 : s[j] = IP[(x + 1) + j - 1]
    BY <2>0, SubSeqProperties
  <2>2. Len(s) = Len(t)
    BY <1>1, <2>1
  <2>3. /\ (x + Len(t)) - (x + 1) + 1 = Len(t)
        /\ \A j \in 1..Len(t) : (x + 1) + j - 1 = x + j
    BY <1>1
  <2> QED BY <2>1, <2>2, <2>3
<1> HIDE DEF s
<1>3. s = t
  BY <1>2, SeqEqual
<1> QED BY <1>3 DEF s

\* Four numbers with dots between them.
LEMMA DottedIs ==
  ASSUME NEW a \in Numerals, NEW b \in Numerals, NEW c \in Numerals, NEW d \in Numerals
  PROVE  /\ a \o <<Period>> \o b \o <<Period>> \o c \o <<Period>> \o d \in Seq(Byte)
         /\ IsDotted(a \o <<Period>> \o b \o <<Period>> \o c \o <<Period>> \o d)
<1> DEFINE u == a \o <<Period>> \o b
           v == u \o <<Period>> \o c
           g == v \o <<Period>> \o d
           p == Len(a) + 1
           q == Len(u) + 1
           r == Len(v) + 1
           n == Len(g)
<1>1. Period \in Byte /\ Period \notin Digit
  BY DEF Period, Byte, Digit
<1>2. /\ a \in Seq(Byte) /\ b \in Seq(Byte) /\ c \in Seq(Byte) /\ d \in Seq(Byte)
      /\ Len(a) \in Nat /\ Len(b) \in Nat /\ Len(c) \in Nat /\ Len(d) \in Nat
      /\ \A j \in 1..Len(a) : a[j] # Period
      /\ \A j \in 1..Len(b) : b[j] # Period
      /\ \A j \in 1..Len(c) : c[j] # Period
      /\ \A j \in 1..Len(d) : d[j] # Period
  BY <1>1, PiecesAre
<1>3. /\ u \in Seq(Byte) /\ Len(u) = p + Len(b) /\ \A j \in 1..Len(a) : u[j] = a[j]
      /\ u[p] = Period /\ \A j \in 1..Len(b) : u[p + j] = b[j]
  BY <1>1, <1>2, Joined
<1> HIDE DEF u
<1>4. /\ v \in Seq(Byte) /\ Len(v) = q + Len(c) /\ \A j \in 1..Len(u) : v[j] = u[j]
      /\ v[q] = Period /\ \A j \in 1..Len(c) : v[q + j] = c[j]
  <2>1. u \in Seq(Byte) /\ c \in Seq(Byte) /\ Period \in Byte
    BY <1>1, <1>2, <1>3
  <2> QED BY <2>1, Joined
<1> HIDE DEF v
<1>5. /\ g \in Seq(Byte) /\ n = r + Len(d) /\ \A j \in 1..Len(v) : g[j] = v[j]
      /\ g[r] = Period /\ \A j \in 1..Len(d) : g[r + j] = d[j]
  <2>1. v \in Seq(Byte) /\ d \in Seq(Byte) /\ Period \in Byte
    BY <1>1, <1>2, <1>4
  <2> QED BY <2>1, Joined
<1> HIDE DEF g
<1>6. /\ p = Len(a) + 1 /\ q = (p + Len(b)) + 1 /\ r = (q + Len(c)) + 1 /\ n = r + Len(d)
      /\ p \in Nat /\ q \in Nat /\ r \in Nat /\ n \in Nat
      /\ Len(u) = q - 1 /\ Len(v) = r - 1
  BY <1>2, <1>3, <1>4, <1>5
<1> HIDE DEF p, q, r, n
<1>7. /\ \A j \in 1..Len(a) : g[0 + j] = a[j]
      /\ \A j \in 1..Len(b) : g[p + j] = b[j]
      /\ \A j \in 1..Len(c) : g[q + j] = c[j]
      /\ \A j \in 1..Len(d) : g[r + j] = d[j]
      /\ g[p] = Period /\ g[q] = Period /\ g[r] = Period
  <2>1. /\ Len(a) <= Len(u) /\ p + Len(b) <= Len(u) /\ q + Len(c) <= Len(v) /\ Len(u) <= Len(v)
        /\ Len(a) \in Nat /\ Len(b) \in Nat /\ Len(c) \in Nat /\ Len(u) \in Nat /\ Len(v) \in Nat
        /\ p \in 1..Len(u) /\ q \in 1..Len(v) /\ p \in Nat /\ q \in Nat
    BY <1>2, <1>6
  <2>2. /\ \A j \in 1..Len(a) : j \in 1..Len(u) /\ 0 + j = j
        /\ \A j \in 1..Len(u) : j \in 1..Len(v)
    BY <2>1
  <2>3. \A j \in 1..Len(b) : p + j \in 1..Len(u)
    BY <2>1
  <2>4. \A j \in 1..Len(c) : q + j \in 1..Len(v)
    BY <2>1
  <2>5. \A j \in 1..Len(u) : g[j] = u[j]
    BY <1>4, <1>5, <2>2
  <2>6. \A j \in 1..Len(a) : g[0 + j] = a[j]
    BY <1>3, <2>2, <2>5
  <2>7. (\A j \in 1..Len(b) : g[p + j] = b[j]) /\ g[p] = Period
    BY <1>3, <2>1, <2>3, <2>5
  <2>8. (\A j \in 1..Len(c) : g[q + j] = c[j]) /\ g[q] = Period
    BY <1>4, <1>5, <2>1, <2>4
  <2> QED BY <1>5, <2>6, <2>7, <2>8
<1>8. {i \in 1..n : g[i] = Period} = {p, q, r} /\ p < q /\ q < r
  <2>1. p < q /\ q < r /\ p \in 1..n /\ q \in 1..n /\ r \in 1..n
    BY <1>2, <1>6
  <2>2. ASSUME NEW i \in 1..n, i \notin {p, q, r} PROVE g[i] # Period
    <3>1. \/ i \in 1..Len(a) /\ 0 + i = i
          \/ i - p \in 1..Len(b) /\ p + (i - p) = i
          \/ i - q \in 1..Len(c) /\ q + (i - q) = i
          \/ i - r \in 1..Len(d) /\ r + (i - r) = i
      <4>1. i \in Int /\ 1 <= i /\ i <= r + Len(d) /\ i # p /\ i # q /\ i # r
        BY <1>6, <2>2
      <4>2. Len(a) \in Nat /\ Len(b) \in Nat /\ Len(c) \in Nat /\ Len(d) \in Nat
        BY <1>2
      <4>3. CASE i < p
        <5>1. p = Len(a) + 1
          BY <1>6
        <5> QED BY <4>1, <4>2, <4>3, <5>1
      <4>4. CASE p < i /\ i < q
        <5>1. q = (p + Len(b)) + 1 /\ p \in Nat
          BY <1>6
        <5> QED BY <4>1, <4>2, <4>4, <5>1
      <4>5. CASE q < i /\ i < r
        <5>1. r = (q + Len(c)) + 1 /\ q \in Nat
          BY <1>6
        <5> QED BY <4>1, <4>2, <4>5, <5>1
      <4>6. CASE r < i
        <5>1. r \in Nat
          BY <1>6
        <5> QED BY <4>1, <4>2, <4>6, <5>1
      <4> QED BY <1>6, <4>1, <4>3, <4>4, <4>5, <4>6
    <3>2. CASE i \in 1..Len(a) /\ 0 + i = i
      <4>1. g[i] = a[i]
        BY <1>7, <3>2
      <4> QED BY <1>2, <3>2, <4>1
    <3>3. CASE i - p \in 1..Len(b) /\ p + (i - p) = i
      <4>1. g[i] = b[i - p]
        BY <1>7, <3>3
      <4> QED BY <1>2, <3>3, <4>1
    <3>4. CASE i - q \in 1..Len(c) /\ q + (i - q) = i
      <4>1. g[i] = c[i - q]
        BY <1>7, <3>4
      <4> QED BY <1>2, <3>4, <4>1
    <3>5. CASE i - r \in 1..Len(d) /\ r + (i - r) = i
      <4>1. g[i] = d[i - r]
        BY <1>7, <3>5
      <4> QED BY <1>2, <3>5, <4>1
    <3> QED BY <3>1, <3>2, <3>3, <3>4, <3>5
  <2> QED BY <1>7, <2>1, <2>2
<1>9. Occurrences(g, Period) = 3
  <2>1. IsFiniteSet({p}) /\ Cardinality({p}) = 1
    BY FS_Singleton
  <2>2. IsFiniteSet({p} \cup {q}) /\ Cardinality({p} \cup {q}) = 2
    <3>1. q \notin {p}
      BY <1>6, <1>8
    <3>2. IsFiniteSet({p} \cup {q}) /\ Cardinality({p} \cup {q}) = Cardinality({p}) + 1
      BY <2>1, <3>1, FS_AddElement
    <3> QED BY <2>1, <3>2
  <2>3. Cardinality(({p} \cup {q}) \cup {r}) = 3
    <3>1. r \notin {p} \cup {q}
      BY <1>6, <1>8
    <3>2. Cardinality(({p} \cup {q}) \cup {r}) = Cardinality({p} \cup {q}) + 1
      BY <2>2, <3>1, FS_AddElement
    <3> QED BY <2>2, <3>2
  <2>4. ({p} \cup {q}) \cup {r} = {p, q, r}
    OBVIOUS
  <2> QED BY <1>8, <2>3, <2>4 DEF Occurrences, n
<1>10. /\ SubSeq(g, 0 + 1, p - 1) = a
       /\ SubSeq(g, p + 1, q - 1) = b
       /\ SubSeq(g, q + 1, r - 1) = c
       /\ SubSeq(g, r + 1, (n + 1) - 1) = d
  <2>1. /\ p - 1 = 0 + Len(a) /\ q - 1 = p + Len(b) /\ r - 1 = q + Len(c) /\ (n + 1) - 1 = r + Len(d)
        /\ 0 + Len(a) <= n /\ p + Len(b) <= n /\ q + Len(c) <= n /\ r + Len(d) <= n /\ 0 \in Nat
    BY <1>2, <1>6
  <2>2. SubSeq(g, 0 + 1, 0 + Len(a)) = a
    BY <1>2, <1>5, <1>7, <2>1, PartIs DEF n
  <2>3. SubSeq(g, p + 1, p + Len(b)) = b
    BY <1>2, <1>5, <1>6, <1>7, <2>1, PartIs DEF n
  <2>4. SubSeq(g, q + 1, q + Len(c)) = c
    BY <1>2, <1>5, <1>6, <1>7, <2>1, PartIs DEF n
  <2>5. SubSeq(g, r + 1, r + Len(d)) = d
    BY <1>2, <1>5, <1>6, <1>7, <2>1, PartIs DEF n
  <2> QED BY <2>1, <2>2, <2>3, <2>4, <2>5
<1>11. PartsOf(g, Period) \subseteq Numerals
  <2> DEFINE M == {p, q, r} \cup {0, n + 1}
  <2>1. PartsOf(g, Period) =
          {SubSeq(g, m[1] + 1, m[2] - 1) :
             m \in {w \in M \X M : w[1] < w[2] /\ \A k \in M : k <= w[1] \/ k >= w[2]}}
    BY <1>8 DEF PartsOf, n
  <2>2. ASSUME NEW x \in M, NEW y \in M, x < y, \A k \in M : k <= x \/ k >= y
        PROVE  SubSeq(g, x + 1, y - 1) \in Numerals
    <3>1. 0 < p /\ p < q /\ q < r /\ r < n + 1 /\ n \in Nat
      BY <1>2, <1>6
    <3>2. \/ x = 0 /\ y = p
          \/ x = p /\ y = q
          \/ x = q /\ y = r
          \/ x = r /\ y = n + 1
      BY <1>6, <2>2, <3>1
    <3> QED BY <1>10, <3>2
  <2>3. ASSUME NEW m \in M \X M, m[1] < m[2], \A k \in M : k <= m[1] \/ k >= m[2]
        PROVE  SubSeq(g, m[1] + 1, m[2] - 1) \in Numerals
    <3>1. m[1] \in M /\ m[2] \in M
      OBVIOUS
    <3> HIDE DEF M
    <3> QED BY <2>2, <2>3, <3>1
  <2> HIDE DEF M
  <2> QED BY <2>1, <2>3
<1> QED BY <1>5, <1>9, <1>11 DEF IsDotted, g, v, u

\* The four parts of AddressesMatch hold of every text.
LEMMA AddressesAre ==
  ASSUME text \in Seq(Byte)
  PROVE  AddressesMatch
<1>1. isIPv4(text) <=> IsDotted(text)
  BY ChecksAre
<1>2. isIPv6(text) <=> IsGrouped(text)
  BY ChecksAre
<1>3. validIPAddress(text) = CASE IsDotted(text) -> "IPv4"
                               [] IsGrouped(text) -> "IPv6"
                               [] OTHER -> "Neither"
  BY ValidIs
<1>4. ASSUME Len(text) = 4 PROVE validIPAddress(getIpStr(text)) = "IPv4"
  <2>1. \A i \in 1..4 : to_string(text[i]) \in Numerals
    <3>1. \A i \in 1..4 : text[i] \in 0..255
      <4>1. \A i \in 1..Len(text) : text[i] \in Byte
        OBVIOUS
      <4> QED BY <1>4, <4>1 DEF Byte
    <3> QED BY <3>1 DEF Numerals
  <2>2. getIpStr(text) \in Seq(Byte) /\ IsDotted(getIpStr(text))
    <3>1. /\ to_string(text[1]) \in Numerals /\ to_string(text[2]) \in Numerals
          /\ to_string(text[3]) \in Numerals /\ to_string(text[4]) \in Numerals
      BY <2>1
    <3> QED BY <3>1, DottedIs, Zenon DEF getIpStr
  <2> QED BY <2>2, ValidIs
<1> QED BY <1>1, <1>2, <1>3, <1>4 DEF AddressesMatch

\* CreatePathMakesAll holds of every text.
LEMMA WaysMade ==
  ASSUME text \in Seq(Byte)
  PROVE  CreatePathMakesAll
<1> DEFINE P == Named(text)
           A == Seq(Byte)
<1>1. P \in Seq(A) /\ Len(P) \in Nat
  <2>2. Named(text) \in Seq(Seq(Byte))
    BY NamedType
  <2> HIDE DEF P, A
  <2> QED BY <2>2 DEF P, A
<1>2. \A d \in 1..Len(P) : Len(Way(P, d)) = d
  <2> HIDE DEF P, A
  <2> QED BY <1>1, WayIs
<1>3. OnTheWay(text) = {Way(P, d) : d \in 1..Len(P)}
  BY DEF OnTheWay, Way
<1> HIDE DEF P, A
<1>4. ASSUME NEW n \in 0..Len(P), NEW refused
      PROVE  LET before == {d \in OnTheWay(text) : Len(d) <= n}
             IN  CreatePath(text, before, refused) =
                   before \cup {d \in OnTheWay(text) :
                     \A e \in OnTheWay(text) : Len(e) \in n+1..Len(d) => e \notin refused}
  <2> DEFINE before == {d \in OnTheWay(text) : Len(d) <= n}
             made == {d \in OnTheWay(text) :
                        \A e \in OnTheWay(text) : Len(e) \in n+1..Len(d) => e \notin refused}
  <2>1. before = {Way(P, d) : d \in 1..n}
    <3>1. \A d \in 1..n : d \in 1..Len(P) /\ d <= n
      BY <1>1
    <3>2. \A d \in 1..Len(P) : d <= n => d \in 1..n
      BY <1>1
    <3> QED BY <1>2, <1>3, <3>1, <3>2
  <2>2. \A d \in 1..Len(P) : Way(P, d) \in made <=> Free(P, n, refused, d)
    <3>1. \A d \in 1..Len(P), e \in Int : e \in n + 1..d => e \in 1..Len(P)
      BY <1>1
    <3>2. ASSUME NEW d \in 1..Len(P)
          PROVE  (\A e \in OnTheWay(text) : Len(e) \in n + 1..Len(Way(P, d)) => e \notin refused)
                   <=> Free(P, n, refused, d)
      <4>1. Len(Way(P, d)) = d
        BY <1>2
      <4>2. \A e \in n + 1..d : e \in 1..Len(P)
        BY <1>1
      <4> QED BY <1>2, <1>3, <4>1, <4>2 DEF Free
    <3>3. \A d \in 1..Len(P) : Way(P, d) \in OnTheWay(text)
      BY <1>3
    <3> QED BY <3>2, <3>3
  <2>3. before \cup made = Made(P, n, refused, Len(P))
    <3>1. \A d \in 1..Len(P) : d <= Len(P)
      BY <1>1
    <3>2. Made(P, n, refused, Len(P)) =
            {Way(P, d) : d \in {e \in 1..Len(P) : e <= n \/ Free(P, n, refused, e)}}
      BY <3>1 DEF Made
    <3>3. before \subseteq OnTheWay(text) /\ made \subseteq OnTheWay(text)
      OBVIOUS
    <3>4. \A d \in 1..Len(P) : Way(P, d) \in before <=> d <= n
      BY <1>2, <1>3
    <3> HIDE DEF before, made
    <3> QED BY <1>3, <2>2, <3>2, <3>3, <3>4
  <2>4. CreatePath(text, before, refused) = Made(P, n, refused, Len(P))
    BY <2>1, CreatePathMakes DEF P
  <2> QED BY <2>3, <2>4
<1> QED BY <1>4 DEF CreatePathMakesAll, P

-----------------------------------------------------------------------------
\* The functions do not change their argument, and it is one of Texts.
LEMMA TextStays == TextSpec => [](text \in Texts)
<1>1. TextInit => text \in Texts
  BY DEF TextInit
<1>2. text \in Texts /\ [UNCHANGED text]_text => (text \in Texts)'
  OBVIOUS
<1> QED BY <1>1, <1>2, PTL DEF TextSpec

\* For every text shorter than a size_t can count, folder, name and suffix are
\* parts of the path that make it up again, and getFileName is its base name
\* where the count wraps too.
THEOREM FileNamesRight == TextSpec => []FileNameIsBase
<1>1. text \in Texts => FileNameIsBase
  BY PathsSplit, UtilitiesAssumption
<1> QED BY <1>1, TextStays, PTL

\* Whatever is encoded is decoded again.  The code counts in unsigned int, the
\* model does not: this is about what encodes to less than 2^32 characters.
THEOREM DecodingInverts == TextSpec => []Base64RoundTrip
<1>1. text \in Texts => Base64RoundTrip
  BY RoundTrips, UtilitiesAssumption
<1> QED BY <1>1, TextStays, PTL

\* CreatePath makes every folder on the way that nothing refused keeps it from,
\* for every path, whatever part of it is there and whichever mkdir fails.
THEOREM PathsMade == TextSpec => []CreatePathMakesAll
<1>1. text \in Texts => CreatePathMakesAll
  BY WaysMade, UtilitiesAssumption
<1> QED BY <1>1, TextStays, PTL

\* The loops of isIPv4 and isIPv6 accept exactly the addresses they describe,
\* validIPAddress tells the two kinds apart, and getIpStr prints one of them.  The
\* loops count in an int, the model's do not: the texts are shorter than 2^31.
THEOREM AddressesChecked == TextSpec => []AddressesMatch
<1>1. text \in Texts => AddressesMatch
  BY AddressesAre, UtilitiesAssumption
<1> QED BY <1>1, TextStays, PTL
=============================================================================
