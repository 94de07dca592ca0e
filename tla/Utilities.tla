----------------------------- MODULE Utilities -----------------------------
(***************************************************************************)
(* What the functions of utils/utils.cpp compute, for a text of a set of   *)
(* texts.  They keep no state; the text is a variable so that every text   *)
(* is a state of its own.                                                  *)
(***************************************************************************)
EXTENDS FilePaths, Encodings

CONSTANT Texts        \* the arguments

ASSUME UtilitiesAssumption ==
  /\ Texts \subseteq Seq(Byte)
  /\ \A t \in Texts : Len(t) < SizeMod

VARIABLE text         \* the argument of the call

TextInit == text \in Texts

TextSpec == TextInit /\ [][UNCHANGED text]_text

-----------------------------------------------------------------------------
\* getFileName is the base name up to its last dot, also where its count wraps
\* because the last dot is in a folder or there is none; and folder, name and
\* suffix put together again are the path.
FileNameIsBase ==
  /\ IsBaseName(text, getFileName(text))
  /\ Contains(text, Slash) =>
       text = getFolderPath(text) \o <<Slash>> \o getFileNameAll(text)
  /\ Contains(getFileNameAll(text), Dot) =>
       getFileNameAll(text) = getFileName(text) \o <<Dot>> \o getFileSuffix(text)
  /\ Contains(text, Dot) =>
       text = getRemoveSuffix(text) \o <<Dot>> \o getFileSuffix(text)

\* The folders on the way to a path, the path's own included.
OnTheWay(path) == {SubSeq(Named(path), 1, n) : n \in 1..Len(Named(path))}

\* After CreatePath every folder on the way exists that can be made, from
\* whatever part of the way was there and whichever mkdir fails: the first
\* refused one ends the way, nothing below it appears, and nothing else is made.
CreatePathMakesAll ==
  \A n \in 0..Len(Named(text)) : \A refused \in SUBSET OnTheWay(text) :
    LET before == {d \in OnTheWay(text) : Len(d) <= n}
    IN  CreatePath(text, before, refused) =
          before \cup {d \in OnTheWay(text) :
                         \A e \in OnTheWay(text) : Len(e) \in n+1..Len(d) => e \notin refused}

\* Decoding gives back what was encoded, with the padding and without it, and an
\* encoded text is a whole number of groups of four characters of the table.
Base64RoundTrip ==
  LET code == base64_encode(text)
  IN  /\ base64_decode(code) = text
      /\ base64_decode(SubSeq(code, 1, Before(code))) = text
      /\ Len(code) % 4 = 0
      /\ \A i \in 1..Len(code) : DecodeCharacter(code[i]) = -1 => code[i] = Pad /\ i > Len(code) - 2

\* The parts of a text between the marks, the ones at its ends included.
PartsOf(IP, mark) ==
  LET marks == {i \in 1..Len(IP) : IP[i] = mark} \cup {0, Len(IP) + 1}
      Part(m) == SubSeq(IP, m[1] + 1, m[2] - 1)
  IN  {Part(m) : m \in {p \in marks \X marks :
                          p[1] < p[2] /\ \A k \in marks : k <= p[1] \/ k >= p[2]}}

Numerals == {to_string(n) : n \in 0..255}
Groups == UNION {[1..n -> HexDigit] : n \in 1..4}

IsDotted(IP) == Occurrences(IP, Period) = 3 /\ PartsOf(IP, Period) \subseteq Numerals
IsGrouped(IP) == Occurrences(IP, Colon) = 7 /\ PartsOf(IP, Colon) \subseteq Groups

\* The checks accept exactly four numbers from 0 to 255 without leading zeros, or
\* eight groups of one to four hexadecimal digits; and what getIpStr prints is
\* always accepted.
AddressesMatch ==
  /\ isIPv4(text) <=> IsDotted(text)
  /\ isIPv6(text) <=> IsGrouped(text)
  /\ validIPAddress(text) = CASE IsDotted(text) -> "IPv4"
                                [] IsGrouped(text) -> "IPv6"
                                [] OTHER -> "Neither"
  /\ Len(text) = 4 => validIPAddress(getIpStr(text)) = "IPv4"
=============================================================================
