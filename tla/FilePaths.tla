----------------------------- MODULE FilePaths -----------------------------
(***************************************************************************)
(* The file name functions of utils/utils.cpp.  A string is a sequence of  *)
(* character codes; a position counts from 0 and is a size_t, so that the  *)
(* arithmetic on it wraps at SizeMod.                                      *)
(***************************************************************************)
EXTENDS Integers, Sequences, SequencesExt

CONSTANT SizeMod      \* 2^64 in the program: longer than any string

ASSUME FilePathsAssumption == SizeMod \in Nat \ {0}

Slash == 47
Dot == 46

npos == SizeMod - 1

\* i (counted from 1) is where c occurs last in str; 0 if it does not occur.
IsLast(str, c, i) ==
  /\ i # 0 => str[i] = c
  /\ \A j \in i+1..Len(str) : str[j] # c

\* str.rfind(c, str.length()).
rfind(str, c) ==
  IF \E i \in 1..Len(str) : IsLast(str, c, i)
    THEN (CHOOSE i \in 1..Len(str) : IsLast(str, c, i)) - 1
    ELSE npos

\* str.substr(pos, count): no more than there is.
substr(str, pos, count) ==
  SubSeq(str, pos + 1, IF count < Len(str) - pos THEN pos + count ELSE Len(str))

Wrapped(n) == n % SizeMod

getFolderPath(str) == substr(str, 0, rfind(str, Slash))

getFileSuffix(str) == substr(str, Wrapped(rfind(str, Dot) + 1), Len(str))

getFileNameAll(str) == substr(str, Wrapped(rfind(str, Slash) + 1), Len(str))

getRemoveSuffix(str) == substr(str, 0, rfind(str, Dot))

\* Faulty variant of getFileName: a dot in the folder leaves an empty name.
getFileNameFaulty(str) ==
  LET idx == rfind(str, Slash)
      pidx == rfind(str, Dot)
      begin == Wrapped(idx + 1)
  IN  substr(str, begin, IF pidx < begin THEN 0 ELSE pidx - begin)

\* The count wraps when the last dot is in the folder or there is none.
getFileName(str) ==
  LET idx == rfind(str, Slash)
      pidx == rfind(str, Dot)
      begin == Wrapped(idx + 1)
  IN  substr(str, begin, Wrapped(pidx - begin))

\* The base name of a path up to its last dot, stated without the code's
\* arithmetic on positions.
IsBaseName(path, name) ==
  \E i \in 0..Len(path) :
    /\ IsLast(path, Slash, i)
    /\ \E j \in i+1..Len(path)+1 :
         /\ IF j <= Len(path) THEN IsLast(path, Dot, j)
                              ELSE \A k \in i+1..Len(path) : path[k] # Dot
         /\ name = SubSeq(path, i + 1, j - 1)

\* str.rfind(prefix, 0) == 0.
startsWith(str, prefix) ==
  Len(prefix) <= Len(str) /\ \A i \in 1..Len(prefix) : str[i] = prefix[i]

-----------------------------------------------------------------------------
\* in.c_str(): the string up to its first 0.
c_str(str) ==
  LET z == SelectInSeq(str, LAMBDA c : c = 0)
  IN  IF z = 0 THEN str ELSE SubSeq(str, 1, z - 1)

\* getline on a stringstream: a piece ends at the delimiter or at the end of the
\* string, and no piece follows a delimiter that ends the string.
StringSplit(in, delim) ==
  LET Get(acc, c) == IF c = delim
                       THEN [out |-> Append(acc.out, acc.tmp), tmp |-> <<>>]
                       ELSE [acc EXCEPT !.tmp = Append(@, c)]
      end == FoldLeft(Get, [out |-> <<>>, tmp |-> <<>>], c_str(in))
  IN  IF end.tmp = <<>> THEN end.out ELSE Append(end.out, end.tmp)

\* A folder by the names that lead to it from where the path starts.  Empty
\* names and "." lead nowhere; ".." is not modelled.
Below(folder, name) == IF name \in {<<>>, <<Dot>>} THEN folder ELSE Append(folder, name)

\* The folder a path names, whatever exists.
Named(path) == FoldLeft(Below, <<>>, StringSplit(path, Slash))

Exists(folder, dirs) == folder = <<>> \/ folder \in dirs

\* mkdir wants the parent; a file of that name, or a right that is missing,
\* refuses it.
mkdir(folder, dirs, refused) ==
  IF folder \notin refused /\ Exists(Front(folder), dirs) THEN dirs \cup {folder} ELSE dirs

\* Faulty variant of CreatePath: mkdir of the whole path.
CreatePathFaulty(path, dirs, refused) ==
  IF path = <<>> \/ Exists(Named(path), dirs) THEN dirs
  ELSE mkdir(Named(path), dirs, refused)

\* CreatePath goes down the path and makes what opendir does not find.  It does
\* not look at what mkdir returns.
CreatePath(path, dirs, refused) ==
  LET Level(acc, name) ==
        LET curpath == Below(acc.curpath, name)
        IN  [curpath |-> curpath,
             dirs |-> IF Exists(curpath, acc.dirs) THEN acc.dirs
                                                   ELSE mkdir(curpath, acc.dirs, refused)]
  IN  IF path # <<>> /\ Exists(Named(path), dirs) THEN dirs
      ELSE FoldLeft(Level, [curpath |-> <<>>, dirs |-> dirs], StringSplit(path, Slash)).dirs
=============================================================================
