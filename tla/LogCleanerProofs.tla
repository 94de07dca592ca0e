-------------------------- MODULE LogCleanerProofs --------------------------
(***************************************************************************)
(* For every folder, path and clock: the cleaner removes only what is old  *)
(* or was written after it read the clock, for every number of days whose  *)
(* seconds fit an int, and only what bears the program's name.             *)
(***************************************************************************)
EXTENDS LogCleaner, FilePathsProofs, TLAPS

\* The cleaner is in its loop over the names, or between stat and remove.
InScan == pc \in {"stat", "announce", "remove"}
Chosen == pc \in {"announce", "remove"}

\* Before the object there is no thread; and what is removed was listed.
Placed ==
  /\ argv0 \in Paths
  /\ owner = "none" => pc = "none" /\ logs = {}
  /\ Chosen => file \in Files

\* The logs are judged by a clock reading that is not ahead of the clock, and
\* the one that was chosen was old then, or has been written since.
Judged ==
  ~setBack =>
    /\ InScan => now <= clock
    /\ SecondsFit /\ Chosen /\ ctime[file] # Absent => ~Recent(file)

\* What the cleaner has listed and chosen bears the name of the program, and
\* that is the base name of the path.
Ours ==
  /\ owner # "none" => program = getFileName(argv0)
  /\ \A f \in logs : IsLog(f)
  /\ Chosen => IsLog(file)

IInv == TypeOK /\ Placed /\ Judged /\ Ours

-----------------------------------------------------------------------------
\* The base name of a path of bytes is a string of bytes.
LEMMA NameType ==
  ASSUME NEW p \in Paths
  PROVE  getFileName(p) \in Seq(0..255)
<1>1. p \in Seq(0..255) /\ Len(p) < SizeMod
  BY LogCleanerAssumption
<1>2. IsBaseName(p, getFileName(p))
  BY <1>1, NameIsBase
<1>3. PICK i \in 0..Len(p) : \E j \in i+1..Len(p)+1 : getFileName(p) = SubSeq(p, i + 1, j - 1)
  BY <1>2 DEF IsBaseName
<1>4. PICK j \in i+1..Len(p)+1 : getFileName(p) = SubSeq(p, i + 1, j - 1)
  BY <1>3
<1>5. i + 1 \in Int /\ j - 1 \in Int /\ \A k \in i+1..j-1 : p[k] \in 0..255
  <2>1. Len(p) \in Nat
    BY <1>1
  <2>2. \A k \in i+1..j-1 : k \in 1..Len(p)
    BY <2>1
  <2>3. \A k \in 1..Len(p) : p[k] \in 0..255
    BY <1>1, ElementOfSeq
  <2> QED BY <2>1, <2>2, <2>3
<1> QED BY <1>4, <1>5, SubSeqProperties

\* If the seconds of keepDays fit an int, they are what the code counts with
\* (GlogHelper.cpp:84).
LEMMA KeepSecondsIs == SecondsFit => keepSeconds = keepDays * Day
<1> SUFFICES ASSUME SecondsFit PROVE keepSeconds = keepDays * Day
  OBVIOUS
<1> DEFINE K == keepDays * Day
           m == 2 * IntLimit
<1>1. IntLimit \in Nat \ {0} /\ WordMod \in Nat /\ IntLimit <= WordMod
  BY LogCleanerAssumption
<1>2. K \in 0..(IntLimit - 1)
  BY DEF SecondsFit
<1> HIDE DEF K
<1>3. (K + IntLimit) % m = K + IntLimit
  BY <1>1, <1>2
<1>4. AsInt(K, IntLimit) = K
  BY <1>1, <1>2, <1>3 DEF AsInt
<1>5. K % WordMod = K
  BY <1>1, <1>2
<1> QED BY <1>4, <1>5 DEF keepSeconds, K

\* Compared as the code compares it, a file is too old if it is older than
\* keepDays or bears a time after the reading of the clock.
LEMMA TooOldIs ==
  ASSUME NEW t \in 0..MaxTime, NEW c \in 0..MaxTime, TooOld(t, c), SecondsFit
  PROVE  t - c > keepDays * Day \/ c >= t
<1> DEFINE K == keepDays * Day
<1>1. K \in Int /\ WordMod \in Nat /\ MaxTime \in Nat /\ MaxTime < WordMod
  BY LogCleanerAssumption DEF SecondsFit
<1>2. (t - c) % WordMod > K
  BY KeepSecondsIs DEF TooOld
<1> HIDE DEF K
<1>3. ASSUME c < t PROVE t - c > K
  <2>1. t - c \in 0..WordMod - 1
    BY <1>1, <1>3
  <2>2. (t - c) % WordMod = t - c
    BY <1>1, <2>1
  <2> QED BY <1>1, <1>2, <1>3, <2>2
<1>4. c < t \/ c >= t
  BY <1>1
<1> QED BY <1>3, <1>4 DEF K

\* The invariant holds at the start.
LEMMA Initially == Init => IInv
<1> SUFFICES ASSUME Init PROVE IInv
  OBVIOUS
<1>1. MaxTime \in Nat /\ argv0 \in Seq(0..255) /\ <<>> \in Seq(0..255)
  BY LogCleanerAssumption DEF Init
<1>2. TypeOK
  <2>1. file \in Files \cup {<<>>}
    BY DEF Init
  <2>2. program \in Seq(0..255)
    BY <1>1 DEF Init
  <2>3. clock \in 0..MaxTime /\ now \in 0..MaxTime /\ ctime \in [Files -> Absent..MaxTime]
    BY <1>1 DEF Init
  <2>4. isRun \in BOOLEAN /\ pc \in PC /\ logs \subseteq Files
    BY <1>1 DEF Init, PC
  <2> QED BY <1>1, <2>1, <2>2, <2>3, <2>4 DEF Init, TypeOK
<1>3. Placed /\ Judged /\ Ours
  BY <1>1 DEF Init, Placed, Judged, Ours, InScan, Chosen
<1> QED BY <1>2, <1>3 DEF IInv

\* Where the loop goes on, it keeps to the types.
LEMMA ContinueType ==
  ASSUME TypeOK, NEW rest, rest \subseteq Files, Continue(rest)
  PROVE  pc' \in PC /\ logs' \subseteq Files /\ now' \in 0..MaxTime /\ setBack' \in BOOLEAN
<1>0. MaxTime \in Nat
  BY LogCleanerAssumption
<1>1. CASE rest = {}
  <2>1. pc' = "check" /\ logs' = {} /\ now' = 0 /\ setBack' = FALSE
    BY <1>1, Zenon DEF Continue, EndScan
  <2>2. 0 \in 0..MaxTime
    BY <1>0
  <2>3. FALSE \in BOOLEAN
    OBVIOUS
  <2> QED BY <2>1, <2>2, <2>3 DEF PC
<1>2. CASE rest # {}
  <2>1. pc' \in PC /\ logs' \subseteq Files
    BY <1>2 DEF Continue, PC
  <2>2. now' = now /\ setBack' = setBack
    BY <1>2 DEF Continue
  <2>3. now \in 0..MaxTime /\ setBack \in BOOLEAN
    BY DEF TypeOK
  <2> QED BY <2>1, <2>2, <2>3
<1> QED BY <1>1, <1>2

\* Every step keeps to the types.
LEMMA TypeStep == TypeOK /\ Placed /\ [Next]_vars => TypeOK'
<1> SUFFICES ASSUME TypeOK /\ Placed, [Next]_vars PROVE TypeOK'
  OBVIOUS
<1>0. MaxTime \in Nat
  BY LogCleanerAssumption
<1> USE DEF TypeOK, PC, Absent, Placed, Chosen
<1>1. CASE Construct
  BY <1>0, <1>1, NameType DEF Construct, scan, started
<1>2. CASE DestroyBegin
  BY <1>0, <1>2 DEF DestroyBegin, scan, started
<1>3. CASE DestroyReturn
  BY <1>0, <1>3 DEF DestroyReturn, scan, started
<1>4. CASE Check
  BY <1>0, <1>4 DEF Check, Moves, scan, started
<1>5. CASE ListAll
  BY <1>0, <1>5 DEF ListAll, List, Begin, Moves, Listed, scan, started
<1>6. CASE ListCutShort
  BY <1>0, <1>6 DEF ListCutShort, List, Begin, Moves, Listed, scan, started
<1>7. CASE StatKeeps
  <2>1. pc' \in PC /\ logs' \subseteq Files /\ now' \in 0..MaxTime /\ setBack' \in BOOLEAN
    BY <1>7, ContinueType DEF StatKeeps
  <2>2. file' \in Files \cup {<<>>}
    BY <1>7 DEF StatKeeps, Continue
  <2>3. ctime' \in [Files -> -1..MaxTime]
    BY <1>0, <1>7 DEF StatKeeps
  <2> QED BY <1>7, <2>1, <2>2, <2>3 DEF StatKeeps, started
<1>8. CASE StatTooOld
  BY <1>0, <1>8 DEF StatTooOld, Moves, scan, started
<1>9. CASE Announce
  BY <1>0, <1>9 DEF Announce, Moves, scan, started
<1>10. CASE RemoveOk
  <2>1. pc' \in PC /\ logs' \subseteq Files /\ now' \in 0..MaxTime /\ setBack' \in BOOLEAN
    BY <1>10, ContinueType DEF RemoveOk
  <2>2. file' \in Files \cup {<<>>}
    BY <1>10 DEF RemoveOk, Continue
  <2>3. ctime' \in [Files -> -1..MaxTime]
    BY <1>0, <1>10 DEF RemoveOk
  <2> QED BY <1>10, <2>1, <2>2, <2>3 DEF RemoveOk, started
<1>11. CASE RemoveFails
  <2>1. pc' \in PC /\ logs' \subseteq Files /\ now' \in 0..MaxTime /\ setBack' \in BOOLEAN
    BY <1>11, ContinueType DEF RemoveFails
  <2>2. file' \in Files \cup {<<>>}
    BY <1>11 DEF RemoveFails, Continue
  <2>3. ctime' \in [Files -> -1..MaxTime]
    BY <1>0, <1>11 DEF RemoveFails
  <2> QED BY <1>11, <2>1, <2>2, <2>3 DEF RemoveFails, started
<1>12. CASE Tick
  BY <1>0, <1>12 DEF Tick, Lives, scan, started
<1>13. CASE SetBack
  BY <1>0, <1>13 DEF SetBack, Lives, scan, started
<1>14. CASE \E f \in Files : Touch(f) \/ Unlink(f)
  <2>1. ctime' \in [Files -> -1..MaxTime]
    BY <1>0, <1>14 DEF Touch, Unlink
  <2> QED BY <1>14, <2>1 DEF Touch, Unlink, scan, started
<1>15. CASE UNCHANGED vars
  BY <1>0, <1>15 DEF vars, scan, started
<1> QED BY <1>1, <1>2, <1>3, <1>4, <1>5, <1>6, <1>7, <1>8, <1>9, <1>10, <1>11, <1>12, <1>13, <1>14, <1>15 DEF Next

\* Every step keeps what is chosen within the folder.
LEMMA PlacedStep == TypeOK /\ Placed /\ [Next]_vars => Placed'
<1> SUFFICES ASSUME TypeOK /\ Placed, [Next]_vars PROVE Placed'
  OBVIOUS
<1>0. MaxTime \in Nat
  BY LogCleanerAssumption
<1> USE DEF TypeOK, Placed, Chosen
<1>1. CASE Construct
  BY <1>0, <1>1 DEF Construct, scan, started
<1>2. CASE DestroyBegin
  BY <1>0, <1>2 DEF DestroyBegin, scan, started
<1>3. CASE DestroyReturn
  BY <1>0, <1>3 DEF DestroyReturn, scan, started
<1>4. CASE Check
  BY <1>0, <1>4 DEF Check, Moves, scan, started
<1>5. CASE ListAll
  BY <1>0, <1>5 DEF ListAll, List, Begin, Moves, Listed, scan, started
<1>6. CASE ListCutShort
  BY <1>0, <1>6 DEF ListCutShort, List, Begin, Moves, Listed, scan, started
<1>7. CASE StatKeeps
  BY <1>0, <1>7 DEF StatKeeps, Continue, EndScan, scan, started
<1>8. CASE StatTooOld
  BY <1>0, <1>8 DEF StatTooOld, Moves, scan, started
<1>9. CASE Announce
  BY <1>0, <1>9 DEF Announce, Moves, scan, started
<1>10. CASE RemoveOk
  BY <1>0, <1>10 DEF RemoveOk, Continue, EndScan, scan, started
<1>11. CASE RemoveFails
  BY <1>0, <1>11 DEF RemoveFails, Continue, EndScan, scan, started
<1>12. CASE Tick
  BY <1>0, <1>12 DEF Tick, Lives, scan, started
<1>13. CASE SetBack
  BY <1>0, <1>13 DEF SetBack, Lives, scan, started
<1>14. CASE \E f \in Files : Touch(f) \/ Unlink(f)
  BY <1>0, <1>14 DEF Touch, Unlink, scan, started, Lives
<1>15. CASE UNCHANGED vars
  BY <1>0, <1>15 DEF vars, scan, started
<1> QED BY <1>1, <1>2, <1>3, <1>4, <1>5, <1>6, <1>7, <1>8, <1>9, <1>10, <1>11, <1>12, <1>13, <1>14, <1>15 DEF Next

\* No step makes the judgement wrong: a write after it dates the file at or after
\* the reading, unless the clock was set back.
LEMMA JudgedStep == TypeOK /\ Placed /\ Judged /\ [Next]_vars => Judged'
<1> SUFFICES ASSUME TypeOK /\ Placed /\ Judged, [Next]_vars PROVE Judged'
  OBVIOUS
<1>0. MaxTime \in Nat
  BY LogCleanerAssumption
<1> USE DEF TypeOK, Placed, Judged, Recent, InScan, Chosen, Absent
<1>1. CASE Construct
  BY <1>0, <1>1 DEF Construct, scan, started
<1>2. CASE DestroyBegin
  BY <1>0, <1>2 DEF DestroyBegin, scan, started
<1>3. CASE DestroyReturn
  BY <1>0, <1>3 DEF DestroyReturn, scan, started
<1>4. CASE Check
  BY <1>0, <1>4 DEF Check, Moves, scan, started
<1>5. CASE ListAll
  BY <1>0, <1>5 DEF ListAll, List, Begin, Moves, Listed, scan, started
<1>6. CASE ListCutShort
  BY <1>0, <1>6 DEF ListCutShort, List, Begin, Moves, Listed, scan, started
<1>7. CASE StatKeeps
  BY <1>0, <1>7 DEF StatKeeps, Continue, EndScan, scan, started
<1>8. CASE StatTooOld
  <2>1. PICK f \in logs : /\ ctime[f] # Absent /\ TooOld(now, ctime[f])
                          /\ file' = f
    BY <1>8 DEF StatTooOld
  <2>2. now \in 0..MaxTime /\ ctime[f] \in 0..MaxTime
    BY <1>0, <2>1
  <2>3. SecondsFit => now - ctime[f] > keepDays * Day \/ ctime[f] >= now
    BY <2>1, <2>2, TooOldIs
  <2>4. keepDays * Day \in Int
    BY LogCleanerAssumption
  <2>5. /\ pc = "stat" /\ pc' = "announce"
        /\ UNCHANGED <<ctime, now, clock, setBack>>
    BY <1>8 DEF StatTooOld, Moves
  <2> QED BY <2>1, <2>2, <2>3, <2>4, <2>5
<1>9. CASE Announce
  BY <1>0, <1>9 DEF Announce, Moves, scan, started
<1>10. CASE RemoveOk
  BY <1>0, <1>10 DEF RemoveOk, Continue, EndScan, scan, started
<1>11. CASE RemoveFails
  BY <1>0, <1>11 DEF RemoveFails, Continue, EndScan, scan, started
<1>12. CASE Tick
  BY <1>0, <1>12 DEF Tick, Lives, scan, started
<1>13. CASE SetBack
  BY <1>0, <1>13 DEF SetBack, Lives, scan, started
<1>14. CASE \E f \in Files : Touch(f) \/ Unlink(f)
  BY <1>0, <1>14 DEF Touch, Unlink, scan, started, Lives
<1>15. CASE UNCHANGED vars
  BY <1>0, <1>15 DEF vars, scan, started
<1> QED BY <1>1, <1>2, <1>3, <1>4, <1>5, <1>6, <1>7, <1>8, <1>9, <1>10, <1>11, <1>12, <1>13, <1>14, <1>15 DEF Next

\* Every step keeps to the files that bear the program's name.
LEMMA OursStep == TypeOK /\ Placed /\ Ours /\ [Next]_vars => Ours'
<1> SUFFICES ASSUME TypeOK /\ Placed /\ Ours, [Next]_vars PROVE Ours'
  OBVIOUS
<1>0. MaxTime \in Nat
  BY LogCleanerAssumption
<1> USE DEF TypeOK, Placed, Ours, Chosen, IsLog
<1>1. CASE Construct
  BY <1>0, <1>1 DEF Construct, scan, started
<1>2. CASE DestroyBegin
  BY <1>0, <1>2 DEF DestroyBegin, scan, started
<1>3. CASE DestroyReturn
  BY <1>0, <1>3 DEF DestroyReturn, scan, started
<1>4. CASE Check
  BY <1>0, <1>4 DEF Check, Moves, scan, started
<1>5. CASE ListAll
  BY <1>0, <1>5 DEF ListAll, List, Begin, Moves, Listed, scan, started
<1>6. CASE ListCutShort
  BY <1>0, <1>6 DEF ListCutShort, List, Begin, Moves, Listed, scan, started
<1>7. CASE StatKeeps
  BY <1>0, <1>7 DEF StatKeeps, Continue, EndScan, scan, started
<1>8. CASE StatTooOld
  BY <1>0, <1>8 DEF StatTooOld, Moves, scan, started
<1>9. CASE Announce
  BY <1>0, <1>9 DEF Announce, Moves, scan, started
<1>10. CASE RemoveOk
  BY <1>0, <1>10 DEF RemoveOk, Continue, EndScan, scan, started
<1>11. CASE RemoveFails
  BY <1>0, <1>11 DEF RemoveFails, Continue, EndScan, scan, started
<1>12. CASE Tick
  BY <1>0, <1>12 DEF Tick, Lives, scan, started
<1>13. CASE SetBack
  BY <1>0, <1>13 DEF SetBack, Lives, scan, started
<1>14. CASE \E f \in Files : Touch(f) \/ Unlink(f)
  BY <1>0, <1>14 DEF Touch, Unlink, scan, started, Lives
<1>15. CASE UNCHANGED vars
  BY <1>0, <1>15 DEF vars, scan, started
<1> QED BY <1>1, <1>2, <1>3, <1>4, <1>5, <1>6, <1>7, <1>8, <1>9, <1>10, <1>11, <1>12, <1>13, <1>14, <1>15 DEF Next

LEMMA InvariantStep == IInv /\ [Next]_vars => IInv'
BY TypeStep, PlacedStep, JudgedStep, OursStep DEF IInv

LEMMA Invariant == Spec => []IInv
BY Initially, InvariantStep, PTL DEF Spec

-----------------------------------------------------------------------------
\* The variables keep to their types, whatever runs at the same time.
THEOREM TypeCorrect == Spec => []TypeOK
<1>1. IInv => TypeOK
  BY DEF IInv
<1> QED BY <1>1, Invariant, PTL

\* The cleaner removes only what has not changed for keepDays when it reads the
\* clock, or is dated at or after that, unless the clock is set back meanwhile, for
\* every number of days whose seconds fit an int (GlogHelper.cpp:84, 100-107).
THEOREM RemovesOldOrTouched == Spec => OnlyOldOrTouched
<1>1. IInv /\ [Next]_vars =>
        [\A f \in Files : Removes(f) /\ ~setBack /\ SecondsFit => ~Recent(f)]_vars
  BY DEF IInv, Judged, Chosen, Removes, RemoveOk
<1> QED BY <1>1, Invariant, PTL DEF Spec, OnlyOldOrTouched

\* The cleaner removes only files whose names begin with the program's own name
\* and a dot, for every path it may have been started by.
THEOREM RemovesOwn == Spec => OthersKept
<1>1. IInv /\ [Next]_vars =>
        [\A f \in Files : Removes(f) =>
           \E n \in 1..Len(f) : f[n] = Dot /\ IsBaseName(argv0, SubSeq(f, 1, n - 1))]_vars
  <2> SUFFICES ASSUME IInv, NEW f \in Files, Removes(f)
               PROVE  \E n \in 1..Len(f) : f[n] = Dot /\ IsBaseName(argv0, SubSeq(f, 1, n - 1))
    OBVIOUS
  <2>1. f = file /\ Chosen
    BY DEF Removes, RemoveOk, Chosen
  <2>2. program = getFileName(argv0) /\ IsLog(f)
    BY <2>1 DEF IInv, Ours, Placed, Chosen
  <2>3. /\ f \in Seq(0..255) /\ program \in Seq(0..255) /\ Dot \in 0..255
        /\ argv0 \in Seq(0..255) /\ Len(argv0) < SizeMod
    BY LogCleanerAssumption DEF IInv, TypeOK, Placed, Dot
  <2>4. IsBaseName(argv0, program)
    BY <2>2, <2>3, NameIsBase
  <2>5. /\ Len(program) + 1 \in 1..Len(f) /\ f[Len(program) + 1] = Dot
        /\ SubSeq(f, 1, (Len(program) + 1) - 1) = program
    <3>1. (Len(program) + 1) - 1 = Len(program)
      BY <2>3
    <3>2. startsWith(f, program \o <<Dot>>)
      BY <2>2 DEF IsLog
    <3>3. /\ Len(program) + 1 \in 1..Len(f) /\ f[Len(program) + 1] = Dot
          /\ SubSeq(f, 1, Len(program)) = program
      <4> DEFINE B == 0..255
      <4>1. f \in Seq(B) /\ program \in Seq(B) /\ Dot \in B
        BY <2>3
      <4> HIDE DEF B, Dot
      <4> QED BY <3>2, <4>1, StartsWithName
    <3> QED BY <3>1, <3>3
  <2> QED BY <2>4, <2>5
<1> QED BY <1>1, Invariant, PTL DEF Spec, OthersKept
=============================================================================
