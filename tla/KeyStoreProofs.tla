--------------------------- MODULE KeyStoreProofs ---------------------------
(***************************************************************************)
(* Proofs about KeyStore, for every bound on the number of key pairs.      *)
(***************************************************************************)
EXTENDS KeyStore, TLAPS

USE KeyStoreAssumption DEF KeyStoreAssumption

\* Everything a key file can hold is in Bytes.
LEMMA BytesType ==
  /\ Absent \in Bytes /\ Empty \in Bytes /\ Torn \in Bytes
  /\ \A k \in 0..MaxKeys : Public(k) \in Bytes /\ Private(k) \in Bytes
  BY DEF Bytes, Absent, Empty, Torn, Public, Private

\* The five kinds of contents are different, and so are two keys.
LEMMA BytesDistinct ==
  /\ Absent # Empty /\ Absent # Torn /\ Empty # Torn
  /\ \A k \in Nat : /\ Public(k) \notin {Absent, Empty, Torn}
                    /\ Private(k) \notin {Absent, Empty, Torn}
  /\ \A j, k \in Nat : /\ Public(j) # Private(k)
                       /\ Public(j) = Public(k) => j = k
                       /\ Private(j) = Private(k) => j = k
  BY DEF Absent, Empty, Torn, Public, Private

\* Every variable of the key store keeps its type.
THEOREM TypeCorrect == Spec => []TypeOK
<1> USE DEF TypeOK, PC, files, disk, memory, history
<1>1. Init => TypeOK
  <2> SUFFICES ASSUME Init
               PROVE  TypeOK
    OBVIOUS
  <2>1. /\ publicFile \in Bytes /\ privateFile \in Bytes /\ public \in Bytes
        /\ publicDisk \in Bytes /\ privateDisk \in Bytes /\ private \in Bytes
    BY BytesType DEF Init
  <2>2. served \in Bytes \X Bytes
    BY BytesType DEF Init, NotServed
  <2>3. pc \in PC /\ key \in 0..MaxKeys
    BY DEF Init
  <2>4. generated \in BOOLEAN /\ damaged \in BOOLEAN /\ misread \in {"never", "before", "now"}
    BY DEF Init
  <2>5. QED
    BY <2>1, <2>2, <2>3, <2>4 DEF TypeOK
<1>2. TypeOK /\ [Next]_vars => TypeOK'
  <2> SUFFICES ASSUME TypeOK, [Next]_vars
               PROVE  TypeOK'
    OBVIOUS
  <2>1. CASE Boot
    BY <2>1, BytesType DEF Boot, Moves
  <2>2. CASE PublicNotOpened
    BY <2>2, BytesType DEF PublicNotOpened, Moves, Misread, ReadFailed
  <2>3. CASE ReadPublic
    BY <2>3, BytesType DEF ReadPublic, Moves, Misread, Reads
  <2>4. CASE PrivateNotOpened
    BY <2>4, BytesType DEF PrivateNotOpened, Moves, Misread, ReadFailed
  <2>5. CASE ReadPrivate
    BY <2>5, BytesType DEF ReadPrivate, Moves, Misread, Reads
  <2>6. CASE GenerateFails
    BY <2>6, BytesType DEF GenerateFails, Moves
  <2>7. CASE Generate
    BY <2>7, BytesType DEF Generate, Moves
  <2>8. CASE OpenPublic
    BY <2>8, BytesType DEF OpenPublic
  <2>9. CASE ClosePublic
    BY <2>9, BytesType DEF ClosePublic, Moves
  <2>10. CASE OpenPrivate
    BY <2>10, BytesType DEF OpenPrivate
  <2>11. CASE ClosePrivate
    BY <2>11, BytesType DEF ClosePrivate, Moves
  <2>12. CASE GetKeys
    BY <2>12, BytesType DEF GetKeys
  <2>13. CASE Crash
    BY <2>13, BytesType DEF Crash
  <2>14. CASE Sync
    BY <2>14, BytesType DEF Sync
  <2>15. CASE PowerLoss
    BY <2>15, BytesType DEF PowerLoss, Remains
  <2>16. CASE UNCHANGED vars
    BY <2>16 DEF vars
  <2>17. QED
    BY <2>1, <2>2, <2>3, <2>4, <2>5, <2>6, <2>7, <2>8, <2>9, <2>10, <2>11, <2>12, <2>13, <2>14, <2>15, <2>16 DEF Next
<1>3. QED
  BY <1>1, <1>2, PTL DEF Spec

----------------------------------------------------------------------------
\* While a key pair is being generated and written, the files do not hold an
\* intact pair: the new key is not in the second file yet, and one of the two was
\* missing, unless the process could not read it.
WriteInv ==
  /\ \A k \in Nat : publicFile = Public(k) \/ privateFile = Private(k) => k <= key
  /\ \A k \in Nat : publicDisk = Public(k) \/ privateDisk = Private(k) => k <= key
  /\ pc \in {"generate", "openPublic"} /\ misread # "now" =>
       publicFile = Absent \/ privateFile = Absent
  /\ pc = "closePublic" => publicFile = Empty
  /\ pc = "closePrivate" => privateFile = Empty
  /\ pc \in {"openPublic", "closePublic", "openPrivate"} => privateFile # Private(key)
  /\ pc = "openPrivate" /\ misread # "now" =>
       publicFile \in {Absent, Empty, Torn, Public(key)} \/ privateFile = Absent

\* WriteInv is an invariant of every start, crash and failed write.
THEOREM WriteInvariant == Spec => []WriteInv
<1> USE DEF WriteInv, TypeOK, files, disk, memory, history
<1>1. Init => WriteInv
  BY BytesDistinct DEF Init
<1>2. TypeOK /\ WriteInv /\ [Next]_vars => WriteInv'
  <2> SUFFICES ASSUME TypeOK, WriteInv, [Next]_vars
               PROVE  WriteInv'
    OBVIOUS
  <2>1. CASE Boot
    BY <2>1, BytesDistinct DEF Boot, Moves
  <2>2. CASE PublicNotOpened
    BY <2>2, BytesDistinct DEF PublicNotOpened, Moves, Misread, ReadFailed
  <2>3. CASE ReadPublic
    BY <2>3, BytesDistinct DEF ReadPublic, Moves, Misread, Reads
  <2>4. CASE PrivateNotOpened
    BY <2>4, BytesDistinct DEF PrivateNotOpened, Moves, Misread, ReadFailed
  <2>5. CASE ReadPrivate
    BY <2>5, BytesDistinct DEF ReadPrivate, Moves, Misread, Reads
  <2>6. CASE GenerateFails
    BY <2>6, BytesDistinct DEF GenerateFails, Moves
  <2>7. CASE Generate
    BY <2>7, BytesDistinct DEF Generate, Moves
  <2>8. CASE OpenPublic
    BY <2>8, BytesDistinct DEF OpenPublic
  <2>9. CASE ClosePublic
    BY <2>9, BytesDistinct DEF ClosePublic, Moves
  <2>10. CASE OpenPrivate
    BY <2>10, BytesDistinct DEF OpenPrivate
  <2>11. CASE ClosePrivate
    BY <2>11, BytesDistinct DEF ClosePrivate, Moves
  <2>12. CASE GetKeys
    BY <2>12, BytesDistinct DEF GetKeys
  <2>13. CASE Crash
    BY <2>13, BytesDistinct DEF Crash
  <2>14. CASE Sync
    BY <2>14, BytesDistinct DEF Sync
  <2>15. CASE PowerLoss
    BY <2>15, BytesDistinct DEF PowerLoss, Remains
  <2>16. CASE UNCHANGED vars
    BY <2>16 DEF vars
  <2>17. QED
    BY <2>1, <2>2, <2>3, <2>4, <2>5, <2>6, <2>7, <2>8, <2>9, <2>10, <2>11, <2>12, <2>13, <2>14, <2>15, <2>16 DEF Next
<1>3. QED
  BY <1>1, <1>2, TypeCorrect, PTL DEF Spec

\* The constructor gives up no pair of files that belong together and that it could
\* read; only a loss of power takes one.
THEOREM IntactPairStaysTheorem == Spec => IntactPairStays
<1>1. TypeOK /\ WriteInv /\ [Next]_vars =>
        [Intact /\ misread # "now" => UNCHANGED files \/ (pc' = "down" /\ files # disk)]_vars
  <2> SUFFICES ASSUME TypeOK, WriteInv, Next, Intact, misread # "now"
               PROVE  UNCHANGED files \/ (pc' = "down" /\ files # disk)
    BY DEF files, vars
  <2> USE DEF files, disk, Intact, WriteInv
  <2>1. CASE Boot
    BY <2>1, BytesDistinct DEF Boot, Moves
  <2>2. CASE PublicNotOpened
    BY <2>2, BytesDistinct DEF PublicNotOpened, Moves, Misread, ReadFailed
  <2>3. CASE ReadPublic
    BY <2>3, BytesDistinct DEF ReadPublic, Moves, Misread, Reads
  <2>4. CASE PrivateNotOpened
    BY <2>4, BytesDistinct DEF PrivateNotOpened, Moves, Misread, ReadFailed
  <2>5. CASE ReadPrivate
    BY <2>5, BytesDistinct DEF ReadPrivate, Moves, Misread, Reads
  <2>6. CASE GenerateFails
    BY <2>6, BytesDistinct DEF GenerateFails, Moves
  <2>7. CASE Generate
    BY <2>7, BytesDistinct DEF Generate, Moves
  <2>8. CASE OpenPublic
    BY <2>8, BytesDistinct DEF OpenPublic
  <2>9. CASE ClosePublic
    BY <2>9, BytesDistinct DEF ClosePublic, Moves
  <2>10. CASE OpenPrivate
    <3>1. PICK k \in 1..MaxKeys : publicFile = Public(k) /\ privateFile = Private(k)
      BY DEF Intact
    <3>2. k \in Nat /\ key \in Nat
      BY DEF TypeOK
    <3>3. pc # "openPrivate"
      BY <3>1, <3>2, BytesDistinct
    <3>4. QED
      BY <2>10, <3>3 DEF OpenPrivate
  <2>11. CASE ClosePrivate
    BY <2>11, BytesDistinct DEF ClosePrivate, Moves
  <2>12. CASE GetKeys
    BY <2>12, BytesDistinct DEF GetKeys
  <2>13. CASE Crash
    BY <2>13, BytesDistinct DEF Crash
  <2>14. CASE Sync
    BY <2>14, BytesDistinct DEF Sync
  <2>15. CASE PowerLoss
    BY <2>15, BytesDistinct DEF PowerLoss, Remains
  <2>16. QED
    BY <2>1, <2>2, <2>3, <2>4, <2>5, <2>6, <2>7, <2>8, <2>9, <2>10, <2>11, <2>12, <2>13, <2>14, <2>15 DEF Next
<1>2. QED
  BY <1>1, TypeCorrect, WriteInvariant, PTL DEF Spec, IntactPairStays

----------------------------------------------------------------------------
\* What the files and the memory hold as long as no write was cut short and no file
\* that was there could not be read.
CleanInv ==
  /\ pc = "down" => public = Absent /\ private = Absent
  /\ pc \in {"readPublic", "readPrivate", "generate"} /\ ~generated => private = Absent
  /\ pc = "generate" => ~generated
  /\ pc \in {"openPublic", "closePublic", "openPrivate", "closePrivate"} => generated /\ key # 0
  /\ ~damaged /\ misread = "never" =>
       /\ privateFile = Absent \/ pc = "closePrivate" \/ Intact
       /\ pc \in {"generate", "openPublic", "closePublic", "openPrivate"} => privateFile = Absent
       /\ pc \in {"openPrivate", "closePrivate"} => publicFile = Public(key)
       /\ publicFile = Empty => pc = "closePublic"
       /\ pc \in {"readPublic", "readPrivate"} /\ generated => Intact
       /\ pc = "readPrivate" => public = publicFile
       /\ pc = "ready" /\ private # Absent =>
            Intact /\ public = publicFile /\ private = privateFile
       /\ served # NotServed => Intact /\ served = <<publicFile, privateFile>>

\* CleanInv is an invariant.
THEOREM CleanInvariant == Spec => []CleanInv
<1>1. Init => CleanInv
  BY BytesDistinct DEF Init, CleanInv
<1>2. TypeOK /\ WriteInv /\ CleanInv /\ [Next]_vars => CleanInv'
  <2> SUFFICES ASSUME TypeOK, WriteInv, CleanInv, [Next]_vars
               PROVE  CleanInv'
    OBVIOUS
  <2> USE DEF CleanInv, TypeOK, WriteInv, files, disk, memory, history, Intact
  <2>1. CASE Boot
    BY <2>1, BytesDistinct DEF Boot, Moves
  <2>2. CASE PublicNotOpened
    BY <2>2, BytesDistinct DEF PublicNotOpened, Moves, Misread, ReadFailed
  <2>3. CASE ReadPublic
    BY <2>3, BytesDistinct DEF ReadPublic, Moves, Misread, Reads
  <2>4. CASE PrivateNotOpened
    BY <2>4, BytesDistinct DEF PrivateNotOpened, Moves, Misread, ReadFailed
  <2>5. CASE ReadPrivate
    BY <2>5, BytesDistinct DEF ReadPrivate, Moves, Misread, Reads
  <2>6. CASE GenerateFails
    BY <2>6, BytesDistinct DEF GenerateFails, Moves
  <2>7. CASE Generate
    BY <2>7, BytesDistinct DEF Generate, Moves
  <2>8. CASE OpenPublic
    BY <2>8, BytesDistinct DEF OpenPublic
  <2>9. CASE ClosePublic
    <3>1. ~damaged' => publicFile' = Public(key) /\ ~damaged
      BY <2>9 DEF ClosePublic
    <3>2. key \in Nat
      OBVIOUS
    <3>3. QED
      BY <2>9, <3>1, <3>2, BytesDistinct DEF ClosePublic, Moves
  <2>10. CASE OpenPrivate
    BY <2>10, BytesDistinct DEF OpenPrivate
  <2>11. CASE ClosePrivate
    <3>1. ~damaged' => privateFile' = Private(key) /\ ~damaged
      BY <2>11 DEF ClosePrivate
    <3>2. key \in 1..MaxKeys
      BY <2>11 DEF ClosePrivate, Moves
    <3>3. ~damaged' /\ misread' = "never" => Intact'
      BY <2>11, <3>1, <3>2 DEF ClosePrivate, Moves
    <3>4. QED
      BY <2>11, <3>1, <3>2, <3>3, BytesDistinct DEF ClosePrivate, Moves
  <2>12. CASE GetKeys
    BY <2>12, BytesDistinct DEF GetKeys
  <2>13. CASE Crash
    BY <2>13, BytesDistinct DEF Crash
  <2>14. CASE Sync
    BY <2>14, BytesDistinct DEF Sync
  <2>15. CASE PowerLoss
    BY <2>15, BytesDistinct DEF PowerLoss, Remains
  <2>16. CASE UNCHANGED vars
    BY <2>16 DEF vars
  <2>17. QED
    BY <2>1, <2>2, <2>3, <2>4, <2>5, <2>6, <2>7, <2>8, <2>9, <2>10, <2>11, <2>12, <2>13, <2>14, <2>15, <2>16 DEF Next
<1>3. QED
  BY <1>1, <1>2, TypeCorrect, WriteInvariant, PTL DEF Spec

\* Undamaged files that can be read give the SDK the two halves of one pair.
THEOREM MatchedTheorem == Spec => []MatchedUnlessDamaged
<1>1. CleanInv => MatchedUnlessDamaged
  BY DEF CleanInv, MatchedUnlessDamaged, Intact
<1>2. QED
  BY <1>1, CleanInvariant, PTL

\* Undamaged files that can be read give the SDK the same pair at every start.
THEOREM KeptTheorem == Spec => KeptUnlessDamaged
<1>1. CleanInv /\ CleanInv' /\ [Next]_vars =>
        [served # NotServed /\ ~damaged' /\ misread' = "never" => served' = served]_vars
  <2> SUFFICES ASSUME CleanInv, Next, served # NotServed, ~damaged', misread' = "never"
               PROVE  served' = served
    BY DEF vars
  <2> USE DEF history, Misread
  <2>1. misread = "never"
    BY DEF Next, Boot, PublicNotOpened, ReadPublic, PrivateNotOpened, ReadPrivate,
           GenerateFails, Generate, OpenPublic, ClosePublic, OpenPrivate, ClosePrivate,
           GetKeys, Crash, Sync, PowerLoss
  <2>2. ~damaged
    BY DEF Next, Boot, PublicNotOpened, ReadPublic, PrivateNotOpened, ReadPrivate,
           GenerateFails, Generate, OpenPublic, ClosePublic, OpenPrivate, ClosePrivate,
           GetKeys, Crash, Sync, PowerLoss
  <2>3. CASE GetKeys
    BY <2>1, <2>2, <2>3 DEF GetKeys, CleanInv
  <2>4. CASE ~GetKeys
    BY <2>4 DEF Next, Boot, PublicNotOpened, ReadPublic, PrivateNotOpened, ReadPrivate,
           GenerateFails, Generate, OpenPublic, ClosePublic, OpenPrivate, ClosePrivate,
           Crash, Sync, PowerLoss
  <2>5. QED
    BY <2>3, <2>4
<1>2. QED
  BY <1>1, CleanInvariant, PTL DEF Spec, KeptUnlessDamaged
=============================================================================
