------------------------------ MODULE KeyStore ------------------------------
(***************************************************************************)
(* KeyStoreDefault (DJI/KeyStoreDefault.cpp): the constructor reads the    *)
(* RSA key pair from two files or generates and stores a new one; the SDK  *)
(* then asks for both keys.  The files outlive the process, which may die  *)
(* between any two steps, and the machine may lose its power before what   *)
(* was written has reached the disk.  fopen, fread and fwrite may fail on  *)
(* any file.  No one else touches the files.                               *)
(***************************************************************************)
EXTENDS Naturals

CONSTANT MaxKeys     \* bound: how many key pairs are generated

ASSUME KeyStoreAssumption == MaxKeys \in Nat

\* What a file or a string holds.  For a string, "absent" is the null pointer.
Bytes == [what : {"absent", "empty", "torn", "public", "private"}, key : 0..MaxKeys]
Absent == [what |-> "absent", key |-> 0]
Empty == [what |-> "empty", key |-> 0]
Torn == [what |-> "torn", key |-> 0]
Public(k) == [what |-> "public", key |-> k]
Private(k) == [what |-> "private", key |-> k]

VARIABLES
  publicFile, privateFile,  \* dji_esdk_pub_key, dji_esdk_private_key
  publicDisk, privateDisk,  \* what of them has reached the disk
  public, private,          \* rsa2048_public_key_, rsa2048_private_key_
  pc,                       \* where the process is; "down": there is none
  generated,                \* whether GenerateKeys has run in this process
  key,                      \* the last key pair generated
  served,                   \* history: the last pair the SDK was given
  damaged,                  \* history: a write failed, was cut short or was lost
  misread                   \* history: an existing file was not read as it is

files == <<publicFile, privateFile>>
disk == <<publicDisk, privateDisk>>
memory == <<public, private>>
history == <<served, damaged, misread>>
vars == <<files, disk, memory, pc, generated, key, history>>

PC == {"down", "readPublic", "readPrivate", "generate", "openPublic",
       "closePublic", "openPrivate", "closePrivate", "ready"}

NotServed == <<Absent, Absent>>

Init ==
  /\ publicFile = Absent /\ privateFile = Absent
  /\ publicDisk = Absent /\ privateDisk = Absent
  /\ public = Absent /\ private = Absent
  /\ pc = "down" /\ generated = FALSE /\ key = 0
  /\ served = NotServed /\ damaged = FALSE /\ misread = "never"

Moves(from, to) == pc = from /\ pc' = to

\* Faulty variant of Boot: the constructor generates without reading first.
BootFaulty ==
  /\ Moves("down", "generate")
  /\ generated' = FALSE
  /\ misread' = IF misread = "never" THEN "never" ELSE "before"
  /\ UNCHANGED <<files, disk, memory, key, served, damaged>>

\* A process starts, and enters the constructor.
Boot ==
  /\ Moves("down", "readPublic")
  /\ generated' = FALSE
  /\ misread' = IF misread = "never" THEN "never" ELSE "before"
  /\ UNCHANGED <<files, disk, memory, key, served, damaged>>

\* Where a failed ReadKeys leads: the constructor looks at the result of the
\* first one only.
ReadFailed == IF generated THEN "ready" ELSE "generate"

Misread(wrong) == misread' = IF wrong THEN "now" ELSE misread

\* fopen fails on a file that does not exist, and may fail on one that does.
PublicNotOpened ==
  /\ Moves("readPublic", ReadFailed)
  /\ Misread(publicFile # Absent)
  /\ UNCHANGED <<files, disk, memory, generated, key, served, damaged>>

\* What fread may give of a file: all of it, a part, or nothing.
Reads(file) == {file, Empty} \cup (IF file = Empty THEN {} ELSE {Torn})

ReadPublic ==
  /\ publicFile # Absent
  /\ Moves("readPublic", "readPrivate")
  /\ public' \in Reads(publicFile)
  /\ Misread(public' # publicFile)
  /\ UNCHANGED <<files, disk, private, generated, key, served, damaged>>

\* Faulty variant of PrivateNotOpened: a missing private key file is not an error.
PrivateNotOpenedFaulty ==
  /\ Moves("readPrivate", "ready")
  /\ private' = public
  /\ Misread(privateFile # Absent)
  /\ UNCHANGED <<files, disk, public, generated, key, served, damaged>>

PrivateNotOpened ==
  /\ Moves("readPrivate", ReadFailed)
  /\ Misread(privateFile # Absent)
  /\ UNCHANGED <<files, disk, memory, generated, key, served, damaged>>

\* Faulty variant of ReadPrivate: ReadKeys returns false at its end.
ReadPrivateNeverTrue ==
  /\ privateFile # Absent
  /\ Moves("readPrivate", ReadFailed)
  /\ private' = privateFile
  /\ UNCHANGED <<files, disk, public, generated, key, history>>

\* Nothing read leaves len and _buffer as they were after the public key: an
\* empty or unreadable private key file yields what was read of the public key.
ReadPrivate ==
  /\ privateFile # Absent
  /\ Moves("readPrivate", "ready")
  /\ \E bytes \in Reads(privateFile) :
       /\ private' = IF bytes = Empty THEN public ELSE bytes
       /\ Misread(bytes # privateFile)
  /\ UNCHANGED <<files, disk, public, generated, key, served, damaged>>

GenerateFails ==
  /\ Moves("generate", "ready")
  /\ UNCHANGED <<files, disk, memory, generated, key, history>>

Generate ==
  /\ key < MaxKeys
  /\ Moves("generate", "openPublic")
  /\ key' = key + 1
  /\ public' = Public(key')
  /\ generated' = TRUE
  /\ UNCHANGED <<files, disk, private, history>>

\* fopen with "wb" truncates; if it fails the file is left as it is and the
\* function goes on.
OpenPublic ==
  /\ pc = "openPublic"
  /\ \/ pc' = "closePublic" /\ publicFile' = Empty /\ UNCHANGED <<private, damaged>>
     \/ /\ pc' = "openPrivate" /\ private' = Private(key)
        /\ damaged' = TRUE /\ UNCHANGED publicFile
  /\ UNCHANGED <<privateFile, disk, public, generated, key, served, misread>>

\* fwrite and fclose, and the conversion of the private key after them
ClosePublic ==
  /\ Moves("closePublic", "openPrivate")
  /\ publicFile' \in {Public(key), Torn, Empty}
  /\ damaged' = (damaged \/ publicFile' # Public(key))
  /\ private' = Private(key)
  /\ UNCHANGED <<privateFile, disk, public, generated, key, served, misread>>

OpenPrivate ==
  /\ pc = "openPrivate"
  /\ \/ pc' = "closePrivate" /\ privateFile' = Empty /\ UNCHANGED damaged
     \/ pc' = "readPublic" /\ damaged' = TRUE /\ UNCHANGED privateFile
  /\ UNCHANGED <<publicFile, disk, memory, generated, key, served, misread>>

\* Back in the constructor, ReadKeys is called again.
ClosePrivate ==
  /\ Moves("closePrivate", "readPublic")
  /\ privateFile' \in {Private(key), Torn, Empty}
  /\ damaged' = (damaged \/ privateFile' # Private(key))
  /\ UNCHANGED <<publicFile, disk, memory, generated, key, served, misread>>

\* Faulty variant of GetKeys: only the public key is handed out.
GetKeysFaulty ==
  /\ pc = "ready" /\ public \notin {Absent, Empty}
  /\ served' = <<public>>
  /\ UNCHANGED <<files, disk, memory, pc, generated, key, damaged, misread>>

\* The SDK asks for both keys.  Both getters look at the public key only.
GetKeys ==
  /\ pc = "ready" /\ public # Absent /\ private # Absent /\ public # Empty
  /\ served' = <<public, private>>
  /\ UNCHANGED <<files, disk, memory, pc, generated, key, damaged, misread>>

\* A signal, an exit, or a getter that follows a null pointer.  A file that is open
\* for writing is left empty or short.
Crash ==
  /\ pc # "down" /\ pc' = "down"
  /\ public' = Absent /\ private' = Absent
  /\ IF pc = "closePublic" THEN publicFile' \in {Empty, Torn} ELSE UNCHANGED publicFile
  /\ IF pc = "closePrivate" THEN privateFile' \in {Empty, Torn} ELSE UNCHANGED privateFile
  /\ damaged' = (damaged \/ pc \in {"closePublic", "closePrivate"})
  /\ UNCHANGED <<disk, generated, key, served, misread>>

\* The system writes a file back in its own time: the code calls no fsync.
Sync ==
  /\ \/ publicDisk' = publicFile /\ UNCHANGED privateDisk
     \/ privateDisk' = privateFile /\ UNCHANGED publicDisk
  /\ UNCHANGED <<files, memory, pc, generated, key, history>>

\* What power loss may leave of a file: one that is not all on the disk may be
\* whole, as it was before, empty or short.
Remains(file, onDisk) == IF file = onDisk THEN {file} ELSE {file, onDisk, Empty, Torn}

PowerLoss ==
  /\ pc' = "down"
  /\ public' = Absent /\ private' = Absent
  /\ publicFile' \in Remains(publicFile, publicDisk)
  /\ privateFile' \in Remains(privateFile, privateDisk)
  /\ publicDisk' = publicFile' /\ privateDisk' = privateFile'
  /\ damaged' = (damaged \/ files' # files \/ pc \in {"closePublic", "closePrivate"})
  /\ UNCHANGED <<generated, key, served, misread>>

Next ==
  \/ Boot \/ PublicNotOpened \/ ReadPublic \/ PrivateNotOpened \/ ReadPrivate
  \/ GenerateFails \/ Generate
  \/ OpenPublic \/ ClosePublic \/ OpenPrivate \/ ClosePrivate
  \/ GetKeys \/ Crash \/ Sync \/ PowerLoss

Spec == Init /\ [][Next]_vars

----------------------------------------------------------------------------

\* The type of every variable of KeyStore.
TypeOK ==
  /\ publicFile \in Bytes /\ privateFile \in Bytes
  /\ publicDisk \in Bytes /\ privateDisk \in Bytes
  /\ public \in Bytes /\ private \in Bytes
  /\ pc \in PC /\ generated \in BOOLEAN /\ key \in 0..MaxKeys
  /\ served \in Bytes \X Bytes /\ damaged \in BOOLEAN
  /\ misread \in {"never", "before", "now"}

\* Both files hold their halves of one key pair.
Intact == \E k \in 1..MaxKeys : publicFile = Public(k) /\ privateFile = Private(k)

\* A pair of files that belong together is kept by every process that could open
\* and read what it looked at, and by every crash of one; only a loss of power
\* takes it, before it is on the disk (KeyStoreDefault.cpp:27-29, 99-117).
IntactPairStays ==
  [][Intact /\ misread # "now" => UNCHANGED files \/ (pc' = "down" /\ files # disk)]_vars

\* However often the process died before, the keys the SDK gets are two halves of
\* one pair, as long as no write was cut short and every file that there was could
\* be read (56-122).
MatchedUnlessDamaged ==
  served # NotServed /\ ~damaged /\ misread = "never" =>
    \E k \in 1..MaxKeys : served = <<Public(k), Private(k)>>

\* ... and they are the same at every later start.
KeptUnlessDamaged ==
  [][served # NotServed /\ ~damaged' /\ misread' = "never" => served' = served]_vars

\* key_store.h:38: "Once bound to pilot, keys should not change again".
KeysDoNotChange == [][served # NotServed => served' = served]_vars
=============================================================================
