------------------------------ MODULE Thermal ------------------------------
(***************************************************************************)
(* DJIThermal (DJI/DJIThermal.cpp, DJIThermal.h) over DJI's thermal SDK:   *)
(* Init reads a picture into a buffer and creates a handle on it, Process  *)
(* configures the handle and writes a converted picture, Release destroys  *)
(* the handle.  One thread calls; every SDK call may fail.  A call on a    *)
(* handle that is destroyed, or whose buffer is freed, may do anything.    *)
(***************************************************************************)
EXTENDS MachineInts

CONSTANTS
  Configurations, \* what _ispConfig may override; the program's is {"brightness"}
  Resolutions,    \* the numbers of pixels a picture may have
  IntLimit,       \* an int32_t is less than this (2^31)
  MaxInits        \* bound: how many buffers Init allocates

Measurement == {"distance", "humidity", "emissivity", "reflection", "ambient"}
Isp == {"palette", "isotherm", "colorBar", "brightness"}
Formats == {"float32", "stretch"}

ASSUME ThermalAssumption ==
  /\ Configurations \subseteq SUBSET (Measurement \cup Isp \cup Formats)
  /\ Resolutions \subseteq Nat
  /\ IntLimit \in Nat \ {0} /\ MaxInits \in Nat

VARIABLES
  configured,     \* what this object's _ispConfig overrides
  handle,         \* _handle: "null", "live", or "gone" once it is destroyed
  handleData,     \* the buffer the handle was created on
  rjpegData,      \* _rjpeg_data; 0: null
  allocated,      \* the buffers that are not freed
  inits,          \* the last buffer allocated
  sdk,            \* the settings the handle holds that are not its defaults
  action,         \* the last call: Init, Release, a query or an action of Process
  step,           \* the step it is at; "idle": no call is running
  ret,            \* what the last call returned
  pixels, outSize,\* rjpeg_resolution and out_size
  file,           \* what this Process made of its output file
  made,           \* history: the settings the picture was converted with
  starved,        \* history: this Process met no size, no memory or no disk
  phase, orderly, \* history: the client's last call; whether it keeps the order
  destroyFailed,  \* history: dirp_destroy refused a live handle
  crashed         \* a call on a dangling handle brought the process down

picture == <<handle, handleData, rjpegData, allocated, inits>>
output == <<pixels, outSize, file, made, starved>>
client == <<phase, orderly, destroyFailed>>
vars == <<configured, picture, sdk, action, step, ret, output, client, crashed>>

Actions == {"extract", "measure", "process"}
Queries == {"version", "info"}
Calls == Actions \cup Queries \cup {"none", "init", "release"}

\* The order of a call's steps.  Getters in a row are one step, because they
\* change nothing and end the call alike.
Following ==
  [open |-> "resolution", resolution |-> "malloc", malloc |-> "ispRead",
   ispRead |-> "palette", palette |-> "isotherm", isotherm |-> "colorBar",
   colorBar |-> "enhancementRead", enhancementRead |-> "brightness",
   brightness |-> "measurementRead", measurementRead |-> "measurement",
   measurement |-> "output", output |-> "write", write |-> "bar", bar |-> "idle",
   version |-> "idle",
   filter |-> "rjpegVersion", rjpegVersion |-> "rjpegResolution",
   rjpegResolution |-> "idle"]

Steps == DOMAIN Following

Init ==
  /\ configured \in Configurations
  /\ handle = "null" /\ handleData = 0 /\ rjpegData = 0 /\ allocated = {}
  /\ inits = 0 /\ sdk = {}
  /\ action = "none" /\ step = "idle" /\ ret = "success"
  /\ pixels = 0 /\ outSize = 0 /\ file = "untouched" /\ made = {} /\ starved = FALSE
  /\ phase = "new" /\ orderly = TRUE /\ destroyFailed = FALSE /\ crashed = FALSE

Idle == step = "idle" /\ ~crashed

\* The client of test/test_dji_thermal.cpp gives up when Init fails, and uses
\* and releases only what Init opened.
Orderly(phases) == orderly' = (orderly /\ phase \in phases)

-----------------------------------------------------------------------------
\* Init finds no file.
InitMissing ==
  /\ Idle
  /\ action' = "init" /\ ret' = "error"
  /\ phase' = "failed" /\ Orderly({"new", "released"})
  /\ UNCHANGED <<picture, sdk, output, step, destroyFailed, crashed>>

\* Faulty variant of NewBuffer: the buffer held so far is deleted.
NewBufferFaulty ==
  /\ inits < MaxInits
  /\ inits' = inits + 1
  /\ rjpegData' = inits' /\ allocated' = (allocated \ {rjpegData}) \cup {inits'}

\* _rjpeg_data = new uint8_t[_rjpeg_size]: the buffer held so far is lost.
NewBuffer ==
  /\ inits < MaxInits
  /\ inits' = inits + 1
  /\ rjpegData' = inits' /\ allocated' = allocated \cup {inits'}

\* The file does not open, or the SDK makes no handle of it.
InitUnread ==
  /\ Idle
  /\ NewBuffer
  /\ action' = "init" /\ ret' = "error"
  /\ phase' = "failed" /\ Orderly({"new", "released"})
  /\ UNCHANGED <<handle, handleData, sdk, output, step, destroyFailed, crashed>>

InitOk ==
  /\ Idle
  /\ NewBuffer
  /\ handle' = "live" /\ handleData' = inits' /\ sdk' = {}
  /\ action' = "init" /\ ret' = "success"
  /\ phase' = "initialised" /\ Orderly({"new", "released"})
  /\ UNCHANGED <<output, step, destroyFailed, crashed>>

-----------------------------------------------------------------------------
\* Process starts.
Process(a) ==
  /\ Idle
  /\ action' = a /\ step' = "open" /\ ret' = "success"
  /\ pixels' = 0 /\ outSize' = 0
  /\ file' = "untouched" /\ made' = {} /\ starved' = FALSE
  /\ Orderly({"initialised"})
  /\ UNCHANGED <<picture, sdk, phase, destroyFailed, crashed>>

\* GetSDKVersion and PrintRJPEGInfo.
Query(q) ==
  /\ Idle
  /\ action' = q /\ step' = IF q = "version" THEN "version" ELSE "filter"
  /\ ret' = "success"
  /\ Orderly({"initialised"})
  /\ UNCHANGED <<picture, sdk, output, phase, destroyFailed, crashed>>

Onward == step' = Following[step] /\ UNCHANGED ret
Fail == step' = "idle" /\ ret' = "error"

\* The two early returns that leave ret as it is: no size, no memory.
GiveUp == step' = "idle" /\ UNCHANGED ret

\* Opening the output truncates it, before anything else is known to work.
Open ==
  /\ step = "open"
  /\ \/ Onward /\ file' = "empty"
     \/ Fail /\ UNCHANGED file
  /\ UNCHANGED <<picture, sdk, action, pixels, outSize, made, starved, client, crashed>>

\* Faulty variant of PixelBytes: an RGB picture counted as a raw one.
PixelBytesFaulty(a) == IF a = "measure" /\ "float32" \in configured THEN 4 ELSE 2

\* What prv_get_rjpeg_output_size takes a pixel to be.
PixelBytes(a) ==
  CASE a = "extract" -> 2
    [] a = "measure" -> IF "float32" \in configured THEN 4 ELSE 2
    [] a = "process" -> IF "stretch" \in configured THEN 4 ELSE 3

\* The SDK function called for the output, and what it writes for a pixel.
OutputFunction(a) ==
  CASE a = "extract" -> "get_original_raw"
    [] a = "measure" -> IF "float32" \in configured THEN "measure_ex" ELSE "measure"
    [] a = "process" -> IF "stretch" \in configured THEN "process_strech" ELSE "process"

WrittenBytes(f) ==
  CASE f \in {"measure_ex", "process_strech"} -> 4
    [] f \in {"get_original_raw", "measure"} -> 2
    [] f = "process" -> 3

\* How much that is for the picture in hand.
WrittenSize == pixels * WrittenBytes(OutputFunction(action))

\* A null handle is refused; one that is gone, or on a freed buffer, may do
\* anything; any call may be refused.
Usable == handle = "live" /\ handleData \in allocated
SdkAnswers == handle # "null"
SdkCrashes == handle # "null" /\ ~Usable

\* Faulty variant of Skips: what is not configured is set all the same.
SkipsAsked ==
  \/ step \in {"ispRead", "enhancementRead"} \cup Isp /\ action # "process"
  \/ step \in {"measurementRead", "measurement"} /\ action = "extract"
  \/ step = "bar" /\ (action # "process" \/ "colorBar" \in configured)

\* Faulty variant of Skips: the ISP setters are never called.
SkipsFaulty ==
  \/ step \in {"ispRead", "enhancementRead"} \cup Isp /\ action # "process"
  \/ step \in {"measurementRead", "measurement"} /\ action = "extract"
  \/ step \in Isp
  \/ step = "bar" /\ (action # "process" \/ "colorBar" \in configured)

\* A setting that is not configured, and a step of another action.
Skips ==
  \/ step \in {"ispRead", "enhancementRead"} \cup Isp /\ action # "process"
  \/ step \in {"measurementRead", "measurement"} /\ action = "extract"
  \/ step \in Isp \ configured
  \/ step = "measurement" /\ configured \cap Measurement = {}
  \/ step = "bar" /\ (action # "process" \/ "colorBar" \in configured)

Skip ==
  /\ Skips
  /\ Onward
  /\ UNCHANGED <<picture, sdk, action, output, client, crashed>>

\* Width, height and the bytes of a pixel are multiplied in an int32_t; a size that
\* is not positive ends the call.
Resolution ==
  /\ step = "resolution" /\ SdkAnswers
  /\ \E p \in Resolutions :
       /\ pixels' = p /\ outSize' = AsInt(p * PixelBytes(action), IntLimit)
       /\ IF outSize' <= 0 THEN GiveUp /\ starved' = TRUE
                           ELSE Onward /\ UNCHANGED starved
  /\ UNCHANGED <<picture, sdk, action, file, made, client, crashed>>

Malloc ==
  /\ step = "malloc"
  /\ \/ Onward /\ UNCHANGED starved
     \/ GiveUp /\ starved' = TRUE
  /\ UNCHANGED <<picture, sdk, action, pixels, outSize, file, made, client, crashed>>

\* The SDK calls of the two queries, all of which only read the handle.
QuerySteps == {"version", "filter", "rjpegVersion", "rjpegResolution"}

\* The measurement parameters that are overridden are set in one call.
MeasurementParams == configured \cap Measurement

\* The settings the setter of this step gives the handle.
SetBy(s) == IF s = "measurement" THEN MeasurementParams ELSE {s} \cap Isp

\* An SDK call that only reads the handle, or sets what is configured.
Configure ==
  /\ step \in {"ispRead", "enhancementRead", "measurementRead", "measurement", "bar"}
              \cup QuerySteps \cup Isp
  /\ ~Skips /\ SdkAnswers
  /\ sdk' = sdk \cup SetBy(step)
  /\ Onward
  /\ UNCHANGED <<picture, action, output, client, crashed>>

\* The SDK is told how large the buffer is, and refuses a wrong size with
\* DIRP_ERROR_SIZE (dirp_api.h:59): that is one of SdkFails.
Output ==
  /\ step = "output" /\ SdkAnswers /\ outSize = WrittenSize
  /\ made' = sdk
  /\ Onward
  /\ UNCHANGED <<picture, sdk, action, pixels, outSize, file, starved, client, crashed>>

\* The stream's state is not looked at.
Write ==
  /\ step = "write"
  /\ \/ file' = "whole" /\ UNCHANGED starved
     \/ file' = "part" /\ starved' = TRUE
  /\ Onward
  /\ UNCHANGED <<picture, sdk, action, pixels, outSize, made, client, crashed>>

SdkSteps == Steps \ {"open", "malloc", "write"}

\* Faulty variant of SdkFails: a refused output is logged and not returned.
SdkFailsFaulty ==
  /\ step \in SdkSteps /\ ~Skips
  /\ IF step = "output" THEN step' = "idle" /\ UNCHANGED ret ELSE Fail
  /\ UNCHANGED <<picture, sdk, action, output, client, crashed>>

SdkFails ==
  /\ step \in SdkSteps /\ ~Skips
  /\ Fail
  /\ UNCHANGED <<picture, sdk, action, output, client, crashed>>

SdkCrash ==
  /\ step \in SdkSteps /\ ~Skips /\ SdkCrashes
  /\ crashed' = TRUE /\ step' = "idle"
  /\ UNCHANGED <<picture, sdk, action, output, ret, client>>

\* Faulty variant of FreeData: the pointer is cleared, the buffer is not freed.
FreeDataFaulty == UNCHANGED allocated /\ rjpegData' = 0

-----------------------------------------------------------------------------
\* delete[] _rjpeg_data; _rjpeg_data = nullptr.
FreeData == allocated' = allocated \ {rjpegData} /\ rjpegData' = 0

\* Release destroys the handle and keeps the pointer to it.  Its missing return
\* value is no one's business: the client ignores it.
Destroyed ==
  \/ handle = "null" /\ UNCHANGED <<handle, destroyFailed>>
  \/ handle # "null" /\ handle' = "gone" /\ UNCHANGED destroyFailed
  \/ handle # "null" /\ UNCHANGED handle /\ destroyFailed' = (destroyFailed \/ handle = "live")

Release ==
  /\ Idle
  /\ Destroyed
  /\ FreeData
  /\ action' = "release" /\ phase' = "released" /\ Orderly({"initialised"})
  /\ UNCHANGED <<handleData, inits, sdk, output, step, ret, crashed>>

\* dirp_destroy of a handle that is gone.
ReleaseCrash ==
  /\ Idle /\ SdkCrashes
  /\ crashed' = TRUE
  /\ action' = "release" /\ phase' = "released" /\ Orderly({"initialised"})
  /\ UNCHANGED <<picture, sdk, output, step, ret, destroyFailed>>

\* Nothing follows a crash.
Stopped == crashed /\ UNCHANGED vars

Call ==
  \/ InitMissing \/ InitUnread \/ InitOk
  \/ \E a \in Actions : Process(a)
  \/ \E q \in Queries : Query(q)
  \/ Open \/ Resolution \/ Malloc \/ Configure \/ Skip \/ Output \/ Write
  \/ SdkFails \/ SdkCrash
  \/ Release \/ ReleaseCrash \/ Stopped

\* Nothing assigns _ispConfig after the object is made.
Next == Call /\ UNCHANGED configured

Spec == Init /\ [][Next]_vars

-----------------------------------------------------------------------------
\* The flags are truth values.
FlagsOK ==
  /\ starved \in BOOLEAN /\ orderly \in BOOLEAN
  /\ destroyFailed \in BOOLEAN /\ crashed \in BOOLEAN

\* Every variable keeps to its type, and no setting reaches the handle that is
\* not configured.
TypeOK ==
  /\ FlagsOK
  /\ handle \in {"null", "live", "gone"}
  /\ handleData \in 0..MaxInits /\ rjpegData \in 0..MaxInits
  /\ allocated \subseteq 1..MaxInits /\ inits \in 0..MaxInits
  /\ configured \in Configurations /\ sdk \subseteq configured /\ made \subseteq configured
  /\ action \in Calls
  /\ step \in Steps \cup {"idle"}
  /\ ret \in {"success", "error"}
  /\ pixels \in Resolutions \cup {0} /\ outSize \in -IntLimit..(IntLimit - 1)
  /\ file \in {"untouched", "empty", "part", "whole"}
  /\ phase \in {"new", "failed", "initialised", "released"}

\* Whatever order the calls come in, the buffer a live handle was created on is
\* not freed, as dirp_api.h:206 asks: a second Init loses the first buffer, but
\* never frees it under a handle it does not replace.  Only a dirp_destroy that
\* fails leaves a live handle on a freed buffer.
DataOutlivesHandle ==
  handle = "live" /\ ~destroyFailed => handleData \in allocated

\* A client that keeps the order of the test (Init until it succeeds at once,
\* then any calls, then Release once, then perhaps another picture) never calls
\* the SDK with a destroyed handle, although Release does not clear it.  Release
\* leaves it no buffer, an Init that fails leaves it one at most, and either leaves a
\* live handle only if the SDK refused to destroy it (DJIThermal.cpp:33-58, 192-203).
OrderlyIsSafe ==
  orderly =>
    /\ ~crashed
    /\ (phase = "released" => rjpegData = 0 /\ allocated = {})
    /\ (phase = "failed" => allocated \subseteq {rjpegData})
    /\ (phase \in {"released", "failed"} /\ handle = "live" => destroyFailed)

\* When the output is made, the buffer that Process sized in one switch is never
\* empty, and holds exactly what the SDK function it calls in the other switch
\* writes, as long as an int32_t can hold that (DJIThermal.cpp:140-160, 498-532).
\* The size of a larger picture wraps, and may be positive and too small.
BufferFits ==
  step = "output" => outSize > 0 /\ (WrittenSize < IntLimit => outSize = WrittenSize)

\* A picture that was written whole was converted with everything that is
\* configured for its action, and never with something that is not configured.
SettingsApplied ==
  file = "whole" =>
    /\ (action = "process" => made = configured \ Formats)
    /\ (action = "measure" => configured \cap Measurement \subseteq made)

\* What Process returns fits the file it leaves: after success the file is
\* whole, unless a size, memory or disk were missing, which it does not report;
\* after an error it is not half written, and whole only when the adaptive
\* colour bar was refused after the write.
ReportIsRight ==
  step = "idle" /\ ~crashed /\ action \in Actions /\ ~starved =>
    /\ (ret = "success" => file = "whole")
    /\ (ret = "error" => file # "part")
    /\ (ret = "error" /\ file = "whole" => action = "process" /\ "colorBar" \notin configured)
=============================================================================
