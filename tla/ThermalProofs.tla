--------------------------- MODULE ThermalProofs ---------------------------
(***************************************************************************)
(* Thermal's invariants hold for every configuration, every resolution,    *)
(* any number of pictures and any width of an int32_t.                     *)
(***************************************************************************)
EXTENDS Thermal, TLAPS

\* The steps of Process before it writes.
SizedSteps == {"malloc", "ispRead", "palette", "isotherm", "colorBar", "enhancementRead",
               "brightness", "measurementRead", "measurement", "output"}
EarlySteps == {"open", "resolution", "write"} \cup SizedSteps

\* Every step has a successor, by name.
LEMMA FollowingIs ==
  /\ Following["open"] = "resolution" /\ Following["resolution"] = "malloc"
  /\ Following["malloc"] = "ispRead" /\ Following["ispRead"] = "palette"
  /\ Following["palette"] = "isotherm" /\ Following["isotherm"] = "colorBar"
  /\ Following["colorBar"] = "enhancementRead"
  /\ Following["enhancementRead"] = "brightness"
  /\ Following["brightness"] = "measurementRead"
  /\ Following["measurementRead"] = "measurement"
  /\ Following["measurement"] = "output" /\ Following["output"] = "write"
  /\ Following["write"] = "bar" /\ Following["bar"] = "idle"
  /\ Following["version"] = "idle" /\ Following["filter"] = "rjpegVersion"
  /\ Following["rjpegVersion"] = "rjpegResolution"
  /\ Following["rjpegResolution"] = "idle"
BY DEF Following

\* The steps are those named here.
LEMMA StepsAre == Steps = EarlySteps \cup QuerySteps \cup {"bar"}
BY DEF Steps, Following, EarlySteps, SizedSteps, QuerySteps

\* Every successor is a step or the end of the call.
LEMMA FollowingType == \A s \in Steps : Following[s] \in Steps \cup {"idle"}
BY StepsAre, FollowingIs DEF EarlySteps, SizedSteps, QuerySteps

\* A pixel has a size, and it is what the SDK function of that action writes.
LEMMA PixelBytesFit ==
  ASSUME NEW a \in Actions
  PROVE PixelBytes(a) \in {2, 3, 4} /\ PixelBytes(a) = WrittenBytes(OutputFunction(a))
BY DEF Actions, PixelBytes, WrittenBytes, OutputFunction

\* What an int32_t holds of a size is the size, if an int32_t can hold that
\* (DJIThermal.cpp:511-526).
LEMMA IntOfSize ==
  ASSUME NEW n \in Nat
  PROVE  /\ AsInt(n, IntLimit) \in -IntLimit..(IntLimit - 1)
         /\ n < IntLimit => AsInt(n, IntLimit) = n
<1> DEFINE m == 2 * IntLimit
<1>1. m \in Nat \ {0} /\ n + IntLimit \in Nat
  BY ThermalAssumption
<1>2. (n + IntLimit) % m \in 0..(m - 1)
  BY <1>1
<1>3. n < IntLimit => (n + IntLimit) % m = n + IntLimit
  BY <1>1, ThermalAssumption
<1>4. QED
  BY <1>1, <1>2, <1>3, ThermalAssumption DEF AsInt

\* Nothing assigns _ispConfig.
LEMMA ConfigStays == [Next]_vars => UNCHANGED configured
BY DEF Next, vars

-----------------------------------------------------------------------------
\* A step of Process belongs to one of its actions, that of a query to a query.
StepFits ==
  /\ step \in EarlySteps \cup {"bar"} => action \in Actions
  /\ step \in QuerySteps => action \in Queries

\* The size in force from the resolution to the output.
Sized ==
  step \in SizedSteps =>
    outSize > 0 /\ outSize = AsInt(pixels * PixelBytes(action), IntLimit)

\* The type invariant and which call a step belongs to.
Typed == TypeOK /\ StepFits /\ Sized

\* Each action sets the flags to a truth value or leaves them alone.
LEMMA FlagsStep == FlagsOK /\ [Next]_vars => FlagsOK'
<1> SUFFICES ASSUME FlagsOK, [Next]_vars PROVE FlagsOK' OBVIOUS
<1> USE DEF FlagsOK
<1>1. ASSUME NEW phases, Orderly(phases) PROVE orderly' \in BOOLEAN
  BY <1>1, Zenon DEF Orderly
<1>2. CASE InitMissing
  BY <1>1, <1>2 DEF InitMissing, output
<1>3. CASE InitUnread
  BY <1>1, <1>3 DEF InitUnread, output
<1>4. CASE InitOk
  BY <1>1, <1>4 DEF InitOk, output
<1>5. CASE \E a \in Actions : Process(a)
  <2>1. starved' \in BOOLEAN
    BY <1>5, Zenon DEF Process
  <2> QED BY <1>1, <1>5, <2>1 DEF Process
<1>6. CASE \E q \in Queries : Query(q)
  BY <1>1, <1>6 DEF Query, output
<1>7. CASE Release
  <2>1. destroyFailed' \in BOOLEAN
    <3>1. CASE destroyFailed' = (destroyFailed \/ handle = "live")
      BY <3>1, Zenon
    <3>2. CASE UNCHANGED destroyFailed
      BY <3>2
    <3> QED BY <1>7, <3>1, <3>2 DEF Release, Destroyed
  <2> QED BY <1>1, <1>7, <2>1 DEF Release, output
<1>8. CASE ReleaseCrash
  <2>1. crashed' \in BOOLEAN
    BY <1>8, Zenon DEF ReleaseCrash
  <2> QED BY <1>1, <1>8, <2>1 DEF ReleaseCrash, output
<1>9. CASE SdkCrash
  <2>1. crashed' \in BOOLEAN
    BY <1>9, Zenon DEF SdkCrash
  <2> QED BY <1>9, <2>1 DEF SdkCrash, output, client
<1>10. CASE Resolution \/ Malloc \/ Write
  <2>1. starved' = TRUE \/ UNCHANGED starved
    BY <1>10 DEF Resolution, Malloc, Write
  <2>2. starved' \in BOOLEAN
    BY <2>1, Zenon
  <2> QED BY <1>10, <2>2 DEF Resolution, Malloc, Write, client
<1>11. CASE Open \/ Configure \/ Skip \/ Output \/ SdkFails \/ UNCHANGED vars
  BY <1>11 DEF Open, Configure, Skip, Output, SdkFails, vars, output, client
<1> QED BY <1>2, <1>3, <1>4, <1>5, <1>6, <1>7, <1>8, <1>9, <1>10, <1>11 DEF Next, Call, Stopped

\* Typed holds at first.
LEMMA TypedInit == Init => Typed
<1> SUFFICES ASSUME Init PROVE Typed OBVIOUS
<1>1. FlagsOK
  BY Zenon DEF Init, FlagsOK
<1> QED BY <1>1, ThermalAssumption DEF Init, Typed, TypeOK, StepFits, Sized, SizedSteps,
      EarlySteps, QuerySteps, Calls

\* Every step keeps Typed.
LEMMA TypedStep == Typed /\ [Next]_vars => Typed'
<1> SUFFICES ASSUME Typed, [Next]_vars PROVE Typed' OBVIOUS
<1>0. FlagsOK' /\ UNCHANGED configured
  BY FlagsStep, ConfigStays DEF Typed, TypeOK
<1> USE <1>0, ThermalAssumption DEF Typed, TypeOK, Calls, picture, output, client
<1>1. CASE InitMissing \/ InitUnread \/ InitOk
  <2>1. rjpegData' \in 0..MaxInits /\ allocated' \subseteq 1..MaxInits /\ inits' \in 0..MaxInits
    <3>1. CASE InitMissing
      BY <3>1 DEF InitMissing
    <3>2. CASE NewBuffer
      <4>1. inits' \in 1..MaxInits
        BY <3>2 DEF NewBuffer
      <4> QED BY <3>2, <4>1 DEF NewBuffer
    <3> QED BY <1>1, <3>1, <3>2 DEF InitUnread, InitOk
  <2>2. handle' \in {"null", "live", "gone"} /\ handleData' \in 0..MaxInits
    BY <1>1, <2>1 DEF InitMissing, InitUnread, InitOk, NewBuffer
  <2>3. sdk' \subseteq configured /\ action' \in Calls /\ ret' \in {"success", "error"}
        /\ phase' \in {"new", "failed", "initialised", "released"}
    BY <1>1 DEF InitMissing, InitUnread, InitOk
  <2>4. step' = "idle" /\ UNCHANGED <<pixels, outSize, file, made>>
    BY <1>1 DEF InitMissing, InitUnread, InitOk, Idle
  <2> QED BY <2>1, <2>2, <2>3, <2>4 DEF StepFits, Sized, SizedSteps, EarlySteps, QuerySteps
<1>2. CASE \E a \in Actions : Process(a)
  BY <1>2 DEF Process, Idle, StepFits, Sized, SizedSteps, EarlySteps, QuerySteps, Steps, Following
<1>3. CASE \E q \in Queries : Query(q)
  BY <1>3 DEF Query, Queries, Idle, StepFits, Sized, SizedSteps, EarlySteps, QuerySteps, Steps, Following
<1>4. CASE Release \/ ReleaseCrash
  <2>1. handle' \in {"null", "live", "gone"}
    BY <1>4 DEF Release, ReleaseCrash, Destroyed
  <2>2. rjpegData' \in 0..MaxInits /\ allocated' \subseteq 1..MaxInits
    <3>1. CASE FreeData
      <4>1. 0 \in 0..MaxInits
        OBVIOUS
      <4> QED BY <3>1, <4>1 DEF FreeData
    <3>2. CASE UNCHANGED picture
      BY <3>2
    <3> QED BY <1>4, <3>1, <3>2 DEF Release, ReleaseCrash
  <2>3. action' \in Calls /\ phase' \in {"new", "failed", "initialised", "released"}
    BY <1>4 DEF Release, ReleaseCrash
  <2>4. step' = "idle" /\ UNCHANGED <<handleData, inits, sdk, ret, pixels, outSize, file, made>>
    BY <1>4 DEF Release, ReleaseCrash, Idle
  <2> QED BY <2>1, <2>2, <2>3, <2>4 DEF StepFits, Sized, SizedSteps, EarlySteps, QuerySteps
<1>5. CASE Open
  BY <1>5, FollowingIs, StepsAre DEF Open, Onward, Fail, StepFits, Sized, SizedSteps,
     EarlySteps, QuerySteps
<1>6. CASE Resolution
  <2>1. PICK p \in Resolutions : /\ pixels' = p
                                 /\ outSize' = AsInt(p * PixelBytes(action), IntLimit)
                                 /\ outSize' <= 0 => step' = "idle"
    BY <1>6 DEF Resolution, GiveUp
  <2>2. PixelBytes(action) \in {2, 3, 4} /\ p \in Nat
    BY <1>6, PixelBytesFit DEF Resolution, StepFits, EarlySteps
  <2>3. outSize' \in -IntLimit..(IntLimit - 1)
    <3>1. p * PixelBytes(action) \in Nat
      BY <2>2
    <3> QED BY <2>1, <3>1, IntOfSize
  <2>4. step = "resolution" /\ step' \in {"malloc", "idle"} /\ UNCHANGED action
    BY <1>6, FollowingIs DEF Resolution, Onward, GiveUp
  <2>5. UNCHANGED <<handle, handleData, rjpegData, allocated, inits, sdk, ret, file, made,
                    phase, orderly, destroyFailed, crashed>>
    BY <1>6 DEF Resolution, Onward, GiveUp
  <2>6. StepFits' /\ Sized'
    <3>1. StepFits'
      BY <2>4 DEF StepFits, SizedSteps, EarlySteps, QuerySteps
    <3>2. outSize' = AsInt(pixels' * PixelBytes(action)', IntLimit)
      BY <2>1, <2>4 DEF PixelBytes
    <3>3. step' = "malloc" => outSize' > 0
      BY <2>1, <2>3
    <3> QED BY <2>4, <3>1, <3>2, <3>3 DEF Sized, SizedSteps
  <2> QED BY <2>1, <2>3, <2>4, <2>5, <2>6, StepsAre DEF EarlySteps, SizedSteps
<1>7. CASE Malloc
  <2>1. step = "malloc" /\ step' \in {"ispRead", "idle"}
        /\ UNCHANGED <<action, pixels, outSize>>
    BY <1>7, FollowingIs DEF Malloc, Onward, GiveUp
  <2>2. StepFits' /\ Sized'
    BY <2>1 DEF StepFits, Sized, SizedSteps, EarlySteps, QuerySteps, PixelBytes
  <2> QED BY <1>7, <2>1, <2>2, StepsAre DEF Malloc, Onward, GiveUp, EarlySteps, SizedSteps
<1>8. CASE Configure \/ Skip \/ Output
  <2>1. step \in Steps /\ step # "open" /\ step # "resolution" /\ Onward
        /\ UNCHANGED <<action, pixels, outSize>>
    BY <1>8, StepsAre DEF Configure, Skip, Skips, Output, Isp, EarlySteps, SizedSteps, QuerySteps
  <2>2. StepFits' /\ Sized'
    BY <2>1, FollowingIs, StepsAre DEF StepFits, Sized, SizedSteps, EarlySteps, QuerySteps,
       Onward, PixelBytes
  <2>3. sdk' \subseteq configured /\ made' \subseteq configured
    <3>1. CASE Configure
      <4>1. SetBy(step) \subseteq configured
        BY <3>1 DEF Configure, Skips, SetBy, MeasurementParams, QuerySteps
      <4> QED BY <3>1, <4>1 DEF Configure
    <3>2. CASE Skip \/ Output
      BY <3>2 DEF Skip, Output
    <3> QED BY <1>8, <3>1, <3>2
  <2>4. step' \in Steps \cup {"idle"}
    BY <2>1, FollowingType DEF Onward
  <2>5. UNCHANGED <<handle, handleData, rjpegData, allocated, inits, ret, file, starved,
                    phase, orderly, destroyFailed, crashed>>
    BY <1>8, <2>1 DEF Configure, Skip, Output, Onward
  <2> QED BY <2>1, <2>2, <2>3, <2>4, <2>5
<1>9. CASE Write
  BY <1>9, FollowingIs, StepsAre DEF Write, Onward, StepFits, Sized, SizedSteps,
     EarlySteps, QuerySteps
<1>10. CASE SdkFails \/ SdkCrash
  BY <1>10 DEF SdkFails, SdkCrash, Fail, StepFits, Sized, SizedSteps, EarlySteps, QuerySteps
<1>11. CASE UNCHANGED vars
  <2>1. Sized'
    BY <1>11 DEF vars, Sized, PixelBytes
  <2> QED BY <1>11, <2>1 DEF vars, StepFits
<1> QED BY <1>1, <1>2, <1>3, <1>4, <1>5, <1>6, <1>7, <1>8, <1>9, <1>10, <1>11 DEF Next, Call, Stopped

\* Every variable keeps to its type, for every configuration.
THEOREM TypeCorrect == Spec => []TypeOK
<1>1. Spec => []Typed
  BY TypedInit, TypedStep, PTL DEF Spec
<1>2. Typed => TypeOK
  BY DEF Typed
<1> QED BY <1>1, <1>2, PTL

\* For every configuration and resolution, the buffer for the output is not empty,
\* and what the SDK writes fills it exactly whenever that is a size an int32_t can
\* hold; of a larger one nothing is claimed (DJIThermal.cpp:140-160, 498-532).
THEOREM BufferFitsAlways == Spec => []BufferFits
<1>1. Spec => []Typed
  BY TypedInit, TypedStep, PTL DEF Spec
<1>2. Typed => BufferFits
  <2> SUFFICES ASSUME Typed, step = "output"
      PROVE outSize > 0 /\ (WrittenSize < IntLimit => outSize = WrittenSize)
    BY DEF BufferFits
  <2>1. PixelBytes(action) \in {2, 3, 4} /\ WrittenSize = pixels * PixelBytes(action)
    BY PixelBytesFit DEF Typed, StepFits, EarlySteps, SizedSteps, WrittenSize
  <2>2. outSize > 0 /\ outSize = AsInt(WrittenSize, IntLimit)
    BY <2>1 DEF Typed, Sized, SizedSteps
  <2>3. WrittenSize \in Nat
    <3>1. pixels \in Nat
      BY ThermalAssumption DEF Typed, TypeOK
    <3> QED BY <2>1, <3>1
  <2> QED BY <2>2, <2>3, IntOfSize
<1> QED BY <1>1, <1>2, PTL
-----------------------------------------------------------------------------
\* Only Init and Release touch the handle, the buffers and what Release noted.
LEMMA HeldStill ==
  [Next]_vars =>
    \/ InitUnread \/ InitOk \/ Release
    \/ UNCHANGED <<handle, handleData, rjpegData, allocated, destroyFailed>>
<1> SUFFICES ASSUME [Next]_vars
    PROVE \/ InitUnread \/ InitOk \/ Release
          \/ UNCHANGED <<handle, handleData, rjpegData, allocated, destroyFailed>>
  OBVIOUS
<1> USE DEF picture, client
<1>1. CASE InitMissing \/ ReleaseCrash
  BY <1>1 DEF InitMissing, ReleaseCrash
<1>2. CASE (\E a \in Actions : Process(a)) \/ (\E q \in Queries : Query(q))
  BY <1>2 DEF Process, Query
<1>3. CASE Open \/ Resolution \/ Malloc \/ Configure \/ Skip \/ Output \/ Write \/ SdkFails \/ SdkCrash
  BY <1>3 DEF Open, Resolution, Malloc, Configure, Skip, Output, Write, SdkFails, SdkCrash
<1>4. CASE UNCHANGED vars
  BY <1>4 DEF vars
<1> QED BY <1>1, <1>2, <1>3, <1>4 DEF Next, Call, Stopped

\* The buffer of a live handle is freed by Release alone, which then destroys
\* the handle or notes that it could not.
THEOREM DataOutlives == Spec => []DataOutlivesHandle
<1>1. Init => DataOutlivesHandle
  BY DEF Init, DataOutlivesHandle
<1>2. DataOutlivesHandle /\ [Next]_vars => DataOutlivesHandle'
  <2> SUFFICES ASSUME DataOutlivesHandle, [Next]_vars PROVE DataOutlivesHandle' OBVIOUS
  <2>1. CASE InitUnread
    BY <2>1 DEF InitUnread, NewBuffer, DataOutlivesHandle
  <2>2. CASE InitOk
    BY <2>2 DEF InitOk, NewBuffer, DataOutlivesHandle
  <2>3. CASE Release
    <3>1. handle' = "live" => destroyFailed'
      BY <2>3, Zenon DEF Release, Destroyed
    <3> QED BY <3>1 DEF DataOutlivesHandle
  <2>4. CASE UNCHANGED <<handle, handleData, rjpegData, allocated, destroyFailed>>
    BY <2>4 DEF DataOutlivesHandle
  <2> QED BY <2>1, <2>2, <2>3, <2>4, HeldStill
<1> QED BY <1>1, <1>2, PTL DEF Spec

\* What an orderly client's object holds after each of its calls.  A call runs
\* only on an initialised object, whose handle is on the one buffer there is.
Held ==
  /\ step # "idle" => phase = "initialised"
  /\ phase = "new" => handle = "null" /\ rjpegData = 0 /\ allocated = {}
  /\ phase = "released" => /\ rjpegData = 0 /\ allocated = {}
                           /\ handle = "live" => destroyFailed
  /\ phase = "failed" => /\ allocated \subseteq {rjpegData}
                         /\ handle = "live" => destroyFailed
  /\ phase = "initialised" => /\ handle = "live" /\ handleData = rjpegData
                              /\ allocated = {rjpegData}

OrderInv == orderly => ~crashed /\ Held

\* Every step keeps what an orderly client's object holds.
LEMMA OrderStep == OrderInv /\ [Next]_vars => OrderInv'
<1> SUFFICES ASSUME OrderInv, [Next]_vars, orderly' PROVE ~crashed' /\ Held'
  BY DEF OrderInv
<1> USE DEF OrderInv
<1>1. CASE InitMissing \/ InitUnread
  <2>1. orderly /\ UNCHANGED crashed
    BY <1>1, Zenon DEF InitMissing, InitUnread, Orderly
  <2>2. phase \in {"new", "released"} /\ phase' = "failed" /\ step = "idle" /\ UNCHANGED step
    <3>1. phase \in {"new", "released"}
      BY <1>1, Zenon DEF InitMissing, InitUnread, Orderly
    <3> QED BY <1>1, <3>1 DEF InitMissing, InitUnread, Idle
  <2>3. allocated = {} /\ (handle = "live" => destroyFailed)
    BY <2>1, <2>2 DEF Held
  <2>4. allocated' \subseteq {rjpegData'}
    <3>1. CASE InitMissing
      BY <2>3, <3>1 DEF InitMissing, picture
    <3>2. CASE NewBuffer
      BY <2>3, <3>2 DEF NewBuffer
    <3> QED BY <1>1, <3>1, <3>2 DEF InitUnread
  <2>5. UNCHANGED <<handle, destroyFailed>>
    BY <1>1 DEF InitMissing, InitUnread, picture
  <2> QED BY <2>1, <2>2, <2>3, <2>4, <2>5 DEF Held
<1>2. CASE InitOk
  <2>1. orderly /\ phase \in {"new", "released"} /\ UNCHANGED crashed
    BY <1>2, Zenon DEF InitOk, Orderly
  <2>2. allocated = {}
    BY <2>1 DEF Held
  <2>3. Held'
    BY <1>2, <2>2 DEF InitOk, NewBuffer, Held
  <2> QED BY <2>1, <2>3
<1>3. CASE (\E a \in Actions : Process(a)) \/ (\E q \in Queries : Query(q))
  <2>1. orderly /\ phase = "initialised" /\ UNCHANGED crashed
    BY <1>3, Zenon DEF Process, Query, Orderly
  <2>2. UNCHANGED <<picture, phase>>
    BY <1>3 DEF Process, Query
  <2> QED BY <2>1, <2>2 DEF Held, picture
<1>4. CASE Release
  <2>1. orderly /\ phase = "initialised" /\ UNCHANGED crashed
    BY <1>4, Zenon DEF Release, Orderly
  <2>2. rjpegData' = 0 /\ allocated' = {}
    BY <1>4, <2>1 DEF Release, FreeData, Held
  <2>3. handle' = "live" => destroyFailed'
    BY <1>4, Zenon DEF Release, Destroyed
  <2>4. phase' = "released" /\ step' = "idle"
    BY <1>4 DEF Release, Idle
  <2> QED BY <2>1, <2>2, <2>3, <2>4 DEF Held
<1>5. CASE ReleaseCrash \/ SdkCrash
  <2>1. orderly /\ phase = "initialised"
    <3>1. CASE ReleaseCrash
      BY <3>1, Zenon DEF ReleaseCrash, Orderly
    <3>2. CASE SdkCrash
      <4>1. orderly
        BY <3>2, Zenon DEF SdkCrash, client
      <4>2. step # "idle"
        BY <3>2, StepsAre DEF SdkCrash, SdkSteps, EarlySteps, SizedSteps, QuerySteps
      <4> QED BY <4>1, <4>2 DEF Held
    <3> QED BY <1>5, <3>1, <3>2
  <2>2. Usable
    BY <2>1 DEF Held, Usable
  <2> QED BY <1>5, <2>2 DEF ReleaseCrash, SdkCrash, SdkCrashes
<1>6. CASE Open \/ Resolution \/ Malloc \/ Configure \/ Skip \/ Output \/ Write \/ SdkFails
  <2>1. orderly /\ UNCHANGED crashed
    BY <1>6, Zenon DEF Open, Resolution, Malloc, Configure, Skip, Output, Write, SdkFails, client
  <2>2. step \in Steps
    BY <1>6, StepsAre DEF Open, Resolution, Malloc, Configure, Skip, Skips, Output, Write,
       SdkFails, SdkSteps, EarlySteps, SizedSteps, QuerySteps, Isp
  <2>3. UNCHANGED <<handle, handleData, rjpegData, allocated, phase>>
    BY <1>6 DEF Open, Resolution, Malloc, Configure, Skip, Output, Write, SdkFails, picture, client
  <2> QED BY <2>1, <2>2, <2>3, StepsAre DEF Held, EarlySteps, SizedSteps, QuerySteps
<1>7. CASE UNCHANGED vars
  <2>1. orderly /\ UNCHANGED <<crashed, destroyFailed>>
    BY <1>7, Zenon DEF vars, client
  <2> QED BY <1>7, <2>1 DEF vars, picture, client, Held
<1> QED BY <1>1, <1>2, <1>3, <1>4, <1>5, <1>6, <1>7 DEF Next, Call, Stopped

\* A client that keeps the test's order never reaches a destroyed handle; after
\* Release it holds no buffer and after an Init that failed one at most, and then a
\* live handle only if the SDK refused to destroy it (DJIThermal.cpp:33-58, 192-203).
THEOREM OrderlyAlwaysSafe == Spec => []OrderlyIsSafe
<1>1. Init => OrderInv
  BY DEF Init, OrderInv, Held
<1>2. OrderInv => OrderlyIsSafe
  BY Zenon DEF OrderInv, Held, OrderlyIsSafe
<1> QED BY <1>1, <1>2, OrderStep, PTL DEF Spec

-----------------------------------------------------------------------------
\* The steps of a "process" that come after each ISP setter.
AfterBrightness == {"measurementRead", "measurement", "output"}
AfterColorBar == {"enhancementRead", "brightness"} \cup AfterBrightness
AfterIsotherm == {"colorBar"} \cup AfterColorBar
AfterPalette == {"isotherm"} \cup AfterIsotherm

Due(setting, steps) == step \in steps => configured \cap {setting} \subseteq sdk

\* What the handle holds when the output is made.
Set ==
  /\ action = "process" => /\ Due("palette", AfterPalette)
                           /\ Due("isotherm", AfterIsotherm)
                           /\ Due("colorBar", AfterColorBar)
                           /\ Due("brightness", AfterBrightness)
  /\ step = "output" /\ action \in {"measure", "process"}
       => configured \cap Measurement \subseteq sdk

Converted ==
  /\ action = "process" => made = configured \ Formats
  /\ action = "measure" => configured \cap Measurement \subseteq made

SettingsInv ==
  /\ sdk \subseteq configured \ Formats
  /\ Set
  /\ step = "write" \/ file = "whole" => Converted
  /\ step \in EarlySteps => file # "whole"

\* Every step keeps SettingsInv.
LEMMA SettingsStep == Typed /\ SettingsInv /\ [Next]_vars => SettingsInv'
<1> SUFFICES ASSUME Typed, SettingsInv, [Next]_vars PROVE SettingsInv' OBVIOUS
<1>0. UNCHANGED configured
  BY ConfigStays
<1> USE <1>0 DEF SettingsInv, AfterPalette, AfterIsotherm, AfterColorBar, AfterBrightness
<1>1. CASE \/ InitMissing \/ InitUnread \/ InitOk \/ Release \/ ReleaseCrash
           \/ \E q \in Queries : Query(q)
  <2>1. action' \notin Actions /\ step' \notin EarlySteps /\ UNCHANGED file
        /\ sdk' \subseteq configured \ Formats
    BY <1>1 DEF InitMissing, InitUnread, InitOk, Release, ReleaseCrash, Query, Queries,
       Actions, Idle, EarlySteps, SizedSteps, output
  <2> QED BY <2>1 DEF Set, Converted, Actions, EarlySteps, SizedSteps
<1>2. CASE \E a \in Actions : Process(a)
  BY <1>2 DEF Process, Set, Due
<1>3. CASE Configure
  <2>1. /\ step' = Following[step] /\ step \in Steps
        /\ step \notin {"open", "malloc", "write", "resolution", "output"}
        /\ UNCHANGED <<action, file, made>>
    BY <1>3, StepsAre DEF Configure, Onward, output, Isp, EarlySteps, SizedSteps, QuerySteps
  <2>2. sdk' \subseteq configured \ Formats
    <3>1. SetBy(step) \subseteq configured \ Formats
      BY <1>3 DEF Configure, Skips, SetBy, MeasurementParams, Isp, Measurement, Formats
    <3> QED BY <1>3, <3>1 DEF Configure
  <2>3. sdk \subseteq sdk' /\ (step = "measurement" => configured \cap Measurement \subseteq sdk')
        /\ (step \in Isp => step \in sdk')
    BY <1>3 DEF Configure, SetBy, MeasurementParams, Isp
  <2>4. Set'
    BY <2>1, <2>3, FollowingIs, StepsAre DEF Set, Due, Isp, EarlySteps, SizedSteps, QuerySteps
  <2>5. (step' = "write" \/ file' = "whole" => Converted') /\ (step' \in EarlySteps => file' # "whole")
    BY <2>1, FollowingIs, StepsAre DEF Converted, EarlySteps, SizedSteps, QuerySteps
  <2> QED BY <2>2, <2>4, <2>5
<1>4. CASE Skip
  <2>1. step' = Following[step] /\ UNCHANGED <<sdk, action, file, made>>
    BY <1>4 DEF Skip, Onward, output
  <2>2. Set'
    BY <1>4, <2>1, FollowingIs DEF Set, Due, Skip, Skips, Isp
  <2>3. (step' = "write" \/ file' = "whole" => Converted') /\ (step' \in EarlySteps => file' # "whole")
    BY <1>4, <2>1, FollowingIs DEF Converted, Skip, Skips, Isp, EarlySteps, SizedSteps
  <2> QED BY <2>1, <2>2, <2>3
<1>5. CASE Output
  <2>1. step = "output" /\ step' = "write" /\ made' = sdk /\ UNCHANGED <<sdk, action, file>>
    BY <1>5, FollowingIs DEF Output, Onward
  <2>2. action = "process" => sdk = configured \ Formats
    <3>1. configured \subseteq Measurement \cup Isp \cup Formats
      BY ThermalAssumption DEF Typed, TypeOK
    <3> QED BY <2>1, <3>1 DEF Set, Due, Isp, Formats
  <2>3. Converted'
    BY <2>1, <2>2 DEF Set, Converted
  <2> QED BY <2>1, <2>3 DEF Set, Due, EarlySteps, SizedSteps
<1>6. CASE Open \/ Malloc \/ Resolution
  <2>1. step \in {"open", "malloc", "resolution"}
        /\ step' \in {"resolution", "malloc", "ispRead", "idle"}
        /\ UNCHANGED <<sdk, action, made>> /\ file' \in {file, "empty"}
    BY <1>6, FollowingIs DEF Open, Malloc, Resolution, Onward, Fail, GiveUp
  <2> QED BY <2>1 DEF Set, Due, Converted, EarlySteps, SizedSteps
<1>7. CASE Write
  <2>1. step = "write" /\ step' = "bar" /\ UNCHANGED <<sdk, action, made>>
    BY <1>7, FollowingIs DEF Write, Onward
  <2> QED BY <2>1 DEF Set, Due, Converted, EarlySteps, SizedSteps
<1>8. CASE SdkFails \/ SdkCrash
  <2>1. step' = "idle" /\ UNCHANGED <<sdk, action, made, file>>
    BY <1>8 DEF SdkFails, SdkCrash, Fail, output
  <2> QED BY <2>1 DEF Set, Due, Converted, EarlySteps, SizedSteps
<1>9. CASE UNCHANGED vars
  BY <1>9 DEF vars, output, Set, Due, Converted
<1> QED BY <1>1, <1>2, <1>3, <1>4, <1>5, <1>6, <1>7, <1>8, <1>9 DEF Next, Call, Stopped

\* A picture written whole was converted with what is configured.
THEOREM SettingsAlwaysApplied == Spec => []SettingsApplied
<1>1. Init => SettingsInv
  BY DEF Init, SettingsInv, Set, Due, EarlySteps, SizedSteps
<1>2. Spec => []Typed
  BY TypedInit, TypedStep, PTL DEF Spec
<1>3. SettingsInv => SettingsApplied
  BY DEF SettingsInv, Converted, SettingsApplied
<1> QED BY <1>1, <1>2, <1>3, SettingsStep, PTL DEF Spec

-----------------------------------------------------------------------------
\* The result and the file while Process runs.
ReportInv ==
  /\ step \in EarlySteps => ret = "success" /\ file \in {"untouched", "empty"}
  /\ step = "bar" => ret = "success" /\ (~starved => file = "whole")
  /\ ReportIsRight

\* Every step keeps ReportInv.
LEMMA ReportStep == StepFits /\ ReportInv /\ [Next]_vars => ReportInv'
<1> SUFFICES ASSUME StepFits, ReportInv, [Next]_vars PROVE ReportInv' OBVIOUS
<1>0. UNCHANGED configured
  BY ConfigStays
<1> USE <1>0 DEF ReportInv, ReportIsRight
<1>1. CASE \/ InitMissing \/ InitUnread \/ InitOk \/ Release \/ ReleaseCrash
           \/ \E q \in Queries : Query(q)
  <2>1. action' \notin Actions /\ step' \notin EarlySteps /\ step' # "bar"
    BY <1>1 DEF InitMissing, InitUnread, InitOk, Release, ReleaseCrash, Query, Queries,
       Actions, Idle, EarlySteps, SizedSteps
  <2> QED BY <2>1
<1>2. CASE \E a \in Actions : Process(a)
  <2>1. step' = "open" /\ ret' = "success" /\ file' = "untouched"
    BY <1>2 DEF Process
  <2> QED BY <2>1
<1>3. CASE Configure \/ Skip
  <2>1. step' = Following[step] /\ step \in Steps /\ UNCHANGED <<ret, action, file>>
        /\ step \notin {"open", "malloc", "write", "resolution", "output"}
    BY <1>3, StepsAre DEF Configure, Skip, Skips, Onward, output, Isp, EarlySteps, SizedSteps, QuerySteps
  <2>2. UNCHANGED starved
    BY <1>3 DEF Configure, Skip, output
  <2>3. CASE step = "bar"
    BY <2>1, <2>2, <2>3, FollowingIs DEF EarlySteps, SizedSteps
  <2>4. CASE step \in QuerySteps
    <3>1. action \notin Actions
      BY <2>4 DEF StepFits, Actions, Queries
    <3>2. step' \notin EarlySteps /\ step' # "bar"
      BY <2>1, <2>4, FollowingIs DEF QuerySteps, EarlySteps, SizedSteps
    <3> QED BY <2>1, <3>1, <3>2
  <2>5. CASE step \in EarlySteps
    <3>1. step' \in EarlySteps
      BY <2>1, <2>5, FollowingIs DEF EarlySteps, SizedSteps
    <3>2. step' # "bar" /\ step' # "idle"
      BY <3>1 DEF EarlySteps, SizedSteps
    <3> QED BY <2>1, <2>5, <3>1, <3>2
  <2> QED BY <2>1, <2>3, <2>4, <2>5, StepsAre
<1>4. CASE Open
  BY <1>4, FollowingIs DEF Open, Onward, Fail, EarlySteps, SizedSteps
<1>5. CASE Resolution \/ Malloc
  <2>1. step \in EarlySteps /\ UNCHANGED <<ret, action, file>>
    BY <1>5 DEF Resolution, Malloc, Onward, GiveUp, EarlySteps, SizedSteps
  <2>2. \/ step' \in {"malloc", "ispRead"}
        \/ step' = "idle" /\ starved'
    BY <1>5, FollowingIs DEF Resolution, Malloc, Onward, GiveUp
  <2> QED BY <2>1, <2>2 DEF EarlySteps, SizedSteps
<1>6. CASE Output
  BY <1>6, FollowingIs DEF Output, Onward, EarlySteps, SizedSteps
<1>7. CASE Write
  <2>1. step = "write" /\ step' = "bar" /\ UNCHANGED ret
    BY <1>7, FollowingIs DEF Write, Onward
  <2>2. ~starved' => file' = "whole"
    BY <1>7, Zenon DEF Write
  <2> QED BY <2>1, <2>2 DEF EarlySteps, SizedSteps
<1>8. CASE SdkFails
  <2>1. step' = "idle" /\ ret' = "error" /\ UNCHANGED <<action, file>>
    BY <1>8 DEF SdkFails, Fail, output
  <2>2. step \in QuerySteps => action \notin Actions
    BY DEF StepFits, Actions, Queries
  <2>3. step = "bar" => action = "process" /\ "colorBar" \notin configured
    BY <1>8 DEF SdkFails, Skips
  <2>4. UNCHANGED starved
    BY <1>8 DEF SdkFails, output
  <2>5. step \in EarlySteps \cup QuerySteps \cup {"bar"}
    BY <1>8, StepsAre DEF SdkFails, SdkSteps
  <2> QED BY <2>1, <2>2, <2>3, <2>4, <2>5 DEF EarlySteps, SizedSteps
<1>9. CASE SdkCrash
  <2>1. crashed' /\ step' = "idle"
    BY <1>9 DEF SdkCrash
  <2> QED BY <2>1 DEF EarlySteps, SizedSteps
<1>10. CASE UNCHANGED vars
  BY <1>10 DEF vars, output
<1> QED BY <1>1, <1>2, <1>3, <1>4, <1>5, <1>6, <1>7, <1>8, <1>9, <1>10 DEF Next, Call, Stopped

\* What Process returns fits the file it leaves.
THEOREM ReportAlwaysRight == Spec => []ReportIsRight
<1>1. Init => ReportInv
  BY DEF Init, ReportInv, ReportIsRight, EarlySteps, SizedSteps, Actions
<1>2. Spec => []Typed
  BY TypedInit, TypedStep, PTL DEF Spec
<1>3. Typed => StepFits
  BY DEF Typed
<1>4. ReportInv => ReportIsRight
  BY DEF ReportInv
<1> QED BY <1>1, <1>2, <1>3, <1>4, ReportStep, PTL DEF Spec
=============================================================================
