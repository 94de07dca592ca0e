--------------------------- MODULE StreamBitrate ---------------------------
(***************************************************************************)
(* The bitrate arithmetic at the end of DJILiveview::StreamCallback: bytes *)
(* are summed up in a uint32_t and published as kbit/s when the callback   *)
(* finds enough time gone since the last publication.                      *)
(***************************************************************************)
EXTENDS Integers

CONSTANT UintMod  \* 2^32 in the code: _recv_stream_data_total_size is uint32_t

ASSUME UintModAssumption == UintMod \in Nat \ {0}

BITRATE_CALCULATE_BITS_PER_BYTE == 8
BITRATE_CALCULATE_INTERVAL_TIME_MS == 2000

\* total: bytes since the last publication; since: milliseconds since then, as
\* the callback saw the clock on entry; kbps: the value GetStreamBitrate reads.
Rate == [total : Nat, since : Int, kbps : Nat]
NewRate == [total |-> 0, since |-> 0, kbps |-> 0]

\* The callback reads the clock before anything else, the lock included.  The
\* clock is system_clock: the gap to the last reading may be negative.
Elapse(rate, gap) == [rate EXCEPT !.since = @ + gap]

\* The threshold the code compares the duration with is the number of bits in a
\* byte, not the interval.
Publishes(rate) == rate.since >= BITRATE_CALCULATE_BITS_PER_BYTE

\* unsigned arithmetic, left to right, each division truncating
Kbps(bytes) == (((bytes * BITRATE_CALCULATE_BITS_PER_BYTE) % UintMod)
                  \div (BITRATE_CALCULATE_INTERVAL_TIME_MS \div 1000)) \div 1024

\* Faulty variant of Account: the sum is not reset.
AccountFaulty(rate, len) ==
  LET total == (rate.total + len) % UintMod
  IN  IF Publishes(rate)
        THEN [total |-> total, since |-> 0, kbps |-> Kbps(total)]
        ELSE [rate EXCEPT !.total = total]

Account(rate, len) ==
  LET total == (rate.total + len) % UintMod
  IN  IF Publishes(rate)
        THEN [total |-> 0, since |-> 0, kbps |-> Kbps(total)]
        ELSE [rate EXCEPT !.total = total]
=============================================================================
