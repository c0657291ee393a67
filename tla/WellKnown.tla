----------------------------- MODULE WellKnown -----------------------------
(***************************************************************************)
(* The native conversions of google.protobuf.Timestamp and Duration.       *)
(*                                                                         *)
(* A datetime is the instant it denotes and a timedelta its length, both   *)
(* in microseconds; on the wire both are a number of seconds and a number  *)
(* of nanoseconds.  The widths and the ranges are constants: 64 and 32     *)
(* bits, 10^9 and 10^3, the years 1 to 9999, 10000 years, and the range of *)
(* Python's timedelta in fastproto.                                        *)
(***************************************************************************)
EXTENDS Casts

CONSTANTS
  SecondsBits,      \* width of a varint and of the seconds
  NanosBits,        \* width of the nanoseconds
  NanosPerMicro,    \* nanoseconds of a microsecond
  MicrosPerSecond,  \* microseconds of a second
  TsMin,            \* TS_MIN_SECONDS
  TsMax,            \* TS_MAX_SECONDS
  DurationMax,      \* DURATION_MAX_SECONDS
  TimedeltaMax,     \* seconds that a timedelta may have at most
  ValueError,       \* the exceptions
  OverflowError

ASSUME WellKnownAssumption ==
  /\ NanosPerMicro \in Nat \ {0} /\ MicrosPerSecond \in Nat \ {0}
  /\ SecondsBits \in Nat \ {0} /\ NanosBits \in Nat \ {0}
  /\ TsMin \in Int /\ TsMax \in Int /\ DurationMax \in Nat /\ TimedeltaMax \in Nat
  /\ TsMin > - TimedeltaMax /\ TsMax < TimedeltaMax /\ DurationMax < TimedeltaMax
  /\ TsMin <= 0 /\ 0 <= TsMax
  /\ \A w \in {SecondsBits, NanosBits} : 2 ^ (w - 1) > 0 /\ 2 ^ w = 2 * 2 ^ (w - 1)
  /\ (2 ^ (SecondsBits - 1) - TimedeltaMax) * MicrosPerSecond > 2 ^ (NanosBits - 1)
  /\ ValueError \notin Int /\ OverflowError \notin Int

NanosPerSecond == NanosPerMicro * MicrosPerSecond

\* The nanoseconds of a second fit their width, which is at most a varint's.
ASSUME NanosFit == NanosPerSecond <= 2 ^ (NanosBits - 1) /\ NanosBits <= SecondsBits

MaxNanos == NanosPerSecond - 1
Parts(secs, nanos) == [secs |-> secs, nanos |-> nanos]

\* A datetime without an offset is read as UTC.
Instant(local, offset) == local - offset

\* Rust's `/` and `%` truncate toward zero, div_euclid and rem_euclid do not.
Quotient(a, b) == IF a >= 0 THEN a \div b ELSE - ((- a) \div b)
Remainder(a, b) == a - b * Quotient(a, b)

-----------------------------------------------------------------------------
(* From Python. *)

TotalNanos(micros) == micros * NanosPerMicro

\* Mutant of DatetimeToParts: the division truncates.
DatetimeToParts_Truncates(t) ==
  Parts(Quotient(TotalNanos(t), NanosPerSecond), Remainder(TotalNanos(t), NanosPerSecond))

DatetimeToParts(t) ==
  Parts(TotalNanos(t) \div NanosPerSecond, TotalNanos(t) % NanosPerSecond)

TimedeltaToParts(d) ==
  LET secs == Quotient(TotalNanos(d), NanosPerSecond) IN
  IF AbsWrapping(secs, SecondsBits) > DurationMax
    THEN ValueError
    ELSE Parts(secs, Remainder(TotalNanos(d), NanosPerSecond))

-----------------------------------------------------------------------------
(* To Python. *)

\* timedelta(seconds=, microseconds=), whose constructor raises OverflowError.
TimedeltaFrom(secs, nanos) ==
  LET micros == secs * MicrosPerSecond + Quotient(nanos, NanosPerMicro)
      most == TimedeltaMax * MicrosPerSecond
  IN IF micros \in - most .. most THEN micros ELSE OverflowError

PartsToDatetime(p) ==
  IF p.secs \notin TsMin .. TsMax \/ p.nanos \notin 0 .. MaxNanos
    THEN ValueError
    ELSE TimedeltaFrom(p.secs, p.nanos)

\* Mutant of PartsToTimedelta: only the seconds are checked.
PartsToTimedelta_AnyNanos(p) ==
  IF AbsWrapping(p.secs, SecondsBits) > DurationMax
    THEN ValueError
    ELSE TimedeltaFrom(p.secs, p.nanos)

PartsToTimedelta(p) ==
  IF \/ AbsWrapping(p.secs, SecondsBits) > DurationMax
     \/ AbsWrapping(p.nanos, NanosBits) > MaxNanos
    THEN ValueError
    ELSE TimedeltaFrom(p.secs, p.nanos)
=============================================================================
