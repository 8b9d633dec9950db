----------------------------- MODULE Directives -----------------------------
(***************************************************************************)
(* Cache-Control directives and durations (internal/ccdirectives.go).      *)
(*                                                                         *)
(* A Cache-Control field is abstracted to a record with one component per  *)
(* directive the cache reads.  A delta-seconds argument is a natural       *)
(* number of seconds, Absent when the directive is missing, or Bare when   *)
(* the directive is there with no usable argument.  (An unparsable         *)
(* max-stale is ignored by the code exactly like an absent one, so Bare    *)
(* means "max-stale" without argument there.)  A Go time.Duration is an    *)
(* integer of bounded width: MaxDuration is its largest value and Second   *)
(* the number of its units in a second.                                    *)
(***************************************************************************)
EXTENDS Integers

CONSTANTS Absent,       \* a header field or directive that is not there
          Bare,         \* one that is there with no usable argument
          MaxDuration,  \* largest time.Duration (2^63 - 1 in the build)
          Second        \* time.Second

ASSUME SentinelAssumption == /\ Absent \notin Int
                             /\ Bare \notin Int
                             /\ Absent # Bare
ASSUME DurationAssumption == /\ Second \in Nat \ {0}
                             /\ MaxDuration \in Nat
                             /\ Second <= MaxDuration

Delta == Nat \cup {Absent, Bare}

\* Two's complement arithmetic of the width that MaxDuration gives.
Wrap(x) ==
    IF -(MaxDuration + 1) <= x /\ x <= MaxDuration
    THEN x
    ELSE ((x + MaxDuration + 1) % (2 * (MaxDuration + 1))) - (MaxDuration + 1)

\* time.Time.Sub: the difference of two times saturates instead.
Sub(t, u) ==
    IF t - u > MaxDuration THEN MaxDuration
    ELSE IF t - u < -(MaxDuration + 1) THEN -(MaxDuration + 1)
    ELSE t - u

ReqCC == [maxAge : Delta, minFresh : Delta, maxStale : Delta,
          staleIfError : Delta,
          noCache : BOOLEAN, noStore : BOOLEAN, onlyIfCached : BOOLEAN]

\* noCache is "fields" for the qualified form no-cache="a, b".
RespCC == [maxAge : Delta, swr : Delta, staleIfError : Delta,
           noCache : {"absent", "all", "fields"},
           noStore : BOOLEAN, mustRevalidate : BOOLEAN,
           mustUnderstand : BOOLEAN, immutable : BOOLEAN, public : BOOLEAN]

\* A message without a Cache-Control field: the nil directive map.
NoReqCC == [maxAge |-> Absent, minFresh |-> Absent, maxStale |-> Absent,
            staleIfError |-> Absent, noCache |-> FALSE, noStore |-> FALSE,
            onlyIfCached |-> FALSE]
NoRespCC == [maxAge |-> Absent, swr |-> Absent, staleIfError |-> Absent,
             noCache |-> "absent", noStore |-> FALSE, mustRevalidate |-> FALSE,
             mustUnderstand |-> FALSE, immutable |-> FALSE, public |-> FALSE]

\* ParseCCResponseDirectives of a response header.
ResponseDirectives(hdr) == IF hdr.cc = Absent THEN NoRespCC ELSE hdr.cc

\* RawDeltaSeconds.Value: whether there is a value, and the value.
IsDelta(d) == d \notin {Absent, Bare}
DeltaValue(d) == Wrap(d * Second)
=============================================================================
