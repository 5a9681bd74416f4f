------------------------------ MODULE NetClock ------------------------------
(***************************************************************************)
(* The network time of a node (internal/clocksync/clock.go): its wall      *)
(* clock moved by half the average of the last samples, each the distance  *)
(* of a packet's stamp from the wall clock when the packet arrived.        *)
(***************************************************************************)
EXTENDS Sums, Sequences

CONSTANTS
  MaxSamples,  \* Sync.max
  Clamp        \* node.go: samples further off than this are ignored

ASSUME NetClockAssumption == MaxSamples \in Nat \ {0} /\ Clamp \in Nat

\* Division of Go, which rounds towards zero.
Quotient(a, b) == IF a >= 0 THEN a \div b ELSE -((-a) \div b)

Average(s) == Quotient(Total(s, Len(s)), Len(s))

\* Mutant: the whole average is added.
WholeOffset(s) == IF s = <<>> THEN 0 ELSE Average(s)

\* Sync.Now - time.Now().
Offset(s) == IF s = <<>> THEN 0 ELSE Quotient(Average(s), 2)

\* Mutant: the window is not bounded.
ObserveAll(s, sample) == Append(s, sample)

\* Sync.Observe of a sample that the node does not ignore.
Observe(s, sample) ==
  IF sample \notin -Clamp..Clamp THEN s
  ELSE IF Len(s) < MaxSamples THEN Append(s, sample)
  ELSE Append(Tail(s), sample)
=============================================================================
