------------------------------ MODULE FrameMapping -----------------------------
(***************************************************************************)
(* The clocks of an HMIE annotation and of its video: which frame of the   *)
(* video a key of the annotation means, and which frames the video checks  *)
(* look at.  Rates are whole numbers of half frames per second, the unit   *)
(* of the tolerance between two rates; a rate that the annotation has but  *)
(* cannot be used is 0, one it does not have NoRate.  The snapping of      *)
(* floating-point quotients to whole numbers is what makes them exact.     *)
(***************************************************************************)
EXTENDS Integers

NoRate == -1

Mappable(fps, afr) == fps > 0 /\ afr > 0
\* The frame of a key; without usable rates the key itself.
FrameOfKey(key, fps, afr) == IF Mappable(fps, afr) THEN (key * fps) \div afr ELSE key

Smaller(a, b) == IF a <= b THEN a ELSE b
Larger(a, b) == IF a >= b THEN a ELSE b

\* The frames of a video of `count` frames that are looked at: ten, or all, evenly from the second on.
SampleCount == 10
SampleTotal(count) == Smaller(SampleCount, count - 1)
SampleStep(count) == Larger((count - 2) \div Larger(SampleTotal(count) - 1, 1), 1)
SampleIndex(count, i) == Smaller(1 + i * SampleStep(count), count - 1)
SampleIndices(count) == {SampleIndex(count, i) : i \in 0 .. SampleTotal(count) - 1}
==============================================================================
