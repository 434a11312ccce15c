---------------------------- MODULE WriteBuffer ----------------------------
(***************************************************************************)
(* A write buffer of internal/fs/vfile: what a client writes through one   *)
(* fid, kept until the fid is closed.  A buffer is a sequence of bytes, or *)
(* None before the first write.                                            *)
(***************************************************************************)
EXTENDS Integers, Sequences

CONSTANTS
  Byte,       \* the bytes clients write
  Zero,       \* the byte of a hole
  None,       \* no buffer
  Wide        \* 2^64: offsets are below, and sums of them wrap around

ASSUME WriteBufferAssumption == Zero \in Byte /\ None \notin Seq(Byte) /\ Wide \in Nat \ {0}

Text == Seq(Byte)

End(off, data) == off + Len(data)

\* Mutant of Fits: the sum is compared, after it has wrapped around.
FitsBySum(off, data, max) == End(off, data) % Wide <= max

\* The cap, with no sum that could wrap around.
Fits(off, data, max) == off <= max /\ Len(data) <= max - off

\* The buffer with data copied to off; what lies between is a hole.
Overlaid(buf, off, data) ==
  [k \in 1 .. (IF Len(buf) < End(off, data) THEN End(off, data) ELSE Len(buf)) |->
     IF k \in off + 1 .. End(off, data) THEN data[k - off]
     ELSE IF k <= Len(buf) THEN buf[k] ELSE Zero]

\* Mutant of Written: every write at offset 0 cuts the rest off.
WrittenCutting(buf, seed, off, data) ==
  LET new == Overlaid(IF buf = None THEN seed ELSE buf, off, data) IN
  IF off = 0 THEN SubSeq(new, 1, Len(data)) ELSE new

\* Write: the first one starts from the seed, which it replaces if it is at
\* offset 0 and shorter.
Written(buf, seed, off, data) ==
  LET new == Overlaid(IF buf = None THEN seed ELSE buf, off, data) IN
  IF buf = None /\ off = 0 /\ Len(data) < Len(new) THEN SubSeq(new, 1, Len(data)) ELSE new

-----------------------------------------------------------------------------
(* What a file holds after a sequence of writes [at, data], each byte       *)
(* decided by the last write over it: the reference for Written.            *)

Base(seed, ws) ==
  IF ws[1].at = 0 /\ Len(ws[1].data) < Len(seed) THEN <<>> ELSE seed

Over(w, k) == k \in w.at + 1 .. End(w.at, w.data)

SizeOf(seed, ws) ==
  CHOOSE n \in {Len(Base(seed, ws))} \union {End(ws[j].at, ws[j].data) : j \in DOMAIN ws} :
    /\ Len(Base(seed, ws)) <= n
    /\ \A j \in DOMAIN ws : End(ws[j].at, ws[j].data) <= n

Intended(seed, ws) ==
  [k \in 1 .. SizeOf(seed, ws) |->
     LET over == {j \in DOMAIN ws : Over(ws[j], k)} IN
     IF over # {}
     THEN LET last == CHOOSE j \in over : \A i \in over : i <= j IN ws[last].data[k - ws[last].at]
     ELSE IF k <= Len(Base(seed, ws)) THEN Base(seed, ws)[k] ELSE Zero]
=============================================================================
