----------------------------- MODULE SampleMemory -----------------------------
(* The size of the sample memory, common to the recorder and to the buffer. *)
EXTENDS Integers

CONSTANTS
  MemDepth,   (* MEM_DEPTH_G: words of the memory                          *)
  AddrSpace,  (* 2**NUM_ADDR_BITS_C: values of an address of the buffer   *)
  LoWord      (* 2**16: what the first of the two stop words can hold      *)

\* The buffer's addresses have numBits(MEM_DEPTH_C - 1) bits; two stop words
\* hold any number of samples.
ASSUME MemoryAssumption ==
  /\ MemDepth \in Nat \ {0} /\ AddrSpace \in Nat /\ LoWord \in Nat \ {0}
  /\ MemDepth <= AddrSpace
  /\ AddrSpace > LoWord => AddrSpace % LoWord = 0
  /\ MemDepth < LoWord * LoWord

RamAddr == 0 .. AddrSpace - 1
=============================================================================
