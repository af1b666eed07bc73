-------------------------- MODULE WrappingIntegers --------------------------
(* 32-bit wrapped sequence numbers and their conversion from and to 64-bit  *)
(* absolute ones (src/src/wrapping_integers.cc).  MOD stands for 2^32: the  *)
(* code uses nothing of it but that it is even and positive.                *)
EXTENDS Integers

CONSTANTS
  MOD,       \* 2^32
  NoAckno    \* an empty std::optional<Wrap32>

ASSUME ModAssumption ==
  /\ MOD \in Nat /\ MOD > 0 /\ MOD % 2 = 0
  /\ NoAckno \notin Nat

Half == MOD \div 2

Wrap(n, zero) == (n + zero) % MOD

Unwrap(raw, zero, checkpoint) ==
  LET offset    == (raw + MOD - zero) % MOD
      candidate == (checkpoint - (checkpoint % MOD)) + offset
  IN  IF candidate + Half < checkpoint
        THEN candidate + MOD
      ELSE IF checkpoint + Half < candidate /\ candidate >= MOD
        THEN candidate - MOD
      ELSE candidate
=============================================================================
