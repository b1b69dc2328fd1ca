------------------------------ MODULE CyclicU16 ------------------------------
(***************************************************************************)
(* internal/pppp/protocol/cyclic.go: the 16-bit index of a DRW packet and  *)
(* its two orders.  IsAfter looks half a turn ahead.  Greater compares as  *)
(* plain numbers, but lets the first WrapLimit indices after a wrap count  *)
(* as larger than those before it.                                         *)
(*                                                                         *)
(* The code has Modulus = 65536, halfUint16Range = 32768 and               *)
(* defaultWrapLimit = 256; the constants allow a smaller ring of the same  *)
(* shape.                                                                  *)
(***************************************************************************)
EXTENDS Naturals

CONSTANTS
  Half,      \* halfUint16Range
  WrapLimit  \* defaultWrapLimit

ASSUME RingAssumption ==
  /\ Half \in Nat
  /\ WrapLimit \in Nat
  /\ 0 < WrapLimit
  /\ 2 * WrapLimit <= Half

Modulus == 2 * Half
Index   == 0 .. Modulus - 1

(* The index a counter shows after n increments from 0. *)
Cyclic(n) == n % Modulus

Sub(c, v) == (c + Modulus - v) % Modulus

Diff(a, b)           == (b + Modulus - a) % Modulus
IsAfter(a, b)        == Diff(a, b) # 0 /\ Diff(a, b) < Half
IsAfterOrEqual(a, b) == a = b \/ IsAfter(a, b)

(* The most significant bits of a and b differ. *)
AcrossHalf(a, b) == (a < Half) # (b < Half)

Greater(a, b) ==
  IF AcrossHalf(a, b) THEN Sub(a, WrapLimit) > Sub(b, WrapLimit) ELSE a > b
===============================================================================
