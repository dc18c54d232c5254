----------------------------- MODULE ProofOfWork -----------------------------
(***************************************************************************)
(* The two counts of a hash's leading zero bits: checkLeadingZeroBits of   *)
(* src/c++/src/core/crypto.cpp, by which a node and the backend take a     *)
(* nonce, and zeros of src/c++/src/miningproblem/main.cpp, which the       *)
(* backend gives the pool for its shares.  A hash is a sequence of bytes.  *)
(***************************************************************************)
EXTENDS Integers, Sequences, FiniteSetsExt

\* v >> n for a byte.
PowersOfTwo == <<2, 4, 8, 16, 32, 64, 128>>
ShiftedRight(v, n) == v \div PowersOfTwo[n]

CheckLeadingZeroBits(hash, challengeSize) ==
  LET bytes == challengeSize \div 8
      remaining == challengeSize - 8 * bytes
  IN  /\ \A i \in 1 .. bytes : hash[i] = 0
      /\ remaining > 0 => ShiftedRight(hash[bytes + 1], 8 - remaining) = 0

\* The greatest value of a byte with n leading zeros or more.
Limits == <<127, 63, 31, 15, 7, 3, 1>>

\* Mutant: a byte at a limit is counted a bit short.
ZerosShort(hash) ==
  LET set == {i \in DOMAIN hash : hash[i] # 0}
  IN  IF set = {} THEN 8 * Len(hash)
      ELSE 8 * (Min(set) - 1) + Cardinality({n \in DOMAIN Limits : hash[Min(set)] < Limits[n]})

Zeros(hash) ==
  LET set == {i \in DOMAIN hash : hash[i] # 0}
  IN  IF set = {} THEN 8 * Len(hash)
      ELSE 8 * (Min(set) - 1) + Cardinality({n \in DOMAIN Limits : hash[Min(set)] <= Limits[n]})

===============================================================================
