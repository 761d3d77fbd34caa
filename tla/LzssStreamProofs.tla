-------------------------- MODULE LzssStreamProofs --------------------------
(***************************************************************************)
(* Proofs about LzssStream, for bytes, windows, flags, items and inputs of *)
(* any size: neither Compress's buffer nor Expand's output is ever         *)
(* overrun, and Expand gives back what was packed.                         *)
(***************************************************************************)
EXTENDS LzssStream, WellFoundedInduction, TLAPS

-----------------------------------------------------------------------------
(* Arithmetic.                                                             *)

LEMMA Smallest ==
  ASSUME NEW D, D \subseteq Nat, D # {}
  PROVE  \E x \in D : \A y \in D : x <= y
<1> DEFINE R == OpToRel(<, Nat)
<1>1. IsWellFoundedOn(R, Nat)
  BY NatLessThanWellFounded
<1>2. \A m, n \in Nat : m < n => <<m, n>> \in R
  BY DEF OpToRel
<1> HIDE DEF R
<1>3. PICK x \in D : \A y \in D : ~ (<<y, x>> \in R)
  BY <1>1, WFMin
<1>4. x \in Nat /\ \A y \in D : y \in Nat /\ ~ (y < x)
  BY <1>2, <1>3
<1> QED
  BY <1>3, <1>4

(* A set of numbers that holds 0 and every successor holds all of them.    *)
LEMMA SetInduction ==
  ASSUME NEW S, 0 \in S, \A n \in Nat : n \in S => n + 1 \in S
  PROVE  \A n \in Nat : n \in S
<1> SUFFICES ASSUME Nat \ S # {} PROVE FALSE
  OBVIOUS
<1>1. PICK x \in Nat \ S : \A y \in Nat \ S : x <= y
  BY Smallest
<1>2. x - 1 \in Nat
  BY <1>1
<1>3. x - 1 \in S
  BY <1>1, <1>2
<1> QED
  BY <1>1, <1>2, <1>3

LEMMA Product ==
  ASSUME NEW a \in Nat, NEW b \in Nat
  PROVE  a * b \in Nat
OBVIOUS

LEMMA WholeDivision ==
  ASSUME NEW a \in Int, NEW m \in Nat \ {0}
  PROVE  /\ a = m * (a \div m) + (a % m)
         /\ a % m \in 0 .. m - 1
         /\ a \div m \in Int
OBVIOUS

LEMMA AtLeastOnce ==
  ASSUME NEW m \in Nat \ {0}, NEW x \in Int, x >= 1
  PROVE  m * x >= m
<1>1. x - 1 \in Nat
  OBVIOUS
<1>2. m * (x - 1) \in Nat
  BY <1>1, Product
<1>3. m * x = m * (x - 1) + m
  OBVIOUS
<1>4. m * (x - 1) >= 0
  BY <1>2
<1> QED
  BY <1>3, <1>4

(* Quotient and remainder are determined by what they stand for.           *)
LEMMA WholeDivides ==
  ASSUME NEW a \in Int, NEW m \in Nat \ {0}, NEW d \in Int, NEW r \in 0 .. m - 1,
         a = m * d + r
  PROVE  a \div m = d /\ a % m = r
<1>1. PICK e, s : e = a \div m /\ s = a % m
  OBVIOUS
<1>2. a = m * e + s /\ e \in Int /\ s \in 0 .. m - 1
  BY <1>1, WholeDivision
<1>3. m * (e - d) = r - s /\ m * (d - e) = s - r
  BY <1>2
<1>4. ~(e - d >= 1)
  BY <1>2, <1>3, AtLeastOnce
<1>5. ~(d - e >= 1)
  BY <1>2, <1>3, AtLeastOnce
<1>6. e = d
  BY <1>2, <1>4, <1>5
<1> QED
  BY <1>1, <1>2, <1>6

LEMMA Division ==
  ASSUME NEW a \in Nat, NEW m \in Nat \ {0}
  PROVE  /\ a = m * (a \div m) + (a % m)
         /\ a % m \in 0 .. m - 1
         /\ a \div m \in Nat
OBVIOUS

-----------------------------------------------------------------------------
(* The bits of a byte of flags.                                            *)

MaskStep(f, bit) == IF bit = 0 THEN 1 ELSE 2 * f[bit - 1]

LEMMA MaskExists ==
  ASSUME NEW m \in Nat
  PROVE  \E f : f = [bit \in 0 .. m |-> MaskStep(f, bit)]
<1> DEFINE H == {k \in Nat : \E f : f = [bit \in 0 .. k |-> MaskStep(f, bit)]}
<1>1. 0 \in H
  <2> DEFINE f == [bit \in 0 .. 0 |-> 1]
  <2>1. f = [bit \in 0 .. 0 |-> MaskStep(f, bit)]
    BY DEF MaskStep
  <2> QED
    BY <2>1
<1>2. ASSUME NEW k \in Nat, k \in H PROVE k + 1 \in H
  <2>1. PICK f : f = [bit \in 0 .. k |-> MaskStep(f, bit)]
    BY <1>2
  <2> DEFINE g == [bit \in 0 .. k + 1 |-> MaskStep(f, bit)]
  <2>2. \A bit \in 0 .. k : g[bit] = f[bit]
    <3> SUFFICES ASSUME NEW bit \in 0 .. k PROVE g[bit] = f[bit]
      OBVIOUS
    <3>1. f[bit] = MaskStep(f, bit)
      BY <2>1
    <3> QED
      BY <3>1
  <2>3. ASSUME NEW bit \in 0 .. k + 1 PROVE MaskStep(g, bit) = MaskStep(f, bit)
    <3> HIDE DEF g
    <3>1. bit # 0 => bit - 1 \in 0 .. k
      OBVIOUS
    <3>2. bit # 0 => g[bit - 1] = f[bit - 1]
      BY <3>1, <2>2
    <3> QED
      BY <3>2 DEF MaskStep
  <2>4. g = [bit \in 0 .. k + 1 |-> MaskStep(g, bit)]
    BY <2>3
  <2> HIDE DEF g
  <2> QED
    BY <2>4
<1> HIDE DEF H
<1>3. m \in H
  BY <1>1, <1>2, SetInduction
<1> QED
  BY <1>3 DEF H

LEMMA MaskUnfolds ==
  /\ Mask[0] = 1
  /\ \A bit \in 1 .. FlagBits : Mask[bit] = 2 * Mask[bit - 1]
<1> DEFINE c == CHOOSE f : f = [bit \in 0 .. FlagBits |-> MaskStep(f, bit)]
<1>1. c = [bit \in 0 .. FlagBits |-> MaskStep(c, bit)]
  <2>1. \E f : f = [bit \in 0 .. FlagBits |-> MaskStep(f, bit)]
    BY FlagBitsAssumption, MaskExists
  <2> QED
    BY <2>1, Zenon
<1>2. Mask = c
  BY Zenon DEF Mask, MaskStep
<1> HIDE DEF c
<1>3. \A bit \in 0 .. FlagBits : Mask[bit] = MaskStep(Mask, bit)
  BY <1>1, <1>2
<1> QED
  BY <1>3, FlagBitsAssumption DEF MaskStep

(* A mask is an even multiple of every smaller one, and fits in a byte.    *)
Multiple(a, b) == \E q \in Nat \ {0} : a = b * (2 * q)

LEMMA MaskIsMultiple ==
  ASSUME NEW j \in 0 .. FlagBits
  PROVE  /\ Mask[j] \in Nat \ {0}
         /\ \A k \in 0 .. FlagBits : k > j => Multiple(Mask[k], Mask[j])
<1>1. \A i \in 0 .. FlagBits : Mask[i] \in Nat \ {0}
  <2> DEFINE H == {n \in Nat : n <= FlagBits => Mask[n] \in Nat \ {0}}
  <2>1. 0 \in H
    BY MaskUnfolds
  <2>2. ASSUME NEW n \in Nat, n \in H PROVE n + 1 \in H
    <3> SUFFICES ASSUME n + 1 <= FlagBits PROVE Mask[n + 1] \in Nat \ {0}
      OBVIOUS
    <3>1. n + 1 \in 1 .. FlagBits /\ n <= FlagBits /\ (n + 1) - 1 = n
      BY FlagBitsAssumption
    <3>2. Mask[n + 1] = 2 * Mask[n]
      BY <3>1, MaskUnfolds
    <3> QED
      BY <3>1, <3>2, <2>2
  <2> HIDE DEF H
  <2>3. \A n \in Nat : n \in H
    BY <2>1, <2>2, SetInduction
  <2> QED
    BY <2>3 DEF H
<1>2. \A k \in 0 .. FlagBits : k > j => Multiple(Mask[k], Mask[j])
  <2> DEFINE H == {n \in Nat : j + (n + 1) <= FlagBits => Multiple(Mask[j + (n + 1)], Mask[j])}
  <2>1. ASSUME NEW k \in 0 .. FlagBits - 1 PROVE Mask[k + 1] = 2 * Mask[k]
    <3>1. k + 1 \in 1 .. FlagBits /\ (k + 1) - 1 = k
      BY FlagBitsAssumption
    <3> QED
      BY <3>1, MaskUnfolds
  <2>2. 0 \in H
    <3> SUFFICES ASSUME j + 1 <= FlagBits PROVE Multiple(Mask[j + 1], Mask[j])
      OBVIOUS
    <3>1. Mask[j + 1] = 2 * Mask[j] /\ Mask[j] \in Nat
      BY <1>1, <2>1, FlagBitsAssumption
    <3>2. Mask[j + 1] = Mask[j] * (2 * 1)
      BY <3>1
    <3> QED
      BY <3>2 DEF Multiple
  <2>3. ASSUME NEW n \in Nat, n \in H PROVE n + 1 \in H
    <3> SUFFICES ASSUME j + ((n + 1) + 1) <= FlagBits
                 PROVE  Multiple(Mask[j + ((n + 1) + 1)], Mask[j])
      OBVIOUS
    <3>1. Multiple(Mask[j + (n + 1)], Mask[j])
      BY <2>3, FlagBitsAssumption
    <3>2. PICK q \in Nat \ {0} : Mask[j + (n + 1)] = Mask[j] * (2 * q)
      BY <3>1 DEF Multiple
    <3>3. j + (n + 1) \in 0 .. FlagBits - 1 /\ (j + (n + 1)) + 1 = j + ((n + 1) + 1)
      BY FlagBitsAssumption
    <3>4. Mask[j + ((n + 1) + 1)] = 2 * Mask[j + (n + 1)]
      BY <2>1, <3>3
    <3>5. PICK a \in Nat : a = Mask[j]
      BY <1>1
    <3>6. Mask[j + ((n + 1) + 1)] = a * (2 * (2 * q)) /\ 2 * q \in Nat \ {0}
      BY <3>2, <3>4, <3>5
    <3> QED
      BY <3>5, <3>6 DEF Multiple
  <2> HIDE DEF H
  <2>4. \A n \in Nat : n \in H
    BY <2>2, <2>3, SetInduction
  <2> SUFFICES ASSUME NEW k \in 0 .. FlagBits, k > j PROVE Multiple(Mask[k], Mask[j])
    OBVIOUS
  <2>5. k - j - 1 \in Nat /\ j + ((k - j - 1) + 1) = k
    OBVIOUS
  <2>6. k - j - 1 \in H
    BY <2>4, <2>5
  <2> QED
    BY <2>5, <2>6 DEF H
<1> QED
  BY <1>1, <1>2

LEMMA MasksFit ==
  ASSUME NEW j \in 0 .. FlagBits
  PROVE  Mask[j] \in Nat \ {0} /\ Mask[j] <= ByteSize
<1>1. Mask[j] \in Nat \ {0} /\ FlagBits \in 0 .. FlagBits
  BY MaskIsMultiple, FlagBitsAssumption
<1>2. j < FlagBits => Mask[j] <= Mask[FlagBits]
  <2> SUFFICES ASSUME j < FlagBits PROVE Mask[j] <= Mask[FlagBits]
    OBVIOUS
  <2>1. PICK q \in Nat \ {0} : Mask[FlagBits] = Mask[j] * (2 * q)
    BY <1>1, MaskIsMultiple, FlagBitsAssumption DEF Multiple
  <2>2. 2 * q \in Int /\ 2 * q >= 1
    OBVIOUS
  <2> QED
    BY <2>1, <2>2, <1>1, AtLeastOnce
<1>3. Mask[FlagBits] \in Nat
  BY <1>1, MaskIsMultiple
<1> QED
  BY <1>1, <1>2, <1>3, MasksAssumption, SizesAssumption, FlagBitsAssumption

(* A flag that is set, or left out, is read back, and the ones before it   *)
(* are not touched.                                                        *)
FlagOf(byte, bit) == (byte \div Mask[bit]) % 2

LEMMA NewFlag ==
  ASSUME NEW bit \in 0 .. FlagBits, NEW byte \in Nat, byte < Mask[bit]
  PROVE  FlagOf(byte + Mask[bit], bit) = 1 /\ FlagOf(byte, bit) = 0
<1>1. PICK m : m = Mask[bit]
  OBVIOUS
<1>2. m \in Nat \ {0} /\ byte \in 0 .. m - 1
  BY <1>1, MasksFit
<1>3. byte + m = m * 1 + byte /\ byte = m * 0 + byte /\ byte + m \in Nat
  BY <1>2
<1>4. (byte + m) \div m = 1 /\ byte \div m = 0
  BY <1>2, <1>3, WholeDivides
<1> QED
  BY <1>1, <1>4 DEF FlagOf

LEMMA OldFlag ==
  ASSUME NEW bit \in 0 .. FlagBits, NEW j \in 0 .. FlagBits, j < bit, NEW byte \in Nat
  PROVE  FlagOf(byte + Mask[bit], j) = FlagOf(byte, j)
<1>1. PICK m : m = Mask[j]
  OBVIOUS
<1>2. m \in Nat \ {0}
  BY <1>1, MasksFit
<1>3. PICK q \in Nat \ {0} : Mask[bit] = m * (2 * q)
  BY <1>1, MaskIsMultiple DEF Multiple
<1>4. PICK d, r : d = byte \div m /\ r = byte % m
  OBVIOUS
<1>5. byte = m * d + r /\ d \in Nat /\ r \in 0 .. m - 1
  BY <1>2, <1>4, Division
<1>6. byte + m * (2 * q) = m * (d + 2 * q) + r
  BY <1>2, <1>5
<1>7. m * (2 * q) \in Nat /\ d + 2 * q \in Nat
  <2>1. 2 * q \in Nat
    OBVIOUS
  <2> QED
    BY <2>1, <1>2, <1>5, Product
<1>8. byte + m * (2 * q) \in Nat
  BY <1>7
<1>9. (byte + m * (2 * q)) \div m = d + 2 * q
  BY <1>2, <1>5, <1>6, <1>7, <1>8, WholeDivides
<1>10. (d + 2 * q) % 2 = d % 2
  BY <1>5
<1> QED
  BY <1>1, <1>3, <1>4, <1>9, <1>10 DEF FlagOf

-----------------------------------------------------------------------------
(* Sizes, and the window's arithmetic.                                     *)

LEMMA WindowIsLarge ==
  /\ ByteSize \in Nat /\ ByteSize > 1 /\ HighSize \in Nat \ {0}
  /\ WindowSize \in Nat /\ WindowSize > 1
  /\ 0 \in Byte /\ 0 \in Position /\ 1 \in Position
<1>1. ByteSize \in Nat /\ HighSize \in Nat \ {0}
  BY SizesAssumption
<1>2. ByteSize >= 2
  <2>1. Mask[1] = 2 * Mask[0] /\ Mask[0] = 1 /\ 1 \in 0 .. FlagBits
    BY MaskUnfolds, FlagBitsAssumption
  <2>2. Mask[1] <= ByteSize
    BY <2>1, MasksFit
  <2> QED
    BY <2>1, <2>2, <1>1
<1>3. ByteSize * HighSize >= ByteSize
  BY <1>1, <1>2, AtLeastOnce
<1>4. ByteSize * HighSize \in Nat
  BY <1>1, Product
<1> QED
  BY <1>1, <1>2, <1>3, <1>4 DEF WindowSize, Byte, Position

LEMMA ModOf ==
  ASSUME NEW n \in Nat \ {0}, NEW a \in Int
  PROVE  /\ a % n \in 0 .. n - 1
         /\ a \in 0 .. n - 1 => a % n = a
         /\ a \in n .. 2 * n - 1 => a % n = a - n
         /\ a \in (- n) .. (-1) => a % n = a + n
OBVIOUS

LEMMA Wrapped ==
  ASSUME NEW a \in Int
  PROVE  /\ ModWindow(a) \in Position
         /\ a \in Position => ModWindow(a) = a
         /\ a \in WindowSize .. 2 * WindowSize - 1 => ModWindow(a) = a - WindowSize
         /\ a \in (- WindowSize) .. (-1) => ModWindow(a) = a + WindowSize
<1>1. WindowSize \in Nat \ {0}
  BY WindowIsLarge
<1> QED
  BY <1>1, ModOf DEF ModWindow, Position

(* A position on the way may be wrapped or not.                            *)
LEMMA WrappedTwice ==
  ASSUME NEW a \in Int, NEW b \in Int
  PROVE  /\ ModWindow(ModWindow(a) + b) = ModWindow(a + b)
         /\ ModWindow(b - ModWindow(a)) = ModWindow(b - a)
<1>1. PICK n \in Nat \ {0} : n = WindowSize
  BY WindowIsLarge
<1>2. PICK q, r : q = a \div n /\ r = a % n
  OBVIOUS
<1>3. a = n * q + r /\ q \in Int /\ r \in Int
  BY <1>2, WholeDivision
<1>4. ASSUME NEW x \in Int, NEW k \in Int PROVE (x + n * k) % n = x % n
  <2>1. PICK d, t : d = x \div n /\ t = x % n
    OBVIOUS
  <2>2. x = n * d + t /\ d \in Int /\ t \in 0 .. n - 1
    BY <2>1, WholeDivision
  <2>3. x + n * k = n * (d + k) + t /\ d + k \in Int
    BY <2>2
  <2>4. x + n * k \in Int
    OBVIOUS
  <2> QED
    BY <2>1, <2>2, <2>3, <2>4, WholeDivides
<1>5. r + b \in Int /\ (r + b) + n * q = a + b
  BY <1>3
<1>6. b - r \in Int /\ - q \in Int /\ (b - r) + n * (- q) = b - a
  BY <1>3
<1>7. (r + b) % n = (a + b) % n
  <2>1. ((r + b) + n * q) % n = (r + b) % n
    BY <1>3, <1>4, <1>5
  <2> QED
    BY <2>1, <1>5
<1>8. (b - r) % n = (b - a) % n
  <2>1. ((b - r) + n * (- q)) % n = (b - r) % n
    BY <1>4, <1>6
  <2> QED
    BY <2>1, <1>6
<1> QED
  BY <1>1, <1>2, <1>7, <1>8 DEF ModWindow

(* The two bytes of a pair.                                                *)
HighByte(pair) == pair.length * HighSize + pair.position \div ByteSize
LowByte(pair) == pair.position % ByteSize

LEMMA PairBytes ==
  ASSUME NEW pair \in Pairs
  PROVE  /\ HighByte(pair) \in Byte /\ LowByte(pair) \in Byte
         /\ HighByte(pair) \div HighSize = pair.length
         /\ (HighByte(pair) % HighSize) * ByteSize + LowByte(pair) = pair.position
<1>1. PICK n, p : n = pair.length /\ p = pair.position
  OBVIOUS
<1>2. /\ n \in Nat /\ n * HighSize + HighSize <= ByteSize /\ p \in 0 .. WindowSize - 1
  BY <1>1, PairsAssumption DEF Position
<1>3. PICK h, l : h = p \div ByteSize /\ l = p % ByteSize
  OBVIOUS
<1>4. /\ ByteSize \in Nat \ {0} /\ HighSize \in Nat \ {0} /\ p \in Nat
      /\ p < ByteSize * HighSize
  BY <1>2, WindowIsLarge DEF WindowSize
<1>5. p = ByteSize * h + l /\ l \in 0 .. ByteSize - 1 /\ h \in Nat
  BY <1>3, <1>4, Division
<1>6. h < HighSize
  <2> SUFFICES ASSUME h >= HighSize PROVE FALSE
    BY <1>4, <1>5
  <2>1. h - HighSize \in Nat
    BY <1>4, <1>5
  <2>2. ByteSize * (h - HighSize) \in Nat
    BY <2>1, <1>4, Product
  <2>3. ByteSize * (h - HighSize) = ByteSize * h - ByteSize * HighSize
    BY <1>4, <1>5
  <2> QED
    BY <2>2, <2>3, <1>4, <1>5
<1>7. n * HighSize \in Nat
  BY <1>2, <1>4, Product
<1>8. PICK b : b = n * HighSize + h
  OBVIOUS
<1>9. b \in 0 .. ByteSize - 1 /\ b = HighSize * n + h /\ h \in 0 .. HighSize - 1
  <2>1. n * HighSize = HighSize * n
    BY <1>2, <1>4
  <2> QED
    BY <2>1, <1>2, <1>4, <1>5, <1>6, <1>7, <1>8
<1>10. b \div HighSize = n /\ b % HighSize = h
  BY <1>2, <1>4, <1>5, <1>9, WholeDivides
<1>11. h * ByteSize + l = p
  BY <1>4, <1>5
<1> QED
  BY <1>1, <1>3, <1>5, <1>8, <1>9, <1>10, <1>11 DEF HighByte, LowByte, Byte

-----------------------------------------------------------------------------
(* What Expand copies.                                                     *)

CopyStep(f, from, i) ==
  LET back == ModWindow(from + i - currentPosition)
  IN  IF back < i THEN f[back] ELSE window[ModWindow(from + i)]

LEMMA CopyExists ==
  ASSUME currentPosition \in Position, NEW from \in Position, NEW m \in Nat
  PROVE  \E f : f = [i \in 0 .. m - 1 |-> CopyStep(f, from, i)]
<1> DEFINE H == {k \in Nat : \E f : f = [i \in 0 .. k - 1 |-> CopyStep(f, from, i)]}
<1>1. 0 \in H
  <2> DEFINE f == [i \in 0 .. -1 |-> 0]
  <2>1. f = [i \in 0 .. 0 - 1 |-> CopyStep(f, from, i)]
    OBVIOUS
  <2> QED
    BY <2>1
<1>2. ASSUME NEW k \in Nat, k \in H PROVE k + 1 \in H
  <2>1. PICK f : f = [i \in 0 .. k - 1 |-> CopyStep(f, from, i)]
    BY <1>2
  <2> DEFINE g == [i \in 0 .. k |-> CopyStep(f, from, i)]
  <2>2. \A i \in 0 .. k - 1 : g[i] = f[i]
    <3> SUFFICES ASSUME NEW i \in 0 .. k - 1 PROVE g[i] = f[i]
      OBVIOUS
    <3>1. f[i] = CopyStep(f, from, i)
      BY <2>1
    <3> QED
      BY <3>1
  <2>3. ASSUME NEW i \in 0 .. k PROVE CopyStep(g, from, i) = CopyStep(f, from, i)
    <3>1. PICK back : back = ModWindow(from + i - currentPosition)
      OBVIOUS
    <3>2. from + i - currentPosition \in Int
      BY DEF Position
    <3>3. back \in Nat
      BY <3>1, <3>2, Wrapped DEF Position
    <3> HIDE DEF g
    <3>4. back < i => g[back] = f[back]
      BY <3>3, <2>2
    <3> QED
      BY <3>1, <3>4 DEF CopyStep
  <2>4. g = [i \in 0 .. (k + 1) - 1 |-> CopyStep(g, from, i)]
    BY <2>3
  <2> HIDE DEF g
  <2> QED
    BY <2>4
<1> HIDE DEF H
<1>3. m \in H
  BY <1>1, <1>2, SetInduction
<1> QED
  BY <1>3 DEF H

LEMMA CopyUnfolds ==
  ASSUME currentPosition \in Position, NEW from \in Position, NEW n \in Nat
  PROVE  \A i \in 0 .. n - 1 : Copied(from, n)[i] = CopyStep(Copied(from, n), from, i)
<1> DEFINE c == CHOOSE f : f = [i \in 0 .. n - 1 |-> CopyStep(f, from, i)]
<1>1. c = [i \in 0 .. n - 1 |-> CopyStep(c, from, i)]
  <2>1. \E f : f = [i \in 0 .. n - 1 |-> CopyStep(f, from, i)]
    BY CopyExists
  <2> QED
    BY <2>1, Zenon
<1>2. Copied(from, n) = c
  BY Zenon DEF Copied, CopyStep
<1> HIDE DEF c
<1> QED
  BY <1>1, <1>2

LEMMA CopiesBytes ==
  ASSUME currentPosition \in Position, window \in [Position -> Byte],
         NEW from \in Position, NEW n \in Nat
  PROVE  \A i \in 0 .. n - 1 : Copied(from, n)[i] \in Byte
<1> DEFINE H == {k \in Nat : \A i \in 0 .. n - 1 : i < k => Copied(from, n)[i] \in Byte}
<1>1. 0 \in H
  OBVIOUS
<1>2. ASSUME NEW k \in Nat, k \in H PROVE k + 1 \in H
  <2> SUFFICES ASSUME k \in 0 .. n - 1 PROVE Copied(from, n)[k] \in Byte
    BY <1>2
  <2>1. PICK back : back = ModWindow(from + k - currentPosition)
    OBVIOUS
  <2>2. from + k - currentPosition \in Int /\ from + k \in Int
    BY DEF Position
  <2>3. back \in Nat /\ window[ModWindow(from + k)] \in Byte
    BY <2>1, <2>2, Wrapped DEF Position
  <2>4. Copied(from, n)[k] = IF back < k THEN Copied(from, n)[back] ELSE window[ModWindow(from + k)]
    BY <2>1, CopyUnfolds DEF CopyStep
  <2>5. back < k => Copied(from, n)[back] \in Byte
    BY <2>3, <1>2
  <2> QED
    BY <2>3, <2>4, <2>5
<1> HIDE DEF H
<1>3. n \in H
  BY <1>1, <1>2, SetInduction
<1> QED
  BY <1>3 DEF H

-----------------------------------------------------------------------------
(* No buffer is overrun, and all values keep their types.                  *)

PackTypes ==
  /\ items \in Seq(Item) /\ Len(items) <= MaxItems
  /\ flagBit \in Nat /\ bufferOffset \in Nat \ {0}
  /\ dataBuffer \in [Offsets -> Byte] /\ dataBuffer[0] < Mask[flagBit]
  /\ incOutputString \in BOOLEAN
  /\ stream \in Seq(Byte)
ParseTypes ==
  /\ phase \in {"compress", "expand", "ok", "error"}
  /\ input \in Seq(Byte) /\ inputIndex \in 0 .. Len(input)
  /\ flags \in Byte /\ inputBit \in 0 .. FlagBits
CopyTypes ==
  /\ window \in [Position -> Byte] /\ currentPosition \in Position
  /\ output \in Seq(Byte)
  /\ outputSize \in Int /\ outputIndex \in Nat /\ remaining \in Nat
NotStarted ==
  phase = "compress" =>
    /\ outputIndex = 0 /\ remaining = 0 /\ output = <<>>
    /\ inputIndex = 0 /\ inputBit = 0
    /\ currentPosition = 1 /\ window = [p \in Position |-> 0]

StreamInv ==
  PackTypes /\ ParseTypes /\ CopyTypes /\ NotStarted /\ BufferFits /\ OutputFits

(* The beginning of a buffer of bytes is a sequence of bytes.              *)
LEMMA BufferPrefix ==
  ASSUME NEW buffer \in [Offsets -> Byte], NEW n \in Nat, n <= 2 * FlagBits + 1
  PROVE  [i \in 1 .. n |-> buffer[i - 1]] \in Seq(Byte)
<1>1. \A i \in 1 .. n : i - 1 \in Offsets
  BY FlagBitsAssumption DEF Offsets
<1>2. \A i \in 1 .. n : buffer[i - 1] \in Byte
  BY <1>1
<1> QED
  BY <1>2

(* What Compress returns is a sequence of bytes.                           *)
LEMMA CompressedSeq ==
  ASSUME PackTypes, BufferFits
  PROVE  Compressed \in Seq(Byte)
<1>1. bufferOffset \in Nat /\ bufferOffset <= 2 * FlagBits + 1
  BY FlagBitsAssumption DEF PackTypes, BufferFits
<1>2. [i \in 1 .. bufferOffset |-> dataBuffer[i - 1]] \in Seq(Byte)
  BY <1>1, BufferPrefix DEF PackTypes
<1> QED
  BY <1>2 DEF Compressed, PackTypes

(* After an item of one or two bytes the buffer has room for another: it   *)
(* was flushed, or the next flag leaves two bytes more (flushOutputBuffer).*)
LEMMA FlushKeepsRoom ==
  ASSUME PackTypes, BufferFits,
         NEW buffer \in [Offsets -> Byte], buffer[0] < Mask[flagBit + 1],
         NEW offset \in Nat, offset >= 1, offset <= bufferOffset + 2,
         items' \in Seq(Item), Len(items') <= MaxItems,
         FlushIfFull(buffer, offset)
  PROVE  PackTypes' /\ BufferFits'
<1>1. CASE flagBit + 1 = FlagBits
  <2>1. Flush(buffer, offset) /\ incOutputString' = TRUE
    BY <1>1 DEF FlushIfFull
  <2>2. offset <= 2 * FlagBits + 1
    BY <1>1, FlagBitsAssumption DEF PackTypes, BufferFits
  <2>3. stream' \in Seq(Byte)
    <3>1. [i \in 1 .. offset |-> buffer[i - 1]] \in Seq(Byte)
      BY <2>2, BufferPrefix
    <3>2. stream' = stream \o [i \in 1 .. offset |-> buffer[i - 1]]
      BY <2>1 DEF Flush
    <3> QED
      BY <3>1, <3>2 DEF PackTypes
  <2>4. dataBuffer' \in [Offsets -> Byte] /\ dataBuffer'[0] = 0
    <3>1. 0 \in Offsets /\ 0 \in Byte
      BY FlagBitsAssumption, WindowIsLarge DEF Offsets
    <3> QED
      BY <3>1, <2>1 DEF Flush
  <2>5. flagBit' = 0 /\ bufferOffset' = 1 /\ dataBuffer'[0] < Mask[flagBit']
    BY <2>1, <2>4, MaskUnfolds DEF Flush
  <2>6. PackTypes'
    BY <2>1, <2>3, <2>4, <2>5 DEF PackTypes
  <2> QED
    BY <2>5, <2>6, FlagBitsAssumption DEF BufferFits
<1>2. CASE flagBit + 1 # FlagBits
  <2>1. /\ flagBit' = flagBit + 1 /\ bufferOffset' = offset
        /\ dataBuffer' = buffer /\ stream' = stream /\ incOutputString' = FALSE
    BY <1>2 DEF FlushIfFull
  <2>2. flagBit \in Nat /\ flagBit' \in Nat /\ bufferOffset' \in Nat \ {0}
    BY <2>1 DEF PackTypes
  <2>3. dataBuffer' \in [Offsets -> Byte] /\ dataBuffer'[0] < Mask[flagBit']
    BY <2>1
  <2>4. incOutputString' \in BOOLEAN /\ stream' \in Seq(Byte)
    BY <2>1 DEF PackTypes
  <2>5. PackTypes'
    BY <2>2, <2>3, <2>4 DEF PackTypes
  <2> QED
    BY <1>2, <2>1, <2>5, FlagBitsAssumption DEF PackTypes, BufferFits
<1> QED
  BY <1>1, <1>2

(* The buffers with a literal and with a pair.                             *)
LiteralBuffer(data) == [dataBuffer EXCEPT ![bufferOffset] = data, ![0] = @ + Mask[flagBit]]
PairBuffer(pair) ==
  [dataBuffer EXCEPT ![bufferOffset] = HighByte(pair), ![bufferOffset + 1] = LowByte(pair)]

LEMMA BufferRoom ==
  ASSUME PackTypes, BufferFits
  PROVE  /\ bufferOffset \in 1 .. 2 * FlagBits - 1 /\ flagBit \in 0 .. FlagBits - 1
         /\ flagBit + 1 \in 0 .. FlagBits /\ flagBit \in 0 .. FlagBits
         /\ 0 \in Offsets /\ bufferOffset \in Offsets /\ bufferOffset + 1 \in Offsets
         /\ dataBuffer[0] \in Nat
         /\ Mask[flagBit] \in Nat /\ Mask[flagBit + 1] = 2 * Mask[flagBit]
         /\ Mask[flagBit + 1] <= ByteSize
<1>1. /\ bufferOffset \in 1 .. 2 * FlagBits - 1 /\ flagBit \in 0 .. FlagBits - 1
      /\ flagBit + 1 \in 1 .. FlagBits
      /\ flagBit + 1 \in 0 .. FlagBits /\ flagBit \in 0 .. FlagBits /\ (flagBit + 1) - 1 = flagBit
      /\ 0 \in Offsets /\ bufferOffset \in Offsets /\ bufferOffset + 1 \in Offsets
  BY FlagBitsAssumption DEF PackTypes, BufferFits, Offsets
<1>2. dataBuffer[0] \in Nat
  BY <1>1, SizesAssumption DEF PackTypes, Byte
<1> QED
  BY <1>1, <1>2, MasksFit, MaskUnfolds

LEMMA LiteralBufferTyped ==
  ASSUME PackTypes, BufferFits, NEW data \in Literals
  PROVE  /\ LiteralBuffer(data) \in [Offsets -> Byte]
         /\ LiteralBuffer(data)[0] = dataBuffer[0] + Mask[flagBit]
         /\ LiteralBuffer(data)[0] < Mask[flagBit + 1]
         /\ LiteralBuffer(data)[bufferOffset] = data
         /\ \A i \in Offsets \ {0, bufferOffset} : LiteralBuffer(data)[i] = dataBuffer[i]
<1>1. data \in Byte
  BY LiteralsAssumption
<1>2. /\ bufferOffset # 0 /\ 0 \in Offsets /\ bufferOffset \in Offsets
      /\ dataBuffer \in [Offsets -> Byte]
  BY BufferRoom DEF PackTypes
<1>3. PICK f : f = dataBuffer[0] + Mask[flagBit]
  OBVIOUS
<1>4. f < Mask[flagBit + 1] /\ f \in Byte
  <2>1. PICK d, m : d = dataBuffer[0] /\ m = Mask[flagBit]
    OBVIOUS
  <2>2. d \in Nat /\ m \in Nat /\ d < m /\ Mask[flagBit + 1] = 2 * m /\ 2 * m <= ByteSize
    BY <2>1, BufferRoom DEF PackTypes
  <2>3. f = d + m
    BY <1>3, <2>1
  <2> QED
    BY <2>2, <2>3, SizesAssumption DEF Byte
<1>5. LiteralBuffer(data) = [dataBuffer EXCEPT ![bufferOffset] = data, ![0] = f]
  BY <1>2, <1>3 DEF LiteralBuffer
<1> QED
  BY <1>1, <1>2, <1>3, <1>4, <1>5

LEMMA PairBufferTyped ==
  ASSUME PackTypes, BufferFits, NEW pair \in Pairs
  PROVE  /\ PairBuffer(pair) \in [Offsets -> Byte]
         /\ PairBuffer(pair)[0] = dataBuffer[0]
         /\ PairBuffer(pair)[0] < Mask[flagBit + 1]
         /\ PairBuffer(pair)[bufferOffset] = HighByte(pair)
         /\ PairBuffer(pair)[bufferOffset + 1] = LowByte(pair)
         /\ \A i \in Offsets \ {bufferOffset, bufferOffset + 1} :
              PairBuffer(pair)[i] = dataBuffer[i]
<1>1. HighByte(pair) \in Byte /\ LowByte(pair) \in Byte
  BY PairBytes
<1>2. /\ bufferOffset # 0 /\ bufferOffset + 1 # 0 /\ bufferOffset # bufferOffset + 1
      /\ 0 \in Offsets /\ bufferOffset \in Offsets /\ bufferOffset + 1 \in Offsets
      /\ dataBuffer \in [Offsets -> Byte]
  BY BufferRoom DEF PackTypes
<1>3. dataBuffer[0] < Mask[flagBit + 1]
  BY BufferRoom DEF PackTypes
<1> QED
  BY <1>1, <1>2, <1>3 DEF PairBuffer

(* Putting out an item keeps the invariant.                                *)
LEMMA OutputKeepsInv ==
  ASSUME StreamInv,
         \/ \E data \in Literals : OutputChar(data)
         \/ \E pair \in Pairs : OutputPair(pair)
  PROVE  StreamInv'
<1>1. ASSUME NEW item \in Item, PutsOut(item)
      PROVE  /\ ParseTypes' /\ CopyTypes' /\ NotStarted' /\ OutputFits'
             /\ items' \in Seq(Item) /\ Len(items') <= MaxItems
  <2>1. items' \in Seq(Item) /\ Len(items') <= MaxItems
    BY <1>1, BoundsAssumption DEF PutsOut, StreamInv, PackTypes
  <2>2. UNCHANGED <<phase, input, outputSize, parseVars, copyVars>>
    BY <1>1 DEF PutsOut
  <2>3. ParseTypes' /\ CopyTypes' /\ NotStarted' /\ OutputFits'
    BY <2>2 DEF StreamInv, ParseTypes, CopyTypes, NotStarted, OutputFits, parseVars, copyVars
  <2> QED
    BY <2>1, <2>3
<1>2. PackTypes /\ BufferFits /\ bufferOffset \in Nat
  BY DEF StreamInv, PackTypes
<1>3. ASSUME NEW data \in Literals, OutputChar(data)
      PROVE StreamInv'
  <2>1. PutsOut([literal |-> data]) /\ [literal |-> data] \in Item
    BY <1>3 DEF OutputChar, Item
  <2>2. FlushIfFull(LiteralBuffer(data), bufferOffset + 1)
    BY <1>3 DEF OutputChar, LiteralBuffer
  <2>3. PackTypes' /\ BufferFits'
    <3>1. /\ bufferOffset + 1 \in Nat /\ bufferOffset + 1 >= 1
          /\ bufferOffset + 1 <= bufferOffset + 2
      BY <1>2
    <3> QED
      BY <3>1, <2>1, <2>2, <1>1, <1>2, LiteralBufferTyped, FlushKeepsRoom
  <2> QED
    BY <1>1, <2>1, <2>3 DEF StreamInv
<1>4. ASSUME NEW pair \in Pairs, OutputPair(pair)
      PROVE StreamInv'
  <2>1. PutsOut([pair |-> pair]) /\ [pair |-> pair] \in Item
    BY <1>4 DEF OutputPair, Item
  <2>2. FlushIfFull(PairBuffer(pair), bufferOffset + 2)
    BY <1>4 DEF OutputPair, PairBuffer, HighByte, LowByte
  <2>3. PackTypes' /\ BufferFits'
    <3>1. /\ bufferOffset + 2 \in Nat /\ bufferOffset + 2 >= 1
          /\ bufferOffset + 2 <= bufferOffset + 2
      BY <1>2
    <3> QED
      BY <3>1, <2>1, <2>2, <1>1, <1>2, PairBufferTyped, FlushKeepsRoom
  <2> QED
    BY <1>1, <2>1, <2>3 DEF StreamInv
<1> QED
  BY <1>3, <1>4

(* Calling Expand keeps the invariant, whatever the length and the size.   *)
LEMMA ExpandKeepsInv ==
  ASSUME StreamInv, NEW length \in 0 .. Len(Compressed), NEW size \in Int,
         Expand(length, size)
  PROVE  StreamInv'
<1>1. Compressed \in Seq(Byte)
  BY CompressedSeq DEF StreamInv
<1>2. /\ PackTypes' /\ BufferFits'
  BY <1>1 DEF Expand, StreamInv, PackTypes, BufferFits
<1>3. input' \in Seq(Byte) /\ Len(input') = length
  BY <1>1 DEF Expand
<1>4. CASE length > 0 /\ size >= 0
  <2>1. /\ inputIndex' = 1 /\ remaining' = size /\ outputSize' = size
        /\ output' = [i \in 1 .. size |-> 0] /\ outputIndex' = 0
        /\ phase' = "expand" /\ flags' = Compressed[1] /\ inputBit' = 0
        /\ window' = window /\ currentPosition' = currentPosition
    BY <1>4 DEF Expand, StreamInv, NotStarted
  <2>2. size \in Nat /\ Len(output') = size /\ output' \in Seq(Byte)
    BY <1>4, <2>1, WindowIsLarge
  <2>3. ParseTypes'
    <3>1. flags' \in Byte
      BY <1>1, <1>4, <2>1
    <3> QED
      BY <3>1, <1>3, <1>4, <2>1, FlagBitsAssumption DEF ParseTypes
  <2>4. CopyTypes'
    BY <2>1, <2>2 DEF StreamInv, CopyTypes
  <2>5. NotStarted' /\ OutputFits'
    BY <2>1, <2>2 DEF NotStarted, OutputFits
  <2> QED
    BY <1>2, <2>3, <2>4, <2>5 DEF StreamInv
<1>5. CASE ~(length > 0 /\ size >= 0)
  <2>1. /\ UNCHANGED <<parseVars, copyVars>>
        /\ phase' = "error" \/ (phase' = "ok" /\ size = 0)
        /\ outputSize' = size /\ phase = "compress"
    BY <1>5 DEF Expand
  <2>2. outputIndex' = 0 /\ remaining' = 0 /\ output' = <<>> /\ inputIndex' = 0
    BY <2>1 DEF StreamInv, NotStarted, copyVars, parseVars
  <2>3. ParseTypes' /\ CopyTypes'
    BY <1>3, <2>1, <2>2 DEF StreamInv, ParseTypes, CopyTypes, parseVars, copyVars
  <2>4. NotStarted' /\ OutputFits'
    BY <2>1, <2>2 DEF NotStarted, OutputFits
  <2> QED
    BY <1>2, <2>3, <2>4 DEF StreamInv
<1> QED
  BY <1>4, <1>5

(* Writing bytes into the output and the window.                           *)
LEMMA WritesBytes ==
  ASSUME CopyTypes, NEW n \in Nat, NEW symbol, \A i \in 0 .. n - 1 : symbol[i] \in Byte,
         Writes(n, symbol)
  PROVE  /\ output' \in Seq(Byte) /\ Len(output') = Len(output)
         /\ outputIndex' = outputIndex + n
         /\ window' \in [Position -> Byte]
         /\ currentPosition' \in Position
<1>1. output' \in Seq(Byte) /\ Len(output') = Len(output)
  <2>1. output' = [i \in 1 .. Len(output) |->
                     IF i \in outputIndex + 1 .. outputIndex + n
                     THEN symbol[i - outputIndex - 1] ELSE output[i]]
    BY DEF Writes
  <2>2. ASSUME NEW i \in 1 .. Len(output) PROVE output'[i] \in Byte
    <3>1. i \in outputIndex + 1 .. outputIndex + n => i - outputIndex - 1 \in 0 .. n - 1
      BY DEF CopyTypes
    <3> QED
      BY <2>1, <3>1 DEF CopyTypes
  <2> QED
    BY <2>1, <2>2 DEF CopyTypes
<1>2. window' \in [Position -> Byte]
  <2>1. window' = [p \in Position |->
                     IF ModWindow(p - currentPosition) < n
                     THEN symbol[ModWindow(p - currentPosition)] ELSE window[p]]
    BY DEF Writes
  <2>2. ASSUME NEW p \in Position PROVE window'[p] \in Byte
    <3>1. p - currentPosition \in Int
      BY DEF CopyTypes, Position
    <3>2. ModWindow(p - currentPosition) \in Nat
      BY <3>1, Wrapped DEF Position
    <3> QED
      BY <2>1, <3>2 DEF CopyTypes
  <2> QED
    BY <2>1, <2>2
<1>3. currentPosition + n \in Int
  BY DEF CopyTypes, Position
<1>4. currentPosition' \in Position /\ outputIndex' = outputIndex + n
  BY <1>3, Wrapped DEF Writes
<1> QED
  BY <1>1, <1>2, <1>4

(* Reading n bytes of an item that is in the input.                        *)
LEMMA ReadsTyped ==
  ASSUME ParseTypes, NEW n \in 1 .. 2, ItemIndex + n <= Len(input), Reads(n),
         phase' = phase, input' = input
  PROVE  /\ ParseTypes'
         /\ \A i \in 1 .. n : input[ItemIndex + i] \in Byte
<1>1. /\ ItemIndex \in Nat /\ inputIndex \in Nat /\ inputIndex <= ItemIndex
      /\ NeedsFlags => inputIndex + 1 = ItemIndex
      /\ Len(input) \in Nat
  BY DEF ParseTypes, ItemIndex
<1>2. Flags \in Byte
  <2>1. NeedsFlags => input[inputIndex + 1] \in Byte
    BY <1>1 DEF ParseTypes
  <2> QED
    BY <2>1 DEF Flags, ParseTypes
<1>3. Bit + 1 \in 0 .. FlagBits
  BY FlagBitsAssumption DEF Bit, NeedsFlags, ParseTypes
<1>4. inputIndex' \in 0 .. Len(input)
  BY <1>1 DEF Reads
<1>5. ParseTypes'
  BY <1>2, <1>3, <1>4 DEF Reads, ParseTypes
<1>6. ASSUME NEW i \in 1 .. n PROVE input[ItemIndex + i] \in Byte
  BY <1>1 DEF ParseTypes
<1> QED
  BY <1>5, <1>6

(* A literal takes one of the bytes that remain.                           *)
LEMMA LiteralKeepsInv ==
  ASSUME StreamInv, ExpandLiteral
  PROVE  StreamInv'
<1> DEFINE one == [i \in {0} |-> input[ItemIndex + 1]]
<1>1. /\ phase = "expand" /\ phase' = phase /\ remaining > 0
      /\ remaining' = remaining - 1 /\ input' = input /\ outputSize' = outputSize
      /\ UNCHANGED packVars
  BY DEF ExpandLiteral, InLoop
<1>2. ParseTypes /\ CopyTypes /\ ItemIndex \in Nat /\ Len(input) \in Nat
  BY DEF StreamInv, ParseTypes, ItemIndex
<1>3. Len(output) = outputSize /\ outputIndex + remaining = outputSize
  BY <1>1 DEF StreamInv, OutputFits, CopyTypes
<1>4. Writes(1, one) /\ Reads(1) /\ ItemIndex + 1 <= Len(input)
  BY <1>2 DEF ExpandLiteral
<1>5. ParseTypes' /\ input[ItemIndex + 1] \in Byte
  BY <1>1, <1>2, <1>4, ReadsTyped
<1>6. \A i \in 0 .. 1 - 1 : one[i] \in Byte
  BY <1>5
<1> HIDE DEF one
<1>7. /\ output' \in Seq(Byte) /\ Len(output') = Len(output)
      /\ outputIndex' = outputIndex + 1
      /\ window' \in [Position -> Byte]
      /\ currentPosition' \in Position
  BY <1>2, <1>4, <1>6, WritesBytes
<1>8. PackTypes' /\ BufferFits'
  BY <1>1 DEF StreamInv, PackTypes, BufferFits, packVars
<1>9. CopyTypes'
  BY <1>1, <1>2, <1>7 DEF CopyTypes
<1>10. NotStarted' /\ OutputFits'
  BY <1>1, <1>2, <1>3, <1>7 DEF NotStarted, OutputFits, CopyTypes
<1> QED
  BY <1>5, <1>8, <1>9, <1>10 DEF StreamInv

(* Whatever the two bytes of a pair are, they name a place in the window.  *)
LEMMA AnyPair ==
  ASSUME ParseTypes, ItemIndex + 1 < Len(input)
  PROVE  MatchLength \in Nat /\ MatchPosition \in Position
<1>1. ItemIndex \in Nat /\ ItemIndex + 1 \in 1 .. Len(input) /\ ItemIndex + 2 \in 1 .. Len(input)
  BY DEF ParseTypes, ItemIndex
<1>2. PICK a, b : a = input[ItemIndex + 1] /\ b = input[ItemIndex + 2]
  OBVIOUS
<1>3. a \in Nat /\ b \in 0 .. ByteSize - 1 /\ ByteSize \in Nat /\ HighSize \in Nat \ {0}
  BY <1>1, <1>2, SizesAssumption DEF ParseTypes, Byte
<1>4. PICK h, r : h = a \div HighSize /\ r = a % HighSize
  OBVIOUS
<1>5. h \in Nat /\ r \in 0 .. HighSize - 1
  BY <1>3, <1>4, Division
<1>6. r * ByteSize \in Nat /\ (HighSize - 1 - r) * ByteSize \in Nat
  <2>1. HighSize - 1 - r \in Nat
    BY <1>3, <1>5
  <2> QED
    BY <2>1, <1>3, <1>5, Product
<1>7. (HighSize - 1 - r) * ByteSize = ByteSize * HighSize - ByteSize - r * ByteSize
  BY <1>3, <1>5
<1>8. r * ByteSize + b \in 0 .. WindowSize - 1
  BY <1>3, <1>6, <1>7 DEF WindowSize
<1> QED
  BY <1>2, <1>4, <1>5, <1>8, BoundsAssumption DEF MatchLength, MatchPosition, Position

(* A pair takes its length and one of what remains, or all of it while it  *)
(* writes nothing.                                                         *)
LEMMA PairKeepsInv ==
  ASSUME StreamInv, ExpandPair
  PROVE  StreamInv'
<1>1. /\ phase = "expand" /\ phase' = phase /\ remaining > 0
      /\ input' = input /\ outputSize' = outputSize
      /\ UNCHANGED packVars
  BY DEF ExpandPair, InLoop
<1>2. /\ ParseTypes /\ CopyTypes /\ ItemIndex \in Nat /\ Len(input) \in Nat
      /\ remaining \in Nat /\ outputIndex \in Nat
  BY DEF StreamInv, ParseTypes, CopyTypes, ItemIndex
<1>3. Len(output) = outputSize /\ outputIndex + remaining = outputSize
  BY <1>1 DEF StreamInv, OutputFits, CopyTypes
<1>4. ItemIndex + 1 < Len(input) /\ ItemIndex + 2 <= Len(input) /\ Reads(2)
  BY <1>2 DEF ExpandPair
<1>5. ParseTypes'
  BY <1>1, <1>2, <1>4, ReadsTyped
<1>6. MatchLength \in Nat /\ MatchPosition \in Position
  BY <1>2, <1>4, AnyPair
<1>7. PackTypes' /\ BufferFits'
  BY <1>1 DEF StreamInv, PackTypes, BufferFits, packVars
<1>8. CASE MatchLength < remaining
  <2>1. PICK n : n = MatchLength + 1
    OBVIOUS
  <2>2. /\ n \in Nat /\ n > 0 /\ n <= remaining
        /\ remaining' = remaining - n
        /\ Writes(n, Copied(MatchPosition, n))
    BY <1>2, <1>6, <1>8, <2>1 DEF ExpandPair, TakesPair
  <2>3. \A i \in 0 .. n - 1 : Copied(MatchPosition, n)[i] \in Byte
    BY <2>2, <1>2, <1>6, CopiesBytes DEF CopyTypes
  <2>4. /\ output' \in Seq(Byte) /\ Len(output') = Len(output)
        /\ outputIndex' = outputIndex + n
        /\ window' \in [Position -> Byte]
        /\ currentPosition' \in Position
    BY <2>2, <2>3, <1>2, WritesBytes
  <2>5. CopyTypes'
    BY <1>1, <1>2, <2>2, <2>4 DEF CopyTypes
  <2>6. NotStarted' /\ OutputFits'
    BY <1>1, <1>2, <1>3, <2>2, <2>4 DEF NotStarted, OutputFits
  <2> QED
    BY <1>5, <1>7, <2>5, <2>6 DEF StreamInv
<1>9. CASE MatchLength >= remaining
  <2>1. remaining' = 0 /\ UNCHANGED <<output, outputIndex, window, currentPosition>>
    BY <1>2, <1>6, <1>9 DEF ExpandPair, TakesPair
  <2>2. CopyTypes'
    BY <1>1, <2>1 DEF StreamInv, CopyTypes
  <2>3. NotStarted' /\ OutputFits'
    BY <1>1, <1>2, <1>3, <2>1 DEF NotStarted, OutputFits
  <2> QED
    BY <1>5, <1>7, <2>2, <2>3 DEF StreamInv
<1> QED
  BY <1>2, <1>6, <1>8, <1>9

(* Returning from Expand, and steps of other systems, keep the invariant.  *)
LEMMA EndKeepsInv ==
  ASSUME StreamInv, UnexpectedEnd \/ Return \/ UNCHANGED vars
  PROVE  StreamInv'
<1>1. /\ UNCHANGED <<packVars, input, outputSize, parseVars, copyVars>>
      /\ \/ phase' = phase
         \/ phase' = "error"
         \/ phase = "expand" /\ phase' = "ok"
  BY DEF UnexpectedEnd, Return, vars
<1>2. PackTypes' /\ BufferFits' /\ ParseTypes' /\ CopyTypes'
  BY <1>1 DEF StreamInv, PackTypes, BufferFits, ParseTypes, CopyTypes, packVars, parseVars, copyVars
<1>3. NotStarted' /\ OutputFits'
  BY <1>1 DEF StreamInv, NotStarted, OutputFits, copyVars, parseVars
<1> QED
  BY <1>2, <1>3 DEF StreamInv

(* The inductive invariant of both directions, as far as buffers and types *)
(* are concerned.                                                          *)
LEMMA StreamInvariant == Spec => []StreamInv
<1>1. Init => StreamInv
  <2> SUFFICES ASSUME Init PROVE StreamInv
    OBVIOUS
  <2>1. PackTypes
    <3>1. items = <<>> /\ stream = <<>> /\ Len(items) = 0 /\ 0 <= MaxItems
      BY BoundsAssumption DEF Init
    <3>2. dataBuffer \in [Offsets -> Byte] /\ dataBuffer[0] < Mask[flagBit]
      <4>1. 0 \in Offsets /\ 0 \in Byte /\ Mask[0] = 1
        BY FlagBitsAssumption, WindowIsLarge, MaskUnfolds DEF Offsets
      <4> QED
        BY <4>1 DEF Init
    <3>3. items \in Seq(Item) /\ stream \in Seq(Byte) /\ Len(items) <= MaxItems
      BY <3>1
    <3>4. flagBit = 0 /\ bufferOffset = 1
      BY DEF Init
    <3>5. flagBit \in Nat /\ bufferOffset \in Nat \ {0}
      BY <3>4
    <3>6. incOutputString \in BOOLEAN
      BY Zenon DEF Init
    <3> QED
      BY <3>2, <3>3, <3>5, <3>6 DEF PackTypes
  <2>2. ParseTypes /\ CopyTypes /\ NotStarted
    BY WindowIsLarge, FlagBitsAssumption DEF Init, ParseTypes, CopyTypes, NotStarted
  <2>3. BufferFits /\ OutputFits
    BY FlagBitsAssumption DEF Init, BufferFits, OutputFits
  <2> QED
    BY <2>1, <2>2, <2>3 DEF StreamInv
<1>2. StreamInv /\ [Next]_vars => StreamInv'
  <2> SUFFICES ASSUME StreamInv, [Next]_vars PROVE StreamInv'
    OBVIOUS
  <2>1. ASSUME NEW length \in 0 .. Len(Compressed),
               NEW size \in -1 .. Len(Expansion) + 1, Expand(length, size)
        PROVE StreamInv'
    BY <2>1, ExpandKeepsInv
  <2> QED
    BY <2>1, OutputKeepsInv, LiteralKeepsInv, PairKeepsInv, EndKeepsInv DEF Next
<1> QED
  BY <1>1, <1>2, PTL DEF Spec

(* Every value keeps its type, the bytes of both streams and of the output *)
(* among them, whatever Expand is given (Compress, Expand).                *)
THEOREM TypeCorrect == Spec => []TypeOK
<1>1. StreamInv => TypeOK
  BY FlagBitsAssumption DEF StreamInv, PackTypes, ParseTypes, CopyTypes, BufferFits, TypeOK
<1> QED
  BY StreamInvariant, <1>1, PTL

(* For any number of flags in a byte, the buffer has room for the next     *)
(* item (outputChar, outputPair).                                          *)
THEOREM BufferAlwaysFits == Spec => []BufferFits
<1>1. StreamInv => BufferFits
  BY DEF StreamInv
<1> QED
  BY StreamInvariant, <1>1, PTL

(* For any input, cut anywhere, and any size, Expand writes inside its     *)
(* output and accounts for every byte of it (Expand).                      *)
THEOREM OutputAlwaysFits == Spec => []OutputFits
<1>1. StreamInv => OutputFits
  BY DEF StreamInv
<1> QED
  BY StreamInvariant, <1>1, PTL


-----------------------------------------------------------------------------
(* What the items stand for, unfolded.                                     *)

IsLit(item) == "literal" \in DOMAIN item
Size(item) == IF IsLit(item) THEN 1 ELSE 2

LEMMA ItemKinds ==
  ASSUME NEW item \in Item
  PROVE  /\ IsLit(item) => item.literal \in Literals /\ item.literal \in Byte
         /\ ~IsLit(item) => item.pair \in Pairs
         /\ Size(item) \in 1 .. 2
<1>1. CASE item \in [literal : Literals]
  <2>1. IsLit(item) /\ item.literal \in Literals
    BY <1>1 DEF IsLit
  <2> QED
    BY <2>1, LiteralsAssumption DEF Size
<1>2. CASE item \in [pair : Pairs]
  <2>1. ~IsLit(item) /\ item.pair \in Pairs
    BY <1>2 DEF IsLit
  <2> QED
    BY <2>1 DEF Size
<1> QED
  BY <1>1, <1>2 DEF Item

LEMMA NewItem ==
  /\ \A data \in Literals :
       LET item == [literal |-> data]
       IN  item \in Item /\ IsLit(item) /\ item.literal = data /\ Size(item) = 1
  /\ \A pair \in Pairs :
       LET item == [pair |-> pair]
       IN  item \in Item /\ ~IsLit(item) /\ item.pair = pair /\ Size(item) = 2
BY DEF Item, IsLit, Size

ExtendStep(f, out, from, i) ==
  IF i = 0 THEN out
  ELSE Append(f[i - 1], SymbolAt(f[i - 1], ModWindow(from + (i - 1))))

LEMMA ExtendedUnfolds ==
  ASSUME NEW out \in Seq(Byte), NEW from \in Position, NEW n \in Nat
  PROVE  \E longer :
           /\ longer[0] = out
           /\ \A i \in 0 .. n - 1 :
                longer[i + 1] = Append(longer[i], SymbolAt(longer[i], ModWindow(from + i)))
           /\ Extended(out, from, n) = longer[n]
<1> DEFINE c == CHOOSE f : f = [i \in 0 .. n |-> ExtendStep(f, out, from, i)]
<1>1. c = [i \in 0 .. n |-> ExtendStep(c, out, from, i)]
  <2> DEFINE H == {k \in Nat : \E f : f = [i \in 0 .. k |-> ExtendStep(f, out, from, i)]}
  <2>1. 0 \in H
    <3> DEFINE f == [i \in 0 .. 0 |-> out]
    <3>1. f = [i \in 0 .. 0 |-> ExtendStep(f, out, from, i)]
      BY DEF ExtendStep
    <3> QED
      BY <3>1
  <2>2. ASSUME NEW k \in Nat, k \in H PROVE k + 1 \in H
    <3>1. PICK f : f = [i \in 0 .. k |-> ExtendStep(f, out, from, i)]
      BY <2>2
    <3> DEFINE g == [i \in 0 .. k + 1 |-> ExtendStep(f, out, from, i)]
    <3>2. \A i \in 0 .. k : g[i] = f[i]
      <4> SUFFICES ASSUME NEW i \in 0 .. k PROVE g[i] = f[i]
        OBVIOUS
      <4>1. f[i] = ExtendStep(f, out, from, i)
        BY <3>1
      <4> QED
        BY <4>1
    <3>3. ASSUME NEW i \in 0 .. k + 1
          PROVE  ExtendStep(g, out, from, i) = ExtendStep(f, out, from, i)
      <4> HIDE DEF g
      <4>1. i # 0 => i - 1 \in 0 .. k
        OBVIOUS
      <4>2. i # 0 => g[i - 1] = f[i - 1]
        BY <4>1, <3>2
      <4> QED
        BY <4>2 DEF ExtendStep
    <3>4. g = [i \in 0 .. k + 1 |-> ExtendStep(g, out, from, i)]
      BY <3>3
    <3> HIDE DEF g
    <3> QED
      BY <3>4
  <2> HIDE DEF H
  <2>3. n \in H
    BY <2>1, <2>2, SetInduction
  <2>4. \E f : f = [i \in 0 .. n |-> ExtendStep(f, out, from, i)]
    BY <2>3 DEF H
  <2> QED
    BY <2>4, Zenon
<1>2. Extended(out, from, n) = c[n]
  BY Zenon DEF Extended, ExtendStep
<1> HIDE DEF c
<1>3. \A i \in 0 .. n : c[i] = ExtendStep(c, out, from, i)
  BY <1>1
<1>4. c[0] = out
  BY <1>3 DEF ExtendStep
<1>5. ASSUME NEW i \in 0 .. n - 1
      PROVE  c[i + 1] = Append(c[i], SymbolAt(c[i], ModWindow(from + i)))
  <2>1. i + 1 \in 0 .. n /\ i + 1 # 0 /\ (i + 1) - 1 = i
    OBVIOUS
  <2> QED
    BY <1>3, <2>1 DEF ExtendStep
<1> QED
  BY <1>2, <1>4, <1>5

ExpandStep(f, i) ==
  IF i = 0 THEN <<>>
  ELSE IF "literal" \in DOMAIN items[i] THEN Append(f[i - 1], items[i].literal)
  ELSE Extended(f[i - 1], items[i].pair.position, items[i].pair.length + BreakEven + 1)

LEMMA ExpansionExists ==
  ASSUME NEW m \in Nat
  PROVE  \E f : f = [i \in 0 .. m |-> ExpandStep(f, i)]
<1> DEFINE H == {k \in Nat : \E f : f = [i \in 0 .. k |-> ExpandStep(f, i)]}
<1>1. 0 \in H
  <2> DEFINE f == [i \in 0 .. 0 |-> <<>>]
  <2>1. f = [i \in 0 .. 0 |-> ExpandStep(f, i)]
    BY DEF ExpandStep
  <2> QED
    BY <2>1
<1>2. ASSUME NEW k \in Nat, k \in H PROVE k + 1 \in H
  <2>1. PICK f : f = [i \in 0 .. k |-> ExpandStep(f, i)]
    BY <1>2
  <2> DEFINE g == [i \in 0 .. k + 1 |-> ExpandStep(f, i)]
  <2>2. \A i \in 0 .. k : g[i] = f[i]
    <3> SUFFICES ASSUME NEW i \in 0 .. k PROVE g[i] = f[i]
      OBVIOUS
    <3>1. f[i] = ExpandStep(f, i)
      BY <2>1
    <3> QED
      BY <3>1
  <2>3. ASSUME NEW i \in 0 .. k + 1 PROVE ExpandStep(g, i) = ExpandStep(f, i)
    <3> HIDE DEF g
    <3>1. i # 0 => i - 1 \in 0 .. k
      OBVIOUS
    <3>2. i # 0 => g[i - 1] = f[i - 1]
      BY <3>1, <2>2
    <3> QED
      BY <3>2 DEF ExpandStep
  <2>4. g = [i \in 0 .. k + 1 |-> ExpandStep(g, i)]
    BY <2>3
  <2> HIDE DEF g
  <2> QED
    BY <2>4
<1> HIDE DEF H
<1>3. m \in H
  BY <1>1, <1>2, SetInduction
<1> QED
  BY <1>3 DEF H

LEMMA ExpansionsUnfold ==
  ASSUME items \in Seq(Item)
  PROVE  /\ Expansions[0] = <<>>
         /\ \A i \in 1 .. Len(items) :
              /\ IsLit(items[i]) => Expansions[i] = Append(Expansions[i - 1], items[i].literal)
              /\ ~IsLit(items[i]) =>
                   Expansions[i] = Extended(Expansions[i - 1], items[i].pair.position,
                                            items[i].pair.length + BreakEven + 1)
<1> DEFINE c == CHOOSE f : f = [i \in 0 .. Len(items) |-> ExpandStep(f, i)]
<1>1. c = [i \in 0 .. Len(items) |-> ExpandStep(c, i)]
  <2>1. \E f : f = [i \in 0 .. Len(items) |-> ExpandStep(f, i)]
    BY ExpansionExists
  <2> QED
    BY <2>1, Zenon
<1>2. Expansions = c
  BY Zenon DEF Expansions, ExpandStep
<1> HIDE DEF c
<1>3. \A i \in 0 .. Len(items) : Expansions[i] = ExpandStep(Expansions, i)
  BY <1>1, <1>2
<1>4. Expansions[0] = <<>>
  BY <1>3 DEF ExpandStep
<1>5. ASSUME NEW i \in 1 .. Len(items)
      PROVE  /\ IsLit(items[i]) => Expansions[i] = Append(Expansions[i - 1], items[i].literal)
             /\ ~IsLit(items[i]) =>
                  Expansions[i] = Extended(Expansions[i - 1], items[i].pair.position,
                                           items[i].pair.length + BreakEven + 1)
  <2>1. Expansions[i] = ExpandStep(Expansions, i) /\ i # 0
    BY <1>3
  <2> QED
    BY <2>1, Zenon DEF ExpandStep, IsLit
<1> QED
  BY <1>4, <1>5


-----------------------------------------------------------------------------
(* The symbols at the places of the window, as the output grows.           *)

LEMMA Latest ==
  ASSUME NEW n \in Nat, NEW D, D \subseteq 1 .. n, D # {}
  PROVE  \E t \in D : \A u \in D : u <= t
<1> DEFINE E == {n - t : t \in D}
<1>1. \A t \in D : t \in Nat /\ n - t \in Nat
  OBVIOUS
<1>2. E \subseteq Nat /\ E # {}
  BY <1>1
<1>3. PICK x \in E : \A y \in E : x <= y
  BY <1>2, Smallest
<1>4. PICK t \in D : x = n - t
  BY <1>3
<1>5. ASSUME NEW u \in D PROVE u <= t
  <2>1. n - u \in E
    OBVIOUS
  <2>2. n - t <= n - u
    BY <1>3, <1>4, <2>1
  <2> QED
    BY <2>2, <1>1
<1> QED
  BY <1>5

Times(out, p) == {t \in 1 .. Len(out) : ModWindow(t) = p}

LEMMA LatestTime ==
  ASSUME NEW out \in Seq(Byte), NEW p \in Position
  PROVE  /\ Times(out, p) = {} => SymbolAt(out, p) = 0
         /\ Times(out, p) # {} =>
              \E t \in Times(out, p) :
                (\A u \in Times(out, p) : u <= t) /\ SymbolAt(out, p) = out[t]
<1>1. Times(out, p) = {} => SymbolAt(out, p) = 0
  BY DEF SymbolAt, Times
<1>2. ASSUME Times(out, p) # {}
      PROVE  \E t \in Times(out, p) :
               (\A u \in Times(out, p) : u <= t) /\ SymbolAt(out, p) = out[t]
  <2>1. Times(out, p) \subseteq 1 .. Len(out) /\ Len(out) \in Nat
    BY DEF Times
  <2> DEFINE latest == CHOOSE t \in Times(out, p) : \A u \in Times(out, p) : u <= t
  <2>2. \E t \in Times(out, p) : \A u \in Times(out, p) : u <= t
    BY <1>2, <2>1, Latest
  <2>3. latest \in Times(out, p) /\ \A u \in Times(out, p) : u <= latest
    BY <2>2, Zenon
  <2>4. SymbolAt(out, p) = out[latest]
    BY <1>2, Zenon DEF SymbolAt, Times
  <2> QED
    BY <2>3, <2>4
<1> QED
  BY <1>1, <1>2

LEMMA SymbolIsByte ==
  ASSUME NEW out \in Seq(Byte), NEW p \in Position
  PROVE  SymbolAt(out, p) \in Byte
<1>1. \A t \in Times(out, p) : out[t] \in Byte
  BY DEF Times
<1> QED
  BY <1>1, LatestTime, WindowIsLarge

(* A symbol more is the latest at its own place, and at no other.          *)
LEMMA SymbolAppended ==
  ASSUME NEW out \in Seq(Byte), NEW x \in Byte, NEW p \in Position
  PROVE  SymbolAt(Append(out, x), p) =
           IF p = ModWindow(Len(out) + 1) THEN x ELSE SymbolAt(out, p)
<1> DEFINE l == Len(out)
           more == Append(out, x)
<1>1. /\ l \in Nat /\ more \in Seq(Byte) /\ Len(more) = l + 1
      /\ more[l + 1] = x /\ \A t \in 1 .. l : more[t] = out[t]
  OBVIOUS
<1> HIDE DEF more
<1>2. CASE p = ModWindow(l + 1)
  <2>1. l + 1 \in Times(more, p) /\ Times(more, p) \subseteq 1 .. l + 1
    BY <1>1, <1>2 DEF Times
  <2>2. PICK t \in Times(more, p) :
          (\A u \in Times(more, p) : u <= t) /\ SymbolAt(more, p) = more[t]
    BY <1>1, <2>1, LatestTime
  <2>3. t = l + 1
    BY <1>1, <2>1, <2>2
  <2> QED
    BY <1>1, <1>2, <2>2, <2>3 DEF more
<1>3. CASE p # ModWindow(l + 1)
  <2>1. Times(more, p) = Times(out, p)
    BY <1>1, <1>3 DEF Times
  <2>2. CASE Times(out, p) = {}
    BY <1>1, <1>3, <2>1, <2>2, LatestTime DEF more
  <2>3. CASE Times(out, p) # {}
    <3>1. PICK t \in Times(out, p) :
            (\A u \in Times(out, p) : u <= t) /\ SymbolAt(out, p) = out[t]
      BY <2>3, LatestTime
    <3>2. PICK s \in Times(more, p) :
            (\A u \in Times(more, p) : u <= s) /\ SymbolAt(more, p) = more[s]
      BY <1>1, <2>1, <2>3, LatestTime
    <3>3. s = t /\ t \in 1 .. l
      BY <1>1, <2>1, <3>1, <3>2 DEF Times
    <3> QED
      BY <1>1, <1>3, <3>1, <3>2, <3>3 DEF more
  <2> QED
    BY <2>2, <2>3
<1> QED
  BY <1>2, <1>3

(* grown is out and the first n of the symbols, and the window after them. *)
Grown(out, n, symbol, grown) ==
  /\ grown \in Seq(Byte) /\ Len(grown) = Len(out) + n
  /\ \A t \in 1 .. Len(out) : grown[t] = out[t]
  /\ \A j \in 0 .. n - 1 : grown[Len(out) + 1 + j] = symbol[j]
  /\ \A p \in Position :
       SymbolAt(grown, p) = IF ModWindow(p - currentPosition) < n
                            THEN symbol[ModWindow(p - currentPosition)] ELSE window[p]

WindowOf(out) ==
  /\ \A p \in Position : window[p] = SymbolAt(out, p)
  /\ currentPosition = ModWindow(1 + Len(out))

LEMMA GrownByNothing ==
  ASSUME NEW out \in Seq(Byte), WindowOf(out), NEW symbol
  PROVE  Grown(out, 0, symbol, out)
<1>1. ASSUME NEW p \in Position PROVE ~(ModWindow(p - currentPosition) < 0)
  <2>1. p - currentPosition \in Int
    <3>1. 1 + Len(out) \in Int
      OBVIOUS
    <3> QED
      BY <3>1, Wrapped DEF Position, WindowOf
  <2> QED
    BY <2>1, Wrapped DEF Position
<1> QED
  BY <1>1 DEF Grown, WindowOf

(* Within a turn of the window the i-th new symbol has a place of its own. *)
LEMMA NextPosition ==
  ASSUME NEW l \in Nat, currentPosition = ModWindow(1 + l),
         NEW i \in Nat, i < WindowSize, NEW p \in Position
  PROVE  /\ ModWindow(p - currentPosition) \in Nat
         /\ p = ModWindow(l + i + 1) <=> ModWindow(p - currentPosition) = i
<1>1. /\ 1 + l \in Int /\ l + i + 1 \in Int /\ p \in Int /\ i \in Int
      /\ currentPosition \in Position /\ currentPosition \in Int /\ i \in Position
  <2>1. 1 + l \in Int
    OBVIOUS
  <2>2. currentPosition \in Position
    BY <2>1, Wrapped
  <2>3. p \in Int /\ currentPosition \in Int /\ i \in Position
    BY <2>2, WindowIsLarge DEF Position
  <2>4. l + i + 1 \in Int /\ i \in Int
    OBVIOUS
  <2> QED
    BY <2>1, <2>2, <2>3, <2>4
<1>2. p - currentPosition \in Int
  BY <1>1
<1>3. ModWindow(p - currentPosition) \in Nat
  BY <1>2, Wrapped DEF Position
<1>4. ASSUME p = ModWindow(l + i + 1) PROVE ModWindow(p - currentPosition) = i
  <2>1. ModWindow(ModWindow(l + i + 1) + (- currentPosition))
          = ModWindow((l + i + 1) + (- currentPosition))
    BY <1>1, WrappedTwice
  <2>2. ModWindow((l + i + 1) - ModWindow(1 + l)) = ModWindow((l + i + 1) - (1 + l))
    BY <1>1, WrappedTwice
  <2>3. /\ p + (- currentPosition) = p - currentPosition
        /\ (l + i + 1) + (- currentPosition) = (l + i + 1) - currentPosition
        /\ (l + i + 1) - (1 + l) = i
    BY <1>1
  <2>4. ModWindow(i) = i
    BY <1>1, Wrapped
  <2> QED
    BY <1>4, <2>1, <2>2, <2>3, <2>4
<1>5. ASSUME ModWindow(p - currentPosition) = i PROVE p = ModWindow(l + i + 1)
  <2>1. ModWindow(ModWindow(p - currentPosition) + currentPosition)
          = ModWindow((p - currentPosition) + currentPosition)
    BY <1>1, <1>2, WrappedTwice
  <2>2. (p - currentPosition) + currentPosition = p /\ ModWindow(p) = p
    BY <1>1, Wrapped
  <2>3. ModWindow(ModWindow(1 + l) + i) = ModWindow((1 + l) + i)
    BY <1>1, WrappedTwice
  <2>4. i + currentPosition = currentPosition + i /\ (1 + l) + i = l + i + 1
    BY <1>1
  <2> QED
    BY <1>5, <2>1, <2>2, <2>3, <2>4
<1> QED
  BY <1>3, <1>4, <1>5

LEMMA GrownByOne ==
  ASSUME NEW out \in Seq(Byte), WindowOf(out),
         NEW i \in Nat, i < WindowSize, NEW symbol, symbol[i] \in Byte,
         NEW grown, Grown(out, i, symbol, grown)
  PROVE  Grown(out, i + 1, symbol, Append(grown, symbol[i]))
<1> DEFINE l == Len(out)
           more == Append(grown, symbol[i])
<1>1. l \in Nat /\ grown \in Seq(Byte) /\ Len(grown) = l + i
  BY DEF Grown
<1>2. /\ more \in Seq(Byte) /\ Len(more) = l + (i + 1) /\ more[l + i + 1] = symbol[i]
      /\ \A t \in 1 .. l + i : more[t] = grown[t]
  BY <1>1
<1>3. \A t \in 1 .. l : more[t] = out[t]
  BY <1>1, <1>2 DEF Grown
<1>4. ASSUME NEW j \in 0 .. (i + 1) - 1 PROVE more[l + 1 + j] = symbol[j]
  <2>1. CASE j = i
    <3>1. l + 1 + i = l + i + 1
      BY <1>1
    <3> QED
      BY <1>2, <2>1, <3>1
  <2>2. CASE j # i
    <3>1. j \in 0 .. i - 1 /\ l + 1 + j \in 1 .. l + i
      BY <1>1, <2>2
    <3> QED
      BY <1>2, <3>1 DEF Grown
  <2> QED
    BY <2>1, <2>2
<1>5. ASSUME NEW p \in Position
      PROVE  SymbolAt(more, p) = IF ModWindow(p - currentPosition) < i + 1
                                 THEN symbol[ModWindow(p - currentPosition)] ELSE window[p]
  <2> HIDE DEF more
  <2>1. PICK back : back = ModWindow(p - currentPosition)
    OBVIOUS
  <2>2. back \in Nat /\ (p = ModWindow(l + i + 1) <=> back = i)
    BY <1>1, <2>1, NextPosition DEF WindowOf
  <2>3. SymbolAt(more, p) = IF p = ModWindow(l + i + 1) THEN symbol[i] ELSE SymbolAt(grown, p)
    BY <1>1, SymbolAppended DEF more
  <2>4. SymbolAt(grown, p) = IF back < i THEN symbol[back] ELSE window[p]
    BY <2>1 DEF Grown
  <2>5. CASE back = i
    BY <2>1, <2>2, <2>3, <2>5
  <2>6. CASE back # i
    <3>1. back < i + 1 <=> back < i
      BY <2>2, <2>6
    <3> QED
      BY <2>1, <2>2, <2>3, <2>4, <2>6, <3>1
  <2> QED
    BY <2>5, <2>6
<1> HIDE DEF more
<1>6. Grown(out, i + 1, symbol, more)
  BY <1>2, <1>3, <1>4, <1>5 DEF Grown
<1> QED
  BY <1>6 DEF more


-----------------------------------------------------------------------------
(* What a pair stands for is what Expand copies.                           *)

(* Copying only adds symbols.                                              *)
LEMMA ExtendedIsLonger ==
  ASSUME NEW out \in Seq(Byte), NEW from \in Position, NEW n \in Nat
  PROVE  /\ Extended(out, from, n) \in Seq(Byte)
         /\ Len(Extended(out, from, n)) = Len(out) + n
         /\ \A t \in 1 .. Len(out) : Extended(out, from, n)[t] = out[t]
<1>1. PICK longer :
        /\ longer[0] = out
        /\ \A i \in 0 .. n - 1 :
             longer[i + 1] = Append(longer[i], SymbolAt(longer[i], ModWindow(from + i)))
        /\ Extended(out, from, n) = longer[n]
  BY ExtendedUnfolds
<1> DEFINE Longer(s, i) ==
             /\ s \in Seq(Byte) /\ Len(s) = Len(out) + i
             /\ \A t \in 1 .. Len(out) : s[t] = out[t]
           H == {i \in Nat : i <= n => Longer(longer[i], i)}
<1>2. 0 \in H
  BY <1>1
<1>3. ASSUME NEW i \in Nat, i \in H PROVE i + 1 \in H
  <2> SUFFICES ASSUME i + 1 <= n PROVE Longer(longer[i + 1], i + 1)
    OBVIOUS
  <2>1. PICK s : s = longer[i]
    OBVIOUS
  <2>2. Longer(s, i) /\ i \in 0 .. n - 1
    BY <1>3, <2>1
  <2>3. PICK x : x = SymbolAt(s, ModWindow(from + i))
    OBVIOUS
  <2>4. x \in Byte
    <3>1. from + i \in Int
      BY DEF Position
    <3> QED
      BY <2>2, <2>3, <3>1, Wrapped, SymbolIsByte
  <2>5. longer[i + 1] = Append(s, x)
    BY <1>1, <2>1, <2>2, <2>3
  <2>6. Append(s, x) \in Seq(Byte) /\ Len(Append(s, x)) = Len(out) + (i + 1)
    BY <2>2, <2>4
  <2>7. \A t \in 1 .. Len(out) : Append(s, x)[t] = out[t]
    BY <2>2, <2>4
  <2> QED
    BY <2>5, <2>6, <2>7
<1> HIDE DEF H
<1>4. n \in H
  BY <1>2, <1>3, SetInduction
<1>5. Longer(longer[n], n)
  BY <1>4 DEF H
<1> QED
  BY <1>1, <1>5

(* Reading and writing the window in turn, a symbol at a time, copies what *)
(* the pair stands for, also where it copies its own symbols (Expand).     *)
LEMMA CopiedIsExtended ==
  ASSUME NEW out \in Seq(Byte), WindowOf(out), window \in [Position -> Byte],
         NEW from \in Position, NEW n \in Nat, n <= WindowSize
  PROVE  Grown(out, n, Copied(from, n), Extended(out, from, n))
<1>1. PICK longer :
        /\ longer[0] = out
        /\ \A i \in 0 .. n - 1 :
             longer[i + 1] = Append(longer[i], SymbolAt(longer[i], ModWindow(from + i)))
        /\ Extended(out, from, n) = longer[n]
  BY ExtendedUnfolds
<1>2. currentPosition \in Position
  <2>1. 1 + Len(out) \in Int
    OBVIOUS
  <2> QED
    BY <2>1, Wrapped DEF WindowOf
<1> DEFINE symbol == Copied(from, n)
<1>3. \A i \in 0 .. n - 1 : symbol[i] = CopyStep(symbol, from, i) /\ symbol[i] \in Byte
  BY <1>2, CopyUnfolds, CopiesBytes
<1> HIDE DEF symbol
<1> DEFINE H == {i \in Nat : i <= n => Grown(out, i, symbol, longer[i])}
<1>4. 0 \in H
  <2>1. Grown(out, 0, symbol, out)
    BY GrownByNothing
  <2> QED
    BY <1>1, <2>1
<1>5. ASSUME NEW i \in Nat, i \in H PROVE i + 1 \in H
  <2> SUFFICES ASSUME i + 1 <= n PROVE Grown(out, i + 1, symbol, longer[i + 1])
    OBVIOUS
  <2>1. PICK grown : grown = longer[i]
    OBVIOUS
  <2>2. Grown(out, i, symbol, grown) /\ i \in 0 .. n - 1 /\ i < WindowSize
    BY <1>5, <2>1, WindowIsLarge
  <2>3. longer[i + 1] = Append(grown, SymbolAt(grown, ModWindow(from + i)))
    BY <1>1, <2>1, <2>2
  <2>4. SymbolAt(grown, ModWindow(from + i)) = symbol[i]
    <3>1. PICK p : p = ModWindow(from + i)
      OBVIOUS
    <3>2. /\ from + i \in Int /\ from + i - currentPosition \in Int
          /\ - currentPosition \in Int
          /\ from + i + (- currentPosition) = from + i - currentPosition
      BY <1>2 DEF Position
    <3>3. p \in Position
      BY <3>1, <3>2, Wrapped
    <3>4. ModWindow(p - currentPosition) = ModWindow(from + i - currentPosition)
      <4>1. ModWindow(ModWindow(from + i) + (- currentPosition))
              = ModWindow(from + i + (- currentPosition))
        BY <3>2, WrappedTwice
      <4>2. p + (- currentPosition) = p - currentPosition
        BY <1>2, <3>3 DEF Position
      <4> QED
        BY <3>1, <3>2, <4>1, <4>2
    <3>5. SymbolAt(grown, p) = IF ModWindow(p - currentPosition) < i
                               THEN symbol[ModWindow(p - currentPosition)] ELSE window[p]
      BY <2>2, <3>3 DEF Grown
    <3>6. symbol[i] = CopyStep(symbol, from, i)
      BY <1>3, <2>2
    <3> QED
      BY <3>1, <3>4, <3>5, <3>6 DEF CopyStep
  <2>5. symbol[i] \in Byte
    BY <1>3, <2>2
  <2>6. Grown(out, i + 1, symbol, Append(grown, symbol[i]))
    BY <2>2, <2>5, GrownByOne
  <2> QED
    BY <2>3, <2>4, <2>6
<1> HIDE DEF H
<1>6. n \in H
  BY <1>4, <1>5, SetInduction
<1>7. Grown(out, n, symbol, longer[n])
  BY <1>6 DEF H
<1> QED
  BY <1>1, <1>7 DEF symbol

(* Each item adds to what the items before it stand for, and no more than  *)
(* its own symbols.                                                        *)
ItemLength(item) == IF IsLit(item) THEN 1 ELSE item.pair.length + BreakEven + 1

Beginning(shorter, longer) ==
  Len(shorter) <= Len(longer) /\ \A t \in 1 .. Len(shorter) : longer[t] = shorter[t]

LEMMA NextExpansion ==
  ASSUME items \in Seq(Item), NEW i \in 1 .. Len(items), Expansions[i - 1] \in Seq(Byte)
  PROVE  /\ Expansions[i] \in Seq(Byte)
         /\ ItemLength(items[i]) \in Nat
         /\ Len(Expansions[i]) = Len(Expansions[i - 1]) + ItemLength(items[i])
         /\ \A t \in 1 .. Len(Expansions[i - 1]) : Expansions[i][t] = Expansions[i - 1][t]
<1>1. PICK out, grown, item : out = Expansions[i - 1] /\ grown = Expansions[i] /\ item = items[i]
  OBVIOUS
<1>2. item \in Item /\ out \in Seq(Byte)
  BY <1>1
<1>3. CASE IsLit(item)
  <2>1. item.literal \in Byte /\ grown = Append(out, item.literal) /\ ItemLength(item) = 1
    BY <1>1, <1>2, <1>3, ItemKinds, ExpansionsUnfold DEF ItemLength
  <2> QED
    BY <1>1, <1>2, <2>1
<1>4. CASE ~IsLit(item)
  <2>1. PICK n, from : n = item.pair.length + BreakEven + 1 /\ from = item.pair.position
    OBVIOUS
  <2>2. n \in Nat /\ from \in Position /\ ItemLength(item) = n
    <3>1. item.pair \in Pairs
      BY <1>2, <1>4, ItemKinds
    <3> QED
      BY <1>4, <2>1, <3>1, PairsAssumption, BoundsAssumption DEF ItemLength
  <2>3. grown = Extended(out, from, n)
    BY <1>1, <1>4, <2>1, ExpansionsUnfold
  <2>4. /\ Extended(out, from, n) \in Seq(Byte)
        /\ Len(Extended(out, from, n)) = Len(out) + n
        /\ \A t \in 1 .. Len(out) : Extended(out, from, n)[t] = out[t]
    BY <1>2, <2>2, ExtendedIsLonger
  <2>5. /\ grown \in Seq(Byte) /\ Len(grown) = Len(out) + n
        /\ \A t \in 1 .. Len(out) : grown[t] = out[t]
    BY <2>3, <2>4
  <2> QED
    BY <1>1, <2>2, <2>5
<1> QED
  BY <1>3, <1>4

LEMMA ExpansionsAreBytes ==
  ASSUME items \in Seq(Item)
  PROVE  \A i \in 0 .. Len(items) : Expansions[i] \in Seq(Byte)
<1> DEFINE H == {i \in Nat : i <= Len(items) => Expansions[i] \in Seq(Byte)}
<1>1. 0 \in H
  <2>1. Expansions[0] = <<>>
    BY ExpansionsUnfold
  <2>2. Expansions[0] \in Seq(Byte)
    BY <2>1
  <2> QED
    BY <2>2
<1>2. ASSUME NEW i \in Nat, i \in H PROVE i + 1 \in H
  <2> SUFFICES ASSUME i + 1 <= Len(items) PROVE Expansions[i + 1] \in Seq(Byte)
    OBVIOUS
  <2>1. i + 1 \in 1 .. Len(items) /\ (i + 1) - 1 = i
    OBVIOUS
  <2>2. Expansions[i] \in Seq(Byte)
    BY <1>2
  <2> QED
    BY <2>1, <2>2, NextExpansion
<1> HIDE DEF H
<1>3. \A i \in Nat : i \in H
  BY <1>1, <1>2, SetInduction
<1> QED
  BY <1>3 DEF H

LEMMA ExpansionsGrow ==
  ASSUME items \in Seq(Item), NEW k \in 0 .. Len(items)
  PROVE  /\ Expansion \in Seq(Byte) /\ Expansions[k] \in Seq(Byte)
         /\ Beginning(Expansions[k], Expansion)
<1> DEFINE N == Len(items)
           H == {j \in Nat : k + j <= N => Beginning(Expansions[k], Expansions[k + j])}
<1>1. N \in Nat /\ k \in Nat /\ \A i \in 0 .. N : Expansions[i] \in Seq(Byte)
  BY ExpansionsAreBytes
<1>2. 0 \in H
  BY <1>1 DEF Beginning
<1>3. ASSUME NEW j \in Nat, j \in H PROVE j + 1 \in H
  <2> SUFFICES ASSUME k + (j + 1) <= N PROVE Beginning(Expansions[k], Expansions[k + (j + 1)])
    OBVIOUS
  <2>1. k + (j + 1) \in 1 .. N /\ (k + (j + 1)) - 1 = k + j /\ k + j \in 0 .. N
    BY <1>1
  <2>2. Expansions[k + j] \in Seq(Byte)
    BY <1>1, <2>1
  <2>3. PICK a, b, c : a = Expansions[k] /\ b = Expansions[k + j] /\ c = Expansions[k + (j + 1)]
    OBVIOUS
  <2>4. PICK n : n = ItemLength(items[k + (j + 1)])
    OBVIOUS
  <2>5. n \in Nat /\ Len(c) = Len(b) + n /\ \A t \in 1 .. Len(b) : c[t] = b[t]
    BY <2>1, <2>2, <2>3, <2>4, NextExpansion
  <2>6. Beginning(a, b)
    BY <1>3, <2>1, <2>3
  <2>7. Len(a) \in Nat /\ Len(b) \in Nat
    BY <1>1, <2>2, <2>3
  <2>8. Beginning(a, c)
    BY <2>5, <2>6, <2>7 DEF Beginning
  <2> QED
    BY <2>3, <2>8
<1> HIDE DEF H
<1>4. N - k \in H /\ k + (N - k) = N
  BY <1>1, <1>2, <1>3, SetInduction
<1>5. Beginning(Expansions[k], Expansions[N])
  BY <1>1, <1>4 DEF H
<1> QED
  BY <1>1, <1>5 DEF Expansion


-----------------------------------------------------------------------------
(* Where the items are in the compressed bytes.  An item's place is the    *)
(* number of bytes before its byte of flags (group), its flag in it (bit)  *)
(* and the number of bytes before its own first byte (start).              *)

Places == [group : Nat, bit : 0 .. FlagBits - 1, start : Nat]
Place(group, bit, start) == [group |-> group, bit |-> bit, start |-> start]

NextPlace(place, item) ==
  LET end == place.start + Size(item)
  IN  IF place.bit + 1 = FlagBits THEN Place(end, 0, end + 1)
      ELSE Place(place.group, place.bit + 1, end)

(* L gives the place of every item, and of the one after them.             *)
LayoutOf(L) ==
  /\ L \in [1 .. Len(items) + 1 -> Places]
  /\ L[1] = Place(0, 0, 1)
  /\ \A i \in 1 .. Len(items) : L[i + 1] = NextPlace(L[i], items[i])

(* The bytes have the item at its place.                                   *)
Holds(data, place, item) ==
  /\ FlagOf(data[place.group + 1], place.bit) = IF IsLit(item) THEN 1 ELSE 0
  /\ IsLit(item) => data[place.start + 1] = item.literal
  /\ ~IsLit(item) => /\ data[place.start + 1] = HighByte(item.pair)
                     /\ data[place.start + 2] = LowByte(item.pair)

(* While Compress runs: the bytes are those that were flushed and those in *)
(* the buffer, and an item is among the former or in the group in progress.*)
WithBuffer(buffer, offset) == stream \o [i \in 1 .. offset |-> buffer[i - 1]]
Buffered == WithBuffer(dataBuffer, bufferOffset)

Inside(place, item) ==
  /\ place.group < place.start
  /\ \/ place.start + Size(item) <= Len(stream)
     \/ /\ place.group = Len(stream) /\ place.bit < flagBit
        /\ place.start + Size(item) <= Len(stream) + bufferOffset

Packing(L) ==
  /\ L[Len(items) + 1] = Place(Len(stream), flagBit, Len(stream) + bufferOffset)
  /\ flagBit = 0 <=> bufferOffset = 1
  /\ incOutputString => flagBit = 0
  /\ \A i \in 1 .. Len(items) : Inside(L[i], items[i]) /\ Holds(Buffered, L[i], items[i])

(* Afterwards: every item is in the bytes, and nothing follows the last.   *)
Packed(L) ==
  /\ Len(stream) <= L[Len(items) + 1].start
  /\ \A i \in 1 .. Len(items) :
       /\ L[i].group < L[i].start
       /\ L[i].start + Size(items[i]) <= Len(stream)
       /\ Holds(stream, L[i], items[i])
  /\ Len(input) <= Len(stream)
  /\ \A i \in 1 .. Len(input) : input[i] = stream[i]

LEMMA HoldsLonger ==
  ASSUME NEW place \in Places, NEW item \in Item, NEW data, NEW more, NEW n \in Nat,
         \A j \in 1 .. n : more[j] = data[j],
         place.group < place.start, place.start + Size(item) <= n,
         Holds(data, place, item)
  PROVE  Holds(more, place, item)
<1>1. PICK g, s : g = place.group /\ s = place.start
  OBVIOUS
<1>2. g \in Nat /\ s \in Nat /\ g < s /\ s + Size(item) <= n
  BY <1>1 DEF Places
<1>3. g + 1 \in 1 .. n /\ s + 1 \in 1 .. n
  BY <1>2, ItemKinds
<1>4. ~IsLit(item) => s + 2 \in 1 .. n
  BY <1>2 DEF Size
<1>5. /\ more[g + 1] = data[g + 1] /\ more[s + 1] = data[s + 1]
      /\ ~IsLit(item) => more[s + 2] = data[s + 2]
  BY <1>3, <1>4
<1> QED
  BY <1>1, <1>5 DEF Holds

LEMMA WithBufferIs ==
  ASSUME stream \in Seq(Byte), NEW buffer \in [Offsets -> Byte],
         NEW offset \in Nat, offset <= 2 * FlagBits + 1
  PROVE  /\ WithBuffer(buffer, offset) \in Seq(Byte)
         /\ Len(WithBuffer(buffer, offset)) = Len(stream) + offset
         /\ \A j \in 1 .. Len(stream) : WithBuffer(buffer, offset)[j] = stream[j]
         /\ \A j \in 0 .. offset - 1 : WithBuffer(buffer, offset)[Len(stream) + 1 + j] = buffer[j]
<1> DEFINE head == [i \in 1 .. offset |-> buffer[i - 1]]
<1>1. head \in Seq(Byte) /\ Len(head) = offset
  BY BufferPrefix
<1>2. \A j \in 0 .. offset - 1 : head[j + 1] = buffer[j]
  <2> SUFFICES ASSUME NEW j \in 0 .. offset - 1 PROVE head[j + 1] = buffer[j]
    OBVIOUS
  <2>1. j + 1 \in 1 .. offset /\ (j + 1) - 1 = j
    OBVIOUS
  <2> QED
    BY <2>1
<1> HIDE DEF head
<1>3. /\ stream \o head \in Seq(Byte) /\ Len(stream \o head) = Len(stream) + offset
      /\ \A j \in 1 .. Len(stream) : (stream \o head)[j] = stream[j]
  BY <1>1
<1>4. ASSUME NEW j \in 0 .. offset - 1
      PROVE  (stream \o head)[Len(stream) + 1 + j] = buffer[j]
  <2>1. /\ Len(stream) \in Nat /\ Len(stream) + 1 + j \in 1 .. Len(stream) + offset
        /\ Len(stream) + 1 + j > Len(stream)
        /\ (Len(stream) + 1 + j) - Len(stream) = j + 1
    OBVIOUS
  <2>2. (stream \o head)[Len(stream) + 1 + j] = head[(Len(stream) + 1 + j) - Len(stream)]
    BY <2>1, <1>1
  <2> QED
    BY <2>1, <2>2, <1>2
<1> QED
  BY <1>3, <1>4 DEF WithBuffer, head

(* What is put into the buffer for an item.                                *)
PutIn(item, buffer) ==
  /\ buffer \in [Offsets -> Byte]
  /\ buffer[0] = IF IsLit(item) THEN dataBuffer[0] + Mask[flagBit] ELSE dataBuffer[0]
  /\ \A i \in 1 .. bufferOffset - 1 : buffer[i] = dataBuffer[i]
  /\ IsLit(item) => buffer[bufferOffset] = item.literal
  /\ ~IsLit(item) => /\ buffer[bufferOffset] = HighByte(item.pair)
                     /\ buffer[bufferOffset + 1] = LowByte(item.pair)

(* An item does not disturb those before it, in its own group either.      *)
LEMMA OldItemHeld ==
  ASSUME PackTypes, BufferFits, NEW item \in Item, NEW buffer, PutIn(item, buffer),
         NEW place \in Places, NEW old \in Item, Inside(place, old),
         Holds(Buffered, place, old)
  PROVE  Holds(WithBuffer(buffer, bufferOffset + Size(item)), place, old)
<1> DEFINE offset == bufferOffset + Size(item)
           data == Buffered
           more == WithBuffer(buffer, offset)
           l == Len(stream)
<1>1. PICK g, b, s : g = place.group /\ b = place.bit /\ s = place.start
  OBVIOUS
<1>2. g \in Nat /\ b \in 0 .. FlagBits - 1 /\ s \in Nat /\ g < s /\ l \in Nat
  BY <1>1 DEF Places, Inside, PackTypes
<1>3. /\ bufferOffset \in Nat /\ bufferOffset >= 1 /\ bufferOffset <= 2 * FlagBits + 1
      /\ offset \in Nat /\ offset <= 2 * FlagBits + 1 /\ offset > bufferOffset
  BY ItemKinds, FlagBitsAssumption DEF PackTypes, BufferFits
<1>4. /\ \A j \in 1 .. l : data[j] = stream[j] /\ more[j] = stream[j]
      /\ \A j \in 0 .. bufferOffset - 1 : data[l + 1 + j] = dataBuffer[j]
      /\ \A j \in 0 .. offset - 1 : more[l + 1 + j] = buffer[j]
  <2>1. /\ \A j \in 1 .. l : data[j] = stream[j]
        /\ \A j \in 0 .. bufferOffset - 1 : data[l + 1 + j] = dataBuffer[j]
    BY <1>3, WithBufferIs DEF PackTypes, Buffered
  <2>2. /\ \A j \in 1 .. l : more[j] = stream[j]
        /\ \A j \in 0 .. offset - 1 : more[l + 1 + j] = buffer[j]
    BY <1>3, WithBufferIs DEF PackTypes, PutIn
  <2> QED
    BY <2>1, <2>2
<1> HIDE DEF data, more, offset
<1>5. CASE s + Size(old) <= l
  <2>1. \A j \in 1 .. l : more[j] = data[j]
    BY <1>4
  <2> QED
    BY <1>1, <1>2, <1>5, <2>1, HoldsLonger DEF data, more, offset
<1>6. CASE ~(s + Size(old) <= l)
  <2>1. g = l /\ b < flagBit /\ s + Size(old) <= l + bufferOffset /\ s >= l + 1
    BY <1>1, <1>2, <1>6 DEF Inside
  <2>2. data[g + 1] = dataBuffer[0] /\ more[g + 1] = buffer[0]
    <3>1. /\ 0 \in 0 .. bufferOffset - 1 /\ 0 \in 0 .. offset - 1 /\ l + 1 + 0 = g + 1
      BY <1>2, <1>3, <2>1
    <3> QED
      BY <3>1, <1>4
  <2>3. FlagOf(buffer[0], b) = FlagOf(dataBuffer[0], b)
    <3>1. CASE IsLit(item)
      <4>1. buffer[0] = dataBuffer[0] + Mask[flagBit] /\ dataBuffer[0] \in Nat
        BY <3>1, BufferRoom DEF PutIn
      <4>2. flagBit \in 0 .. FlagBits /\ b \in 0 .. FlagBits
        <5>1. b \in 0 .. FlagBits
          BY <1>2, FlagBitsAssumption
        <5> QED
          BY <5>1, BufferRoom
      <4> QED
        BY <2>1, <4>1, <4>2, OldFlag
    <3>2. CASE ~IsLit(item)
      BY <3>2 DEF PutIn
    <3> QED
      BY <3>1, <3>2
  <2>4. ASSUME NEW j \in s + 1 .. s + Size(old) PROVE more[j] = data[j]
    <3>1. PICK i : i = j - l - 1
      OBVIOUS
    <3>2. i \in 1 .. bufferOffset - 1 /\ i \in 0 .. offset - 1 /\ i \in 0 .. bufferOffset - 1
      BY <3>1, <1>2, <1>3, <2>1, ItemKinds
    <3>3. l + 1 + i = j
      BY <3>1, <1>2, ItemKinds
    <3>4. buffer[i] = dataBuffer[i]
      BY <3>2 DEF PutIn
    <3> QED
      BY <3>2, <3>3, <3>4, <1>4
  <2>5. s + 1 \in s + 1 .. s + Size(old) /\ (~IsLit(old) => s + 2 \in s + 1 .. s + Size(old))
    BY <1>2, ItemKinds DEF Size
  <2>6. more[s + 1] = data[s + 1] /\ (~IsLit(old) => more[s + 2] = data[s + 2])
    BY <2>4, <2>5
  <2>7. Holds(data, place, old)
    BY DEF data
  <2>8. Holds(more, place, old)
    BY <1>1, <2>2, <2>3, <2>6, <2>7 DEF Holds
  <2> QED
    BY <2>8 DEF more, offset
<1> QED
  BY <1>5, <1>6

(* And it is there itself.                                                 *)
LEMMA NewItemHeld ==
  ASSUME PackTypes, BufferFits, NEW item \in Item, NEW buffer, PutIn(item, buffer)
  PROVE  Holds(WithBuffer(buffer, bufferOffset + Size(item)),
               Place(Len(stream), flagBit, Len(stream) + bufferOffset), item)
<1> DEFINE offset == bufferOffset + Size(item)
           more == WithBuffer(buffer, offset)
           l == Len(stream)
           place == Place(l, flagBit, l + bufferOffset)
<1>1. /\ bufferOffset \in Nat /\ bufferOffset >= 1 /\ l \in Nat
      /\ offset \in Nat /\ offset <= 2 * FlagBits + 1 /\ offset > bufferOffset
  BY ItemKinds, FlagBitsAssumption DEF PackTypes, BufferFits
<1>2. \A j \in 0 .. offset - 1 : more[l + 1 + j] = buffer[j]
  BY <1>1, WithBufferIs DEF PackTypes, PutIn
<1>3. place.group = l /\ place.bit = flagBit /\ place.start = l + bufferOffset
  BY DEF Place
<1>4. ~IsLit(item) => bufferOffset + 1 \in 0 .. offset - 1
  BY <1>1 DEF Size
<1> HIDE DEF more, place, offset
<1>5. FlagOf(more[l + 1], flagBit) = IF IsLit(item) THEN 1 ELSE 0
  <2>1. 0 \in 0 .. offset - 1 /\ l + 1 + 0 = l + 1
    BY <1>1
  <2>2. more[l + 1] = buffer[0]
    BY <1>2, <2>1
  <2>3. /\ flagBit \in 0 .. FlagBits /\ dataBuffer[0] \in Nat
        /\ dataBuffer[0] < Mask[flagBit]
    BY BufferRoom DEF PackTypes
  <2> QED
    BY <2>2, <2>3, NewFlag DEF PutIn
<1>6. more[l + bufferOffset + 1] = buffer[bufferOffset]
  <2>1. bufferOffset \in 0 .. offset - 1 /\ l + 1 + bufferOffset = l + bufferOffset + 1
    BY <1>1
  <2> QED
    BY <1>2, <2>1
<1>7. ~IsLit(item) => more[l + bufferOffset + 2] = buffer[bufferOffset + 1]
  <2>1. l + 1 + (bufferOffset + 1) = l + bufferOffset + 2
    BY <1>1
  <2> QED
    BY <1>2, <1>4, <2>1
<1>8. Holds(more, place, item)
  BY <1>3, <1>5, <1>6, <1>7 DEF Holds, PutIn
<1> QED
  BY <1>8 DEF more, place, offset


-----------------------------------------------------------------------------
(* Compress keeps every item at its place.                                 *)

LEMMA NextPlaceTyped ==
  ASSUME NEW place \in Places, NEW item \in Item
  PROVE  NextPlace(place, item) \in Places
<1>1. PICK g, b, s : g = place.group /\ b = place.bit /\ s = place.start
  OBVIOUS
<1>2. g \in Nat /\ b \in 0 .. FlagBits - 1 /\ s \in Nat
  BY <1>1 DEF Places
<1>3. PICK end : end = s + Size(item)
  OBVIOUS
<1>4. end \in Nat /\ end + 1 \in Nat
  BY <1>2, <1>3, ItemKinds
<1>5. 0 \in 0 .. FlagBits - 1 /\ (b + 1 # FlagBits => b + 1 \in 0 .. FlagBits - 1)
  BY <1>2, FlagBitsAssumption
<1> QED
  BY <1>1, <1>2, <1>3, <1>4, <1>5 DEF NextPlace, Place, Places

(* The layout with a place for what follows a new item.                    *)
LEMMA NextLayout ==
  ASSUME items \in Seq(Item), NEW L, LayoutOf(L), NEW item \in Item,
         items' = Append(items, item)
  PROVE  \E M :
           /\ LayoutOf(M)'
           /\ Len(items') = Len(items) + 1
           /\ \A i \in 1 .. Len(items) : M[i] = L[i] /\ items'[i] = items[i]
           /\ M[Len(items) + 1] = L[Len(items) + 1] /\ items'[Len(items) + 1] = item
           /\ M[Len(items) + 2] = NextPlace(L[Len(items) + 1], item)
<1>1. PICK n \in Nat : n = Len(items)
  OBVIOUS
<1>2. PICK M : M = [i \in 1 .. n + 2 |-> IF i = n + 2 THEN NextPlace(L[n + 1], item) ELSE L[i]]
  OBVIOUS
<1>3. L \in [1 .. n + 1 -> Places] /\ L[n + 1] \in Places
  BY <1>1 DEF LayoutOf
<1>4. NextPlace(L[n + 1], item) \in Places
  BY <1>3, NextPlaceTyped
<1>6. /\ M \in [1 .. n + 2 -> Places]
      /\ \A i \in 1 .. n + 1 : M[i] = L[i]
      /\ M[n + 2] = NextPlace(L[n + 1], item)
  BY <1>2, <1>3, <1>4
<1>7. /\ Len(items') = n + 1 /\ items'[n + 1] = item
      /\ \A i \in 1 .. n : items'[i] = items[i]
  BY <1>1
<1>8. \A i \in 1 .. n : L[i + 1] = NextPlace(L[i], items[i])
  BY <1>1 DEF LayoutOf
<1>9. ASSUME NEW i \in 1 .. n + 1 PROVE M[i + 1] = NextPlace(M[i], items'[i])
  <2>1. CASE i = n + 1
    <3>1. i + 1 = n + 2 /\ i \in 1 .. n + 1
      BY <2>1
    <3> QED
      BY <2>1, <3>1, <1>6, <1>7
  <2>2. CASE i # n + 1
    <3>1. i \in 1 .. n /\ i + 1 \in 1 .. n + 1 /\ i \in 1 .. n + 1
      BY <2>2
    <3> QED
      BY <3>1, <1>6, <1>7, <1>8
  <2> QED
    BY <2>1, <2>2
<1>10. M[1] = Place(0, 0, 1)
  BY <1>6 DEF LayoutOf
<1>11. LayoutOf(M)'
  <2>1. Len(items') + 1 = n + 2
    BY <1>7
  <2> QED
    BY <2>1, <1>6, <1>7, <1>9, <1>10 DEF LayoutOf
<1>12. /\ Len(items') = Len(items) + 1
       /\ \A i \in 1 .. Len(items) : M[i] = L[i] /\ items'[i] = items[i]
       /\ M[Len(items) + 1] = L[Len(items) + 1] /\ items'[Len(items) + 1] = item
       /\ M[Len(items) + 2] = NextPlace(L[Len(items) + 1], item)
  BY <1>1, <1>6, <1>7
<1> QED
  BY <1>11, <1>12

LEMMA PackingKept ==
  ASSUME StreamInv, NEW L, LayoutOf(L), Packing(L), NEW item \in Item,
         NEW buffer, PutIn(item, buffer),
         items' = Append(items, item), FlushIfFull(buffer, bufferOffset + Size(item))
  PROVE  \E M : LayoutOf(M)' /\ Packing(M)'
<1> DEFINE n == Len(items)
           l == Len(stream)
           offset == bufferOffset + Size(item)
           data == WithBuffer(buffer, offset)
           here == Place(l, flagBit, l + bufferOffset)
<1>2. PackTypes /\ BufferFits /\ items \in Seq(Item) /\ n \in Nat /\ l \in Nat
  BY DEF StreamInv, PackTypes
<1>3. /\ bufferOffset \in Nat /\ bufferOffset >= 1 /\ flagBit \in Nat
      /\ offset \in Nat /\ offset <= 2 * FlagBits + 1 /\ offset > bufferOffset
      /\ Size(item) \in 1 .. 2
  BY <1>2, ItemKinds, FlagBitsAssumption DEF PackTypes, BufferFits
<1>4. PICK M :
      /\ LayoutOf(M)'
      /\ Len(items') = n + 1
      /\ \A i \in 1 .. n : M[i] = L[i] /\ items'[i] = items[i]
      /\ M[n + 1] = L[n + 1] /\ items'[n + 1] = item
      /\ M[n + 2] = NextPlace(L[n + 1], item)
  BY <1>2, NextLayout
<1>5. \A i \in 1 .. n : items[i] \in Item /\ L[i] \in Places
  BY <1>2 DEF LayoutOf
<1>6. L[n + 1] = here
  BY DEF Packing
<1>7. /\ data \in Seq(Byte) /\ Len(data) = l + offset
  BY <1>3, WithBufferIs DEF PutIn, StreamInv, PackTypes
<1>8. ASSUME NEW i \in 1 .. n + 1 PROVE Holds(data, M[i], items'[i])
  <2>1. CASE i = n + 1
    BY <2>1, <1>2, <1>4, <1>6, NewItemHeld
  <2>2. CASE i # n + 1
    <3>1. i \in 1 .. n
      BY <2>2, <1>2
    <3>2. Inside(L[i], items[i]) /\ Holds(Buffered, L[i], items[i])
      BY <3>1 DEF Packing
    <3>3. Holds(data, L[i], items[i])
      BY <1>2, <1>5, <3>1, <3>2, OldItemHeld
    <3> QED
      BY <3>1, <3>3, <1>4
  <2> QED
    BY <2>1, <2>2
<1>9. /\ here.group = l /\ here.bit = flagBit /\ here.start = l + bufferOffset
  BY DEF Place
<1>10. ASSUME NEW i \in 1 .. n + 1
       PROVE  /\ M[i] \in Places /\ items'[i] \in Item /\ Size(items'[i]) \in 1 .. 2
              /\ M[i].group < M[i].start
              /\ M[i].start + Size(items'[i]) <= l + offset
              /\ \/ M[i].start + Size(items'[i]) <= l
                 \/ M[i].group = l /\ M[i].bit <= flagBit
  <2>1. CASE i = n + 1
    <3>1. M[i] = here /\ items'[i] = item /\ here \in Places
      BY <2>1, <1>4, <1>6 DEF LayoutOf
    <3>2. here.start + Size(item) <= l + offset /\ l < l + bufferOffset
      <4> HIDE DEF here
      <4>1. offset = bufferOffset + Size(item)
        OBVIOUS
      <4> HIDE DEF offset, l
      <4> QED
        BY <4>1, <1>2, <1>3, <1>9
    <3>3. flagBit <= flagBit
      BY <1>3
    <3> QED
      BY <3>1, <3>2, <3>3, <1>3, <1>9
  <2>2. CASE i # n + 1
    <3>1. i \in 1 .. n
      BY <2>2, <1>2
    <3>2. PICK place, old : place = L[i] /\ old = items[i]
      OBVIOUS
    <3>3. Inside(place, old) /\ place \in Places /\ old \in Item
      BY <3>1, <3>2, <1>5 DEF Packing
    <3>4. Size(old) \in 1 .. 2 /\ place.start \in Nat /\ place.bit \in Nat
      BY <3>3, ItemKinds DEF Places
    <3>5. /\ place.group < place.start
          /\ place.start + Size(old) <= l + offset
          /\ \/ place.start + Size(old) <= l
             \/ place.group = l /\ place.bit <= flagBit
      <4>1. offset > bufferOffset /\ offset \in Nat /\ bufferOffset \in Nat
        BY <1>3
      <4>2. l \in Nat
        BY <1>2
      <4> HIDE DEF offset, here, data
      <4>3. /\ place.group < place.start
            /\ \/ place.start + Size(old) <= l
               \/ /\ place.group = l /\ place.bit < flagBit
                  /\ place.start + Size(old) <= l + bufferOffset
        BY <3>3 DEF Inside
      <4> HIDE DEF l
      <4>4. place.bit < flagBit => place.bit <= flagBit
        BY <1>3, <3>4
      <4>5. place.start + Size(old) <= l + offset
        <5>1. Size(old) \in Nat
          BY <3>4
        <5> QED
          BY <3>4, <4>1, <4>2, <4>3, <5>1
      <4> QED
        BY <4>3, <4>4, <4>5
    <3>6. M[i] = place /\ items'[i] = old
      BY <3>1, <3>2, <1>4
    <3> QED
      BY <3>3, <3>4, <3>5, <3>6
  <2> QED
    BY <2>1, <2>2
<1>11. M[n + 2] = IF flagBit + 1 = FlagBits THEN Place(l + offset, 0, l + offset + 1)
                  ELSE Place(l, flagBit + 1, l + offset)
  <2>1. l + bufferOffset + Size(item) = l + offset
    BY <1>2, <1>3
  <2> QED
    BY <2>1, <1>4, <1>6, <1>9 DEF NextPlace
<1> HIDE DEF data, here
<1>12. CASE flagBit + 1 = FlagBits
  <2>1. Flush(buffer, offset) /\ incOutputString' = TRUE
    BY <1>12 DEF FlushIfFull
  <2>2. /\ stream' = data /\ flagBit' = 0 /\ bufferOffset' = 1
    BY <2>1 DEF Flush, data, WithBuffer
  <2>3. Len(stream') = l + offset /\ Len(stream') \in Nat
    BY <2>2, <1>2, <1>3, <1>7
  <2>4. M[Len(items') + 1] = Place(Len(stream'), flagBit', Len(stream') + bufferOffset')
    <3>1. Len(items') + 1 = n + 2
      BY <1>2, <1>4
    <3> QED
      BY <3>1, <2>2, <2>3, <1>11, <1>12
  <2>5. ASSUME NEW j \in 1 .. l + offset PROVE Buffered'[j] = data[j]
    <3>1. dataBuffer' \in [Offsets -> Byte]
      <4>1. 0 \in Offsets /\ 0 \in Byte
        BY FlagBitsAssumption, WindowIsLarge DEF Offsets
      <4>2. dataBuffer' = [buffer EXCEPT ![0] = 0]
        BY <2>1 DEF Flush
      <4> QED
        BY <4>1, <4>2 DEF PutIn
    <3>2. PICK head : head = [i \in 1 .. bufferOffset' |-> dataBuffer'[i - 1]]
      OBVIOUS
    <3>3. head \in Seq(Byte)
      <4>1. 1 <= 2 * FlagBits + 1 /\ 1 \in Nat
        BY FlagBitsAssumption
      <4> QED
        BY <3>1, <3>2, <4>1, <2>2, BufferPrefix
    <3>4. Buffered' = data \o head
      BY <3>2, <2>2 DEF Buffered, WithBuffer
    <3> QED
      BY <3>3, <3>4, <1>7
  <2>6. ASSUME NEW i \in 1 .. Len(items')
        PROVE  Inside(M[i], items[i])' /\ Holds(Buffered, M[i], items[i])'
    <3>1. i \in 1 .. n + 1
      BY <1>4
    <3>2. Holds(data, M[i], items'[i])
      BY <3>1, <1>8
    <3>3. l + offset \in Nat
      BY <1>2, <1>3
    <3>4. Holds(Buffered', M[i], items'[i])
      BY <3>1, <3>2, <3>3, <2>5, <1>10, HoldsLonger
    <3>5. M[i].group < M[i].start /\ M[i].start + Size(items'[i]) <= Len(stream')
      BY <3>1, <2>3, <1>10
    <3>6. Inside(M[i], items[i])'
      BY <3>5 DEF Inside
    <3>7. Holds(Buffered, M[i], items[i])'
      BY <3>4
    <3> QED
      BY <3>6, <3>7
  <2>7. Packing(M)'
    BY <2>1, <2>2, <2>4, <2>6 DEF Packing
  <2> QED
    BY <2>7, <1>4
<1>13. CASE flagBit + 1 # FlagBits
  <2>1. /\ flagBit' = flagBit + 1 /\ bufferOffset' = offset
        /\ dataBuffer' = buffer /\ stream' = stream /\ incOutputString' = FALSE
    BY <1>13 DEF FlushIfFull
  <2>2. Buffered' = data
    BY <2>1 DEF Buffered, data, WithBuffer
  <2>3. M[Len(items') + 1] = Place(Len(stream'), flagBit', Len(stream') + bufferOffset')
    <3>1. Len(items') + 1 = n + 2
      BY <1>2, <1>4
    <3> QED
      BY <3>1, <2>1, <1>11, <1>13
  <2>4. flagBit' # 0 /\ bufferOffset' # 1
    BY <2>1, <1>3
  <2>5. ASSUME NEW i \in 1 .. Len(items')
        PROVE  Inside(M[i], items[i])' /\ Holds(Buffered, M[i], items[i])'
    <3>1. i \in 1 .. n + 1
      BY <1>4
    <3>2. Holds(Buffered', M[i], items'[i])
      BY <3>1, <1>8, <2>2
    <3>3. PICK place, old : place = M[i] /\ old = items'[i]
      OBVIOUS
    <3>4. /\ place \in Places /\ Size(old) \in 1 .. 2
          /\ place.group < place.start
          /\ place.start + Size(old) <= l + offset
          /\ \/ place.start + Size(old) <= l
             \/ place.group = l /\ place.bit <= flagBit
      BY <3>1, <3>3, <1>10
    <3>5. place.bit \in Nat
      BY <3>4 DEF Places
    <3>6. place.bit <= flagBit => place.bit < flagBit'
      BY <3>5, <2>1, <1>3
    <3>7. Inside(place, old)'
      BY <3>4, <3>6, <2>1 DEF Inside
    <3>8. Inside(M[i], items[i])'
      BY <3>3, <3>7
    <3>9. Holds(Buffered, M[i], items[i])'
      BY <3>2
    <3> QED
      BY <3>8, <3>9
  <2>6. Packing(M)'
    BY <2>1, <2>3, <2>4, <2>5 DEF Packing
  <2> QED
    BY <2>6, <1>4
<1> QED
  BY <1>12, <1>13


-----------------------------------------------------------------------------
(* Expand finds every item at its place, and has written what the items    *)
(* before it stand for.                                                    *)

Decoded(k) ==
  /\ outputIndex = Len(Expansions[k])
  /\ \A i \in 1 .. outputIndex : output[i] = Expansions[k][i]
  /\ WindowOf(Expansions[k])

Parsed(place) ==
  /\ ItemIndex = place.start /\ Bit = place.bit
  /\ NeedsFlags => inputIndex = place.group
  /\ ~NeedsFlags => flags = stream[place.group + 1]

(* Why Expand ended: what an error means, and what a short output means.   *)
Ended ==
  /\ phase = "error" /\ input = stream => outputSize \notin 0 .. Len(Expansion)
  /\ phase = "ok" => remaining = 0
  /\ phase \in {"expand", "ok"} /\ remaining = 0 /\ outputIndex < outputSize =>
       outputSize < Len(Expansion)

Expanding(L) ==
  /\ Packed(L) /\ Ended
  /\ \E k \in 0 .. Len(items) : Decoded(k) /\ (InLoop => Parsed(L[k + 1]))

CodecOf(L) ==
  /\ LayoutOf(L)
  /\ IF phase = "compress" THEN Packing(L) ELSE Expanding(L)

CodecInv == StreamInv /\ \E L : CodecOf(L)

LEMMA LiteralPutIn ==
  ASSUME PackTypes, BufferFits, NEW data \in Literals
  PROVE  PutIn([literal |-> data], LiteralBuffer(data))
<1>1. PICK item : item = [literal |-> data]
  OBVIOUS
<1>2. IsLit(item) /\ item.literal = data
  BY <1>1, NewItem
<1>3. \A i \in 1 .. bufferOffset - 1 : i \in Offsets \ {0, bufferOffset}
  <2>1. bufferOffset \in 1 .. 2 * FlagBits - 1
    BY BufferRoom
  <2> QED
    BY <2>1, FlagBitsAssumption DEF Offsets
<1>4. /\ LiteralBuffer(data) \in [Offsets -> Byte]
      /\ LiteralBuffer(data)[0] = dataBuffer[0] + Mask[flagBit]
      /\ LiteralBuffer(data)[bufferOffset] = data
      /\ \A i \in 1 .. bufferOffset - 1 : LiteralBuffer(data)[i] = dataBuffer[i]
  BY <1>3, LiteralBufferTyped
<1>5. PutIn(item, LiteralBuffer(data))
  BY <1>2, <1>4 DEF PutIn
<1> QED
  BY <1>1, <1>5

LEMMA PairPutIn ==
  ASSUME PackTypes, BufferFits, NEW pair \in Pairs
  PROVE  PutIn([pair |-> pair], PairBuffer(pair))
<1>1. PICK item : item = [pair |-> pair]
  OBVIOUS
<1>2. ~IsLit(item) /\ item.pair = pair
  BY <1>1, NewItem
<1>3. \A i \in 1 .. bufferOffset - 1 : i \in Offsets \ {bufferOffset, bufferOffset + 1}
  <2>1. bufferOffset \in 1 .. 2 * FlagBits - 1
    BY BufferRoom
  <2> QED
    BY <2>1, FlagBitsAssumption DEF Offsets
<1>4. /\ PairBuffer(pair) \in [Offsets -> Byte]
      /\ PairBuffer(pair)[0] = dataBuffer[0]
      /\ PairBuffer(pair)[bufferOffset] = HighByte(pair)
      /\ PairBuffer(pair)[bufferOffset + 1] = LowByte(pair)
      /\ \A i \in 1 .. bufferOffset - 1 : PairBuffer(pair)[i] = dataBuffer[i]
  BY <1>3, PairBufferTyped
<1>5. PutIn(item, PairBuffer(pair))
  BY <1>2, <1>4 DEF PutIn
<1> QED
  BY <1>1, <1>5

(* Putting out a literal or a pair.                                        *)
LEMMA OutputKeepsCodec ==
  ASSUME CodecInv,
         \/ \E data \in Literals : OutputChar(data)
         \/ \E pair \in Pairs : OutputPair(pair)
  PROVE  CodecInv'
<1>1. StreamInv'
  BY OutputKeepsInv DEF CodecInv
<1>2. PICK L : CodecOf(L)
  BY DEF CodecInv
<1>3. StreamInv /\ PackTypes /\ BufferFits /\ bufferOffset \in Nat
  BY DEF CodecInv, StreamInv, PackTypes
<1>4. ASSUME NEW item \in Item, NEW buffer, PutsOut(item), PutIn(item, buffer),
             FlushIfFull(buffer, bufferOffset + Size(item))
      PROVE  CodecInv'
  <2>1. /\ phase = "compress" /\ phase' = "compress" /\ items' = Append(items, item)
    BY <1>4 DEF PutsOut
  <2>2. LayoutOf(L) /\ Packing(L)
    BY <1>2, <2>1 DEF CodecOf
  <2>3. \E M : LayoutOf(M)' /\ Packing(M)'
    BY <1>3, <1>4, <2>1, <2>2, PackingKept
  <2> QED
    BY <1>1, <2>1, <2>3 DEF CodecInv, CodecOf
<1>5. ASSUME NEW data \in Literals, OutputChar(data) PROVE CodecInv'
  <2>1. PICK item : item = [literal |-> data]
    OBVIOUS
  <2>2. item \in Item /\ Size(item) = 1 /\ PutIn(item, LiteralBuffer(data))
    BY <1>3, <2>1, NewItem, LiteralPutIn
  <2>3. PutsOut(item) /\ FlushIfFull(LiteralBuffer(data), bufferOffset + Size(item))
    BY <1>5, <2>1, <2>2 DEF OutputChar, LiteralBuffer
  <2> QED
    BY <1>4, <2>2, <2>3
<1>6. ASSUME NEW pair \in Pairs, OutputPair(pair) PROVE CodecInv'
  <2>1. PICK item : item = [pair |-> pair]
    OBVIOUS
  <2>2. item \in Item /\ Size(item) = 2 /\ PutIn(item, PairBuffer(pair))
    BY <1>3, <2>1, NewItem, PairPutIn
  <2>3. PutsOut(item) /\ FlushIfFull(PairBuffer(pair), bufferOffset + Size(item))
    BY <1>6, <2>1, <2>2 DEF OutputPair, PairBuffer, HighByte, LowByte
  <2> QED
    BY <1>4, <2>2, <2>3
<1> QED
  BY <1>5, <1>6

(* What Compress returns has every item, also of a group not flushed yet,  *)
(* and nothing more.                                                       *)
LEMMA CompressedIsPacked ==
  ASSUME StreamInv, NEW L, LayoutOf(L), Packing(L)
  PROVE  /\ Len(Compressed) <= L[Len(items) + 1].start
         /\ \A i \in 1 .. Len(items) :
              /\ L[i].group < L[i].start
              /\ L[i].start + Size(items[i]) <= Len(Compressed)
              /\ Holds(Compressed, L[i], items[i])
<1> DEFINE n == Len(items)
           l == Len(stream)
<1>1. /\ PackTypes /\ BufferFits /\ l \in Nat /\ n \in Nat /\ flagBit \in Nat
      /\ bufferOffset \in Nat /\ bufferOffset >= 1 /\ bufferOffset <= 2 * FlagBits + 1
  BY FlagBitsAssumption DEF StreamInv, PackTypes, BufferFits
<1>2. L[n + 1].start = l + bufferOffset
  BY DEF Packing, Place
<1>3. Len(Buffered) = l + bufferOffset /\ \A j \in 1 .. l : stream[j] = Buffered[j]
  BY <1>1, WithBufferIs DEF Buffered, StreamInv, PackTypes
<1>4. ASSUME NEW i \in 1 .. n
      PROVE  /\ L[i] \in Places /\ items[i] \in Item
             /\ Inside(L[i], items[i]) /\ Holds(Buffered, L[i], items[i])
  BY <1>1 DEF PackTypes, LayoutOf, Packing
<1>5. CASE flagBit = 0
  <2>1. Compressed = stream
    BY <1>5 DEF Packing, Compressed
  <2>2. ASSUME NEW i \in 1 .. n
        PROVE  /\ L[i].group < L[i].start
               /\ L[i].start + Size(items[i]) <= l
               /\ Holds(stream, L[i], items[i])
    <3>1. PICK place, item : place = L[i] /\ item = items[i]
      OBVIOUS
    <3>2. place.bit \in Nat /\ place \in Places /\ item \in Item
      BY <1>4, <3>1 DEF Places
    <3>3. place.group < place.start /\ place.start + Size(item) <= l
      BY <1>4, <1>5, <3>1, <3>2 DEF Inside
    <3>4. Holds(stream, place, item)
      BY <1>1, <1>3, <1>4, <3>1, <3>2, <3>3, HoldsLonger
    <3> QED
      BY <3>1, <3>3, <3>4
  <2>3. l <= l + bufferOffset
    BY <1>1
  <2> QED
    BY <1>2, <2>1, <2>2, <2>3
<1>6. CASE flagBit # 0
  <2>1. Compressed = Buffered
    BY <1>6 DEF Packing, Compressed, Buffered, WithBuffer
  <2>2. ASSUME NEW i \in 1 .. n
        PROVE  L[i].group < L[i].start /\ L[i].start + Size(items[i]) <= l + bufferOffset
    <3>1. PICK place, item : place = L[i] /\ item = items[i]
      OBVIOUS
    <3>2. place.start \in Nat /\ Size(item) \in 1 .. 2
      BY <1>4, <3>1, ItemKinds DEF Places
    <3>3. place.group < place.start /\ place.start + Size(item) <= l + bufferOffset
      BY <1>1, <1>4, <3>1, <3>2 DEF Inside
    <3> QED
      BY <3>1, <3>3
  <2>3. l + bufferOffset <= l + bufferOffset
    BY <1>1
  <2> QED
    BY <1>2, <1>3, <1>4, <2>1, <2>2, <2>3
<1> QED
  BY <1>5, <1>6


(* Expand starts at the first item, with nothing written.                  *)
LEMMA ExpandKeepsCodec ==
  ASSUME CodecInv, NEW length \in 0 .. Len(Compressed), NEW size \in Int,
         Expand(length, size)
  PROVE  CodecInv'
<1>1. PICK L : CodecOf(L)
  BY DEF CodecInv
<1>2. StreamInv /\ StreamInv'
  BY ExpandKeepsInv DEF CodecInv
<1>3. /\ phase = "compress" /\ input' = SubSeq(Compressed, 1, length)
      /\ outputSize' = size /\ stream' = Compressed /\ items' = items
  BY DEF Expand
<1>4. LayoutOf(L) /\ Packing(L)
  BY <1>1, <1>3 DEF CodecOf
<1>5. Compressed \in Seq(Byte) /\ items \in Seq(Item) /\ Len(items) \in Nat
  BY <1>2, CompressedSeq DEF StreamInv, PackTypes
<1>6. LayoutOf(L)'
  BY <1>3, <1>4 DEF LayoutOf
<1>7. Packed(L)'
  <2>1. Len(input') = length /\ \A i \in 1 .. length : input'[i] = Compressed[i]
    BY <1>3, <1>5
  <2>2. length <= Len(Compressed)
    OBVIOUS
  <2>3. /\ Len(Compressed) <= L[Len(items) + 1].start
        /\ \A i \in 1 .. Len(items) :
             /\ L[i].group < L[i].start
             /\ L[i].start + Size(items[i]) <= Len(Compressed)
             /\ Holds(Compressed, L[i], items[i])
    BY <1>2, <1>4, CompressedIsPacked
  <2> QED
    BY <2>1, <2>2, <2>3, <1>3 DEF Packed
<1>8. Expansions[0] = <<>> /\ Len(Expansion) \in Nat
  BY <1>5, ExpansionsUnfold, ExpansionsGrow
<1>9. Expansions' = Expansions /\ Expansion' = Expansion
  BY <1>3 DEF Expansions, Expansion
<1>10. /\ outputIndex' = 0 /\ window' = window /\ currentPosition' = currentPosition
       /\ outputIndex = 0 /\ remaining = 0
       /\ currentPosition = 1 /\ window = [p \in Position |-> 0]
  <2>1. /\ outputIndex = 0 /\ remaining = 0
        /\ currentPosition = 1 /\ window = [p \in Position |-> 0]
    BY <1>2, <1>3 DEF StreamInv, NotStarted
  <2>2. outputIndex' = outputIndex /\ window' = window /\ currentPosition' = currentPosition
    BY DEF Expand, copyVars
  <2> QED
    BY <2>1, <2>2
<1>11. Decoded(0)'
  <2>1. PICK none : none = Expansions[0]
    OBVIOUS
  <2>2. none = <<>> /\ none \in Seq(Byte) /\ Len(none) = 0
    BY <1>8, <2>1
  <2>3. \A p \in Position : SymbolAt(none, p) = 0
    <3>1. \A p \in Position : Times(none, p) = {}
      BY <2>2 DEF Times
    <3> QED
      BY <2>2, <3>1, LatestTime
  <2>4. ModWindow(1 + 0) = 1
    BY WindowIsLarge, Wrapped
  <2>5. WindowOf(none)'
    BY <1>10, <2>2, <2>3, <2>4 DEF WindowOf
  <2>6. Expansions'[0] = none
    BY <1>9, <2>1
  <2> QED
    BY <1>10, <2>2, <2>5, <2>6 DEF Decoded
<1>12. Len(Compressed) = 0 => Len(Expansion) = 0
  <2> SUFFICES ASSUME Len(Compressed) = 0 PROVE Len(Expansion) = 0
    OBVIOUS
  <2>1. ASSUME Len(items) # 0 PROVE FALSE
    <3>1. 1 \in 1 .. Len(items)
      BY <1>5, <2>1
    <3>2. PICK s, z : s = L[1].start /\ z = Size(items[1])
      OBVIOUS
    <3>3. s + z <= Len(Compressed)
      BY <1>2, <1>4, <3>1, <3>2, CompressedIsPacked
    <3>4. s = 1
      BY <1>4, <3>2 DEF LayoutOf, Place
    <3>5. z \in 1 .. 2
      BY <1>5, <3>1, <3>2, ItemKinds
    <3> QED
      BY <3>3, <3>4, <3>5
  <2>2. Expansion = <<>>
    BY <1>8, <2>1 DEF Expansion
  <2> QED
    BY <2>2
<1>13. CASE length > 0 /\ size >= 0
  <2>1. /\ phase' = "expand" /\ flags' = Compressed[1] /\ inputBit' = 0 /\ inputIndex' = 1
        /\ remaining' = size
    BY <1>13 DEF Expand
  <2>2. Parsed(L[1])'
    <3>1. L[1].group = 0 /\ L[1].bit = 0 /\ L[1].start = 1
      BY <1>4 DEF LayoutOf, Place
    <3>2. inputBit' # FlagBits
      BY <2>1, FlagBitsAssumption
    <3> QED
      BY <1>3, <2>1, <3>1, <3>2 DEF Parsed, ItemIndex, Bit, NeedsFlags
  <2>3. Ended'
    <3>1. remaining' = 0 => ~(outputIndex' < outputSize')
      BY <1>3, <1>10, <2>1
    <3> QED
      BY <2>1, <3>1 DEF Ended
  <2>4. 0 \in 0 .. Len(items) /\ Len(items') = Len(items) /\ 0 + 1 = 1
    BY <1>3, <1>5
  <2>5. Expanding(L)'
    BY <1>7, <1>11, <2>2, <2>3, <2>4 DEF Expanding
  <2> QED
    BY <1>2, <1>6, <2>1, <2>5 DEF CodecInv, CodecOf
<1>14. CASE ~(length > 0 /\ size >= 0)
  <2>1. /\ remaining' = remaining
        /\ \/ phase' = "error" /\ (size < 0 \/ (length = 0 /\ size > 0))
           \/ phase' = "ok" /\ size = 0
    BY <1>14 DEF Expand, copyVars
  <2>2. Ended'
    <3>1. ASSUME phase' = "error", input' = stream'
          PROVE  size \notin 0 .. Len(Expansion)
      <4>1. Len(input') = length
        BY <1>3, <1>5
      <4>2. length = 0 => Len(Expansion) = 0
        BY <1>3, <1>12, <3>1, <4>1
      <4> QED
        BY <2>1, <3>1, <4>2
    <3>2. phase' = "ok" => remaining' = 0 /\ ~(outputIndex' < outputSize')
      BY <1>3, <1>10, <2>1
    <3> QED
      BY <1>3, <1>9, <2>1, <3>1, <3>2 DEF Ended
  <2>3. 0 \in 0 .. Len(items') /\ ~InLoop'
    BY <1>3, <1>5, <2>1 DEF InLoop
  <2>4. Expanding(L)'
    BY <1>7, <1>11, <2>2, <2>3 DEF Expanding
  <2>5. phase' # "compress"
    BY <2>1
  <2> QED
    BY <1>2, <1>6, <2>4, <2>5 DEF CodecInv, CodecOf
<1> QED
  BY <1>13, <1>14

(* Where Expand is when it reads an item, or the end.                      *)
LEMMA AtItem ==
  ASSUME StreamInv, NEW L, LayoutOf(L), Packed(L), NEW k \in 0 .. Len(items), Parsed(L[k + 1])
  PROVE  /\ k = Len(items) => ItemIndex >= Len(stream)
         /\ k < Len(items) =>
              /\ ItemIndex \in Nat
              /\ ItemIndex + Size(items[k + 1]) <= Len(stream)
              /\ NeedsFlags => inputIndex < Len(stream)
              /\ ~NeedsFlags \/ inputIndex < Len(input) =>
                   /\ Flags = stream[L[k + 1].group + 1]
                   /\ IsLiteral <=> IsLit(items[k + 1])
<1>1. k = Len(items) => ItemIndex >= Len(stream)
  <2> SUFFICES ASSUME k = Len(items) PROVE ItemIndex >= Len(stream)
    OBVIOUS
  <2>1. PICK s : s = L[k + 1].start
    OBVIOUS
  <2>2. Len(stream) <= s /\ ItemIndex = s
    BY <2>1 DEF Packed, Parsed
  <2>3. s \in Nat /\ Len(stream) \in Nat
    <3>1. k + 1 \in 1 .. Len(items) + 1 /\ Len(stream) \in Nat
      BY DEF StreamInv, PackTypes
    <3>2. L[k + 1] \in Places
      BY <3>1 DEF LayoutOf
    <3> QED
      BY <2>1, <3>1, <3>2 DEF Places
  <2> QED
    BY <2>2, <2>3
<1>2. ASSUME k < Len(items)
      PROVE  /\ ItemIndex \in Nat
             /\ ItemIndex + Size(items[k + 1]) <= Len(stream)
             /\ NeedsFlags => inputIndex < Len(stream)
             /\ ~NeedsFlags \/ inputIndex < Len(input) =>
                  /\ Flags = stream[L[k + 1].group + 1]
                  /\ IsLiteral <=> IsLit(items[k + 1])
  <2>1. PICK place, item : place = L[k + 1] /\ item = items[k + 1]
    OBVIOUS
  <2>2. k + 1 \in 1 .. Len(items) /\ k + 1 \in 1 .. Len(items) + 1
    BY <1>2 DEF StreamInv, PackTypes
  <2>3. /\ place \in Places /\ item \in Item
        /\ place.group < place.start /\ place.start + Size(item) <= Len(stream)
        /\ Holds(stream, place, item)
    BY <2>1, <2>2 DEF LayoutOf, Packed, StreamInv, PackTypes
  <2>4. PICK g, s : g = place.group /\ s = place.start
    OBVIOUS
  <2>5. /\ g \in Nat /\ s \in Nat /\ g < s /\ Size(item) \in 1 .. 2 /\ Len(stream) \in Nat
        /\ s + Size(item) <= Len(stream)
    BY <2>3, <2>4, ItemKinds DEF Places, StreamInv, PackTypes
  <2>6. ItemIndex = s /\ (NeedsFlags => inputIndex = g)
    BY <2>1, <2>4 DEF Parsed
  <2>7. ASSUME ~NeedsFlags \/ inputIndex < Len(input)
        PROVE  Flags = stream[g + 1] /\ (IsLiteral <=> IsLit(item))
    <3>1. Flags = stream[g + 1]
      <4>1. CASE NeedsFlags
        <5>1. g + 1 \in 1 .. Len(input)
          BY <2>5, <2>6, <2>7, <4>1 DEF StreamInv, ParseTypes
        <5>2. input[g + 1] = stream[g + 1]
          BY <5>1 DEF Packed
        <5> QED
          BY <2>6, <4>1, <5>2 DEF Flags
      <4>2. CASE ~NeedsFlags
        BY <2>1, <2>4, <4>2 DEF Flags, Parsed
      <4> QED
        BY <4>1, <4>2
    <3>2. FlagOf(Flags, Bit) = IF IsLit(item) THEN 1 ELSE 0
      BY <2>1, <2>3, <2>4, <3>1 DEF Holds, Parsed
    <3> QED
      BY <3>1, <3>2 DEF FlagOf, IsLiteral
  <2>8. NeedsFlags => inputIndex < Len(stream)
    BY <2>5, <2>6
  <2> QED
    BY <2>1, <2>4, <2>5, <2>6, <2>7, <2>8
<1> QED
  BY <1>1, <1>2

(* After an item Expand is at the next one's place.                        *)
LEMMA NextParsed ==
  ASSUME StreamInv, NEW L, LayoutOf(L), NEW k \in 0 .. Len(items) - 1, Parsed(L[k + 1]),
         Flags = stream[L[k + 1].group + 1],
         Reads(Size(items[k + 1])), stream' = stream
  PROVE  Parsed(L[k + 2])'
<1>1. PICK place, item : place = L[k + 1] /\ item = items[k + 1]
  OBVIOUS
<1>2. L[k + 2] = NextPlace(place, item)
  <2>1. k + 1 \in 1 .. Len(items) /\ (k + 1) + 1 = k + 2
    BY DEF StreamInv, PackTypes
  <2> QED
    BY <1>1, <2>1 DEF LayoutOf
<1>3. PICK end : end = place.start + Size(item)
  OBVIOUS
<1>4. flags' = stream[place.group + 1] /\ inputBit' = place.bit + 1 /\ inputIndex' = end
  BY <1>1, <1>3 DEF Reads, Parsed
<1>5. CASE place.bit + 1 = FlagBits
  <2>1. L[k + 2] = Place(end, 0, end + 1)
    BY <1>2, <1>3, <1>5 DEF NextPlace
  <2>2. NeedsFlags' /\ ItemIndex' = end + 1 /\ Bit' = 0
    BY <1>4, <1>5 DEF NeedsFlags, ItemIndex, Bit
  <2> QED
    BY <1>4, <2>1, <2>2 DEF Parsed, Place
<1>6. CASE place.bit + 1 # FlagBits
  <2>1. L[k + 2] = Place(place.group, place.bit + 1, end)
    BY <1>2, <1>3, <1>6 DEF NextPlace
  <2>2. ~NeedsFlags' /\ ItemIndex' = end /\ Bit' = place.bit + 1
    BY <1>4, <1>6 DEF NeedsFlags, ItemIndex, Bit
  <2> QED
    BY <1>4, <2>1, <2>2 DEF Parsed, Place
<1> QED
  BY <1>5, <1>6

(* Writing what the next item stands for.                                  *)
LEMMA NextDecoded ==
  ASSUME StreamInv, NEW k \in 0 .. Len(items) - 1, Decoded(k),
         NEW n \in Nat, NEW symbol, Grown(Expansions[k], n, symbol, Expansions[k + 1]),
         Writes(n, symbol), outputIndex + n <= Len(output), items' = items
  PROVE  Decoded(k + 1)'
<1>1. PICK out, grown : out = Expansions[k] /\ grown = Expansions[k + 1]
  OBVIOUS
<1>2. out \in Seq(Byte) /\ Grown(out, n, symbol, grown) /\ items \in Seq(Item)
  <2>1. items \in Seq(Item) /\ k \in 0 .. Len(items)
    BY DEF StreamInv, PackTypes
  <2> QED
    BY <1>1, <2>1, ExpansionsAreBytes
<1>3. /\ outputIndex = Len(out) /\ outputIndex \in Nat
      /\ \A i \in 1 .. outputIndex : output[i] = out[i]
      /\ WindowOf(out)
  BY <1>1 DEF Decoded, StreamInv, CopyTypes
<1>4. outputIndex' = Len(grown)
  BY <1>2, <1>3 DEF Writes, Grown
<1>5. ASSUME NEW i \in 1 .. outputIndex + n PROVE output'[i] = grown[i]
  <2>1. i \in 1 .. Len(output)
    BY <1>3 DEF StreamInv, CopyTypes
  <2>2. output'[i] = IF i \in outputIndex + 1 .. outputIndex + n
                     THEN symbol[i - outputIndex - 1] ELSE output[i]
    BY <2>1 DEF Writes
  <2>3. CASE i \in 1 .. outputIndex
    <3>1. i \notin outputIndex + 1 .. outputIndex + n
      BY <1>3, <2>3
    <3> QED
      BY <1>2, <1>3, <2>2, <2>3, <3>1 DEF Grown
  <2>4. CASE i \notin 1 .. outputIndex
    <3>1. /\ i \in outputIndex + 1 .. outputIndex + n
          /\ i - outputIndex - 1 \in 0 .. n - 1
          /\ outputIndex + 1 + (i - outputIndex - 1) = i
      BY <1>3, <2>4
    <3>2. grown[Len(out) + 1 + (i - outputIndex - 1)] = symbol[i - outputIndex - 1]
      BY <1>2, <3>1 DEF Grown
    <3> QED
      BY <1>3, <2>2, <3>1, <3>2
  <2> QED
    BY <2>3, <2>4
<1>6. WindowOf(grown)'
  <2>1. ASSUME NEW p \in Position PROVE window'[p] = SymbolAt(grown, p)
    <3>1. SymbolAt(grown, p) = IF ModWindow(p - currentPosition) < n
                               THEN symbol[ModWindow(p - currentPosition)] ELSE window[p]
      BY <1>2 DEF Grown
    <3> QED
      BY <3>1 DEF Writes
  <2>2. currentPosition' = ModWindow(1 + Len(grown))
    <3>1. ModWindow(ModWindow(1 + Len(out)) + n) = ModWindow((1 + Len(out)) + n)
      BY <1>2, WrappedTwice
    <3>2. (1 + Len(out)) + n = 1 + Len(grown)
      BY <1>2 DEF Grown
    <3> QED
      BY <1>3, <3>1, <3>2 DEF Writes, WindowOf
  <2> QED
    BY <2>1, <2>2 DEF WindowOf
<1>7. Expansions'[k + 1] = grown
  <2>1. Expansions' = Expansions
    BY DEF Expansions
  <2> QED
    BY <1>1, <2>1
<1>8. outputIndex' = outputIndex + n
  BY DEF Writes
<1> QED
  BY <1>4, <1>5, <1>6, <1>7, <1>8 DEF Decoded


(* A step of the loop that takes an item leaves the packed bytes alone.    *)
LEMMA StepKeepsPacked ==
  ASSUME NEW L, LayoutOf(L), Packed(L), UNCHANGED <<packVars, input>>
  PROVE  /\ LayoutOf(L)' /\ Packed(L)' /\ items' = items /\ stream' = stream
         /\ Expansions' = Expansions /\ Expansion' = Expansion
<1>1. items' = items /\ stream' = stream /\ input' = input
  BY DEF packVars
<1>2. LayoutOf(L)' /\ Packed(L)'
  BY <1>1 DEF LayoutOf, Packed
<1>3. Expansions' = Expansions /\ Expansion' = Expansion
  BY <1>1 DEF Expansions, Expansion
<1> QED
  BY <1>1, <1>2, <1>3

(* What is known in the loop, whose item is the k-th after 0.              *)
LEMMA InTheLoop ==
  ASSUME CodecInv, InLoop
  PROVE  \E L : \E k \in 0 .. Len(items) :
           /\ StreamInv /\ LayoutOf(L) /\ Packed(L) /\ Ended
           /\ Decoded(k) /\ Parsed(L[k + 1])
           /\ k = Len(items) => ItemIndex >= Len(input)
           /\ ItemIndex \in Nat /\ Len(input) \in Nat /\ Len(input) <= Len(stream)
           /\ outputIndex + remaining = outputSize /\ Len(output) = outputSize
           /\ outputIndex \in Nat /\ remaining \in Nat
           /\ items \in Seq(Item) /\ Len(items) \in Nat /\ Len(stream) \in Nat
<1>1. PICK L : CodecOf(L)
  BY DEF CodecInv
<1>2. phase = "expand" /\ remaining > 0 /\ StreamInv
  BY DEF InLoop, CodecInv
<1>3. LayoutOf(L) /\ Packed(L) /\ Ended
  BY <1>1, <1>2 DEF CodecOf, Expanding
<1>4. PICK k \in 0 .. Len(items) : Decoded(k) /\ Parsed(L[k + 1])
  BY <1>1, <1>2 DEF CodecOf, Expanding
<1>5. Len(input) <= Len(stream)
  BY <1>3 DEF Packed
<1>6. /\ Len(input) \in Nat /\ Len(stream) \in Nat /\ Len(items) \in Nat /\ items \in Seq(Item)
      /\ ItemIndex \in Nat /\ outputIndex \in Nat /\ remaining \in Nat
  BY <1>2 DEF StreamInv, PackTypes, ParseTypes, CopyTypes, ItemIndex
<1>7. outputIndex + remaining = outputSize /\ Len(output) = outputSize
  BY <1>2, <1>6 DEF StreamInv, OutputFits
<1>8. k = Len(items) => ItemIndex >= Len(input)
  <2>1. k = Len(items) => ItemIndex >= Len(stream)
    BY <1>2, <1>3, <1>4, AtItem
  <2> QED
    BY <2>1, <1>5, <1>6
<1> QED
  BY <1>2, <1>3, <1>4, <1>5, <1>6, <1>7, <1>8

LEMMA LiteralKeepsCodec ==
  ASSUME CodecInv, ExpandLiteral
  PROVE  CodecInv'
<1>1. StreamInv'
  BY LiteralKeepsInv DEF CodecInv
<1>2. /\ InLoop /\ ItemIndex < Len(input) /\ IsLiteral /\ Reads(1)
      /\ Writes(1, [i \in {0} |-> input[ItemIndex + 1]])
      /\ remaining' = remaining - 1 /\ phase' = phase /\ outputSize' = outputSize
      /\ UNCHANGED <<packVars, input>>
  BY DEF ExpandLiteral
<1>0. PICK L : \E k \in 0 .. Len(items) :
        /\ StreamInv /\ LayoutOf(L) /\ Packed(L) /\ Ended
        /\ Decoded(k) /\ Parsed(L[k + 1])
        /\ k = Len(items) => ItemIndex >= Len(input)
        /\ ItemIndex \in Nat /\ Len(input) \in Nat /\ Len(input) <= Len(stream)
        /\ outputIndex + remaining = outputSize /\ Len(output) = outputSize
        /\ outputIndex \in Nat /\ remaining \in Nat
        /\ items \in Seq(Item) /\ Len(items) \in Nat /\ Len(stream) \in Nat
  BY <1>2, InTheLoop
<1>3. PICK k \in 0 .. Len(items) :
        /\ StreamInv /\ LayoutOf(L) /\ Packed(L) /\ Ended
        /\ Decoded(k) /\ Parsed(L[k + 1])
        /\ k = Len(items) => ItemIndex >= Len(input)
        /\ ItemIndex \in Nat /\ Len(input) \in Nat /\ Len(input) <= Len(stream)
        /\ outputIndex + remaining = outputSize /\ Len(output) = outputSize
        /\ outputIndex \in Nat /\ remaining \in Nat
        /\ items \in Seq(Item) /\ Len(items) \in Nat /\ Len(stream) \in Nat
  BY <1>0
<1>4. k < Len(items) /\ k \in 0 .. Len(items) - 1 /\ k + 1 \in 1 .. Len(items)
  BY <1>2, <1>3
<1>5. PICK item : item = items[k + 1]
  OBVIOUS
<1>6. ~NeedsFlags \/ inputIndex < Len(input)
  BY <1>2, <1>3 DEF ItemIndex, StreamInv, ParseTypes
<1>7. IsLit(item) /\ Flags = stream[L[k + 1].group + 1]
  BY <1>2, <1>3, <1>4, <1>5, <1>6, AtItem
<1>8. item \in Item /\ Size(item) = 1 /\ item.literal \in Byte
  BY <1>3, <1>4, <1>5, <1>7, ItemKinds DEF Size
<1>9. LayoutOf(L)' /\ Packed(L)' /\ items' = items /\ stream' = stream
      /\ Expansion' = Expansion
  BY <1>2, <1>3, StepKeepsPacked
<1>10. Parsed(L[k + 2])'
  BY <1>2, <1>3, <1>4, <1>5, <1>7, <1>8, <1>9, NextParsed
<1>11. input[ItemIndex + 1] = item.literal
  <2>1. ItemIndex + 1 \in 1 .. Len(input)
    BY <1>2, <1>3
  <2>2. input[ItemIndex + 1] = stream[ItemIndex + 1]
    BY <2>1, <1>3 DEF Packed
  <2>3. ItemIndex = L[k + 1].start
    BY <1>3 DEF Parsed
  <2>4. stream[L[k + 1].start + 1] = item.literal
    BY <1>3, <1>4, <1>5, <1>7 DEF Packed, Holds
  <2> QED
    BY <2>2, <2>3, <2>4
<1>12. PICK symbol : symbol = [i \in {0} |-> input[ItemIndex + 1]]
  OBVIOUS
<1>13. symbol[0] = item.literal /\ Writes(1, symbol)
  BY <1>2, <1>11, <1>12
<1>14. Grown(Expansions[k], 1, symbol, Expansions[k + 1])
  <2>1. Expansions[k] \in Seq(Byte) /\ WindowOf(Expansions[k])
    BY <1>3, ExpansionsAreBytes DEF Decoded
  <2>2. (k + 1) - 1 = k
    BY <1>4
  <2>3. Expansions[k + 1] = Append(Expansions[k], item.literal)
    BY <1>3, <1>4, <1>5, <1>7, <2>2, ExpansionsUnfold
  <2>4. Grown(Expansions[k], 0, symbol, Expansions[k])
    BY <2>1, GrownByNothing
  <2>5. 0 < WindowSize /\ 0 \in Nat /\ 0 + 1 = 1
    BY WindowIsLarge
  <2>6. Grown(Expansions[k], 0 + 1, symbol, Append(Expansions[k], symbol[0]))
    BY <1>8, <1>13, <2>1, <2>4, <2>5, GrownByOne
  <2> QED
    BY <1>13, <2>3, <2>5, <2>6
<1>15. Decoded(k + 1)'
  <2>1. outputIndex + 1 <= Len(output) /\ 1 \in Nat
    BY <1>2, <1>3 DEF InLoop
  <2> QED
    BY <2>1, <1>3, <1>4, <1>9, <1>13, <1>14, NextDecoded
<1>16. Ended'
  <2>1. outputIndex' = outputIndex + 1
    BY <1>2 DEF Writes
  <2>2. outputIndex' + remaining' = outputSize'
    BY <2>1, <1>2, <1>3
  <2>3. outputIndex' \in Nat /\ phase' = "expand"
    BY <2>1, <1>2, <1>3 DEF InLoop
  <2> QED
    BY <2>2, <2>3 DEF Ended
<1>17. Expanding(L)'
  <2>1. (k + 1) + 1 = k + 2 /\ k + 1 \in 0 .. Len(items')
    BY <1>4, <1>9
  <2> QED
    BY <2>1, <1>9, <1>10, <1>15, <1>16 DEF Expanding
<1>18. phase' # "compress"
  BY <1>2 DEF InLoop
<1> QED
  BY <1>1, <1>9, <1>17, <1>18 DEF CodecInv, CodecOf

LEMMA PairKeepsCodec ==
  ASSUME CodecInv, ExpandPair
  PROVE  CodecInv'
<1>1. StreamInv'
  BY PairKeepsInv DEF CodecInv
<1>2. /\ InLoop /\ ItemIndex + 1 < Len(input) /\ ~IsLiteral /\ Reads(2) /\ TakesPair
      /\ phase' = phase /\ outputSize' = outputSize
      /\ UNCHANGED <<packVars, input>>
  BY DEF ExpandPair
<1>0. PICK L : \E k \in 0 .. Len(items) :
        /\ StreamInv /\ LayoutOf(L) /\ Packed(L) /\ Ended
        /\ Decoded(k) /\ Parsed(L[k + 1])
        /\ k = Len(items) => ItemIndex >= Len(input)
        /\ ItemIndex \in Nat /\ Len(input) \in Nat /\ Len(input) <= Len(stream)
        /\ outputIndex + remaining = outputSize /\ Len(output) = outputSize
        /\ outputIndex \in Nat /\ remaining \in Nat
        /\ items \in Seq(Item) /\ Len(items) \in Nat /\ Len(stream) \in Nat
  BY <1>2, InTheLoop
<1>3. PICK k \in 0 .. Len(items) :
        /\ StreamInv /\ LayoutOf(L) /\ Packed(L) /\ Ended
        /\ Decoded(k) /\ Parsed(L[k + 1])
        /\ k = Len(items) => ItemIndex >= Len(input)
        /\ ItemIndex \in Nat /\ Len(input) \in Nat /\ Len(input) <= Len(stream)
        /\ outputIndex + remaining = outputSize /\ Len(output) = outputSize
        /\ outputIndex \in Nat /\ remaining \in Nat
        /\ items \in Seq(Item) /\ Len(items) \in Nat /\ Len(stream) \in Nat
  BY <1>0
<1>4. k < Len(items) /\ k \in 0 .. Len(items) - 1 /\ k + 1 \in 1 .. Len(items)
  BY <1>2, <1>3
<1>5. PICK item : item = items[k + 1]
  OBVIOUS
<1>6. ~NeedsFlags \/ inputIndex < Len(input)
  BY <1>2, <1>3 DEF ItemIndex, StreamInv, ParseTypes
<1>7. ~IsLit(item) /\ Flags = stream[L[k + 1].group + 1]
  BY <1>2, <1>3, <1>4, <1>5, <1>6, AtItem
<1>8. item \in Item /\ Size(item) = 2 /\ item.pair \in Pairs
  BY <1>3, <1>4, <1>5, <1>7, ItemKinds DEF Size
<1>9. LayoutOf(L)' /\ Packed(L)' /\ items' = items /\ stream' = stream
      /\ Expansions' = Expansions /\ Expansion' = Expansion
  BY <1>2, <1>3, StepKeepsPacked
<1>10. Parsed(L[k + 2])'
  BY <1>2, <1>3, <1>4, <1>5, <1>7, <1>8, <1>9, NextParsed
<1>11. MatchLength = item.pair.length + BreakEven /\ MatchPosition = item.pair.position
  <2>1. ItemIndex + 1 \in 1 .. Len(input) /\ ItemIndex + 2 \in 1 .. Len(input)
    BY <1>2, <1>3
  <2>2. /\ input[ItemIndex + 1] = stream[ItemIndex + 1]
        /\ input[ItemIndex + 2] = stream[ItemIndex + 2]
    BY <2>1, <1>3 DEF Packed
  <2>3. ItemIndex = L[k + 1].start
    BY <1>3 DEF Parsed
  <2>4. /\ stream[L[k + 1].start + 1] = HighByte(item.pair)
        /\ stream[L[k + 1].start + 2] = LowByte(item.pair)
    BY <1>3, <1>4, <1>5, <1>7 DEF Packed, Holds
  <2>5. input[ItemIndex + 1] = HighByte(item.pair) /\ input[ItemIndex + 2] = LowByte(item.pair)
    BY <2>2, <2>3, <2>4
  <2> QED
    BY <1>8, <2>5, PairBytes DEF MatchLength, MatchPosition
<1>12. PICK n, from : n = item.pair.length + BreakEven + 1 /\ from = item.pair.position
  OBVIOUS
<1>13. n \in Nat /\ n > 0 /\ n <= WindowSize /\ from \in Position /\ MatchLength + 1 = n
       /\ MatchPosition = from /\ MatchLength \in Nat
  <2>1. item.pair.length \in Nat /\ from \in Position /\ n <= WindowSize
    BY <1>8, <1>12, PairsAssumption, MatchesAssumption
  <2>2. BreakEven \in Nat /\ n = item.pair.length + BreakEven + 1
    BY <1>12, BoundsAssumption
  <2>3. n \in Nat /\ n > 0 /\ item.pair.length + BreakEven \in Nat
        /\ (item.pair.length + BreakEven) + 1 = n
    BY <2>1, <2>2
  <2> QED
    BY <2>1, <2>3, <1>11, <1>12
<1>14. Expansions[k] \in Seq(Byte) /\ Expansions[k + 1] \in Seq(Byte)
  <2>1. k + 1 \in 0 .. Len(items)
    BY <1>4
  <2> QED
    BY <2>1, <1>3, ExpansionsAreBytes
<1>15. Expansions[k + 1] = Extended(Expansions[k], from, n)
  <2>1. (k + 1) - 1 = k
    BY <1>4
  <2> QED
    BY <2>1, <1>3, <1>4, <1>5, <1>7, <1>12, ExpansionsUnfold
<1>16. Grown(Expansions[k], n, Copied(from, n), Expansions[k + 1])
  <2>1. WindowOf(Expansions[k]) /\ window \in [Position -> Byte]
    BY <1>3 DEF Decoded, StreamInv, CopyTypes
  <2>2. Grown(Expansions[k], n, Copied(from, n), Extended(Expansions[k], from, n))
    BY <1>13, <1>14, <2>1, CopiedIsExtended
  <2> QED
    BY <1>15, <2>2
<1>17. phase' = "expand" /\ phase = "expand"
  BY <1>2 DEF InLoop
<1>18. CASE MatchLength < remaining
  <2>1. Writes(n, Copied(from, n)) /\ remaining' = remaining - n
    BY <1>2, <1>3, <1>13, <1>18 DEF TakesPair
  <2>2. outputIndex + n <= Len(output)
    BY <1>3, <1>13, <1>18
  <2>3. Decoded(k + 1)'
    BY <1>3, <1>4, <1>9, <1>13, <1>16, <2>1, <2>2, NextDecoded
  <2>4. Ended'
    <3>1. outputIndex' = outputIndex + n
      BY <2>1 DEF Writes
    <3>2. outputIndex' + remaining' = outputSize' /\ outputIndex' \in Nat
      BY <3>1, <2>1, <1>2, <1>3, <1>13
    <3> QED
      BY <3>2, <1>17 DEF Ended
  <2>5. Expanding(L)'
    <3>1. (k + 1) + 1 = k + 2 /\ k + 1 \in 0 .. Len(items')
      BY <1>4, <1>9
    <3> QED
      BY <3>1, <1>9, <1>10, <2>3, <2>4 DEF Expanding
  <2> QED
    BY <1>1, <1>9, <1>17, <2>5 DEF CodecInv, CodecOf
<1>19. CASE MatchLength >= remaining
  <2>1. remaining' = 0 /\ UNCHANGED <<output, outputIndex, window, currentPosition>>
    BY <1>2, <1>3, <1>13, <1>19 DEF TakesPair
  <2>2. Decoded(k)'
    BY <1>3, <1>9, <2>1 DEF Decoded, WindowOf
  <2>3. outputSize < Len(Expansion)
    <3>1. Len(Expansions[k + 1]) = Len(Expansions[k]) + n
      BY <1>16 DEF Grown
    <3>2. Len(Expansions[k]) = outputIndex
      BY <1>3 DEF Decoded
    <3>3. Len(Expansions[k + 1]) <= Len(Expansion) /\ Len(Expansion) \in Nat
      <4>1. k + 1 \in 0 .. Len(items)
        BY <1>4
      <4> QED
        BY <4>1, <1>3, ExpansionsGrow DEF Beginning
    <3> QED
      BY <3>1, <3>2, <3>3, <1>3, <1>13, <1>19
  <2>4. Ended'
    BY <2>1, <2>3, <1>2, <1>9, <1>17 DEF Ended
  <2>5. Expanding(L)'
    <3>1. ~InLoop'
      BY <2>1 DEF InLoop
    <3>2. k \in 0 .. Len(items')
      BY <1>9
    <3> QED
      BY <3>1, <3>2, <1>9, <2>2, <2>4 DEF Expanding
  <2> QED
    BY <1>1, <1>9, <1>17, <2>5 DEF CodecInv, CodecOf
<1> QED
  BY <1>3, <1>13, <1>18, <1>19


(* The end of the input before the output is full means that the input was *)
(* cut, or that the items stand for less than the size.                    *)
LEMMA EndKeepsCodec ==
  ASSUME CodecInv, UnexpectedEnd
  PROVE  CodecInv'
<1>1. StreamInv'
  BY EndKeepsInv DEF CodecInv
<1>2. /\ InLoop /\ phase = "expand" /\ phase' = "error"
      /\ UNCHANGED <<packVars, input, outputSize, parseVars, copyVars>>
      /\ \/ NeedsFlags /\ inputIndex >= Len(input)
         \/ /\ ~NeedsFlags \/ inputIndex < Len(input)
            /\ IF IsLiteral THEN ItemIndex >= Len(input) ELSE ItemIndex + 1 >= Len(input)
  <2>1. inputIndex \in Nat /\ Len(input) \in Nat
    BY DEF CodecInv, StreamInv, ParseTypes
  <2> QED
    BY <2>1 DEF UnexpectedEnd, InLoop
<1>0. PICK L : \E k \in 0 .. Len(items) :
        /\ StreamInv /\ LayoutOf(L) /\ Packed(L) /\ Ended
        /\ Decoded(k) /\ Parsed(L[k + 1])
        /\ k = Len(items) => ItemIndex >= Len(input)
        /\ ItemIndex \in Nat /\ Len(input) \in Nat /\ Len(input) <= Len(stream)
        /\ outputIndex + remaining = outputSize /\ Len(output) = outputSize
        /\ outputIndex \in Nat /\ remaining \in Nat
        /\ items \in Seq(Item) /\ Len(items) \in Nat /\ Len(stream) \in Nat
  BY <1>2, InTheLoop
<1>3. PICK k \in 0 .. Len(items) :
        /\ StreamInv /\ LayoutOf(L) /\ Packed(L) /\ Ended
        /\ Decoded(k) /\ Parsed(L[k + 1])
        /\ k = Len(items) => ItemIndex >= Len(input)
        /\ ItemIndex \in Nat /\ Len(input) \in Nat /\ Len(input) <= Len(stream)
        /\ outputIndex + remaining = outputSize /\ Len(output) = outputSize
        /\ outputIndex \in Nat /\ remaining \in Nat
        /\ items \in Seq(Item) /\ Len(items) \in Nat /\ Len(stream) \in Nat
  BY <1>0
<1>4. LayoutOf(L)' /\ Packed(L)' /\ items' = items /\ stream' = stream
      /\ Expansions' = Expansions /\ Expansion' = Expansion
  BY <1>2, <1>3, StepKeepsPacked
<1>5. ASSUME input = stream PROVE outputSize > Len(Expansion)
  <2>1. k = Len(items)
    <3> SUFFICES ASSUME k # Len(items) PROVE FALSE
      OBVIOUS
    <3>1. k < Len(items) /\ k + 1 \in 1 .. Len(items)
      BY <1>3
    <3>2. PICK item : item = items[k + 1]
      OBVIOUS
    <3>3. item \in Item
      BY <1>3, <3>1, <3>2
    <3>4. /\ ItemIndex + Size(item) <= Len(stream)
          /\ NeedsFlags => inputIndex < Len(stream)
          /\ ~NeedsFlags \/ inputIndex < Len(input) => (IsLiteral <=> IsLit(item))
      BY <1>3, <3>1, <3>2, AtItem
    <3>5. inputIndex \in Nat
      BY <1>3 DEF StreamInv, ParseTypes
    <3>6. ~(NeedsFlags /\ inputIndex >= Len(input))
      BY <1>3, <1>5, <3>4, <3>5
    <3>7. CASE IsLit(item)
      BY <1>2, <1>3, <1>5, <3>4, <3>6, <3>7 DEF Size
    <3>8. CASE ~IsLit(item)
      BY <1>2, <1>3, <1>5, <3>4, <3>6, <3>8 DEF Size
    <3> QED
      BY <3>7, <3>8
  <2>2. outputIndex = Len(Expansion)
    BY <1>3, <2>1 DEF Decoded, Expansion
  <2>3. remaining > 0
    BY <1>2 DEF InLoop
  <2> QED
    BY <1>3, <2>2, <2>3
<1>6. Len(Expansion) \in Nat
  BY <1>3, ExpansionsGrow
<1>7. Ended'
  <2>1. input' = input /\ outputSize' = outputSize
    BY <1>2
  <2>2. outputSize > Len(Expansion) => outputSize \notin 0 .. Len(Expansion)
    BY <1>3, <1>6
  <2> QED
    BY <2>1, <2>2, <1>2, <1>4, <1>5 DEF Ended
<1>8. Decoded(k)'
  BY <1>2, <1>3, <1>4 DEF Decoded, WindowOf, copyVars
<1>9. ~InLoop' /\ k \in 0 .. Len(items')
  BY <1>2, <1>4 DEF InLoop
<1>10. Expanding(L)'
  BY <1>4, <1>7, <1>8, <1>9 DEF Expanding
<1> QED
  BY <1>1, <1>2, <1>4, <1>10 DEF CodecInv, CodecOf

LEMMA ReturnKeepsCodec ==
  ASSUME CodecInv, Return
  PROVE  CodecInv'
<1>1. StreamInv'
  BY EndKeepsInv DEF CodecInv
<1>2. /\ phase = "expand" /\ phase' = "ok" /\ remaining = 0
      /\ UNCHANGED <<packVars, input, outputSize, parseVars, copyVars>>
  BY DEF Return
<1>3. PICK L : LayoutOf(L) /\ Packed(L) /\ Ended /\ \E k \in 0 .. Len(items) : Decoded(k)
  BY <1>2 DEF CodecInv, CodecOf, Expanding
<1>4. PICK k \in 0 .. Len(items) : Decoded(k)
  BY <1>3
<1>5. LayoutOf(L)' /\ Packed(L)' /\ items' = items /\ Expansions' = Expansions
      /\ Expansion' = Expansion
  BY <1>2, <1>3, StepKeepsPacked
<1>6. /\ outputSize' = outputSize /\ outputIndex' = outputIndex /\ remaining' = remaining
      /\ output' = output /\ window' = window /\ currentPosition' = currentPosition
  BY <1>2 DEF copyVars
<1>7. Decoded(k)'
  BY <1>4, <1>5, <1>6 DEF Decoded, WindowOf
<1>8. Ended'
  BY <1>2, <1>3, <1>5, <1>6 DEF Ended
<1>9. ~InLoop' /\ k \in 0 .. Len(items')
  BY <1>2, <1>5 DEF InLoop
<1>10. Expanding(L)'
  BY <1>5, <1>7, <1>8, <1>9 DEF Expanding
<1> QED
  BY <1>1, <1>2, <1>5, <1>10 DEF CodecInv, CodecOf

LEMMA StutterKeepsCodec ==
  ASSUME CodecInv, UNCHANGED vars
  PROVE  CodecInv'
<1>1. StreamInv'
  BY EndKeepsInv DEF CodecInv
<1>2. PICK L : CodecOf(L)
  BY DEF CodecInv
<1>3. /\ phase' = phase /\ items' = items /\ stream' = stream /\ input' = input
      /\ outputSize' = outputSize /\ dataBuffer' = dataBuffer /\ bufferOffset' = bufferOffset
      /\ flagBit' = flagBit /\ incOutputString' = incOutputString
      /\ flags' = flags /\ inputBit' = inputBit /\ inputIndex' = inputIndex
      /\ window' = window /\ currentPosition' = currentPosition /\ output' = output
      /\ outputIndex' = outputIndex /\ remaining' = remaining
  BY DEF vars, packVars, parseVars, copyVars
<1>4. Expansions' = Expansions /\ Expansion' = Expansion
  BY <1>3 DEF Expansions, Expansion
<1>5. LayoutOf(L)'
  BY <1>2, <1>3 DEF CodecOf, LayoutOf
<1>6. CASE phase = "compress"
  <2>1. Packing(L)
    BY <1>2, <1>6 DEF CodecOf
  <2>2. Packing(L)'
    BY <2>1, <1>3 DEF Packing, Inside, Buffered, WithBuffer
  <2> QED
    BY <1>1, <1>3, <1>5, <1>6, <2>2 DEF CodecInv, CodecOf
<1>7. CASE phase # "compress"
  <2>1. Packed(L) /\ Ended
    BY <1>2, <1>7 DEF CodecOf, Expanding
  <2>2. PICK k \in 0 .. Len(items) : Decoded(k) /\ (InLoop => Parsed(L[k + 1]))
    BY <1>2, <1>7 DEF CodecOf, Expanding
  <2>3. Packed(L)' /\ Ended'
    BY <2>1, <1>3, <1>4 DEF Packed, Ended
  <2>4. Decoded(k)'
    BY <2>2, <1>3, <1>4 DEF Decoded, WindowOf
  <2>5. InLoop' => Parsed(L[k + 1])'
    BY <2>2, <1>3 DEF InLoop, Parsed, ItemIndex, Bit, NeedsFlags
  <2>6. Expanding(L)'
    BY <2>3, <2>4, <2>5, <1>3 DEF Expanding
  <2> QED
    BY <1>1, <1>3, <1>5, <1>7, <2>6 DEF CodecInv, CodecOf
<1> QED
  BY <1>6, <1>7

(* Nothing is packed yet: the one place is the first item's.               *)
LEMMA InitialCodec ==
  ASSUME Init, StreamInv
  PROVE  CodecInv
<1>1. /\ items = <<>> /\ Len(items) = 0 /\ stream = <<>> /\ Len(stream) = 0
      /\ phase = "compress" /\ flagBit = 0 /\ bufferOffset = 1
  BY DEF Init
<1>2. incOutputString = FALSE
  BY DEF Init
<1>3. PICK L : L = [i \in 1 .. 1 |-> Place(0, 0, 1)]
  OBVIOUS
<1>4. Place(0, 0, 1) \in Places
  BY FlagBitsAssumption DEF Place, Places
<1>5. L \in [1 .. 1 -> Places] /\ L[1] = Place(0, 0, 1)
  BY <1>3, <1>4
<1>6. LayoutOf(L)
  BY <1>1, <1>5 DEF LayoutOf
<1>7. Packing(L)
  BY <1>1, <1>2, <1>5 DEF Packing
<1> QED
  BY <1>1, <1>6, <1>7 DEF CodecInv, CodecOf

LEMMA CodecInvariant == Spec => []CodecInv
<1>1. Init /\ StreamInv => CodecInv
  BY InitialCodec
<1>2. CodecInv /\ [Next]_vars => CodecInv'
  <2> SUFFICES ASSUME CodecInv, [Next]_vars PROVE CodecInv'
    OBVIOUS
  <2>1. ASSUME NEW length \in 0 .. Len(Compressed),
               NEW size \in -1 .. Len(Expansion) + 1, Expand(length, size)
        PROVE CodecInv'
    <3>1. size \in Int
      <4>1. Len(Expansion) \in Nat
        <5>1. items \in Seq(Item) /\ 0 \in 0 .. Len(items)
          BY DEF CodecInv, StreamInv, PackTypes
        <5> QED
          BY <5>1, ExpansionsGrow
      <4> QED
        BY <4>1
    <3> QED
      BY <2>1, <3>1, ExpandKeepsCodec
  <2> QED
    BY <2>1, OutputKeepsCodec, LiteralKeepsCodec, PairKeepsCodec, EndKeepsCodec,
       ReturnKeepsCodec, StutterKeepsCodec DEF Next
<1> QED
  BY <1>1, <1>2, StreamInvariant, PTL DEF Spec

(* Whatever the packed bytes are cut to and whatever size is asked for,    *)
(* Expand has written a beginning of what the literals and pairs stand for,*)
(* and copied it through the window byte by byte (Compress, Expand).       *)
THEOREM PrefixIsExpanded == Spec => []PrefixExpanded
<1>1. CodecInv => PrefixExpanded
  <2> SUFFICES ASSUME CodecInv PROVE PrefixExpanded
    OBVIOUS
  <2>1. items \in Seq(Item) /\ 0 \in 0 .. Len(items)
    BY DEF CodecInv, StreamInv, PackTypes
  <2>2. Len(Expansion) \in Nat
    BY <2>1, ExpansionsGrow
  <2>3. CASE phase = "compress"
    <3>1. outputIndex = 0
      BY <2>3 DEF CodecInv, StreamInv, NotStarted
    <3> QED
      BY <2>2, <3>1 DEF PrefixExpanded
  <2>4. CASE phase # "compress"
    <3>1. PICK k \in 0 .. Len(items) : Decoded(k)
      BY <2>4 DEF CodecInv, CodecOf, Expanding
    <3>2. Beginning(Expansions[k], Expansion)
      BY <2>1, ExpansionsGrow
    <3> QED
      BY <3>1, <3>2 DEF Decoded, Beginning, PrefixExpanded
  <2> QED
    BY <2>3, <2>4
<1> QED
  BY CodecInvariant, <1>1, PTL

(* All that Compress put out is expanded without an error, whatever group  *)
(* it ends in, and in full when the size is right; an error means an input *)
(* that was cut or a size it cannot fill (Compress, Expand).               *)
THEOREM WholeIsExpanded == Spec => []WholeExpanded
<1>1. CodecInv => WholeExpanded
  <2> SUFFICES ASSUME CodecInv, phase \in {"ok", "error"}, input = stream,
                      outputSize \in 0 .. Len(Expansion)
               PROVE  phase = "ok" /\ (outputSize = Len(Expansion) => output = Expansion)
    BY DEF WholeExpanded
  <2>1. items \in Seq(Item)
    BY DEF CodecInv, StreamInv, PackTypes
  <2>2. PICK k \in 0 .. Len(items) : Decoded(k) /\ Ended
    BY DEF CodecInv, CodecOf, Expanding
  <2>3. phase = "ok" /\ remaining = 0
    BY <2>2 DEF Ended
  <2>4. ASSUME outputSize = Len(Expansion) PROVE output = Expansion
    <3>1. outputIndex \in Nat /\ output \in Seq(Byte) /\ Len(output) = outputSize
      BY <2>3 DEF CodecInv, StreamInv, CopyTypes, OutputFits
    <3>2. outputIndex = outputSize
      <4>1. outputIndex = outputSize \/ outputIndex < outputSize
        BY <2>3, <3>1 DEF CodecInv, StreamInv, OutputFits
      <4>2. ~(outputIndex < outputSize)
        BY <2>2, <2>3, <2>4, <3>1 DEF Ended
      <4> QED
        BY <4>1, <4>2
    <3>3. Expansion \in Seq(Byte) /\ Beginning(Expansions[k], Expansion)
      BY <2>1, ExpansionsGrow
    <3>4. \A i \in 1 .. Len(output) : output[i] = Expansion[i]
      BY <2>2, <3>1, <3>2, <3>3 DEF Decoded, Beginning
    <3>5. Len(output) = Len(Expansion)
      BY <2>4, <3>1
    <3> QED
      BY <3>1, <3>3, <3>4, <3>5
  <2> QED
    BY <2>3, <2>4
<1> QED
  BY CodecInvariant, <1>1, PTL
=============================================================================
