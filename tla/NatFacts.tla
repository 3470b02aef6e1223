------------------------------ MODULE NatFacts ------------------------------
(***************************************************************************)
(* Facts about numbers that several proofs use: the least element of a     *)
(* set, induction on an interval, and % for the two circular buffers of    *)
(* the kernel module (the event log and the QEMU byte ring), which index a *)
(* slot with  counter % SIZE  where counter is a free-running 32-bit       *)
(* unsigned that wraps at 2^32.                                            *)
(***************************************************************************)
EXTENDS Integers, WellFoundedInduction, TLAPS

\* A set of natural numbers has a least element.
LEMMA LeastNat ==
  ASSUME NEW S, S \subseteq Nat, S # {}
  PROVE  \E n \in S : \A m \in S : n <= m
<1>1. PICK n \in S : \A m \in S : ~ (<<m, n>> \in OpToRel(<, Nat))
  BY NatLessThanWellFounded, WFMin
<1>2. \A m \in S : ~ (m < n)
  BY <1>1, Zenon DEF OpToRel
<1> QED BY <1>2, SMT

\* The number before a number other than zero.
LEMMA Predecessor ==
  \A n \in Nat : n # 0 => n - 1 \in Nat /\ (n - 1) + 1 = n /\ ~ (n <= n - 1)
BY SMT

\* Induction on the numbers from m to n: those in S are all of them.
LEMMA Upwards ==
  ASSUME NEW m \in Nat, NEW n \in Nat, NEW S, m \in S,
         \A j \in m + 1 .. n : j - 1 \in S => j \in S
  PROVE  \A j \in m .. n : j \in S
<1> DEFINE bad == {j \in m .. n : j \notin S}
<1>1. bad \subseteq Nat
  BY SMT
<1>2. ASSUME bad # {} PROVE FALSE
  <2>1. PICK j \in bad : \A i \in bad : j <= i
    BY <1>1, <1>2, LeastNat
  <2>2. j \in m + 1 .. n /\ j - 1 \in m .. n /\ ~ (j <= j - 1)
    BY SMT
  <2>3. j - 1 \in S
    BY <2>1, <2>2
  <2> QED BY <2>1, <2>2, <2>3
<1> QED BY <1>2

\* A multiple of s strictly between -s and s is zero.
LEMMA SmallMultiple ==
  ASSUME NEW s \in Nat \ {0}, NEW k \in Int, -s < k * s, k * s < s
  PROVE  k = 0
<1>1. CASE k >= 1
  <2>1. k * s >= s
    BY <1>1, SMT
  <2> QED BY <2>1, SMT
<1>2. CASE k <= -1
  <2>1. k * s <= -s
    BY <1>2, SMT
  <2> QED BY <2>1, SMT
<1> QED BY <1>1, <1>2, SMT

\* The division theorem: x is a multiple of s plus its remainder.
LEMMA DivMod ==
  ASSUME NEW s \in Nat \ {0}, NEW x \in Int
  PROVE  /\ x % s \in 0 .. s - 1
         /\ \E q \in Int : x = q * s + (x % s)
<1>1. x % s \in 0 .. s - 1 /\ x \div s \in Int
  BY SMT
<1>2. x = (x \div s) * s + (x % s)
  BY SMT
<1> QED BY <1>1, <1>2

\* The remainder is the only number in 0..s-1 that differs from x by a
\* multiple of s.
LEMMA ModUnique ==
  ASSUME NEW s \in Nat \ {0}, NEW x \in Int, NEW q \in Int, NEW r \in 0 .. s - 1,
         x = q * s + r
  PROVE  x % s = r
<1>1. PICK p \in Int : x = p * s + (x % s)
  BY DivMod
<1>2. x % s \in 0 .. s - 1
  BY DivMod
<1>3. (p - q) * s = r - (x % s)
  BY <1>1, <1>2, SMT
<1>4. p - q = 0
  <2> DEFINE k == p - q
  <2>1. k \in Int /\ -s < k * s /\ k * s < s
    BY <1>2, <1>3, SMT
  <2> HIDE DEF k
  <2>2. k = 0
    BY <2>1, SmallMultiple
  <2> QED BY <2>2 DEF k
<1> QED BY <1>3, <1>4, <1>2, SMT

\* Numbers that differ by a multiple of s have the same remainder.
LEMMA ModCongruent ==
  ASSUME NEW s \in Nat \ {0}, NEW x \in Int, NEW y \in Int, NEW k \in Int,
         x = y + k * s
  PROVE  x % s = y % s
<1>1. PICK q \in Int : y = q * s + (y % s)
  BY DivMod
<1>2. y % s \in 0 .. s - 1
  BY DivMod
<1>3. x = (q + k) * s + (y % s)
  BY <1>1, <1>2, SMT
<1>4. PICK n \in Int : n = q + k
  BY SMT
<1>5. x = n * s + (y % s)
  BY <1>3, <1>4
<1> QED BY <1>2, <1>5, ModUnique

\* A number already in 0..s-1 is its own remainder.
LEMMA ModSmall ==
  ASSUME NEW s \in Nat \ {0}, NEW x \in 0 .. s - 1
  PROVE  x % s = x
<1>1. x = 0 * s + x
  BY SMT
<1> QED BY <1>1, ModUnique

\* Adding to a remainder and reducing again is adding and reducing once.
LEMMA ModShift ==
  ASSUME NEW s \in Nat \ {0}, NEW x \in Int, NEW d \in Int
  PROVE  ((x % s) + d) % s = (x + d) % s
<1>1. PICK q \in Int : x = q * s + (x % s)
  BY DivMod
<1>2. x % s \in Int
  BY DivMod
<1>3. PICK y \in Int : y = (x % s) + d
  BY <1>2, SMT
<1>4. PICK z \in Int : z = x + d
  BY SMT
<1>5. z = y + q * s
  BY <1>1, <1>2, <1>3, <1>4, SMT
<1>6. z % s = y % s
  BY <1>5, ModCongruent
<1> QED BY <1>3, <1>4, <1>6

\* Reducing by a multiple of s first does not change the remainder by s:
\* a counter that wraps at m still indexes the slot it would index unwrapped.
LEMMA ModWrap ==
  ASSUME NEW s \in Nat \ {0}, NEW m \in Nat \ {0}, m % s = 0, NEW x \in Int
  PROVE  (x % m) % s = x % s
<1> m \in Int
  BY SMT
<1>1. PICK c \in Int : m = c * s + (m % s)
  BY DivMod
<1>2. PICK q \in Int : x = q * m + (x % m)
  BY DivMod
<1>3. PICK y \in Int : y = x % m
  BY DivMod
<1>4. PICK k \in Int : k = q * c
  BY SMT
<1>5. m = c * s
  BY <1>1, SMT
<1>6. x = y + k * s
  BY <1>2, <1>3, <1>4, <1>5, SMT
<1>7. x % s = y % s
  BY <1>6, ModCongruent, ZenonT(40)
<1> QED BY <1>3, <1>7

\* The slot d places after a counter that wraps at a multiple of s.
LEMMA ModWrapShift ==
  ASSUME NEW s \in Nat \ {0}, NEW m \in Nat \ {0}, m % s = 0,
         NEW x \in Int, NEW d \in Int
  PROVE  ((x % m) + d) % s = (x + d) % s
<1>1. PICK y \in Int : y = x % m
  BY DivMod
<1>2. y % s = x % s
  BY <1>1, ModWrap
<1>3. (y + d) % s = ((y % s) + d) % s
  BY ModShift
<1>4. (x + d) % s = ((x % s) + d) % s
  BY ModShift
<1> QED BY <1>1, <1>2, <1>3, <1>4

\* Two numbers less than s apart with the same remainder are equal: a window
\* of s consecutive counters touches every slot once.
LEMMA ModInjective ==
  ASSUME NEW s \in Nat \ {0}, NEW x \in Int, NEW y \in Int,
         -s < x - y, x - y < s, x % s = y % s
  PROVE  x = y
<1>1. PICK p \in Int : x = p * s + (x % s)
  BY DivMod
<1>2. PICK q \in Int : y = q * s + (y % s)
  BY DivMod
<1>3. x % s \in Int
  BY DivMod
<1>4. (p - q) * s = x - y
  BY <1>1, <1>2, <1>3, SMT
<1> DEFINE k == p - q
<1>5. k \in Int /\ -s < k * s /\ k * s < s
  BY <1>4, SMT
<1> HIDE DEF k
<1>6. k = 0
  BY <1>5, SmallMultiple
<1>7. p = q
  BY <1>6, SMT DEF k
<1> QED BY <1>1, <1>2, <1>7

=============================================================================
