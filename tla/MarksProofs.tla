---------------------------- MODULE MarksProofs ----------------------------
(***************************************************************************)
(* The mark arithmetic for every hash sum (any natural number) and every   *)
(* queue count a mark can address.                                         *)
(***************************************************************************)
EXTENDS Marks, TLAPS

(* Division with remainder: what it yields, that the parts make up the     *)
(* whole, and that no other parts do.                                      *)
LEMMA DivType ==
  ASSUME NEW n \in Nat, NEW d \in Nat, d > 0
  PROVE  n \div d \in Nat
OBVIOUS

LEMMA ModType ==
  ASSUME NEW n \in Nat, NEW d \in Nat, d > 0
  PROVE  n % d \in 0..(d - 1)
OBVIOUS

LEMMA DivModWhole ==
  ASSUME NEW n \in Nat, NEW d \in Nat, d > 0
  PROVE  n = (n \div d) * d + (n % d)
OBVIOUS

LEMMA DivUnique ==
  ASSUME NEW d \in Nat, d > 0, NEW a \in Nat, NEW b \in 0..(d - 1)
  PROVE  (a * d + b) \div d = a
OBVIOUS

LEMMA ModUnique ==
  ASSUME NEW d \in Nat, d > 0, NEW a \in Nat, NEW b \in 0..(d - 1)
  PROVE  (a * d + b) % d = b
OBVIOUS

LEMMA AddAssociates ==
  ASSUME NEW x \in Nat, NEW y \in Nat, NEW z \in Nat
  PROVE  (x + y) + z = x + (y + z)
OBVIOUS

(* The constants; from here on the divisors stay folded.                   *)
LEMMA Spans ==
  /\ MinorSpan \in Nat /\ MinorSpan > 0
  /\ minorsPerQueue \in Nat /\ minorsPerQueue > 0
  /\ minorsPerQueue = MinorSpan - MinMinor
  /\ MinMinor = 2
BY DEF MinorSpan, minorsPerQueue, MinMinor

LEMMA Counts ==
  ASSUME NEW queues \in QueueCount
  PROVE  queues \in Nat /\ queues > 0 /\ queues < QueueFields
BY DEF QueueCount, MaxQueues, QueueFields

(* The halves of a mark come apart again.                                  *)
LEMMA JoinParts ==
  ASSUME NEW major \in Nat, NEW minor \in 0..(MinorSpan - 1)
  PROVE  /\ Join(major, minor) \in Nat
         /\ Join(major, minor) \div MinorSpan = major
         /\ Join(major, minor) % MinorSpan = minor
<1>1. (major * MinorSpan + minor) \div MinorSpan = major
  BY Spans, DivUnique
<1>2. (major * MinorSpan + minor) % MinorSpan = minor
  BY Spans, ModUnique
<1>3. major * MinorSpan + minor \in Nat
  BY Spans
<1> QED
  BY <1>1, <1>2, <1>3 DEF Join

(* The queue and the remaining sum, from which For makes a mark.           *)
LEMMA ForParts ==
  ASSUME NEW sum \in Nat, NEW queues \in QueueCount
  PROVE  /\ sum % queues \in 0..(queues - 1)
         /\ (sum \div queues) % minorsPerQueue \in 0..(minorsPerQueue - 1)
         /\ For(sum, queues) \in Nat
         /\ For(sum, queues) \div MinorSpan = (sum % queues) + 1
         /\ For(sum, queues) % MinorSpan = MinMinor + ((sum \div queues) % minorsPerQueue)
<1> DEFINE a == sum % queues
           k == sum \div queues
           r == k % minorsPerQueue
<1>1. a \in 0..(queues - 1) /\ k \in Nat
  BY Counts, ModType, DivType
<1> HIDE DEF a, k
<1>2. r \in 0..(minorsPerQueue - 1)
  BY <1>1, Spans, ModType
<1>3. For(sum, queues) = Join(a + 1, MinMinor + r)
  BY DEF For, a, k
<1> HIDE DEF r
<1>4. a + 1 \in Nat /\ MinMinor + r \in 0..(MinorSpan - 1)
  BY <1>1, <1>2, Spans, Counts
<1>5. /\ For(sum, queues) \in Nat
      /\ For(sum, queues) \div MinorSpan = a + 1
      /\ For(sum, queues) % MinorSpan = MinMinor + r
  BY <1>3, <1>4, JoinParts
<1> QED
  BY <1>1, <1>2, <1>5 DEF a, k, r

(* Every email has a mark that the layout for its queue count can carry:   *)
(* steering filter, HTB and class agree on it.                             *)
THEOREM MarksFitLayout ==
  \A sum \in Nat, queues \in QueueCount : FitsLayout(sum, queues)
<1> SUFFICES ASSUME NEW sum \in Nat, NEW queues \in QueueCount
             PROVE  FitsLayout(sum, queues)
  OBVIOUS
<1> DEFINE m == For(sum, queues)
           major == m \div MinorSpan
           minor == m % MinorSpan
<1>1. m \in Nat /\ major \in 1..queues /\ minor >= MinMinor
  BY ForParts, Counts, Spans
<1>2. Join(major, minor) = m
  BY <1>1, Spans, DivModWhole DEF Join
<1> HIDE DEF major, minor
<1>3. major % QueueFields = major
  <2>1. QueueFields \in Nat /\ QueueFields > 0
    BY DEF QueueFields
  <2>2. major \in 0..(QueueFields - 1)
    BY <1>1, <2>1, Counts
  <2>3. (0 * QueueFields + major) % QueueFields = major
    BY <2>1, <2>2, ModUnique
  <2>4. 0 * QueueFields + major = major
    BY <2>1, <2>2
  <2> QED
    BY <2>3, <2>4
<1>4. Split(m, queues).ok
  <2>1. Split(m, queues).ok <=> major >= 1 /\ major <= queues /\ minor >= MinMinor
    BY DEF Split, major, minor
  <2> QED
    BY <1>1, <2>1, Counts
<1>5. QueueField(m) = Split(m, queues).major
  BY <1>3 DEF QueueField, Split, major
<1>6. Join(Split(m, queues).major, Split(m, queues).minor) = m
  BY <1>2 DEF Split, major, minor
<1> QED
  BY <1>4, <1>5, <1>6 DEF FitsLayout

(* The number of marks is exactly Q * 65534: sums that agree modulo it,    *)
(* and only those, share a mark.                                           *)
THEOREM MarksRunThrough ==
  \A sum \in Nat, queues \in QueueCount : RunsThroughAll(sum, queues)
<1> SUFFICES ASSUME NEW sum \in Nat, NEW queues \in QueueCount
             PROVE  RunsThroughAll(sum, queues)
  OBVIOUS
<1> DEFINE a == sum % queues
           k == sum \div queues
           r == k % minorsPerQueue
           j == k \div minorsPerQueue
           P == minorsPerQueue
<1>1. /\ a \in 0..(queues - 1) /\ k \in Nat
      /\ sum = k * queues + a
  BY Counts, ModType, DivType, DivModWhole
<1>2. SumOf(For(sum, queues), queues) = r * queues + a
  <2>1. (For(sum, queues) \div MinorSpan) - 1 = a
    BY ForParts, <1>1, Counts
  <2>2. (For(sum, queues) % MinorSpan) - MinMinor = r
    BY ForParts, Spans
  <2>3. SumOf(For(sum, queues), queues)
          = ((For(sum, queues) % MinorSpan) - MinMinor) * queues
              + (For(sum, queues) \div MinorSpan) - 1
    BY DEF SumOf
  <2>4. For(sum, queues) \div MinorSpan = a + 1
    BY ForParts
  <2>5. r * queues \in Int
    BY ForParts, Counts
  <2> HIDE DEF a, r
  <2> QED
    BY <2>2, <2>3, <2>4, <2>5, <1>1, Counts
<1> HIDE DEF a, k
<1>3. r \in 0..(P - 1) /\ j \in Nat /\ k = j * P + r
  BY <1>1, Spans, ModType, DivType, DivModWhole
<1> HIDE DEF r, j
<1>4. queues \in Nat /\ queues > 0 /\ P \in Nat /\ P > 0
  BY Counts, Spans
<1> HIDE DEF P
<1>5. queues * P \in Nat /\ queues * P > 0
  BY <1>4
<1>6. r * queues + a \in 0..((queues * P) - 1)
  <2>1. r * queues \in Nat /\ (P - 1) * queues \in Nat
    BY <1>3, <1>4
  <2>2. r * queues <= (P - 1) * queues
    BY <1>3, <1>4
  <2>3. (P - 1) * queues = (queues * P) - queues
    BY <1>4
  <2> QED
    BY <1>1, <1>4, <1>5, <2>1, <2>2, <2>3
<1>7. sum = j * (queues * P) + (r * queues + a)
  <2>1. k * queues = j * (queues * P) + r * queues
    BY <1>3, <1>4
  <2>2. j * (queues * P) \in Nat /\ r * queues \in Nat
    BY <1>3, <1>4
  <2>3. sum = (j * (queues * P) + r * queues) + a
    BY <1>1, <2>1
  <2>4. a \in Nat
    BY <1>1, <1>4
  <2> QED
    BY <2>2, <2>3, <2>4, AddAssociates
<1>8. sum % (queues * P) = r * queues + a
  BY <1>3, <1>5, <1>6, <1>7, ModUnique
<1> QED
  BY <1>2, <1>8 DEF RunsThroughAll, P

(* Split accepts exactly the values For can yield.                         *)
THEOREM SplitAcceptsMarks ==
  \A m \in Nat, queues \in QueueCount : SplitExact(m, queues)
<1> SUFFICES ASSUME NEW m \in Nat, NEW queues \in QueueCount
             PROVE  SplitExact(m, queues)
  OBVIOUS
<1> DEFINE major == m \div MinorSpan
           minor == m % MinorSpan
           s == SumOf(m, queues)
<1>1. major \in Nat /\ minor \in 0..(MinorSpan - 1) /\ m = Join(major, minor)
  BY Spans, DivType, ModType, DivModWhole DEF Join
<1>2. /\ Split(m, queues).ok <=> major >= 1 /\ major <= queues /\ minor >= MinMinor
      /\ s = (minor - MinMinor) * queues + major - 1
  BY DEF Split, SumOf
<1> HIDE DEF major, minor, s
<1>3. ASSUME Split(m, queues).ok
      PROVE  s >= 0 /\ For(s, queues) = m
  <2> DEFINE a == major - 1
             r == minor - MinMinor
  <2>1. a \in 0..(queues - 1) /\ r \in 0..(minorsPerQueue - 1)
    BY <1>1, <1>2, <1>3, Counts, Spans
  <2>2. r * queues \in Nat
    BY <2>1, Counts, Spans
  <2>3. s = r * queues + a
    BY <1>1, <1>2, <2>1, <2>2, Spans
  <2>4. major = a + 1 /\ minor = MinMinor + r
    BY <1>1, Spans
  <2> HIDE DEF a, r
  <2>5. s \div queues = r /\ s % queues = a
    <3>1. r \in Nat /\ queues \in Nat /\ queues > 0
      BY <2>1, Counts, Spans
    <3>2. (r * queues + a) \div queues = r
      BY <2>1, <3>1, DivUnique
    <3>3. (r * queues + a) % queues = a
      BY <2>1, <3>1, ModUnique
    <3> QED
      BY <2>3, <3>2, <3>3
  <2>6. r % minorsPerQueue = r
    <3>1. (0 * minorsPerQueue + r) % minorsPerQueue = r
      BY <2>1, Spans, ModUnique
    <3>2. 0 * minorsPerQueue + r = r
      BY <2>1, Spans
    <3> QED
      BY <3>1, <3>2
  <2>7. s >= 0
    BY <2>1, <2>2, <2>3, Counts
  <2>8. For(s, queues) = Join(a + 1, MinMinor + r)
    BY <2>5, <2>6 DEF For
  <2> QED
    BY <1>1, <2>4, <2>7, <2>8
<1>4. ASSUME s >= 0, For(s, queues) = m
      PROVE  Split(m, queues).ok
  <2>1. s \in Nat
    BY <1>1, <1>2, <1>4, Counts, Spans
  <2> QED
    BY <2>1, <1>4, MarksFitLayout DEF FitsLayout
<1> QED
  BY <1>3, <1>4 DEF SplitExact, s
=============================================================================
