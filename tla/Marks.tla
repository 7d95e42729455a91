------------------------------- MODULE Marks -------------------------------
(***************************************************************************)
(* internal/mark: the packet mark a user gets from the hash of their       *)
(* email.  A mark is major * 2^16 + minor: the major is the TX queue index *)
(* plus one (and the handle of that queue's HTB), the minor is the user's  *)
(* class inside that HTB.                                                  *)
(*                                                                         *)
(* An email stands for its 64-bit FNV-1a sum: For is a function of the sum *)
(* and of the queue count only.  The constants are the ones of the code.   *)
(***************************************************************************)
EXTENDS Integers

MinMinor == 2                             \* minor 0 is no class, 1 the default
MaxQueues == 255
MinorSpan == 65536                        \* 0x10000
minorsPerQueue == MinorSpan - MinMinor
QueueFields == 256                        \* values of the 8 bits of QueueMask

QueueCount == 1..MaxQueues

Join(major, minor) == major * MinorSpan + minor

\* Mutant of Split: minor 1, the default class, is taken for a user's.
SplitDefaultToo(m, queues) ==
  LET major == m \div MinorSpan
      minor == m % MinorSpan
  IN [major |-> major, minor |-> minor,
      ok |-> major >= 1 /\ major <= queues /\ minor >= 1]

Split(m, queues) ==
  LET major == m \div MinorSpan
      minor == m % MinorSpan
  IN [major |-> major, minor |-> minor,
      ok |-> major >= 1 /\ major <= queues /\ minor >= MinMinor]

\* Mutant of For: the minor is not kept clear of the reserved ones.
ForFromZero(sum, queues) ==
  Join((sum % queues) + 1, (sum \div queues) % minorsPerQueue)

\* Mutant of For: the remainder already used for the queue also picks the
\* minor, so most classes of a queue can never be reached.
ForSameRemainder(sum, queues) ==
  Join((sum % queues) + 1, MinMinor + (sum % minorsPerQueue))

For(sum, queues) ==
  Join((sum % queues) + 1, MinMinor + ((sum \div queues) % minorsPerQueue))

\* The queue field a steering filter compares: (m & QueueMask) >> 16.
QueueField(m) == (m \div MinorSpan) % QueueFields

\* The mark of the default class of the HTB with this major.
DefaultMark(major) == Join(major, 1)

-----------------------------------------------------------------------------
(* The least sum that gives a mark.                                        *)
SumOf(m, queues) ==
  ((m % MinorSpan) - MinMinor) * queues + (m \div MinorSpan) - 1

(* The mark of any sum is a user mark, its queue field, which is what the  *)
(* steering filter compares, names the HTB its classid belongs to, and     *)
(* Join puts back together what Split took apart.                          *)
FitsLayout(sum, queues) ==
  LET m == For(sum, queues)
      s == Split(m, queues)
  IN /\ s.ok
     /\ QueueField(m) = s.major
     /\ Join(s.major, s.minor) = m

(* "with Q queues there are Q*65534 marks" (mark.go): successive sums run  *)
(* through all of them before one comes again, so that two emails share a  *)
(* class only if their sums agree modulo that number.                      *)
RunsThroughAll(sum, queues) ==
  SumOf(For(sum, queues), queues) = sum % (queues * minorsPerQueue)

(* "ok=false for a value no mark from For with this many queues can take"  *)
(* (mark.go, Split), and ok=true for every other.                          *)
SplitExact(m, queues) ==
  Split(m, queues).ok
    <=> SumOf(m, queues) >= 0 /\ For(SumOf(m, queues), queues) = m
=============================================================================
