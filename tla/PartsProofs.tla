---------------------------- MODULE PartsProofs ----------------------------
(***************************************************************************)
(* The parts MCParts puts side by side, for every value of their           *)
(* constants: the conversions of rates (Rates), the scan for the default   *)
(* route (Route), the table of users (Users), and what MCParts checks of   *)
(* its numbers.                                                            *)
(***************************************************************************)
EXTENDS MCParts, MarksProofs

-----------------------------------------------------------------------------
(* Rates: every width, unit and flag value.                                *)

(* Multiplication by a positive number keeps the order, and the quotient   *)
(* is the last factor whose product still fits.                            *)
LEMMA ProductMonotone ==
  ASSUME NEW a \in Nat, NEW b \in Nat, NEW k \in Nat, a <= b
  PROVE  a * k <= b * k
OBVIOUS

LEMMA QuotientFits ==
  ASSUME NEW m \in Nat, NEW k \in Nat \ {0}
  PROVE  /\ m \div k \in Nat
         /\ (m \div k) * k <= m
         /\ m < ((m \div k) + 1) * k
OBVIOUS

LEMMA ProductDivides ==
  ASSUME NEW a \in Nat, NEW k \in Nat \ {0}
  PROVE  (a * k) \div k = a
OBVIOUS

(* A number that fits a word is kept by it.                                *)
LEMMA FitsWord ==
  ASSUME NEW w \in Nat, NEW a \in Nat, a < w
  PROVE  a % w = a
OBVIOUS

LEMMA EightFits ==
  ASSUME NEW a \in Nat, a * 8 < U64
  PROVE  tcRate(a) = a
BY RatesAssumption, FitsWord, ProductDivides DEF tcRate

(* -per-user-rate-mbit is refused when its rate does not fit the store,    *)
(* and otherwise kept exactly, by tc and by the listing of the next start. *)
THEOREM PerUserKept == \A mbit \in Nat : PerUserRateKept(mbit)
<1> SUFFICES ASSUME NEW mbit \in Nat PROVE PerUserRateKept(mbit)
  OBVIOUS
<1> DEFINE k == bytesPerSecPerMbit
           top == MaxUint32 \div k
<1>0. k \in Nat \ {0} /\ MaxUint32 \in Nat /\ MaxUint32 < U32 /\ U32 \in Nat /\ U64 \in Nat
      /\ 8 * U32 <= U64 /\ mbit * k \in Nat
  BY RatesAssumption DEF MaxUint32
<1>1. top \in Nat /\ top * k <= MaxUint32 /\ MaxUint32 < (top + 1) * k
  BY <1>0, QuotientFits
<1>2. CASE mbit > top
  <2>1. (top + 1) * k <= mbit * k
    BY <1>0, <1>1, <1>2, ProductMonotone
  <2>2. mbit * k > MaxUint32
    BY <1>0, <1>1, <2>1
  <2> QED
    BY <1>2, <2>2 DEF PerUserRateKept, perUserRate
<1>3. CASE ~(mbit > top)
  <2>1. mbit * k <= top * k
    BY <1>0, <1>1, <1>3, ProductMonotone
  <2>2. mbit * k <= MaxUint32
    BY <1>0, <1>1, <2>1
  <2>3. mbit * k < U32 /\ mbit * k < U64 /\ (mbit * k) * 8 < U64
    BY <1>0, <2>2
  <2>4. perUserRate(mbit) = mbit * k
    BY <1>0, <1>3, <2>3, FitsWord DEF perUserRate
  <2>5. tcRate(mbit * k) = mbit * k
    BY <1>0, <2>3, EightFits
  <2>6. listedRate(mbit * k) = mbit * k
    BY <1>0, <2>2 DEF listedRate
  <2> QED
    BY <2>4, <2>5, <2>6 DEF PerUserRateKept
<1> QED
  BY <1>2, <1>3

(* Which values of -default-class-rate-mbit the code can deal with: those  *)
(* that fit 64 bits in bits per second.  Every other one, and nothing      *)
(* refuses it, wraps into default classes slower than it says.             *)
THEOREM DefaultWrapsBeyond ==
  \A mbit \in Nat : DefaultKeepsUp(mbit) <=> mbit * 8 * bytesPerSecPerMbit < U64
<1> SUFFICES ASSUME NEW mbit \in Nat
             PROVE  DefaultKeepsUp(mbit) <=> mbit * 8 * bytesPerSecPerMbit < U64
  OBVIOUS
<1> DEFINE rate == mbit * bytesPerSecPerMbit
           bits == (rate * 8) % U64
           got == bits \div 8
<1>1. rate \in Nat /\ mbit * 8 * bytesPerSecPerMbit = rate * 8
  BY RatesAssumption
<1>2. defaultRate(mbit) = got
  BY <1>1 DEF defaultRate
<1> HIDE DEF rate
<1>3. bits \in Nat /\ bits < U64
  BY <1>1, RatesAssumption
<1>4. rate * 8 < U64 => bits = rate * 8
  BY <1>1, RatesAssumption, FitsWord
<1> HIDE DEF bits
<1>5. got \in Nat /\ got * 8 <= bits /\ (bits = rate * 8 => got = rate)
  BY <1>1, <1>3
<1> HIDE DEF got
<1>6. tcRate(got) = got
  BY <1>3, <1>5, RatesAssumption, EightFits
<1>7. got >= rate <=> rate * 8 < U64
  BY <1>1, <1>3, <1>4, <1>5, RatesAssumption
<1> QED
  BY <1>1, <1>2, <1>6, <1>7 DEF DefaultKeepsUp, rate

-----------------------------------------------------------------------------
(* Route: a file of any length, with any interfaces and metrics.           *)

(* The types of the scan's variables.                                      *)
THEOREM RouteTypeCorrect == RouteSpec => []RouteTypeOK
<1>1. RouteInit => RouteTypeOK
  BY RouteAssumption DEF RouteInit, RouteTypeOK
<1>2. RouteTypeOK /\ [RouteNext]_routeVars => RouteTypeOK'
  <2> SUFFICES ASSUME RouteTypeOK, [RouteNext]_routeVars PROVE RouteTypeOK'
    OBVIOUS
  <2> USE RouteAssumption DEF RouteTypeOK
  <2>1. CASE Pass
    BY <2>1 DEF Pass, Reading
  <2>2. CASE Better
    <3>1. lines[next] \in Line /\ next + 1 \in 1 .. Len(lines) + 1
      BY <2>2 DEF Better, Reading
    <3>2. lines[next].metric \in Metric /\ lines[next].iface \in Iface
      BY <2>2, <3>1 DEF Better, Usable, Line
    <3> QED
      BY <2>2, <3>1, <3>2 DEF Better
  <2>3. CASE Finish
    BY <2>3 DEF Finish
  <2>4. CASE ScanFails
    BY <2>4 DEF ScanFails
  <2>5. CASE UNCHANGED routeVars
    BY <2>5 DEF routeVars
  <2> QED
    BY <2>1, <2>2, <2>3, <2>4, <2>5 DEF RouteNext
<1> QED
  BY <1>1, <1>2, PTL DEF RouteSpec

(* The metric of a usable line is a number.                                *)
LEMMA UsableMetric ==
  ASSUME RouteTypeOK, NEW i \in 1 .. Len(lines), Usable(lines[i])
  PROVE  lines[i].metric \in Nat /\ lines[i].iface \in Iface
<1>1. lines[i] \in Line
  BY DEF RouteTypeOK
<1> QED
  BY <1>1, RouteAssumption DEF Usable, Line

(* A line that is not usable, or not better, leaves the best one best.     *)
LEMMA PassKeepsBest ==
  ASSUME RouteTypeOK, BestSoFar, Pass
  PROVE  BestSoFar'
<1> USE DEF Pass, Reading
<1>0. next \in Nat /\ next \in 1 .. Len(lines) /\ next' - 1 = next /\ Len(lines) \in Nat
  BY DEF RouteTypeOK
<1>1. CASE best = NoIface
  <2>1. ~Usable(lines[next])
    BY <1>1
  <2>2. \A j \in 1 .. next : ~Usable(lines[j])
    BY <1>0, <1>1, <2>1 DEF BestSoFar
  <2> QED
    BY <1>0, <1>1, <2>2 DEF BestSoFar, Usable
<1>2. CASE best # NoIface
  <2>1. PICK i \in 1 .. next - 1 :
          Chosen(lines, i, next - 1) /\ best = lines[i].iface /\ bestMetric = lines[i].metric
    BY <1>2 DEF BestSoFar
  <2>2. i \in 1 .. next /\ i \in 1 .. Len(lines) /\ Usable(lines[i]) /\ i < next
    BY <1>0, <2>1 DEF Chosen
  <2>3. lines[i].metric \in Nat
    BY <2>2, UsableMetric
  <2>4. ASSUME NEW j \in 1 .. next, Usable(lines[j])
        PROVE  /\ lines[i].metric <= lines[j].metric
               /\ j < i => lines[i].metric < lines[j].metric
    <3>1. CASE j = next
      BY <2>1, <2>2, <2>4, <3>1, <1>0
    <3>2. CASE j # next
      BY <1>0, <2>1, <2>4, <3>2 DEF Chosen
    <3> QED
      BY <3>1, <3>2
  <2>5. Chosen(lines, i, next)
    BY <1>0, <2>2, <2>4 DEF Chosen
  <2> QED
    BY <1>0, <1>2, <2>1, <2>2, <2>5 DEF BestSoFar
<1> QED
  BY <1>1, <1>2

(* A usable line with a lower metric is the new best.                      *)
LEMMA BetterIsBest ==
  ASSUME RouteTypeOK, BestSoFar, Better
  PROVE  BestSoFar'
<1> USE DEF Better, Reading
<1>0. next \in Nat /\ next \in 1 .. Len(lines) /\ next' - 1 = next /\ Len(lines) \in Nat
  BY DEF RouteTypeOK
<1>1. lines[next].metric \in Nat /\ lines[next].iface \in Iface
  BY <1>0, UsableMetric
<1>2. ASSUME NEW j \in 1 .. next, Usable(lines[j])
      PROVE  /\ lines[next].metric <= lines[j].metric
             /\ j < next => lines[next].metric < lines[j].metric
  <2>1. CASE j = next
    BY <2>1, <1>0, <1>1
  <2>2. CASE j # next
    <3>1. j \in 1 .. next - 1 /\ j \in 1 .. Len(lines) /\ j < next
      BY <1>0, <2>2
    <3>2. lines[j].metric \in Nat
      BY <3>1, <1>2, UsableMetric
    <3>3. best # NoIface
      BY <3>1, <1>2 DEF BestSoFar
    <3>4. PICK i \in 1 .. next - 1 : Chosen(lines, i, next - 1) /\ bestMetric = lines[i].metric
      BY <3>3 DEF BestSoFar
    <3>5. lines[i].metric <= lines[j].metric
      BY <3>1, <3>4, <1>2 DEF Chosen
    <3>6. lines[i].metric \in Nat
      BY <3>4, <1>0, UsableMetric DEF Chosen
    <3> QED
      BY <3>2, <3>3, <3>4, <3>5, <3>6, <1>1
  <2> QED
    BY <2>1, <2>2
<1>3. Chosen(lines, next, next)
  BY <1>0, <1>2 DEF Chosen
<1>4. best' # NoIface
  BY <1>1, RouteAssumption
<1> QED
  BY <1>0, <1>3, <1>4 DEF BestSoFar

(* What best holds after any number of lines.                              *)
THEOREM BestSoFarAlways == RouteSpec => []BestSoFar
<1>1. RouteInit => BestSoFar
  BY DEF RouteInit, BestSoFar
<1>2. RouteTypeOK /\ BestSoFar /\ [RouteNext]_routeVars => BestSoFar'
  <2> SUFFICES ASSUME RouteTypeOK, BestSoFar, [RouteNext]_routeVars PROVE BestSoFar'
    OBVIOUS
  <2>1. CASE Pass
    BY <2>1, PassKeepsBest
  <2>2. CASE Better
    BY <2>2, BetterIsBest
  <2>3. CASE Finish
    BY <2>3 DEF Finish, BestSoFar
  <2>4. CASE ScanFails
    BY <2>4 DEF ScanFails, BestSoFar
  <2>5. CASE UNCHANGED routeVars
    BY <2>5 DEF routeVars, BestSoFar
  <2> QED
    BY <2>1, <2>2, <2>3, <2>4, <2>5 DEF RouteNext
<1> QED
  BY <1>1, <1>2, RouteTypeCorrect, PTL DEF RouteSpec

(* An answer comes from the end of the file, and with an interface.        *)
AnswerAtEnd == outcome = "ok" => next = Len(lines) + 1 /\ best # NoIface

LEMMA AnswersAtEnd == RouteSpec => []AnswerAtEnd
<1>1. RouteInit => AnswerAtEnd
  BY DEF RouteInit, AnswerAtEnd
<1>2. AnswerAtEnd /\ [RouteNext]_routeVars => AnswerAtEnd'
  BY DEF AnswerAtEnd, RouteNext, routeVars, Pass, Better, Finish, ScanFails, Reading
<1> QED
  BY <1>1, <1>2, PTL DEF RouteSpec

(* "the one with the lowest metric wins", for every file.                  *)
THEOREM LowestMetric == RouteSpec => []LowestMetricWins
<1>1. RouteTypeOK /\ BestSoFar /\ AnswerAtEnd => LowestMetricWins
  <2> SUFFICES ASSUME RouteTypeOK, BestSoFar, AnswerAtEnd, outcome = "ok"
               PROVE  \E i \in 1 .. Len(lines) :
                        Chosen(lines, i, Len(lines)) /\ best = lines[i].iface
    BY DEF LowestMetricWins
  <2>1. next - 1 = Len(lines) /\ best # NoIface
    BY DEF AnswerAtEnd, RouteTypeOK
  <2> QED
    BY <2>1 DEF BestSoFar
<1> QED
  BY <1>1, RouteTypeCorrect, BestSoFarAlways, AnswersAtEnd, PTL

-----------------------------------------------------------------------------
(* Users: any emails, callers, timeout and delays.                         *)

(* lastSeen is a clock read before the Mark that recorded it returned, and *)
(* at most LockDelay before; an email is missing only if no Mark has       *)
(* returned lately.                                                        *)
LastSeenIsRecent ==
  \A e \in Email :
    /\ users[e] # Unseen => heard[e] <= users[e] /\ users[e] <= heard[e] + LockDelay
    /\ users[e] = Unseen => heard[e] + LockDelay > IdleTimeout

UsersInv == UsersTypeOK /\ LastSeenIsRecent

(* An age that is a number stays one, and orders are kept up to its cap.   *)
LEMMA AgedNumber ==
  ASSUME NEW age \in 0 .. OldAge
  PROVE  /\ Aged(age) \in 0 .. OldAge
         /\ Aged(age) = IF age = OldAge THEN OldAge ELSE age + 1
BY UsersAssumption DEF Aged

LEMMA AgedUnseen == Aged(Unseen) = Unseen
BY DEF Aged

LEMMA UsersTickInv ==
  ASSUME UsersInv, UsersTick
  PROVE  UsersInv'
<1> USE UsersAssumption
<1>1. users' \in [Email -> 0 .. OldAge \cup {Unseen}]
  BY AgedNumber, AgedUnseen DEF UsersInv, UsersTypeOK, UsersTick
<1>2. heard' \in [Email -> 0 .. OldAge]
  BY AgedNumber DEF UsersInv, UsersTypeOK, UsersTick
<1>3. caller' \in [Caller -> [email : Email \cup {NoEmail}, lag : 0 .. LockDelay]]
  <2> SUFFICES ASSUME NEW c \in Caller
               PROVE  (IF caller[c].email = NoEmail THEN caller[c]
                       ELSE [caller[c] EXCEPT !.lag = @ + 1])
                        \in [email : Email \cup {NoEmail}, lag : 0 .. LockDelay]
    BY DEF UsersTick
  <2> QED
    BY DEF UsersInv, UsersTypeOK, UsersTick
<1>4. prune' \in 0 .. LockDelay \cup {Unseen}
  BY DEF UsersInv, UsersTypeOK, UsersTick, Aged
<1>5. LastSeenIsRecent'
  <2> SUFFICES ASSUME NEW e \in Email
               PROVE  /\ users'[e] # Unseen =>
                           heard'[e] <= users'[e] /\ users'[e] <= heard'[e] + LockDelay
                      /\ users'[e] = Unseen => heard'[e] + LockDelay > IdleTimeout
    BY DEF LastSeenIsRecent
  <2>1. users[e] \in 0 .. OldAge \cup {Unseen} /\ heard[e] \in 0 .. OldAge
    BY DEF UsersInv, UsersTypeOK
  <2>2. users'[e] = Aged(users[e]) /\ heard'[e] = Aged(heard[e])
    BY DEF UsersTick
  <2>3. CASE users[e] = Unseen
    BY <2>1, <2>2, <2>3, AgedNumber, AgedUnseen DEF UsersInv, LastSeenIsRecent
  <2>4. CASE users[e] # Unseen
    BY <2>1, <2>2, <2>4, AgedNumber DEF UsersInv, LastSeenIsRecent
  <2> QED
    BY <2>3, <2>4
<1> QED
  BY <1>1, <1>2, <1>3, <1>4, <1>5 DEF UsersInv, UsersTypeOK

LEMMA MarkInv ==
  ASSUME UsersInv, NEW c \in Caller, Mark(c)
  PROVE  UsersInv'
<1> DEFINE e == caller[c].email
<1>0. caller[c] \in [email : Email \cup {NoEmail}, lag : 0 .. LockDelay] /\ e \in Email
  BY DEF UsersInv, UsersTypeOK, Mark
<1>1. UsersTypeOK'
  BY <1>0, UsersAssumption DEF UsersInv, UsersTypeOK, Mark, NoMarkCall
<1>2. LastSeenIsRecent'
  BY <1>0, UsersAssumption DEF UsersInv, UsersTypeOK, LastSeenIsRecent, Mark
<1> QED
  BY <1>1, <1>2 DEF UsersInv

LEMMA PruneInv ==
  ASSUME UsersInv, Prune
  PROVE  UsersInv'
<1>1. UsersTypeOK'
  BY UsersAssumption DEF UsersInv, UsersTypeOK, Prune
<1>2. LastSeenIsRecent'
  BY UsersAssumption DEF UsersInv, UsersTypeOK, LastSeenIsRecent, Prune
<1> QED
  BY <1>1, <1>2 DEF UsersInv

LEMMA UsersNextInv == UsersInv /\ [UsersNext]_usersVars => UsersInv'
<1> SUFFICES ASSUME UsersInv, [UsersNext]_usersVars PROVE UsersInv'
  OBVIOUS
<1>1. CASE UsersTick
  BY <1>1, UsersTickInv
<1>2. CASE PruneNow
  BY <1>2, UsersAssumption DEF PruneNow, UsersInv, UsersTypeOK, LastSeenIsRecent
<1>3. CASE Prune
  BY <1>3, PruneInv
<1>4. ASSUME NEW c \in Caller, Mark(c) PROVE UsersInv'
  BY <1>4, MarkInv
<1>5. ASSUME NEW c \in Caller, NEW e \in Email, MarkNow(c, e) PROVE UsersInv'
  BY <1>5, UsersAssumption DEF MarkNow, UsersInv, UsersTypeOK, LastSeenIsRecent
<1>6. CASE UNCHANGED usersVars
  BY <1>6 DEF usersVars, UsersInv, UsersTypeOK, LastSeenIsRecent
<1> QED
  BY <1>1, <1>2, <1>3, <1>4, <1>5, <1>6 DEF UsersNext

LEMMA UsersInvariance == UsersSpec => []UsersInv
<1>1. UsersInit => UsersInv
  BY UsersAssumption DEF UsersInit, UsersInv, UsersTypeOK, LastSeenIsRecent, NoMarkCall
<1> QED
  BY <1>1, UsersNextInv, PTL DEF UsersSpec

(* The types of the table and the calls under way.                         *)
THEOREM UsersTypeCorrect == UsersSpec => []UsersTypeOK
BY UsersInvariance, PTL DEF UsersInv

(* GET /users lists every email heard of within the idle timeout less the  *)
(* delay of a lock, whatever calls overtake each other.                    *)
THEOREM RecentListed == UsersSpec => []RecentUsersListed
<1>1. UsersInv => RecentUsersListed
  BY UsersAssumption DEF UsersInv, UsersTypeOK, LastSeenIsRecent, RecentUsersListed
<1> QED
  BY <1>1, UsersInvariance, PTL

(* A Prune leaves only emails heard of within the timeout and the delays.  *)
THEOREM OnlyRecentKept == UsersSpec => OnlyRecentUsersKept
<1>1. UsersInv /\ [UsersNext]_usersVars =>
        [Prune => \A e \in Email :
           users'[e] # Unseen => heard[e] <= IdleTimeout + LockDelay]_usersVars
  BY UsersAssumption DEF UsersInv, UsersTypeOK, LastSeenIsRecent, Prune
<1> QED
  BY <1>1, UsersInvariance, PTL DEF UsersSpec, OnlyRecentUsersKept

-----------------------------------------------------------------------------
(* The numbers MCParts walks through, for any queue counts and margin.     *)

NumbersOK == n \in Nat /\ queues \in QueueCount

LEMMA NearNumbers == ASSUME NEW k, NEW x \in Near(k) PROVE x \in Nat
BY DEF Near

LEMMA NumbersInvariance == MCSpec => []NumbersOK
<1>0. 1 \in QueueCount
  BY DEF QueueCount, MaxQueues
<1>1. MCInit => NumbersOK
  <2>1. CASE part = "numbers"
    BY <2>1, NearNumbers, PartsAssumption DEF MCInit, NumbersOK
  <2>2. CASE part # "numbers"
    BY <2>2, <1>0 DEF MCInit, NumbersOK
  <2> QED
    BY <2>1, <2>2
<1>2. NumbersOK /\ [MCNext]_vars => NumbersOK'
  BY DEF NumbersOK, MCNext, NextNumber, vars, numberVars
<1> QED
  BY <1>1, <1>2, PTL DEF MCSpec

(* What the run checks at the boundaries, wherever they are: every mark    *)
(* fits the layout, no mark is lost or favoured, and Split accepts marks   *)
(* and nothing else.                                                       *)
THEOREM MarkFits == MCSpec => []MarkFitsLayout
<1>1. NumbersOK => MarkFitsLayout
  BY MarksFitLayout DEF NumbersOK, MarkFitsLayout
<1> QED
  BY <1>1, NumbersInvariance, PTL

(* Successive sums run through all marks before one comes again.           *)
THEOREM RunsThrough == MCSpec => []MarksRunThroughAll
<1>1. NumbersOK => MarksRunThroughAll
  BY MarksRunThrough DEF NumbersOK, MarksRunThroughAll
<1> QED
  BY <1>1, NumbersInvariance, PTL

(* Split says ok exactly for the values For yields.                        *)
THEOREM SplitExactAlways == MCSpec => []SplitIsExact
<1>1. NumbersOK => SplitIsExact
  BY SplitAcceptsMarks DEF NumbersOK, SplitIsExact
<1> QED
  BY <1>1, NumbersInvariance, PTL

(* No value of -per-user-rate-mbit becomes another rate.                   *)
THEOREM PerUserAlways == MCSpec => []PerUserRateIsKept
<1>1. NumbersOK => PerUserRateIsKept
  BY PerUserKept DEF NumbersOK, PerUserRateIsKept
<1> QED
  BY <1>1, NumbersInvariance, PTL
=============================================================================
