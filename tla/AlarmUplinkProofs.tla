------------------------- MODULE AlarmUplinkProofs -------------------------
(***************************************************************************)
(* Proofs about AlarmUplink, for any number of ONUs, inputs and servers and *)
(* any ring size and timers that satisfy AlarmUplinkAssumption.             *)
(***************************************************************************)
EXTENDS AlarmUplink, TLAPS

LEMMA ModRange ==
  ASSUME NEW n \in Nat, NEW q \in Nat, q > 0
  PROVE  n % q \in 0..q-1
  BY SMT

USE AlarmUplinkAssumption DEF AlarmUplinkAssumption

\* An index of a ring, moved on, is an index of the ring.
LEMMA RingIndex ==
  ASSUME NEW n \in Nat
  PROVE  n % QSize \in 0..QSize-1
<1>1. QSize \in Nat /\ QSize > 0
  OBVIOUS
<1> QED BY <1>1, ModRange

LEMMA HeadNext ==
  ASSUME TypeOK, NEW j \in Conns
  PROVE  (head[j] + 1) % QSize \in 0..QSize-1
<1>1. head[j] + 1 \in Nat
  BY DEF TypeOK
<1> QED BY <1>1, RingIndex

\* Clear leaves types as they are.
LEMMA ClearType ==
  ASSUME TypeOK, NEW D \in SUBSET Conns, Clear(D)
  PROVE  /\ queue' = queue /\ seen' = seen
         /\ head' \in [Conns -> 0..QSize-1] /\ tail' \in [Conns -> 0..QSize-1]
         /\ lost' \subseteq Conns
<1>1. head' \in [Conns -> 0..QSize-1]
  BY DEF TypeOK, Clear
<1>2. tail' \in [Conns -> 0..QSize-1]
  BY DEF TypeOK, Clear
<1>3. lost' \subseteq Conns
  <2>1. lost' = lost \cup {j \in D : head[j] # tail[j]}
    BY DEF Clear
  <2> QED BY <2>1 DEF TypeOK
<1> QED BY <1>1, <1>2, <1>3 DEF Clear

\* So does Put of an alarm.
LEMMA PutType ==
  ASSUME TypeOK, NEW a \in Alarm, Put(a)
  PROVE  /\ queue' \in [Conns -> [0..QSize-1 -> Alarm]]
         /\ head' \in [Conns -> 0..QSize-1] /\ tail' \in [Conns -> 0..QSize-1]
         /\ seen' = seen /\ lost' \subseteq Conns
<1>1. \A j \in Conns : (head[j] + 1) % QSize \in 0..QSize-1 /\ (tail[j] + 1) % QSize \in 0..QSize-1
  <2>1. \A j \in Conns : head[j] + 1 \in Nat /\ tail[j] + 1 \in Nat
    BY DEF TypeOK
  <2> QED BY <2>1, RingIndex
<1>2. queue' \in [Conns -> [0..QSize-1 -> Alarm]]
  BY DEF TypeOK, Put
<1> QED BY <1>1, <1>2 DEF TypeOK, Put

\* Every variable keeps its type; in particular no index leaves its ring.
THEOREM TypeCorrect == Spec => []TypeOK
<1>1. Init => TypeOK
  BY DEF Init, TypeOK, Alarm, Onus, Ios
<1>2. TypeOK /\ [Next]_vars => TypeOK'
  <2> SUFFICES ASSUME TypeOK, [Next]_vars PROVE TypeOK'
    OBVIOUS
  <2>1. ASSUME NEW o \in Onus, NEW s \in SUBSET Ios, Report(o, s) PROVE TypeOK'
    BY <2>1 DEF TypeOK, Report, ringVars, netVars, scanVars, histVars
  <2>2. CASE Scan
    <3>1. held' \in [Onus \X Ios -> 0..Threshold+1]
      BY <2>2 DEF TypeOK, Scan
    <3> QED BY <2>2, <3>1 DEF TypeOK, Scan, ioVars, ringVars, netVars, histVars
  <2>3. CASE CheckOnu
    <3>1. chgCount' \in [Onus -> 0..Threshold+1]
      BY <2>3 DEF TypeOK, CheckOnu, Onus
    <3>2. i' \in 1..NumOnus+1 /\ idx' \in 0..NumIos+1
      BY <2>3 DEF TypeOK, CheckOnu
    <3> QED BY <2>3, <3>1, <3>2 DEF TypeOK, CheckOnu, ringVars, netVars, histVars
  <2>4. CASE CheckIo
    <3>1. CASE Raising
      <4>1. i \in Onus /\ idx \in Ios
        BY <2>4 DEF TypeOK, CheckIo, Ios
      <4>2. AlarmOf(i, idx) \in Alarm
        BY <4>1 DEF AlarmOf, Alarm
      <4>3. Put(AlarmOf(i, idx)) /\ ret' = 1
        BY <2>4, <3>1 DEF CheckIo
      <4>4. /\ queue' \in [Conns -> [0..QSize-1 -> Alarm]]
            /\ head' \in [Conns -> 0..QSize-1] /\ tail' \in [Conns -> 0..QSize-1]
            /\ seen' = seen /\ lost' \subseteq Conns
        BY <4>2, <4>3, PutType
      <4>5. idx' \in 0..NumIos+1
        BY <2>4, <4>1 DEF CheckIo, Ios
      <4>6. i' = i /\ ret' = 1
        BY <2>4, <4>3 DEF CheckIo
      <4>7. UNCHANGED <<ioVars, netVars, loopCount, pc, reports, held>>
        BY <2>4 DEF CheckIo
      <4> QED BY <4>1, <4>4, <4>5, <4>6, <4>7 DEF TypeOK, ioVars, netVars
    <3>2. CASE ~Raising
      BY <2>4, <3>2 DEF TypeOK, CheckIo, ioVars, ringVars, netVars, histVars, Ios
    <3> QED BY <3>1, <3>2
  <2>5. CASE CheckIoEnd
    <3>1. held' \in [Onus \X Ios -> 0..Threshold+1]
      BY <2>5 DEF TypeOK, CheckIoEnd
    <3>2. ioState' \in [Onus -> SUBSET Ios]
      BY <2>5 DEF TypeOK, CheckIoEnd, Onus
    <3>3. i' \in 1..NumOnus+1 /\ idx' = 0
      <4>1. i \in Onus
        BY <2>5 DEF TypeOK, CheckIoEnd
      <4> QED BY <2>5, <4>1 DEF CheckIoEnd, Onus
    <3> QED BY <2>5, <3>1, <3>2, <3>3 DEF TypeOK, CheckIoEnd, ringVars, netVars, histVars
  <2>6. CASE Idling
    BY <2>6, ClearType DEF TypeOK, Idling, ioVars, scanVars
  <2>7. CASE Working
    BY <2>7 DEF TypeOK, Working, ioVars, ringVars, netVars, scanVars, histVars
  <2>8. CASE Connect
    <3>1. Clear(Unconnected \ Configured)
      BY <2>8 DEF Connect
    <3>2. Unconnected \ Configured \in SUBSET Conns
      BY DEF Unconnected
    <3>3. sock' \in [Conns -> {0, 1}] /\ tag' \in [Conns -> Nat]
      BY <2>8 DEF TypeOK, Connect
    <3>4. /\ queue' = queue /\ seen' = seen /\ lost' \subseteq Conns
          /\ head' \in [Conns -> 0..QSize-1] /\ tail' \in [Conns -> 0..QSize-1]
      BY <3>1, <3>2, ClearType
    <3> QED BY <2>8, <3>3, <3>4 DEF TypeOK, Connect, ioVars, scanVars
  <2>9. CASE SelectError
    BY <2>9, ClearType DEF TypeOK, SelectError, ioVars, scanVars
  <2>10. CASE SelectReturns
    <3> PICK ready \in SUBSET Watched, bad \in SUBSET Connecting :
             /\ sock' = [j \in Conns |-> IF j \in bad THEN 0 ELSE sock[j]]
             /\ tag' = [j \in Conns |-> IF j \in bad THEN WaitTime
                                        ELSE IF j \in ready THEN 1 ELSE tag[j]]
             /\ Clear(bad)
      BY <2>10 DEF SelectReturns
    <3>1. bad \in SUBSET Conns
      BY DEF Connecting, Watched
    <3>2. sock' \in [Conns -> {0, 1}] /\ tag' \in [Conns -> Nat]
      BY DEF TypeOK
    <3>3. /\ queue' = queue /\ seen' = seen /\ lost' \subseteq Conns
          /\ head' \in [Conns -> 0..QSize-1] /\ tail' \in [Conns -> 0..QSize-1]
      BY <3>1, ClearType
    <3> QED BY <2>10, <3>2, <3>3 DEF TypeOK, SelectReturns, ioVars, scanVars
  <2>11. CASE Timer
    <3> DEFINE over == {j \in Conns : sock[j] = 1 /\ tag[j] >= TimedOut}
    <3>1. Clear(over)
      BY <2>11 DEF Timer
    <3>2. sock' \in [Conns -> {0, 1}] /\ tag' \in [Conns -> Nat]
      BY <2>11 DEF TypeOK, Timer
    <3> HIDE DEF over
    <3> QED BY <2>11, <3>1, <3>2, ClearType DEF TypeOK, Timer, ioVars, scanVars
  <2>12. ASSUME NEW j \in Conns, Send(j) PROVE TypeOK'
    <3>1. head' \in [Conns -> 0..QSize-1]
      <4>1. (head[j] + 1) % QSize \in 0..QSize-1
        BY HeadNext
      <4> QED BY <2>12, <4>1 DEF TypeOK, Send
    <3>2. seen' \in [Conns -> SUBSET (Onus \X Ios)]
      <4>1. First(j) \in Alarm
        BY DEF TypeOK, First
      <4>2. Told(seen[j], First(j)) \subseteq Onus \X Ios
        BY <4>1 DEF TypeOK, Told, Alarm
      <4> QED BY <2>12, <4>2 DEF TypeOK, Send
    <3> QED BY <2>12, <3>1, <3>2 DEF TypeOK, Send, ioVars, netVars, scanVars
  <2>13. ASSUME NEW j \in Conns, SendGivesUp(j) PROVE TypeOK'
    <3>1. (head[j] + 1) % QSize \in 0..QSize-1
      BY HeadNext
    <3> QED BY <2>13, <3>1 DEF TypeOK, SendGivesUp, ioVars, netVars, scanVars
  <2>14. ASSUME NEW j \in Conns, SendFails(j) PROVE TypeOK'
    BY <2>14 DEF TypeOK, SendFails, ioVars, ringVars, scanVars, histVars
  <2>15. CASE PassEnd
    BY <2>15 DEF TypeOK, PassEnd, ioVars, ringVars, netVars, scanVars, histVars
  <2>16. CASE UNCHANGED vars
    BY <2>16 DEF TypeOK, vars, ioVars, ringVars, netVars, scanVars, histVars
  <2> QED
    BY <2>1, <2>2, <2>3, <2>4, <2>5, <2>6, <2>7, <2>8, <2>9, <2>10, <2>11, <2>12, <2>13,
       <2>14, <2>15, <2>16 DEF Next, Pass
<1> QED BY <1>1, <1>2, PTL DEF Spec

----------------------------------------------------------------------------
\* A socket is open only while its connect is timed or done.
THEOREM SocketTimedHolds == Spec => []SocketTimed
<1>1. Init => SocketTimed
  BY DEF Init, SocketTimed
<1>2. TypeOK /\ SocketTimed /\ [Next]_vars => SocketTimed'
  <2> SUFFICES ASSUME TypeOK, SocketTimed, [Next]_vars PROVE SocketTimed'
    OBVIOUS
  <2>1. CASE UNCHANGED netVars
    BY <2>1 DEF SocketTimed, netVars
  <2>2. CASE Idling \/ SelectError
    BY <2>2 DEF SocketTimed, Idling, SelectError
  <2>3. CASE Connect
    BY <2>3 DEF TypeOK, SocketTimed, Connect, Unconnected
  <2>4. CASE SelectReturns
    BY <2>4 DEF TypeOK, SocketTimed, SelectReturns
  <2>5. CASE Timer
    BY <2>5 DEF TypeOK, SocketTimed, Timer
  <2>6. ASSUME NEW j \in Conns, SendFails(j) PROVE SocketTimed'
    BY <2>6 DEF TypeOK, SocketTimed, SendFails
  <2>7. ASSUME NEW o \in Onus, NEW s \in SUBSET Ios, Report(o, s) PROVE UNCHANGED netVars
    BY <2>7 DEF Report
  <2>8. ASSUME Scan \/ CheckOnu \/ CheckIo \/ CheckIoEnd \/ Working \/ PassEnd
        PROVE  UNCHANGED netVars
    BY <2>8 DEF Scan, CheckOnu, CheckIo, CheckIoEnd, Working, PassEnd
  <2>9. ASSUME NEW j \in Conns, Send(j) \/ SendGivesUp(j) PROVE UNCHANGED netVars
    BY <2>9 DEF Send, SendGivesUp
  <2>10. UNCHANGED vars => UNCHANGED netVars
    BY DEF vars
  <2> QED
    BY <2>1, <2>2, <2>3, <2>4, <2>5, <2>6, <2>7, <2>8, <2>9, <2>10 DEF Next, Pass
<1> QED BY <1>1, <1>2, TypeCorrect, PTL DEF Spec

----------------------------------------------------------------------------
(* The rings. *)

\* A number that has passed the ring once.
LEMMA ModOnce ==
  ASSUME NEW q \in Nat, q > 0, NEW n \in Nat, n < 2 * q
  PROVE  n % q = IF n < q THEN n ELSE n - q
<1>1. CASE n < q
  BY <1>1, SMT
<1>2. CASE n >= q
  <2>1. n - q \in 0..q-1
    BY <1>2
  <2>2. n = 1 * q + (n - q)
    BY <1>2
  <2> QED BY <2>1, <2>2, <1>2, SMT
<1> QED BY <1>1, <1>2

LEMMA RingMod ==
  ASSUME NEW n \in Nat, n < 2 * QSize
  PROVE  n % QSize = IF n < QSize THEN n ELSE n - QSize
<1>1. QSize \in Nat /\ QSize > 0
  OBVIOUS
<1> QED BY <1>1, ModOnce

LEMMA CountIs ==
  ASSUME NEW h \in 0..QSize-1, NEW t \in 0..QSize-1
  PROVE  Count(h, t) = IF h <= t THEN t - h ELSE t - h + QSize
<1>1. t - h + QSize \in Nat /\ t - h + QSize < 2 * QSize
  OBVIOUS
<1>2. Count(h, t) = IF t - h + QSize < QSize THEN t - h + QSize ELSE t - h
  BY <1>1, RingMod DEF Count
<1> QED BY <1>2

\* A ring that is not full gets one more element, behind the others.
LEMMA RingPut ==
  ASSUME NEW h \in 0..QSize-1, NEW t \in 0..QSize-1, Count(h, t) # QSize - 1
  PROVE  /\ Count(h, t) \in Nat /\ t - h # QSize - 1
         /\ Count(h, (t + 1) % QSize) = Count(h, t) + 1
         /\ (h + (Count(h, t) + 1) - 1) % QSize = t
         /\ \A n \in 1..Count(h, t) : (h + n - 1) % QSize \in (0..QSize-1) \ {t}
<1>1. (t + 1) % QSize = IF t + 1 < QSize THEN t + 1 ELSE 0
  <2>1. t + 1 \in Nat /\ t + 1 < 2 * QSize
    OBVIOUS
  <2> QED BY <2>1, RingMod
<1>2. Count(h, t) = IF h <= t THEN t - h ELSE t - h + QSize
  BY CountIs
<1>3. (t + 1) % QSize \in 0..QSize-1
  BY <1>1
<1>4. Count(h, (t + 1) % QSize) = Count(h, t) + 1
  <2>1. Count(h, (t + 1) % QSize) = IF h <= (t + 1) % QSize THEN ((t + 1) % QSize) - h
                                    ELSE ((t + 1) % QSize) - h + QSize
    BY <1>3, CountIs
  <2> QED BY <1>1, <1>2, <2>1
<1>5. ASSUME NEW n \in 1..Count(h, t) + 1
      PROVE  (h + n - 1) % QSize = IF h + n - 1 < QSize THEN h + n - 1 ELSE h + n - 1 - QSize
  <2>1. h + n - 1 \in Nat /\ h + n - 1 < 2 * QSize
    BY <1>2
  <2> QED BY <2>1, RingMod
<1>6. Count(h, t) \in Nat
  BY <1>2
<1>7. (h + (Count(h, t) + 1) - 1) % QSize = t
  <2>1. Count(h, t) + 1 \in 1..Count(h, t) + 1
    BY <1>6
  <2> QED BY <1>2, <1>5, <2>1
<1>8. ASSUME NEW n \in 1..Count(h, t)
      PROVE  (h + n - 1) % QSize \in (0..QSize-1) \ {t}
  <2>1. n \in 1..Count(h, t) + 1
    BY <1>6
  <2> QED BY <1>2, <1>5, <2>1
<1> QED BY <1>2, <1>4, <1>6, <1>7, <1>8

\* A ring that is not empty loses its first element, and the others follow.
LEMMA RingTake ==
  ASSUME NEW h \in 0..QSize-1, NEW t \in 0..QSize-1, h # t
  PROVE  /\ Count(h, t) \in Nat \ {0}
         /\ Count((h + 1) % QSize, t) = Count(h, t) - 1
         /\ (h + 1 - 1) % QSize = h
         /\ \A n \in 1..Count(h, t) - 1 :
              (((h + 1) % QSize) + n - 1) % QSize = (h + (n + 1) - 1) % QSize
<1> DEFINE g == (h + 1) % QSize
<1>1. g = IF h + 1 < QSize THEN h + 1 ELSE 0
  <2>1. h + 1 \in Nat /\ h + 1 < 2 * QSize
    OBVIOUS
  <2> QED BY <2>1, RingMod
<1>2. Count(h, t) = IF h <= t THEN t - h ELSE t - h + QSize
  BY CountIs
<1>3. Count(g, t) = Count(h, t) - 1
  <2> HIDE DEF g
  <2>1. g \in 0..QSize-1
    BY <1>1
  <2>2. Count(g, t) = IF g <= t THEN t - g ELSE t - g + QSize
    BY <2>1, CountIs
  <2> QED BY <1>1, <1>2, <2>2
<1>4. (h + 1 - 1) % QSize = h
  <2>1. h + 1 - 1 = h /\ h \in Nat /\ h < 2 * QSize
    OBVIOUS
  <2> QED BY <2>1, RingMod
<1>5. ASSUME NEW n \in 1..Count(h, t) - 1
      PROVE  (g + n - 1) % QSize = (h + (n + 1) - 1) % QSize
  <2> HIDE DEF g
  <2>1. h + (n + 1) - 1 = h + n /\ h + n \in Nat /\ h + n < 2 * QSize
    BY <1>2
  <2>2. (h + n) % QSize = IF h + n < QSize THEN h + n ELSE h + n - QSize
    BY <2>1, RingMod
  <2>3. g + n - 1 \in Nat /\ g + n - 1 < 2 * QSize
    BY <1>1, <1>2
  <2>4. (g + n - 1) % QSize = IF g + n - 1 < QSize THEN g + n - 1 ELSE g + n - 1 - QSize
    <3>1. g \in Nat
      BY <1>1
    <3> QED BY <2>3, <3>1, RingMod
  <2>5. h + n < QSize \/ h + 1 = QSize \/ (h + n >= QSize /\ h + 1 < QSize)
    OBVIOUS
  <2> QED BY <1>1, <1>2, <2>1, <2>2, <2>4, <2>5
<1> QED BY <1>2, <1>3, <1>4, <1>5

----------------------------------------------------------------------------
(* What a server knows. *)

\* What a server that takes `view' to be on takes x to be after the alarms in
\* pend.
Sees(view, pend, x) ==
  LET about == {n \in DOMAIN pend : <<pend[n].onu, pend[n].io>> = x} IN
  IF about = {} THEN x \in view
  ELSE \E n \in about : /\ \A k \in about : k <= n
                        /\ pend[n].type = "IO"

LEMMA SeesPending == \A j, x : WillSee(j, x) <=> Sees(seen[j], Pending(j), x)
  BY DEF WillSee, Sees

\* One more alarm at the end decides for its input.
LEMMA SeesAppended ==
  ASSUME NEW c \in Nat, NEW pend, NEW longer, NEW a, NEW view, NEW x,
         DOMAIN pend = 1..c, DOMAIN longer = 1..c+1,
         \A n \in 1..c : longer[n] = pend[n], longer[c+1] = a
  PROVE  Sees(view, longer, x) <=> IF <<a.onu, a.io>> = x THEN a.type = "IO"
                                                          ELSE Sees(view, pend, x)
<1> DEFINE about(p) == {n \in DOMAIN p : <<p[n].onu, p[n].io>> = x}
<1>1. CASE <<a.onu, a.io>> = x
  <2>1. c+1 \in about(longer) /\ \A k \in about(longer) : k <= c+1
    BY <1>1
  <2>2. ASSUME NEW n \in about(longer), \A k \in about(longer) : k <= n PROVE n = c+1
    BY <2>1, <2>2
  <2> QED BY <1>1, <2>1, <2>2 DEF Sees
<1>2. CASE <<a.onu, a.io>> # x
  <2>1. about(longer) = about(pend) /\ \A n \in about(pend) : longer[n] = pend[n]
    BY <1>2
  <2> QED BY <1>2, <2>1 DEF Sees
<1> QED BY <1>1, <1>2

\* The first alarm decides if no other does.
LEMMA SeesTold ==
  ASSUME NEW c \in Nat \ {0}, NEW pend, NEW rest, NEW view, NEW x,
         DOMAIN pend = 1..c, DOMAIN rest = 1..c-1,
         \A n \in 1..c-1 : rest[n] = pend[n+1]
  PROVE  Sees(Told(view, pend[1]), rest, x) <=> Sees(view, pend, x)
<1> DEFINE about(p) == {n \in DOMAIN p : <<p[n].onu, p[n].io>> = x}
<1>1. \A n \in 1..c-1 : n \in about(rest) <=> n+1 \in about(pend)
  OBVIOUS
<1>2. CASE about(rest) = {}
  <2>1. about(pend) \subseteq {1}
    <3>1. ASSUME NEW n \in about(pend), n # 1 PROVE FALSE
      <4>1. n-1 \in 1..c-1 /\ (n-1)+1 = n
        BY <3>1
      <4> QED BY <1>1, <1>2, <3>1, <4>1
    <3> QED BY <3>1
  <2>2. Sees(Told(view, pend[1]), rest, x) <=> x \in Told(view, pend[1])
    BY <1>2 DEF Sees
  <2>3. CASE 1 \in about(pend)
    <3>1. about(pend) = {1}
      BY <2>1, <2>3
    <3>2. Sees(view, pend, x) <=> pend[1].type = "IO"
      BY <3>1 DEF Sees
    <3>3. x = <<pend[1].onu, pend[1].io>>
      BY <2>3
    <3>4. x \in Told(view, pend[1]) <=> pend[1].type = "IO"
      BY <3>3 DEF Told
    <3> QED BY <2>2, <3>2, <3>4
  <2>4. CASE 1 \notin about(pend)
    <3>1. about(pend) = {}
      BY <2>1, <2>4
    <3>2. Sees(view, pend, x) <=> x \in view
      BY <3>1 DEF Sees
    <3>3. x # <<pend[1].onu, pend[1].io>>
      BY <2>4
    <3>4. x \in Told(view, pend[1]) <=> x \in view
      BY <3>3 DEF Told
    <3> QED BY <2>2, <3>2, <3>4
  <2> QED BY <2>3, <2>4
<1>3. CASE about(rest) # {}
  <2>1. PICK k \in 1..c-1 : k \in about(rest)
    BY <1>3
  <2>2. k+1 \in about(pend)
    BY <1>1, <2>1
  <2>3. Sees(Told(view, pend[1]), rest, x) <=>
          \E n \in about(rest) : (\A l \in about(rest) : l <= n) /\ rest[n].type = "IO"
    BY <1>3 DEF Sees
  <2>4. Sees(view, pend, x) <=>
          \E n \in about(pend) : (\A l \in about(pend) : l <= n) /\ pend[n].type = "IO"
    BY <2>2 DEF Sees
  <2>5. ASSUME NEW n \in about(rest), \A l \in about(rest) : l <= n
        PROVE  n+1 \in about(pend) /\ (\A l \in about(pend) : l <= n+1) /\ rest[n] = pend[n+1]
    <3>1. n+1 \in about(pend) /\ rest[n] = pend[n+1]
      BY <1>1, <2>5
    <3>2. ASSUME NEW l \in about(pend), l > n+1 PROVE FALSE
      <4>1. l-1 \in 1..c-1 /\ (l-1)+1 = l
        BY <3>2, <2>5
      <4>2. l-1 \in about(rest)
        BY <1>1, <3>2, <4>1
      <4> QED BY <2>5, <3>2, <4>2
    <3> QED BY <3>1, <3>2
  <2>6. ASSUME NEW n \in about(pend), \A l \in about(pend) : l <= n
        PROVE  n-1 \in about(rest) /\ (\A l \in about(rest) : l <= n-1) /\ rest[n-1] = pend[n]
    <3>1. k+1 <= n
      BY <2>2, <2>6
    <3>2. n-1 \in 1..c-1 /\ (n-1)+1 = n
      BY <2>6, <3>1
    <3>3. n-1 \in about(rest) /\ rest[n-1] = pend[n]
      BY <1>1, <2>6, <3>2
    <3>4. ASSUME NEW l \in about(rest) PROVE l <= n-1
      <4>1. l+1 \in about(pend)
        BY <1>1
      <4> QED BY <2>6, <4>1
    <3> QED BY <3>3, <3>4
  <2> QED BY <2>3, <2>4, <2>5, <2>6
<1> QED BY <1>2, <1>3

LEMMA ClearSees ==
  ASSUME TypeOK, NEW D \in SUBSET Conns, Clear(D), NEW j \in Conns \ lost', NEW x
  PROVE  j \notin lost /\ (WillSee(j, x)' <=> WillSee(j, x))
<1>1. /\ queue' = queue /\ seen' = seen /\ lost' = lost \cup {k \in D : head[k] # tail[k]}
      /\ head'[j] = IF j \in D THEN 0 ELSE head[j]
      /\ tail'[j] = IF j \in D THEN 0 ELSE tail[j]
  BY DEF Clear
<1>2. head[j] \in 0..QSize-1 /\ tail[j] \in 0..QSize-1
  BY DEF TypeOK
<1>3. Pending(j)' = Pending(j)
  <2>1. CASE j \in D
    <3>1. head[j] = tail[j] /\ head'[j] = 0 /\ tail'[j] = 0
      BY <1>1, <2>1
    <3>2. Count(head[j], tail[j]) = 0 /\ Count(0, 0) = 0
      BY <1>2, <3>1, CountIs
    <3> QED BY <3>1, <3>2 DEF Pending
  <2>2. CASE j \notin D
    BY <1>1, <2>2 DEF Pending
  <2> QED BY <2>1, <2>2
<1> QED BY <1>1, <1>3, SeesPending DEF WillSee

LEMMA PutSees ==
  ASSUME TypeOK, NEW a \in Alarm, Put(a), NEW j \in Conns \ lost', NEW x
  PROVE  /\ j \notin lost
         /\ WillSee(j, x)' <=> IF <<a.onu, a.io>> = x THEN a.type = "IO" ELSE WillSee(j, x)
<1> DEFINE h == head[j]
           t == tail[j]
           c == Count(h, t)
<1>1. h \in 0..QSize-1 /\ t \in 0..QSize-1 /\ queue[j] \in [0..QSize-1 -> Alarm]
  BY DEF TypeOK
<1>2. j \notin lost /\ c # QSize - 1 /\ seen' = seen
  BY DEF Put
<1>3. /\ c \in Nat /\ t - h # QSize - 1
      /\ Count(h, (t + 1) % QSize) = c + 1 /\ (h + (c + 1) - 1) % QSize = t
      /\ \A n \in 1..c : (h + n - 1) % QSize \in (0..QSize-1) \ {t}
  <2> HIDE DEF h, t
  <2> QED BY <1>1, <1>2, RingPut
<1>4. /\ head'[j] = h /\ tail'[j] = (t + 1) % QSize
      /\ queue'[j] = [queue[j] EXCEPT ![t] = a]
  BY <1>3 DEF Put
<1>5. /\ Pending(j) = [n \in 1..c |-> queue[j][(h + n - 1) % QSize]]
      /\ Pending(j)' = [n \in 1..c+1 |-> queue'[j][(h + n - 1) % QSize]]
  BY <1>3, <1>4 DEF Pending
<1> HIDE DEF h, t, c
<1>6. ASSUME NEW n \in 1..c PROVE Pending(j)'[n] = Pending(j)[n]
  <2>1. n \in 1..c+1
    BY <1>3
  <2>2. (h + n - 1) % QSize \in (0..QSize-1) \ {t}
    BY <1>3
  <2>3. queue'[j][(h + n - 1) % QSize] = queue[j][(h + n - 1) % QSize]
    BY <1>1, <1>4, <2>2
  <2> QED BY <1>5, <2>1, <2>3
<1>7. Pending(j)'[c+1] = a
  <2>1. c + 1 \in 1..c+1
    BY <1>3
  <2>2. queue'[j][t] = a
    BY <1>1, <1>4
  <2> QED BY <1>3, <1>5, <2>1, <2>2
<1>8. DOMAIN Pending(j) = 1..c /\ DOMAIN Pending(j)' = 1..c+1
  BY <1>5
<1>9. Sees(seen[j], Pending(j)', x) <=> IF <<a.onu, a.io>> = x THEN a.type = "IO"
                                        ELSE Sees(seen[j], Pending(j), x)
  BY <1>3, <1>6, <1>7, <1>8, SeesAppended
<1>10. WillSee(j, x)' <=> Sees(seen'[j], Pending(j)', x)
  BY DEF WillSee, Sees
<1> QED BY <1>2, <1>9, <1>10, SeesPending

LEMMA SendSees ==
  ASSUME TypeOK, NEW j \in Conns, Send(j), NEW x
  PROVE  WillSee(j, x)' <=> WillSee(j, x)
<1> DEFINE h == head[j]
           t == tail[j]
           c == Count(h, t)
<1>1. h \in 0..QSize-1 /\ t \in 0..QSize-1 /\ h # t
  BY DEF TypeOK, Send, Sending
<1>2. /\ c \in Nat \ {0} /\ Count((h + 1) % QSize, t) = c - 1 /\ (h + 1 - 1) % QSize = h
      /\ \A n \in 1..c-1 : (((h + 1) % QSize) + n - 1) % QSize = (h + (n + 1) - 1) % QSize
  <2> HIDE DEF h, t
  <2> QED BY <1>1, RingTake
<1>3. /\ head'[j] = (h + 1) % QSize /\ tail'[j] = t /\ queue' = queue
      /\ seen'[j] = Told(seen[j], queue[j][h])
  BY DEF Send, First, TypeOK
<1>4. /\ Pending(j) = [n \in 1..c |-> queue[j][(h + n - 1) % QSize]]
      /\ Pending(j)' = [n \in 1..c-1 |-> queue[j][(((h + 1) % QSize) + n - 1) % QSize]]
  BY <1>2, <1>3 DEF Pending
<1> HIDE DEF h, t, c
<1>5. ASSUME NEW n \in 1..c-1 PROVE Pending(j)'[n] = Pending(j)[n+1]
  <2>1. n+1 \in 1..c
    BY <1>2
  <2>2. (((h + 1) % QSize) + n - 1) % QSize = (h + (n + 1) - 1) % QSize
    BY <1>2
  <2>3. Pending(j)[n+1] = queue[j][(h + (n + 1) - 1) % QSize]
    BY <1>4, <2>1
  <2>4. Pending(j)'[n] = queue[j][(((h + 1) % QSize) + n - 1) % QSize]
    BY <1>4
  <2> QED BY <2>2, <2>3, <2>4
<1>6. Pending(j)[1] = queue[j][h]
  <2>1. 1 \in 1..c
    BY <1>2
  <2> QED BY <1>2, <1>4, <2>1
<1>7. DOMAIN Pending(j) = 1..c /\ DOMAIN Pending(j)' = 1..c-1
  BY <1>4
<1>8. Sees(Told(seen[j], Pending(j)[1]), Pending(j)', x) <=> Sees(seen[j], Pending(j), x)
  BY <1>2, <1>5, <1>7, SeesTold
<1>9. WillSee(j, x)' <=> Sees(seen'[j], Pending(j)', x)
  BY DEF WillSee, Sees
<1> QED BY <1>3, <1>6, <1>8, <1>9, SeesPending

\* Between two scans no input is being looked at.
AtRest == pc # "check" => idx = 0

\* What is reported changes with an alarm only.
LEMMA ReportedKept ==
  ASSUME TypeOK, AtRest, [Next]_vars
  PROVE  /\ CheckIo /\ Raising => \A x \in Onus \X Ios :
              x \in Reported' <=> IF x = <<i, idx>> THEN idx \in ioNew[i] ELSE x \in Reported
         /\ ~(CheckIo /\ Raising) => Reported' = Reported
<1>t. /\ ioState \in [Onus -> SUBSET Ios] /\ ioNew \in [Onus -> SUBSET Ios]
      /\ idx \in 0..NumIos+1 /\ i \in 1..NumOnus+1 /\ (idx # 0 => i \in Onus)
  BY DEF TypeOK
<1>i. \A x \in Onus \X Ios : x[1] \in Onus /\ x[2] \in Ios /\ x[2] > 0 /\ x[2] <= NumIos
  BY DEF Ios
<1>1. CASE CheckIo
  <2>1. idx \in Ios /\ idx' = idx + 1 /\ i' = i /\ UNCHANGED <<ioState, ioNew>>
    BY <1>1 DEF CheckIo, ioVars
  <2>2. ASSUME NEW x \in Onus \X Ios
        PROVE  x \in Reported' <=> IF x = <<i, idx>> THEN idx \in ioNew[i] ELSE x \in Reported
    <3>1. x = <<x[1], x[2]>> /\ x[2] \in Nat /\ idx \in Nat
      BY <1>i, <2>1 DEF Ios
    <3>2. x \in Reported' <=> x[2] \in IF x[1] = i /\ idx + 1 > x[2] THEN ioNew[x[1]] ELSE ioState[x[1]]
      BY <2>1 DEF Reported
    <3>3. x \in Reported <=> x[2] \in IF x[1] = i /\ idx > x[2] THEN ioNew[x[1]] ELSE ioState[x[1]]
      BY DEF Reported
    <3> QED BY <3>1, <3>2, <3>3
  <2>3. ~Raising => (idx \in ioNew[i] <=> <<i, idx>> \in Reported)
    <3>1. SUFFICES ASSUME ~Raising PROVE idx \in ioNew[i] <=> <<i, idx>> \in Reported
      OBVIOUS
    <3>2. idx \in ioNew[i] <=> idx \in ioState[i]
      BY <1>1, <2>1, <3>1 DEF CheckIo, Raising, Differs
    <3>3. <<i, idx>> \in Onus \X Ios
      BY <1>t, <2>1 DEF Ios
    <3> QED BY <3>2, <3>3 DEF Reported
  <2>4. ~Raising => \A x \in Onus \X Ios : x \in Reported' <=> x \in Reported
    BY <2>2, <2>3
  <2>5. Reported \subseteq Onus \X Ios /\ Reported' \subseteq Onus \X Ios
    BY DEF Reported
  <2>6. ~Raising => Reported' = Reported
    BY <2>4, <2>5
  <2> QED BY <1>1, <2>2, <2>6
<1>2. CASE CheckIoEnd
  <2>1. /\ i \in Onus /\ idx > NumIos /\ idx' = 0 /\ ioNew' = ioNew
        /\ ioState' = [ioState EXCEPT ![i] = ioNew[i]]
    BY <1>t, <1>2 DEF CheckIoEnd
  <2>2. ASSUME NEW x \in Onus \X Ios PROVE x \in Reported' <=> x \in Reported
    <3>a. NumIos \in Nat /\ idx \in Nat
      BY <1>t, AlarmUplinkAssumption
    <3>b. x[2] \in Nat /\ 0 < x[2] /\ x[2] <= NumIos
      BY <1>i, <3>a DEF Ios
    <3>1. ~(idx' > x[2]) /\ idx > x[2]
      BY <3>a, <3>b, <2>1
    <3>2. x \in Reported' <=> x[2] \in ioState'[x[1]]
      BY <3>1 DEF Reported
    <3>3. x \in Reported <=> x[2] \in IF x[1] = i THEN ioNew[x[1]] ELSE ioState[x[1]]
      BY <3>1 DEF Reported
    <3> QED BY <1>t, <1>i, <2>1, <3>2, <3>3
  <2>3. Reported \subseteq Onus \X Ios /\ Reported' \subseteq Onus \X Ios
    BY DEF Reported
  <2>4. Reported' = Reported
    BY <2>2, <2>3
  <2> QED BY <1>2, <2>1, <2>4 DEF CheckIo, Ios
<1>3. ASSUME UNCHANGED ioState, idx = 0, idx' \in {0, 1} PROVE Reported' = Reported
  <2>1. ASSUME NEW x \in Onus \X Ios
        PROVE  ~(idx > x[2]) /\ ~(idx' > x[2])
    BY <1>i, <1>3 DEF Ios
  <2>2. /\ Reported = {x \in Onus \X Ios : x[2] \in ioState[x[1]]}
        /\ Reported' = {x \in Onus \X Ios : x[2] \in ioState[x[1]]}
    BY <1>3, <2>1 DEF Reported
  <2> QED BY <2>2
<1>4. ASSUME UNCHANGED <<ioState, ioNew, i, idx>> PROVE Reported' = Reported
  BY <1>4 DEF Reported
<1>5. \/ CheckIo \/ CheckIoEnd
      \/ ~CheckIo /\ UNCHANGED ioState /\ idx = 0 /\ idx' \in {0, 1}
      \/ ~CheckIo /\ UNCHANGED <<ioState, ioNew, i, idx>>
  BY DEF Next, Pass, Report, Scan, CheckOnu, Idling, Working, Scanned, Connect, SelectError,
         SelectReturns, Timer, Send, SendGivesUp, SendFails, PassEnd, vars, ioVars, scanVars,
         AtRest
<1> QED BY <1>1, <1>2, <1>3, <1>4, <1>5

LEMMA AtRestNext == ASSUME TypeOK, AtRest, [Next]_vars PROVE AtRest'
<1>1. Scanned => idx = 0
  BY DEF Scanned, TypeOK, Onus
<1> QED BY <1>1 DEF AtRest, Next, Pass, Report, Scan, CheckOnu, CheckIo, CheckIoEnd, Idling,
           Working, Scanned, Connect, SelectError, SelectReturns, Timer, Send, SendGivesUp,
           SendFails, Sending, PassEnd, vars, scanVars

\* A server that has missed no alarm and gets those in its ring knows the state
\* of every input, whatever the size of the ring.
THEOREM ServerKnowsHolds == Spec => []ServerKnows
<1>1. ASSUME Init PROVE AtRest /\ ServerKnows
  <2>1. AtRest /\ Reported = {}
    BY <1>1 DEF Init, AtRest, Reported
  <2>2. ASSUME NEW j \in Conns, NEW x PROVE ~WillSee(j, x)
    <3>1. head[j] = 0 /\ tail[j] = 0 /\ seen[j] = {}
      BY <1>1, <2>2 DEF Init
    <3>2. Count(0, 0) = 0
      BY CountIs
    <3>3. DOMAIN Pending(j) = {}
      BY <3>1, <3>2 DEF Pending
    <3> QED BY <3>1, <3>3 DEF WillSee
  <2> QED BY <2>1, <2>2 DEF ServerKnows
<1>2. TypeOK /\ AtRest /\ ServerKnows /\ [Next]_vars => AtRest' /\ ServerKnows'
  <2> SUFFICES ASSUME TypeOK, AtRest, ServerKnows, [Next]_vars PROVE ServerKnows'
    BY AtRestNext
  <2> SUFFICES ASSUME NEW j \in Conns \ lost', NEW x \in Onus \X Ios
               PROVE  WillSee(j, x)' <=> x \in Reported'
    BY DEF ServerKnows
  <2>1. ASSUME j \notin lost, WillSee(j, x)' <=> WillSee(j, x), ~(CheckIo /\ Raising)
        PROVE  WillSee(j, x)' <=> x \in Reported'
    BY <2>1, ReportedKept DEF ServerKnows
  <2>2. CASE CheckIo /\ Raising
    <3> DEFINE a == AlarmOf(i, idx)
    <3>1. i \in Onus /\ idx \in Ios /\ Put(a)
      BY <2>2 DEF CheckIo, TypeOK, Ios
    <3>2. /\ a \in Alarm /\ <<a.onu, a.io>> = <<i, idx>>
          /\ a.type = "IO" <=> idx \in ioNew[i]
      BY <3>1 DEF AlarmOf, Alarm
    <3>3. /\ j \notin lost
          /\ WillSee(j, x)' <=> IF <<i, idx>> = x THEN idx \in ioNew[i] ELSE WillSee(j, x)
      <4> HIDE DEF a
      <4> QED BY <3>1, <3>2, PutSees
    <3>4. x \in Reported' <=> IF x = <<i, idx>> THEN idx \in ioNew[i] ELSE x \in Reported
      BY <2>2, ReportedKept
    <3> QED BY <3>3, <3>4 DEF ServerKnows
  <2>3. ASSUME NEW D \in SUBSET Conns, Clear(D), ~(CheckIo /\ Raising)
        PROVE  WillSee(j, x)' <=> x \in Reported'
    BY <2>1, <2>3, ClearSees
  <2>4. ASSUME UNCHANGED <<queue, head, tail, seen, lost>>, ~(CheckIo /\ Raising)
        PROVE  WillSee(j, x)' <=> x \in Reported'
    <3>1. WillSee(j, x)' <=> WillSee(j, x)
      BY <2>4 DEF WillSee, Pending
    <3> QED BY <2>1, <2>4, <3>1
  <2>5. ASSUME NEW k \in Conns, Send(k) PROVE WillSee(j, x)' <=> x \in Reported'
    <3>1. ~CheckIo /\ j \notin lost
      BY <2>5 DEF Send, Sending, CheckIo
    <3>2. CASE k = j
      BY <2>1, <2>5, <3>1, <3>2, SendSees
    <3>3. CASE k # j
      <4>1. /\ queue' = queue /\ tail' = tail /\ head'[j] = head[j] /\ seen'[j] = seen[j]
        BY <2>5, <3>3 DEF Send, TypeOK
      <4>2. WillSee(j, x)' <=> WillSee(j, x)
        BY <4>1 DEF WillSee, Pending
      <4> QED BY <2>1, <3>1, <4>2
    <3> QED BY <3>2, <3>3
  <2>6. ASSUME NEW k \in Conns, SendGivesUp(k) PROVE WillSee(j, x)' <=> x \in Reported'
    <3>1. ~CheckIo /\ j \notin lost /\ j # k
      BY <2>6 DEF SendGivesUp, Sending, CheckIo
    <3>2. /\ queue' = queue /\ tail' = tail /\ head'[j] = head[j] /\ seen' = seen
      BY <2>6, <3>1 DEF SendGivesUp, TypeOK
    <3>3. WillSee(j, x)' <=> WillSee(j, x)
      BY <3>2 DEF WillSee, Pending
    <3> QED BY <2>1, <3>1, <3>3
  <2>7. \/ CheckIo /\ Raising
        \/ /\ ~(CheckIo /\ Raising)
           /\ \/ \E D \in SUBSET Conns : Clear(D)
              \/ UNCHANGED <<queue, head, tail, seen, lost>>
        \/ \E k \in Conns : Send(k) \/ SendGivesUp(k)
    <3>1. CheckIo => Raising \/ UNCHANGED <<queue, head, tail, seen, lost>>
      BY DEF CheckIo, ringVars, histVars
    <3>2. Idling \/ Connect \/ SelectError \/ SelectReturns \/ Timer =>
            \E D \in SUBSET Conns : Clear(D)
      <4>1. Unconnected \ Configured \in SUBSET Conns /\ Watched \in SUBSET Conns
            /\ {k \in Conns : sock[k] = 1 /\ tag[k] >= TimedOut} \in SUBSET Conns
        BY DEF Unconnected, Watched
      <4>2. Idling \/ SelectError => Clear(Conns)
        BY DEF Idling, SelectError
      <4>3. Connect => Clear(Unconnected \ Configured)
        BY DEF Connect
      <4>4. SelectReturns => \E D \in SUBSET Watched : Clear(D)
        BY DEF SelectReturns
      <4>5. Timer => Clear({k \in Conns : sock[k] = 1 /\ tag[k] >= TimedOut})
        BY DEF Timer
      <4> QED BY <4>1, <4>2, <4>3, <4>4, <4>5
    <3>3. Idling \/ Connect \/ SelectError \/ SelectReturns \/ Timer => ~(CheckIo /\ Raising)
      BY DEF Idling, Scanned, Connect, SelectError, SelectReturns, Timer, CheckIo, Ios, TypeOK,
             Onus
    <3>4. \/ CheckIo \/ Idling \/ Connect \/ SelectError \/ SelectReturns \/ Timer
          \/ UNCHANGED <<queue, head, tail, seen, lost>>
          \/ \E k \in Conns : Send(k) \/ SendGivesUp(k)
      BY DEF Next, Pass, Report, Scan, CheckOnu, CheckIoEnd, Working, SendFails, PassEnd, vars,
             ringVars, histVars
    <3> QED BY <3>1, <3>2, <3>3, <3>4
  <2> QED BY <2>2, <2>3, <2>4, <2>5, <2>6, <2>7
<1> QED BY <1>1, <1>2, TypeCorrect, PTL DEF Spec
=============================================================================
