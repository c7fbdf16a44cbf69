--------------------------- MODULE OnuTreeProofs ---------------------------
(***************************************************************************)
(* Theorems about OnuTree: its types, and that the table follows the card's  *)
(* list unless something was lost.  What makes TreeFollows inductive is that *)
(* reduce_flag is set only while an alarm is queued after which the list is  *)
(* read (or a full queue has lost it), and that every round of               *)
(* handle_onulist that changes the topology has something to tell.           *)
(***************************************************************************)
EXTENDS OnuTree, TLAPS

\* reduce_flag means that an alarm is queued after which the list is read.
FlagTrue == reduce => loss = "full" \/ \E i \in 1..Len(queue) : IsList(queue[i])

\* A round goes on only if a map has changed, and tells only what has the
\* agent read the list.
RoundTrue ==
  /\ lpc = "topo" => now # prev
  /\ lpc = "nodes" => sys = On(now) /\ sys # On(prev)
  /\ \A i \in 1..Len(say) : IsList(say[i])

IInv == TypeOK /\ FlagTrue /\ RoundTrue /\ TreeFollows

----------------------------------------------------------------------------
(* Sequences and the alarm queue. *)

LEMMA TailType ==
  ASSUME NEW S, NEW s \in Seq(S), s # <<>>
  PROVE  /\ Head(s) \in S /\ Tail(s) \in Seq(S) /\ Len(Tail(s)) = Len(s) - 1
         /\ \A i \in 1..Len(Tail(s)) : Tail(s)[i] = s[i + 1]
  OBVIOUS

LEMMA ElementType ==
  ASSUME NEW S, NEW s \in Seq(S), NEW i \in 1..Len(s)
  PROVE  s[i] \in S
  OBVIOUS

LEMMA AppendType ==
  ASSUME NEW S, NEW s \in Seq(S), NEW x \in S
  PROVE  /\ Append(s, x) \in Seq(S) /\ Len(Append(s, x)) = Len(s) + 1
         /\ \A i \in 1..Len(s) : Append(s, x)[i] = s[i]
         /\ Append(s, x)[Len(s) + 1] = x
  OBVIOUS

\* What gen_fsa_alarm keeps.
LEMMA GenKeeps ==
  ASSUME TypeOK, FlagTrue, NEW a \in Alarm, Gen(a)
  PROVE  /\ queue' \in Seq(Alarm) /\ Len(queue') <= MaxQueue
         /\ reduce' \in BOOLEAN /\ loss' \in Losses
         /\ FlagTrue'
         /\ loss # "none" => loss' # "none"
         /\ (\E i \in 1..Len(queue) : IsList(queue[i]))
              => loss' # "none" \/ \E i \in 1..Len(queue') : IsList(queue'[i])
         /\ IsList(a) => loss' # "none" \/ \E i \in 1..Len(queue') : IsList(queue'[i])
<1> DEFINE drop == reduce /\ a.type \in {"ONUNAMECHG", "ONUSNCHG"}
           full == Len(queue) = MaxQueue
<1>1. queue \in Seq(Alarm) /\ Len(queue) <= MaxQueue /\ reduce \in BOOLEAN /\ loss \in Losses
      /\ MaxQueue \in Nat \ {0}
  BY OnuTreeAssumption DEF TypeOK
<1>2. CASE drop
  <2>1. queue' = queue /\ loss' = loss /\ reduce' = reduce
    BY <1>1, <1>2 DEF Gen
  <2> QED BY <1>1, <1>2, <2>1 DEF FlagTrue, IsList
<1>3. CASE ~drop /\ ~full
  <2>1. queue' = Append(queue, a) /\ loss' = loss /\ reduce' = (reduce \/ IsList(a))
    BY <1>1, <1>3 DEF Gen
  <2>2. /\ queue' \in Seq(Alarm) /\ Len(queue') = Len(queue) + 1
        /\ \A i \in 1..Len(queue) : queue'[i] = queue[i]
        /\ queue'[Len(queue) + 1] = a
    BY <1>1, <2>1, AppendType
  <2>3. Len(queue) \in Nat
    BY <1>1
  <2>4. (\E i \in 1..Len(queue) : IsList(queue[i])) => \E i \in 1..Len(queue') : IsList(queue'[i])
    BY <2>2, <2>3
  <2>5. IsList(a) => \E i \in 1..Len(queue') : IsList(queue'[i])
    BY <2>2, <2>3
  <2>6. reduce' \in BOOLEAN
    BY <1>1, <2>1 DEF IsList
  <2>7. FlagTrue'
    BY <2>1, <2>4, <2>5 DEF FlagTrue
  <2> QED BY <1>1, <1>3, <2>1, <2>2, <2>3, <2>4, <2>5, <2>6, <2>7
<1>4. CASE ~drop /\ full
  <2>1. /\ queue' = Append(Tail(queue), a) /\ reduce' = (reduce \/ IsList(a))
        /\ loss' = IF Matters(Head(queue)) THEN "full" ELSE loss
    BY <1>1, <1>4 DEF Gen
  <2>2. queue # <<>> /\ Len(queue) \in Nat \ {0}
    BY <1>1, <1>4
  <2>3. /\ Tail(queue) \in Seq(Alarm) /\ Len(Tail(queue)) = Len(queue) - 1
        /\ \A i \in 1..Len(Tail(queue)) : Tail(queue)[i] = queue[i + 1]
    BY <1>1, <2>2, TailType
  <2>4. /\ queue' \in Seq(Alarm) /\ Len(queue') = Len(Tail(queue)) + 1
        /\ \A i \in 1..Len(Tail(queue)) : queue'[i] = Tail(queue)[i]
        /\ queue'[Len(Tail(queue)) + 1] = a
    BY <2>1, <2>3, AppendType
  <2>5. IsList(queue[1]) => loss' = "full"
    BY <1>1, <2>1, <2>2 DEF Matters
  <2>6. ASSUME NEW i \in 1..Len(queue), IsList(queue[i])
        PROVE  loss' = "full" \/ \E k \in 1..Len(queue') : IsList(queue'[k])
    <3>1. CASE i = 1
      BY <2>5, <2>6, <3>1
    <3>2. CASE i # 1
      <4>1. i - 1 \in 1..Len(Tail(queue)) /\ (i - 1) + 1 = i
        BY <2>2, <2>3, <3>2
      <4>2. queue'[i - 1] = queue[i]
        BY <2>3, <2>4, <4>1
      <4>3. i - 1 \in 1..Len(queue')
        BY <2>2, <2>3, <2>4, <4>1
      <4> QED BY <2>6, <4>2, <4>3
    <3> QED BY <3>1, <3>2
  <2>7. IsList(a) => \E k \in 1..Len(queue') : IsList(queue'[k])
    BY <2>2, <2>3, <2>4
  <2>8. reduce' \in BOOLEAN /\ loss' \in Losses /\ (loss = "full" => loss' = "full")
        /\ (loss # "none" => loss' # "none")
    BY <1>1, <2>1 DEF IsList, Losses
  <2>9. FlagTrue'
    BY <2>1, <2>6, <2>7, <2>8 DEF FlagTrue
  <2> QED BY <1>1, <1>4, <2>2, <2>3, <2>4, <2>6, <2>7, <2>8, <2>9
<1> QED BY <1>2, <1>3, <1>4

\* An alarm that is queued is taken or left.
LEMMA TakenOrLeft ==
  ASSUME TypeOK
  PROVE  /\ Taken \in Seq(Alarm) /\ Left \in Seq(Alarm) /\ Len(Left) <= MaxQueue
         /\ (\E i \in 1..Len(queue) : IsList(queue[i]))
              => \/ \E i \in 1..Len(Taken) : IsList(Taken[i])
                 \/ \E i \in 1..Len(Left) : IsList(Left[i])
<1> DEFINE n == IF Len(queue) < MaxTake THEN Len(queue) ELSE MaxTake
<1>1. queue \in Seq(Alarm) /\ Len(queue) \in Nat /\ Len(queue) <= MaxQueue /\ MaxTake \in Nat
      /\ MaxQueue \in Nat
  BY OnuTreeAssumption DEF TypeOK
<1>2. n \in Nat /\ n <= Len(queue)
  BY <1>1
<1>3. Taken = SubSeq(queue, 1, n)
  BY DEF Taken
<1> HIDE DEF n
<1>4. Taken \in Seq(Alarm) /\ Len(Taken) = n /\ \A i \in 1..n : Taken[i] = queue[i]
  BY <1>1, <1>2, <1>3
<1>5. Left = SubSeq(queue, n + 1, Len(queue))
  BY <1>4 DEF Left
<1>6. Left \in Seq(Alarm) /\ Len(Left) = Len(queue) - n
      /\ \A i \in 1..(Len(queue) - n) : Left[i] = queue[n + i]
  BY <1>1, <1>2, <1>5
<1>7. ASSUME NEW i \in 1..Len(queue), IsList(queue[i])
      PROVE  \/ \E k \in 1..Len(Taken) : IsList(Taken[k])
             \/ \E k \in 1..Len(Left) : IsList(Left[k])
  <2>1. CASE i <= n
    BY <1>2, <1>4, <1>7, <2>1
  <2>2. CASE ~(i <= n)
    <3>1. i - n \in 1..(Len(queue) - n) /\ n + (i - n) = i
      BY <1>1, <1>2, <2>2
    <3>2. Left[i - n] = queue[i]
      BY <1>6, <3>1
    <3> QED BY <1>6, <1>7, <3>1, <3>2
  <2> QED BY <2>1, <2>2
<1> QED BY <1>1, <1>2, <1>4, <1>6, <1>7

----------------------------------------------------------------------------
(* The types and the two strengthenings are kept by every step. *)

Kept == TypeOK /\ FlagTrue /\ RoundTrue

LEMMA IdleType == Idle \in Alarm /\ ~IsList(Idle) /\ Idle.type = "OTHER"
  BY DEF Idle, Alarm, IsList, ListAlarms

LEMMA NetAlarmType ==
  ASSUME NEW type \in ListAlarms
  PROVE  NetAlarm(type) \in Alarm /\ IsList(NetAlarm(type))
  BY DEF NetAlarm, Alarm, IsList, ListAlarms

LEMMA NoMapsType == NoMaps \in Maps /\ On(NoMaps) = {}
  BY DEF NoMaps, Maps, On

LEMMA InitKept == Init => Kept
<1> SUFFICES ASSUME Init PROVE Kept
  OBVIOUS
<1> USE OnuTreeAssumption
<1>1. fib \in Maps
  BY DEF Init
<1>2. Unused \in Entry
  BY DEF Unused, Entry, Nets
<1>3. [f \in {1, 2} |-> Onus] \in Maps
  BY DEF Maps
<1>4. MaxError \in 1..MaxError /\ 0 \in 0..MaxError /\ 0 \in 0..MaxEvents
  OBVIOUS
<1>5. <<>> \in Seq(Alarm) /\ Len(<<>>) = 0
  OBVIOUS
<1>6. TypeOK
  <2>1. [o \in Onus |-> NoRow] \in [Onus -> Row]
    BY DEF Row
  <2>2. [o \in Onus |-> Unused] \in [Onus -> Entry]
    BY <1>2
  <2>3. /\ fib \in Maps /\ hw \in [Onus -> [sn : Sns, name : Names]]
        /\ lpc = "read" /\ sys = {} /\ now \in Maps /\ prev \in Maps /\ todo = {}
        /\ errMap \in Maps /\ errCount \in 1..MaxError
        /\ list \in [Onus -> Entry] /\ named = {} /\ asked = {}
    BY <1>1, <1>3, <1>4, <2>2, NoMapsType DEF Init
  <2>4. /\ say \in Seq(Alarm) /\ ring \in BOOLEAN /\ mpc = Idle /\ queue \in Seq(Alarm)
        /\ Len(queue) <= MaxQueue /\ reduce \in BOOLEAN /\ apc = "list" /\ snap \in [Onus -> Row]
        /\ db \in [Onus -> Row] /\ missed \in 0..1 /\ loss \in Losses
        /\ streak \in 0..MaxError /\ events \in 0..MaxEvents /\ overtaken \subseteq Onus
    <3>1. say = <<>> /\ queue = <<>> /\ mpc = Idle
      BY DEF Init
    <3>2. say \in Seq(Alarm) /\ queue \in Seq(Alarm) /\ mpc \in Alarm
      BY <1>5, <3>1, IdleType
    <3>3. Len(queue) <= MaxQueue
      BY <1>5, <3>1
    <3>4. snap \in [Onus -> Row] /\ db \in [Onus -> Row]
      BY <2>1 DEF Init
    <3>5. /\ ring = FALSE /\ reduce = FALSE /\ apc = "list" /\ missed = 0 /\ loss = "none"
          /\ streak = 0 /\ events = 0 /\ overtaken = {}
      BY DEF Init
    <3>6. overtaken \subseteq Onus /\ missed \in 0..1 /\ streak \in 0..MaxError /\ events \in 0..MaxEvents /\ loss \in Losses
      BY <1>4, <3>5 DEF Losses
    <3> QED BY <3>1, <3>2, <3>3, <3>4, <3>5, <3>6
  <2> QED BY <2>3, <2>4, IdleType DEF TypeOK
<1>7. FlagTrue /\ RoundTrue
  BY <1>5 DEF Init, FlagTrue, RoundTrue
<1> QED BY <1>6, <1>7 DEF Kept

LEMMA OutsideKept ==
  ASSUME Kept,
         \/ \E maps \in Layouts, names \in [Onus -> Names] : Fibres(maps, names)
         \/ \E o \in Onus, n \in Sns : Renumber(o, n)
         \/ OtherAlarm \/ Restart
  PROVE  Kept'
<1> USE OnuTreeAssumption DEF Kept
<1>1. ASSUME NEW maps \in Layouts, NEW names \in [Onus -> Names], Fibres(maps, names)
      PROVE  Kept'
  <2>1. fib' \in Maps /\ hw' \in [Onus -> [sn : Sns, name : Names]] /\ asked' \subseteq Onus
        /\ events' \in 0..MaxEvents
    <3>1. fib' = maps /\ maps \in Maps /\ asked' \subseteq asked /\ asked \subseteq Onus
      BY <1>1 DEF Fibres, TypeOK
    <3>2. hw' = [o \in Onus |-> [hw[o] EXCEPT !.name = names[o]]]
          /\ hw \in [Onus -> [sn : Sns, name : Names]]
      BY <1>1 DEF Fibres, TypeOK
    <3>3. hw' \in [Onus -> [sn : Sns, name : Names]]
      BY <3>2
    <3>4. events' \in 0..MaxEvents
      BY <1>1 DEF Fibres, TypeOK
    <3> QED BY <3>1, <3>3, <3>4
  <2>2. TypeOK'
    BY <1>1, <2>1 DEF Fibres, TypeOK, reader, alarms, agent
  <2>3. FlagTrue' /\ RoundTrue'
    BY <1>1 DEF Fibres, FlagTrue, RoundTrue, reader, alarms
  <2> QED BY <2>2, <2>3
<1>2. ASSUME NEW o \in Onus, NEW n \in Sns, Renumber(o, n)
      PROVE  Kept'
  <2>1. hw' \in [Onus -> [sn : Sns, name : Names]] /\ events' \in 0..MaxEvents
    <3>1. hw' = [hw EXCEPT ![o].sn = n] /\ hw \in [Onus -> [sn : Sns, name : Names]]
      BY <1>2 DEF Renumber, TypeOK
    <3>2. events' \in 0..MaxEvents
      BY <1>2 DEF Renumber, TypeOK
    <3> QED BY <3>1, <3>2
  <2>2. TypeOK'
    BY <1>2, <2>1 DEF Renumber, TypeOK, reader, fifo, alarms, agent
  <2>3. FlagTrue' /\ RoundTrue'
    BY <1>2 DEF Renumber, FlagTrue, RoundTrue, reader, alarms
  <2> QED BY <2>2, <2>3
<1>3. CASE OtherAlarm
  <2>1. Gen(Idle) /\ events' \in 0..MaxEvents
        /\ UNCHANGED <<outside, reader, list, fifo, agent>>
    BY <1>3 DEF OtherAlarm, TypeOK
  <2>2. TypeOK'
    BY <2>1, IdleType, GenKeeps DEF TypeOK, outside, reader, fifo, agent
  <2>3. FlagTrue' /\ RoundTrue'
    BY <2>1, IdleType, GenKeeps DEF RoundTrue, reader
  <2> QED BY <2>2, <2>3
<1>4. CASE Restart
  <2>1. Unused \in Entry /\ [f \in {1, 2} |-> Onus] \in Maps
    BY DEF Unused, Entry, Nets, Maps
  <2>2. MaxError \in 1..MaxError /\ 0 \in 0..MaxError /\ <<>> \in Seq(Alarm) /\ Len(<<>>) = 0
    OBVIOUS
  <2>3. events' \in 0..MaxEvents /\ list' \in [Onus -> Entry] /\ loss' \in Losses
        /\ errMap' \in Maps /\ UNCHANGED <<outside, snap, db, missed>>
        /\ lpc' = "read" /\ sys' = {} /\ now' = NoMaps /\ prev' = NoMaps /\ todo' = {}
        /\ say' = <<>> /\ ring' = FALSE /\ errCount' = MaxError /\ streak' = 0 /\ named' = {}
        /\ asked' = {} /\ overtaken' = {} /\ mpc' = Idle /\ queue' = <<>> /\ reduce' = FALSE
    BY <1>4, <2>1 DEF Restart, TypeOK, Losses
  <2>4. apc' \in {"idle", "polled", "list", "write", "gone"}
    BY <1>4 DEF Restart, TypeOK
  <2>5. TypeOK'
    <3>1. /\ fib' \in Maps /\ hw' \in [Onus -> [sn : Sns, name : Names]]
          /\ snap' \in [Onus -> Row] /\ db' \in [Onus -> Row] /\ missed' \in 0..1
      BY <2>3 DEF TypeOK, outside
    <3>2. /\ lpc' = "read" /\ sys' \subseteq Onus /\ now' \in Maps /\ prev' \in Maps
          /\ todo' \subseteq Onus /\ ring' \in BOOLEAN /\ errCount' \in 1..MaxError
          /\ streak' \in 0..MaxError /\ named' \subseteq Onus /\ asked' \subseteq Onus
          /\ overtaken' \subseteq Onus
      BY <2>2, <2>3, NoMapsType
    <3>3. /\ say' \in Seq(Alarm) /\ mpc' \in Alarm /\ queue' \in Seq(Alarm)
          /\ Len(queue') <= MaxQueue /\ reduce' \in BOOLEAN
      <4>1. say' = <<>> /\ queue' = <<>> /\ mpc' = Idle
        BY <2>3
      <4>2. say' \in Seq(Alarm) /\ queue' \in Seq(Alarm) /\ mpc' \in Alarm
        BY <2>2, <4>1, IdleType
      <4>3. Len(queue') <= MaxQueue
        BY <2>2, <4>1
      <4> QED BY <2>3, <4>2, <4>3
    <3> QED BY <2>3, <2>4, <3>1, <3>2, <3>3, IdleType DEF TypeOK
  <2>6. FlagTrue' /\ RoundTrue'
    BY <2>2, <2>3 DEF FlagTrue, RoundTrue
  <2> QED BY <2>5, <2>6
<1> QED BY <1>1, <1>2, <1>3, <1>4

\* What Check and Believe leave of the round.
LEMMA CheckKept ==
  ASSUME Kept, Check
  PROVE  Kept'
<1> USE OnuTreeAssumption DEF Kept
<1> DEFINE m == [now EXCEPT ![2] = fib[2]]
<1>1. m \in Maps
  BY DEF TypeOK, Maps
<1> HIDE DEF m
<1>2. UNCHANGED <<outside, prev, say, ring, list, fifo, alarms, agent, loss, events>>
  BY DEF Check
<1>3. streak' \in 0..MaxError
  BY DEF Check, TypeOK
<1>4. errMap' \in Maps /\ errCount' \in 1..MaxError
  <2>1. errMap' = m \/ errMap' = errMap
    BY DEF Check, m
  <2>2. errCount' = errCount \/ errCount' = MaxError \/ (errCount' = errCount - 1 /\ errCount > 1)
    BY DEF Check, m
  <2>3. errMap \in Maps /\ errCount \in 1..MaxError
    BY DEF TypeOK
  <2> QED BY <1>1, <2>1, <2>2, <2>3
<1>5. Changed(sys) \subseteq Onus
  BY DEF Changed
<1>6. \/ Again /\ todo' = todo
      \/ sys = On(m) /\ Believe(m)
  BY DEF Check, m
<1>7. /\ lpc' \in {"read", "nodes", "topo"} /\ sys' \subseteq Onus /\ now' \in Maps
      /\ todo' \subseteq Onus
      /\ lpc' = "topo" => now' # prev
      /\ lpc' = "nodes" => sys' = On(now') /\ sys' # On(prev)
  BY <1>1, <1>5, <1>6, NoMapsType DEF Again, Believe, TypeOK
<1>8. TypeOK'
  BY <1>2, <1>3, <1>4, <1>7 DEF TypeOK, outside, fifo, alarms, agent
<1>9. FlagTrue' /\ RoundTrue'
  BY <1>2, <1>7 DEF FlagTrue, RoundTrue, alarms
<1> QED BY <1>8, <1>9

\* Whatever processONUTopo does, it has alarms to raise, and they are all of
\* the kind after which the list is read.
LEMMA TopoTells ==
  ASSUME Kept, Topo
  PROVE  /\ say' \in Seq(Alarm) /\ say' # <<>>
         /\ \A i \in 1..Len(say') : IsList(say'[i])
<1> DEFINE alarm(type) == NetAlarm(type)
<1>1. \A type \in ListAlarms : NetAlarm(type) \in Alarm /\ IsList(NetAlarm(type))
  BY NetAlarmType
<1>2. /\ "RINGRESTORE" \in ListAlarms /\ "RINGFAILURE" \in ListAlarms
      /\ "RINGBROKEN" \in ListAlarms /\ "LINKBROKEN" \in ListAlarms /\ "LINKRESTORE" \in ListAlarms
  BY DEF ListAlarms
<1>3. \A f \in {1, 2} : /\ LinkAlarm(f) \in Seq(Alarm)
                        /\ \A i \in 1..Len(LinkAlarm(f)) : IsList(LinkAlarm(f)[i])
                        /\ now[f] # prev[f] => LinkAlarm(f) # <<>>
  <2> TAKE f \in {1, 2}
  <2>1. CASE now[f] = prev[f]
    <3>1. LinkAlarm(f) = <<>>
      BY <2>1 DEF LinkAlarm
    <3> QED BY <2>1, <3>1
  <2>2. CASE now[f] # prev[f]
    <3>1. PICK a \in Alarm : LinkAlarm(f) = <<a>> /\ IsList(a)
      BY <1>1, <1>2, <2>2 DEF LinkAlarm
    <3> QED BY <2>2, <3>1
  <2> QED BY <2>1, <2>2
<1>4. now[1] # prev[1] \/ now[2] # prev[2]
  <2>1. now # prev /\ now \in Maps /\ prev \in Maps
    BY DEF Kept, TypeOK, RoundTrue, Topo
  <2> QED BY <2>1 DEF Maps
<1>5. LET s == LinkAlarm(1) \o LinkAlarm(2) IN
        s \in Seq(Alarm) /\ s # <<>> /\ \A i \in 1..Len(s) : IsList(s[i])
  <2> DEFINE s1 == LinkAlarm(1)
             s2 == LinkAlarm(2)
  <2>1. /\ s1 \in Seq(Alarm) /\ s2 \in Seq(Alarm) /\ (s1 # <<>> \/ s2 # <<>>)
        /\ \A i \in 1..Len(s1) : IsList(s1[i])
        /\ \A i \in 1..Len(s2) : IsList(s2[i])
    BY <1>3, <1>4
  <2> HIDE DEF s1, s2
  <2>2. /\ s1 \o s2 \in Seq(Alarm) /\ s1 \o s2 # <<>> /\ Len(s1 \o s2) = Len(s1) + Len(s2)
        /\ \A i \in 1..Len(s1 \o s2) :
             (s1 \o s2)[i] = IF i <= Len(s1) THEN s1[i] ELSE s2[i - Len(s1)]
    BY <2>1
  <2>3. ASSUME NEW i \in 1..Len(s1 \o s2) PROVE IsList((s1 \o s2)[i])
    <3>1. CASE i <= Len(s1)
      BY <2>1, <2>2, <3>1
    <3>2. CASE ~(i <= Len(s1))
      <4>1. i - Len(s1) \in 1..Len(s2)
        BY <2>1, <2>2, <3>2
      <4> QED BY <2>1, <2>2, <3>2, <4>1
    <3> QED BY <3>1, <3>2
  <2>4. s1 \o s2 = LinkAlarm(1) \o LinkAlarm(2)
    BY DEF s1, s2
  <2> QED BY <2>2, <2>3, <2>4
<1>6. CASE say' = LinkAlarm(1) \o LinkAlarm(2)
  BY <1>5, <1>6
<1>7. CASE \E type \in ListAlarms : say' = << NetAlarm(type) >> \/ say' = << NetAlarm(type), NetAlarm(type) >>
  <2>1. PICK a \in Alarm : IsList(a) /\ (say' = <<a>> \/ say' = <<a, a>>)
    BY <1>1, <1>7
  <2>2. CASE say' = <<a>>
    BY <2>1, <2>2
  <2>3. CASE say' = <<a, a>>
    <3>1. <<a, a>> \in Seq(Alarm) /\ Len(<<a, a>>) = 2 /\ <<a, a>>[1] = a /\ <<a, a>>[2] = a
      OBVIOUS
    <3>2. \A i \in 1..2 : i = 1 \/ i = 2
      OBVIOUS
    <3> QED BY <2>1, <2>3, <3>1, <3>2
  <2> QED BY <2>1, <2>2, <2>3
<1> QED BY <1>2, <1>6, <1>7 DEF Topo

LEMMA ReaderKept ==
  ASSUME Kept, Reader
  PROVE  Kept'
<1> USE OnuTreeAssumption DEF Kept
<1>1. CASE ReadSys
  <2>1. sys' \subseteq Onus /\ now' \in Maps /\ asked' \subseteq Onus /\ lpc' = "check"
    BY <1>1 DEF ReadSys, TypeOK, Maps, On
  <2>2. TypeOK'
    BY <1>1, <2>1 DEF ReadSys, TypeOK, outside, alarms, agent
  <2>3. FlagTrue' /\ RoundTrue'
    BY <1>1 DEF ReadSys, FlagTrue, RoundTrue, alarms
  <2> QED BY <2>2, <2>3
<1>2. CASE Check
  BY <1>2, CheckKept
<1>3. CASE Nodes
  <2>1. PICK o \in todo :
          /\ todo' = todo \ {o}
          /\ \/ /\ list' = [list EXCEPT ![o].state = "ONLINE", ![o].sn = o, ![o].name = Blank]
                /\ named' = named \ {o} /\ asked' = asked \cup ({o} \cap On(fib))
                /\ Gen([type |-> "ONUONLINE", node |-> 0, sn |-> 0])
             \/ /\ list' = [list EXCEPT ![o].state = "OFFLINE"]
                /\ Gen([type |-> "ONUOFFLINE", node |-> 0, sn |-> 0])
                /\ UNCHANGED <<named, asked>>
          /\ overtaken' = overtaken \/ overtaken' = overtaken \cup {o}
    BY <1>3, Zenon DEF Nodes
  <2>2. UNCHANGED <<outside, lpc, sys, now, prev, say, ring, errMap, errCount, streak, mpc,
                    agent, events>>
    BY <1>3, Zenon DEF Nodes
  <2>3. o \in Onus /\ o \in Sns
    BY DEF TypeOK
  <2>4. PICK a \in Alarm : Gen(a)
    <3>1. /\ [type |-> "ONUONLINE", node |-> 0, sn |-> 0] \in Alarm
          /\ [type |-> "ONUOFFLINE", node |-> 0, sn |-> 0] \in Alarm
      BY DEF Alarm, ListAlarms
    <3> QED BY <2>1, <3>1
  <2>5. list' \in [Onus -> Entry]
    <3>1. list \in [Onus -> Entry]
      BY DEF TypeOK
    <3>2. /\ [list[o] EXCEPT !.state = "ONLINE", !.sn = o, !.name = Blank] \in Entry
          /\ [list[o] EXCEPT !.state = "OFFLINE"] \in Entry
      BY <2>3, <3>1 DEF Entry
    <3>3. \/ list' = [list EXCEPT ![o] = [list[o] EXCEPT !.state = "ONLINE", !.sn = o, !.name = Blank]]
          \/ list' = [list EXCEPT ![o] = [list[o] EXCEPT !.state = "OFFLINE"]]
      BY <2>1, <2>3, <3>1 DEF Entry
    <3> QED BY <3>1, <3>2, <3>3
  <2>6. /\ todo' \subseteq Onus /\ named' \subseteq Onus /\ asked' \subseteq Onus
        /\ overtaken' \subseteq Onus
    BY <2>1, <2>3 DEF TypeOK
  <2>7. TypeOK'
    BY <2>2, <2>4, <2>5, <2>6, GenKeeps DEF TypeOK, outside, agent
  <2>8. FlagTrue' /\ RoundTrue'
    BY <2>2, <2>4, GenKeeps DEF RoundTrue
  <2> QED BY <2>7, <2>8
<1>4. CASE NodesDone
  <2>1. lpc = "nodes" /\ lpc' = "topo" /\ now # prev
    BY <1>4 DEF NodesDone, RoundTrue
  <2>2. TypeOK'
    BY <1>4, <2>1 DEF NodesDone, TypeOK, outside, fifo, alarms, agent
  <2>3. FlagTrue' /\ RoundTrue'
    BY <1>4, <2>1 DEF NodesDone, FlagTrue, RoundTrue, alarms
  <2> QED BY <2>2, <2>3
<1>5. CASE Topo
  <2>1. ASSUME NEW o \in Onus PROVE [list[o] EXCEPT !.net = NetOf(o, now, @)] \in Entry
    <3>1. list[o] \in Entry
      BY DEF TypeOK
    <3>2. NetOf(o, now, list[o].net) \in Nets
      BY <3>1 DEF NetOf, Nets, Entry
    <3> QED BY <3>1, <3>2 DEF Entry
  <2>2. list' \in [Onus -> Entry]
    BY <1>5, <2>1 DEF Topo
  <2>3. ring' \in BOOLEAN /\ lpc' = "tell"
    BY <1>5 DEF Topo
  <2>4. UNCHANGED <<outside, sys, now, prev, todo, errMap, errCount, streak, fifo, alarms, agent,
                    loss, events>>
    BY <1>5 DEF Topo
  <2>5. TypeOK'
    BY <1>5, <2>2, <2>3, <2>4, TopoTells DEF TypeOK, outside, fifo, alarms, agent
  <2>6. FlagTrue' /\ RoundTrue'
    BY <1>5, <2>3, <2>4, TopoTells DEF FlagTrue, RoundTrue, alarms
  <2> QED BY <2>5, <2>6
<1>6. CASE Tell
  <2>1. say \in Seq(Alarm) /\ say # <<>>
    BY <1>6 DEF Tell, TypeOK
  <2>2. /\ Head(say) \in Alarm /\ Tail(say) \in Seq(Alarm) /\ Len(Tail(say)) = Len(say) - 1
        /\ \A i \in 1..Len(Tail(say)) : Tail(say)[i] = say[i + 1]
    BY <2>1, TailType
  <2>3. Gen(Head(say)) /\ say' = Tail(say)
        /\ UNCHANGED <<outside, todo, ring, errMap, errCount, streak, list, fifo, agent, events>>
    BY <1>6 DEF Tell
  <2>4. \/ lpc' = "read" /\ sys' = {} /\ now' = NoMaps /\ prev' = now
        \/ lpc' = lpc /\ sys' = sys /\ now' = now /\ prev' = prev
    BY <1>6 DEF Tell, Again
  <2>5. /\ lpc' \in {"read", "check", "nodes", "topo", "tell"} /\ sys' \subseteq Onus
        /\ now' \in Maps /\ prev' \in Maps
    BY <2>4, NoMapsType DEF TypeOK
  <2>6. TypeOK'
    BY <2>2, <2>3, <2>5, GenKeeps DEF TypeOK, outside, fifo, agent
  <2>7. \A i \in 1..Len(say') : IsList(say'[i])
    <3> TAKE i \in 1..Len(say')
    <3>1. say'[i] = say[i + 1] /\ i + 1 \in 1..Len(say)
      BY <2>1, <2>2, <2>3
    <3> QED BY <3>1 DEF RoundTrue
  <2>8. FlagTrue' /\ RoundTrue'
    <3>1. lpc' # "topo" /\ lpc' # "nodes"
      BY <1>6, <2>4 DEF Tell
    <3> QED BY <2>2, <2>3, <2>7, <3>1, GenKeeps DEF RoundTrue
  <2> QED BY <2>6, <2>8
<1> QED BY <1>1, <1>2, <1>3, <1>4, <1>5, <1>6 DEF Reader

LEMMA FifoKept ==
  ASSUME Kept, Fifo
  PROVE  Kept'
<1> USE OnuTreeAssumption DEF Kept
<1>1. ASSUME NEW o \in Onus, SnSeen(o) PROVE Kept'
  <2>1. hw[o] \in [sn : Sns, name : Names] /\ list[o] \in Entry /\ list \in [Onus -> Entry]
    BY DEF TypeOK
  <2>2. [list[o] EXCEPT !.sn = hw[o].sn] \in Entry
    BY <2>1 DEF Entry
  <2>3. list' \in [Onus -> Entry]
    <3>1. list' = [list EXCEPT ![o] = [list[o] EXCEPT !.sn = hw[o].sn]]
      BY <1>1, <2>1 DEF SnSeen
    <3> QED BY <2>1, <2>2, <3>1
  <2>4. mpc' \in Alarm /\ mpc'.type = "ONUSNCHG"
    BY <1>1, <2>1 DEF SnSeen, Alarm
  <2>5. TypeOK'
    BY <1>1, <2>3, <2>4 DEF SnSeen, TypeOK, outside, reader, alarms, agent
  <2>6. FlagTrue' /\ RoundTrue'
    BY <1>1 DEF SnSeen, FlagTrue, RoundTrue, reader, alarms
  <2> QED BY <2>5, <2>6
<1>2. ASSUME NEW o \in Onus, NameSeen(o) PROVE Kept'
  <2>1. hw[o] \in [sn : Sns, name : Names] /\ list[o] \in Entry /\ list \in [Onus -> Entry]
    BY DEF TypeOK
  <2>2. [list[o] EXCEPT !.name = hw[o].name] \in Entry
    BY <2>1 DEF Entry
  <2>3. list' \in [Onus -> Entry]
    <3>1. list' = list \/ list' = [list EXCEPT ![o] = [list[o] EXCEPT !.name = hw[o].name]]
      BY <1>2, <2>1 DEF NameSeen
    <3> QED BY <2>1, <2>2, <3>1
  <2>4. [type |-> "ONUNAMECHG", node |-> o, sn |-> 0] \in Alarm
    BY DEF Alarm, ListAlarms
  <2>5. /\ mpc' \in Alarm /\ (mpc'.type = "ONUNAMECHG" => mpc'.node \in Onus)
        /\ named' \subseteq Onus /\ asked' \subseteq Onus /\ overtaken' \subseteq Onus
    BY <1>2, <2>4 DEF NameSeen, TypeOK
  <2>6. TypeOK'
    BY <1>2, <2>3, <2>5 DEF NameSeen, TypeOK, outside, reader, alarms, agent
  <2>7. FlagTrue' /\ RoundTrue'
    BY <1>2 DEF NameSeen, FlagTrue, RoundTrue, reader, alarms
  <2> QED BY <2>6, <2>7
<1>3. CASE Raise
  <2>1. mpc \in Alarm /\ Gen(mpc) /\ mpc' = Idle
        /\ UNCHANGED <<outside, reader, list, asked, overtaken, agent, events>>
    BY <1>3 DEF Raise, TypeOK
  <2>2. named' = named \/ (named' = named \cup {mpc.node} /\ mpc.type = "ONUNAMECHG")
    BY <1>3 DEF Raise
  <2>3. named' \subseteq Onus
    BY <2>2 DEF TypeOK
  <2>4. TypeOK'
    BY <2>1, <2>3, IdleType, GenKeeps DEF TypeOK, outside, reader, agent
  <2>5. FlagTrue' /\ RoundTrue'
    BY <2>1, GenKeeps DEF RoundTrue, reader
  <2> QED BY <2>4, <2>5
<1> QED BY <1>1, <1>2, <1>3 DEF Fifo

\* The rows SetSn makes: as before but for their numbers.
LEMMA SetSnRows ==
  ASSUME NEW rows \in [Onus -> Row], NEW as \in Seq(Alarm)
  PROVE  /\ SetSn(rows, as) \in [Onus -> Row]
         /\ \A o \in Onus, e \in Entry : Shows(rows[o], e) => Shows(SetSn(rows, as)[o], e)
<1> DEFINE new == SetSn(rows, as)
<1>1. ASSUME NEW o \in Onus
      PROVE  \/ new[o] = rows[o]
             \/ /\ rows[o] # NoRow
                /\ \E n \in Sns \cup {0} : new[o] = [rows[o] EXCEPT !.sn = n]
  <2> DEFINE told == {i \in 1..Len(as) : as[i].type = "ONUSNCHG" /\ as[i].node = o}
             last == {i \in told : \A k \in told : k <= i}
  <2>1. new[o] = IF rows[o] = NoRow \/ last = {} THEN rows[o]
                 ELSE [rows[o] EXCEPT !.sn = as[CHOOSE i \in last : TRUE].sn]
    BY DEF SetSn
  <2>2. CASE rows[o] = NoRow \/ last = {}
    BY <2>1, <2>2
  <2>3. CASE rows[o] # NoRow /\ last # {}
    <3>1. (CHOOSE i \in last : TRUE) \in last
      BY <2>3
    <3> DEFINE c == CHOOSE i \in last : TRUE
    <3>2. c \in 1..Len(as)
      BY <3>1
    <3> HIDE DEF c
    <3>3. as[c] \in Alarm
      BY <3>2, ElementType
    <3>4. as[c].sn \in Sns \cup {0}
      BY <3>3 DEF Alarm
    <3>5. new[o] = [rows[o] EXCEPT !.sn = as[c].sn]
      BY <2>1, <2>3 DEF c
    <3> QED BY <2>3, <3>4, <3>5
  <2> QED BY <2>2, <2>3
<1>2. new = [o \in Onus |-> new[o]]
  BY DEF SetSn
<1> HIDE DEF new
<1>3. ASSUME NEW o \in Onus
      PROVE  /\ new[o] \in Row
             /\ \A e \in Entry : Shows(rows[o], e) => Shows(new[o], e)
  <2>1. CASE new[o] = rows[o]
    BY <2>1
  <2>2. CASE rows[o] # NoRow /\ \E n \in Sns \cup {0} : new[o] = [rows[o] EXCEPT !.sn = n]
    <3>1. PICK n \in Sns \cup {0} : new[o] = [rows[o] EXCEPT !.sn = n]
      BY <2>2
    <3>2. rows[o] \in Entry /\ rows[o].state # "NOTUSE"
      BY <2>2 DEF Row
    <3>3. /\ new[o] \in Entry /\ new[o].state = rows[o].state /\ new[o].net = rows[o].net
          /\ new[o].name = rows[o].name
      BY <3>1, <3>2 DEF Entry
    <3>4. new[o] # NoRow
      BY <3>3, OnuTreeAssumption
    <3> QED BY <2>2, <3>2, <3>3, <3>4 DEF Row, Shows
  <2> QED BY <1>1, <2>1, <2>2
<1>4. new \in [Onus -> Row]
  BY <1>2, <1>3
<1> QED BY <1>3, <1>4 DEF new

LEMMA AgentKept ==
  ASSUME Kept, Agent
  PROVE  Kept'
<1> USE OnuTreeAssumption DEF Kept
<1>1. CASE Poll
  <2>1. TypeOK'
    BY <1>1 DEF Poll, TypeOK, outside, reader, fifo, alarms
  <2>2. FlagTrue' /\ RoundTrue'
    BY <1>1 DEF Poll, FlagTrue, RoundTrue, reader, alarms
  <2> QED BY <2>1, <2>2
<1>2. ASSUME Take \/ TakeLost PROVE Kept'
  <2>1. queue' = Left /\ reduce' = (reduce /\ queue = <<>>)
        /\ UNCHANGED <<outside, reader, list, fifo, snap>>
    BY <1>2 DEF Take, TakeLost
  <2>2. Left \in Seq(Alarm) /\ Len(Left) <= MaxQueue /\ Taken \in Seq(Alarm)
    BY TakenOrLeft
  <2>3. db' \in [Onus -> Row]
    BY <1>2, <2>2, SetSnRows DEF Take, TakeLost, TypeOK
  <2>4. /\ apc' \in {"idle", "polled", "list", "write", "gone"} /\ missed' \in 0..1
        /\ events' \in 0..MaxEvents
    BY <1>2 DEF Take, TakeLost, TypeOK
  <2>5. loss' = loss \/ (loss' = "lost" /\ queue # <<>>)
    BY <1>2 DEF Take, TakeLost
  <2>6. loss' \in Losses
    BY <2>5 DEF TypeOK, Losses
  <2>7. reduce' \in BOOLEAN
    BY <2>1
  <2>8. TypeOK'
    BY <2>1, <2>2, <2>3, <2>4, <2>6, <2>7 DEF TypeOK, outside, reader, fifo
  <2>9. FlagTrue'
    <3>1. CASE reduce /\ queue = <<>>
      <4>1. Len(queue) = 0
        BY <3>1
      <4>2. loss = "full"
        BY <3>1, <4>1 DEF FlagTrue
      <4> QED BY <2>5, <3>1, <4>2 DEF FlagTrue
    <3>2. CASE ~(reduce /\ queue = <<>>)
      BY <2>1, <3>2 DEF FlagTrue
    <3> QED BY <3>1, <3>2
  <2>10. RoundTrue'
    BY <2>1 DEF RoundTrue, reader
  <2> QED BY <2>8, <2>9, <2>10
<1>3. CASE ReadList
  <2>1. \A o \in Onus : list[o] \in Entry /\ (list[o].state = "ONLINE" => list[o] \in Row)
    BY DEF TypeOK, Row
  <2>2. snap' \in [Onus -> Row]
    BY <1>3, <2>1 DEF ReadList, Row
  <2>3. loss' \in Losses /\ (loss = "full" => loss' = "full")
    BY <1>3 DEF ReadList, Losses
  <2>4. TypeOK'
    BY <1>3, <2>2, <2>3 DEF ReadList, TypeOK, outside, reader, fifo, alarms
  <2>5. FlagTrue' /\ RoundTrue'
    BY <1>3, <2>3 DEF ReadList, FlagTrue, RoundTrue, reader, alarms
  <2> QED BY <2>4, <2>5
<1>4. CASE WriteList
  <2>1. ASSUME NEW o \in Onus
        PROVE  snap[o] \in Row /\ db[o] \in Row /\ NoRow \in Row
               /\ (db[o] # NoRow => [db[o] EXCEPT !.state = "OFFLINE"] \in Row)
    <3>1. snap[o] \in Row /\ db[o] \in Row
      BY DEF TypeOK
    <3>2. ASSUME db[o] # NoRow PROVE [db[o] EXCEPT !.state = "OFFLINE"] \in Row
      <4>1. db[o] \in Entry
        BY <3>1, <3>2 DEF Row
      <4>2. [db[o] EXCEPT !.state = "OFFLINE"] \in Entry
        BY <4>1 DEF Entry
      <4>3. [db[o] EXCEPT !.state = "OFFLINE"].state = "OFFLINE"
        BY <4>1 DEF Entry
      <4> QED BY <4>2, <4>3 DEF Row
    <3> QED BY <3>1, <3>2 DEF Row
  <2>2. db' \in [Onus -> Row]
    BY <1>4, <2>1 DEF WriteList
  <2>3. snap' \in [Onus -> Row]
    BY <1>4 DEF WriteList, Row
  <2>4. TypeOK'
    BY <1>4, <2>2, <2>3 DEF WriteList, TypeOK, outside, reader, fifo, alarms
  <2>5. FlagTrue' /\ RoundTrue'
    BY <1>4 DEF WriteList, FlagTrue, RoundTrue, reader, alarms
  <2> QED BY <2>4, <2>5
<1>5. CASE ListLost
  <2>1. snap' \in [Onus -> Row]
    BY <1>5 DEF ListLost, Row
  <2>2. loss' \in Losses /\ (loss = "full" => loss' = "full") /\ events' \in 0..MaxEvents
    BY <1>5 DEF ListLost, Losses, TypeOK
  <2>3. TypeOK'
    BY <1>5, <2>1, <2>2 DEF ListLost, TypeOK, outside, reader, fifo, alarms
  <2>4. FlagTrue' /\ RoundTrue'
    BY <1>5, <2>2 DEF ListLost, FlagTrue, RoundTrue, reader, alarms
  <2> QED BY <2>3, <2>4
<1>6. CASE CardUp
  <2>1. TypeOK'
    BY <1>6 DEF CardUp, TypeOK, outside, reader, fifo, alarms
  <2>2. FlagTrue' /\ RoundTrue'
    BY <1>6 DEF CardUp, FlagTrue, RoundTrue, reader, alarms
  <2> QED BY <2>1, <2>2
<1> QED BY <1>1, <1>2, <1>3, <1>4, <1>5, <1>6 DEF Agent

----------------------------------------------------------------------------
(* TreeFollows. *)

\* Either the list is in the agent's hands and shown, or the table shows it.
Follows ==
  \A o \in Onus : IF apc = "write" THEN Shows(snap[o], list[o]) ELSE Shows(db[o], list[o])

LEMMA FollowsMeans == TreeFollows <=> (loss # "none" \/ WillRead \/ Follows)
  BY DEF TreeFollows, Follows

\* What the list has beside states, topology and names does not matter.
LEMMA SameList ==
  ASSUME Follows, UNCHANGED <<snap, db>>, apc' = apc \/ (apc # "write" /\ apc' # "write"),
         \A o \in Onus : /\ list'[o].state = list[o].state /\ list'[o].net = list[o].net
                         /\ list'[o].name = list[o].name
  PROVE  Follows'
<1> SUFFICES ASSUME NEW o \in Onus
             PROVE  IF apc' = "write" THEN Shows(snap'[o], list'[o]) ELSE Shows(db'[o], list'[o])
  BY DEF Follows
<1>1. /\ list'[o].state = list[o].state /\ list'[o].net = list[o].net
      /\ list'[o].name = list[o].name
  OBVIOUS
<1>2. \A row : Shows(row, list[o]) => Shows(row, list'[o])
  BY <1>1 DEF Shows
<1>3. IF apc = "write" THEN Shows(snap[o], list[o]) ELSE Shows(db[o], list[o])
  BY DEF Follows
<1> QED BY <1>2, <1>3

LEMMA ReaderFollows ==
  ASSUME Kept, TreeFollows, Reader
  PROVE  TreeFollows'
<1>1. CASE ReadSys
  BY <1>1 DEF ReadSys, TreeFollows, WillRead, Follows, agent, alarms
<1>2. CASE Check
  BY <1>2 DEF Check, TreeFollows, WillRead, Follows, agent, alarms, fifo
<1>3. CASE Nodes
  <2>1. PICK a \in {[type |-> "ONUONLINE", node |-> 0, sn |-> 0],
                    [type |-> "ONUOFFLINE", node |-> 0, sn |-> 0]} : Gen(a)
    BY <1>3, Zenon DEF Nodes
  <2>2. a \in Alarm /\ IsList(a)
    BY DEF Alarm, ListAlarms, IsList
  <2>3. loss' # "none" \/ \E i \in 1..Len(queue') : IsList(queue'[i])
    BY <2>1, <2>2, GenKeeps DEF Kept
  <2> QED BY <2>3 DEF TreeFollows, WillRead
<1>4. CASE NodesDone
  BY <1>4 DEF NodesDone, TreeFollows, WillRead, Follows, agent, alarms, fifo
<1>5. CASE Topo
  BY <1>5, TopoTells DEF TreeFollows, WillRead
<1>6. CASE Tell
  <2>1. say \in Seq(Alarm) /\ say # <<>> /\ Gen(Head(say))
    BY <1>6 DEF Tell, Kept, TypeOK
  <2>2. Head(say) \in Alarm /\ Head(say) = say[1] /\ 1 \in 1..Len(say)
    BY <2>1
  <2>3. IsList(Head(say))
    BY <2>2 DEF Kept, RoundTrue
  <2>4. loss' # "none" \/ \E i \in 1..Len(queue') : IsList(queue'[i])
    BY <2>1, <2>2, <2>3, GenKeeps DEF Kept
  <2> QED BY <2>4 DEF TreeFollows, WillRead
<1> QED BY <1>1, <1>2, <1>3, <1>4, <1>5, <1>6 DEF Reader

LEMMA FifoFollows ==
  ASSUME Kept, TreeFollows, Fifo
  PROVE  TreeFollows'
<1>1. ASSUME NEW o \in Onus, SnSeen(o) PROVE TreeFollows'
  <2>1. /\ mpc = Idle /\ list' = [list EXCEPT ![o].sn = hw[o].sn]
        /\ UNCHANGED <<say, queue, apc, snap, db, loss>>
    BY <1>1 DEF SnSeen, reader, alarms, agent
  <2>2. list \in [Onus -> Entry]
    BY DEF Kept, TypeOK
  <2>3. \A p \in Onus : /\ list'[p].state = list[p].state /\ list'[p].net = list[p].net
                        /\ list'[p].name = list[p].name
    BY <2>1, <2>2 DEF Entry
  <2>4. Follows => Follows'
    BY <2>1, <2>3, SameList
  <2>5. WillRead => WillRead'
    BY <2>1, IdleType DEF WillRead
  <2> QED BY <2>1, <2>4, <2>5, FollowsMeans DEF TreeFollows, Follows
<1>2. ASSUME NEW o \in Onus, NameSeen(o) PROVE TreeFollows'
  <2>1. /\ mpc = Idle /\ UNCHANGED <<say, queue, apc, snap, db, loss>>
        /\ (UNCHANGED <<list, mpc>> \/ mpc' = [type |-> "ONUNAMECHG", node |-> o, sn |-> 0])
    BY <1>2 DEF NameSeen, reader, alarms, agent
  <2>2. CASE UNCHANGED <<list, mpc>>
    BY <2>1, <2>2 DEF TreeFollows, WillRead, Follows
  <2>3. CASE mpc' = [type |-> "ONUNAMECHG", node |-> o, sn |-> 0]
    BY <2>3 DEF TreeFollows, WillRead, IsList, ListAlarms
  <2> QED BY <2>1, <2>2, <2>3
<1>3. CASE Raise
  <2>1. mpc \in Alarm /\ Gen(mpc) /\ mpc' = Idle /\ UNCHANGED <<say, list, apc, snap, db>>
    BY <1>3 DEF Raise, reader, agent, Kept, TypeOK
  <2>2. TypeOK /\ FlagTrue
    BY DEF Kept
  <2>3. /\ loss # "none" => loss' # "none"
        /\ (\E i \in 1..Len(queue) : IsList(queue[i]))
             => loss' # "none" \/ \E i \in 1..Len(queue') : IsList(queue'[i])
        /\ IsList(mpc) => loss' # "none" \/ \E i \in 1..Len(queue') : IsList(queue'[i])
    BY <2>1, <2>2, GenKeeps
  <2>4. WillRead => loss' # "none" \/ WillRead'
    BY <2>1, <2>3 DEF WillRead
  <2>5. Follows => Follows'
    BY <2>1 DEF Follows
  <2> QED BY <2>3, <2>4, <2>5, FollowsMeans DEF TreeFollows, Follows
<1> QED BY <1>1, <1>2, <1>3 DEF Fifo

LEMMA OutsideFollows ==
  ASSUME Kept, TreeFollows,
         \/ \E maps \in Layouts, names \in [Onus -> Names] : Fibres(maps, names)
         \/ \E o \in Onus, n \in Sns : Renumber(o, n)
         \/ OtherAlarm \/ Restart
  PROVE  TreeFollows'
<1>1. CASE \E maps \in Layouts, names \in [Onus -> Names] : Fibres(maps, names)
  <2>1. UNCHANGED <<say, list, mpc, queue, apc, snap, db, loss>>
    BY <1>1 DEF Fibres, reader, alarms, agent
  <2> QED BY <2>1 DEF TreeFollows, WillRead
<1>2. CASE \E o \in Onus, n \in Sns : Renumber(o, n)
  <2>1. UNCHANGED <<say, list, mpc, queue, apc, snap, db, loss>>
    BY <1>2 DEF Renumber, reader, alarms, agent, fifo
  <2> QED BY <2>1 DEF TreeFollows, WillRead
<1>3. CASE OtherAlarm
  <2>1. Gen(Idle) /\ UNCHANGED <<say, list, mpc, apc, snap, db>>
    BY <1>3 DEF OtherAlarm, reader, fifo, agent
  <2>2. TypeOK /\ FlagTrue
    BY DEF Kept
  <2>3. /\ loss # "none" => loss' # "none"
        /\ (\E i \in 1..Len(queue) : IsList(queue[i]))
             => loss' # "none" \/ \E i \in 1..Len(queue') : IsList(queue'[i])
    BY <2>1, <2>2, IdleType, GenKeeps
  <2>4. WillRead => loss' # "none" \/ WillRead'
    BY <2>1, <2>3 DEF WillRead
  <2>5. Follows => Follows'
    BY <2>1 DEF Follows
  <2> QED BY <2>3, <2>4, <2>5, FollowsMeans DEF TreeFollows, Follows
<1>4. CASE Restart
  BY <1>4 DEF Restart, TreeFollows
<1> QED BY <1>1, <1>2, <1>3, <1>4

LEMMA AgentFollows ==
  ASSUME Kept, TreeFollows, Agent
  PROVE  TreeFollows'
<1>1. CASE Poll
  BY <1>1 DEF Poll, TreeFollows, WillRead, reader, fifo, alarms
<1>2. ASSUME Take \/ TakeLost PROVE TreeFollows'
  <2>1. /\ apc = "polled" /\ queue' = Left /\ UNCHANGED <<say, list, mpc, snap>>
        /\ apc' \in {"list", "idle", "gone"} /\ (db' = db \/ db' = SetSn(db, Taken))
        /\ loss # "none" => loss' # "none"
    BY <1>2 DEF Take, TakeLost, reader, fifo
  <2>2. (\E i \in 1..Len(Taken) : IsList(Taken[i])) => apc' = "list" \/ loss' # "none"
    <3>1. ASSUME NEW i \in 1..Len(Taken), IsList(Taken[i]), queue = <<>> PROVE FALSE
      <4>1. Taken = <<>>
        BY <3>1, OnuTreeAssumption DEF Taken
      <4> QED BY <3>1, <4>1
    <3> QED BY <1>2, <3>1 DEF Take, TakeLost, Matters
  <2>3. WillRead => loss' # "none" \/ WillRead'
    <3>1. CASE \E i \in 1..Len(queue) : IsList(queue[i])
      <4>1. \/ \E i \in 1..Len(Taken) : IsList(Taken[i])
            \/ \E i \in 1..Len(Left) : IsList(Left[i])
        BY <3>1, TakenOrLeft DEF Kept
      <4> QED BY <2>1, <2>2, <4>1 DEF WillRead
    <3>2. CASE ~(\E i \in 1..Len(queue) : IsList(queue[i]))
      BY <2>1, <3>2 DEF WillRead
    <3> QED BY <3>1, <3>2
  <2>4. Follows => Follows'
    <3> SUFFICES ASSUME Follows PROVE Follows'
      OBVIOUS
    <3>1. \A o \in Onus : Shows(db[o], list[o])
      BY <2>1 DEF Follows
    <3>2. db \in [Onus -> Row] /\ list \in [Onus -> Entry] /\ Taken \in Seq(Alarm)
      BY TakenOrLeft DEF Kept, TypeOK
    <3>3. \A o \in Onus : Shows(SetSn(db, Taken)[o], list[o])
      BY <3>1, <3>2, SetSnRows
    <3>4. \A o \in Onus : Shows(db'[o], list'[o])
      BY <2>1, <3>1, <3>3
    <3> QED BY <2>1, <3>4 DEF Follows
  <2> QED BY <2>1, <2>3, <2>4, FollowsMeans DEF TreeFollows, Follows
<1>3. CASE ReadList
  <2>1. UNCHANGED list /\ apc' = "write"
        /\ snap' = [o \in Onus |-> IF list[o].state = "ONLINE" THEN list[o] ELSE NoRow]
    BY <1>3 DEF ReadList
  <2>2. ASSUME NEW o \in Onus PROVE Shows(snap'[o], list'[o])
    <3>1. list[o] # NoRow
      BY OnuTreeAssumption DEF Kept, TypeOK
    <3> QED BY <2>1, <3>1 DEF Shows
  <2> QED BY <2>1, <2>2 DEF TreeFollows
<1>4. CASE WriteList
  <2>1. /\ apc = "write" /\ apc' = "idle" /\ UNCHANGED <<list, say, mpc, queue, loss>>
        /\ \E closed \in BOOLEAN :
             db' = [o \in Onus |-> IF snap[o] # NoRow THEN snap[o]
                                   ELSE IF db[o] = NoRow \/ closed THEN NoRow
                                   ELSE [db[o] EXCEPT !.state = "OFFLINE"]]
    BY <1>4 DEF WriteList, reader, fifo, alarms
  <2>2. ASSUME Follows, NEW o \in Onus PROVE Shows(db'[o], list'[o])
    <3>1. Shows(snap[o], list[o])
      BY <2>1, <2>2 DEF Follows
    <3>2. CASE snap[o] # NoRow
      BY <2>1, <3>1, <3>2
    <3>3. CASE snap[o] = NoRow
      <4>1. list[o].state # "ONLINE"
        BY <3>1, <3>3 DEF Shows
      <4>2. db[o] \in Row
        BY DEF Kept, TypeOK
      <4>3. db'[o] = NoRow \/ (db[o] # NoRow /\ db'[o] = [db[o] EXCEPT !.state = "OFFLINE"])
        BY <2>1, <3>3
      <4>4. db'[o] = NoRow \/ db'[o].state = "OFFLINE"
        BY <4>2, <4>3 DEF Row, Entry
      <4> QED BY <2>1, <4>1, <4>4 DEF Shows
    <3> QED BY <3>2, <3>3
  <2>3. WillRead => WillRead'
    BY <2>1 DEF WillRead
  <2> QED BY <2>1, <2>2, <2>3, FollowsMeans DEF TreeFollows, Follows
<1>5. CASE ListLost
  BY <1>5 DEF ListLost, TreeFollows
<1>6. CASE CardUp
  BY <1>6 DEF CardUp, TreeFollows, WillRead
<1> QED BY <1>1, <1>2, <1>3, <1>4, <1>5, <1>6 DEF Agent

----------------------------------------------------------------------------

\* Kept and TreeFollows are inductive together.
LEMMA Inductive == IInv /\ [Next]_vars => IInv'
<1> SUFFICES ASSUME IInv, [Next]_vars PROVE IInv'
  OBVIOUS
<1>1. Kept /\ TreeFollows
  BY DEF IInv, Kept
<1>2. CASE UNCHANGED vars
  BY <1>1, <1>2 DEF IInv, TypeOK, FlagTrue, RoundTrue, TreeFollows, WillRead, vars, outside,
     reader, fifo, alarms, agent
<1>3. ASSUME Next PROVE Kept' /\ TreeFollows'
  BY <1>1, <1>3, OutsideKept, ReaderKept, FifoKept, AgentKept, OutsideFollows, ReaderFollows,
     FifoFollows, AgentFollows DEF Next
<1> QED BY <1>2, <1>3 DEF IInv, Kept

LEMMA Initially == Init => IInv
<1>1. Init => TreeFollows
  BY DEF Init, TreeFollows, WillRead
<1> QED BY <1>1, InitKept DEF IInv, Kept

LEMMA IInvHolds == Spec => []IInv
  BY Initially, Inductive, PTL DEF Spec

\* Every variable of the card and the agent keeps its type.
THEOREM TypeCorrect == Spec => []TypeOK
<1>1. IInv => TypeOK
  BY DEF IInv
<1> QED BY <1>1, IInvHolds, PTL

\* For any number of ONUs and any length of the queue: the table ONUList shows
\* the card's list, or the agent will read it, or something was lost.
THEOREM TreeFollowsHolds == Spec => []TreeFollows
<1>1. IInv => TreeFollows
  BY DEF IInv
<1> QED BY <1>1, IInvHolds, PTL

----------------------------------------------------------------------------
(* CalmIsTrue. *)

\* Who is on line in the list: whoever was on the fibres when they were last
\* believed, but for those whose state has still to change.
OnlineTrue ==
  /\ lpc \in {"read", "check"} => \A o \in Onus : list[o].state = "ONLINE" <=> o \in On(prev)
  /\ lpc = "nodes" => \A o \in Onus : /\ list[o].state = "ONLINE" <=> ~(o \in sys <=> o \in todo)
                                      /\ list[o].state = "ONLINE" => o \in On(prev) \cup On(now)
  /\ lpc \in {"topo", "tell"} => \A o \in Onus : list[o].state = "ONLINE" <=> o \in On(now)
  /\ lpc # "tell" => say = <<>>

\* Open in one direction with each fibre seeing an ONU the other does not: such
\* a ring leaves network states as they were (processONUTopo).
Crossed(m) == OneWay(m) /\ ~(m[1] \subseteq m[2]) /\ ~(m[2] \subseteq m[1])

\* And where it says they are.
NetTrue ==
  /\ lpc \in {"read", "check"} =>
       \A o \in On(prev) : Crossed(prev) \/ list[o].net = NetOf(o, prev, "INVALIDE")
  /\ lpc = "tell" => \A o \in On(now) : Crossed(now) \/ list[o].net = NetOf(o, now, "INVALIDE")

\* And their names, once they are known or about to be told to be.
NameTrue ==
  \A o \in Onus \ overtaken :
    list[o].state = "ONLINE" /\ (o \in named \/ (mpc.type = "ONUNAMECHG" /\ mpc.node = o))
      => list[o].name = hw[o].name

LEMMA SameReader ==
  ASSUME UNCHANGED reader,
         \A o \in Onus : list'[o].state = list[o].state /\ list'[o].net = list[o].net
  PROVE  (OnlineTrue => OnlineTrue') /\ (prev \in Maps /\ now \in Maps /\ NetTrue => NetTrue')
<1>1. UNCHANGED <<lpc, sys, now, prev, todo, say>>
  BY DEF reader
<1>2. OnlineTrue => OnlineTrue'
  BY <1>1 DEF OnlineTrue
<1>3. prev \in Maps /\ now \in Maps => On(prev) \subseteq Onus /\ On(now) \subseteq Onus
  BY DEF Maps, On
<1>4. prev \in Maps /\ now \in Maps /\ NetTrue => NetTrue'
  BY <1>1, <1>3 DEF NetTrue
<1> QED BY <1>2, <1>4

\* An ONU that is there gets the same network state whatever it had.
LEMMA NetOfOn ==
  ASSUME NEW m \in Maps, NEW o \in On(m), NEW net, ~Crossed(m)
  PROVE  NetOf(o, m, net) = NetOf(o, m, "INVALIDE")
  BY DEF On, Crossed, OneWay, NetOf, Maps

LEMMA NobodyOn == On(NoMaps) = {}
  BY DEF On, NoMaps

\* A round of handle_onulist, step by step.
LEMMA ReaderOnline ==
  ASSUME Kept, OnlineTrue, Reader
  PROVE  OnlineTrue'
<1>1. CASE ReadSys
  BY <1>1 DEF ReadSys, OnlineTrue
<1>2. CASE Check
  <2>1. /\ UNCHANGED <<prev, say, list>> /\ lpc = "check"
        /\ \A o \in Onus : list[o].state = "ONLINE" <=> o \in On(prev)
    BY <1>2 DEF Check, OnlineTrue
  <2>2. \/ lpc' = "read"
        \/ sys' = On(now') /\ sys' = sys /\ lpc' = "nodes" /\ todo' = Changed(sys)
        \/ lpc' = "topo" /\ sys = On(prev) /\ On(now') = sys
    BY <1>2 DEF Check, Believe, Again
  <2>3. ASSUME NEW o \in Onus
        PROVE  list[o].state = "ONLINE" <=> ~(o \in sys <=> o \in Changed(sys))
    BY DEF Changed
  <2> QED BY <2>1, <2>2, <2>3 DEF OnlineTrue
<1>3. CASE Nodes
  <2>1. PICK o \in todo :
          /\ todo' = todo \ {o}
          /\ list' = IF o \in sys
                     THEN [list EXCEPT ![o].state = "ONLINE", ![o].sn = o, ![o].name = Blank]
                     ELSE [list EXCEPT ![o].state = "OFFLINE"]
    BY <1>3, Zenon DEF Nodes
  <2>2. lpc = "nodes" /\ UNCHANGED <<lpc, sys, now, prev, say>>
    BY <1>3 DEF Nodes
  <2>3. o \in Onus /\ list \in [Onus -> Entry] /\ sys = On(now)
    BY <2>2 DEF Kept, TypeOK, RoundTrue
  <2>4. ASSUME NEW p \in Onus
        PROVE  list'[p].state = IF p # o THEN list[p].state
                                ELSE IF o \in sys THEN "ONLINE" ELSE "OFFLINE"
    BY <2>1, <2>3 DEF Entry
  <2>5. ASSUME NEW p \in Onus
        PROVE  /\ list'[p].state = "ONLINE" <=> ~(p \in sys <=> p \in todo')
               /\ list'[p].state = "ONLINE" => p \in On(prev) \cup On(now)
    BY <2>1, <2>2, <2>3, <2>4 DEF OnlineTrue
  <2>6. say = <<>>
    BY <2>2 DEF OnlineTrue
  <2> QED BY <2>2, <2>5, <2>6 DEF OnlineTrue
<1>4. CASE NodesDone
  BY <1>4 DEF NodesDone, OnlineTrue, Kept, RoundTrue
<1>5. CASE Topo
  <2>1. ASSUME NEW o \in Onus PROVE list'[o].state = list[o].state
    BY <1>5 DEF Topo, Kept, TypeOK, Entry
  <2>2. lpc = "topo" /\ lpc' = "tell" /\ now' = now
    BY <1>5 DEF Topo
  <2> QED BY <2>1, <2>2 DEF OnlineTrue
<1>6. CASE Tell
  <2>1. /\ lpc = "tell" /\ list' = list /\ say' = Tail(say)
        /\ \/ lpc' = "read" /\ prev' = now /\ say' = <<>>
           \/ lpc' = lpc /\ UNCHANGED <<sys, now, prev>>
    BY <1>6 DEF Tell, Again
  <2> QED BY <2>1 DEF OnlineTrue
<1> QED BY <1>1, <1>2, <1>3, <1>4, <1>5, <1>6 DEF Reader

LEMMA ReaderNet ==
  ASSUME Kept, NetTrue, Reader
  PROVE  NetTrue'
<1>1. CASE ReadSys
  BY <1>1 DEF ReadSys, NetTrue
<1>2. CASE Check
  <2>1. lpc = "check" /\ UNCHANGED <<prev, list>> /\ lpc' \in {"read", "nodes", "topo"}
    BY <1>2 DEF Check, Believe, Again
  <2> QED BY <2>1 DEF NetTrue
<1>3. CASE Nodes \/ NodesDone
  <2>1. lpc' \in {"nodes", "topo"}
    BY <1>3, Zenon DEF Nodes, NodesDone
  <2> QED BY <2>1 DEF NetTrue
<1>4. CASE Topo
  <2>1. ASSUME NEW o \in Onus PROVE list'[o].net = NetOf(o, now, list[o].net)
    BY <1>4 DEF Topo, Kept, TypeOK, Entry
  <2>2. lpc' = "tell" /\ now' = now /\ now \in Maps /\ On(now) \subseteq Onus
    BY <1>4 DEF Topo, Kept, TypeOK, Maps, On
  <2>3. ASSUME NEW o \in On(now), ~Crossed(now) PROVE list'[o].net = NetOf(o, now, "INVALIDE")
    BY <2>1, <2>2, <2>3, NetOfOn
  <2> QED BY <2>2, <2>3 DEF NetTrue
<1>5. CASE Tell
  <2>1. /\ lpc = "tell" /\ list' = list
        /\ \/ lpc' = "read" /\ prev' = now
           \/ lpc' = lpc /\ UNCHANGED <<now, prev>>
    BY <1>5 DEF Tell, Again
  <2> QED BY <2>1 DEF NetTrue
<1> QED BY <1>1, <1>2, <1>3, <1>4, <1>5 DEF Reader

LEMMA ReaderName ==
  ASSUME Kept, NameTrue, Reader
  PROVE  NameTrue'
<1>1. CASE ReadSys \/ Check \/ NodesDone \/ Tell
  <2>1. UNCHANGED <<list, named, overtaken, mpc, hw>>
    BY <1>1 DEF ReadSys, Check, NodesDone, Tell, outside, fifo
  <2> QED BY <2>1 DEF NameTrue
<1>2. CASE Topo
  <2>1. ASSUME NEW o \in Onus PROVE list'[o].state = list[o].state /\ list'[o].name = list[o].name
    BY <1>2 DEF Topo, Kept, TypeOK, Entry
  <2>2. UNCHANGED <<named, overtaken, mpc, hw>>
    BY <1>2 DEF Topo, outside, fifo
  <2> QED BY <2>1, <2>2 DEF NameTrue
<1>3. CASE Nodes
  <2>1. PICK o \in todo :
          IF o \in sys
          THEN /\ list' = [list EXCEPT ![o].state = "ONLINE", ![o].sn = o, ![o].name = Blank]
               /\ named' = named \ {o}
               /\ overtaken' = IF mpc.type = "ONUNAMECHG" /\ mpc.node = o
                                THEN overtaken \cup {o} ELSE overtaken
          ELSE list' = [list EXCEPT ![o].state = "OFFLINE"] /\ UNCHANGED <<named, overtaken>>
    BY <1>3, Zenon DEF Nodes
  <2>2. UNCHANGED <<mpc, hw>>
    BY <1>3 DEF Nodes, outside
  <2>3. o \in Onus /\ list \in [Onus -> Entry]
    BY DEF Kept, TypeOK
  <2>4. ASSUME NEW p \in Onus, p # o PROVE list'[p] = list[p]
    BY <2>1, <2>3, <2>4
  <2>5. o \notin sys => list'[o].state = "OFFLINE"
    BY <2>1, <2>3 DEF Entry
  <2>6. ASSUME NEW p \in Onus \ overtaken', list'[p].state = "ONLINE",
               p \in named' \/ (mpc'.type = "ONUNAMECHG" /\ mpc'.node = p)
        PROVE  list'[p].name = hw'[p].name
    <3>1. CASE p = o
      BY <2>1, <2>2, <2>5, <2>6, <3>1
    <3>2. CASE p # o
      <4>1. p \notin overtaken /\ (p \in named' => p \in named)
        BY <2>1, <2>6
      <4> QED BY <2>2, <2>4, <2>6, <3>2, <4>1 DEF NameTrue
    <3> QED BY <3>1, <3>2
  <2> QED BY <2>6 DEF NameTrue
<1> QED BY <1>1, <1>2, <1>3 DEF Reader

\* handle_fifomsg changes neither states nor topology; the name it sets is right.
LEMMA FifoTruths ==
  ASSUME Kept, OnlineTrue, NetTrue, NameTrue, Fifo
  PROVE  OnlineTrue' /\ NetTrue' /\ NameTrue'
<1>1. list \in [Onus -> Entry] /\ prev \in Maps /\ now \in Maps
  BY DEF Kept, TypeOK
<1>2. ASSUME NEW o \in Onus, SnSeen(o) PROVE OnlineTrue' /\ NetTrue' /\ NameTrue'
  <2>1. /\ list' = [list EXCEPT ![o].sn = hw[o].sn] /\ mpc'.type = "ONUSNCHG"
        /\ UNCHANGED <<hw, named, overtaken>> /\ UNCHANGED reader
    BY <1>2 DEF SnSeen, outside
  <2>2. \A p \in Onus : /\ list'[p].state = list[p].state /\ list'[p].net = list[p].net
                        /\ list'[p].name = list[p].name
    BY <1>1, <2>1 DEF Entry
  <2>3. NameTrue'
    BY <2>1, <2>2 DEF NameTrue
  <2> QED BY <1>1, <2>1, <2>2, <2>3, SameReader
<1>3. ASSUME NEW o \in Onus, NameSeen(o) PROVE OnlineTrue' /\ NetTrue' /\ NameTrue'
  <2>1. /\ UNCHANGED reader /\ hw' = hw /\ mpc = Idle /\ overtaken' = overtaken \ {o}
        /\ \/ list[o].name = hw[o].name /\ list' = list /\ mpc' = mpc /\ named' = named \cup {o}
           \/ /\ list' = [list EXCEPT ![o].name = hw[o].name] /\ named' = named
              /\ mpc' = [type |-> "ONUNAMECHG", node |-> o, sn |-> 0]
    BY <1>3 DEF NameSeen, outside
  <2>2. /\ \A p \in Onus : list'[p].state = list[p].state /\ list'[p].net = list[p].net
        /\ list'[o].name = hw[o].name
        /\ \A p \in Onus \ {o} : list'[p].name = list[p].name
    BY <1>1, <2>1 DEF Entry
  <2>3. /\ named' \subseteq named \cup {o}
        /\ mpc'.type = "ONUNAMECHG" => mpc'.node = o
    BY <2>1, IdleType DEF Idle
  <2>4. NameTrue'
    BY <2>1, <2>2, <2>3 DEF NameTrue
  <2> QED BY <1>1, <2>1, <2>2, <2>4, SameReader
<1>4. CASE Raise
  <2>1. /\ UNCHANGED <<list, hw, overtaken>> /\ UNCHANGED reader /\ mpc' = Idle
        /\ named' = IF mpc.type = "ONUNAMECHG" THEN named \cup {mpc.node} ELSE named
    BY <1>4, Zenon DEF Raise, outside
  <2>2. NameTrue'
    BY <2>1 DEF NameTrue, Idle
  <2> QED BY <1>1, <2>1, <2>2, SameReader
<1> QED BY <1>2, <1>3, <1>4 DEF Fifo

\* An ONU is exchanged for another only while the card has it off line.
LEMMA OutsideTruths ==
  ASSUME Kept, OnlineTrue, NetTrue, NameTrue,
         \/ \E maps \in Layouts, names \in [Onus -> Names] : Fibres(maps, names)
         \/ \E o \in Onus, n \in Sns : Renumber(o, n)
         \/ OtherAlarm \/ Restart \/ Agent
  PROVE  OnlineTrue' /\ NetTrue' /\ NameTrue'
<1>1. list \in [Onus -> Entry] /\ prev \in Maps /\ now \in Maps
      /\ hw \in [Onus -> [sn : Sns, name : Names]]
  BY DEF Kept, TypeOK
<1>2. ASSUME NEW maps \in Layouts, NEW names \in [Onus -> Names], Fibres(maps, names)
      PROVE  OnlineTrue' /\ NetTrue' /\ NameTrue'
  <2>1. /\ UNCHANGED <<list, named, mpc, overtaken>> /\ UNCHANGED reader
        /\ \A o \in Onus : names[o] # hw[o].name => o \notin On(prev) \cup On(now)
        /\ hw' = [o \in Onus |-> [hw[o] EXCEPT !.name = names[o]]]
    BY <1>2 DEF Fibres
  <2>2. ASSUME NEW o \in Onus, list[o].state = "ONLINE" PROVE o \in On(prev) \cup On(now)
    BY <2>2 DEF OnlineTrue, Kept, TypeOK
  <2>3. ASSUME NEW o \in Onus, list[o].state = "ONLINE" PROVE hw'[o].name = hw[o].name
    <3>1. names[o] = hw[o].name
      BY <2>1, <2>2, <2>3
    <3>2. hw'[o].name = names[o]
      BY <1>1, <2>1
    <3> QED BY <3>1, <3>2
  <2>4. NameTrue'
    BY <2>1, <2>3 DEF NameTrue
  <2> QED BY <1>1, <2>1, <2>4, SameReader
<1>3. ASSUME NEW o \in Onus, NEW n \in Sns, Renumber(o, n)
      PROVE  OnlineTrue' /\ NetTrue' /\ NameTrue'
  <2>1. UNCHANGED <<list, named, mpc, overtaken>> /\ UNCHANGED reader
        /\ hw' = [hw EXCEPT ![o].sn = n]
    BY <1>3 DEF Renumber, fifo
  <2>2. \A p \in Onus : hw'[p].name = hw[p].name
    BY <1>1, <2>1
  <2>3. NameTrue'
    BY <2>1, <2>2 DEF NameTrue
  <2> QED BY <1>1, <2>1, <2>3, SameReader
<1>4. CASE OtherAlarm \/ Agent
  <2>1. UNCHANGED <<list, named, mpc, overtaken, hw>> /\ UNCHANGED reader
    BY <1>4 DEF OtherAlarm, Agent, Poll, Take, TakeLost, ReadList, WriteList, ListLost, CardUp,
       outside, fifo
  <2>2. NameTrue'
    BY <2>1 DEF NameTrue
  <2> QED BY <1>1, <2>1, <2>2, SameReader
<1>5. CASE Restart
  <2>1. /\ lpc' = "read" /\ prev' = NoMaps /\ say' = <<>> /\ named' = {} /\ mpc' = Idle
        /\ list' = [o \in Onus |-> Unused]
    BY <1>5 DEF Restart
  <2>2. \A o \in Onus : list'[o].state = "NOTUSE"
    BY <2>1 DEF Unused
  <2> QED BY <2>1, <2>2, NobodyOn DEF OnlineTrue, NetTrue, NameTrue, Idle
<1> QED BY <1>2, <1>3, <1>4, <1>5

\* The card's list is right when the thread that keeps it is at rest, and the
\* table is the list.
LEMMA CalmTrue ==
  ASSUME Kept, TreeFollows, OnlineTrue, NetTrue, NameTrue
  PROVE  CalmIsTrue
<1> SUFFICES ASSUME Calm, loss = "none", NEW o \in Onus
             PROVE  IF o \in On(fib)
                    THEN /\ db[o] # NoRow /\ db[o].state = "ONLINE"
                         /\ Crossed(fib) \/ db[o].net = NetOf(o, fib, "INVALIDE")
                         /\ o \in named \ overtaken => db[o].name = hw[o].name
                    ELSE db[o] = NoRow \/ db[o].state = "OFFLINE"
  BY DEF CalmIsTrue, TableTrue, Crossed
<1>1. lpc = "read" /\ prev = fib /\ mpc = Idle /\ queue = <<>> /\ apc = "idle"
  BY DEF Calm
<1>2. say = <<>> /\ (list[o].state = "ONLINE" <=> o \in On(fib))
  BY <1>1 DEF OnlineTrue
<1>3. ~WillRead
  BY <1>1, <1>2, IdleType DEF WillRead
<1>4. Shows(db[o], list[o])
  BY <1>1, <1>3 DEF TreeFollows
<1>5. o \in On(fib) => Crossed(fib) \/ list[o].net = NetOf(o, fib, "INVALIDE")
  BY <1>1 DEF NetTrue
<1>6. o \in named \ overtaken /\ o \in On(fib) => list[o].name = hw[o].name
  BY <1>2 DEF NameTrue
<1> QED BY <1>2, <1>4, <1>5, <1>6 DEF Shows

CInv == IInv /\ OnlineTrue /\ NetTrue /\ NameTrue

\* When nothing is going on and nothing was lost, the table tells the truth
\* about the fibres, for any ONUs, layouts, queue and number of events.
THEOREM CalmIsTrueHolds == Spec => []CalmIsTrue
<1>1. Init => CInv
  <2> SUFFICES ASSUME Init PROVE OnlineTrue /\ NetTrue /\ NameTrue
    BY Initially DEF CInv
  <2>1. /\ lpc = "read" /\ prev = NoMaps /\ say = <<>> /\ named = {} /\ mpc = Idle
        /\ list = [o \in Onus |-> Unused]
    BY DEF Init
  <2>2. \A o \in Onus : list[o].state = "NOTUSE"
    BY <2>1 DEF Unused
  <2> QED BY <2>1, <2>2, NobodyOn DEF OnlineTrue, NetTrue, NameTrue, Idle
<1>2. CInv /\ [Next]_vars => CInv'
  <2> SUFFICES ASSUME CInv, [Next]_vars PROVE OnlineTrue' /\ NetTrue' /\ NameTrue'
    BY Inductive DEF CInv
  <2>1. Kept /\ OnlineTrue /\ NetTrue /\ NameTrue
    BY DEF CInv, IInv, Kept
  <2>2. CASE UNCHANGED vars
    BY <2>1, <2>2 DEF OnlineTrue, NetTrue, NameTrue, vars, outside, reader, fifo
  <2>3. CASE Next
    BY <2>1, <2>3, ReaderOnline, ReaderNet, ReaderName, FifoTruths, OutsideTruths DEF Next
  <2> QED BY <2>2, <2>3
<1>3. CInv => CalmIsTrue
  BY CalmTrue DEF CInv, IInv, Kept
<1> QED BY <1>1, <1>2, <1>3, PTL DEF Spec
=============================================================================
