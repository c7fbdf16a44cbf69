---------------------------- MODULE ShelfProofs ----------------------------
(***************************************************************************)
(* Proofs about what the agent does for the shelf itself: the fans           *)
(* (FanControl), for any fans, temperatures and configurations that satisfy  *)
(* FanControlAssumption; and the files that it shares with pages and cards   *)
(* (IniFile), for any programs, keys, requests and number of kills and       *)
(* failed writes.                                                            *)
(***************************************************************************)
EXTENDS FanControl, IniFile, TLAPS

----------------------------------------------------------------------------
(* FanControl. *)

USE FanControlAssumption DEF FanControlAssumption, Used

\* A reading is a byte, a frost included.
LEMMA ReadingIsByte ==
  ASSUME TypeOK
  PROVE  Reading \in Byte
<1>1. air \in Int
  BY DEF TypeOK
<1> QED BY <1>1 DEF Reading, Byte

\* What Start leaves behind has its types.
LEMMA StartType ==
  ASSUME TypeOK, NEW o \in Outcomes, Start(config, o)
  PROVE  /\ control' \subseteq Fans /\ command' \subseteq Fans /\ running' = {}
         /\ temperature' \in Byte /\ shown' = [i \in Fans |-> "FAN_OFF"]
         /\ misses' \in [Fans -> 0..1]
         /\ delay' \in 0..FailDelay /\ settling' \in 0..Settle
<1>1. config.on \subseteq Fans
  BY DEF TypeOK
<1> QED BY <1>1 DEF TypeOK, Start, Told, Byte

\* So has what a pass of check_backstate leaves behind.
LEMMA CheckType ==
  ASSUME TypeOK, NEW p \in Outcomes, NEW q \in Outcomes, NEW noted,
         noted \in BOOLEAN, CheckBackState(p, q, noted)
  PROVE  TypeOK'
<1> DEFINE regulate == config.mode = "auto" /\ Reading # temperature
           want == IF regulate THEN Wanted(config, Reading) ELSE control
           told == IF regulate THEN Told(p, want) ELSE command
           show == Show(spinning)
           wait == Delay(regulate, p, delay)
           standing == IF wait = 0 THEN Standing(want, spinning, show) ELSE {}
           straying == IF wait = 0 THEN Straying(want, spinning, show) ELSE {}
           resend == standing \cup straying # {}
           failing == Failing(standing)
<1>1. want \subseteq Fans /\ told \subseteq Fans
  BY DEF TypeOK, Wanted, Told
<1>2. wait \in 0..FailDelay
  BY DEF TypeOK, Delay
<1>3. standing \subseteq Fans /\ failing \subseteq Fans
  BY <1>1 DEF Standing, Failing
<1>4. control' \subseteq Fans /\ command' \subseteq Fans
  BY <1>1 DEF CheckBackState
<1>5. delay' \in 0..FailDelay
  <2>1. delay' = IF wait = 0 THEN Delay(resend, q, 0) ELSE wait - 1
    BY DEF CheckBackState
  <2> QED BY <1>2, <2>1 DEF Delay
<1>6. settling' \in 0..Settle
  BY DEF TypeOK, CheckBackState
<1>7. misses' \in [Fans -> 0..1]
  <2>1. misses' = Counted(standing)
    BY DEF CheckBackState
  <2> HIDE DEF standing
  <2>2. \A i \in Fans : misses[i] \in 0..1
    BY DEF TypeOK
  <2> QED BY <2>1, <2>2 DEF Counted, Failing
<1>8. shown' \in [Fans -> {"FAN_OFF", "FAN_ON", "FAN_FAIL"}]
  <2>1. show \in [Fans -> {"FAN_OFF", "FAN_ON", "FAN_FAIL"}]
    BY DEF TypeOK, Show
  <2>2. shown' = [i \in Fans |-> IF i \in failing THEN "FAN_FAIL" ELSE show[i]]
    BY DEF CheckBackState
  <2> HIDE DEF show, failing
  <2> QED BY <2>1, <2>2
<1>9. alarmed' \subseteq Fans
  <2>1. alarmed' = {i \in alarmed : show[i] = "FAN_FAIL"} \cup (IF noted THEN failing ELSE {})
    BY DEF CheckBackState
  <2> HIDE DEF show, failing
  <2> QED BY <1>3, <2>1 DEF TypeOK
<1>10. temperature' \in Byte /\ running' \subseteq Fans
  BY ReadingIsByte DEF TypeOK, CheckBackState
<1>11. used' \in Used
  <2> DEFINE losses == (IF regulate /\ p # "done" THEN 1 ELSE 0)
                         + (IF resend /\ q # "done" THEN 1 ELSE 0)
  <2>1. losses \in Nat
    OBVIOUS
  <2>2. used.lost \in Nat /\ used.dbFaults \in Nat
    BY DEF TypeOK
  <2>3. /\ used.lost + losses <= MaxLost
        /\ ~noted => used.dbFaults < MaxDbFaults
        /\ used' = [used EXCEPT !.lost = @ + losses, !.dbFaults = IF noted THEN @ ELSE @ + 1]
    BY DEF CheckBackState
  <2> HIDE DEF losses
  <2>4. used.lost + losses \in 0..MaxLost
    BY <2>1, <2>2, <2>3
  <2>5. CASE noted
    <3>1. used' = [used EXCEPT !.lost = used.lost + losses]
      BY <2>3, <2>5 DEF TypeOK
    <3> QED BY <2>4, <3>1 DEF TypeOK
  <2>6. CASE ~noted
    <3>1. used' = [used EXCEPT !.lost = used.lost + losses, !.dbFaults = used.dbFaults + 1]
      BY <2>3, <2>6
    <3>2. used.dbFaults + 1 \in 0..MaxDbFaults
      BY <2>2, <2>3, <2>6
    <3> QED BY <2>4, <3>1, <3>2 DEF TypeOK
  <2> QED BY <2>5, <2>6
<1>12. UNCHANGED <<config, air, broken, spinning>>
  BY DEF CheckBackState
<1> QED BY <1>4, <1>5, <1>6, <1>7, <1>8, <1>9, <1>10, <1>11, <1>12 DEF TypeOK

\* Every variable keeps its type; in particular a fan never has two misses on
\* its count, and the delay never passes below zero.
THEOREM TypeCorrect == Spec => []TypeOK
<1>1. ASSUME Init PROVE TypeOK
  <2>1. Default.on \subseteq Fans
    OBVIOUS
  <2>2. command \subseteq Fans
    BY <1>1, <2>1 DEF Init
  <2>3. delay \in 0..FailDelay
    BY <1>1 DEF Init
  <2>4. used \in Used
    BY <1>1 DEF Init
  <2> QED BY <1>1, <2>1, <2>2, <2>3, <2>4 DEF Init, TypeOK, Byte
<1>2. TypeOK /\ [Next]_vars => TypeOK'
  <2> SUFFICES ASSUME TypeOK, [Next]_vars PROVE TypeOK'
    OBVIOUS
  <2>1. ASSUME NEW t \in Temps, Warm(t) PROVE TypeOK'
    BY <2>1 DEF TypeOK, Warm, agentVars
  <2>2. ASSUME NEW i \in Fans, Turn(i) PROVE TypeOK'
    BY <2>2 DEF TypeOK, Turn, agentVars
  <2>3. ASSUME NEW i \in Fans, Break(i) PROVE TypeOK'
    BY <2>3 DEF TypeOK, Break, agentVars
  <2>4. ASSUME NEW i \in Fans, Repair(i) PROVE TypeOK'
    BY <2>4 DEF TypeOK, Repair, agentVars
  <2>5. ASSUME NEW fans \in SUBSET Fans, Reset(fans) PROVE TypeOK'
    BY <2>5 DEF TypeOK, Reset, agentVars
  <2>6. ASSUME NEW o \in Outcomes, Restart(o) PROVE TypeOK'
    <3>1. used' \in Used
      <4>1. used.restarts + 1 \in 0..MaxRestarts
        BY <2>6 DEF TypeOK, Restart
      <4>2. o # "done" => used.lost + 1 \in 0..MaxLost
        BY <2>6 DEF TypeOK, Restart
      <4>3. CASE o = "done"
        <5>1. used' = [used EXCEPT !.restarts = used.restarts + 1, !.lost = used.lost]
          BY <2>6, <4>3 DEF Restart
        <5> QED BY <4>1, <5>1 DEF TypeOK
      <4>4. CASE o # "done"
        <5>1. used' = [used EXCEPT !.restarts = used.restarts + 1, !.lost = used.lost + 1]
          BY <2>6, <4>4 DEF Restart
        <5> QED BY <4>1, <4>2, <4>4, <5>1 DEF TypeOK
      <4> QED BY <4>3, <4>4
    <3>2. Start(config, o)
      BY <2>6 DEF Restart
    <3> QED BY <2>6, <3>1, <3>2, StartType DEF TypeOK, Restart
  <2>7. ASSUME NEW c \in Configs, NEW o \in Outcomes, SetShelf(c, o) PROVE TypeOK'
    <3>1. c.on \subseteq Fans
      OBVIOUS
    <3>2. control' \subseteq Fans /\ command' \subseteq Fans
      BY <2>7, <3>1 DEF TypeOK, SetShelf, Wanted, Told
    <3>3. delay' \in 0..FailDelay /\ settling' \in 0..Settle
      BY <2>7 DEF TypeOK, SetShelf
    <3>4. used' \in Used
      <4>1. used.sets + 1 \in 0..MaxSets
        BY <2>7 DEF TypeOK, SetShelf
      <4>2. o # "done" => used.refused + 1 \in 0..MaxRefused
        BY <2>7 DEF TypeOK, SetShelf
      <4>3. CASE o = "done"
        <5>1. used' = [used EXCEPT !.sets = used.sets + 1, !.refused = used.refused]
          BY <2>7, <4>3 DEF SetShelf
        <5> QED BY <4>1, <5>1 DEF TypeOK
      <4>4. CASE o # "done"
        <5>1. used' = [used EXCEPT !.sets = used.sets + 1, !.refused = used.refused + 1]
          BY <2>7, <4>4 DEF SetShelf
        <5> QED BY <4>1, <4>2, <4>4, <5>1 DEF TypeOK
      <4> QED BY <4>3, <4>4
    <3> QED BY <2>7, <3>2, <3>3, <3>4 DEF TypeOK, SetShelf
  <2>8. CASE Check
    BY <2>8, CheckType DEF Check
  <2>9. CASE UNCHANGED vars
    BY <2>9 DEF TypeOK, vars, agentVars, shelfVars
  <2> QED BY <2>1, <2>2, <2>3, <2>4, <2>5, <2>6, <2>7, <2>8, <2>9 DEF Next
<1> QED BY <1>1, <1>2, PTL DEF Spec

\* What the web page shows of a fan agrees with its last reading.
THEOREM ShownIsSeenHolds == Spec => []ShownIsSeen
<1>1. Init => ShownIsSeen
  BY DEF Init, ShownIsSeen
<1>2. TypeOK /\ ShownIsSeen /\ [Next]_vars => ShownIsSeen'
  <2> SUFFICES ASSUME TypeOK, ShownIsSeen, [Next]_vars PROVE ShownIsSeen'
    OBVIOUS
  <2>1. CASE UNCHANGED <<shown, running>>
    BY <2>1 DEF ShownIsSeen
  <2>2. ASSUME NEW o \in Outcomes, Restart(o) PROVE ShownIsSeen'
    BY <2>2 DEF ShownIsSeen, Restart, Start
  <2>3. ASSUME NEW p \in Outcomes, NEW q \in Outcomes, NEW noted, CheckBackState(p, q, noted)
        PROVE  ShownIsSeen'
    <3> DEFINE show == Show(spinning)
               want == IF config.mode = "auto" /\ Reading # temperature
                         THEN Wanted(config, Reading) ELSE control
               wait == Delay(config.mode = "auto" /\ Reading # temperature, p, delay)
               standing == IF wait = 0 THEN Standing(want, spinning, show) ELSE {}
               failing == Failing(standing)
    <3>1. \A i \in Fans : show[i] = "FAN_ON" <=> i \in spinning
      <4>1. \A i \in Fans : show[i] = CASE i \in spinning \ running -> "FAN_ON"
                                         [] i \in running \ spinning -> "FAN_OFF"
                                         [] OTHER -> shown[i]
        BY DEF Show
      <4> HIDE DEF show
      <4> QED BY <4>1 DEF ShownIsSeen
    <3>2. \A i \in failing : i \notin spinning
      BY DEF Failing, Standing
    <3>3. shown' = [i \in Fans |-> IF i \in failing THEN "FAN_FAIL" ELSE show[i]]
      BY <2>3 DEF CheckBackState
    <3>4. running' = spinning
      BY <2>3 DEF CheckBackState
    <3> HIDE DEF show, failing
    <3> QED BY <3>1, <3>2, <3>3, <3>4 DEF ShownIsSeen
  <2>4. ASSUME NEW c \in Configs, NEW o \in Outcomes, SetShelf(c, o)
        PROVE  UNCHANGED <<shown, running>>
    BY <2>4 DEF SetShelf
  <2> QED BY <2>1, <2>2, <2>3, <2>4
          DEF Next, Check, Warm, Turn, Break, Repair, Reset, vars, agentVars
<1> QED BY <1>1, <1>2, TypeCorrect, PTL DEF Spec

\* The thresholds of a configuration are bytes, and in mode auto in order.
LEMMA Thresholds ==
  ASSUME NEW c \in Configs, NEW i \in Fans
  PROVE  /\ c.low[i] \in Nat /\ c.high[i] \in Nat
         /\ c.mode = "auto" => 0 < c.low[i] /\ c.low[i] < c.high[i]
<1>1. c.low \in [Fans -> Byte] /\ c.high \in [Fans -> Byte]
  OBVIOUS
<1>2. c.low[i] \in Byte /\ c.high[i] \in Byte
  BY <1>1
<1> QED BY <1>2 DEF Byte

\* What Wanted returns obeys the thresholds it was given.
LEMMA WantedObeys ==
  ASSUME NEW c \in Configs, c.mode = "auto", NEW t \in Byte, NEW i \in Fans
  PROVE  /\ t >= c.high[i] => i \in Wanted(c, t)
         /\ t <= c.low[i] => i \notin Wanted(c, t)
<1>1. t \in Nat /\ c.low[i] \in Nat /\ c.high[i] \in Nat /\ c.low[i] < c.high[i]
  BY Thresholds DEF Byte
<1>2. i \in Wanted(c, t) <=> (t >= c.high[i] \/ i \in control) /\ t > c.low[i]
  BY DEF Wanted
<1> QED BY <1>1, <1>2

\* Unless the backplane refused a SetShelf, the agent wants the fans that its
\* configuration calls for.
THEOREM ObeysUnlessRefusedHolds == Spec => []ObeysUnlessRefused
<1> USE DEF ObeysUnlessRefused, Obeys
<1>1. ASSUME Init PROVE ObeysUnlessRefused
  <2>1. config = Default /\ control = Default.on /\ temperature = 0
    BY <1>1 DEF Init
  <2>2. Default.mode = "auto" => Default.on = {}
    OBVIOUS
  <2>3. \A i \in Fans : /\ Default.low[i] \in Nat /\ Default.high[i] \in Nat
                        /\ Default.mode = "auto" => 0 < Default.low[i] /\ Default.low[i] < Default.high[i]
    BY Thresholds
  <2> QED BY <2>1, <2>2, <2>3
<1>2. TypeOK /\ ObeysUnlessRefused /\ [Next]_vars => ObeysUnlessRefused'
  <2> SUFFICES ASSUME TypeOK, ObeysUnlessRefused, [Next]_vars, used'.refused = 0
               PROVE  Obeys'
    OBVIOUS
  <2>1. CASE UNCHANGED <<config, control, temperature>> /\ used'.refused = used.refused
    BY <2>1
  <2>2. ASSUME NEW o \in Outcomes, Restart(o) PROVE Obeys'
    <3>1. config' = config /\ control' = config.on /\ temperature' = 0
      BY <2>2 DEF Restart, Start
    <3>2. config \in Configs
      BY DEF TypeOK
    <3>3. config.mode = "auto" => config.on = {}
      BY <3>2
    <3>4. \A i \in Fans : /\ config.low[i] \in Nat /\ config.high[i] \in Nat
                          /\ config.mode = "auto" => 0 < config.low[i] /\ config.low[i] < config.high[i]
      BY <3>2, Thresholds
    <3> QED BY <3>1, <3>3, <3>4
  <2>3. ASSUME NEW c \in Configs, NEW o \in Outcomes, SetShelf(c, o) PROVE Obeys'
    <3>1. o = "done"
      <4>1. used.refused \in Nat
        BY DEF TypeOK
      <4>2. o # "done" => used' = [used EXCEPT !.sets = used.sets + 1, !.refused = used.refused + 1]
        BY <2>3 DEF SetShelf
      <4>3. o # "done" => used'.refused = used.refused + 1
        BY <4>2 DEF TypeOK
      <4> QED BY <4>1, <4>3
    <3>2. /\ config' = c /\ temperature' = temperature
          /\ control' = IF c.mode = "auto" THEN Wanted(c, temperature) ELSE c.on
      BY <2>3, <3>1 DEF SetShelf
    <3>3. temperature \in Byte
      BY DEF TypeOK
    <3> QED BY <3>2, <3>3, WantedObeys
  <2>4. ASSUME NEW p \in Outcomes, NEW q \in Outcomes, NEW noted, noted \in BOOLEAN,
               CheckBackState(p, q, noted)
        PROVE  Obeys'
    <3>1. /\ config' = config /\ temperature' = Reading
          /\ control' = IF config.mode = "auto" /\ Reading # temperature
                          THEN Wanted(config, Reading) ELSE control
      BY <2>4 DEF CheckBackState
    <3>2. used.refused = 0
      <4>1. \E n, m : used' = [used EXCEPT !.lost = n, !.dbFaults = m]
        BY <2>4 DEF CheckBackState
      <4> QED BY <4>1 DEF TypeOK
    <3>3. config \in Configs /\ Reading \in Byte
      BY ReadingIsByte DEF TypeOK
    <3> QED BY <3>1, <3>2, <3>3, WantedObeys
  <2>5. ASSUME NEW b \in {"warms", "resets", "breaks"}, used' = [used EXCEPT ![b] = used[b] + 1]
        PROVE  used'.refused = used.refused
    BY <2>5 DEF TypeOK
  <2>6. ASSUME NEW t \in Temps, Warm(t) PROVE Obeys'
    <3>1. used' = [used EXCEPT !["warms"] = used["warms"] + 1]
      BY <2>6 DEF Warm
    <3> QED BY <2>1, <2>5, <2>6, <3>1 DEF Warm, agentVars
  <2>7. ASSUME NEW i \in Fans, Break(i) PROVE Obeys'
    <3>1. used' = [used EXCEPT !["breaks"] = used["breaks"] + 1]
      BY <2>7 DEF Break
    <3> QED BY <2>1, <2>5, <2>7, <3>1 DEF Break, agentVars
  <2>8. ASSUME NEW fans \in SUBSET Fans, Reset(fans) PROVE Obeys'
    <3>1. used' = [used EXCEPT !["resets"] = used["resets"] + 1]
      BY <2>8 DEF Reset
    <3> QED BY <2>1, <2>5, <2>8, <3>1 DEF Reset, agentVars
  <2>9. CASE (\E i \in Fans : Turn(i) \/ Repair(i)) \/ UNCHANGED vars
    BY <2>1, <2>9 DEF Turn, Repair, vars, agentVars
  <2> QED BY <2>2, <2>3, <2>4, <2>6, <2>7, <2>8, <2>9 DEF Next, Check
<1> QED BY <1>1, <1>2, TypeCorrect, PTL DEF Spec

----------------------------------------------------------------------------
(* Failures that are none. *)

\* Lost messages and restarts of the backplane.
Faults == used.lost + used.refused + used.resets

\* The backplane drives the wanted fans, and they will turn when next looked at.
Follows == /\ control \subseteq command
           /\ settling <= delay \/ control \subseteq spinning

Clear  == \A i \in Fans : misses[i] = 0
NoFail == \A i \in Fans : shown[i] # "FAN_FAIL"

\* Fans follow until the one fault; it is forgiven while no fan has missed
\* before, and what it has disturbed is put right by the command that the first
\* miss sends.
FailInv == used.breaks = 0 =>
             /\ broken = {}
             /\ Faults = 0 => Follows /\ Clear
             /\ Faults <= 1 => (Follows \/ Clear) /\ NoFail

LEMMA FaultsType == ASSUME TypeOK
                    PROVE  /\ used.lost \in Nat /\ used.refused \in Nat
                           /\ used.resets \in Nat /\ used.breaks \in Nat
                           /\ Faults \in Nat
  BY DEF TypeOK, Faults

\* The first miss is forgiven.
LEMMA NoneFailing == ASSUME NEW S \in SUBSET Fans, S = {} \/ Clear
                     PROVE  Failing(S) = {}
  BY DEF Clear, Failing

LEMMA CheckKeepsFailInv ==
  ASSUME TypeOK, FailInv, NEW p \in Outcomes, NEW q \in Outcomes,
         NEW noted \in BOOLEAN, CheckBackState(p, q, noted)
  PROVE  FailInv'
<1> DEFINE regulate == config.mode = "auto" /\ Reading # temperature
           want     == IF regulate THEN Wanted(config, Reading) ELSE control
           told     == IF regulate THEN Told(p, want) ELSE command
           show     == Show(spinning)
           wait     == Delay(regulate, p, delay)
           standing == IF wait = 0 THEN Standing(want, spinning, show) ELSE {}
           straying == IF wait = 0 THEN Straying(want, spinning, show) ELSE {}
           resend   == standing \cup straying # {}
           failing  == Failing(standing)
           losses   == (IF regulate /\ p # "done" THEN 1 ELSE 0)
                         + (IF resend /\ q # "done" THEN 1 ELSE 0)
<1>t. /\ control \subseteq Fans /\ command \subseteq Fans /\ spinning \subseteq Fans
      /\ delay \in 0..FailDelay /\ settling \in 0..Settle
      /\ \A i \in Fans : misses[i] \in 0..1
      /\ FailDelay \in Nat /\ Settle \in Nat /\ Settle < FailDelay
  BY DEF TypeOK
<1>1. /\ settling > 0 \/ spinning = command \ broken
      /\ control' = want
      /\ shown' = [i \in Fans |-> IF i \in failing THEN "FAN_FAIL" ELSE show[i]]
      /\ misses' = Counted(standing)
      /\ delay' = IF wait = 0 THEN Delay(resend, q, 0) ELSE wait - 1
      /\ command' = IF resend /\ q # "unheard" THEN want ELSE told
      /\ settling' = IF (regulate /\ p # "unheard") \/ (resend /\ q # "unheard") THEN Settle
                     ELSE IF settling > 0 THEN settling - 1 ELSE 0
      /\ UNCHANGED <<broken, spinning>>
  BY DEF CheckBackState, Settled
<1>2. /\ used'.breaks = used.breaks /\ Faults' = Faults + losses
      /\ losses \in 0..2
  <2>1. used' = [used EXCEPT !.lost = @ + losses, !.dbFaults = IF noted THEN @ ELSE @ + 1]
    BY DEF CheckBackState
  <2>2. losses \in 0..2
    OBVIOUS
  <2> HIDE DEF losses
  <2>3. \/ used' = [used EXCEPT !.lost = used.lost + losses, !.dbFaults = used.dbFaults]
        \/ used' = [used EXCEPT !.lost = used.lost + losses, !.dbFaults = used.dbFaults + 1]
    BY <2>1
  <2>4. /\ used'.lost = used.lost + losses /\ used'.refused = used.refused
        /\ used'.resets = used.resets /\ used'.breaks = used.breaks
    BY <2>3 DEF TypeOK
  <2> QED BY <2>2, <2>4, FaultsType DEF Faults
<1>3. resend /\ q = "done" => Follows'
  <2> SUFFICES ASSUME resend, q = "done" PROVE Follows'
    OBVIOUS
  <2>1. wait = 0
    OBVIOUS
  <2>2. delay' = FailDelay /\ settling' = Settle /\ command' = want /\ control' = want
    BY <1>1, <2>1 DEF Delay
  <2> QED BY <1>t, <2>2 DEF Follows
<1>4. Follows /\ broken = {} /\ (regulate => p = "done") => standing = {}
  <2> SUFFICES ASSUME Follows, broken = {}, regulate => p = "done", wait = 0
               PROVE  Standing(want, spinning, show) = {}
    OBVIOUS
  <2>1. ~regulate /\ delay = 0
    BY <1>t DEF Delay
  <2>2. control \subseteq spinning
    BY <1>t, <1>1, <2>1 DEF Follows
  <2> QED BY <2>1, <2>2 DEF Standing
<1>5. Follows /\ (regulate => p = "done") /\ ~resend => Follows'
  <2> SUFFICES ASSUME Follows, regulate => p = "done", ~resend PROVE Follows'
    OBVIOUS
  <2>1. CASE regulate
    <3>1. wait = FailDelay /\ told = want
      BY <2>1 DEF Delay, Told
    <3>2. delay' = FailDelay - 1 /\ settling' = Settle /\ command' = want /\ control' = want
      BY <1>t, <1>1, <2>1, <3>1
    <3> QED BY <1>t, <3>2 DEF Follows
  <2>2. CASE ~regulate
    <3>1. wait = delay /\ told = command /\ want = control
      BY <2>2 DEF Delay
    <3>2. /\ delay' = IF delay = 0 THEN 0 ELSE delay - 1
          /\ settling' = IF settling > 0 THEN settling - 1 ELSE 0
          /\ UNCHANGED <<command, control, spinning>>
      BY <1>1, <2>2, <3>1 DEF Delay
    <3>3. settling <= delay => settling' <= delay'
      BY <1>t, <3>2
    <3> QED BY <3>2, <3>3 DEF Follows
  <2> QED BY <2>1, <2>2
<1>6. ~resend => standing = {}
  OBVIOUS
<1>7. losses = 0 => (regulate => p = "done") /\ (resend => q = "done")
  OBVIOUS
<1>8. losses = 1 => \/ (regulate => p = "done")
                    \/ (resend => q = "done")
  OBVIOUS
<1>9. standing = {} \/ Clear => failing = {}
  <2>1. standing \in SUBSET Fans
    BY <1>t DEF Standing, Wanted
  <2> HIDE DEF standing
  <2> QED BY <2>1, NoneFailing
<1>10. standing = {} /\ Clear => Clear'
  <2> HIDE DEF standing
  <2> QED BY <1>1 DEF Clear, Counted
<1>11. failing = {} /\ NoFail => NoFail'
  <2>1. \A i \in Fans : show[i] \in {"FAN_ON", "FAN_OFF", shown[i]}
    BY DEF Show
  <2> HIDE DEF failing, show
  <2> QED BY <1>1, <2>1 DEF NoFail
<1> HIDE DEF regulate, want, told, show, wait, standing, straying, resend, failing, losses
<1> SUFFICES ASSUME used'.breaks = 0
             PROVE  /\ broken' = {}
                    /\ Faults' = 0 => Follows' /\ Clear'
                    /\ Faults' <= 1 => (Follows' \/ Clear') /\ NoFail'
  BY DEF FailInv
<1>12. /\ broken = {} /\ broken' = {}
       /\ Faults = 0 => Follows /\ Clear
       /\ Faults <= 1 => (Follows \/ Clear) /\ NoFail
  BY <1>1, <1>2 DEF FailInv
<1>13. Faults' = 0 => Faults = 0 /\ losses = 0
  BY <1>2, FaultsType
<1>14. Faults' <= 1 => Faults <= 1 /\ (losses = 0 \/ (losses = 1 /\ Faults = 0))
  BY <1>2, FaultsType
<1>15. Follows /\ losses = 0 => standing = {} /\ Follows'
  BY <1>3, <1>4, <1>5, <1>7, <1>12
<1>16. Clear /\ losses = 0 => Follows' \/ Clear'
  BY <1>3, <1>6, <1>7, <1>10
<1>17. Follows /\ Clear /\ losses = 1 => Follows' \/ Clear'
  BY <1>3, <1>4, <1>6, <1>8, <1>10, <1>12
<1> QED BY <1>9, <1>10, <1>11, <1>12, <1>13, <1>14, <1>15, <1>16, <1>17

\* A fan that never broke is not declared failed on account of one lost message
\* or one restart of the backplane.
THEOREM NoFalseFailureHolds == Spec => []NoFalseFailure
<1>1. ASSUME Init PROVE FailInv
  <2>1. Default.mode = "auto" => Default.on = {}
    OBVIOUS
  <2>2. Default.mode \in {"auto", "manual"}
    OBVIOUS
  <2>3. Default.mode = "manual" => command = Default.on /\ delay = FailDelay
    BY <1>1 DEF Init
  <2>4. control = Default.on /\ settling = Settle
    BY <1>1 DEF Init
  <2>5. Follows
    BY <2>1, <2>2, <2>3, <2>4 DEF Follows
  <2>6. Clear /\ NoFail /\ broken = {}
    BY <1>1 DEF Init, Clear, NoFail
  <2> QED BY <2>5, <2>6 DEF FailInv
<1>2. TypeOK /\ FailInv /\ [Next]_vars => FailInv'
  <2> SUFFICES ASSUME TypeOK, FailInv, [Next]_vars PROVE FailInv'
    OBVIOUS
  <2>t. /\ config \in Configs /\ used \in Used /\ broken \subseteq Fans
        /\ FailDelay \in Nat /\ Settle \in Nat /\ Settle < FailDelay
    BY DEF TypeOK
  <2>1. ASSUME NEW t \in Temps, Warm(t) PROVE FailInv'
    <3>1. used' = [used EXCEPT !.warms = used.warms + 1]
      BY <2>1 DEF Warm
    <3>2. Faults' = Faults /\ used'.breaks = used.breaks
      BY <2>t, <3>1 DEF Faults
    <3> QED BY <2>1, <3>2 DEF FailInv, Follows, Clear, NoFail, Warm, agentVars
  <2>2. ASSUME NEW i \in Fans, Turn(i) PROVE FailInv'
    <3>1. /\ UNCHANGED <<control, command, settling, delay, misses, shown, broken, used>>
          /\ (i \in spinning) # (i \in command \ broken)
          /\ spinning' = IF i \in spinning THEN spinning \ {i} ELSE spinning \cup {i}
      BY <2>2 DEF Turn, agentVars
    <3>2. broken = {} /\ Follows => Follows'
      BY <3>1 DEF Follows
    <3> QED BY <3>1, <3>2 DEF FailInv, Faults, Clear, NoFail
  <2>3. ASSUME NEW i \in Fans, Break(i) PROVE FailInv'
    <3>1. used' = [used EXCEPT !.breaks = used.breaks + 1]
      BY <2>3 DEF Break
    <3>2. used'.breaks # 0
      BY <2>t, <3>1
    <3> QED BY <3>2 DEF FailInv
  <2>4. ASSUME NEW i \in Fans, Repair(i) PROVE FailInv'
    BY <2>4 DEF Repair, FailInv
  <2>5. ASSUME NEW fans \in SUBSET Fans, Reset(fans) PROVE FailInv'
    <3>1. used' = [used EXCEPT !.resets = used.resets + 1]
      BY <2>5 DEF Reset
    <3>2. Faults' = Faults + 1 /\ used'.breaks = used.breaks
      BY <2>t, <3>1 DEF Faults
    <3>3. UNCHANGED <<misses, shown, broken>>
      BY <2>5 DEF Reset, agentVars
    <3> QED BY <3>2, <3>3, FaultsType DEF FailInv, Clear, NoFail
  <2>6. ASSUME NEW o \in Outcomes, Restart(o) PROVE FailInv'
    <3>1. /\ used' = [used EXCEPT !.restarts = used.restarts + 1,
                                  !.lost = IF o = "done" THEN used.lost ELSE used.lost + 1]
          /\ Start(config, o) /\ UNCHANGED <<broken, spinning>>
      BY <2>6 DEF Restart
    <3>2. /\ Faults' = IF o = "done" THEN Faults ELSE Faults + 1
          /\ used'.breaks = used.breaks
      BY <2>t, <3>1 DEF Faults
    <3>3. Clear' /\ NoFail'
      BY <3>1 DEF Start, Clear, NoFail
    <3>4. o = "done" => Follows'
      <4>1. config.mode \in {"auto", "manual"} /\ (config.mode = "auto" => config.on = {})
        BY <2>t
      <4>2. o = "done" /\ config.mode = "manual" =>
              command' = config.on /\ delay' = FailDelay /\ settling' = Settle
        BY <3>1 DEF Start, Told
      <4>3. control' = config.on
        BY <3>1 DEF Start
      <4> QED BY <2>t, <4>1, <4>2, <4>3 DEF Follows
    <3>5. Faults' = 0 => o = "done"
      BY <3>2, FaultsType
    <3> QED BY <3>1, <3>2, <3>3, <3>4, <3>5 DEF FailInv
  <2>7. ASSUME NEW c \in Configs, NEW o \in Outcomes, SetShelf(c, o) PROVE FailInv'
    <3>1. /\ used' = [used EXCEPT !.sets = used.sets + 1,
                                  !.refused = IF o = "done" THEN used.refused ELSE used.refused + 1]
          /\ UNCHANGED <<misses, shown, broken>>
      BY <2>7 DEF SetShelf
    <3>2. /\ Faults' = IF o = "done" THEN Faults ELSE Faults + 1
          /\ used'.breaks = used.breaks
      BY <2>t, <3>1 DEF Faults
    <3>3. o = "done" => Follows'
      BY <2>t, <2>7 DEF SetShelf, Told, Follows
    <3> QED BY <3>1, <3>2, <3>3, FaultsType DEF FailInv, Clear, NoFail
  <2>8. CASE Check
    BY <2>8, CheckKeepsFailInv DEF Check
  <2>9. CASE UNCHANGED vars
    BY <2>9 DEF FailInv, Faults, Follows, Clear, NoFail, vars, agentVars, shelfVars
  <2> QED BY <2>1, <2>2, <2>3, <2>4, <2>5, <2>6, <2>7, <2>8, <2>9 DEF Next
<1>3. FailInv => NoFalseFailure
  <2>1. NoFalseFailure <=> (used.breaks = 0 /\ Faults <= 1 => NoFail)
    BY Zenon DEF NoFalseFailure, NoFail, Faults
  <2> QED BY <2>1, Zenon DEF FailInv
<1> QED BY <1>1, <1>2, <1>3, TypeCorrect, PTL DEF Spec

HIDE FanControlAssumption DEF FanControlAssumption, Used

----------------------------------------------------------------------------
(* IniFile. *)

USE IniFileAssumption DEF IniFileAssumption

\* There is always an inode for a new file; no name leads to it.
LEMMA FreshIsUnused ==
  ASSUME IniTypeOK
  PROVE  Fresh \in Inodes /\ Fresh # name /\ Fresh # tmp
<1>1. PICK free \in Inodes \ {name, tmp} : \A p \in Procs : free # fd[p]
  BY DEF IniTypeOK
<1>2. free \in Unused
  BY <1>1 DEF Unused
<1>3. Fresh \in Unused
  BY <1>2 DEF Fresh
<1> QED BY <1>3 DEF Unused

LEMMA MergeType ==
  ASSUME NEW set \in Change, NEW c \in Content
  PROVE  Merge(set, c) \in Content
<1>1. PICK S \in SUBSET Keys : set \in [S -> Vals]
  BY DEF Change
<1>2. \A k \in Keys : k \in DOMAIN set => set[k] \in Vals
  BY <1>1
<1> QED BY <1>2 DEF Merge, Content

LEMMA TailType ==
  ASSUME NEW s \in Seq(Change), s # <<>>
  PROVE  Head(s) \in Change /\ Tail(s) \in Seq(Change)
  OBVIOUS

\* Begin keeps what it writes within its type.
LEMMA BeginType ==
  ASSUME IniTypeOK, NEW p \in Procs, NEW rest \in Seq(Change), NEW h \in BOOLEAN, Begin(p, rest, h)
  PROVE  /\ pc' \in [Procs -> Steps] /\ todo' \in [Procs -> Seq(Change)]
         /\ \A q \in Procs : pc'[q] # "off" => todo'[q] # <<>>
         /\ ini' \in [Procs -> Content] /\ fd' \in [Procs -> Inodes \cup {None}]
         /\ \A q \in Procs : pc'[q] \in {"read", "flush"} => fd'[q] \in Inodes
         /\ alone' \in [Procs -> BOOLEAN] /\ state' \in Status
<1>1. pc' \in [Procs -> Steps]
  BY DEF Begin, IniTypeOK, Steps
<1>2. todo' \in [Procs -> Seq(Change)] /\ \A q \in Procs : pc'[q] # "off" => todo'[q] # <<>>
  BY DEF Begin, IniTypeOK
<1>3. ini' \in [Procs -> Content]
  BY DEF Begin, IniTypeOK, Content, Empty
<1>4. fd' \in [Procs -> Inodes \cup {None}]
  BY DEF Begin, IniTypeOK
<1>5. \A q \in Procs : pc'[q] \in {"read", "flush"} => fd'[q] \in Inodes
  BY DEF Begin, IniTypeOK
<1>6. alone' \in [Procs -> BOOLEAN]
  <2> DEFINE others == IF rest = <<>> THEN {} ELSE Busy \ {p}
  <2>1. alone' = [q \in Procs |-> IF q = p THEN others = {} ELSE alone[q] /\ q \notin others]
    BY DEF Begin
  <2>2. \A q \in Procs : alone[q] \in BOOLEAN
    BY DEF IniTypeOK
  <2> HIDE DEF others
  <2> QED BY <2>1, <2>2
<1>7. state' \in Status
  BY DEF Begin, IniTypeOK, Status
<1> QED BY <1>1, <1>2, <1>3, <1>4, <1>5, <1>6, <1>7

LEMMA InodeExists == \E n \in Inodes : TRUE
<1>1. [p \in Procs |-> None] \in [Procs -> Inodes \cup {None}]
  OBVIOUS
<1> QED BY <1>1

LEMMA TypeInit == IniInit => IniTypeOK
<1> SUFFICES ASSUME IniInit PROVE IniTypeOK
  OBVIOUS
<1>2. name \in Inodes
  BY InodeExists DEF IniInit
<1>3. data \in [Inodes -> Content] /\ ini \in [Procs -> Content]
  BY DEF IniInit, Content, Empty
<1>4. pc \in [Procs -> Steps] /\ todo \in [Procs -> Seq(Change)]
  BY DEF IniInit, Steps
<1> QED BY <1>2, <1>3, <1>4 DEF IniInit, IniTypeOK, Status

LEMMA TypeNext == IniTypeOK /\ [IniNext]_iniVars => IniTypeOK'
<1> SUFFICES ASSUME IniTypeOK, [IniNext]_iniVars PROVE IniTypeOK'
  OBVIOUS
<1>1. ASSUME NEW p \in Procs, NEW r \in Requests, IniStart(p, r) PROVE IniTypeOK'
  <2>1. r \in Seq(Change)
    OBVIOUS
  <2>2. Begin(p, r, FALSE)
    BY <1>1 DEF IniStart
  <2> QED BY <1>1, <2>1, <2>2, BeginType DEF IniTypeOK, IniStart, disk, bounds
<1>2. ASSUME NEW p \in Procs, Stat(p) PROVE IniTypeOK'
  <2>1. CASE name = None
    <3>1. Begin(p, <<>>, FALSE)
      BY <1>2, <2>1 DEF Stat
    <3>2. <<>> \in Seq(Change)
      OBVIOUS
    <3> QED BY <1>2, <3>1, <3>2, BeginType DEF IniTypeOK, Stat, disk, bounds
  <2>2. CASE name # None
    <3>1. pc' = [pc EXCEPT ![p] = "open"] /\ UNCHANGED <<memory, fate>>
      BY <1>2, <2>2 DEF Stat
    <3>2. pc' \in [Procs -> Steps] /\ \A q \in Procs : pc'[q] # "off" => todo[q] # <<>>
      BY <1>2, <3>1 DEF IniTypeOK, Stat, Steps
    <3>3. \A q \in Procs : pc'[q] \in {"read", "flush"} => fd[q] \in Inodes
      BY <3>1 DEF IniTypeOK
    <3> QED BY <1>2, <3>1, <3>2, <3>3 DEF IniTypeOK, Stat, disk, bounds, memory, fate
  <2> QED BY <2>1, <2>2
<1>3. ASSUME NEW p \in Procs, Open(p) PROVE IniTypeOK'
  <2> DEFINE n == IF name = None THEN Fresh ELSE name
  <2>1. n \in Inodes
    BY FreshIsUnused DEF IniTypeOK
  <2>2. Empty \in Content
    BY DEF Empty, Content
  <2>3. name' = n /\ fd' = [fd EXCEPT ![p] = n] /\ pc' = [pc EXCEPT ![p] = "read"]
    BY <1>3 DEF Open
  <2>4. data' \in [Inodes -> Content]
    BY <1>3, <2>1, <2>2 DEF Open, IniTypeOK
  <2> HIDE DEF n
  <2>5. pc' \in [Procs -> Steps] /\ \A q \in Procs : pc'[q] # "off" => todo[q] # <<>>
    BY <1>3, <2>3 DEF IniTypeOK, Open, Steps
  <2>6. \A q \in Procs : pc'[q] \in {"read", "flush"} => fd'[q] \in Inodes
    BY <2>1, <2>3 DEF IniTypeOK
  <2> QED BY <1>3, <2>1, <2>3, <2>4, <2>5, <2>6 DEF IniTypeOK, Open, bounds, hist, fate
<1>4. ASSUME NEW p \in Procs, OpenSnmpd(p) PROVE IniTypeOK'
  <2>1. CASE name # None
    <3>1. fd' = [fd EXCEPT ![p] = name] /\ pc' = [pc EXCEPT ![p] = "read"]
      BY <1>4, <2>1 DEF OpenSnmpd
    <3>2. pc' \in [Procs -> Steps] /\ \A q \in Procs : pc'[q] # "off" => todo[q] # <<>>
      BY <1>4, <3>1 DEF IniTypeOK, OpenSnmpd, Steps
    <3>3. \A q \in Procs : pc'[q] \in {"read", "flush"} => fd'[q] \in Inodes
      BY <2>1, <3>1 DEF IniTypeOK
    <3> QED BY <1>4, <2>1, <3>1, <3>2, <3>3 DEF IniTypeOK, OpenSnmpd, bounds, fate
  <2>2. CASE name = None
    <3> DEFINE n == IF tmp = None THEN Fresh ELSE tmp
    <3>1. tmp' = n /\ data' = [data EXCEPT ![n] = Empty] /\ Begin(p, <<>>, FALSE)
      BY <1>4, <2>2 DEF OpenSnmpd
    <3>2. n \in Inodes
      BY FreshIsUnused DEF IniTypeOK
    <3>3. Empty \in Content
      BY DEF Empty, Content
    <3> HIDE DEF n
    <3>4. data' \in [Inodes -> Content]
      BY <3>1, <3>2, <3>3 DEF IniTypeOK
    <3>5. <<>> \in Seq(Change)
      OBVIOUS
    <3> QED BY <1>4, <3>1, <3>2, <3>4, <3>5, BeginType DEF IniTypeOK, OpenSnmpd, bounds
  <2> QED BY <2>1, <2>2
<1>5. ASSUME NEW p \in Procs, Read(p) PROVE IniTypeOK'
  <2>1. todo[p] \in Seq(Change) /\ todo[p] # <<>> /\ fd[p] \in Inodes
    BY <1>5 DEF Read, IniTypeOK
  <2>2. Head(todo[p]) \in Change /\ Tail(todo[p]) \in Seq(Change)
    BY <2>1, TailType
  <2> DEFINE c == Merge(Head(todo[p]), data[fd[p]])
  <2>3. c \in Content
    BY <2>1, <2>2, MergeType DEF IniTypeOK
  <2>4. CASE DOMAIN Head(todo[p]) = {}
    <3>1. Begin(p, Tail(todo[p]), FALSE)
      BY <1>5, <2>4 DEF Read
    <3> QED BY <1>5, <2>2, <2>4, <3>1, BeginType DEF IniTypeOK, Read, disk, bounds
  <2>5. CASE DOMAIN Head(todo[p]) # {}
    <3>1. /\ ini' = [ini EXCEPT ![p] = c] /\ new' = c
          /\ pc' = [pc EXCEPT ![p] = "create"] /\ fd' = [fd EXCEPT ![p] = None]
          /\ UNCHANGED <<todo, fate>>
      BY <1>5, <2>5 DEF Read
    <3> HIDE DEF c
    <3>2. pc' \in [Procs -> Steps] /\ \A q \in Procs : pc'[q] # "off" => todo[q] # <<>>
      BY <2>1, <3>1 DEF IniTypeOK, Steps
    <3>3. \A q \in Procs : pc'[q] \in {"read", "flush"} => fd'[q] \in Inodes
      BY <3>1 DEF IniTypeOK
    <3> QED BY <1>5, <2>3, <3>1, <3>2, <3>3 DEF IniTypeOK, Read, disk, bounds, fate
  <2> QED BY <2>4, <2>5
<1>6. ASSUME NEW p \in Procs, Create(p) PROVE IniTypeOK'
  <2> DEFINE n == IF tmp = None THEN Fresh ELSE tmp
  <2>1. n \in Inodes
    BY FreshIsUnused DEF IniTypeOK
  <2>2. Empty \in Content
    BY DEF Empty, Content
  <2>3. /\ tmp' = n /\ data' = [data EXCEPT ![n] = Empty]
        /\ fd' = [fd EXCEPT ![p] = n] /\ pc' = [pc EXCEPT ![p] = "flush"]
    BY <1>6 DEF Create
  <2> HIDE DEF n
  <2>4. pc' \in [Procs -> Steps] /\ \A q \in Procs : pc'[q] # "off" => todo[q] # <<>>
    BY <1>6, <2>3 DEF IniTypeOK, Create, Steps
  <2>5. \A q \in Procs : pc'[q] \in {"read", "flush"} => fd'[q] \in Inodes
    BY <2>1, <2>3 DEF IniTypeOK
  <2> QED BY <1>6, <2>1, <2>2, <2>3, <2>4, <2>5 DEF IniTypeOK, Create, bounds, hist, fate
<1>7. ASSUME NEW p \in Procs, Flush(p) PROVE IniTypeOK'
  <2>1. data' \in [Inodes -> Content] /\ fd' \in [Procs -> Inodes \cup {None}]
    BY <1>7 DEF IniTypeOK, Flush
  <2>2. pc' \in [Procs -> Steps] /\ \A q \in Procs : pc'[q] # "off" => todo[q] # <<>>
    BY <1>7 DEF IniTypeOK, Flush, Steps
  <2>3. \A q \in Procs : pc'[q] \in {"read", "flush"} => fd'[q] \in Inodes
    BY <1>7 DEF IniTypeOK, Flush
  <2> QED BY <1>7, <2>1, <2>2, <2>3 DEF IniTypeOK, Flush, bounds, hist, fate
<1>8. ASSUME NEW p \in Procs, FlushFull(p) PROVE IniTypeOK'
  <2>1. fulls' \in 0..MaxFull
    BY <1>8 DEF IniTypeOK, FlushFull
  <2>2. pc' \in [Procs -> Steps] /\ \A q \in Procs : pc'[q] # "off" => todo[q] # <<>>
    BY <1>8 DEF IniTypeOK, FlushFull, Steps
  <2>3. \A q \in Procs : pc'[q] \in {"read", "flush"} => fd'[q] \in Inodes
    BY <1>8 DEF IniTypeOK, FlushFull
  <2>4. fd' \in [Procs -> Inodes \cup {None}] /\ alone' \in [Procs -> BOOLEAN]
    BY <1>8 DEF IniTypeOK, FlushFull
  <2> QED BY <1>8, <2>1, <2>2, <2>3, <2>4 DEF IniTypeOK, FlushFull, disk, Status
<1>9. ASSUME NEW p \in Procs, Unlink(p) PROVE IniTypeOK'
  <2>1. pc' \in [Procs -> Steps] /\ \A q \in Procs : pc'[q] # "off" => todo[q] # <<>>
    BY <1>9 DEF IniTypeOK, Unlink, Steps
  <2>2. \A q \in Procs : pc'[q] \in {"read", "flush"} => fd[q] \in Inodes
    BY <1>9 DEF IniTypeOK, Unlink
  <2> QED BY <1>9, <2>1, <2>2 DEF IniTypeOK, Unlink, memory, bounds, hist, fate
<1>10. ASSUME NEW p \in Procs, Link(p) PROVE IniTypeOK'
  <2>1. pc' \in [Procs -> Steps] /\ \A q \in Procs : pc'[q] # "off" => todo[q] # <<>>
    BY <1>10 DEF IniTypeOK, Link, Steps
  <2>2. \A q \in Procs : pc'[q] \in {"read", "flush"} => fd[q] \in Inodes
    BY <1>10 DEF IniTypeOK, Link
  <2> QED BY <1>10, <2>1, <2>2 DEF IniTypeOK, Link, memory, bounds, fate
<1>11. ASSUME NEW p \in Procs, UnlinkTmp(p) PROVE IniTypeOK'
  <2>1. todo[p] \in Seq(Change) /\ todo[p] # <<>> /\ alone[p] \in BOOLEAN
    BY <1>11 DEF UnlinkTmp, IniTypeOK
  <2> DEFINE rest == Tail(todo[p])
  <2>2. Begin(p, rest, alone[p]) /\ rest \in Seq(Change)
    BY <1>11, <2>1, TailType DEF UnlinkTmp
  <2> HIDE DEF rest
  <2>3. /\ pc' \in [Procs -> Steps] /\ todo' \in [Procs -> Seq(Change)]
        /\ \A q \in Procs : pc'[q] # "off" => todo'[q] # <<>>
        /\ ini' \in [Procs -> Content] /\ fd' \in [Procs -> Inodes \cup {None}]
        /\ \A q \in Procs : pc'[q] \in {"read", "flush"} => fd'[q] \in Inodes
        /\ alone' \in [Procs -> BOOLEAN] /\ state' \in Status
    BY <2>1, <2>2, BeginType
  <2> QED BY <1>11, <2>1, <2>3 DEF IniTypeOK, UnlinkTmp, bounds
<1>12. ASSUME NEW p \in Procs, Rename(p) PROVE IniTypeOK'
  <2>1. todo[p] \in Seq(Change) /\ todo[p] # <<>> /\ alone[p] \in BOOLEAN
    BY <1>12 DEF Rename, IniTypeOK
  <2> DEFINE rest == Tail(todo[p])
  <2>2. Begin(p, rest, alone[p]) /\ rest \in Seq(Change)
    BY <1>12, <2>1, TailType DEF Rename
  <2> HIDE DEF rest
  <2>3. /\ pc' \in [Procs -> Steps] /\ todo' \in [Procs -> Seq(Change)]
        /\ \A q \in Procs : pc'[q] # "off" => todo'[q] # <<>>
        /\ ini' \in [Procs -> Content] /\ fd' \in [Procs -> Inodes \cup {None}]
        /\ \A q \in Procs : pc'[q] \in {"read", "flush"} => fd'[q] \in Inodes
        /\ alone' \in [Procs -> BOOLEAN] /\ state' \in Status
    BY <2>1, <2>2, BeginType
  <2> QED BY <1>12, <2>1, <2>3 DEF IniTypeOK, Rename, bounds
<1>13. ASSUME NEW p \in Procs, Kill(p) PROVE IniTypeOK'
  <2>1. kills' \in 0..MaxKills
    BY <1>13 DEF IniTypeOK, Kill
  <2>2. pc' \in [Procs -> Steps] /\ \A q \in Procs : pc'[q] # "off" => todo'[q] # <<>>
    BY <1>13 DEF IniTypeOK, Kill, Steps
  <2>3. \A q \in Procs : pc'[q] \in {"read", "flush"} => fd'[q] \in Inodes
    BY <1>13 DEF IniTypeOK, Kill
  <2>4. Empty \in Content
    BY DEF Empty, Content
  <2>5. ini' \in [Procs -> Content] /\ todo' \in [Procs -> Seq(Change)]
    BY <1>13, <2>4 DEF IniTypeOK, Kill
  <2>6. state' \in Status /\ fd' \in [Procs -> Inodes \cup {None}]
    BY <1>13 DEF IniTypeOK, Kill, Status
  <2> QED BY <1>13, <2>1, <2>2, <2>3, <2>5, <2>6 DEF IniTypeOK, Kill, disk
<1>14. CASE UNCHANGED iniVars
  BY <1>14 DEF IniTypeOK, iniVars, disk, memory, bounds, hist, fate
<1> QED BY <1>1, <1>2, <1>3, <1>4, <1>5, <1>6, <1>7, <1>8, <1>9, <1>10, <1>11, <1>12, <1>13, <1>14
        DEF IniNext, Save

\* Every variable keeps its type.
THEOREM IniTypeCorrect == IniSpec => []IniTypeOK
  BY TypeInit, TypeNext, PTL DEF IniSpec

----------------------------------------------------------------------------
(* What holds of the disk. *)

\* A process that has not been overlapped is the only busy one, so nobody
\* overlaps the users of a calm file, and nobody uses a killed one.
Lone ==
  /\ \A p, q \in Procs : pc[p] # "off" /\ alone[p] /\ pc[q] # "off" => q = p
  /\ state = "calm" => \A p \in Procs : pc[p] # "off" => alone[p]
  /\ state = "killed" => \A p \in Procs : pc[p] = "off"

\* What a save that is not overlapped has on the disk.
InHand ==
  \A p \in Procs : pc[p] # "off" /\ alone[p] =>
    /\ pc[p] = "flush" => tmp # None /\ fd[p] = tmp
    /\ pc[p] = "unlink" => tmp # None /\ data[tmp] = ini[p]
    /\ pc[p] = "link" => tmp # None /\ data[tmp] = ini[p] /\ name = None
    /\ pc[p] = "untmp" => name # None /\ data[name] = ini[p] /\ old = ini[p]

\* What is on the disk while the file is calm.
CalmDisk ==
  state = "calm" =>
    /\ (\A p \in Procs : pc[p] # "link") => name # None /\ data[name] = old
    /\ (\A p \in Procs : pc[p] \notin {"flush", "unlink", "link", "untmp"}) => tmp = None
    /\ \A p \in Procs : pc[p] \in {"flush", "unlink"} => tmp # name
    /\ \A p \in Procs : pc[p] \in {"create", "flush", "unlink", "link", "untmp"} => ini[p] = new

IInv == IniTypeOK /\ Lone /\ InHand /\ CalmDisk /\ KillLosesNothing

\* Begin leaves the other processes alone, except that it overlaps them.
LEMMA BeginFacts ==
  ASSUME IniTypeOK, NEW p \in Procs, NEW rest \in Seq(Change), NEW h \in BOOLEAN, Begin(p, rest, h)
  PROVE  /\ \A q \in Procs : q # p => pc'[q] = pc[q] /\ ini'[q] = ini[q] /\ fd'[q] = fd[q]
         /\ \A q \in Procs : q # p /\ alone'[q] => alone[q]
         /\ pc'[p] = "off" => \A q \in Procs : q # p => alone'[q] = alone[q]
         /\ pc'[p] \in {"off", "stat", "open"}
         /\ pc'[p] # "off" => \A q \in Procs : q # p /\ pc[q] # "off" => ~alone'[p] /\ ~alone'[q]
         /\ pc'[p] # "off" /\ (\A q \in Procs : q # p => pc[q] = "off") => alone'[p]
         /\ state' = "calm" => /\ state = "calm" \/ h
                               /\ pc'[p] # "off" => \A q \in Procs : q # p => pc[q] = "off"
         /\ state' = "killed" => state = "killed" /\ ~h /\ pc'[p] = "off"
<1> DEFINE others == IF rest = <<>> THEN {} ELSE Busy \ {p}
<1>1. /\ pc' = [pc EXCEPT ![p] = IF rest = <<>> THEN "off" ELSE IF p \in Checkers THEN "stat" ELSE "open"]
      /\ ini' = [ini EXCEPT ![p] = Empty] /\ fd' = [fd EXCEPT ![p] = None]
  BY DEF Begin
<1>2. alone' = [q \in Procs |-> IF q = p THEN others = {} ELSE alone[q] /\ q \notin others]
  BY DEF Begin
<1>3. LET now == IF h THEN "calm" ELSE state IN
      state' = IF rest # <<>> /\ (others # {} \/ now = "killed") THEN "torn" ELSE now
  BY DEF Begin
<1>4. \A q \in Procs : q \in others <=> rest # <<>> /\ q # p /\ pc[q] # "off"
  BY DEF Busy
<1>5. others \subseteq Procs
  BY DEF Busy
<1>6. pc'[p] = "off" <=> rest = <<>>
  BY <1>1 DEF IniTypeOK
<1> HIDE DEF others
<1>7. \A q \in Procs : q # p => pc'[q] = pc[q] /\ ini'[q] = ini[q] /\ fd'[q] = fd[q]
  BY <1>1 DEF IniTypeOK
<1>8. \A q \in Procs : q # p /\ alone'[q] => alone[q]
  BY <1>2
<1>14. pc'[p] = "off" => \A q \in Procs : q # p => alone'[q] = alone[q]
  <2>1. \A q \in Procs : alone[q] \in BOOLEAN
    BY DEF IniTypeOK
  <2> QED BY <1>2, <1>4, <1>6, <2>1
<1>9. pc'[p] \in {"off", "stat", "open"}
  BY <1>1 DEF IniTypeOK
<1>10. pc'[p] # "off" => \A q \in Procs : q # p /\ pc[q] # "off" => ~alone'[p] /\ ~alone'[q]
  BY <1>2, <1>4, <1>6
<1>11. pc'[p] # "off" /\ (\A q \in Procs : q # p => pc[q] = "off") => alone'[p]
  <2>1. SUFFICES ASSUME pc'[p] # "off", \A q \in Procs : q # p => pc[q] = "off" PROVE alone'[p]
    OBVIOUS
  <2>2. others = {}
    BY <1>4, <1>5, <2>1
  <2> QED BY <1>2, <2>2
<1>12. state' = "calm" => /\ state = "calm" \/ h
                          /\ pc'[p] # "off" => \A q \in Procs : q # p => pc[q] = "off"
  BY <1>3, <1>4, <1>6
<1>13. state' = "killed" => state = "killed" /\ ~h /\ pc'[p] = "off"
  BY <1>3, <1>6
<1> QED BY <1>7, <1>8, <1>9, <1>10, <1>11, <1>12, <1>13, <1>14

\* Begin without a save before it changes nothing on the disk.
LEMMA BeginUntouched ==
  ASSUME IInv, NEW p \in Procs, NEW rest \in Seq(Change), Begin(p, rest, FALSE),
         pc[p] \in {"off", "stat", "open", "read"}, UNCHANGED <<disk, old, new>>
  PROVE  Lone' /\ InHand' /\ CalmDisk' /\ KillLosesNothing'
<1>1. /\ \A q \in Procs : q # p => pc'[q] = pc[q] /\ ini'[q] = ini[q] /\ fd'[q] = fd[q]
      /\ \A q \in Procs : q # p /\ alone'[q] => alone[q]
      /\ pc'[p] = "off" => \A q \in Procs : q # p => alone'[q] = alone[q]
      /\ pc'[p] \in {"off", "stat", "open"}
      /\ pc'[p] # "off" => \A q \in Procs : q # p /\ pc[q] # "off" => ~alone'[p] /\ ~alone'[q]
      /\ pc'[p] # "off" /\ (\A q \in Procs : q # p => pc[q] = "off") => alone'[p]
      /\ state' = "calm" => /\ state = "calm"
                            /\ pc'[p] # "off" => \A q \in Procs : q # p => pc[q] = "off"
      /\ state' = "killed" => state = "killed" /\ pc'[p] = "off"
  <2>1. IniTypeOK /\ FALSE \in BOOLEAN
    BY DEF IInv
  <2> QED BY <2>1, BeginFacts
<1>2. Lone'
  <2>1. ASSUME NEW q \in Procs, NEW r \in Procs, pc'[q] # "off", alone'[q], pc'[r] # "off" PROVE r = q
    BY <1>1, <2>1 DEF IInv, Lone
  <2>2. ASSUME state' = "calm", NEW q \in Procs, pc'[q] # "off" PROVE alone'[q]
    <3>1. CASE q = p
      BY <1>1, <2>2, <3>1
    <3>2. CASE q # p
      <4>1. pc'[p] = "off"
        BY <1>1, <2>2, <3>2
      <4> QED BY <1>1, <2>2, <3>2, <4>1 DEF IInv, Lone
    <3> QED BY <3>1, <3>2
  <2>3. ASSUME state' = "killed", NEW q \in Procs PROVE pc'[q] = "off"
    BY <1>1, <2>3 DEF IInv, Lone
  <2> QED BY <2>1, <2>2, <2>3 DEF Lone
<1>3. InHand'
  BY <1>1 DEF IInv, InHand, disk
<1>4. CalmDisk'
  BY <1>1 DEF IInv, CalmDisk, disk
<1>5. KillLosesNothing'
  BY <1>1 DEF IInv, KillLosesNothing, disk
<1> QED BY <1>2, <1>3, <1>4, <1>5

\* Begin at the end of a save that has left the new content under the name
\* and removed the second name.
LEMMA BeginSaved ==
  ASSUME IInv, NEW p \in Procs, Begin(p, Tail(todo[p]), alone[p]), pc[p] # "off",
         tmp' = None, UNCHANGED <<data, new>>,
         alone[p] => name' # None /\ data[name'] = old'
  PROVE  Lone' /\ InHand' /\ CalmDisk' /\ KillLosesNothing'
<1> DEFINE rest == Tail(todo[p])
<1>0. rest \in Seq(Change) /\ alone[p] \in BOOLEAN
  BY TailType DEF IInv, IniTypeOK
<1>1. /\ \A q \in Procs : q # p => pc'[q] = pc[q] /\ ini'[q] = ini[q] /\ fd'[q] = fd[q]
      /\ \A q \in Procs : q # p /\ alone'[q] => alone[q]
      /\ pc'[p] = "off" => \A q \in Procs : q # p => alone'[q] = alone[q]
      /\ pc'[p] \in {"off", "stat", "open"}
      /\ pc'[p] # "off" => \A q \in Procs : q # p /\ pc[q] # "off" => ~alone'[p] /\ ~alone'[q]
      /\ pc'[p] # "off" /\ (\A q \in Procs : q # p => pc[q] = "off") => alone'[p]
      /\ state' = "calm" => /\ state = "calm" \/ alone[p]
                            /\ pc'[p] # "off" => \A q \in Procs : q # p => pc[q] = "off"
      /\ state' = "killed" => state = "killed" /\ ~alone[p] /\ pc'[p] = "off"
  <2> HIDE DEF rest
  <2>1. IniTypeOK /\ Begin(p, rest, alone[p])
    BY DEF IInv, rest
  <2> QED BY <1>0, <2>1, BeginFacts
<1>2. alone[p] => \A q \in Procs : q # p => pc[q] = "off"
  BY DEF IInv, Lone
<1>3. state' = "calm" => alone[p]
  BY <1>1 DEF IInv, Lone
<1>4. state # "killed"
  BY DEF IInv, Lone
<1>5. Lone'
  <2>1. ASSUME NEW q \in Procs, NEW r \in Procs, pc'[q] # "off", alone'[q], pc'[r] # "off" PROVE r = q
    BY <1>1, <2>1 DEF IInv, Lone
  <2>2. ASSUME state' = "calm", NEW q \in Procs, pc'[q] # "off" PROVE alone'[q]
    BY <1>1, <1>2, <1>3, <2>2
  <2> QED BY <1>1, <1>4, <2>1, <2>2 DEF Lone
<1>6. InHand'
  <2> SUFFICES ASSUME NEW q \in Procs, pc'[q] # "off", alone'[q]
               PROVE  pc'[q] \notin {"flush", "unlink", "link", "untmp"}
    BY DEF InHand
  <2>1. CASE q = p
    BY <1>1, <2>1
  <2>2. CASE q # p
    BY <1>1, <2>2 DEF IInv, Lone
  <2> QED BY <2>1, <2>2
<1>7. CalmDisk'
  <2> SUFFICES ASSUME state' = "calm" PROVE CalmDisk'
    BY DEF CalmDisk
  <2>1. \A q \in Procs : pc'[q] \in {"off", "stat", "open"}
    BY <1>1, <1>2, <1>3
  <2>2. name' # None /\ data'[name'] = old'
    BY <1>3
  <2> QED BY <2>1, <2>2 DEF CalmDisk
<1>8. KillLosesNothing'
  BY <1>1, <1>4 DEF KillLosesNothing
<1> QED BY <1>5, <1>6, <1>7, <1>8

\* A step of p that only moves it from one place of Steps to another.
LEMMA MoveLone ==
  ASSUME IInv, NEW p \in Procs, NEW s, s # "off", pc[p] # "off", pc' = [pc EXCEPT ![p] = s],
         UNCHANGED fate
  PROVE  Lone'
  BY DEF IInv, Lone, IniTypeOK, fate

LEMMA StatStep ==
  ASSUME IInv, NEW p \in Procs, Stat(p)
  PROVE  Lone' /\ InHand' /\ CalmDisk' /\ KillLosesNothing'
<1>1. CASE name = None
  <2>1. Begin(p, <<>>, FALSE) /\ pc[p] = "stat" /\ UNCHANGED <<disk, old, new>>
    BY <1>1 DEF Stat
  <2>2. <<>> \in Seq(Change)
    OBVIOUS
  <2> QED BY <2>1, <2>2, BeginUntouched
<1>2. CASE name # None
  <2>1. /\ pc[p] = "stat" /\ pc' = [pc EXCEPT ![p] = "open"]
        /\ UNCHANGED <<memory, fate, disk, old, new>>
    BY <1>2 DEF Stat
  <2>2. Lone'
    BY <2>1, MoveLone
  <2>3. InHand'
    BY <2>1 DEF IInv, InHand, IniTypeOK, memory, fate, disk
  <2>4. CalmDisk'
    BY <2>1 DEF IInv, CalmDisk, IniTypeOK, memory, fate, disk
  <2>5. KillLosesNothing'
    BY <2>1 DEF IInv, KillLosesNothing, fate, disk
  <2> QED BY <2>2, <2>3, <2>4, <2>5
<1> QED BY <1>1, <1>2

LEMMA OpenStep ==
  ASSUME IInv, NEW p \in Procs, Open(p)
  PROVE  Lone' /\ InHand' /\ CalmDisk' /\ KillLosesNothing'
<1>1. /\ pc[p] = "open" /\ pc' = [pc EXCEPT ![p] = "read"]
      /\ UNCHANGED <<tmp, ini, fate, old, new>>
  BY DEF Open, hist
<1>2. state # "killed"
  BY <1>1 DEF IInv, Lone
<1>3. Lone'
  BY <1>1, MoveLone
<1>4. InHand'
  <2> SUFFICES ASSUME NEW q \in Procs, pc'[q] # "off", alone[q]
               PROVE  pc'[q] \notin {"flush", "unlink", "link", "untmp"}
    BY <1>1 DEF InHand, fate
  <2> QED BY <1>1 DEF IInv, Lone, IniTypeOK
<1>5. CalmDisk'
  <2> SUFFICES ASSUME state = "calm" PROVE CalmDisk'
    BY <1>1 DEF CalmDisk, fate
  <2>1. \A q \in Procs : q # p => pc[q] = "off"
    BY <1>1 DEF IInv, Lone
  <2>2. name # None
    BY <1>1, <2>1 DEF IInv, CalmDisk, IniTypeOK
  <2>3. UNCHANGED <<name, data>>
    BY <2>2 DEF Open
  <2> QED BY <1>1, <2>1, <2>3 DEF IInv, CalmDisk, IniTypeOK
<1>6. KillLosesNothing'
  BY <1>1, <1>2 DEF KillLosesNothing, fate
<1> QED BY <1>3, <1>4, <1>5, <1>6

LEMMA OpenSnmpdStep ==
  ASSUME IInv, NEW p \in Procs, OpenSnmpd(p)
  PROVE  Lone' /\ InHand' /\ CalmDisk' /\ KillLosesNothing'
<1>1. pc[p] = "open" /\ UNCHANGED <<name, old, new>>
  BY DEF OpenSnmpd
<1>2. state # "killed"
  BY <1>1 DEF IInv, Lone
<1>3. state = "calm" => name # None
  <2> SUFFICES ASSUME state = "calm" PROVE name # None
    OBVIOUS
  <2>1. \A q \in Procs : q # p => pc[q] = "off"
    BY <1>1 DEF IInv, Lone
  <2> QED BY <1>1, <2>1 DEF IInv, CalmDisk, IniTypeOK
<1>4. CASE name # None
  <2>1. pc' = [pc EXCEPT ![p] = "read"] /\ UNCHANGED <<tmp, data, ini, fate>>
    BY <1>4 DEF OpenSnmpd
  <2>2. Lone'
    BY <1>1, <2>1, MoveLone
  <2>3. InHand'
    <3> SUFFICES ASSUME NEW q \in Procs, pc'[q] # "off", alone[q]
                 PROVE  pc'[q] \notin {"flush", "unlink", "link", "untmp"}
      BY <2>1 DEF InHand, fate
    <3> QED BY <1>1, <2>1 DEF IInv, Lone, IniTypeOK
  <2>4. CalmDisk'
    BY <1>1, <2>1 DEF IInv, CalmDisk, IniTypeOK, fate
  <2>5. KillLosesNothing'
    BY <1>2, <2>1 DEF KillLosesNothing, fate
  <2> QED BY <2>2, <2>3, <2>4, <2>5
<1>5. CASE name = None
  <2>1. Begin(p, <<>>, FALSE)
    BY <1>5 DEF OpenSnmpd
  <2>2. /\ \A q \in Procs : q # p => pc'[q] = pc[q]
        /\ \A q \in Procs : q # p /\ alone'[q] => alone[q]
        /\ state' = "calm" => state = "calm"
        /\ state' = "killed" => state = "killed"
    <3>1. IniTypeOK /\ FALSE \in BOOLEAN
      BY DEF IInv
    <3> DEFINE rest == <<>>
    <3>2. rest \in Seq(Change)
      OBVIOUS
    <3>3. Begin(p, rest, FALSE)
      BY <2>1
    <3> HIDE DEF rest
    <3>4. /\ \A q \in Procs : q # p => pc'[q] = pc[q] /\ ini'[q] = ini[q] /\ fd'[q] = fd[q]
          /\ \A q \in Procs : q # p /\ alone'[q] => alone[q]
          /\ state' = "calm" => state = "calm" \/ FALSE
          /\ state' = "killed" => state = "killed" /\ ~FALSE
      BY <3>1, <3>2, <3>3, BeginFacts
    <3> QED BY <3>4
  <2>3. pc'[p] = "off"
    BY <2>1 DEF Begin, IInv, IniTypeOK
  <2>4. state' # "calm" /\ state' # "killed"
    BY <1>2, <1>3, <1>5, <2>2
  <2>5. ASSUME NEW q \in Procs, pc'[q] # "off", alone'[q] PROVE FALSE
    BY <1>1, <2>2, <2>3, <2>5 DEF IInv, Lone
  <2> QED BY <2>4, <2>5 DEF Lone, InHand, CalmDisk, KillLosesNothing
<1> QED BY <1>4, <1>5

LEMMA ReadStep ==
  ASSUME IInv, NEW p \in Procs, Read(p)
  PROVE  Lone' /\ InHand' /\ CalmDisk' /\ KillLosesNothing'
<1>1. pc[p] = "read" /\ UNCHANGED <<disk, old>>
  BY DEF Read
<1>2. CASE DOMAIN Head(todo[p]) = {}
  <2> DEFINE rest == Tail(todo[p])
  <2>1. Begin(p, rest, FALSE) /\ new' = new
    BY <1>2 DEF Read
  <2>2. rest \in Seq(Change)
    BY <1>1, TailType DEF IInv, IniTypeOK
  <2> QED BY <1>1, <2>1, <2>2, BeginUntouched
<1>3. CASE DOMAIN Head(todo[p]) # {}
  <2> DEFINE c == Merge(Head(todo[p]), data[fd[p]])
  <2>1. /\ ini' = [ini EXCEPT ![p] = c] /\ new' = c
        /\ pc' = [pc EXCEPT ![p] = "create"] /\ UNCHANGED fate
    BY <1>3 DEF Read
  <2> HIDE DEF c
  <2>2. Lone'
    BY <1>1, <2>1, MoveLone
  <2>3. InHand'
    <3> SUFFICES ASSUME NEW q \in Procs, pc'[q] # "off", alone[q]
                 PROVE  pc'[q] \notin {"flush", "unlink", "link", "untmp"}
      BY <2>1 DEF InHand, fate
    <3> QED BY <1>1, <2>1 DEF IInv, Lone, IniTypeOK
  <2>4. CalmDisk'
    <3> SUFFICES ASSUME state = "calm" PROVE CalmDisk'
      BY <2>1 DEF CalmDisk, fate
    <3>1. \A q \in Procs : q # p => pc[q] = "off"
      BY <1>1 DEF IInv, Lone
    <3> QED BY <1>1, <2>1, <3>1 DEF IInv, CalmDisk, IniTypeOK, disk
  <2>5. KillLosesNothing'
    <3>1. state # "killed"
      BY <1>1 DEF IInv, Lone
    <3> QED BY <2>1, <3>1 DEF KillLosesNothing, fate
  <2> QED BY <2>2, <2>3, <2>4, <2>5
<1> QED BY <1>2, <1>3

\* While p is in a save, and lone, the file is its own.
LEMMA CreateStep ==
  ASSUME IInv, NEW p \in Procs, Create(p)
  PROVE  Lone' /\ InHand' /\ CalmDisk' /\ KillLosesNothing'
<1> DEFINE n == IF tmp = None THEN Fresh ELSE tmp
<1>1. /\ pc[p] = "create" /\ pc' = [pc EXCEPT ![p] = "flush"]
      /\ tmp' = n /\ data' = [data EXCEPT ![n] = Empty] /\ fd' = [fd EXCEPT ![p] = n]
      /\ UNCHANGED <<name, ini, fate, old, new>>
  BY DEF Create, hist
<1>2. n \in Inodes /\ n # None /\ (tmp = None => n # name)
  BY FreshIsUnused DEF IInv, IniTypeOK
<1> HIDE DEF n
<1>3. Lone'
  BY <1>1, MoveLone
<1>4. InHand'
  <2> SUFFICES ASSUME NEW q \in Procs, pc'[q] # "off", alone[q]
               PROVE  pc'[q] = "flush" /\ tmp' # None /\ fd'[q] = tmp'
    BY <1>1 DEF InHand, fate
  <2>1. q = p
    BY <1>1 DEF IInv, Lone, IniTypeOK
  <2> QED BY <1>1, <1>2, <2>1 DEF IInv, IniTypeOK
<1>5. CalmDisk'
  <2> SUFFICES ASSUME state = "calm" PROVE CalmDisk'
    BY <1>1 DEF CalmDisk, fate
  <2>1. \A q \in Procs : q # p => pc[q] = "off"
    BY <1>1 DEF IInv, Lone
  <2>2. name # None /\ data[name] = old /\ tmp = None /\ ini[p] = new
    BY <1>1, <2>1 DEF IInv, CalmDisk
  <2>3. name \in Inodes /\ data'[name] = data[name] /\ tmp' # name
    BY <1>1, <1>2, <2>2 DEF IInv, IniTypeOK
  <2> QED BY <1>1, <2>1, <2>2, <2>3 DEF IInv, CalmDisk, IniTypeOK
<1>6. KillLosesNothing'
  <2>1. state # "killed"
    BY <1>1 DEF IInv, Lone
  <2> QED BY <1>1, <2>1 DEF KillLosesNothing, fate
<1> QED BY <1>3, <1>4, <1>5, <1>6

LEMMA FlushStep ==
  ASSUME IInv, NEW p \in Procs, Flush(p)
  PROVE  Lone' /\ InHand' /\ CalmDisk' /\ KillLosesNothing'
<1>1. /\ pc[p] = "flush" /\ pc' = [pc EXCEPT ![p] = "unlink"]
      /\ data' = [data EXCEPT ![fd[p]] = ini[p]]
      /\ UNCHANGED <<name, tmp, ini, fate, old, new>>
  BY DEF Flush, hist
<1>2. Lone'
  BY <1>1, MoveLone
<1>3. InHand'
  <2> SUFFICES ASSUME NEW q \in Procs, pc'[q] # "off", alone[q]
               PROVE  pc'[q] = "unlink" /\ tmp' # None /\ data'[tmp] = ini'[q]
    BY <1>1 DEF InHand, fate
  <2>1. q = p
    BY <1>1 DEF IInv, Lone, IniTypeOK
  <2>2. fd[p] = tmp /\ tmp # None /\ tmp \in Inodes
    BY <1>1, <2>1 DEF IInv, InHand, IniTypeOK
  <2> QED BY <1>1, <2>1, <2>2 DEF IInv, IniTypeOK
<1>4. CalmDisk'
  <2> SUFFICES ASSUME state = "calm" PROVE CalmDisk'
    BY <1>1 DEF CalmDisk, fate
  <2>1. (\A q \in Procs : q # p => pc[q] = "off") /\ alone[p]
    BY <1>1 DEF IInv, Lone
  <2>2. name # None /\ data[name] = old /\ ini[p] = new /\ tmp # name /\ fd[p] = tmp
    BY <1>1, <2>1 DEF IInv, CalmDisk, InHand
  <2>3. name \in Inodes /\ data'[name] = data[name]
    BY <1>1, <2>2 DEF IInv, IniTypeOK
  <2> QED BY <1>1, <2>1, <2>2, <2>3 DEF IInv, CalmDisk, IniTypeOK
<1>5. KillLosesNothing'
  <2>1. state # "killed"
    BY <1>1 DEF IInv, Lone
  <2> QED BY <1>1, <2>1 DEF KillLosesNothing, fate
<1> QED BY <1>2, <1>3, <1>4, <1>5

LEMMA FlushFullStep ==
  ASSUME IInv, NEW p \in Procs, FlushFull(p)
  PROVE  Lone' /\ InHand' /\ CalmDisk' /\ KillLosesNothing'
<1>1. /\ pc[p] = "flush" /\ pc' = [pc EXCEPT ![p] = "unlink"]
      /\ state' = "torn" /\ alone' = [alone EXCEPT ![p] = FALSE]
  BY DEF FlushFull
<1>2. ASSUME NEW q \in Procs, pc'[q] # "off", alone'[q] PROVE FALSE
  BY <1>1, <1>2 DEF IInv, Lone, IniTypeOK
<1> QED BY <1>1, <1>2 DEF Lone, InHand, CalmDisk, KillLosesNothing

LEMMA UnlinkStep ==
  ASSUME IInv, NEW p \in Procs, Unlink(p)
  PROVE  Lone' /\ InHand' /\ CalmDisk' /\ KillLosesNothing'
<1>1. /\ pc[p] = "unlink" /\ pc' = [pc EXCEPT ![p] = "link"] /\ name' = None
      /\ UNCHANGED <<tmp, data, ini, fate, old, new>>
  BY DEF Unlink, hist, memory
<1>2. Lone'
  BY <1>1, MoveLone
<1>3. InHand'
  <2> SUFFICES ASSUME NEW q \in Procs, pc'[q] # "off", alone[q]
               PROVE  pc'[q] = "link" /\ tmp # None /\ data[tmp] = ini[q] /\ name' = None
    BY <1>1 DEF InHand, fate
  <2>1. q = p
    BY <1>1 DEF IInv, Lone, IniTypeOK
  <2> QED BY <1>1, <2>1 DEF IInv, InHand, IniTypeOK
<1>4. CalmDisk'
  BY <1>1 DEF IInv, Lone, CalmDisk, IniTypeOK, fate
<1>5. KillLosesNothing'
  <2>1. state # "killed"
    BY <1>1 DEF IInv, Lone
  <2> QED BY <1>1, <2>1 DEF KillLosesNothing, fate
<1> QED BY <1>2, <1>3, <1>4, <1>5

LEMMA LinkStep ==
  ASSUME IInv, NEW p \in Procs, Link(p)
  PROVE  Lone' /\ InHand' /\ CalmDisk' /\ KillLosesNothing'
<1>1. /\ pc[p] = "link" /\ pc' = [pc EXCEPT ![p] = "untmp"] /\ old' = ini[p]
      /\ name' = IF name = None THEN tmp ELSE name
      /\ UNCHANGED <<tmp, data, ini, fate, new>>
  BY DEF Link, memory
<1>2. Lone'
  BY <1>1, MoveLone
<1>3. alone[p] => name' # None /\ data[name'] = ini[p] /\ \A q \in Procs : q # p => pc[q] = "off"
  BY <1>1 DEF IInv, InHand, Lone
<1>4. InHand'
  <2> SUFFICES ASSUME NEW q \in Procs, pc'[q] # "off", alone[q]
               PROVE  pc'[q] = "untmp" /\ name' # None /\ data[name'] = ini[q] /\ old' = ini[q]
    BY <1>1 DEF InHand, fate
  <2>1. q = p
    BY <1>1 DEF IInv, Lone, IniTypeOK
  <2> QED BY <1>1, <1>3, <2>1 DEF IInv, IniTypeOK
<1>5. CalmDisk'
  <2> SUFFICES ASSUME state = "calm" PROVE CalmDisk'
    BY <1>1 DEF CalmDisk, fate
  <2>1. alone[p] /\ ini[p] = new
    BY <1>1 DEF IInv, Lone, CalmDisk
  <2> QED BY <1>1, <1>3, <2>1 DEF CalmDisk, IInv, IniTypeOK
<1>6. KillLosesNothing'
  <2>1. state # "killed"
    BY <1>1 DEF IInv, Lone
  <2> QED BY <1>1, <2>1 DEF KillLosesNothing, fate
<1> QED BY <1>2, <1>4, <1>5, <1>6

LEMMA KillStep ==
  ASSUME IInv, NEW p \in Procs, Kill(p)
  PROVE  Lone' /\ InHand' /\ CalmDisk' /\ KillLosesNothing'
<1>1. /\ pc[p] # "off" /\ pc' = [pc EXCEPT ![p] = "off"]
      /\ state' = IF state = "calm" THEN "killed" ELSE "torn"
      /\ ini' = [ini EXCEPT ![p] = Empty] /\ fd' = [fd EXCEPT ![p] = None]
      /\ UNCHANGED <<disk, alone, old, new>>
  BY DEF Kill
<1>2. state = "calm" => alone[p] /\ \A q \in Procs : q # p => pc[q] = "off"
  BY <1>1 DEF IInv, Lone
<1>3. Lone'
  BY <1>1, <1>2 DEF IInv, Lone, IniTypeOK
<1>4. InHand'
  BY <1>1 DEF IInv, InHand, IniTypeOK, disk
<1>5. KillLosesNothing'
  <2> SUFFICES ASSUME state = "calm" PROVE \E n \in {name, tmp} \ {None} : data[n] \in {old, new}
    BY <1>1 DEF KillLosesNothing, disk
  <2>1. CASE pc[p] = "link"
    <3>1. tmp # None /\ data[tmp] = new
      BY <1>1, <1>2, <2>1 DEF IInv, InHand, CalmDisk
    <3> QED BY <3>1
  <2>2. CASE pc[p] # "link"
    <3>1. name # None /\ data[name] = old
      BY <1>2, <2>2 DEF IInv, CalmDisk
    <3> QED BY <3>1
  <2> QED BY <2>1, <2>2
<1>6. CalmDisk'
  BY <1>1 DEF CalmDisk
<1> QED BY <1>3, <1>4, <1>5, <1>6

LEMMA InvInit == IniInit => IInv
<1> SUFFICES ASSUME IniInit PROVE IInv
  OBVIOUS
<1>1. IniTypeOK
  BY TypeInit
<1>2. name \in Inodes
  BY InodeExists DEF IniInit
<1>3. name # None
  BY <1>2
<1> QED BY <1>1, <1>2, <1>3 DEF IInv, IniInit, Lone, InHand, CalmDisk, KillLosesNothing

LEMMA InvNext == IInv /\ [IniNext]_iniVars => IInv'
<1> SUFFICES ASSUME IInv, [IniNext]_iniVars PROVE IInv'
  OBVIOUS
<1> DEFINE Goal == Lone' /\ InHand' /\ CalmDisk' /\ KillLosesNothing'
<1>0. IniTypeOK'
  BY TypeNext DEF IInv
<1>1. ASSUME NEW p \in Procs, NEW r \in Requests, IniStart(p, r) PROVE Goal
  <2>1. Begin(p, r, FALSE) /\ pc[p] = "off" /\ UNCHANGED <<disk, old, new>>
    BY <1>1 DEF IniStart
  <2>2. r \in Seq(Change)
    OBVIOUS
  <2> QED BY <2>1, <2>2, BeginUntouched
<1>2. ASSUME NEW p \in Procs, UnlinkTmp(p) PROVE Goal
  <2>1. /\ pc[p] = "untmp" /\ tmp' = None /\ Begin(p, Tail(todo[p]), alone[p])
        /\ UNCHANGED <<name, data, old, new>>
    BY <1>2 DEF UnlinkTmp
  <2>2. alone[p] => name' # None /\ data[name'] = old'
    BY <2>1 DEF IInv, InHand
  <2> QED BY <2>1, <2>2, BeginSaved
<1>3. ASSUME NEW p \in Procs, Rename(p) PROVE Goal
  <2>1. /\ pc[p] = "link" /\ tmp' = None /\ Begin(p, Tail(todo[p]), alone[p])
        /\ name' = (IF tmp = None THEN name ELSE tmp) /\ old' = ini[p]
        /\ UNCHANGED <<data, new>>
    BY <1>3 DEF Rename
  <2>2. alone[p] => name' # None /\ data[name'] = old'
    BY <2>1 DEF IInv, InHand
  <2> QED BY <2>1, <2>2, BeginSaved
<1>4. ASSUME UNCHANGED iniVars PROVE Goal
  <2>1. UNCHANGED <<name, tmp, data, pc, ini, fd, alone, state, old, new>>
    BY <1>4 DEF iniVars, disk, memory, hist, fate
  <2>2. Lone'
    BY <2>1 DEF IInv, Lone
  <2>3. InHand'
    BY <2>1 DEF IInv, InHand
  <2>4. CalmDisk'
    BY <2>1 DEF IInv, CalmDisk
  <2>5. KillLosesNothing'
    BY <2>1 DEF IInv, KillLosesNothing
  <2> QED BY <2>2, <2>3, <2>4, <2>5
<1>5. ASSUME NEW p \in Procs, Stat(p) \/ Open(p) \/ OpenSnmpd(p) \/ Read(p) \/ Kill(p) PROVE Goal
  BY <1>5, StatStep, OpenStep, OpenSnmpdStep, ReadStep, KillStep
<1>6. ASSUME NEW p \in Procs, Create(p) \/ Flush(p) \/ FlushFull(p) \/ Unlink(p) \/ Link(p) PROVE Goal
  BY <1>6, CreateStep, FlushStep, FlushFullStep, UnlinkStep, LinkStep
<1> HIDE DEF Goal
<1>7. Goal
  BY <1>1, <1>2, <1>3, <1>4, <1>5, <1>6 DEF IniNext, Save
<1> QED BY <1>0, <1>7 DEF IInv, Goal

\* The file is always what was last saved, whatever other programs did to it
\* before the last undisturbed save.
THEOREM FileIsLastSavedHolds == IniSpec => []FileIsLastSaved
<1>1. IInv => FileIsLastSaved
  BY DEF IInv, CalmDisk, FileIsLastSaved, Between
<1> QED BY <1>1, InvInit, InvNext, PTL DEF IniSpec

\* A kill never loses both the old content and the new.
THEOREM KillLosesNothingHolds == IniSpec => []KillLosesNothing
<1>1. IInv => KillLosesNothing
  BY DEF IInv
<1> QED BY <1>1, InvInit, InvNext, PTL DEF IniSpec
=============================================================================
