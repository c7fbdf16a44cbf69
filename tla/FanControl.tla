----------------------------- MODULE FanControl -----------------------------
(***************************************************************************)
(* How EmsAgent drives the fans of the shelf (EmsAgent/back_mgmt.c).        *)
(*                                                                          *)
(* The fans hang on the backplane, a board with a processor of its own that *)
(* is asked for temperature and fan speeds, and told which fans to run, by  *)
(* messages over the 485 bus.  The main loop calls check_backstate every    *)
(* eighth pass (main.c:356-357): it reads the backplane, corrects the       *)
(* wanted fans when the temperature has changed, shows the fans' state, and *)
(* a few passes after the last command it looks for fans that do not do     *)
(* what was commanded.  The operator sets the configuration with SetShelf.  *)
(*                                                                          *)
(* A bit mask of fans is the set of fans whose bit is 1; bit 3 of           *)
(* fan_config is the mode of a configuration.  fan_ctl masks bit 3 of       *)
(* fan_control away, so the model has no such bit.  Power and the LCD are   *)
(* left out, and a GetBack without an answer, after which check_backstate   *)
(* returns having changed nothing, is a stuttering step.                    *)
(*                                                                          *)
(* An operator named after the action or helper that follows it, with a     *)
(* word added, is that definition with a bug a programmer could make; it is *)
(* used in no specification and only shows which property would notice.     *)
(***************************************************************************)
EXTENDS Integers

CONSTANTS Fans,         \* the fans (the shelf has three)
          Temps,        \* temperatures of the shelf, in degrees Celsius
          Configs,      \* configurations the operator may send
          Default,      \* the one used when shelf.conf is missing
          FailDelay,    \* check_fanfail_delay after a command (5)
          Settle,       \* passes a sound fan takes to follow a command
          MaxWarms,     \* bound: changes of the temperature
          MaxSets,      \* bound: calls of SetShelf
          MaxRestarts,  \* bound: restarts of EmsAgent
          MaxLost,      \* bound: commands or answers lost on the bus
          MaxRefused,   \* bound: the same, in a SetShelf
          MaxResets,    \* bound: restarts of the backplane
          MaxBreaks,    \* bound: fans that break down
          MaxDbFaults   \* bound: times the alarm table cannot be opened

Byte == 0..255

\* fanctl.html: with the box "auto" checked no fan is selected (fanstate 8)
\* and every low threshold is below its high one, both within 1..100.
ASSUME FanControlAssumption ==
  /\ Temps \subseteq Int
  /\ Configs \subseteq [mode : {"auto", "manual"}, on : SUBSET Fans,
                        low : [Fans -> Byte], high : [Fans -> Byte]]
  /\ \A c \in Configs : c.mode = "auto" =>
       c.on = {} /\ \A i \in Fans : 0 < c.low[i] /\ c.low[i] < c.high[i]
  /\ Default \in Configs
  /\ FailDelay \in Nat /\ Settle \in Nat /\ Settle < FailDelay
  /\ MaxWarms \in Nat /\ MaxSets \in Nat /\ MaxRestarts \in Nat /\ MaxLost \in Nat
  /\ MaxRefused \in Nat /\ MaxResets \in Nat /\ MaxBreaks \in Nat /\ MaxDbFaults \in Nat

VARIABLES
  config,       \* shelfCfg, and what shelf.conf holds
  control,      \* fan_control: the fans that should run
  temperature,  \* temperature: the last reading
  running,      \* fan_state: the fans whose speed was above 500
  shown,        \* fan_states: what the web page shows of each fan
  misses,       \* flag_fail
  delay,        \* check_fanfail_delay
  alarmed,      \* history: failed fans whose alarm is in the table
  air,          \* the temperature of the shelf
  command,      \* what the backplane was last told
  broken,       \* fans that do not turn
  spinning,     \* fans that turn
  settling,     \* passes the fans still have to follow the command
  used          \* how much of each bound is used

agentVars == <<config, control, temperature, running, shown, misses, delay, alarmed>>
shelfVars == <<air, command, broken, spinning, settling>>
vars == <<agentVars, shelfVars, used>>

Used == [warms : 0..MaxWarms, sets : 0..MaxSets, restarts : 0..MaxRestarts,
         lost : 0..MaxLost, refused : 0..MaxRefused, resets : 0..MaxResets,
         breaks : 0..MaxBreaks, dbFaults : 0..MaxDbFaults]

TypeOK ==
  /\ config \in Configs
  /\ control \subseteq Fans /\ running \subseteq Fans /\ alarmed \subseteq Fans
  /\ temperature \in Byte
  /\ shown \in [Fans -> {"FAN_OFF", "FAN_ON", "FAN_FAIL"}]
  /\ misses \in [Fans -> 0..1]
  /\ delay \in 0..FailDelay
  /\ air \in Temps
  /\ command \subseteq Fans /\ broken \subseteq Fans /\ spinning \subseteq Fans
  /\ settling \in 0..Settle
  /\ used \in Used

----------------------------------------------------------------------------
(* The backplane and the fans. *)

\* A byte: the target's char, like `unsigned char temperature', has no sign, so
\* a frost of -1 reads 255.
Reading == air % 256

\* What the backplane was last told after a command that goes through, is not
\* heard, or is obeyed while its answer is lost.
Outcomes == {"done", "unheard", "unanswered"}
Told(o, fans) == IF o = "unheard" THEN command ELSE fans

Warm(t) ==
  /\ t # air /\ air' = t
  /\ used.warms < MaxWarms /\ used' = [used EXCEPT !.warms = @ + 1]
  /\ UNCHANGED <<agentVars, command, broken, spinning, settling>>

\* A fan speeds up or runs down as the command says.
Settled == spinning = command \ broken
Turn(i) ==
  /\ (i \in spinning) # (i \in command \ broken)
  /\ spinning' = IF i \in spinning THEN spinning \ {i} ELSE spinning \cup {i}
  /\ UNCHANGED <<agentVars, air, command, broken, settling, used>>

Break(i) ==
  /\ i \notin broken
  /\ used.breaks < MaxBreaks /\ used' = [used EXCEPT !.breaks = @ + 1]
  /\ broken' = broken \cup {i} /\ spinning' = spinning \ {i}
  /\ UNCHANGED <<agentVars, air, command, settling>>

Repair(i) ==
  /\ i \in broken
  /\ broken' = broken \ {i} /\ settling' = Settle
  /\ UNCHANGED <<agentVars, air, command, spinning, used>>

\* The backplane restarts; which fans it then drives is its own affair.
Reset(fans) ==
  /\ used.resets < MaxResets /\ used' = [used EXCEPT !.resets = @ + 1]
  /\ command' = fans /\ settling' = Settle
  /\ UNCHANGED <<agentVars, air, broken, spinning>>

----------------------------------------------------------------------------
(* EmsAgent. *)

\* Wanted that leaves a fan running at its low threshold.
WantedAtLow(c, t) == {i \in Fans : (t >= c.high[i] \/ i \in control) /\ t >= c.low[i]}

\* The fans to run at temperature t: hysteresis between the two thresholds.
Wanted(c, t) == {i \in Fans : (t >= c.high[i] \/ i \in control) /\ t > c.low[i]}

\* initShelfConfig, after the loader has cleared the globals.
Start(c, o) ==
  LET manual == c.mode = "manual" IN
  /\ control' = c.on
  /\ command' = IF manual THEN Told(o, c.on) ELSE command
  /\ delay' = IF manual /\ o = "done" THEN FailDelay ELSE 0
  /\ settling' = IF manual /\ o # "unheard" THEN Settle ELSE settling
  /\ temperature' = 0 /\ running' = {}
  /\ shown' = [i \in Fans |-> "FAN_OFF"]
  /\ misses' = [i \in Fans |-> 0]

Restart(o) ==
  /\ used.restarts < MaxRestarts
  /\ o # "done" => config.mode = "manual" /\ used.lost < MaxLost
  /\ used' = [used EXCEPT !.restarts = @ + 1, !.lost = IF o = "done" THEN @ ELSE @ + 1]
  /\ Start(config, o)
  /\ alarmed' = {}
  /\ UNCHANGED <<config, air, broken, spinning>>

\* The agent's first start.  The backplane may already drive any fans.
Init ==
  /\ config = Default
  /\ control = Default.on /\ temperature = 0 /\ running = {}
  /\ shown = [i \in Fans |-> "FAN_OFF"] /\ misses = [i \in Fans |-> 0]
  /\ delay = IF Default.mode = "manual" THEN FailDelay ELSE 0
  /\ alarmed = {} /\ broken = {}
  /\ air \in Temps
  /\ command \in IF Default.mode = "manual" THEN {Default.on} ELSE SUBSET Fans
  /\ spinning = command /\ settling = Settle
  /\ used = [warms |-> 0, sets |-> 0, restarts |-> 0, lost |-> 0, refused |-> 0,
             resets |-> 0, breaks |-> 0, dbFaults |-> 0]

\* SetShelf: in mode auto the fans are worked out first, from the last reading,
\* and sent; the configuration follows only if the backplane has answered.
SetShelf(c, o) ==
  LET fans == IF c.mode = "auto" THEN Wanted(c, temperature) ELSE c.on IN
  /\ used.sets < MaxSets /\ (o # "done" => used.refused < MaxRefused)
  /\ used' = [used EXCEPT !.sets = @ + 1, !.refused = IF o = "done" THEN @ ELSE @ + 1]
  /\ command' = Told(o, fans)
  /\ settling' = IF o = "unheard" THEN settling ELSE Settle
  /\ control' = IF c.mode = "auto" \/ o = "done" THEN fans ELSE control
  /\ config' = IF o = "done" THEN c ELSE config
  /\ delay' = IF o = "done" THEN FailDelay ELSE delay
  /\ UNCHANGED <<temperature, running, shown, misses, alarmed, air, broken, spinning>>

\* Show that never takes FAN_ON back.
ShowOn(now) == [i \in Fans |-> IF i \in now \ running THEN "FAN_ON" ELSE shown[i]]

\* fan_states after a reading: FAN_FAIL only ends when the fan's speed changes.
Show(now) == [i \in Fans |-> CASE i \in now \ running -> "FAN_ON"
                               [] i \in running \ now -> "FAN_OFF"
                               [] OTHER -> shown[i]]

\* Standing that looks at the fans that have just stopped only.
StandingStopped(want, now, show) == {i \in (want \ now) \cap running : show[i] # "FAN_FAIL"}

\* Straying for a check without its else.
StrayingNever(want, now, show) == {}

\* The fans found standing that should turn, and turning that should stand,
\* when `want' is wanted, `now' was read and the page shows `show'.
Standing(want, now, show) == {i \in want \ now : show[i] # "FAN_FAIL"}
Straying(want, now, show) == {i \in now \ want : show[i] # "FAN_FAIL"}

\* Counted that does not start again.
CountedOn(standing) == [i \in Fans |-> IF i \in standing THEN misses[i] + 1 ELSE misses[i]]

\* The second miss makes a failure and starts the count again.
Failing(standing) == {i \in standing : misses[i] + 1 > 1}
Counted(standing) == [i \in Fans |-> IF i \notin standing THEN misses[i]
                                     ELSE IF i \in Failing(standing) THEN 0 ELSE misses[i] + 1]

\* Delay when fan_ctl starts no delay.
DelayNone(sent, o, d) == IF sent /\ o = "done" THEN 0 ELSE d

\* check_fanfail_delay after a command.
Delay(sent, o, d) == IF sent /\ o = "done" THEN FailDelay ELSE d

\* check_backstate.  A first command is sent in mode auto when the temperature
\* has changed, a second when a fan does not do what it was told; p and q are
\* their outcomes.  `noted' says whether the alarm table could be opened.
CheckBackState(p, q, noted) ==
  LET now      == spinning
      regulate == config.mode = "auto" /\ Reading # temperature
      want     == IF regulate THEN Wanted(config, Reading) ELSE control
      told     == IF regulate THEN Told(p, want) ELSE command
      show     == Show(now)
      wait     == Delay(regulate, p, delay)
      look     == wait = 0
      standing == IF look THEN Standing(want, now, show) ELSE {}
      straying == IF look THEN Straying(want, now, show) ELSE {}
      resend   == standing \cup straying # {}
      failing  == Failing(standing)
      losses   == (IF regulate /\ p # "done" THEN 1 ELSE 0)
                    + (IF resend /\ q # "done" THEN 1 ELSE 0)
      heard    == (regulate /\ p # "unheard") \/ (resend /\ q # "unheard")
  IN
  /\ settling > 0 \/ Settled
  /\ ~regulate => p = "done"
  /\ ~resend => q = "done"
  /\ used.lost + losses <= MaxLost
  /\ failing = {} => noted
  /\ ~noted => used.dbFaults < MaxDbFaults
  /\ used' = [used EXCEPT !.lost = @ + losses, !.dbFaults = IF noted THEN @ ELSE @ + 1]
  /\ control' = want
  /\ temperature' = Reading /\ running' = now
  /\ shown' = [i \in Fans |-> IF i \in failing THEN "FAN_FAIL" ELSE show[i]]
  /\ misses' = Counted(standing)
  /\ delay' = IF look THEN Delay(resend, q, 0) ELSE wait - 1
  /\ command' = IF resend /\ q # "unheard" THEN want ELSE told
  /\ settling' = IF heard THEN Settle ELSE IF settling > 0 THEN settling - 1 ELSE 0
  /\ alarmed' = {i \in alarmed : show[i] = "FAN_FAIL"} \cup (IF noted THEN failing ELSE {})
  /\ UNCHANGED <<config, air, broken, spinning>>

Check == \E p, q \in Outcomes, noted \in BOOLEAN : CheckBackState(p, q, noted)

----------------------------------------------------------------------------
Next ==
  \/ \E t \in Temps : Warm(t)
  \/ \E i \in Fans : Turn(i) \/ Break(i) \/ Repair(i)
  \/ \E fans \in SUBSET Fans : Reset(fans)
  \/ \E o \in Outcomes : Restart(o)
  \/ \E c \in Configs, o \in Outcomes : SetShelf(c, o)
  \/ Check

Spec == Init /\ [][Next]_vars

\* The main loop goes round whatever arrives, and a sound fan follows in time.
FairSpec == Spec /\ WF_vars(Check) /\ \A i \in Fans : WF_vars(Turn(i))

----------------------------------------------------------------------------
(* Properties. *)

\* The web page never shows a fan as running that was last seen standing, nor
\* the reverse, and a failed fan was last seen standing: although the state is
\* corrected only where the speed has changed and is overwritten by the fan
\* check, the two agree (back_mgmt.c:442-455 with 492).
ShownIsSeen == \A i \in Fans : shown[i] = "FAN_ON" <=> i \in running

\* The fans the agent wants are those its configuration calls for: in mode
\* manual the selected ones (msg.h:266), in mode auto every fan at or above its
\* high threshold and none at or below its low one, by the last reading.
Obeys ==
  /\ config.mode = "manual" => control = config.on
  /\ config.mode = "auto" => \A i \in Fans :
       /\ temperature >= config.high[i] => i \in control
       /\ temperature <= config.low[i] => i \notin control

\* So long as no SetShelf was refused by the backplane, they always are, also
\* after new thresholds, a change of mode and a restart (back_mgmt.c:177-221).
ObeysUnlessRefused == used.refused = 0 => Obeys

\* A fan that never broke is not declared failed on account of one lost message
\* or one restart of the backplane: the delay after a command covers the time
\* the fan needs, and one miss is forgiven (back_mgmt.c:118, 466-489).
NoFalseFailure ==
  used.breaks = 0 /\ used.lost + used.refused + used.resets <= 1
    => \A i \in Fans : shown[i] # "FAN_FAIL"

\* A fan shown as failed has its alarm in the table (back_mgmt.c:495 "generate
\* the alarm").
FailureIsAlarmed == \A i \in Fans : shown[i] = "FAN_FAIL" => i \in alarmed

\* A fan that does not do what the agent wants does so in the end, or is shown
\* as failed: it broke, or turns though it should stand, or stands since the
\* command was lost or the backplane has restarted, whatever commands, restarts
\* and changes of temperature come between (back_mgmt.c:466-525, 508-509 "the
\* MPU is restart, it needs to resend the fan control command").
FansFollow == \A i \in Fans :
  ~(i \in control <=> i \in spinning)
    ~> (i \in control <=> i \in spinning) \/ shown[i] = "FAN_FAIL"

\* Without exception a sound fan would also turn when it was repaired after it was
\* shown as failed and the backplane has restarted since.
TurnsWhenMended == \A i \in Fans :
  i \in control \ broken ~> i \in spinning \/ i \notin control \ broken
=============================================================================
