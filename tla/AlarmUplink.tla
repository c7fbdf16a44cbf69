---------------------------- MODULE AlarmUplink ----------------------------
(***************************************************************************)
(* The thread of an FSA card that uploads input alarms (alarm2Net and       *)
(* check_alarm of FSA/proc_alarm.c).                                        *)
(*                                                                          *)
(* A pass of its loop takes the reports of the ONUs' inputs, raises an      *)
(* alarm for every input of an ONU whose state has differed from the        *)
(* reported one for more than Threshold passes, puts the alarm in the ring  *)
(* of each of two servers, opens and times out the connections, and sends   *)
(* what the rings hold.  When no alarm has been raised for ConIdle passes   *)
(* it closes the connections and forgets what is not sent.                  *)
(*                                                                          *)
(* Head and tail of a ring count modulo QSize (unsigned char and 256 in the *)
(* code).  The network decides whether a connection is made, how send ends, *)
(* and when select says so.                                                 *)
(*                                                                          *)
(* An operator named after the action or helper that follows it, with a     *)
(* word added, is that definition with a bug a programmer could make; it is *)
(* used in no specification and only shows which property would notice.     *)
(***************************************************************************)
EXTENDS Integers, Sequences

CONSTANTS NumOnus,     \* MAX_ONU_NUM (24)
          NumIos,      \* inputs of an ONU (6), those OnuIOMask leaves
          Conns,       \* the two servers
          Configured,  \* those that have an address
          QSize,       \* 256
          Threshold,   \* ALARM_THRESHOLD (10)
          ChkPoint, TimedOut, WaitTime,  \* TAG_CHKPOINT, ... (500, 1000, 1500)
          ConIdle,     \* CON_IDLE (1000)
          MaxReports   \* bound: reports that change an ONU's inputs

ASSUME AlarmUplinkAssumption ==
  /\ NumOnus \in Nat \ {0} /\ NumIos \in Nat \ {0}
  /\ Configured \subseteq Conns
  /\ QSize \in Nat /\ QSize > 1
  /\ Threshold \in Nat /\ ConIdle \in Nat /\ WaitTime \in Nat /\ MaxReports \in Nat
  /\ ChkPoint \in Nat /\ TimedOut \in Nat /\ 1 < ChkPoint /\ ChkPoint < TimedOut

Onus  == 1..NumOnus
Ios   == 1..NumIos
Alarm == [onu : Onus, io : Ios, type : {"IO", "CLEAR"}]

VARIABLES
  ioNew,      \* OnuIOStateN: inputs of each ONU that are on
  ioState,    \* OnuIOState: those that have been reported to be on
  chgCount,   \* ChgCount
  queue,      \* AlarmList[j].queue, [0..QSize-1 -> Alarm] of each server
  head, tail, \* AlarmList[j].head and tail
  sock,       \* snd_tcpsocket: 1 if open
  tag,        \* tag_tcpsocket
  loopCount,  \* loop_count
  pc,         \* the part of the pass
  i, idx,     \* ONU and input check_alarm is at, idx = 0 before the inputs
  ret,        \* what check_alarm will return
  reports,    \* how much of the bound is used
  seen,       \* what each server has been told is on, <<ONU, input>>
  lost,       \* history: servers that have missed an alarm
  held        \* history: passes <<ONU, input>> has differed, saturated

ioVars    == <<ioNew, ioState, chgCount>>
ringVars  == <<queue, head, tail>>
netVars   == <<sock, tag>>
scanVars  == <<i, idx, ret>>
histVars  == <<seen, lost>>
vars == <<ioVars, ringVars, netVars, loopCount, pc, scanVars, reports, histVars, held>>

TypeOK ==
  /\ ioNew \in [Onus -> SUBSET Ios] /\ ioState \in [Onus -> SUBSET Ios]
  /\ chgCount \in [Onus -> 0..Threshold+1]
  /\ queue \in [Conns -> [0..QSize-1 -> Alarm]]
  /\ head \in [Conns -> 0..QSize-1] /\ tail \in [Conns -> 0..QSize-1]
  /\ sock \in [Conns -> {0, 1}]
  /\ tag \in [Conns -> Nat]
  /\ loopCount \in 0..ConIdle
  /\ pc \in {"report", "check", "connect", "select", "timer", "send"}
  /\ i \in 1..NumOnus+1 /\ idx \in 0..NumIos+1 /\ ret \in {0, 1}
  /\ idx # 0 => i \in Onus
  /\ reports \in 0..MaxReports
  /\ seen \in [Conns -> SUBSET (Onus \X Ios)] /\ lost \subseteq Conns
  /\ held \in [Onus \X Ios -> 0..Threshold+1]

Init ==
  /\ ioNew = [o \in Onus |-> {}] /\ ioState = [o \in Onus |-> {}]
  /\ chgCount = [o \in Onus |-> 0]
  /\ queue = [j \in Conns |-> [n \in 0..QSize-1 |-> [onu |-> 1, io |-> 1, type |-> "CLEAR"]]]
  /\ head = [j \in Conns |-> 0] /\ tail = [j \in Conns |-> 0]
  /\ sock = [j \in Conns |-> 0] /\ tag = [j \in Conns |-> 0]
  /\ loopCount = ConIdle /\ pc = "report" /\ i = 1 /\ idx = 0 /\ ret = 0
  /\ reports = 0
  /\ seen = [j \in Conns |-> {}] /\ lost = {}
  /\ held = [x \in Onus \X Ios |-> 0]

\* The number of alarms in a ring, and the alarms, oldest first.
Count(h, t) == (t - h + QSize) % QSize
Pending(j) == [n \in 1..Count(head[j], tail[j]) |-> queue[j][(head[j] + n - 1) % QSize]]

\* Inputs of o whose state is not the reported one.
Differs(o, new) == {k \in Ios : (k \in new[o]) # (k \in ioState[o])}

\* Forgets the alarms in the rings of D.
Clear(D) ==
  /\ head' = [j \in Conns |-> IF j \in D THEN 0 ELSE head[j]]
  /\ tail' = [j \in Conns |-> IF j \in D THEN 0 ELSE tail[j]]
  /\ lost' = lost \cup {j \in D : head[j] # tail[j]}
  /\ UNCHANGED <<queue, seen>>

----------------------------------------------------------------------------
(* The inputs. *)

\* getIOReport returns a report that changes the inputs of an ONU.
Report(o, s) ==
  /\ pc = "report" /\ reports < MaxReports /\ s # ioNew[o]
  /\ ioNew' = [ioNew EXCEPT ![o] = s]
  /\ reports' = reports + 1
  /\ UNCHANGED <<ioState, chgCount, ringVars, netVars, loopCount, pc, scanVars, histVars, held>>

\* getIOReport has no more; check_alarm starts.
Scan ==
  /\ pc = "report"
  /\ pc' = "check" /\ i' = 1 /\ idx' = 0 /\ ret' = 0
  /\ held' = [x \in Onus \X Ios |->
                IF x[2] \notin Differs(x[1], ioNew) THEN 0
                ELSE IF held[x] > Threshold THEN held[x] ELSE held[x] + 1]
  /\ UNCHANGED <<ioVars, ringVars, netVars, loopCount, reports, histVars>>

\* check_alarm looks at ONU i: its inputs follow if they have differed from
\* what was reported in more than Threshold passes in a row.
CheckOnu ==
  /\ pc = "check" /\ i <= NumOnus /\ idx = 0
  /\ LET due == ioState[i] # ioNew[i] /\ chgCount[i] + 1 > Threshold IN
       /\ chgCount' = [chgCount EXCEPT ![i] =
                         IF ioState[i] = ioNew[i] \/ due THEN 0 ELSE @ + 1]
       /\ idx' = IF due THEN 1 ELSE 0
       /\ i' = IF due THEN i ELSE i + 1
  /\ UNCHANGED <<ioNew, ioState, ringVars, netVars, loopCount, pc, ret, reports, histVars, held>>

\* Put on indexes wider than the ring.
PutNoWrap(a) ==
  /\ queue' = [j \in Conns |-> [queue[j] EXCEPT ![tail[j]] = a]]
  /\ tail' = [j \in Conns |-> tail[j] + 1]
  /\ UNCHANGED <<head, histVars>>

\* The alarm a goes into every ring.  The test for a full ring is tail - head
\* = QSize - 1 in int, so it sees a full ring only if head is 0; the element
\* is written before the test.
Put(a) ==
  /\ queue' = [j \in Conns |-> [queue[j] EXCEPT ![tail[j]] = a]]
  /\ head' = [j \in Conns |-> IF tail[j] - head[j] = QSize - 1
                              THEN (head[j] + 1) % QSize ELSE head[j]]
  /\ tail' = [j \in Conns |-> (tail[j] + 1) % QSize]
  /\ lost' = lost \cup {j \in Conns : Count(head[j], tail[j]) = QSize - 1}
  /\ UNCHANGED seen

AlarmOf(o, k) == [onu |-> o, io |-> k, type |-> IF k \in ioNew[o] THEN "IO" ELSE "CLEAR"]

\* check_alarm looks at input idx of ONU i.
Raising == pc = "check" /\ idx \in Ios /\ idx \in Differs(i, ioNew)

CheckIo ==
  /\ pc = "check" /\ idx \in Ios
  /\ IF Raising THEN Put(AlarmOf(i, idx)) /\ ret' = 1
                ELSE UNCHANGED <<ringVars, histVars, ret>>
  /\ idx' = idx + 1
  /\ UNCHANGED <<ioVars, netVars, loopCount, pc, i, reports, held>>

\* CheckIoEnd that does not note what has been reported.
CheckIoEndForgets ==
  /\ pc = "check" /\ idx > NumIos
  /\ i' = i + 1 /\ idx' = 0
  /\ UNCHANGED <<ioVars, ringVars, netVars, loopCount, pc, ret, reports, histVars, held>>

CheckIoEnd ==
  /\ pc = "check" /\ idx > NumIos
  /\ ioState' = [ioState EXCEPT ![i] = ioNew[i]]
  /\ held' = [x \in Onus \X Ios |-> IF x[1] = i THEN 0 ELSE held[x]]
  /\ i' = i + 1 /\ idx' = 0
  /\ UNCHANGED <<ioNew, chgCount, ringVars, netVars, loopCount, pc, ret, reports, histVars>>

----------------------------------------------------------------------------
(* The connections. *)

Scanned == pc = "check" /\ i > NumOnus

\* Idling that leaves the connections open.
IdlingKeeps ==
  /\ Scanned /\ ret = 0 /\ loopCount = ConIdle
  /\ Clear(Conns)
  /\ pc' = "report"
  /\ UNCHANGED <<ioVars, netVars, loopCount, scanVars, reports, held>>

\* No alarm for ConIdle passes: close everything and start over.
Idling ==
  /\ Scanned /\ ret = 0 /\ loopCount = ConIdle
  /\ sock' = [j \in Conns |-> 0] /\ tag' = [j \in Conns |-> 0]
  /\ Clear(Conns)
  /\ pc' = "report"
  /\ UNCHANGED <<ioVars, loopCount, scanVars, reports, held>>

Working ==
  /\ Scanned /\ ~(ret = 0 /\ loopCount = ConIdle)
  /\ loopCount' = IF ret = 1 THEN 0 ELSE loopCount + 1
  /\ pc' = "connect"
  /\ UNCHANGED <<ioVars, ringVars, netVars, scanVars, reports, histVars, held>>

\* Servers a connection to is not open nor being waited for.
Unconnected == {j \in Conns : sock[j] = 0 /\ tag[j] = 0}

\* Connect that does not start the timer of a connection.
ConnectUntimed ==
  /\ pc = "connect"
  /\ \E ok \in SUBSET (Unconnected \cap Configured) :
       sock' = [j \in Conns |-> IF j \in ok THEN 1 ELSE sock[j]]
  /\ Clear(Unconnected \ Configured)
  /\ pc' = "select"
  /\ UNCHANGED <<ioVars, tag, loopCount, scanVars, reports, held>>

\* opentcpclient, which may fail at once.
Connect ==
  /\ pc = "connect"
  /\ LET try == Unconnected \cap Configured IN
       \E ok \in SUBSET try :
         /\ sock' = [j \in Conns |-> IF j \in ok THEN 1 ELSE sock[j]]
         /\ tag' = [j \in Conns |-> IF j \in try THEN ChkPoint ELSE tag[j]]
  /\ Clear(Unconnected \ Configured)
  /\ pc' = "select"
  /\ UNCHANGED <<ioVars, loopCount, scanVars, reports, held>>

\* select fails.
SelectError ==
  /\ pc = "select"
  /\ sock' = [j \in Conns |-> 0] /\ tag' = [j \in Conns |-> 0]
  /\ Clear(Conns)
  /\ pc' = "report"
  /\ UNCHANGED <<ioVars, loopCount, scanVars, reports, held>>

\* Sockets given to select, and those of them a connect is under way on.
Watched    == {j \in Conns : sock[j] = 1 /\ tag[j] # 1}
Connecting == {j \in Watched : tag[j] \in ChkPoint..TimedOut}

\* Some of the watched sockets are writable: connected, or the connect failed.
SelectReturns ==
  /\ pc = "select"
  /\ \E ready \in SUBSET Watched : \E bad \in SUBSET (ready \cap Connecting) :
       /\ sock' = [j \in Conns |-> IF j \in bad THEN 0 ELSE sock[j]]
       /\ tag' = [j \in Conns |-> IF j \in bad THEN WaitTime
                                  ELSE IF j \in ready THEN 1 ELSE tag[j]]
       /\ Clear(bad)
  /\ pc' = "timer"
  /\ UNCHANGED <<ioVars, loopCount, scanVars, reports, held>>

\* Connections that take too long are closed; the others' timers advance.
Timer ==
  /\ pc = "timer"
  /\ LET over == {j \in Conns : sock[j] = 1 /\ tag[j] >= TimedOut} IN
       /\ sock' = [j \in Conns |-> IF j \in over THEN 0 ELSE sock[j]]
       /\ tag' = [j \in Conns |->
                    IF j \in over THEN WaitTime
                    ELSE IF sock[j] = 1 THEN IF tag[j] >= ChkPoint THEN tag[j] + 1 ELSE tag[j]
                    ELSE IF tag[j] > 0 THEN tag[j] - 1 ELSE 0]
       /\ Clear(over)
  /\ pc' = "send"
  /\ UNCHANGED <<ioVars, loopCount, scanVars, reports, held>>

----------------------------------------------------------------------------
(* Sending.  What send accepts reaches the server. *)

Sending(j) == pc = "send" /\ sock[j] = 1 /\ tag[j] = 1 /\ head[j] # tail[j]
First(j)   == queue[j][head[j]]

Told(view, a) == IF a.type = "IO" THEN view \cup {<<a.onu, a.io>>}
                                  ELSE view \ {<<a.onu, a.io>>}

\* Send that takes the newest alarm.
SendNewest(j) ==
  /\ Sending(j)
  /\ tail' = [tail EXCEPT ![j] = (@ + QSize - 1) % QSize]
  /\ seen' = [seen EXCEPT ![j] = Told(@, queue[j][(tail[j] + QSize - 1) % QSize])]
  /\ UNCHANGED <<ioVars, queue, head, netVars, loopCount, pc, scanVars, reports, lost, held>>

\* send_alarmdata sends the oldest alarm.
Send(j) ==
  /\ Sending(j)
  /\ head' = [head EXCEPT ![j] = (@ + 1) % QSize]
  /\ seen' = [seen EXCEPT ![j] = Told(@, First(j))]
  /\ UNCHANGED <<ioVars, queue, tail, netVars, loopCount, pc, scanVars, reports, lost, held>>

\* send_alarmdata finds the buffer full three times and returns 0 all the
\* same, with the alarm sent in part or not at all.
SendGivesUp(j) ==
  /\ Sending(j)
  /\ head' = [head EXCEPT ![j] = (@ + 1) % QSize]
  /\ lost' = lost \cup {j}
  /\ UNCHANGED <<ioVars, queue, tail, netVars, loopCount, pc, scanVars, reports, seen, held>>

\* send_alarmdata returns -1: the alarm stays for the next connection.
SendFails(j) ==
  /\ Sending(j)
  /\ sock' = [sock EXCEPT ![j] = 0]
  /\ tag' = [tag EXCEPT ![j] = 0]
  /\ UNCHANGED <<ioVars, ringVars, loopCount, pc, scanVars, reports, histVars, held>>

PassEnd ==
  /\ pc = "send" /\ \A j \in Conns : ~Sending(j)
  /\ pc' = "report"
  /\ UNCHANGED <<ioVars, ringVars, netVars, loopCount, scanVars, reports, histVars, held>>

Pass ==
  \/ Scan \/ CheckOnu \/ CheckIo \/ CheckIoEnd
  \/ Idling \/ Working
  \/ Connect \/ SelectError \/ SelectReturns \/ Timer
  \/ \E j \in Conns : Send(j) \/ SendGivesUp(j) \/ SendFails(j)
  \/ PassEnd

Next == Pass \/ \E o \in Onus, s \in SUBSET Ios : Report(o, s)

Spec == Init /\ [][Next]_vars

\* The thread runs; nothing is assumed of the network.
FairSpec == Spec /\ WF_vars(Pass)

----------------------------------------------------------------------------
(* Properties. *)

\* A socket is open only while its connect is timed or done: none is kept
\* that no timer closes and nothing is sent on (alarm2Net, tag_tcpsocket).
SocketTimed == \A j \in Conns : sock[j] = 1 => tag[j] = 1 \/ tag[j] \in ChkPoint..TimedOut

\* What is reported as on: inputs of ONU i check_alarm has passed count as new.
Reported == {x \in Onus \X Ios : x[2] \in IF x[1] = i /\ idx > x[2] THEN ioNew[x[1]]
                                                                    ELSE ioState[x[1]]}
\* What server j takes x to be once it has the alarms in its ring.
WillSee(j, x) ==
  LET about == {n \in DOMAIN Pending(j) : <<Pending(j)[n].onu, Pending(j)[n].io>> = x} IN
  IF about = {} THEN x \in seen[j]
  ELSE \E n \in about : /\ \A m \in about : m <= n
                        /\ Pending(j)[n].type = "IO"

\* A server that has missed no alarm and gets those in its ring knows the
\* state of every input, through full and wrapped rings, failed sends and new
\* connections.  A server without an address gets none.
ServerKnows ==
  \A j \in Conns \ lost : \A x \in Onus \X Ios : WillSee(j, x) <=> x \in Reported

\* An input that stays as it is is reported (check_alarm).
EventuallyReported == <>[](ioState = ioNew)

\* When the inputs stay as they are the connections are closed and nothing is
\* left in the rings (the idle branch of alarm2Net), whatever the network does.
EventuallyQuiet == <>[](\A j \in Conns : sock[j] = 0 /\ head[j] = tail[j])

\* "discard the oldest" (proc_alarm.c:312): a ring that is full loses its
\* oldest alarm for the new one and keeps the others.
DiscardsOldest ==
  [][Raising /\ CheckIo => \A j \in Conns :
       LET all == Append(Pending(j), AlarmOf(i, idx)) IN
       Pending(j)' = IF Len(all) < QSize THEN all ELSE Tail(all)]_vars

\* "minum alarm holding time: ALARM_THRESHOLD*CHECK_INTERVAL" (proc_alarm.h:19):
\* an alarm is raised for an input only if that input has differed from the
\* reported state in more than Threshold passes in a row.
HeldLongEnough == Raising => held[<<i, idx>>] > Threshold
=============================================================================
