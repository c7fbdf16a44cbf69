------------------------------ MODULE OnuTree ------------------------------
(***************************************************************************)
(* How the ONUs on the two fibres of an FSA card get into the database       *)
(* (FSA/fsalib.c, EmsAgent/alarm_proc.c).                                    *)
(*                                                                          *)
(* On the card, one thread (handle_onulist) reads every 50 ms which ONUs    *)
(* answer on each fibre and keeps ONUStatusList; another (handle_fifomsg)   *)
(* takes the messages of the ONUs, with their serial number and name.  Both *)
(* put alarms into one short queue.  The agent polls the queue, and when an *)
(* alarm says that the list has changed it reads the list and writes it to  *)
(* the table ONUList, from which the pages are built.                        *)
(*                                                                          *)
(* Left out: which ONU a ring alarm names, the alarm table, and the DSN.    *)
(***************************************************************************)
EXTENDS Integers, Sequences, FiniteSets

CONSTANTS Onus,       \* ids of ONUs
          Layouts,    \* which ONUs may answer on fibre 1 and on fibre 2
          Start,      \* and which do when the card starts
          Sns, Names, \* serial numbers and names
          Blank,      \* the name of an ONU that has not told it
          NoRow,      \* an ONU that is not in the table
          MaxQueue,   \* length of the alarm queue (99 of MAX_ALARM_QUEUE_LEN)
          MaxTake,    \* most alarms one answer takes (49, see getAlarm)
          MaxError,   \* MAX_ONULIST_ERROR
          MaxEvents   \* bound: changes outside, restarts, lost answers

Nets   == {"INVALIDE", "NEAREND", "FAREND", "RING", "RING_O1D", "RING_O2D"}
Maps   == [{1, 2} -> SUBSET Onus]
Entry  == [state : {"NOTUSE", "ONLINE", "OFFLINE"}, net : Nets, sn : Sns \cup {0},
           name : Names \cup {Blank}]

ASSUME OnuTreeAssumption ==
  /\ Onus \subseteq Nat /\ Onus # {}
  /\ Layouts \subseteq Maps /\ Start \subseteq Layouts
  /\ NoRow \notin Entry
  /\ Onus \subseteq Sns /\ Names # {}
  /\ MaxQueue \in Nat \ {0} /\ MaxTake \in Nat \ {0} /\ MaxError \in Nat \ {0}
  /\ MaxEvents \in Nat

Row == {e \in Entry : e.state # "NOTUSE"} \cup {NoRow}

\* Alarms after which the agent reads the list; they also set reduce_flag.
ListAlarms == {"ONUONLINE", "ONUOFFLINE", "RINGFAILURE", "RINGRESTORE", "RINGBROKEN",
               "LINKBROKEN", "LINKRESTORE", "ONUNAMECHG"}
Alarm == [type : ListAlarms \cup {"ONUSNCHG", "OTHER"}, node : Onus \cup {0}, sn : Sns \cup {0}]

VARIABLES
  fib, hw,  \* outside: the ONUs on each fibre; the serial number and name each has
  lpc,      \* where handle_onulist is
  sys, now, \* the ONUs it has read: on any fibre, on each fibre
  prev,     \* what it read when it last changed the topology
  todo,     \* ONUs whose state it has still to change
  say,      \* alarms it has still to raise
  ring,     \* ringState
  errMap, errCount, \* the static variables of skip_onulist_err
  list,     \* ONUStatusList
  named, asked,     \* ONUNameUpdatedFlag; ONUs with a name query on the way
  mpc,      \* the alarm handle_fifomsg is about to raise
  overtaken,  \* history: ONUs that have come again before the alarm of their name,
            \* and have not told it since
  queue, reduce,    \* alarm_queue, reduce_flag
  apc,      \* where the agent is
  snap,     \* the list it has been sent
  db,       \* the table ONUList
  missed,   \* cardTOcount
  loss,     \* history: what was lost since it last read the list, see Losses
  streak,   \* history: the last readings in a row that were errMap, up to MaxError
  events    \* how much of the bound is used

outside == <<fib, hw>>
reader  == <<lpc, sys, now, prev, todo, say, ring, errMap, errCount, streak>>
fifo    == <<named, asked, mpc, overtaken>>
alarms  == <<queue, reduce>>
agent   == <<apc, snap, db, missed>>
vars    == <<outside, reader, list, fifo, alarms, agent, loss, events>>

\* An alarm or the list was lost; the card has started again; a full queue has
\* lost an alarm and has not been read since.
Losses == {"none", "lost", "restart", "full"}

Idle == [type |-> "OTHER", node |-> 0, sn |-> 0]

TypeOK ==
  /\ fib \in Maps /\ hw \in [Onus -> [sn : Sns, name : Names]]
  /\ lpc \in {"read", "check", "nodes", "topo", "tell"}
  /\ sys \subseteq Onus /\ now \in Maps /\ prev \in Maps /\ todo \subseteq Onus
  /\ say \in Seq(Alarm) /\ ring \in BOOLEAN
  /\ errMap \in Maps /\ errCount \in 1..MaxError
  /\ list \in [Onus -> Entry] /\ named \subseteq Onus /\ asked \subseteq Onus
  /\ overtaken \subseteq Onus /\ mpc \in Alarm /\ (mpc.type = "ONUNAMECHG" => mpc.node \in Onus)
  /\ queue \in Seq(Alarm) /\ Len(queue) <= MaxQueue /\ reduce \in BOOLEAN
  /\ apc \in {"idle", "polled", "list", "write", "gone"}
  /\ snap \in [Onus -> Row] /\ db \in [Onus -> Row]
  /\ missed \in 0..1 /\ loss \in Losses /\ streak \in 0..MaxError
  /\ events \in 0..MaxEvents

NoMaps == [f \in {1, 2} |-> {}]
Unused == [state |-> "NOTUSE", net |-> "INVALIDE", sn |-> 0, name |-> Blank]

\* The card has started and the agent has just found it (check_cardUP).
Init ==
  /\ fib \in Start /\ hw \in [Onus -> [sn : Sns, name : Names]]
  /\ \A o \in Onus : hw[o].sn = o
  /\ lpc = "read" /\ sys = {} /\ now = NoMaps /\ prev = NoMaps /\ todo = {} /\ say = <<>>
  /\ ring = FALSE /\ errMap = [f \in {1, 2} |-> Onus] /\ errCount = MaxError
  /\ list = [o \in Onus |-> Unused] /\ named = {} /\ asked = {} /\ mpc = Idle
  /\ overtaken = {} /\ queue = <<>> /\ reduce = FALSE
  /\ apc = "list" /\ missed = 0
  /\ snap = [o \in Onus |-> NoRow] /\ db = [o \in Onus |-> NoRow]
  /\ loss = "none" /\ streak = 0 /\ events = 0

----------------------------------------------------------------------------
(* Outside. *)

On(maps) == maps[1] \cup maps[2]

\* Fibres break and are mended, ONUs are switched on and off.  An ONU may be
\* replaced by another with the same id while the card has noticed its absence.
\* A query to an ONU that has gone is not answered.
Fibres(maps, names) ==
  /\ events < MaxEvents /\ maps # fib
  /\ \A o \in Onus : names[o] # hw[o].name => o \notin On(fib) \cup On(prev) \cup On(now)
  /\ fib' = maps
  /\ hw' = [o \in Onus |-> [hw[o] EXCEPT !.name = names[o]]]
  /\ asked' = asked \cap On(maps)
  /\ events' = events + 1
  /\ UNCHANGED <<reader, list, named, mpc, overtaken, alarms, agent, loss>>

\* The ONUs number themselves anew (CMD_FPGA_UPDATESN).
Renumber(o, n) ==
  /\ events < MaxEvents /\ n # hw[o].sn
  /\ hw' = [hw EXCEPT ![o].sn = n]
  /\ events' = events + 1
  /\ UNCHANGED <<fib, reader, list, fifo, alarms, agent, loss>>

----------------------------------------------------------------------------
(* The alarm queue. *)

IsList(a) == a.type \in ListAlarms
Matters(a) == IsList(a) \/ a.type = "ONUSNCHG"

\* Gen that also sets reduce_flag for the alarm of a number.
GenSticky(a) ==
  LET drop == reduce /\ a.type \in {"ONUNAMECHG", "ONUSNCHG"}
      full == Len(queue) = MaxQueue
  IN
  /\ queue' = IF drop THEN queue ELSE Append(IF full THEN Tail(queue) ELSE queue, a)
  /\ loss' = IF ~drop /\ full /\ Matters(Head(queue)) THEN "full" ELSE loss
  /\ reduce' = (reduce \/ (~drop /\ Matters(a)))

\* gen_fsa_alarm.  A change of name or number is not queued while an alarm
\* after which the list is read is; a full queue loses its oldest alarm.
Gen(a) ==
  LET drop == reduce /\ a.type \in {"ONUNAMECHG", "ONUSNCHG"}
      full == Len(queue) = MaxQueue
  IN
  /\ queue' = IF drop THEN queue ELSE Append(IF full THEN Tail(queue) ELSE queue, a)
  /\ loss' = IF ~drop /\ full /\ Matters(Head(queue)) THEN "full" ELSE loss
  /\ reduce' = (reduce \/ (~drop /\ IsList(a)))

\* Alarms of inputs and ports, which do not concern the list.
OtherAlarm ==
  /\ events < MaxEvents /\ events' = events + 1
  /\ Gen(Idle)
  /\ UNCHANGED <<outside, reader, list, fifo, agent>>

----------------------------------------------------------------------------
(* The thread that reads the fibres (handle_onulist). *)

\* A round begins: check_dsn_and_name asks again for the names that are not
\* known (every tenth round); FPGA_GET_SYS_MAP and FPGA_FIBER0_OUN.
ReadSys ==
  /\ lpc = "read"
  /\ asked' = asked \cup {o \in On(fib) \ named : list[o].state = "ONLINE"}
  /\ sys' = On(fib) /\ now' = [now EXCEPT ![1] = fib[1]]
  /\ lpc' = "check"
  /\ UNCHANGED <<outside, prev, todo, say, ring, errMap, errCount, streak, list, named, mpc,
                 overtaken, alarms, agent, loss, events>>

\* The maps are of a ring open in one direction, which is doubted at first.
OneWay(m) == m[1] # m[2] /\ m[1] \cap m[2] # {}

\* The ONUs whose state has to change.
Changed(s) == {o \in Onus : (o \in s) # (list[o].state = "ONLINE")} \ {o \in Onus \ s : list[o].state = "NOTUSE"}

\* The next round; what was read is forgotten.
Again == lpc' = "read" /\ sys' = {} /\ now' = NoMaps

\* The maps are believed: first the states, then the topology.
Believe(m) ==
  IF sys # On(prev)
  THEN lpc' = "nodes" /\ now' = m /\ todo' = Changed(sys) /\ UNCHANGED sys
  ELSE IF m # prev
  THEN lpc' = "topo" /\ now' = m /\ UNCHANGED <<sys, todo>>
  ELSE Again /\ UNCHANGED todo

\* FPGA_FIBER1_OUN, the test that the three readings agree, and
\* skip_onulist_err: a ring open in one direction must be read MaxError times.
Check ==
  LET m    == [now EXCEPT ![2] = fib[2]]
      same == errMap = m
  IN
  /\ lpc = "check"
  /\ \/ /\ sys # On(m)
        /\ Again /\ UNCHANGED <<todo, errMap, errCount>>
     \/ /\ sys = On(m) /\ ~OneWay(m)
        /\ Believe(m) /\ UNCHANGED <<errMap, errCount>>
     \/ /\ sys = On(m) /\ OneWay(m)
        /\ errMap' = m
        /\ errCount' = IF same /\ errCount > 1 THEN errCount - 1 ELSE MaxError
        /\ IF same /\ errCount = 1 THEN Believe(m) ELSE Again /\ UNCHANGED todo
  /\ streak' = IF sys # On(m) THEN streak ELSE IF m # errMap' THEN 0 ELSE IF ~same THEN 1
                ELSE IF streak < MaxError THEN streak + 1 ELSE streak
  /\ UNCHANGED <<outside, prev, say, ring, list, fifo, alarms, agent, loss, events>>

\* processONUNodes for one ONU, under mtx_onulist for all of them.  One that
\* has come has no name yet and is asked for it.
Nodes ==
  /\ lpc = "nodes"
  /\ \E o \in todo :
       /\ \A k \in todo : o <= k
       /\ todo' = todo \ {o}
       /\ IF o \in sys
          THEN /\ list' = [list EXCEPT ![o].state = "ONLINE", ![o].sn = o, ![o].name = Blank]
               /\ named' = named \ {o} /\ asked' = asked \cup ({o} \cap On(fib))
               /\ overtaken' = IF mpc.type = "ONUNAMECHG" /\ mpc.node = o
                                THEN overtaken \cup {o} ELSE overtaken
               /\ Gen([type |-> "ONUONLINE", node |-> 0, sn |-> 0])
          ELSE /\ list' = [list EXCEPT ![o].state = "OFFLINE"]
               /\ Gen([type |-> "ONUOFFLINE", node |-> 0, sn |-> 0])
               /\ UNCHANGED <<named, asked, overtaken>>
  /\ UNCHANGED <<outside, lpc, sys, now, prev, say, ring, errMap, errCount, streak, mpc,
                 agent, events>>

\* The state of an ONU changes only when a fibre's map has.
NodesDone ==
  /\ lpc = "nodes" /\ todo = {}
  /\ lpc' = "topo"
  /\ UNCHANGED <<outside, sys, now, prev, todo, say, ring, errMap, errCount, streak, list,
                 fifo, alarms, agent, loss, events>>

\* The network_state processONUTopo gives an ONU that had net.
NetOf(o, m, net) ==
  IF m[1] = m[2] /\ m[1] # {}
  THEN IF o \in m[1] THEN "RING" ELSE net
  ELSE IF m[1] \cap m[2] # {}
  THEN IF m[2] \subseteq m[1]
       THEN IF o \notin m[1] THEN net ELSE IF o \in m[2] THEN "RING" ELSE "RING_O1D"
       ELSE IF o \notin m[2] THEN net ELSE IF o \in m[1] THEN "RING" ELSE "RING_O2D"
  ELSE IF o \in m[1] THEN "NEAREND" ELSE IF o \in m[2] THEN "FAREND" ELSE "INVALIDE"

NetAlarm(type) == [type |-> type, node |-> 0, sn |-> 0]

\* What one fibre's change is called when there is no ring.
LinkAlarm(f) ==
  IF now[f] = prev[f] THEN <<>>
  ELSE << NetAlarm(IF prev[f] \ now[f] # {} THEN "LINKBROKEN" ELSE "LINKRESTORE") >>

\* processONUTopo up to its alarms; the network states change under mtx_onulist.
Topo ==
  /\ lpc = "topo"
  /\ list' = [o \in Onus |-> [list[o] EXCEPT !.net = NetOf(o, now, @)]]
  /\ LET open == now[1] \cap now[2] = {} IN
       /\ ring' = ~open
       /\ say' = IF now[1] = now[2] /\ ~open THEN << NetAlarm("RINGRESTORE") >>
                 ELSE IF ~open THEN << NetAlarm("RINGFAILURE") >>
                 ELSE IF ring THEN << NetAlarm("RINGBROKEN"), NetAlarm("RINGBROKEN") >>
                 ELSE LinkAlarm(1) \o LinkAlarm(2)
  /\ lpc' = "tell"
  /\ UNCHANGED <<outside, sys, now, prev, todo, errMap, errCount, streak, fifo, alarms, agent,
                 loss, events>>

\* Tell that keeps what the fibres are at the end.
TellRereading ==
  /\ lpc = "tell" /\ say # <<>>
  /\ Gen(Head(say))
  /\ say' = Tail(say)
  /\ IF Tail(say) = <<>> THEN Again /\ prev' = fib ELSE UNCHANGED <<lpc, sys, now, prev>>
  /\ UNCHANGED <<outside, todo, ring, errMap, errCount, streak, list, fifo, agent,
                 events>>

\* Its alarms, one by one; then fibermap1Prev and fibermap2Prev follow.
Tell ==
  /\ lpc = "tell" /\ say # <<>>
  /\ Gen(Head(say))
  /\ say' = Tail(say)
  /\ IF Tail(say) = <<>> THEN Again /\ prev' = now ELSE UNCHANGED <<lpc, sys, now, prev>>
  /\ UNCHANGED <<outside, todo, ring, errMap, errCount, streak, list, fifo, agent,
                 events>>

----------------------------------------------------------------------------
(* The thread that takes the messages of the ONUs (handle_fifomsg). *)

\* A message has another serial number than the list.
SnSeen(o) ==
  /\ mpc = Idle /\ o \in On(fib) /\ list[o].sn # hw[o].sn
  /\ list' = [list EXCEPT ![o].sn = hw[o].sn]
  /\ mpc' = [type |-> "ONUSNCHG", node |-> o, sn |-> hw[o].sn]
  /\ UNCHANGED <<outside, reader, named, asked, overtaken, alarms, agent, loss, events>>

\* The answer to a name query (process_msg_fpga); its serial number has been
\* looked at before.
NameSeen(o) ==
  /\ mpc = Idle /\ o \in asked /\ list[o].sn = hw[o].sn
  /\ asked' = asked \ {o} /\ overtaken' = overtaken \ {o}
  /\ IF list[o].name = hw[o].name
     THEN named' = named \cup {o} /\ UNCHANGED <<list, mpc>>
     ELSE /\ list' = [list EXCEPT ![o].name = hw[o].name]
          /\ mpc' = [type |-> "ONUNAMECHG", node |-> o, sn |-> 0]
          /\ UNCHANGED named
  /\ UNCHANGED <<outside, reader, alarms, agent, loss, events>>

\* The alarm follows the change, and ONUNameUpdatedFlag the alarm.
Raise ==
  /\ mpc # Idle
  /\ Gen(mpc)
  /\ mpc' = Idle
  /\ named' = IF mpc.type = "ONUNAMECHG" THEN named \cup {mpc.node} ELSE named
  /\ UNCHANGED <<outside, reader, list, asked, overtaken, agent, events>>

----------------------------------------------------------------------------
(* The agent. *)

\* getAlarm finds alarm_wait_flag 0, which is set while the list is worked on.
Poll ==
  /\ apc = "idle" /\ (lpc \in {"read", "check"} \/ (lpc \in {"topo", "tell"} /\ sys = On(prev)))
  /\ apc' = "polled"
  /\ UNCHANGED <<outside, reader, list, fifo, alarms, snap, db, missed, loss, events>>

\* What one answer takes; the flag goes with the first alarm.
Taken == SubSeq(queue, 1, IF Len(queue) < MaxTake THEN Len(queue) ELSE MaxTake)
Left  == SubSeq(queue, Len(Taken) + 1, Len(queue))

\* The numbers a batch of alarms tells, in their order (UpdateOnuListDB_sn).
SetSn(rows, as) ==
  [o \in Onus |->
    LET told == {i \in 1..Len(as) : as[i].type = "ONUSNCHG" /\ as[i].node = o}
        last == {i \in told : \A k \in told : k <= i}
    IN IF rows[o] = NoRow \/ last = {} THEN rows[o]
       ELSE [rows[o] EXCEPT !.sn = as[CHOOSE i \in last : TRUE].sn]]

\* The alarms arrive and check_cardAlarms goes through them; the list is read
\* once for all.
Take ==
  /\ apc = "polled"
  /\ queue' = Left /\ reduce' = (reduce /\ queue = <<>>)
  /\ loss' = IF queue # <<>> /\ loss = "full" THEN "lost" ELSE loss
  /\ db' = SetSn(db, Taken) /\ missed' = 0
  /\ apc' = IF \E n \in 1..Len(Taken) : IsList(Taken[n]) THEN "list" ELSE "idle"
  /\ UNCHANGED <<outside, reader, list, fifo, snap, events>>

\* They have left the queue but the answer is lost.  A card that does not
\* answer twice is taken for gone; losses in a row count once for the bound.
TakeLost ==
  /\ apc = "polled" /\ (missed = 1 \/ events < MaxEvents)
  /\ events' = events + 1 - missed
  /\ queue' = Left /\ reduce' = (reduce /\ queue = <<>>)
  /\ loss' = IF queue # <<>> /\ (loss = "full" \/ \E i \in 1..Len(Taken) : Matters(Taken[i]))
             THEN "lost" ELSE loss
  /\ IF missed = 1 THEN apc' = "gone" /\ missed' = 0 ELSE apc' = "idle" /\ missed' = 1
  /\ UNCHANGED <<outside, reader, list, fifo, snap, db>>

\* getONUList under mtx_onulist: the ONUs that are on line.
ReadList ==
  /\ apc = "list" /\ lpc # "nodes"
  /\ snap' = [o \in Onus |-> IF list[o].state = "ONLINE" THEN list[o] ELSE NoRow]
  /\ apc' = "write" /\ loss' = IF loss = "full" THEN "full" ELSE "none"
  /\ UNCHANGED <<outside, reader, list, fifo, alarms, db, missed, events>>

\* WriteList that leaves the ONUs alone that are not listed.
WriteListed ==
  /\ apc = "write"
  /\ db' = [o \in Onus |-> IF snap[o] # NoRow THEN snap[o] ELSE db[o]]
  /\ apc' = "idle" /\ snap' = [o \in Onus |-> NoRow]
  /\ UNCHANGED <<outside, reader, list, fifo, alarms, missed, loss, events>>

\* UpdateOnuListDB.  An ONU that is not listed any more goes off line, or out
\* of the table if there is a ring.
WriteList ==
  /\ apc = "write"
  /\ LET closed == \E o \in Onus : snap[o] # NoRow /\ snap[o].net = "RING" IN
       db' = [o \in Onus |-> IF snap[o] # NoRow THEN snap[o]
                             ELSE IF db[o] = NoRow \/ closed THEN NoRow
                             ELSE [db[o] EXCEPT !.state = "OFFLINE"]]
  /\ apc' = "idle" /\ snap' = [o \in Onus |-> NoRow]
  /\ UNCHANGED <<outside, reader, list, fifo, alarms, missed, loss, events>>

\* The list does not come, comes after its 20 ms, or cannot be written; what
\* UpdateOnuList returns is not looked at.
ListLost ==
  /\ apc \in {"list", "write"} /\ events < MaxEvents /\ events' = events + 1
  /\ apc' = "idle" /\ snap' = [o \in Onus |-> NoRow]
  /\ loss' = IF loss = "full" THEN "full" ELSE "lost"
  /\ UNCHANGED <<outside, reader, list, fifo, alarms, db, missed>>

\* The card is found again (check_cardUP), which reads the list.
CardUp ==
  /\ apc = "gone" /\ apc' = "list"
  /\ UNCHANGED <<outside, reader, list, fifo, alarms, snap, db, missed, loss, events>>

----------------------------------------------------------------------------

\* The card's program is started again (by the watchdog): what it knew and what
\* it had still to tell is gone.
Restart ==
  /\ events < MaxEvents /\ events' = events + 1
  /\ lpc' = "read" /\ sys' = {} /\ now' = NoMaps /\ prev' = NoMaps /\ todo' = {} /\ say' = <<>>
  /\ ring' = FALSE /\ errMap' = [f \in {1, 2} |-> Onus] /\ errCount' = MaxError /\ streak' = 0
  /\ list' = [o \in Onus |-> Unused] /\ named' = {} /\ asked' = {} /\ mpc' = Idle
  /\ overtaken' = {}
  /\ queue' = <<>> /\ reduce' = FALSE /\ loss' = "restart"
  /\ apc' = IF apc = "polled" THEN "idle" ELSE apc
  /\ UNCHANGED <<outside, snap, db, missed>>

Reader == ReadSys \/ Check \/ Nodes \/ NodesDone \/ Topo \/ Tell
Fifo   == Raise \/ \E o \in Onus : SnSeen(o) \/ NameSeen(o)
Agent  == Poll \/ Take \/ TakeLost \/ ReadList \/ WriteList \/ ListLost \/ CardUp

Next ==
  \/ \E maps \in Layouts, names \in [Onus -> Names] : Fibres(maps, names)
  \/ \E o \in Onus, n \in Sns : Renumber(o, n)
  \/ OtherAlarm \/ Restart
  \/ Reader \/ Fifo \/ Agent

Spec == Init /\ [][Next]_vars

\* The threads run and the agent polls; changes and losses need not happen.
Fairness ==
  /\ WF_vars(ReadSys \/ Check \/ Nodes \/ NodesDone \/ Topo \/ Tell)
  /\ WF_vars(Raise) /\ \A o \in Onus : WF_vars(SnSeen(o)) /\ WF_vars(NameSeen(o))
  /\ WF_vars(Poll) /\ WF_vars(Take) /\ WF_vars(CardUp)
  /\ WF_vars(ReadList) /\ WF_vars(WriteList)

FairSpec == Spec /\ Fairness

----------------------------------------------------------------------------
(* Properties. *)

\* The row shows the entry, but for its number.
Shows(row, e) ==
  IF e.state = "ONLINE" THEN row # NoRow /\ row.state = "ONLINE" /\ row.net = e.net /\ row.name = e.name
  ELSE row = NoRow \/ row.state = "OFFLINE"

\* The agent is going to read the list: it is about to, or will take an alarm
\* that says so.
WillRead ==
  \/ apc = "list"
  \/ IsList(mpc)
  \/ say # <<>>
  \/ \E i \in 1..Len(queue) : IsList(queue[i])

\* Whenever the table does not show the card's list, the agent has the list in
\* its hands or will read it again, unless an alarm or the list was lost since
\* it last read it: reduce_flag loses no change, and no change of the list
\* between the reading and the writing is overlooked (gen_fsa_alarm,
\* processONUNodes, processONUTopo, check_cardAlarms, UpdateOnuList).
TreeFollows ==
  loss # "none" \/ WillRead \/ \A o \in Onus :
    IF apc = "write"
    THEN Shows(snap[o], list[o])
    ELSE Shows(db[o], list[o])

\* Nothing is going on.
Calm == lpc = "read" /\ prev = fib /\ mpc = Idle /\ queue = <<>> /\ apc = "idle"

\* The table tells the truth about the fibres: the ONUs that answer are on line
\* at their place, with their name once they have told it, and no others.
TableTrue ==
  \A o \in Onus :
    IF o \in On(fib)
    THEN /\ db[o] # NoRow /\ db[o].state = "ONLINE"
         /\ \/ OneWay(fib) /\ ~(fib[1] \subseteq fib[2]) /\ ~(fib[2] \subseteq fib[1])
            \/ db[o].net = NetOf(o, fib, "INVALIDE")
         /\ o \in named \ overtaken => db[o].name = hw[o].name
    ELSE db[o] = NoRow \/ db[o].state = "OFFLINE"

\* When nothing is going on the table tells the truth about the fibres, unless
\* an alarm or the list was lost (the whole path from handle_onulist to the
\* table ONUList).
CalmIsTrue == Calm /\ loss = "none" => TableTrue

\* When the fibres come to rest, the table ends up telling the truth with all
\* names, or a loss has left it stale.
TreeCatchesUp == <>[](loss # "none" \/ (TableTrue /\ On(fib) \subseteq named))

\* What fsalib.c:853 says: a ring open in one direction is believed after
\* MAX_ONULIST_ERROR readings of the same error.
SameErrorEnsured == lpc \in {"nodes", "topo"} /\ OneWay(now) => streak >= MaxError

\* What two threads that write node_sn spoil: a number that processONUNodes
\* overwrites between the change of it by handle_fifomsg and its alarm.
NumberTrue ==
  Calm /\ loss = "none" => \A o \in On(fib) : list[o].sn = hw[o].sn => db[o].sn = hw[o].sn

\* What a restart of the card's program spoils: ONUs that went in the meantime
\* are not missed by it, and the table of a calm system still has them.
RestartIsHarmless == Calm /\ loss \in {"none", "restart"} => TableTrue

\* What ONUNameUpdatedFlag says (fsalib.c:974, "name updated").
NamedIsKnown ==
  Calm /\ loss = "none" => \A o \in On(fib) \cap named : db[o].name = hw[o].name
=============================================================================
