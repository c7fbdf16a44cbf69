---------------------------- MODULE CardSettings ----------------------------
(***************************************************************************)
(* The settings of FE8 and FSA600 cards (EmsAgent/message_proc.c,            *)
(* EmsAgent/card_mgmt.c).                                                    *)
(*                                                                          *)
(* Such a card starts with settings of its own.  Those that pages have made *)
(* are in three places: in the card, in the memory of the agent (FE8Card),  *)
(* and in tables of the configuration database, from which the agent sends  *)
(* them again to a card it finds (check_cardUP).  A request is a few steps: *)
(* an exchange with the card on the RS485 bus, a change of the memory, a    *)
(* change of a table, the answer to the page.  The order differs from       *)
(* request to request, and so does what a failed step does to the later     *)
(* ones.  Between two steps the card may be pulled out and the agent may be *)
(* killed.                                                                   *)
(*                                                                          *)
(* One slot is modelled.  A unit is a port of the FE8 card, the port of the *)
(* FSA600 card or the remote converter at its fibre.  Its setting has two   *)
(* parts: of an FE8 port the admin state and the rest (mode, bandwidth,     *)
(* address), of the FSA600 port the two directions, of the remote converter *)
(* the transmit and the work modes.                                         *)
(***************************************************************************)
EXTENDS Integers, Sequences

CONSTANTS PortNos,     \* the ports of an FE8 card, one after the other (8)
          Values,      \* settings that pages make
          Fresh,       \* what a card starts with, or sets by default
          NoRow,
          MaxRequests, \* bound: requests of pages
          MaxPulls,    \* bound: cards pulled out
          MaxFaults    \* bound: failures of the bus, the database and the agent

Bit   == 0..1
Unset == 2
Ports == {PortNos[i] : i \in DOMAIN PortNos}
Value == Bit \X Bit
Far   == {"local", "remote"}
Units == Ports \cup Far
Parts == (Units \X {1, 2}) \ {<<"local", 2>>}   \* see DownKept

ASSUME CardSettingsAssumption ==
  /\ PortNos \in Seq(Ports) /\ Ports \cap (Far \cup {"all"}) = {}
  /\ Values \subseteq Value /\ Fresh \in Value /\ NoRow \notin [v : Value, flag : {1, 2}]
  /\ MaxRequests \in Nat /\ MaxPulls \in Nat /\ MaxFaults \in Nat

Types      == {"FE8", "FSA600", "FSA"}
UnitsOf(t) == IF t = "FE8" THEN Ports ELSE IF t = "FSA600" THEN Far ELSE {}
Of(u)      == IF u = "all" THEN Ports ELSE {u}
Codes      == {"C_FE8_SET", "C_FE8_PORT_GET", "C_ETHER_SET", "C_CARD_SET", "C_ONU_SET",
               "C_FSA600_SET", "C_FSA600_SETRMT", "C_FSA600_SETDFT", "C_FSA600_SETDFTRMT"}

VARIABLES
  slot, has,    \* the card in the slot and its settings
  known,        \* cardData[].card_type
  cache,        \* FE8Card
  base, row,    \* FE8Card (the table); FE8CardPort, FSA600, ONU100
  job, todo,    \* what the agent is doing and the steps it has left
  rsp,          \* no step it depends on has failed
  late,         \* an answer that came after the agent had stopped waiting, or None
  replied,      \* history: the page has got a good answer
  hurt, saved,  \* history: units a step of the job failed for; was saved for
  wanted,       \* history: what pages were told their settings are
  untrue,       \* history: parts whose row may be different from that
  synced,       \* history: units that should be the same in all places
  used          \* how much of the bounds is used

agent   == <<known, cache, job, todo, rsp>>
tables  == <<base, row>>
history == <<replied, hurt, saved, wanted, untrue, synced>>
vars    == <<slot, has, agent, tables, late, history, used>>

NoJob == [code |-> "none", u |-> "all", v |-> <<0, 0>>]
None  == [kind |-> "none", ok |-> FALSE, v |-> <<0, 0>>]
Step  == [op : {"tell", "default", "fetch", "cache", "admin", "reply", "save", "mark", "unmark",
                "name", "base", "nobase", "norows", "pass"},
          u : Units \cup {"all"}, v : Value, if : BOOLEAN]

TypeOK ==
  /\ slot \in Types \cup {"none"} /\ has \in [Units -> Value]
  /\ known \in Types \cup {"none"} /\ cache \in [Ports -> Value]
  /\ base \in BOOLEAN /\ row \in [Units -> [v : Value, flag : {1, 2}] \cup {NoRow}]
  /\ job \in [code : Codes \cup {"none", "config"}, u : Units \cup {"all"}, v : Value]
  /\ todo \in Seq(Step) /\ rsp \in BOOLEAN
  /\ late \in [kind : {"none", "set", "port"}, ok : BOOLEAN, v : Value]
  /\ replied \in BOOLEAN /\ hurt \subseteq Units /\ saved \subseteq Units
  /\ wanted \in [Units \X {1, 2} -> Bit \cup {Unset}]
  /\ untrue \subseteq Units \X {1, 2} /\ synced \subseteq Units
  /\ used \in [req : 0..MaxRequests, pull : 0..MaxPulls, fault : 0..MaxFaults]

Init ==
  /\ slot \in Types /\ has = [u \in Units |-> Fresh]
  /\ known = "none" /\ cache = [p \in Ports |-> <<0, 0>>]
  /\ base = FALSE /\ row = [u \in Units |-> NoRow]
  /\ job = NoJob /\ todo = <<>> /\ rsp = TRUE /\ late = None
  /\ replied = FALSE /\ hurt = {} /\ saved = {}
  /\ wanted = [x \in Units \X {1, 2} |-> Unset] /\ untrue = {} /\ synced = {}
  /\ used = [req |-> 0, pull |-> 0, fault |-> 0]

Use(what, max) == used[what] < max /\ used' = [used EXCEPT ![what] = @ + 1]
Fault          == Use("fault", MaxFaults)

----------------------------------------------------------------------------
(* Requests.  A step with "if" is left out when rsp says that one has        *)
(* failed.                                                                   *)

Do(op, u, v)     == [op |-> op, u |-> u, v |-> v, if |-> FALSE]
IfOk(op, u, v)   == [op |-> op, u |-> u, v |-> v, if |-> TRUE]
EachPort(op, v)  == [i \in DOMAIN PortNos |-> IfOk(op, PortNos[i], v)]

\* The handlers of ProcessMsg for an FE8 card.
C_FE8_SET(p, v)   == << Do("cache", p, v), Do("tell", p, v), Do("save", p, v) >>
SetEtherPort(p, v) ==   \* and updateFlag 1
  << Do("tell", p, v), IfOk("cache", p, v), IfOk("reply", p, v), IfOk("save", p, v) >>
SetCardLate(v) ==   \* that changes the memory after it has saved it
  CASE known = "FE8" -> << Do("tell", "all", v), IfOk("base", "all", v) >>
                        \o EachPort("save", v) \o << IfOk("admin", "all", v), IfOk("base", "all", v) >>
    [] known = "FSA600" -> << Do("base", "all", v) >>
    [] OTHER -> <<>>
SetCard(v) ==   \* admin state, then name; an FSA600 card has a name only, an FSA keeps its own
  CASE known = "FE8" -> << Do("tell", "all", v), IfOk("base", "all", v), IfOk("admin", "all", v) >>
                        \o EachPort("save", v) \o << IfOk("base", "all", v) >>
    [] known = "FSA600" -> << Do("base", "all", v) >>
    [] OTHER -> <<>>

\* And for an FSA600 card.
SetFSA600(u, v)        == << Do("tell", u, v), IfOk("save", u, v) >>  \* SetOnu100 is the same
FSA600resetAndDFT(u)   == << Do("default", u, Fresh), IfOk("mark", u, Fresh) >>

Program(code, u, v) ==
  CASE code = "C_FE8_SET"          -> C_FE8_SET(u, v)
    [] code = "C_FE8_PORT_GET"     -> << Do("fetch", u, v) >>
    [] code = "C_ETHER_SET"        -> SetEtherPort(u, v)
    [] code = "C_CARD_SET"         -> SetCard(v)
    [] code = "C_ONU_SET"          -> << Do("name", u, v) >>
    [] code \in {"C_FSA600_SET", "C_FSA600_SETRMT"} -> SetFSA600(u, v)
    [] OTHER                       -> FSA600resetAndDFT(u)

\* What a unit's row says; a row with resetFlag 2 stands for the defaults.
Means(u) == IF row[u] = NoRow \/ row[u].flag = 2 THEN Fresh ELSE row[u].v

\* What a found card is sent, from the tables; a port without a row is passed
\* over.
configFE8Card ==
  IF base THEN [i \in DOMAIN PortNos |->
                 Do(IF row[PortNos[i]] = NoRow THEN "pass" ELSE "tell", PortNos[i], Means(PortNos[i]))]
  ELSE <<>>
RestoreRow(u) ==   \* that does not look at resetFlag
  IF row[u] = NoRow THEN <<>> ELSE SetFSA600(u, row[u].v)
Restore(u) ==
  IF row[u] = NoRow THEN <<>>
  ELSE IF row[u].flag = 2 THEN FSA600resetAndDFT(u) \o << IfOk("unmark", u, Fresh) >>
  ELSE SetFSA600(u, row[u].v)
configFSA600AndRMT(linked) == Restore("local") \o (IF linked THEN Restore("remote") ELSE <<>>)
rmConfigFE8Card == << Do("nobase", "all", Fresh), Do("norows", "all", Fresh) >>

----------------------------------------------------------------------------
(* The agent. *)

\* ProcessMsg takes a request.
Request(code, u, v) ==
  /\ job = NoJob /\ Use("req", MaxRequests)
  /\ job' = [code |-> code, u |-> u, v |-> v] /\ todo' = Program(code, u, v)
  /\ rsp' = TRUE /\ replied' = FALSE /\ hurt' = {} /\ saved' = {}
  /\ UNCHANGED <<slot, has, known, cache, tables, late, wanted, untrue, synced>>

\* check_cardUP finds a card and configures it; FE8Card is filled from the
\* tables, as far as they can be read.
Discover(readable, linked) ==
  /\ job = NoJob /\ known = "none" /\ slot # "none"
  /\ IF readable THEN UNCHANGED used ELSE slot # "FSA" /\ Fault
  /\ known' = slot /\ job' = [NoJob EXCEPT !.code = "config"]
  /\ todo' = IF slot = "FSA" THEN rmConfigFE8Card
             ELSE IF ~readable THEN <<>>
             ELSE IF slot = "FE8" THEN configFE8Card ELSE configFSA600AndRMT(linked)
  /\ cache' = [p \in Ports |-> IF slot # "FE8" THEN cache[p]
                              ELSE IF readable /\ base /\ row[p] # NoRow THEN row[p].v
                              ELSE <<1, cache[p][2]>>]
  /\ rsp' = TRUE /\ replied' = FALSE /\ saved' = {}
  /\ hurt' = IF readable THEN {} ELSE UnitsOf(slot)
  /\ synced' = synced \ UnitsOf(slot)
  /\ UNCHANGED <<slot, has, tables, late, wanted, untrue>>

m == Head(todo)
Ready   == todo # <<>> /\ (m.if => rsp)
Skip    == todo # <<>> /\ (m.op = "pass" \/ (m.if /\ ~rsp)) /\ todo' = Tail(todo)
           /\ UNCHANGED <<slot, has, known, cache, job, rsp, tables, late, history, used>>

\* Exchanges (SetCardFE8, GetCardFE8Port, msg485_sendwaitrsp).
Reaches == m.u \in UnitsOf(slot) \/ (m.u = "all" /\ slot = "FE8")
Kind    == IF m.op = "fetch" THEN "port" ELSE "set"
Own(ok) == [kind |-> Kind, ok |-> ok, v |-> IF m.op = "fetch" THEN has[m.u] ELSE <<0, 0>>]
Obeyed  == [u \in Units |-> IF u \notin Of(m.u) \/ m.op = "fetch" THEN has[u]
                           ELSE IF m.u = "all" THEN <<m.v[1], has[u][2]>> ELSE m.v]

Accept(a) ==
  /\ rsp' = (a.kind = Kind /\ a.ok)
  /\ cache' = IF rsp' /\ m.op = "fetch" THEN [cache EXCEPT ![m.u] = a.v] ELSE cache

\* The card answers in time; it may refuse.  It may be another card, or none.
Heard ==
  /\ late' = None
  /\ \/ Reaches /\ has' = Obeyed /\ Accept(Own(TRUE)) /\ UNCHANGED <<hurt, used>>
     \/ Reaches /\ Fault /\ Accept(Own(FALSE)) /\ hurt' = hurt \cup Of(m.u) /\ UNCHANGED has
     \/ ~Reaches /\ rsp' = FALSE /\ hurt' = hurt \cup Of(m.u) /\ UNCHANGED <<has, cache, used>>

\* Message or answer is lost, or the answer comes too late.
Unheard ==
  /\ Reaches /\ Fault
  /\ \/ has' = has /\ late' = None
     \/ has' = Obeyed /\ late' \in {None, Own(TRUE)}
  /\ rsp' = FALSE /\ hurt' = hurt \cup Of(m.u) /\ UNCHANGED cache

\* The answer that came too late for an earlier message is taken for that of
\* this one, and this one's comes too late.
Mixed ==
  /\ late # None /\ Accept(late)
  /\ IF Reaches THEN has' = Obeyed /\ late' = Own(TRUE) ELSE late' = None /\ UNCHANGED has
  /\ hurt' = hurt \cup Of(m.u) /\ UNCHANGED used

Exchange ==
  /\ Ready /\ m.op \in {"tell", "default", "fetch"}
  /\ todo' = Tail(todo) /\ (Heard \/ Unheard \/ Mixed)
  /\ UNCHANGED <<slot, known, job, tables, replied, saved, wanted, untrue, synced>>

\* The memory, and the answer that does not wait for the table.
Memory ==
  /\ Ready /\ m.op \in {"cache", "admin"} /\ todo' = Tail(todo)
  /\ cache' = [p \in Ports |-> IF m.op = "admin" THEN <<m.v[1], cache[p][2]>>
                              ELSE IF p = m.u THEN m.v ELSE cache[p]]
  /\ UNCHANGED <<slot, has, known, job, rsp, tables, late, history, used>>
Reply(ok) ==
  /\ Ready /\ m.op = "reply" /\ todo' = Tail(todo)
  /\ (ok \/ Fault) /\ (ok => UNCHANGED used) /\ rsp' = ok /\ replied' = ok
  /\ UNCHANGED <<slot, has, known, cache, job, tables, late, hurt, saved, wanted, untrue, synced>>

\* The tables (updateDBFE8Info, updateDBCardadmin, updateDBCardName and the
\* second halves of SetFSA600, SetOnu100, FSA600resetAndDFT, SetOnu).  The
\* column downStream of FSA600 gets upStream.
TableDefault == [v |-> <<1, 1>>, flag |-> 1]
Stored(u) ==
  CASE m.op = "save"   -> IF u \in Ports THEN [v |-> cache[u], flag |-> 1]
                          ELSE [v |-> IF u = "local" THEN <<m.v[1], m.v[1]>> ELSE m.v, flag |-> 1]
    [] m.op = "mark"   -> [IF row[u] = NoRow THEN TableDefault ELSE row[u] EXCEPT !.flag = 2]
    [] m.op = "name"   -> IF row[u] = NoRow THEN TableDefault ELSE row[u]
    [] OTHER           -> NoRow   \* unmark, norows
Database ==
  /\ Ready /\ m.op \in {"save", "mark", "unmark", "name", "base", "nobase", "norows"}
  /\ todo' = Tail(todo)
  /\ base' = ((base /\ m.op # "nobase") \/ m.op = "base")
  /\ row' = [u \in Units |-> IF u \in Of(m.u) /\ m.op \notin {"base", "nobase"}
                            THEN Stored(u) ELSE row[u]]
  /\ saved' = IF m.op \in {"save", "mark"} THEN saved \cup {m.u} ELSE saved
  /\ untrue' = untrue
       \cup (IF m.op = "save" /\ job.code = "C_CARD_SET" /\ m.u \notin synced THEN {<<m.u, 2>>} ELSE {})
       \cup (IF m.op = "name" /\ row[m.u] = NoRow THEN {m.u} \X {1, 2} ELSE {})
  /\ synced' = IF m.op = "norows" THEN synced \ Ports
               ELSE IF m.op = "name" /\ row[m.u] = NoRow THEN synced \ {m.u} ELSE synced
  /\ wanted' = [x \in Units \X {1, 2} |-> IF m.op = "norows" /\ x[1] \in Ports THEN Unset ELSE wanted[x]]
  /\ UNCHANGED <<slot, has, known, cache, job, rsp, late, replied, hurt, used>>

\* The database cannot be opened or written.  C_FE8_SET, and C_ETHER_SET which
\* has answered, only log it.
DatabaseFails ==
  /\ Ready /\ m.op \in {"save", "mark", "unmark", "name", "base", "nobase", "norows"}
  /\ todo' = Tail(todo) /\ Fault
  /\ rsp' = (rsp /\ job.code \in {"C_FE8_SET", "C_ETHER_SET"})
  /\ wanted' = [x \in Units \X {1, 2} |-> IF m.op = "norows" /\ x[1] \in Ports THEN Unset ELSE wanted[x]]
  /\ synced' = IF m.op = "norows" THEN synced \ Ports ELSE synced
  /\ UNCHANGED <<slot, has, known, cache, job, tables, late, replied, hurt, saved, untrue>>

\* What the histories say after a job.  A page was told a setting, or not; a
\* row was changed, or not; both must go together.
Subject == CASE job.code \in {"config", "none", "C_FE8_PORT_GET", "C_ONU_SET"} -> {}
             [] job.code = "C_CARD_SET" -> IF known = "FE8" THEN Ports ELSE {}
             [] OTHER -> {job.u}
Set     == Subject \X (IF job.code = "C_CARD_SET" THEN {1} ELSE {1, 2})
Over(said) ==
  LET good == IF said THEN saved \ hurt ELSE {} IN
  /\ wanted' = [x \in Units \X {1, 2} |-> IF said /\ x \in Set THEN job.v[x[2]] ELSE wanted[x]]
  /\ untrue' = {x \in untrue : ~(x \in Set /\ said /\ x[1] \in saved)}
               \cup {x \in Set : said # (x[1] \in saved)}
  /\ synced' = IF job.code = "config"
               THEN (synced \ hurt) \cup
                    (IF slot = "FE8" THEN {p \in Ports \ hurt : base /\ row[p] # NoRow} ELSE saved \ hurt)
               ELSE (synced \ (hurt \cup (Subject \ good)))
                    \cup (IF job.code = "C_CARD_SET" THEN {} ELSE Subject \cap good)

\* The job is over; the page gets its answer.
End ==
  /\ job # NoJob /\ todo = <<>>
  /\ Over(IF job.code = "C_ETHER_SET" THEN replied ELSE rsp)
  /\ job' = NoJob /\ rsp' = TRUE /\ replied' = FALSE /\ hurt' = {} /\ saved' = {}
  /\ UNCHANGED <<slot, has, known, cache, todo, tables, late, used>>

\* The agent is killed and starts again: it knows no card.
Restart ==
  /\ Fault /\ known # "none"
  /\ IF job.code = "config" THEN UNCHANGED <<wanted, untrue, synced>> ELSE Over(replied)
  /\ known' = "none" /\ cache' = [p \in Ports |-> <<0, 0>>] /\ job' = NoJob /\ todo' = <<>>
  /\ rsp' = TRUE /\ replied' = FALSE /\ hurt' = {} /\ saved' = {}
  /\ UNCHANGED <<slot, has, tables, late>>

----------------------------------------------------------------------------
(* The slot. *)

Pull ==
  /\ slot # "none" /\ Use("pull", MaxPulls) /\ slot' = "none"
  /\ UNCHANGED <<has, agent, tables, late, history>>
\* check_cardAlarms has missed the card often enough.
Notice ==
  /\ job = NoJob /\ known # "none" /\ slot = "none" /\ known' = "none"
  /\ UNCHANGED <<slot, has, cache, job, todo, rsp, tables, late, history, used>>
\* If the agent has not noticed that a card was gone, it does not configure it.
Insert(t) ==
  /\ slot = "none" /\ (known # "none" => t = known)
  /\ slot' = t /\ has' = [u \in Units |-> IF u \in UnitsOf(t) THEN Fresh ELSE has[u]]
  /\ hurt' = IF job = NoJob THEN {} ELSE hurt \cup UnitsOf(t)
  /\ synced' = synced \ UnitsOf(t)
  /\ UNCHANGED <<agent, tables, late, replied, saved, wanted, untrue, used>>

Page ==
  \/ \E code \in {"C_FE8_SET", "C_FE8_PORT_GET"}, p \in Ports, v \in Values : Request(code, p, v)
  \/ \E p \in Ports, v \in Values : known = "FE8" /\ Request("C_ETHER_SET", p, v)
  \/ \E a \in Bit : Request("C_CARD_SET", "all", <<a, a>>)
  \/ \E v \in Values : Request("C_FSA600_SET", "local", v) \/ Request("C_FSA600_SETRMT", "remote", v)
  \/ Request("C_FSA600_SETDFT", "local", Fresh) \/ Request("C_FSA600_SETDFTRMT", "remote", Fresh)
  \/ known = "FSA600" /\ Request("C_ONU_SET", "remote", Fresh)

Agent == Skip \/ Exchange \/ Memory \/ (\E ok \in BOOLEAN : Reply(ok)) \/ Database \/ DatabaseFails \/ End

Next ==
  \/ Page \/ (\E readable, linked \in BOOLEAN : Discover(readable, linked)) \/ Agent \/ Restart
  \/ Pull \/ Notice \/ \E t \in Types : Insert(t)

Spec == Init /\ [][Next]_vars

----------------------------------------------------------------------------
(* Properties. *)

\* The tables have what pages were told their settings are, whatever was
\* refused, lost, pulled out or killed in between; except after a request whose
\* answer and whose row did not go together, and where a row was written from
\* memory that had never been filled (ProcessMsg, SetCard, updateDBFE8Info).
RowsRight ==
  job = NoJob => \A x \in Parts \ untrue : wanted[x] \in {Unset, Means(x[1])[x[2]]}

\* A card that has been configured, and each unit that has been set since, has
\* what the tables and the memory have; except after a failed message, or when
\* the card was exchanged and nobody noticed (configFE8Card,
\* configFSA600AndRMT).
SameEverywhere ==
  job = NoJob /\ slot = known => \A u \in synced \cap UnitsOf(slot) :
    /\ \A i \in {j \in {1, 2} : <<u, j>> \in Parts} : has[u][i] = Means(u)[i]
    /\ u \in Ports => cache[u] = has[u]

\* What the code does not keep.  The downstream setting of an FSA600 card is in
\* its row: it is not, SetFSA600 stores upStream twice.
DownKept ==
  job = NoJob /\ <<"local", 2>> \notin untrue =>
    wanted[<<"local", 2>>] \in {Unset, Means("local")[2]}

\* And an FE8 card that was exchanged has what pages were told, if nothing has
\* failed: it has not if the slot never had a row in FE8Card, which only
\* C_CARD_SET writes, or if the exchange was not noticed.
PortsComeBack ==
  job = NoJob /\ used.fault = 0 /\ slot = "FE8" /\ known = "FE8" =>
    \A p \in Ports, i \in {1, 2} : wanted[<<p, i>>] \in {Unset, has[p][i]}
=============================================================================
