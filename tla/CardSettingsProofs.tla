------------------------- MODULE CardSettingsProofs -------------------------
(***************************************************************************)
(* Proofs about CardSettings, for any ports and values, any pages, and any  *)
(* number of requests, faults, pulls and restarts.                          *)
(*                                                                          *)
(* What the three copies of a setting hold between two jobs follows from    *)
(* what they hold at every step of one, so IInv speaks of the steps still   *)
(* to be taken (todo):                                                      *)
(*   JobOK     each is a step of the handler that runs (Shape),             *)
(*   Order     nothing tells or fills a unit whose row has been saved, and  *)
(*             a row is saved with the value the unit was told,             *)
(*   Filled    a unit no step fills any more has its value in memory,       *)
(*   SavedOK   the row of a saved unit is what the page asked for,          *)
(*   Told      a unit whose row is still to be saved is still to be told,   *)
(*             or has been; one that has been saved holds its row; and an   *)
(*             exchange whose outcome is in doubt makes the unit `hurt',    *)
(*   SyncedOK  other units in step are left alone,                          *)
(*   RowsMid   rows have what pages were told, but for those just saved,    *)
(*             which End tells of.                                          *)
(* None of them is inductive alone: a row is right because the step that    *)
(* saves it is the handler's (JobOK), and card and row agree because that   *)
(* step comes after the one that tells the card (Order) and carries the     *)
(* same value.                                                              *)
(***************************************************************************)
EXTENDS CardSettings, TLAPS

\* Two settings with the same value in all parts the unit has.
Alike(u, a, b) == \A i \in {1, 2} : <<u, i>> \in Parts => a[i] = b[i]

\* Requests that set a whole port, the radio of an FSA600, or set it back.
Whole  == {"C_FE8_SET", "C_ETHER_SET"}
Radio  == {"C_FSA600_SET", "C_FSA600_SETRMT"}
Reset  == {"C_FSA600_SETDFT", "C_FSA600_SETDFTRMT"}

\* The steps still to be taken, and what a step does to a unit.
Steps  == {todo[i] : i \in DOMAIN todo}
Tells(s, u)  == s.op \in {"tell", "default"} /\ u \in Of(s.u)
Fills(s, u)  == s.op \in {"cache", "admin"} /\ u \in Of(s.u)
Saves(s, u)  == s.op \in {"save", "mark"} /\ s.u = u

\* What the steps of each request look like: their kinds, the unit and value
\* they carry, and whether they depend on the success of those before.
Shape(s) ==
  /\ job.code # "none"
  /\ s.op \in {"tell", "default"} => ~s.if
  /\ job.code = "config" =>
       /\ known = "FE8" => s.op \in {"pass", "tell"} /\ s.u \in Ports
       /\ known = "FE8" /\ s.op = "tell" => base /\ row[s.u] # NoRow /\ s.v = row[s.u].v
       /\ known = "FSA600" => s.op \in {"tell", "default", "save", "mark", "unmark"} /\ s.u \in Far
       /\ known = "FSA" => s.op \in {"nobase", "norows"} /\ s.u = "all"
       /\ s.op \in {"save", "mark", "unmark"} => Alike(s.u, Means(s.u), s.v)
       /\ s.op \in {"mark", "unmark"} => s.v = Fresh
  /\ job.code = "C_FE8_SET" =>
       s.op \in {"cache", "tell", "save"} /\ s.u = job.u /\ s.v = job.v /\ ~s.if
  /\ job.code = "C_ETHER_SET" =>
       /\ s.op \in {"tell", "cache", "reply", "save"} /\ s.u = job.u /\ s.v = job.v
       /\ s.op # "tell" => s.if
  /\ job.code = "C_FE8_PORT_GET" => s.op = "fetch" /\ s.u = job.u
  /\ job.code = "C_CARD_SET" =>
       /\ s.op \in {"tell", "base", "admin", "save"} /\ s.v = job.v
       /\ s.op # "base" => known = "FE8"
       /\ IF s.op = "save" THEN s.u \in Ports ELSE s.u = "all"
       /\ known = "FE8" /\ s.op # "tell" => s.if
  /\ job.code = "C_ONU_SET" => s.op = "name" /\ s.u = "remote"
  /\ job.code \in Radio => s.op \in {"tell", "save"} /\ s.u = job.u /\ s.v = job.v
  /\ job.code \in Reset => s.op \in {"default", "mark"} /\ s.u = job.u /\ s.v = Fresh

\* Every step of a job is one of its handler, and the job fits what the agent
\* takes the slot for.
JobOK ==
  /\ (job = NoJob) <=> (job.code = "none")
  /\ job = NoJob => todo = <<>> /\ hurt = {} /\ saved = {}
  /\ job.code \in Whole \cup {"C_FE8_PORT_GET"} => job.u \in Ports
  /\ job.code \in Radio \cup Reset => job.u \in Far
  /\ job.code \in Reset => job.v = Fresh
  /\ job.code \in {"C_ETHER_SET"} => known = "FE8"
  /\ job.code = "config" => known # "none"
  /\ known # "none" => slot \in {known, "none"}
  /\ \A p \in Ports : row[p] # NoRow => row[p].flag = 1
  /\ \A s \in Steps : Shape(s)

\* Nothing touches a unit after its row is saved, and it is saved as it was told.
Ordered(s, code) ==
  \A i, j \in DOMAIN s : i < j =>
    /\ s[j].op = "tell" => code \notin {"C_ETHER_SET", "C_CARD_SET"}
    /\ \A u \in Units : Saves(s[i], u) => ~Tells(s[j], u) /\ ~Fills(s[j], u)
    /\ \A u \in Units : Tells(s[i], u) /\ Saves(s[j], u) => s[i].v = s[j].v
Order == Ordered(todo, job.code)

\* Every save of a list of steps comes after a step that tells the unit.
Led(s) ==
  \A i \in DOMAIN s : \A u \in Units : Saves(s[i], u) => \E j \in DOMAIN s : j < i /\ Tells(s[j], u)

\* The job has failed and none of its steps will be taken.
Dead == ~rsp /\ \A s \in Steps : s.if

\* A unit that no step fills any more has its value in the agent's memory.
FilledFor(u) ==
  (\A s \in Steps : ~Fills(s, u)) =>
    /\ job.code \in Whole /\ u = job.u => cache[u] = job.v \/ Dead
    /\ job.code = "C_CARD_SET" /\ known = "FE8" => cache[u][1] = job.v[1] \/ Dead
Filled == \A u \in Ports : FilledFor(u)

\* A unit whose row this job has saved: the row has what the page asked for,
\* and no step touches the unit any more.
SavedFor(u) ==
  /\ job.code = "config" => known = "FSA600" /\ u \in Far
  /\ job.code # "config" => u \in Subject /\ \A i \in {1, 2} : <<u, i>> \in Set \cap Parts => Means(u)[i] = job.v[i]
  /\ u \in Ports => row[u] # NoRow /\ row[u].v = cache[u]
  /\ \A s \in Steps : ~Tells(s, u) /\ ~Fills(s, u)
SavedOK == \A u \in saved : SavedFor(u)

\* A row is only saved once the unit has been told its value.  C_CARD_SET
\* tells one part, the other requests all.
Matches(u, a, b) == IF job.code = "C_CARD_SET" THEN a[1] = b[1] ELSE Alike(u, a, b)
ToldFirst(i, u) ==
  Saves(todo[i], u) => (\E j \in DOMAIN todo : j < i /\ Tells(todo[j], u)) \/ Matches(u, has[u], todo[i].v)
ToldRow(p) ==
  row[p] # NoRow => cache[p] = row[p].v /\ ((\E s \in Steps : Tells(s, p)) \/ has[p] = row[p].v)
Told ==
  /\ \A i \in DOMAIN todo : \A u \in Units \ hurt : ToldFirst(i, u)
  /\ \A u \in saved \ hurt : Matches(u, has[u], Means(u))
  /\ job.code = "config" /\ known = "FE8" /\ base => \A p \in Ports \ hurt : ToldRow(p)

\* What a job does not concern stays as it is: units in step remain so, in the
\* agent's memory and in the card.
InMemory(p) ==
  /\ job.code = "C_CARD_SET" => cache[p][2] = Means(p)[2]
  /\ p \notin Subject /\ (job.code = "C_FE8_PORT_GET" => p \notin hurt) => cache[p] = Means(p)
InCard(u) ==
  /\ job.code = "C_CARD_SET" /\ u \in Ports => has[u][2] = Means(u)[2]
  /\ u \notin Subject => Alike(u, has[u], Means(u))
SyncedOK ==
  /\ known = "FE8" /\ job.code # "config" => \A p \in synced \cap Ports : InMemory(p)
  /\ slot = known => \A u \in (synced \cap UnitsOf(slot)) \ hurt : InCard(u)
  /\ job.code = "config" => synced \cap UnitsOf(known) = {}

\* Tables have what pages were told, but for the rows this job has saved, of
\* which the page is told at the end.
RowsMid == \A x \in Parts \ untrue : (x \in Set /\ x[1] \in saved) \/ wanted[x] \in {Unset, Means(x[1])[x[2]]}

\* The inductive invariant.
IInv == TypeOK /\ JobOK /\ Order /\ Filled /\ SavedOK /\ Told /\ SyncedOK /\ RowsMid

----------------------------------------------------------------------------
LEMMA UnitFacts ==
  /\ "all" \notin Units /\ Ports \cap Far = {} /\ "local" \notin Ports /\ "remote" \notin Ports
  /\ Units = Ports \cup Far /\ Far = {"local", "remote"}
  /\ \A u \in Units : Of(u) = {u}
  /\ Of("all") = Ports
  /\ \A u \in Units : <<u, 1>> \in Parts
  /\ \A u \in Ports : <<u, 2>> \in Parts
  /\ <<"remote", 2>> \in Parts
  /\ \A x \in Parts : x[1] \in Units /\ x[2] \in {1, 2} /\ x = <<x[1], x[2]>>
<1>1. /\ "all" \notin Units /\ Ports \cap Far = {} /\ "local" \notin Ports /\ "remote" \notin Ports
      /\ Units = Ports \cup Far /\ Far = {"local", "remote"}
  BY CardSettingsAssumption DEF CardSettingsAssumption, Units, Far
<1> HIDE DEF Ports
<1>2. (\A u \in Units : Of(u) = {u}) /\ Of("all") = Ports BY <1>1 DEF Of
<1>3. \A u \in Units : <<u, 1>> \in Parts BY <1>1 DEF Parts
<1>4. \A u \in Ports : <<u, 2>> \in Parts BY <1>1 DEF Parts
<1>5. <<"remote", 2>> \in Parts BY <1>1 DEF Parts
<1>6. \A x \in Parts : x[1] \in Units /\ x[2] \in {1, 2} /\ x = <<x[1], x[2]>>
  BY DEF Parts
<1> QED BY <1>1, <1>2, <1>3, <1>4, <1>5, <1>6

\* Values are pairs.
LEMMA ValueFacts ==
  /\ \A a \in Value : a = <<a[1], a[2]>> /\ a[1] \in Bit /\ a[2] \in Bit
  /\ \A a, b \in Bit : <<a, b>> \in Value /\ <<a, b>>[1] = a /\ <<a, b>>[2] = b
  /\ Fresh \in Value /\ \A v \in Values : v \in Value
  BY CardSettingsAssumption DEF CardSettingsAssumption, Value

LEMMA AlikeFacts ==
  ASSUME NEW u \in Units, NEW a \in Value, NEW b \in Value
  PROVE  /\ Alike(u, a, b) => a[1] = b[1]
         /\ Alike(u, a, b) /\ u \in Ports => a = b
         /\ a = b => Alike(u, a, b)
         /\ \A x \in Parts : Alike(u, a, b) /\ x[1] = u => a[x[2]] = b[x[2]]
<1>1. <<u, 1>> \in Parts /\ (u \in Ports => <<u, 2>> \in Parts) BY UnitFacts
<1>2. /\ a = <<a[1], a[2]>> /\ b = <<b[1], b[2]>> BY ValueFacts
<1>3. \A x \in Parts : x[2] \in {1, 2} /\ x = <<x[1], x[2]>> BY UnitFacts
<1> QED BY <1>1, <1>2, <1>3 DEF Alike

\* The first step is done: what is left.
LEMMA Rest ==
  ASSUME todo \in Seq(Step), todo # <<>>, todo' = Tail(todo)
  PROVE  /\ m \in Step /\ m \in Steps /\ m = todo[1] /\ 1 \in DOMAIN todo /\ todo' \in Seq(Step)
         /\ Steps' \subseteq Steps /\ \A s \in Steps : s = m \/ s \in Steps'
         /\ \A i \in DOMAIN todo' : i \in Nat /\ i + 1 \in DOMAIN todo /\ todo'[i] = todo[i + 1] /\ 1 < i + 1
         /\ \A i \in DOMAIN todo : i = 1 \/ (i - 1 \in DOMAIN todo' /\ todo'[i - 1] = todo[i])
         /\ \A i \in DOMAIN todo : i \in Nat
<1> HIDE DEF Step
<1>1. /\ m \in Step /\ m = todo[1] /\ 1 \in DOMAIN todo /\ todo' \in Seq(Step) BY DEF m
<1>2. \A i \in DOMAIN todo' : i \in Nat /\ i + 1 \in DOMAIN todo /\ todo'[i] = todo[i + 1] /\ 1 < i + 1 OBVIOUS
<1>3. \A i \in DOMAIN todo : i = 1 \/ (i - 1 \in DOMAIN todo' /\ todo'[i - 1] = todo[i]) OBVIOUS
<1>4. \A i \in DOMAIN todo : i \in Nat OBVIOUS
<1>5. m \in Steps BY <1>1 DEF Steps
<1>6. Steps' \subseteq Steps
  <2> SUFFICES ASSUME NEW i \in DOMAIN todo' PROVE todo'[i] \in Steps BY DEF Steps
  <2>1. i + 1 \in DOMAIN todo /\ todo'[i] = todo[i + 1] BY <1>2
  <2> QED BY <2>1 DEF Steps
<1>7. \A s \in Steps : s = m \/ s \in Steps' BY <1>1, <1>3 DEF Steps
<1> QED BY <1>1, <1>2, <1>3, <1>4, <1>5, <1>6, <1>7

LEMMA NoSteps ==
  ASSUME todo = <<>>
  PROVE  Steps = {} /\ DOMAIN todo = {}
  BY DEF Steps

----------------------------------------------------------------------------
\* The steps a request starts with.
Legal(code, u, v) ==
  /\ code \in Codes /\ u \in Units \cup {"all"} /\ v \in Value
  /\ code \in Whole \cup {"C_FE8_PORT_GET"} => u \in Ports
  /\ code = "C_ETHER_SET" => known = "FE8"
  /\ code = "C_CARD_SET" => u = "all"
  /\ code = "C_ONU_SET" => u = "remote"
  /\ code \in Radio \cup Reset => u \in Far
  /\ code \in Reset => v = Fresh

LEMMA PageLegal ==
  ASSUME Page
  PROVE  \E code, u, v : Legal(code, u, v) /\ Request(code, u, v)
<1>0. /\ \A p \in Ports : p \in Units /\ p \notin Far
      /\ Far \subseteq Units /\ "local" \in Far /\ "remote" \in Far
      /\ Fresh \in Value /\ (\A v \in Values : v \in Value) /\ \A a \in Bit : <<a, a>> \in Value
  BY UnitFacts, ValueFacts
<1> HIDE DEF Units, Far, Ports, Value
<1> USE <1>0 DEF Legal, Codes, Whole, Radio, Reset
<1>1. CASE \E code \in {"C_FE8_SET", "C_FE8_PORT_GET"}, p \in Ports, v \in Values : Request(code, p, v)
  <2> PICK code \in {"C_FE8_SET", "C_FE8_PORT_GET"}, p \in Ports, v \in Values : Request(code, p, v) BY <1>1
  <2> Legal(code, p, v) OBVIOUS
  <2> QED OBVIOUS
<1>2. CASE \E p \in Ports, v \in Values : known = "FE8" /\ Request("C_ETHER_SET", p, v)
  <2> PICK p \in Ports, v \in Values : known = "FE8" /\ Request("C_ETHER_SET", p, v) BY <1>2
  <2> Legal("C_ETHER_SET", p, v) OBVIOUS
  <2> QED OBVIOUS
<1>3. CASE \E a \in Bit : Request("C_CARD_SET", "all", <<a, a>>)
  <2> PICK a \in Bit : Request("C_CARD_SET", "all", <<a, a>>) BY <1>3
  <2> Legal("C_CARD_SET", "all", <<a, a>>) OBVIOUS
  <2> QED OBVIOUS
<1>4. CASE \E v \in Values : Request("C_FSA600_SET", "local", v) \/ Request("C_FSA600_SETRMT", "remote", v)
  <2> PICK v \in Values : Request("C_FSA600_SET", "local", v) \/ Request("C_FSA600_SETRMT", "remote", v) BY <1>4
  <2> Legal("C_FSA600_SET", "local", v) /\ Legal("C_FSA600_SETRMT", "remote", v) OBVIOUS
  <2> QED OBVIOUS
<1>5. CASE Request("C_FSA600_SETDFT", "local", Fresh)
  <2> Legal("C_FSA600_SETDFT", "local", Fresh) OBVIOUS
  <2> QED BY <1>5
<1>6. CASE Request("C_FSA600_SETDFTRMT", "remote", Fresh)
  <2> Legal("C_FSA600_SETDFTRMT", "remote", Fresh) OBVIOUS
  <2> QED BY <1>6
<1>7. CASE known = "FSA600" /\ Request("C_ONU_SET", "remote", Fresh)
  <2> Legal("C_ONU_SET", "remote", Fresh) OBVIOUS
  <2> QED BY <1>7
<1> QED BY <1>1, <1>2, <1>3, <1>4, <1>5, <1>6, <1>7 DEF Page

LEMMA Joined ==
  ASSUME NEW S, NEW s \in Seq(S), NEW t \in Seq(S)
  PROVE  /\ s \o t \in Seq(S) /\ Len(s) \in Nat /\ Len(t) \in Nat /\ Len(s \o t) = Len(s) + Len(t)
         /\ DOMAIN s = 1..Len(s) /\ DOMAIN t = 1..Len(t) /\ DOMAIN (s \o t) = 1..(Len(s) + Len(t))
         /\ \A i \in DOMAIN (s \o t) :
              \/ i \in DOMAIN s /\ (s \o t)[i] = s[i]
              \/ i > Len(s) /\ i - Len(s) \in DOMAIN t /\ (s \o t)[i] = t[i - Len(s)]
         /\ \A i \in DOMAIN s : i \in Nat /\ i <= Len(s) /\ i \in DOMAIN (s \o t) /\ (s \o t)[i] = s[i]
         /\ \A i \in DOMAIN t : i \in Nat /\ i + Len(s) \in DOMAIN (s \o t) /\ (s \o t)[i + Len(s)] = t[i]
<1>1. /\ s \o t \in Seq(S) /\ Len(s) \in Nat /\ Len(t) \in Nat
      /\ DOMAIN s = 1..Len(s) /\ DOMAIN t = 1..Len(t)
  OBVIOUS
<1>2. Len(s \o t) = Len(s) + Len(t) OBVIOUS
<1>3. DOMAIN (s \o t) = 1..(Len(s) + Len(t)) BY <1>1, <1>2
<1>4. \A i \in 1..(Len(s) + Len(t)) : (s \o t)[i] = IF i <= Len(s) THEN s[i] ELSE t[i - Len(s)] OBVIOUS
<1> QED BY <1>1, <1>2, <1>3, <1>4

LEMMA StepTypes ==
  ASSUME NEW op \in {"tell", "default", "fetch", "cache", "admin", "reply", "save", "mark", "unmark",
                     "name", "base", "nobase", "norows", "pass"},
         NEW u \in Units \cup {"all"}, NEW v \in Value
  PROVE  Do(op, u, v) \in Step /\ IfOk(op, u, v) \in Step
<1> HIDE DEF Units, Value
<1> QED BY DEF Do, IfOk, Step

LEMMA PortsNumbered == \E n \in Nat : DOMAIN PortNos = 1..n
<1>1. PortNos \in Seq(Ports) BY CardSettingsAssumption DEF CardSettingsAssumption
<1> HIDE DEF Ports
<1>2. Len(PortNos) \in Nat /\ DOMAIN PortNos = 1..Len(PortNos) BY <1>1, SMT
<1> QED BY <1>2

LEMMA EachPortType ==
  ASSUME NEW v \in Value
  PROVE  /\ EachPort("save", v) \in Seq(Step)
         /\ \A i \in DOMAIN EachPort("save", v) :
              \E p \in Ports : EachPort("save", v)[i] = IfOk("save", p, v)
<1>0. \E n \in Nat : DOMAIN PortNos = 1..n BY PortsNumbered
<1>1. \A i \in DOMAIN PortNos : PortNos[i] \in Ports BY Zenon DEF Ports
<1>2. ASSUME NEW i \in DOMAIN PortNos PROVE IfOk("save", PortNos[i], v) \in Step
  <2>1. PortNos[i] \in Units \cup {"all"} BY <1>1, UnitFacts
  <2> QED BY <2>1, StepTypes
<1> HIDE DEF IfOk, Step, Ports
<1> QED BY <1>0, <1>1, <1>2 DEF EachPort

\* What the steps of a job have when it starts.
Fills0(code, u, s) ==
  \A p \in Ports : (code \in Whole /\ p = u) \/ (code = "C_CARD_SET" /\ known = "FE8")
                  => \E i \in DOMAIN s : Fills(s[i], p)
Shaped(s, code, u, v) ==
  /\ code # "none" /\ code # "config"
  /\ s.op \in {"tell", "default"} => ~s.if
  /\ code = "C_FE8_SET" => s.op \in {"cache", "tell", "save"} /\ s.u = u /\ s.v = v /\ ~s.if
  /\ code = "C_ETHER_SET" =>
       s.op \in {"tell", "cache", "reply", "save"} /\ s.u = u /\ s.v = v /\ (s.op # "tell" => s.if)
  /\ code = "C_FE8_PORT_GET" => s.op = "fetch" /\ s.u = u
  /\ code = "C_CARD_SET" =>
       /\ s.op \in {"tell", "base", "admin", "save"} /\ s.v = v
       /\ s.op # "base" => known = "FE8"
       /\ IF s.op = "save" THEN s.u \in Ports ELSE s.u = "all"
       /\ known = "FE8" /\ s.op # "tell" => s.if
  /\ code = "C_ONU_SET" => s.op = "name" /\ s.u = "remote"
  /\ code \in Radio => s.op \in {"tell", "save"} /\ s.u = u /\ s.v = v
  /\ code \in Reset => s.op \in {"default", "mark"} /\ s.u = u /\ s.v = Fresh
Start(s, code, u, v) ==
  /\ s \in Seq(Step) /\ Ordered(s, code) /\ Led(s) /\ Fills0(code, u, s)
  /\ \A i \in DOMAIN s : Shaped(s[i], code, u, v)

LEMMA StartCard ==
  ASSUME NEW v \in Value
  PROVE  Start(SetCard(v), "C_CARD_SET", "all", v)
<1> DEFINE T == Do("tell", "all", v)
           B == IfOk("base", "all", v)
           A == IfOk("admin", "all", v)
           E == EachPort("save", v)
           P == << T, B, A >> \o E \o << B >>
<1>0. T \in Step /\ B \in Step /\ A \in Step BY StepTypes
<1>1. CASE known = "FE8"
  <2>1. SetCard(v) = P BY <1>1 DEF SetCard
  <2>2. << T, B, A >> \in Seq(Step) /\ << B >> \in Seq(Step) /\ E \in Seq(Step)
    <3> HIDE DEF T, B, A, E, Step
    <3> QED BY <1>0, EachPortType DEF E
  <2>3. \A i \in DOMAIN E : \E p \in Ports : E[i] = IfOk("save", p, v) BY EachPortType
  <2>4. /\ P \in Seq(Step) /\ DOMAIN P \subseteq Nat
        /\ 1 \in DOMAIN P /\ P[1] = T /\ 2 \in DOMAIN P /\ P[2] = B /\ 3 \in DOMAIN P /\ P[3] = A
        /\ \A i \in DOMAIN P : i >= 1 /\ (i > 3 => P[i] = B \/ \E p \in Ports : P[i] = IfOk("save", p, v))
    <3> HIDE DEF T, B, A, E, Step, IfOk
    <3> DEFINE H == << T, B, A >>
    <3>1. Len(H) = 3 /\ H[1] = T /\ H[2] = B /\ H[3] = A /\ DOMAIN H = 1..3 OBVIOUS
    <3>6. H \in Seq(Step) BY <2>2
    <3> HIDE DEF H
    <3>2. H \o E \in Seq(Step) /\ Len(H \o E) = 3 + Len(E) /\ Len(E) \in Nat
      <4>1. E \in Seq(Step) BY <2>2
      <4>2. /\ H \o E \in Seq(Step) /\ Len(H \o E) = Len(H) + Len(E) /\ Len(E) \in Nat
        BY <3>6, <4>1, Joined, Zenon
      <4> QED BY <3>1, <4>2
    <3>3. /\ P \in Seq(Step) /\ P = (H \o E) \o << B >> /\ DOMAIN P = 1..(Len(E) + 4)
      BY <2>2, <3>1, <3>2, <3>6 DEF H
    <3>4. P[1] = T /\ P[2] = B /\ P[3] = A BY <2>2, <3>1, <3>2, <3>3, <3>6
    <3>5. ASSUME NEW i \in DOMAIN P, i > 3
          PROVE  P[i] = B \/ \E p \in Ports : P[i] = IfOk("save", p, v)
      <4>1. CASE i = Len(E) + 4 BY <4>1, <3>2, <3>3, <2>2
      <4>2. CASE i < Len(E) + 4
        <5>1. i - 3 \in DOMAIN E /\ P[i] = E[i - 3] BY <4>2, <3>1, <3>2, <3>3, <3>5, <3>6, <2>2
        <5> QED BY <5>1, <2>3
      <4> QED BY <4>1, <4>2, <3>3, <3>2
    <3> QED BY <3>2, <3>3, <3>4, <3>5
  <2> HIDE DEF P
  <2>5. /\ T.op = "tell" /\ T.u = "all" /\ T.v = v /\ ~T.if
        /\ B.op = "base" /\ B.u = "all" /\ B.v = v /\ B.if
        /\ A.op = "admin" /\ A.u = "all" /\ A.v = v /\ A.if
        /\ \A p \in Ports : LET s == IfOk("save", p, v) IN s.op = "save" /\ s.u = p /\ s.v = v /\ s.if
    BY DEF Do, IfOk
  <2> HIDE DEF T, B, A, E
  <2>6. \A i \in DOMAIN P :
          \/ i = 1 /\ P[i].op = "tell" /\ P[i].u = "all" /\ P[i].v = v /\ ~P[i].if
          \/ i > 1 /\ P[i].op \in {"base", "admin"} /\ P[i].u = "all" /\ P[i].v = v /\ P[i].if /\ (P[i].op = "admin" => i <= 3)
          \/ i > 3 /\ P[i].op = "save" /\ P[i].u \in Ports /\ P[i].v = v /\ P[i].if
    <3> SUFFICES ASSUME NEW i \in DOMAIN P
                 PROVE  \/ i = 1 /\ P[i].op = "tell" /\ P[i].u = "all" /\ P[i].v = v /\ ~P[i].if
                        \/ i > 1 /\ P[i].op \in {"base", "admin"} /\ P[i].u = "all" /\ P[i].v = v /\ P[i].if /\ (P[i].op = "admin" => i <= 3)
                        \/ i > 3 /\ P[i].op = "save" /\ P[i].u \in Ports /\ P[i].v = v /\ P[i].if
      OBVIOUS
    <3>1. i = 1 \/ i = 2 \/ i = 3 \/ i > 3 BY <2>4
    <3>2. CASE i > 3 BY <3>2, <2>4, <2>5
    <3> QED BY <3>1, <3>2, <2>4, <2>5
  <2>7. \A i \in DOMAIN P : Shaped(P[i], "C_CARD_SET", "all", v) BY <2>6, <1>1 DEF Shaped, Radio, Reset
  <2>8. Ordered(P, "C_CARD_SET") BY <2>6, <2>4 DEF Ordered, Saves, Tells, Fills
  <2>9. Led(P)
    <3> SUFFICES ASSUME NEW i \in DOMAIN P, NEW u \in Units, Saves(P[i], u)
                 PROVE  1 < i /\ Tells(P[1], u)
      BY <2>4 DEF Led
    <3>1. i > 3 /\ u \in Ports BY <2>6 DEF Saves
    <3> QED BY <3>1, <2>4, <2>5, UnitFacts DEF Tells
  <2>10. Fills0("C_CARD_SET", "all", P) BY <2>4, <2>5, UnitFacts DEF Fills0, Fills
  <2> QED BY <2>1, <2>4, <2>7, <2>8, <2>9, <2>10 DEF Start
<1>2. CASE known # "FE8"
  <2> DEFINE D == Do("base", "all", v)
  <2>0. D \in Step /\ D.op = "base" /\ D.u = "all" /\ D.v = v BY StepTypes DEF Do
  <2>1. SetCard(v) = << D >> \/ SetCard(v) = <<>> BY <1>2 DEF SetCard
  <2> HIDE DEF D
  <2>2. SetCard(v) \in Seq(Step)
    <3> HIDE DEF Step
    <3>1. <<>> \in Seq(Step) OBVIOUS
    <3>2. << D >> \in Seq(Step) BY <2>0
    <3> QED BY <2>1, <3>1, <3>2
  <2>3. \A i \in DOMAIN SetCard(v) : i = 1 /\ SetCard(v)[i] = D BY <2>1
  <2>4. \A i \in DOMAIN SetCard(v) : Shaped(SetCard(v)[i], "C_CARD_SET", "all", v)
    BY <2>0, <2>3, <1>2 DEF Shaped, Radio, Reset
  <2>5. Ordered(SetCard(v), "C_CARD_SET") BY <2>3 DEF Ordered
  <2>6. Led(SetCard(v)) BY <2>0, <2>3 DEF Led, Saves
  <2>7. Fills0("C_CARD_SET", "all", SetCard(v)) BY <1>2 DEF Fills0, Whole
  <2> QED BY <2>2, <2>4, <2>5, <2>6, <2>7 DEF Start
<1> QED BY <1>1, <1>2

\* Steps of up to three, of one unit.
LEMMA StartFew ==
  ASSUME NEW code, NEW u, NEW v, Legal(code, u, v), code # "C_CARD_SET"
  PROVE  Start(Program(code, u, v), code, u, v)
<1> DEFINE P == Program(code, u, v)
<1>0. u \in Units \cup {"all"} /\ v \in Value BY DEF Legal
<1>1. CASE code = "C_FE8_SET"
  <2> DEFINE a == Do("cache", u, v)
             b == Do("tell", u, v)
             c == Do("save", u, v)
  <2>1. P = << a, b, c >> BY <1>1 DEF Program, C_FE8_SET
  <2>2. a \in Step /\ b \in Step /\ c \in Step BY <1>0, StepTypes
  <2>3. u \in Ports BY <1>1 DEF Legal, Whole
  <2>4. /\ a.op = "cache" /\ a.u = u /\ a.v = v /\ ~a.if
        /\ b.op = "tell" /\ b.u = u /\ b.v = v /\ ~b.if
        /\ c.op = "save" /\ c.u = u /\ c.v = v /\ ~c.if
    BY DEF Do
  <2> HIDE DEF a, b, c, P
  <2>5. P \in Seq(Step)
    <3> HIDE DEF Step
    <3> QED BY <2>1, <2>2
  <2>6. DOMAIN P = 1..3 /\ P[1] = a /\ P[2] = b /\ P[3] = c BY <2>1
  <2>7. \A i \in DOMAIN P : i = 1 \/ i = 2 \/ i = 3 BY <2>6
  <2>8. \A i \in DOMAIN P : Shaped(P[i], code, u, v)
    BY <2>4, <2>6, <2>7, <1>1 DEF Shaped, Radio, Reset
  <2>9. Ordered(P, code) BY <2>4, <2>6, <2>7, <1>1 DEF Ordered, Saves, Tells, Fills
  <2>10. Led(P) BY <2>4, <2>6, <2>7, UnitFacts DEF Led, Saves, Tells
  <2>11. Fills0(code, u, P) BY <2>3, <2>4, <2>6, <1>1, UnitFacts DEF Fills0, Fills
  <2>12. Start(P, code, u, v) BY <2>5, <2>8, <2>9, <2>10, <2>11 DEF Start
  <2> QED BY <2>12 DEF P
<1>2. CASE code = "C_ETHER_SET"
  <2> DEFINE a == Do("tell", u, v)
             b == IfOk("cache", u, v)
             c == IfOk("reply", u, v)
             d == IfOk("save", u, v)
  <2>1. P = << a, b, c, d >> BY <1>2 DEF Program, SetEtherPort
  <2>2. a \in Step /\ b \in Step /\ c \in Step /\ d \in Step BY <1>0, StepTypes
  <2>3. u \in Ports BY <1>2 DEF Legal, Whole
  <2>4. /\ a.op = "tell" /\ a.u = u /\ a.v = v /\ ~a.if
        /\ b.op = "cache" /\ b.u = u /\ b.v = v /\ b.if
        /\ c.op = "reply" /\ c.u = u /\ c.v = v /\ c.if
        /\ d.op = "save" /\ d.u = u /\ d.v = v /\ d.if
    BY DEF Do, IfOk
  <2> HIDE DEF a, b, c, d, P
  <2>5. P \in Seq(Step)
    <3> HIDE DEF Step
    <3> QED BY <2>1, <2>2
  <2>6. DOMAIN P = 1..4 /\ P[1] = a /\ P[2] = b /\ P[3] = c /\ P[4] = d BY <2>1
  <2>7. \A i \in DOMAIN P : i = 1 \/ i = 2 \/ i = 3 \/ i = 4 BY <2>6
  <2>8. \A i \in DOMAIN P : Shaped(P[i], code, u, v)
    BY <2>4, <2>6, <2>7, <1>2 DEF Shaped, Radio, Reset
  <2>9. Ordered(P, code) BY <2>4, <2>6, <2>7, <1>2 DEF Ordered, Saves, Tells, Fills
  <2>10. Led(P) BY <2>4, <2>6, <2>7, UnitFacts DEF Led, Saves, Tells
  <2>11. Fills0(code, u, P) BY <2>3, <2>4, <2>6, <1>2, UnitFacts DEF Fills0, Fills
  <2>12. Start(P, code, u, v) BY <2>5, <2>8, <2>9, <2>10, <2>11 DEF Start
  <2> QED BY <2>12 DEF P
<1>3. CASE code \in Radio \cup Reset
  <2> DEFINE a == IF code \in Radio THEN Do("tell", u, v) ELSE Do("default", u, Fresh)
             b == IF code \in Radio THEN IfOk("save", u, v) ELSE IfOk("mark", u, Fresh)
  <2>0. Radio \cap Reset = {} /\ Radio \cap Whole = {} /\ Reset \cap Whole = {} BY DEF Radio, Reset, Whole
  <2>1. P = << a, b >> BY <1>3 DEF Program, SetFSA600, FSA600resetAndDFT, Radio, Reset
  <2>2. a \in Step /\ b \in Step BY <1>0, StepTypes, ValueFacts
  <2>3. u \in Far /\ (code \in Reset => v = Fresh) BY <1>3 DEF Legal
  <2>4. /\ a.op = (IF code \in Radio THEN "tell" ELSE "default") /\ a.u = u /\ a.v = v /\ ~a.if
        /\ b.op = (IF code \in Radio THEN "save" ELSE "mark") /\ b.u = u /\ b.v = v /\ b.if
    BY <2>3, <1>3 DEF Do, IfOk
  <2> HIDE DEF a, b, P
  <2>5. P \in Seq(Step)
    <3> HIDE DEF Step
    <3> QED BY <2>1, <2>2
  <2>6. DOMAIN P = 1..2 /\ P[1] = a /\ P[2] = b BY <2>1
  <2>7. \A i \in DOMAIN P : i = 1 \/ i = 2 BY <2>6
  <2>8. \A i \in DOMAIN P : Shaped(P[i], code, u, v)
    BY <2>3, <2>4, <2>6, <2>7, <1>3 DEF Shaped, Radio, Reset
  <2>9. Ordered(P, code)
    <3>1. code \notin {"C_ETHER_SET", "C_CARD_SET"} BY <1>3 DEF Radio, Reset
    <3> QED BY <3>1, <2>4, <2>6, <2>7 DEF Ordered, Saves, Tells, Fills
  <2>10. Led(P) BY <2>3, <2>4, <2>6, <2>7, UnitFacts DEF Led, Saves, Tells
  <2>11. Fills0(code, u, P) BY <1>3 DEF Fills0, Whole, Radio, Reset
  <2>12. Start(P, code, u, v) BY <2>5, <2>8, <2>9, <2>10, <2>11 DEF Start
  <2> QED BY <2>12 DEF P
<1>4. CASE code \in {"C_FE8_PORT_GET", "C_ONU_SET"}
  <2> DEFINE a == Do(IF code = "C_ONU_SET" THEN "name" ELSE "fetch", u, v)
  <2>1. P = << a >> BY <1>4 DEF Program
  <2>2. a \in Step BY <1>0, StepTypes
  <2>3. code = "C_ONU_SET" => u = "remote" BY DEF Legal
  <2>4. a.op = (IF code = "C_ONU_SET" THEN "name" ELSE "fetch") /\ a.u = u BY DEF Do
  <2> HIDE DEF a, P
  <2>5. P \in Seq(Step)
    <3> HIDE DEF Step
    <3> QED BY <2>1, <2>2
  <2>6. DOMAIN P = 1..1 /\ P[1] = a BY <2>1
  <2>7. \A i \in DOMAIN P : i = 1 BY <2>6
  <2>8. \A i \in DOMAIN P : Shaped(P[i], code, u, v)
    BY <2>3, <2>4, <2>6, <2>7, <1>4 DEF Shaped, Radio, Reset
  <2>9. Ordered(P, code) BY <2>7 DEF Ordered
  <2>10. Led(P) BY <2>4, <2>6, <2>7 DEF Led, Saves
  <2>11. Fills0(code, u, P) BY <1>4 DEF Fills0, Whole
  <2>12. Start(P, code, u, v) BY <2>5, <2>8, <2>9, <2>10, <2>11 DEF Start
  <2> QED BY <2>12 DEF P
<1> QED BY <1>1, <1>2, <1>3, <1>4 DEF Legal, Codes, Radio, Reset

LEMMA Started ==
  ASSUME NEW code, NEW u, NEW v, Legal(code, u, v)
  PROVE  Start(Program(code, u, v), code, u, v)
<1>1. CASE code = "C_CARD_SET"
  <2>1. u = "all" /\ v \in Value /\ Program(code, u, v) = SetCard(v) BY <1>1 DEF Legal, Program
  <2> QED BY <2>1, <1>1, StartCard
<1> QED BY <1>1, StartFew

----------------------------------------------------------------------------
\* The steps a found card is configured with.
LEMMA MeansType ==
  ASSUME TypeOK, NEW u \in Units
  PROVE  /\ Means(u) \in Value /\ has[u] \in Value
         /\ row[u] # NoRow => /\ row[u].v \in Value /\ row[u].flag \in {1, 2}
                              /\ row[u].flag = 1 => Means(u) = row[u].v
<1>1. row[u] \in [v : Value, flag : {1, 2}] \cup {NoRow} /\ has[u] \in Value
  <2> HIDE DEF Value
  <2> QED BY DEF TypeOK
<1>2. row[u] # NoRow => row[u].v \in Value /\ row[u].flag \in {1, 2}
  <2> HIDE DEF Value
  <2> QED BY <1>1
<1> HIDE DEF Value
<1> QED BY <1>1, <1>2, ValueFacts DEF Means

Restores(s, u) ==
  /\ s.op \in {"tell", "default", "save", "mark", "unmark"} /\ s.u = u
  /\ s.op \in {"tell", "default"} => ~s.if
  /\ s.op \in {"save", "mark", "unmark"} => Alike(u, Means(u), s.v)
  /\ s.op \in {"mark", "unmark"} => s.v = Fresh

LEMMA Restored ==
  ASSUME TypeOK, NEW u \in Far
  PROVE  /\ Restore(u) \in Seq(Step) /\ Ordered(Restore(u), "config") /\ Led(Restore(u))
         /\ \A i \in DOMAIN Restore(u) : Restores(Restore(u)[i], u)
<1> DEFINE R == Restore(u)
<1>0. u \in Units /\ u \in Units \cup {"all"} /\ Fresh \in Value BY UnitFacts, ValueFacts
<1>1. CASE row[u] = NoRow
  <2>1. R = <<>> BY <1>1 DEF Restore
  <2> HIDE DEF R
  <2>2. R \in Seq(Step)
    <3> HIDE DEF Step
    <3> QED BY <2>1
  <2>3. DOMAIN R = {} BY <2>1
  <2>4. Ordered(R, "config") /\ Led(R) BY <2>3 DEF Ordered, Led
  <2> QED BY <2>2, <2>3, <2>4 DEF R
<1>2. CASE row[u] # NoRow /\ row[u].flag = 2
  <2> DEFINE a == Do("default", u, Fresh)
             b == IfOk("mark", u, Fresh)
             c == IfOk("unmark", u, Fresh)
  <2>1. R = << a, b >> \o << c >> BY <1>2 DEF Restore, FSA600resetAndDFT
  <2>2. a \in Step /\ b \in Step /\ c \in Step BY <1>0, StepTypes
  <2>3. Means(u) = Fresh BY <1>2 DEF Means
  <2>4. /\ a.op = "default" /\ a.u = u /\ a.v = Fresh /\ ~a.if
        /\ b.op = "mark" /\ b.u = u /\ b.v = Fresh /\ b.if
        /\ c.op = "unmark" /\ c.u = u /\ c.v = Fresh /\ c.if
    BY DEF Do, IfOk
  <2> HIDE DEF a, b, c, R
  <2>5. << a, b >> \in Seq(Step) /\ << c >> \in Seq(Step)
    <3> HIDE DEF Step
    <3> QED BY <2>2
  <2>6. R \in Seq(Step) /\ DOMAIN R = 1..3 /\ R[1] = a /\ R[2] = b /\ R[3] = c
    <3> HIDE DEF Step
    <3> QED BY <2>1, <2>5
  <2>7. \A i \in DOMAIN R : i = 1 \/ i = 2 \/ i = 3 BY <2>6
  <2>8. \A i \in DOMAIN R : Restores(R[i], u)
    BY <2>3, <2>4, <2>6, <2>7, <1>0, AlikeFacts DEF Restores
  <2>9. Ordered(R, "config") BY <2>4, <2>6, <2>7 DEF Ordered, Saves, Tells, Fills
  <2>10. Led(R) BY <2>4, <2>6, <2>7, UnitFacts DEF Led, Saves, Tells
  <2> QED BY <2>6, <2>8, <2>9, <2>10 DEF R
<1>3. CASE row[u] # NoRow /\ row[u].flag # 2
  <2> DEFINE a == Do("tell", u, row[u].v)
             b == IfOk("save", u, row[u].v)
  <2>1. R = << a, b >> BY <1>3 DEF Restore, SetFSA600
  <2>0. row[u].v \in Value /\ Means(u) = row[u].v BY <1>0, <1>3, MeansType DEF Means
  <2>2. a \in Step /\ b \in Step BY <1>0, <2>0, StepTypes
  <2>4. /\ a.op = "tell" /\ a.u = u /\ a.v = row[u].v /\ ~a.if
        /\ b.op = "save" /\ b.u = u /\ b.v = row[u].v /\ b.if
    BY DEF Do, IfOk
  <2> HIDE DEF a, b, R
  <2>5. R \in Seq(Step)
    <3> HIDE DEF Step
    <3> QED BY <2>1, <2>2
  <2>6. DOMAIN R = 1..2 /\ R[1] = a /\ R[2] = b BY <2>1
  <2>7. \A i \in DOMAIN R : i = 1 \/ i = 2 BY <2>6
  <2>8. \A i \in DOMAIN R : Restores(R[i], u)
    BY <2>0, <2>4, <2>6, <2>7, <1>0, AlikeFacts DEF Restores
  <2>9. Ordered(R, "config") BY <2>4, <2>6, <2>7 DEF Ordered, Saves, Tells, Fills
  <2>10. Led(R) BY <2>4, <2>6, <2>7, UnitFacts DEF Led, Saves, Tells
  <2> QED BY <2>5, <2>8, <2>9, <2>10 DEF R
<1> QED BY <1>1, <1>2, <1>3

LEMMA FoundFSA600 ==
  ASSUME TypeOK, NEW linked
  PROVE  LET C == configFSA600AndRMT(linked) IN
         /\ C \in Seq(Step) /\ Ordered(C, "config") /\ Led(C)
         /\ \A i \in DOMAIN C : C[i].u \in Far /\ Restores(C[i], C[i].u)
<1> DEFINE C == configFSA600AndRMT(linked)
           L == Restore("local")
           R == IF linked THEN Restore("remote") ELSE <<>>
<1>1. C = L \o R BY DEF configFSA600AndRMT
<1>2. "local" \in Far /\ "remote" \in Far /\ "local" # "remote" BY UnitFacts
<1>3. /\ L \in Seq(Step) /\ Ordered(L, "config") /\ Led(L)
      /\ \A i \in DOMAIN L : Restores(L[i], "local")
  BY <1>2, Restored
<1>4. /\ R \in Seq(Step) /\ Ordered(R, "config") /\ Led(R)
      /\ \A i \in DOMAIN R : Restores(R[i], "remote")
  <2>1. CASE linked BY <2>1, <1>2, Restored
  <2>2. CASE ~linked
    <3>1. R = <<>> /\ DOMAIN R = {} BY <2>2
    <3> HIDE DEF R
    <3>2. R \in Seq(Step)
      <4> HIDE DEF Step
      <4> QED BY <3>1
    <3> QED BY <3>1, <3>2 DEF Ordered, Led
  <2> QED BY <2>1, <2>2
<1> HIDE DEF C, L, R
<1>5. /\ C \in Seq(Step) /\ Len(L) \in Nat
      /\ \A i \in DOMAIN C :
           \/ i \in DOMAIN L /\ C[i] = L[i]
           \/ i > Len(L) /\ i - Len(L) \in DOMAIN R /\ C[i] = R[i - Len(L)]
      /\ \A i \in DOMAIN L : i \in Nat /\ i <= Len(L) /\ i \in DOMAIN C /\ C[i] = L[i]
      /\ \A i \in DOMAIN R : i \in Nat /\ i + Len(L) \in DOMAIN C /\ C[i + Len(L)] = R[i]
      /\ DOMAIN C \subseteq Nat
  <2>1. L \in Seq(Step) /\ R \in Seq(Step) BY <1>3, <1>4
  <2> HIDE DEF Step
  <2>2. DOMAIN C = 1..(Len(L) + Len(R)) /\ Len(L) \in Nat /\ Len(R) \in Nat BY <1>1, <2>1, Joined
  <2> QED BY <1>1, <2>1, <2>2, Joined
<1>6. \A i \in DOMAIN C : C[i].u \in Far /\ Restores(C[i], C[i].u)
  BY <1>2, <1>3, <1>4, <1>5 DEF Restores
<1>7. Ordered(C, "config")
  <2> SUFFICES ASSUME NEW i \in DOMAIN C, NEW j \in DOMAIN C, i < j
               PROVE  /\ \A u \in Units : Saves(C[i], u) => ~Tells(C[j], u) /\ ~Fills(C[j], u)
                      /\ \A u \in Units : Tells(C[i], u) /\ Saves(C[j], u) => C[i].v = C[j].v
    BY DEF Ordered
  <2>1. CASE i \in DOMAIN L /\ j \in DOMAIN L
    BY <2>1, <1>3, <1>5 DEF Ordered
  <2>2. CASE i \in DOMAIN L /\ j > Len(L) /\ j - Len(L) \in DOMAIN R /\ C[j] = R[j - Len(L)]
    <3>1. C[i].u = "local" /\ C[j].u = "remote" BY <2>2, <1>3, <1>4, <1>5 DEF Restores
    <3>2. \A u \in Units : ~(u \in Of("local") /\ u \in Of("remote")) /\ ("local" = u => u \in Of("local"))
                         /\ ("remote" = u => u \in Of("remote"))
      BY <1>2, UnitFacts
    <3> QED BY <3>1, <3>2 DEF Saves, Tells, Fills
  <2>3. CASE i > Len(L) /\ i - Len(L) \in DOMAIN R /\ C[i] = R[i - Len(L)]
    <3>1. j - Len(L) \in DOMAIN R /\ C[j] = R[j - Len(L)] /\ i - Len(L) < j - Len(L)
      BY <2>3, <1>5
    <3> QED BY <2>3, <3>1, <1>4 DEF Ordered
  <2> QED BY <2>1, <2>2, <2>3, <1>5
<1>8. Led(C)
  <2> SUFFICES ASSUME NEW i \in DOMAIN C, NEW u \in Units, Saves(C[i], u)
               PROVE  \E j \in DOMAIN C : j < i /\ Tells(C[j], u)
    BY DEF Led
  <2>1. CASE i \in DOMAIN L /\ C[i] = L[i]
    <3>1. PICK j \in DOMAIN L : j < i /\ Tells(L[j], u) BY <2>1, <1>3 DEF Led
    <3> QED BY <3>1, <1>5
  <2>2. CASE i > Len(L) /\ i - Len(L) \in DOMAIN R /\ C[i] = R[i - Len(L)]
    <3>1. PICK j \in DOMAIN R : j < i - Len(L) /\ Tells(R[j], u) BY <2>2, <1>4 DEF Led
    <3>2. j + Len(L) \in DOMAIN C /\ C[j + Len(L)] = R[j] /\ j + Len(L) < i BY <3>1, <1>5
    <3> QED BY <3>1, <3>2
  <2> QED BY <2>1, <2>2, <1>5
<1> QED BY <1>5, <1>6, <1>7, <1>8 DEF C

LEMMA FaultType ==
  ASSUME TypeOK
  PROVE  /\ Fault => used' \in [req : 0..MaxRequests, pull : 0..MaxPulls, fault : 0..MaxFaults]
         /\ used' = used => used' \in [req : 0..MaxRequests, pull : 0..MaxPulls, fault : 0..MaxFaults]
         /\ Use("req", MaxRequests) => used' \in [req : 0..MaxRequests, pull : 0..MaxPulls, fault : 0..MaxFaults]
         /\ Use("pull", MaxPulls) => used' \in [req : 0..MaxRequests, pull : 0..MaxPulls, fault : 0..MaxFaults]
<1>1. used \in [req : 0..MaxRequests, pull : 0..MaxPulls, fault : 0..MaxFaults] BY DEF TypeOK
<1>2. MaxRequests \in Nat /\ MaxPulls \in Nat /\ MaxFaults \in Nat
  BY CardSettingsAssumption DEF CardSettingsAssumption
<1> QED BY <1>1, <1>2 DEF Fault, Use

LEMMA FoundFE8 ==
  ASSUME TypeOK, JobOK
  PROVE  LET C == configFE8Card IN
         /\ C \in Seq(Step) /\ Ordered(C, "config") /\ Led(C)
         /\ \A i \in DOMAIN C :
              /\ C[i].op \in {"pass", "tell"} /\ C[i].u \in Ports /\ ~C[i].if
              /\ C[i].op = "tell" => base /\ row[C[i].u] # NoRow /\ C[i].v = row[C[i].u].v
         /\ base => \A p \in Ports : row[p] # NoRow => \E i \in DOMAIN C : Tells(C[i], p)
<1> DEFINE C == configFE8Card
<1>1. CASE ~base
  <2>1. C = <<>> /\ DOMAIN C = {} BY <1>1 DEF configFE8Card
  <2> HIDE DEF C
  <2>2. C \in Seq(Step)
    <3> HIDE DEF Step
    <3> QED BY <2>1
  <2>3. Ordered(C, "config") /\ Led(C) BY <2>1 DEF Ordered, Led
  <2> QED BY <1>1, <2>1, <2>2, <2>3 DEF C
<1>2. CASE base
  <2> DEFINE Tell(i) == Do(IF row[PortNos[i]] = NoRow THEN "pass" ELSE "tell", PortNos[i], Means(PortNos[i]))
  <2>0. C = [i \in DOMAIN PortNos |-> Tell(i)] BY <1>2 DEF configFE8Card
  <2>1. \A i \in DOMAIN PortNos : PortNos[i] \in Ports BY Zenon DEF Ports
  <2>2. ASSUME NEW i \in DOMAIN PortNos
        PROVE  /\ Tell(i) \in Step /\ Tell(i).op \in {"pass", "tell"}
               /\ Tell(i).u = PortNos[i] /\ ~Tell(i).if
               /\ Tell(i).op = "tell" <=> row[PortNos[i]] # NoRow
               /\ row[PortNos[i]] # NoRow => Tell(i).v = row[PortNos[i]].v
    <3>1. PortNos[i] \in Ports /\ PortNos[i] \in Units BY <2>1, UnitFacts
    <3>2. Means(PortNos[i]) \in Value BY <3>1, MeansType
    <3>3. Tell(i) \in Step BY <3>1, <3>2, StepTypes
    <3>4. row[PortNos[i]] # NoRow => Means(PortNos[i]) = row[PortNos[i]].v
      BY <3>1, MeansType DEF JobOK
    <3>5. /\ Tell(i).op = (IF row[PortNos[i]] = NoRow THEN "pass" ELSE "tell")
          /\ Tell(i).u = PortNos[i] /\ Tell(i).v = Means(PortNos[i]) /\ ~Tell(i).if
      BY DEF Do
    <3> HIDE DEF Tell
    <3> QED BY <3>3, <3>4, <3>5
  <2> HIDE DEF Tell, C
  <2>3. DOMAIN C = DOMAIN PortNos /\ \A i \in DOMAIN C : C[i] = Tell(i) BY <2>0
  <2>4. C \in Seq(Step)
    <3>1. PICK n \in Nat : DOMAIN PortNos = 1..n BY PortsNumbered
    <3>2. C \in [1..n -> Step]
      <4> HIDE DEF Step
      <4> QED BY <2>0, <2>2, <3>1
    <3> HIDE DEF Step
    <3> QED BY <3>2
  <2>5. ASSUME NEW i \in DOMAIN C
        PROVE  /\ C[i].op \in {"pass", "tell"} /\ C[i].u \in Ports /\ ~C[i].if
               /\ C[i].op = "tell" => base /\ row[C[i].u] # NoRow /\ C[i].v = row[C[i].u].v
    <3>1. i \in DOMAIN PortNos /\ C[i] = Tell(i) BY <2>3
    <3> QED BY <1>2, <3>1, <2>1, <2>2
  <2>6. Ordered(C, "config") BY <2>5 DEF Ordered, Saves
  <2>7. Led(C) BY <2>5 DEF Led, Saves
  <2>8. ASSUME NEW p \in Ports, row[p] # NoRow PROVE \E i \in DOMAIN C : Tells(C[i], p)
    <3>1. PICK i \in DOMAIN PortNos : p = PortNos[i] BY Zenon DEF Ports
    <3>2. C[i].op = "tell" /\ C[i].u = p BY <2>2, <2>3, <2>8, <3>1
    <3>3. p \in Of(p) BY UnitFacts
    <3> QED BY <2>3, <3>1, <3>2, <3>3 DEF Tells
  <2> QED BY <2>4, <2>5, <2>6, <2>7, <2>8 DEF C
<1> QED BY <1>1, <1>2

LEMMA DiscoverStarts ==
  ASSUME IInv, NEW readable \in BOOLEAN, NEW linked \in BOOLEAN, Discover(readable, linked)
  PROVE  /\ todo' \in Seq(Step) /\ Ordered(todo', "config") /\ Led(todo')
         /\ \A s \in Steps' : Shape(s)'
<1> USE DEF IInv
<1>0. /\ slot \in Types /\ known' = slot /\ job' = [NoJob EXCEPT !.code = "config"]
      /\ rsp' = TRUE /\ replied' = FALSE /\ saved' = {}
      /\ hurt' = (IF readable THEN {} ELSE UnitsOf(slot))
      /\ synced' = synced \ UnitsOf(slot)
      /\ UNCHANGED <<slot, has, base, row, late, wanted, untrue>> /\ saved = {} /\ job = NoJob
  BY DEF Discover, TypeOK, JobOK, tables
<1>1. job'.code = "config" /\ job'.u = "all" /\ job'.v = <<0, 0>> BY <1>0 DEF NoJob
<1>2. \A u : Means(u)' = Means(u) BY <1>0 DEF Means
<1>3. todo' = (IF slot = "FSA" THEN rmConfigFE8Card
              ELSE IF ~readable THEN <<>>
              ELSE IF slot = "FE8" THEN configFE8Card ELSE configFSA600AndRMT(linked))
  BY DEF Discover
<1>4. CASE slot = "FSA"
  <2> DEFINE a == Do("nobase", "all", Fresh)
             b == Do("norows", "all", Fresh)
  <2>1. todo' = << a, b >> BY <1>3, <1>4 DEF rmConfigFE8Card
  <2>2. a \in Step /\ b \in Step BY StepTypes, ValueFacts
  <2>3. a.op = "nobase" /\ a.u = "all" /\ ~a.if /\ b.op = "norows" /\ b.u = "all" /\ ~b.if BY DEF Do
  <2> HIDE DEF a, b
  <2>4. todo' \in Seq(Step)
    <3> HIDE DEF Step
    <3> QED BY <2>1, <2>2
  <2>5. DOMAIN todo' = 1..2 /\ todo'[1] = a /\ todo'[2] = b BY <2>1
  <2>6. \A i \in DOMAIN todo' : i = 1 \/ i = 2 BY <2>5
  <2>7. Ordered(todo', "config") /\ Led(todo')
    BY <2>3, <2>5, <2>6 DEF Ordered, Led, Saves, Tells, Fills
  <2>8. \A s \in Steps' : s = a \/ s = b BY <2>5, <2>6 DEF Steps
  <2>9. \A s \in Steps' : Shape(s)' BY <1>0, <1>1, <1>4, <2>3, <2>8 DEF Shape, Radio, Reset
  <2> QED BY <2>4, <2>7, <2>9
<1>5. CASE slot # "FSA" /\ ~readable
  <2>1. todo' = <<>> /\ DOMAIN todo' = {} BY <1>3, <1>5
  <2>2. todo' \in Seq(Step)
    <3> HIDE DEF Step
    <3> QED BY <2>1
  <2>3. Ordered(todo', "config") /\ Led(todo') /\ Steps' = {} BY <2>1 DEF Ordered, Led, Steps
  <2> QED BY <2>2, <2>3
<1>6. CASE slot = "FE8" /\ readable
  <2>1. todo' = configFE8Card BY <1>3, <1>6
  <2>2. /\ todo' \in Seq(Step) /\ Ordered(todo', "config") /\ Led(todo')
        /\ \A i \in DOMAIN todo' :
              /\ todo'[i].op \in {"pass", "tell"} /\ todo'[i].u \in Ports /\ ~todo'[i].if
              /\ todo'[i].op = "tell" => base /\ row[todo'[i].u] # NoRow /\ todo'[i].v = row[todo'[i].u].v
    BY <2>1, FoundFE8
  <2>3. ASSUME NEW s \in Steps'
        PROVE  /\ s.op \in {"pass", "tell"} /\ s.u \in Ports /\ ~s.if
               /\ s.op = "tell" => base /\ row[s.u] # NoRow /\ s.v = row[s.u].v
    <3>1. PICK i \in DOMAIN todo' : s = todo'[i] BY DEF Steps
    <3> QED BY <3>1, <2>2
  <2>4. ASSUME NEW s \in Steps' PROVE Shape(s)'
    <3>1. known' = "FE8" /\ base' = base /\ row' = row BY <1>0, <1>6
    <3> QED BY <1>1, <2>3, <3>1 DEF Shape, Radio, Reset
  <2> QED BY <2>2, <2>4
<1>7. CASE slot \notin {"FE8", "FSA"} /\ readable
  <2>1. todo' = configFSA600AndRMT(linked) /\ known' = "FSA600" BY <1>0, <1>3, <1>7 DEF Types
  <2>2. /\ todo' \in Seq(Step) /\ Ordered(todo', "config") /\ Led(todo')
        /\ \A i \in DOMAIN todo' : todo'[i].u \in Far /\ Restores(todo'[i], todo'[i].u)
    BY <2>1, FoundFSA600
  <2>3. ASSUME NEW s \in Steps' PROVE s.u \in Far /\ Restores(s, s.u)
    <3>1. PICK i \in DOMAIN todo' : s = todo'[i] BY DEF Steps
    <3> QED BY <3>1, <2>2
  <2>4. ASSUME NEW s \in Steps' PROVE Shape(s)'
    <3>1. Means(s.u)' = Means(s.u) BY <1>2
    <3>2. Alike(s.u, Means(s.u), s.v)' <=> Alike(s.u, Means(s.u), s.v) BY <3>1 DEF Alike
    <3> QED BY <1>1, <2>1, <2>3, <3>2 DEF Shape, Restores, Radio, Reset
  <2> QED BY <2>2, <2>4
<1> QED BY <1>4, <1>5, <1>6, <1>7

LEMMA DiscoverKeeps ==
  ASSUME IInv, NEW readable \in BOOLEAN, NEW linked \in BOOLEAN, Discover(readable, linked)
  PROVE  IInv'
<1> USE DEF IInv
<1>0. /\ slot \in Types /\ known' = slot /\ job' = [NoJob EXCEPT !.code = "config"]
      /\ rsp' = TRUE /\ replied' = FALSE /\ saved' = {}
      /\ hurt' = (IF readable THEN {} ELSE UnitsOf(slot))
      /\ synced' = synced \ UnitsOf(slot)
      /\ UNCHANGED <<slot, has, base, row, late, wanted, untrue>> /\ saved = {} /\ job = NoJob
  BY DEF Discover, TypeOK, JobOK, tables
<1>1. job'.code = "config" /\ job'.u = "all" /\ job'.v = <<0, 0>>
      /\ job' = [code |-> "config", u |-> "all", v |-> <<0, 0>>]
  BY <1>0 DEF NoJob
<1>2. \A u : Means(u)' = Means(u) BY <1>0 DEF Means
<1>3. /\ todo' \in Seq(Step) /\ Ordered(todo', "config") /\ Led(todo')
      /\ \A s \in Steps' : Shape(s)'
  BY DiscoverStarts
<1>4. cache' = [p \in Ports |-> IF slot # "FE8" THEN cache[p]
                              ELSE IF readable /\ base /\ row[p] # NoRow THEN row[p].v
                              ELSE <<1, cache[p][2]>>]
      /\ (used' = used \/ Fault)
  BY DEF Discover
<1>5. UnitsOf(slot) \subseteq Units BY <1>0, UnitFacts DEF UnitsOf
<1>6. Subject' = {} BY <1>1 DEF Subject
<1>7. TypeOK'
  <2>1. cache' \in [Ports -> Value]
    <3> SUFFICES ASSUME NEW p \in Ports PROVE cache'[p] \in Value BY <1>4
    <3>1. p \in Units /\ (row[p] # NoRow => row[p].v \in Value) BY UnitFacts, MeansType
    <3>2. cache[p] \in Value BY DEF TypeOK
    <3>3. <<1, cache[p][2]>> \in Value BY <3>2, ValueFacts DEF Bit
    <3> QED BY <1>4, <3>1, <3>2, <3>3
  <2>2. job' \in [code : Codes \cup {"none", "config"}, u : Units \cup {"all"}, v : Value]
    <3>1. <<0, 0>> \in Value BY ValueFacts DEF Bit
    <3> QED BY <1>1, <3>1
  <2>3. used' \in [req : 0..MaxRequests, pull : 0..MaxPulls, fault : 0..MaxFaults]
    BY <1>4, FaultType
  <2>4. hurt' \subseteq Units /\ saved' \subseteq Units /\ synced' \subseteq Units BY <1>0, <1>5 DEF TypeOK
  <2>5. known' \in Types \cup {"none"} BY <1>0
  <2> QED BY <1>0, <1>3, <2>1, <2>2, <2>3, <2>4, <2>5 DEF TypeOK
<1>8. JobOK' BY <1>0, <1>1, <1>3 DEF JobOK, NoJob, Whole, Radio, Reset, Types
<1>9. Order' /\ Filled' BY <1>1, <1>3 DEF Order, Filled, FilledFor, Whole
<1>10. SavedOK' BY <1>0 DEF SavedOK
<1>11. Told'
  <2>1. \A i \in DOMAIN todo', u \in Units \ hurt' : Saves(todo'[i], u) =>
          (\E j \in DOMAIN todo' : j < i /\ Tells(todo'[j], u))
    BY <1>3 DEF Led
  <2>2. known' = "FE8" /\ base => \A p \in Ports \ hurt' : row[p] # NoRow =>
          cache'[p] = row[p].v /\ \E s \in Steps' : Tells(s, p)
    <3> SUFFICES ASSUME known' = "FE8", base, NEW p \in Ports \ hurt', row[p] # NoRow
                 PROVE  cache'[p] = row[p].v /\ \E s \in Steps' : Tells(s, p)
      OBVIOUS
    <3>1. slot = "FE8" /\ readable BY <1>0 DEF UnitsOf
    <3>2. todo' = configFE8Card BY <3>1 DEF Discover
    <3>3. PICK i \in DOMAIN todo' : Tells(todo'[i], p) BY <3>2, FoundFE8
    <3>4. cache'[p] = row[p].v BY <1>4, <3>1
    <3> QED BY <3>3, <3>4 DEF Steps
  <2> QED BY <1>0, <2>1, <2>2 DEF Told, ToldFirst, ToldRow
<1>12. SyncedOK' BY <1>0, <1>1 DEF SyncedOK
<1>13. RowsMid' BY <1>0, <1>2 DEF RowsMid
<1> QED BY <1>7, <1>8, <1>9, <1>10, <1>11, <1>12, <1>13

LEMMA RequestKeeps ==
  ASSUME IInv, NEW code, NEW u, NEW v, Legal(code, u, v), Request(code, u, v)
  PROVE  IInv'
<1> USE DEF IInv
<1>0. /\ job = NoJob /\ job' = [code |-> code, u |-> u, v |-> v] /\ todo' = Program(code, u, v)
      /\ rsp' = TRUE /\ replied' = FALSE /\ hurt' = {} /\ saved' = {} /\ Use("req", MaxRequests)
      /\ UNCHANGED <<slot, has, known, cache, base, row, late, wanted, untrue, synced>>
      /\ job.code = "none" /\ hurt = {} /\ saved = {}
  BY DEF Request, JobOK, tables, NoJob
<1>1. /\ code \in Codes /\ u \in Units \cup {"all"} /\ v \in Value /\ code # "none" /\ code # "config"
      /\ job'.code = code /\ job'.u = u /\ job'.v = v
  BY <1>0 DEF Legal, Codes
<1>2. \A w : Means(w)' = Means(w) BY <1>0 DEF Means
<1>3. Start(todo', code, u, v) BY <1>0, Started
<1>4. ASSUME NEW s \in Steps' PROVE Shape(s)'
  <2>1. PICK i \in DOMAIN todo' : s = todo'[i] BY DEF Steps
  <2>2. Shaped(s, code, u, v) BY <1>3, <2>1 DEF Start
  <2> QED BY <1>0, <1>1, <2>2 DEF Shaped, Shape
<1>5. Subject = {} BY <1>0 DEF Subject
<1>6. TypeOK'
  <2>1. job' \in [code : Codes \cup {"none", "config"}, u : Units \cup {"all"}, v : Value]
    BY <1>0, <1>1
  <2>2. used' \in [req : 0..MaxRequests, pull : 0..MaxPulls, fault : 0..MaxFaults]
    BY <1>0, FaultType
  <2> QED BY <1>0, <1>3, <2>1, <2>2 DEF TypeOK, Start
<1>7. JobOK'
  <2>1. job' # NoJob BY <1>1 DEF NoJob
  <2> QED BY <1>0, <1>1, <1>4, <2>1 DEF JobOK, Legal
<1>8. Order' BY <1>1, <1>3 DEF Order, Start
<1>9. Filled'
  <2> SUFFICES ASSUME NEW p \in Ports, \A s \in Steps' : ~Fills(s, p)
               PROVE  /\ code \in Whole => p # u
                      /\ code = "C_CARD_SET" => known # "FE8"
    BY <1>0, <1>1 DEF Filled, FilledFor
  <2>1. \A i \in DOMAIN todo' : ~Fills(todo'[i], p) BY DEF Steps
  <2> QED BY <2>1, <1>3 DEF Start, Fills0
<1>10. SavedOK' BY <1>0 DEF SavedOK
<1>11. Told'
  <2>1. \A i \in DOMAIN todo', w \in Units \ hurt' : Saves(todo'[i], w) =>
          (\E j \in DOMAIN todo' : j < i /\ Tells(todo'[j], w))
    BY <1>3 DEF Led, Start
  <2> QED BY <1>0, <1>1, <2>1 DEF Told, ToldFirst
<1>12. SyncedOK'
  <2>1. known = "FE8" => \A p \in synced \cap Ports : cache[p] = Means(p)
    BY <1>0, <1>5 DEF SyncedOK, InMemory, InCard
  <2>2. slot = known => \A w \in synced \cap UnitsOf(slot) : Alike(w, has[w], Means(w))
    BY <1>0, <1>5 DEF SyncedOK, InMemory, InCard
  <2>3. ASSUME NEW w \in Ports, Alike(w, has[w], Means(w)) PROVE has[w][2] = Means(w)[2]
    BY <2>3, UnitFacts, MeansType, AlikeFacts
  <2>4. \A w : Alike(w, has[w], Means(w))' <=> Alike(w, has[w], Means(w)) BY <1>0, <1>2 DEF Alike
  <2> QED BY <1>0, <1>1, <1>2, <2>1, <2>2, <2>3, <2>4 DEF SyncedOK, InMemory, InCard
<1>13. RowsMid' BY <1>0, <1>2 DEF RowsMid
<1> QED BY <1>6, <1>7, <1>8, <1>9, <1>10, <1>11, <1>12, <1>13

----------------------------------------------------------------------------
\* A step is taken.
LEMMA StepTaken ==
  ASSUME IInv, todo # <<>>, todo' = Tail(todo), job' = job, known' = known
  PROVE  /\ todo' \in Seq(Step) /\ m \in Steps /\ Steps' \subseteq Steps /\ \A s \in Steps : s = m \/ s \in Steps'
         /\ m.u \in Units \cup {"all"} /\ m.v \in Value /\ Shape(m)
         /\ Order' /\ Subject' = Subject /\ Set' = Set /\ job # NoJob /\ job.code # "none"
         /\ \A s \in Steps' :
              /\ s.op = "tell" => job.code \notin {"C_ETHER_SET", "C_CARD_SET"}
              /\ \A u \in Units : Saves(m, u) => ~Tells(s, u) /\ ~Fills(s, u)
              /\ \A u \in Units : Tells(m, u) /\ Saves(s, u) => m.v = s.v
         /\ \A u \in Units \ hurt : Saves(m, u) => Matches(u, has[u], m.v)
         /\ \A i \in DOMAIN todo', u \in Units \ hurt : Saves(todo'[i], u) =>
              \/ \E j \in DOMAIN todo' : j < i /\ Tells(todo'[j], u)
              \/ Tells(m, u) /\ m.v = todo'[i].v
              \/ Matches(u, has[u], todo'[i].v)
<1> USE DEF IInv
<1>1. todo \in Seq(Step) BY DEF TypeOK
<1>2. /\ m \in Step /\ m \in Steps /\ m = todo[1] /\ 1 \in DOMAIN todo /\ todo' \in Seq(Step)
      /\ Steps' \subseteq Steps /\ \A s \in Steps : s = m \/ s \in Steps'
      /\ \A i \in DOMAIN todo' : i \in Nat /\ i + 1 \in DOMAIN todo /\ todo'[i] = todo[i + 1] /\ 1 < i + 1
      /\ \A i \in DOMAIN todo : i = 1 \/ (i - 1 \in DOMAIN todo' /\ todo'[i - 1] = todo[i])
      /\ \A i \in DOMAIN todo : i \in Nat
  BY <1>1, Rest
<1>3. m.u \in Units \cup {"all"} /\ m.v \in Value
  <2> HIDE DEF Units, Value, m
  <2> QED BY <1>2 DEF Step
<1>4. Shape(m) /\ job # NoJob /\ job.code # "none"
  <2>1. Shape(m) BY <1>2 DEF JobOK
  <2> QED BY <2>1 DEF Shape, NoJob
<1>5. Order'
  <2> HIDE DEF m
  <2> SUFFICES ASSUME NEW i \in DOMAIN todo', NEW j \in DOMAIN todo', i < j
               PROVE  /\ todo'[j].op = "tell" => job.code \notin {"C_ETHER_SET", "C_CARD_SET"}
                      /\ \A u \in Units : Saves(todo'[i], u) => ~Tells(todo'[j], u) /\ ~Fills(todo'[j], u)
                      /\ \A u \in Units : Tells(todo'[i], u) /\ Saves(todo'[j], u) => todo'[i].v = todo'[j].v
    BY DEF Order, Ordered
  <2>1. i + 1 \in DOMAIN todo /\ j + 1 \in DOMAIN todo /\ i + 1 < j + 1
        /\ todo'[i] = todo[i + 1] /\ todo'[j] = todo[j + 1]
    BY <1>2
  <2> QED BY <2>1 DEF Order, Ordered
<1>6. Subject' = Subject /\ Set' = Set BY DEF Subject, Set
<1>7. ASSUME NEW s \in Steps'
      PROVE  /\ s.op = "tell" => job.code \notin {"C_ETHER_SET", "C_CARD_SET"}
             /\ \A u \in Units : Saves(m, u) => ~Tells(s, u) /\ ~Fills(s, u)
             /\ \A u \in Units : Tells(m, u) /\ Saves(s, u) => m.v = s.v
  <2> HIDE DEF m
  <2>1. PICK i \in DOMAIN todo' : s = todo'[i] BY DEF Steps
  <2>2. i + 1 \in DOMAIN todo /\ s = todo[i + 1] /\ 1 < i + 1 BY <1>2, <2>1
  <2> QED BY <1>2, <2>2 DEF Order, Ordered
<1>8. \A u \in Units \ hurt : Saves(m, u) => Matches(u, has[u], m.v)
  <2> HIDE DEF m
  <2>1. \A j \in DOMAIN todo : ~(j < 1)
    <3>1. \A j \in DOMAIN todo : j = 1 \/ j - 1 \in Nat BY <1>2
    <3> QED BY <1>2, <3>1
  <2> QED BY <1>2, <2>1 DEF Told, ToldFirst
<1>9. ASSUME NEW i \in DOMAIN todo', NEW u \in Units \ hurt, Saves(todo'[i], u)
      PROVE  \/ \E j \in DOMAIN todo' : j < i /\ Tells(todo'[j], u)
             \/ Tells(m, u) /\ m.v = todo'[i].v
             \/ Matches(u, has[u], todo'[i].v)
  <2> HIDE DEF m
  <2>1. i \in Nat /\ i + 1 \in DOMAIN todo /\ todo'[i] = todo[i + 1] BY <1>2
  <2>2. CASE Matches(u, has[u], todo[i + 1].v) BY <2>1, <2>2
  <2>3. CASE \E j \in DOMAIN todo : j < i + 1 /\ Tells(todo[j], u)
    <3>1. PICK j \in DOMAIN todo : j < i + 1 /\ Tells(todo[j], u) BY <2>3
    <3>2. CASE j = 1
      <4>1. todo'[i] \in Steps' BY DEF Steps
      <4> QED BY <3>1, <3>2, <4>1, <1>2, <1>7, <1>9
    <3>3. CASE j # 1
      <4>1. j - 1 \in DOMAIN todo' /\ todo'[j - 1] = todo[j] /\ j - 1 < i BY <1>2, <2>1, <3>1, <3>3
      <4> QED BY <3>1, <4>1
    <3> QED BY <3>2, <3>3
  <2> QED BY <2>1, <2>2, <2>3, <1>9 DEF Told, ToldFirst
<1> HIDE DEF m
<1> QED BY <1>2, <1>3, <1>4, <1>5, <1>6, <1>7, <1>8, <1>9

LEMMA JobStays ==
  ASSUME IInv, todo # <<>>, todo' = Tail(todo), UNCHANGED <<slot, known, job, base, row>>
  PROVE  JobOK'
<1> USE DEF IInv
<1>1. Steps' \subseteq Steps /\ job # NoJob /\ job.code # "none" BY StepTaken
<1>2. \A u : Means(u)' = Means(u) BY DEF Means
<1>3. \A s \in Steps' : Shape(s)'
  <2> SUFFICES ASSUME NEW s \in Steps' PROVE Shape(s)' OBVIOUS
  <2>1. Shape(s) BY <1>1 DEF JobOK
  <2>2. Alike(s.u, Means(s.u), s.v)' <=> Alike(s.u, Means(s.u), s.v) BY <1>2 DEF Alike
  <2> QED BY <2>1, <2>2 DEF Shape
<1> QED BY <1>1, <1>3 DEF JobOK

\* Steps that touch neither card nor memory nor tables.
LEMMA Untouched ==
  ASSUME IInv, todo # <<>>, todo' = Tail(todo), \A u : ~Tells(m, u),
         UNCHANGED <<slot, has, known, cache, job, base, row, saved, hurt, untrue>>, synced' \subseteq synced,
         TypeOK', RowsMid',
         (\A u \in Ports : ~Fills(m, u)) => (Dead => Dead'),
         (\E u \in Ports : Fills(m, u)) => Filled'
  PROVE  IInv'
<1> USE DEF IInv
<1>1. /\ todo' \in Seq(Step) /\ m \in Steps /\ Steps' \subseteq Steps /\ \A s \in Steps : s = m \/ s \in Steps'
      /\ Shape(m) /\ Order' /\ Subject' = Subject /\ Set' = Set
      /\ \A i \in DOMAIN todo', u \in Units \ hurt : Saves(todo'[i], u) =>
           \/ \E j \in DOMAIN todo' : j < i /\ Tells(todo'[j], u)
           \/ Tells(m, u) /\ m.v = todo'[i].v
           \/ Matches(u, has[u], todo'[i].v)
  BY StepTaken
<1>2. \A u : Means(u)' = Means(u) BY DEF Means
<1> HIDE DEF m
<1>5. JobOK' BY JobStays
<1>6. Filled'
  <2>1. CASE \A u \in Ports : ~Fills(m, u)
    <3> SUFFICES ASSUME NEW u \in Ports, \A s \in Steps' : ~Fills(s, u)
                 PROVE  /\ job.code \in Whole /\ u = job.u => cache[u] = job.v \/ Dead'
                        /\ job.code = "C_CARD_SET" /\ known = "FE8" => cache[u][1] = job.v[1] \/ Dead'
      BY DEF Filled, FilledFor
    <3>1. \A s \in Steps : ~Fills(s, u) BY <1>1, <2>1
    <3> QED BY <2>1, <3>1 DEF Filled, FilledFor
  <2> QED BY <2>1
<1>7. SavedOK'
  <2> SUFFICES ASSUME NEW u \in saved PROVE SavedFor(u)' BY DEF SavedOK
  <2>1. SavedFor(u) BY DEF SavedOK
  <2> QED BY <2>1, <1>1, <1>2 DEF SavedFor
<1>8. Told'
  <2>1. \A u, a, b : Matches(u, a, b)' <=> Matches(u, a, b) BY DEF Matches, Alike
  <2>2. \A i \in DOMAIN todo' : \A u \in Units \ hurt : ToldFirst(i, u)'
    BY <1>1, <2>1 DEF ToldFirst
  <2>3. \A u \in saved \ hurt : Matches(u, has[u], Means(u))' BY <1>2, <2>1 DEF Told
  <2>4. ASSUME job.code = "config", known = "FE8", base, NEW p \in Ports \ hurt PROVE ToldRow(p)'
    <3>1. ToldRow(p) BY <2>4 DEF Told
    <3> QED BY <1>1, <3>1 DEF ToldRow
  <2> QED BY <2>2, <2>3, <2>4 DEF Told
<1>9. SyncedOK'
  <2>1. \A w : Alike(w, has[w], Means(w))' <=> Alike(w, has[w], Means(w)) BY <1>2 DEF Alike
  <2>2. \A p : InMemory(p)' <=> InMemory(p) BY <1>1, <1>2 DEF InMemory
  <2>3. \A u : InCard(u)' <=> InCard(u) BY <1>1, <1>2, <2>1 DEF InCard
  <2> QED BY <2>2, <2>3 DEF SyncedOK
<1> QED BY <1>1, <1>5, <1>6, <1>7, <1>8, <1>9

LEMMA SkipKeeps ==
  ASSUME IInv, Skip
  PROVE  IInv'
<1> USE DEF IInv
<1>0. /\ todo # <<>> /\ todo' = Tail(todo) /\ (m.op = "pass" \/ (m.if /\ ~rsp))
      /\ UNCHANGED <<slot, has, known, cache, job, rsp, base, row, late, replied, hurt, saved,
                      wanted, untrue, synced, used>>
  BY DEF Skip, tables, history
<1>1. /\ todo' \in Seq(Step) /\ m \in Steps /\ Steps' \subseteq Steps /\ \A s \in Steps : s = m \/ s \in Steps'
      /\ Shape(m) /\ Subject' = Subject /\ Set' = Set
      /\ \A s \in Steps' : s.op = "tell" => job.code \notin {"C_ETHER_SET", "C_CARD_SET"}
  BY <1>0, StepTaken
<1>2. \A u : Means(u)' = Means(u) BY <1>0 DEF Means
<1>3. \A u : ~Tells(m, u)
  <2> HIDE DEF m
  <2> QED BY <1>0, <1>1 DEF Tells, Shape
<1>4. TypeOK' BY <1>0, <1>1 DEF TypeOK
<1>5. RowsMid' BY <1>0, <1>1, <1>2 DEF RowsMid
<1>6. Dead => Dead' BY <1>0, <1>1 DEF Dead
<1>7. ASSUME NEW u \in Ports, Fills(m, u) PROVE Filled'
  <2> HIDE DEF m
  <2>1. m.if /\ ~rsp BY <1>0, <1>7 DEF Fills
  <2>2. job.code = "C_ETHER_SET" \/ (job.code = "C_CARD_SET" /\ known = "FE8") \/ job.code \notin Whole \cup {"C_CARD_SET"}
    BY <1>1, <1>7, <2>1 DEF Shape, Whole, Fills
  <2>3. CASE job.code = "C_ETHER_SET" \/ (job.code = "C_CARD_SET" /\ known = "FE8")
    <3>1. \A s \in Steps' : s.if
      <4> SUFFICES ASSUME NEW s \in Steps' PROVE s.if OBVIOUS
      <4>1. Shape(s) /\ s.op # "tell" BY <1>1, <2>3 DEF JobOK
      <4> QED BY <2>3, <4>1 DEF Shape
    <3>2. Dead' BY <1>0, <2>1, <3>1 DEF Dead
    <3> QED BY <3>2 DEF Filled, FilledFor
  <2>4. CASE job.code \notin Whole \cup {"C_CARD_SET"} BY <2>4, <1>0 DEF Filled, FilledFor
  <2> QED BY <2>2, <2>3, <2>4
<1> HIDE DEF m, IInv
<1> QED BY <1>0, <1>3, <1>4, <1>5, <1>6, <1>7, Untouched

LEMMA ReplyKeeps ==
  ASSUME IInv, NEW ok \in BOOLEAN, Reply(ok)
  PROVE  IInv'
<1> USE DEF IInv
<1>0. /\ todo # <<>> /\ todo' = Tail(todo) /\ (m.if => rsp) /\ m.op = "reply"
      /\ rsp' = ok /\ replied' = ok /\ (used' = used \/ Fault)
      /\ UNCHANGED <<slot, has, known, cache, job, base, row, late, hurt, saved, wanted, untrue, synced>>
  BY DEF Reply, Ready, tables
<1>1. todo' \in Seq(Step) /\ m \in Steps /\ Set' = Set BY <1>0, StepTaken
<1>2. \A u : Means(u)' = Means(u) BY <1>0 DEF Means
<1>3. used' \in [req : 0..MaxRequests, pull : 0..MaxPulls, fault : 0..MaxFaults] BY <1>0, FaultType
<1> HIDE DEF m
<1>4. ~Dead /\ (\A u : ~Tells(m, u) /\ ~Fills(m, u)) BY <1>0, <1>1 DEF Dead, Tells, Fills
<1>5. TypeOK' BY <1>0, <1>1, <1>3 DEF TypeOK
<1>6. RowsMid' BY <1>0, <1>1, <1>2 DEF RowsMid
<1> HIDE DEF IInv
<1> QED BY <1>0, <1>4, <1>5, <1>6, Untouched DEF m

LEMMA DatabaseFailsKeeps ==
  ASSUME IInv, DatabaseFails
  PROVE  IInv'
<1> USE DEF IInv
<1>0. /\ todo # <<>> /\ todo' = Tail(todo) /\ (m.if => rsp) /\ Fault
      /\ m.op \in {"save", "mark", "unmark", "name", "base", "nobase", "norows"}
      /\ rsp' = (rsp /\ job.code \in {"C_FE8_SET", "C_ETHER_SET"})
      /\ wanted' = [x \in Units \X {1, 2} |-> IF m.op = "norows" /\ x[1] \in Ports THEN Unset ELSE wanted[x]]
      /\ synced' \subseteq synced
      /\ UNCHANGED <<slot, has, known, cache, job, base, row, late, replied, hurt, saved, untrue>>
  BY DEF DatabaseFails, Ready, tables
<1>1. todo' \in Seq(Step) /\ m \in Steps /\ Shape(m) /\ Set' = Set BY <1>0, StepTaken
<1>2. \A u : Means(u)' = Means(u) BY <1>0 DEF Means
<1>3. used' \in [req : 0..MaxRequests, pull : 0..MaxPulls, fault : 0..MaxFaults] BY <1>0, FaultType
<1> HIDE DEF m
<1>4. ~Dead /\ (\A u : ~Tells(m, u) /\ ~Fills(m, u)) BY <1>0, <1>1 DEF Dead, Tells, Fills
<1>5. TypeOK'
  <2>1. wanted' \in [Units \X {1, 2} -> Bit \cup {Unset}] BY <1>0 DEF TypeOK
  <2>2. rsp' \in BOOLEAN BY <1>0
  <2>3. synced' \subseteq Units BY <1>0 DEF TypeOK
  <2> QED BY <1>0, <1>1, <1>3, <2>1, <2>2, <2>3 DEF TypeOK
<1>6. RowsMid'
  <2> SUFFICES ASSUME NEW x \in Parts \ untrue
               PROVE  (x \in Set /\ x[1] \in saved) \/ wanted'[x] \in {Unset, Means(x[1])[x[2]]}
    BY <1>0, <1>1, <1>2 DEF RowsMid
  <2>1. x \in Units \X {1, 2} BY DEF Parts
  <2> QED BY <1>0, <2>1 DEF RowsMid
<1> HIDE DEF IInv
<1> QED BY <1>0, <1>4, <1>5, <1>6, Untouched DEF m

LEMMA MemoryKeeps ==
  ASSUME IInv, Memory
  PROVE  IInv'
<1> USE DEF IInv
<1>0. /\ todo # <<>> /\ todo' = Tail(todo) /\ m.op \in {"cache", "admin"}
      /\ cache' = [p \in Ports |-> IF m.op = "admin" THEN <<m.v[1], cache[p][2]>>
                                  ELSE IF p = m.u THEN m.v ELSE cache[p]]
      /\ UNCHANGED <<slot, has, known, job, rsp, base, row, late, replied, hurt, saved, wanted, untrue, synced, used>>
  BY DEF Memory, Ready, tables, history
<1>1. /\ todo' \in Seq(Step) /\ m \in Steps /\ Steps' \subseteq Steps /\ \A s \in Steps : s = m \/ s \in Steps'
      /\ m.v \in Value /\ Shape(m) /\ Order' /\ Subject' = Subject /\ Set' = Set
      /\ \A i \in DOMAIN todo', u \in Units \ hurt : Saves(todo'[i], u) =>
           \/ \E j \in DOMAIN todo' : j < i /\ Tells(todo'[j], u)
           \/ Tells(m, u) /\ m.v = todo'[i].v
           \/ Matches(u, has[u], todo'[i].v)
  BY <1>0, StepTaken
<1>2. \A u : Means(u)' = Means(u) BY <1>0 DEF Means
<1>3. JobOK' BY <1>0, JobStays
<1> HIDE DEF m
<1>4. \A u : ~Tells(m, u) BY <1>0 DEF Tells
<1>5. \/ m.op = "cache" /\ job.code \in Whole /\ m.u = job.u /\ m.v = job.v /\ Subject = {job.u}
         /\ job.u \in Ports /\ (\A u \in Ports : Fills(m, u) <=> u = job.u)
         /\ \A p \in Ports : cache'[p] = IF p = job.u THEN job.v ELSE cache[p]
      \/ m.op = "admin" /\ job.code = "C_CARD_SET" /\ known = "FE8" /\ m.v = job.v /\ Subject = Ports
         /\ (\A u \in Ports : Fills(m, u))
         /\ \A p \in Ports : cache'[p] = <<job.v[1], cache[p][2]>>
  <2>1. CASE m.op = "cache"
    <3>0. job.code \in Codes \cup {"none", "config"} /\ known \in Types \cup {"none"}
      <4> HIDE DEF Units, Value
      <4> QED BY DEF TypeOK
    <3>1. job.code \in Whole /\ m.u = job.u /\ m.v = job.v
      BY <1>1, <2>1, <3>0 DEF Shape, Whole, Codes, Radio, Reset, JobOK, Types
    <3>2. job.u \in Ports /\ job.u \in Units BY <3>1, UnitFacts DEF JobOK
    <3>3. Subject = {job.u} BY <3>1 DEF Subject, Whole
    <3>4. \A u \in Ports : Fills(m, u) <=> u = job.u BY <2>1, <3>1, <3>2, UnitFacts DEF Fills
    <3> QED BY <1>0, <2>1, <3>1, <3>2, <3>3, <3>4
  <2>2. CASE m.op = "admin"
    <3>0. job.code \in Codes \cup {"none", "config"} /\ known \in Types \cup {"none"}
      <4> HIDE DEF Units, Value
      <4> QED BY DEF TypeOK
    <3>1. job.code = "C_CARD_SET" /\ known = "FE8" /\ m.v = job.v /\ m.u = "all"
      BY <1>1, <2>2, <3>0 DEF Shape, Whole, Codes, Radio, Reset, JobOK, Types
    <3>2. Subject = Ports BY <3>1 DEF Subject
    <3>3. \A u \in Ports : Fills(m, u) BY <2>2, <3>1, UnitFacts DEF Fills
    <3> QED BY <1>0, <2>2, <3>1, <3>2, <3>3
  <2> QED BY <1>0, <2>1, <2>2
<1>6. \A p \in Ports : cache[p] \in Value /\ (~Fills(m, p) => cache'[p] = cache[p]) /\ cache'[p] \in Value
                     /\ (job.code = "C_CARD_SET" => cache'[p][1] = job.v[1] /\ cache'[p][2] = cache[p][2])
  <2> SUFFICES ASSUME NEW p \in Ports
               PROVE  cache[p] \in Value /\ (~Fills(m, p) => cache'[p] = cache[p]) /\ cache'[p] \in Value
                      /\ (job.code = "C_CARD_SET" => cache'[p][1] = job.v[1] /\ cache'[p][2] = cache[p][2])
    OBVIOUS
  <2>1. cache[p] \in Value BY DEF TypeOK
  <2>2. job.v \in Value BY <1>1, <1>5
  <2> QED BY <1>5, <2>1, <2>2, ValueFacts DEF Whole
<1>7. TypeOK'
  <2>1. cache' \in [Ports -> Value] BY <1>0, <1>6
  <2> QED BY <1>0, <1>1, <2>1 DEF TypeOK
<1>8. Filled' BY <1>0, <1>5, <1>6 DEF Filled, FilledFor, Whole
<1>9. SavedOK'
  <2> SUFFICES ASSUME NEW u \in saved PROVE SavedFor(u)' BY <1>0 DEF SavedOK
  <2>1. SavedFor(u) BY DEF SavedOK
  <2>2. ~Fills(m, u) BY <1>1, <2>1 DEF SavedFor
  <2> QED BY <2>1, <2>2, <1>0, <1>1, <1>2, <1>6 DEF SavedFor
<1>10. Told'
  <2>1. \A u, a, b : Matches(u, a, b)' <=> Matches(u, a, b) BY <1>0 DEF Matches, Alike
  <2>2. \A i \in DOMAIN todo' : \A u \in Units \ hurt : ToldFirst(i, u)'
    BY <1>0, <1>1, <1>4, <2>1 DEF ToldFirst
  <2>3. \A u \in saved \ hurt : Matches(u, has[u], Means(u))' BY <1>0, <1>2, <2>1 DEF Told
  <2>4. job.code # "config" BY <1>5 DEF Whole
  <2> QED BY <1>0, <2>2, <2>3, <2>4 DEF Told
<1>11. SyncedOK'
  <2>1. \A w : Alike(w, has[w], Means(w))' <=> Alike(w, has[w], Means(w)) BY <1>0, <1>2 DEF Alike
  <2>2. ASSUME NEW p \in Ports, InMemory(p) PROVE InMemory(p)'
    BY <1>0, <1>1, <1>2, <1>5, <1>6, <2>2 DEF InMemory, Whole
  <2>3. \A u : InCard(u)' <=> InCard(u) BY <1>0, <1>1, <1>2, <2>1 DEF InCard
  <2> QED BY <1>0, <2>2, <2>3 DEF SyncedOK
<1>12. RowsMid' BY <1>0, <1>1, <1>2 DEF RowsMid
<1> QED BY <1>1, <1>3, <1>7, <1>8, <1>9, <1>10, <1>11, <1>12

----------------------------------------------------------------------------
\* Exchanges: what they are for, and what they do.
LEMMA ExchangeOf ==
  ASSUME TypeOK, JobOK, NEW s \in Steps, s.op \in {"tell", "default", "fetch"}
  PROVE  /\ s.op = "fetch" => job.code = "C_FE8_PORT_GET" /\ s.u = job.u /\ s.u \in Ports /\ Subject = {}
         /\ s.op # "fetch" =>
              /\ ~s.if /\ job.code # "C_FE8_PORT_GET"
              /\ (job.code = "C_CARD_SET") <=> (s.u = "all")
              /\ s.u # "all" => s.u \in Units /\ Of(s.u) = {s.u}
              /\ job.code # "config" => Of(s.u) \subseteq Subject
              /\ job.code = "config" => known \in {"FE8", "FSA600"} /\ s.u \in UnitsOf(known)
<1>0. job.code \in Codes \cup {"none", "config"} /\ known \in Types \cup {"none"} /\ s \in Step
  <2>1. s \in Step
    <3> HIDE DEF Step
    <3> QED BY DEF TypeOK, Steps
  <2> HIDE DEF Units, Value, Step
  <2> QED BY <2>1 DEF TypeOK
<1>1. Shape(s) BY DEF JobOK
<1>2. ~s.if \/ s.op = "fetch" BY <1>1 DEF Shape
<1>3. CASE job.code = "C_FE8_PORT_GET"
  <2>1. s.op = "fetch" /\ s.u = job.u BY <1>1, <1>3 DEF Shape
  <2>2. s.u \in Ports BY <1>3, <2>1 DEF JobOK
  <2>3. Subject = {} BY <1>3 DEF Subject
  <2> QED BY <1>3, <2>1, <2>2, <2>3
<1>4. CASE job.code \in Whole
  <2>1. s.op = "tell" /\ s.u = job.u BY <1>1, <1>4 DEF Shape, Whole
  <2>2. s.u \in Ports BY <1>4, <2>1 DEF JobOK
  <2>3. s.u \in Units /\ s.u # "all" /\ Of(s.u) = {s.u} BY <2>2, UnitFacts
  <2>4. Subject = {job.u} BY <1>4 DEF Subject, Whole
  <2> QED BY <1>2, <1>4, <2>1, <2>3, <2>4 DEF Whole
<1>5. CASE job.code \in Radio \cup Reset
  <2>1. s.op \in {"tell", "default"} /\ s.u = job.u BY <1>1, <1>5 DEF Shape, Radio, Reset
  <2>2. s.u \in Far BY <1>5, <2>1 DEF JobOK
  <2>3. s.u \in Units /\ s.u # "all" /\ Of(s.u) = {s.u} BY <2>2, UnitFacts
  <2>4. Subject = {job.u} BY <1>5 DEF Subject, Radio, Reset
  <2> QED BY <1>2, <1>5, <2>1, <2>3, <2>4 DEF Radio, Reset
<1>6. CASE job.code = "C_CARD_SET"
  <2>1. s.op = "tell" /\ s.u = "all" /\ known = "FE8" BY <1>1, <1>6 DEF Shape
  <2>2. Subject = Ports /\ Of("all") = Ports BY <1>6, <2>1, UnitFacts DEF Subject
  <2> QED BY <1>2, <1>6, <2>1, <2>2
<1>7. CASE job.code = "config"
  <2>1. known # "none" /\ known # "FSA" BY <1>1, <1>7 DEF Shape, JobOK
  <2>2. known \in {"FE8", "FSA600"} BY <1>0, <2>1 DEF Types
  <2>3. s.op # "fetch" /\ s.u \in UnitsOf(known) BY <1>1, <1>7, <2>2 DEF Shape, UnitsOf
  <2>4. s.u \in Units /\ s.u # "all" /\ Of(s.u) = {s.u} BY <2>2, <2>3, UnitFacts DEF UnitsOf
  <2> QED BY <1>2, <1>7, <2>2, <2>3, <2>4
<1> QED BY <1>0, <1>1, <1>3, <1>4, <1>5, <1>6, <1>7 DEF Shape, Codes, Whole, Radio, Reset

LEMMA ExchangeDoes ==
  ASSUME IInv, Exchange
  PROVE  /\ has' \in [Units -> Value] /\ cache' \in [Ports -> Value] /\ rsp' \in BOOLEAN
         /\ late' \in [kind : {"none", "set", "port"}, ok : BOOLEAN, v : Value]
         /\ used' \in [req : 0..MaxRequests, pull : 0..MaxPulls, fault : 0..MaxFaults]
         /\ hurt \subseteq hurt' /\ hurt' \subseteq Units
         /\ m.op # "fetch" => cache' = cache
         /\ \A u \in Units : ~Tells(m, u) => has'[u] = has[u]
         /\ \A u \in Units \ hurt' : Tells(m, u) => has'[u] = IF m.u = "all" THEN <<m.v[1], has[u][2]>> ELSE m.v
         /\ m.u = "all" => \A u \in Units : has'[u][2] = has[u][2]
         /\ m.op = "fetch" => \A p \in Ports : p # m.u => cache'[p] = cache[p]
         /\ m.op = "fetch" /\ m.u \notin hurt' => slot = "FE8" /\ cache'[m.u] = has[m.u]
<1> USE DEF IInv
<1>0. /\ todo # <<>> /\ todo' = Tail(todo) /\ m.op \in {"tell", "default", "fetch"} /\ (Heard \/ Unheard \/ Mixed)
      /\ UNCHANGED <<slot, known, job>>
  BY DEF Exchange, Ready
<1>1. m \in Steps /\ m.u \in Units \cup {"all"} /\ m.v \in Value BY <1>0, StepTaken
<1> HIDE DEF m
<1>2. m.op = "fetch" => m.u \in Ports BY <1>0, <1>1, ExchangeOf
<1>3. Of(m.u) \subseteq Units /\ m.u \in Of(m.u) \cup {"all"} BY <1>1, UnitFacts DEF Of
<1>4. /\ has \in [Units -> Value] /\ cache \in [Ports -> Value] /\ hurt \subseteq Units
      /\ late \in [kind : {"none", "set", "port"}, ok : BOOLEAN, v : Value]
  BY DEF TypeOK
<1>5. /\ Obeyed \in [Units -> Value]
      /\ \A u \in Units : ~Tells(m, u) => Obeyed[u] = has[u]
      /\ \A u \in Units : Tells(m, u) => Obeyed[u] = IF m.u = "all" THEN <<m.v[1], has[u][2]>> ELSE m.v
      /\ m.u = "all" => \A u \in Units : Obeyed[u][2] = has[u][2]
  <2>1. \A u \in Units : has[u] \in Value /\ <<m.v[1], has[u][2]>> \in Value BY <1>1, <1>4, ValueFacts
  <2> HIDE DEF Value
  <2>2. Obeyed \in [Units -> Value] BY <1>1, <2>1 DEF Obeyed
  <2>3. \A u \in Units : Obeyed[u] = IF u \notin Of(m.u) \/ m.op = "fetch" THEN has[u]
                           ELSE IF m.u = "all" THEN <<m.v[1], has[u][2]>> ELSE m.v
    BY DEF Obeyed
  <2> QED BY <1>0, <2>2, <2>3 DEF Tells
<1>6. \A ok \in BOOLEAN : Own(ok) \in [kind : {"none", "set", "port"}, ok : BOOLEAN, v : Value]
  <2>1. <<0, 0>> \in Value BY ValueFacts DEF Bit
  <2>2. m.op = "fetch" => has[m.u] \in Value BY <1>2, <1>4, UnitFacts
  <2> HIDE DEF Value
  <2> QED BY <2>1, <2>2 DEF Own, Kind
<1>7. None \in [kind : {"none", "set", "port"}, ok : BOOLEAN, v : Value]
  <2>1. <<0, 0>> \in Value BY ValueFacts DEF Bit
  <2> HIDE DEF Value
  <2> QED BY <2>1 DEF None
<1>8. ASSUME NEW a \in [kind : {"none", "set", "port"}, ok : BOOLEAN, v : Value], Accept(a)
      PROVE  /\ rsp' \in BOOLEAN /\ cache' \in [Ports -> Value]
             /\ m.op # "fetch" => cache' = cache
             /\ \A p \in Ports : p # m.u => cache'[p] = cache[p]
  <2> HIDE DEF Value
  <2>1. a.v \in Value BY <1>8
  <2> QED BY <1>4, <1>8, <2>1 DEF Accept
<1>9. Reaches /\ m.op = "fetch" => slot = "FE8"
  BY <1>2, UnitFacts DEF Reaches, UnitsOf
<1>10. CASE Reaches /\ has' = Obeyed /\ Accept(Own(TRUE)) /\ hurt' = hurt /\ used' = used /\ late' = None
  <2>1. m.op = "fetch" => cache'[m.u] = has[m.u]
    <3>1. rsp' = TRUE BY <1>10 DEF Accept, Own
    <3> QED BY <1>2, <1>4, <1>10, <3>1 DEF Accept, Own
  <2> QED BY <1>0, <1>4, <1>5, <1>6, <1>7, <1>8, <1>9, <1>10, <2>1, FaultType DEF TypeOK
<1>11. ASSUME hurt' = hurt \cup Of(m.u), has' = has \/ has' = Obeyed, used' = used \/ Fault,
              late' \in {None, Own(TRUE)},
              \/ rsp' = FALSE /\ cache' = cache
              \/ Accept(Own(FALSE))
              \/ Accept(late)
       PROVE  /\ has' \in [Units -> Value] /\ cache' \in [Ports -> Value] /\ rsp' \in BOOLEAN
              /\ late' \in [kind : {"none", "set", "port"}, ok : BOOLEAN, v : Value]
              /\ used' \in [req : 0..MaxRequests, pull : 0..MaxPulls, fault : 0..MaxFaults]
              /\ hurt \subseteq hurt' /\ hurt' \subseteq Units
              /\ m.op # "fetch" => cache' = cache
              /\ \A u \in Units : ~Tells(m, u) => has'[u] = has[u]
              /\ \A u \in Units \ hurt' : ~Tells(m, u)
              /\ m.u = "all" => \A u \in Units : has'[u][2] = has[u][2]
              /\ \A p \in Ports : p # m.u => cache'[p] = cache[p]
              /\ m.op = "fetch" => m.u \in hurt'
  <2>1. /\ cache' \in [Ports -> Value] /\ rsp' \in BOOLEAN
        /\ m.op # "fetch" => cache' = cache
        /\ \A p \in Ports : p # m.u => cache'[p] = cache[p]
    BY <1>4, <1>6, <1>8, <1>11
  <2>2. \A u \in Units \ hurt' : ~Tells(m, u) BY <1>11 DEF Tells
  <2>3. m.op = "fetch" => m.u \in hurt' BY <1>2, <1>3, <1>11, UnitFacts
  <2>4. /\ has' \in [Units -> Value] /\ (\A u \in Units : ~Tells(m, u) => has'[u] = has[u])
        /\ m.u = "all" => \A u \in Units : has'[u][2] = has[u][2]
    BY <1>4, <1>5, <1>11
  <2>5. late' \in [kind : {"none", "set", "port"}, ok : BOOLEAN, v : Value] BY <1>6, <1>7, <1>11
  <2> HIDE DEF Value, Units
  <2>6. used' \in [req : 0..MaxRequests, pull : 0..MaxPulls, fault : 0..MaxFaults] BY <1>11, FaultType
  <2>7. hurt \subseteq hurt' /\ hurt' \subseteq Units BY <1>3, <1>4, <1>11
  <2> QED BY <2>1, <2>2, <2>3, <2>4, <2>5, <2>6, <2>7
<1>12. CASE Heard
  <2>1. CASE Reaches /\ has' = Obeyed /\ Accept(Own(TRUE)) /\ UNCHANGED <<hurt, used>>
    BY <1>10, <1>12, <2>1 DEF Heard
  <2>2. CASE \/ Reaches /\ Fault /\ Accept(Own(FALSE)) /\ hurt' = hurt \cup Of(m.u) /\ UNCHANGED has
             \/ ~Reaches /\ rsp' = FALSE /\ hurt' = hurt \cup Of(m.u) /\ UNCHANGED <<has, cache, used>>
    BY <1>11, <1>12, <2>2 DEF Heard
  <2> QED BY <1>12, <2>1, <2>2 DEF Heard
<1>13. CASE Unheard BY <1>11, <1>13 DEF Unheard
<1>14. CASE Mixed BY <1>11, <1>14 DEF Mixed
<1> QED BY <1>0, <1>12, <1>13, <1>14

LEMMA ExchangeKeeps ==
  ASSUME IInv, Exchange
  PROVE  IInv'
<1> USE DEF IInv
<1>0. /\ todo # <<>> /\ todo' = Tail(todo) /\ m.op \in {"tell", "default", "fetch"} /\ (m.if => rsp)
      /\ UNCHANGED <<slot, known, job, base, row, replied, saved, wanted, untrue, synced>>
  BY DEF Exchange, Ready, tables
<1>1. /\ has' \in [Units -> Value] /\ cache' \in [Ports -> Value] /\ rsp' \in BOOLEAN
      /\ late' \in [kind : {"none", "set", "port"}, ok : BOOLEAN, v : Value]
      /\ used' \in [req : 0..MaxRequests, pull : 0..MaxPulls, fault : 0..MaxFaults]
      /\ hurt \subseteq hurt' /\ hurt' \subseteq Units
      /\ m.op # "fetch" => cache' = cache
      /\ \A u \in Units : ~Tells(m, u) => has'[u] = has[u]
      /\ \A u \in Units \ hurt' : Tells(m, u) => has'[u] = IF m.u = "all" THEN <<m.v[1], has[u][2]>> ELSE m.v
      /\ m.u = "all" => \A u \in Units : has'[u][2] = has[u][2]
      /\ m.op = "fetch" => \A p \in Ports : p # m.u => cache'[p] = cache[p]
      /\ m.op = "fetch" /\ m.u \notin hurt' => slot = "FE8" /\ cache'[m.u] = has[m.u]
  BY ExchangeDoes
<1>2. /\ todo' \in Seq(Step) /\ m \in Steps /\ Steps' \subseteq Steps /\ (\A s \in Steps : s = m \/ s \in Steps')
      /\ m.v \in Value /\ Shape(m) /\ Order' /\ Subject' = Subject /\ Set' = Set
      /\ \A s \in Steps' : \A u \in Units : Tells(m, u) /\ Saves(s, u) => m.v = s.v
      /\ \A i \in DOMAIN todo', u \in Units \ hurt : Saves(todo'[i], u) =>
           \/ \E j \in DOMAIN todo' : j < i /\ Tells(todo'[j], u)
           \/ Tells(m, u) /\ m.v = todo'[i].v
           \/ Matches(u, has[u], todo'[i].v)
  BY <1>0, StepTaken
<1>3. \A u : Means(u)' = Means(u) BY <1>0 DEF Means
<1>4. JobOK' BY <1>0, JobStays
<1> HIDE DEF m
<1>5. /\ m.op = "fetch" => job.code = "C_FE8_PORT_GET" /\ m.u \in Ports /\ Subject = {}
      /\ m.op # "fetch" =>
           /\ ~m.if /\ job.code # "C_FE8_PORT_GET"
           /\ (job.code = "C_CARD_SET") <=> (m.u = "all")
           /\ m.u # "all" => m.u \in Units /\ Of(m.u) = {m.u}
           /\ job.code # "config" => Of(m.u) \subseteq Subject
           /\ job.code = "config" => known \in {"FE8", "FSA600"} /\ m.u \in UnitsOf(known)
  BY <1>0, <1>2, ExchangeOf
<1>6. \A u : ~Fills(m, u) BY <1>0 DEF Fills
<1>7. \A u, a, b : Matches(u, a, b)' <=> Matches(u, a, b) BY <1>0 DEF Matches, Alike
<1>8. ASSUME NEW u \in Units \ hurt', Tells(m, u)
      PROVE  Matches(u, has'[u], m.v)
  <2>1. has[u] \in Value /\ m.v \in Value BY <1>2 DEF TypeOK
  <2>2. <<m.v[1], has[u][2]>>[1] = m.v[1] BY <2>1
  <2>3. m.op # "fetch" BY <1>8 DEF Tells
  <2> QED BY <1>1, <1>5, <1>8, <2>2, <2>3 DEF Matches, Alike
<1>9. TypeOK' BY <1>0, <1>1, <1>2 DEF TypeOK
<1>10. Filled'
  <2> SUFFICES ASSUME NEW u \in Ports, \A s \in Steps' : ~Fills(s, u)
               PROVE  /\ job.code \in Whole /\ u = job.u => cache'[u] = job.v
                      /\ job.code = "C_CARD_SET" /\ known = "FE8" => cache'[u][1] = job.v[1]
    BY <1>0 DEF Filled, FilledFor
  <2>1. \A s \in Steps : ~Fills(s, u) BY <1>2, <1>6
  <2>2. CASE m.op = "fetch" BY <1>5, <2>2 DEF Whole
  <2>3. CASE m.op # "fetch"
    <3>1. cache' = cache /\ ~Dead BY <1>1, <1>2, <1>5, <2>3 DEF Dead
    <3> QED BY <2>1, <3>1 DEF Filled, FilledFor
  <2> QED BY <2>2, <2>3
<1>11. SavedOK'
  <2> SUFFICES ASSUME NEW u \in saved PROVE SavedFor(u)' BY <1>0 DEF SavedOK
  <2>1. SavedFor(u) BY DEF SavedOK
  <2>2. m.op # "fetch" BY <1>5, <2>1 DEF SavedFor
  <2>3. cache' = cache BY <1>1, <2>2
  <2> QED BY <2>1, <2>3, <1>0, <1>2, <1>3 DEF SavedFor
<1>12. Told'
  <2>1. ASSUME NEW i \in DOMAIN todo', NEW u \in Units \ hurt' PROVE ToldFirst(i, u)'
    <3> SUFFICES ASSUME Saves(todo'[i], u), \A j \in DOMAIN todo' : ~(j < i /\ Tells(todo'[j], u))
                 PROVE  Matches(u, has'[u], todo'[i].v)
      BY <1>7 DEF ToldFirst
    <3>1. u \in Units \ hurt BY <1>1
    <3>2. todo'[i] \in Steps' BY DEF Steps
    <3>3. CASE Tells(m, u)
      <4>1. m.v = todo'[i].v BY <1>2, <3>2, <3>3
      <4> QED BY <1>8, <3>3, <4>1
    <3>4. CASE ~Tells(m, u)
      <4>1. has'[u] = has[u] BY <1>1, <3>4
      <4> QED BY <1>2, <3>1, <3>4, <4>1
    <3> QED BY <3>3, <3>4
  <2>2. ASSUME NEW u \in saved \ hurt' PROVE Matches(u, has[u], Means(u))'
    <3>1. SavedFor(u) /\ u \in saved \ hurt /\ u \in Units BY <1>1 DEF SavedOK, TypeOK
    <3>2. has'[u] = has[u] BY <1>1, <1>2, <3>1 DEF SavedFor
    <3> QED BY <1>3, <1>7, <3>1, <3>2 DEF Told
  <2>3. ASSUME job.code = "config", known = "FE8", base, NEW p \in Ports \ hurt' PROVE ToldRow(p)'
    <3>1. ToldRow(p) /\ p \in Units BY <1>1, <2>3, UnitFacts DEF Told
    <3>2. m.op # "fetch" /\ m.u # "all" /\ cache' = cache BY <1>1, <1>5, <2>3
    <3>3. Tells(m, p) /\ row[p] # NoRow => has'[p] = row[p].v
      <4>1. Tells(m, p) => m.u = p BY <1>5, <3>2 DEF Tells
      <4>2. Tells(m, p) => m.op = "tell" BY <1>2, <2>3 DEF Tells, Shape
      <4>3. Tells(m, p) => m.v = row[p].v BY <1>2, <2>3, <4>1, <4>2 DEF Shape
      <4> QED BY <1>1, <2>3, <3>1, <3>2, <4>3
    <3>4. ~Tells(m, p) => has'[p] = has[p] BY <1>1, <3>1
    <3> QED BY <1>0, <1>2, <3>1, <3>2, <3>3, <3>4 DEF ToldRow
  <2> QED BY <1>0, <2>1, <2>2, <2>3 DEF Told, TypeOK
<1>13. SyncedOK'
  <2>1. ASSUME known = "FE8", job.code # "config", NEW p \in synced \cap Ports PROVE InMemory(p)'
    <3>1. InMemory(p) BY <2>1 DEF SyncedOK
    <3>2. CASE m.op # "fetch"
      <4>1. cache' = cache /\ job.code # "C_FE8_PORT_GET" BY <1>1, <1>5, <3>2
      <4> QED BY <1>0, <1>2, <1>3, <3>1, <4>1 DEF InMemory
    <3>3. CASE m.op = "fetch"
      <4>1. job.code = "C_FE8_PORT_GET" /\ Subject = {} /\ m.u \in Ports BY <1>5, <3>3
      <4> SUFFICES ASSUME p \notin hurt' PROVE cache'[p] = Means(p)
        BY <1>0, <1>3, <4>1 DEF InMemory
      <4>2. CASE p # m.u
        <5>1. cache'[p] = cache[p] /\ p \notin hurt BY <1>1, <3>3, <4>2
        <5> QED BY <3>1, <4>1, <5>1 DEF InMemory
      <4>3. CASE p = m.u
        <5>1. slot = "FE8" /\ cache'[p] = has[p] /\ p \notin hurt BY <1>1, <3>3, <4>3
        <5>2. InCard(p) BY <2>1, <5>1 DEF SyncedOK, UnitsOf
        <5>3. p \in Units /\ Means(p) \in Value /\ has[p] \in Value BY UnitFacts, MeansType
        <5> QED BY <4>1, <5>1, <5>2, <5>3, AlikeFacts DEF InCard
      <4> QED BY <4>2, <4>3
    <3> QED BY <3>2, <3>3
  <2>2. ASSUME slot = known, NEW u \in (synced \cap UnitsOf(slot)) \ hurt' PROVE InCard(u)'
    <3>1. InCard(u) /\ u \in Units BY <1>1, <2>2 DEF SyncedOK, TypeOK
    <3>2. CASE ~Tells(m, u)
      <4>1. has'[u] = has[u] BY <1>1, <3>1, <3>2
      <4>2. Alike(u, has[u], Means(u))' <=> Alike(u, has[u], Means(u)) BY <1>0, <1>3, <4>1 DEF Alike
      <4> QED BY <1>0, <1>2, <1>3, <3>1, <4>1, <4>2 DEF InCard
    <3>3. CASE Tells(m, u)
      <4>1. m.op # "fetch" /\ u \in Of(m.u) BY <3>3 DEF Tells
      <4>2. job.code # "config"
        <5> SUFFICES ASSUME job.code = "config" PROVE FALSE OBVIOUS
        <5>1. synced \cap UnitsOf(known) = {} BY DEF SyncedOK
        <5> QED BY <2>2, <5>1
      <4>3. u \in Subject BY <1>5, <4>1, <4>2
      <4>4. job.code = "C_CARD_SET" => has'[u][2] = has[u][2] BY <1>1, <1>5, <3>1, <4>1
      <4> QED BY <1>0, <1>2, <1>3, <3>1, <4>3, <4>4 DEF InCard
    <3> QED BY <3>2, <3>3
  <2>3. job.code = "config" => synced \cap UnitsOf(known) = {} BY DEF SyncedOK
  <2> QED BY <1>0, <2>1, <2>2, <2>3 DEF SyncedOK, UnitsOf
<1>14. RowsMid' BY <1>0, <1>2, <1>3 DEF RowsMid
<1> QED BY <1>2, <1>4, <1>9, <1>10, <1>11, <1>12, <1>13, <1>14

----------------------------------------------------------------------------
\* Changes of the tables: what they are for, and what they do.
Writes == {"save", "mark", "unmark", "name", "base", "nobase", "norows"}

LEMMA DatabaseOf ==
  ASSUME TypeOK, JobOK, NEW s \in Steps, s.op \in Writes
  PROVE  /\ job.code # "C_FE8_PORT_GET" /\ (job.code = "config" => known # "FE8")
         /\ s.op = "save" => /\ s.u \in Units /\ Of(s.u) = {s.u}
                             /\ job.code \in (IF s.u \in Ports THEN Whole \cup {"C_CARD_SET"} ELSE Radio \cup {"config"})
         /\ s.op = "mark" => s.u \in Far /\ Of(s.u) = {s.u} /\ s.v = Fresh /\ job.code \in Reset \cup {"config"}
         /\ s.op \in {"save", "mark"} /\ job.code # "config" => s.u \in Subject /\ s.v = job.v
         /\ s.op = "unmark" => job.code = "config" /\ s.u \in Far /\ Of(s.u) = {s.u} /\ s.v = Fresh
         /\ s.op \in {"save", "mark", "unmark"} /\ job.code = "config" =>
              known = "FSA600" /\ s.u \in Far /\ Alike(s.u, Means(s.u), s.v)
         /\ s.op = "name" => job.code = "C_ONU_SET" /\ s.u = "remote" /\ Of(s.u) = {s.u} /\ Subject = {}
         /\ s.op \in {"nobase", "norows"} => job.code = "config" /\ known = "FSA" /\ Of(s.u) = Ports
         /\ s.op = "base" => job.code = "C_CARD_SET"
         /\ job.code = "C_CARD_SET" /\ s.op # "base" => s.op = "save" /\ known = "FE8" /\ Subject = Ports
<1>0. job.code \in Codes \cup {"none", "config"} /\ known \in Types \cup {"none"}
  <2> HIDE DEF Units, Value, Step
  <2> QED BY DEF TypeOK
<1>1. Shape(s) BY DEF JobOK
<1>f. \A u \in Far : u \in Units /\ u \notin Ports /\ Of(u) = {u} BY UnitFacts
<1>p. Of("all") = Ports /\ (\A u \in Ports : u \in Units /\ Of(u) = {u}) /\ "remote" \in Far BY UnitFacts
<1> HIDE DEF Units, Far, Ports
<1>2. CASE job.code \in Whole
  <2>1. s.op = "save" /\ s.u = job.u /\ s.v = job.v BY <1>1, <1>2 DEF Shape, Whole, Writes
  <2>2. s.u \in Ports BY <1>2, <2>1 DEF JobOK
  <2>3. Subject = {job.u} BY <1>2 DEF Subject, Whole
  <2> QED BY <1>2, <1>p, <2>1, <2>2, <2>3 DEF Whole
<1>3. CASE job.code \in Radio
  <2>1. s.op = "save" /\ s.u = job.u /\ s.v = job.v BY <1>1, <1>3 DEF Shape, Radio, Writes
  <2>2. s.u \in Far BY <1>3, <2>1 DEF JobOK
  <2>3. Subject = {job.u} BY <1>3 DEF Subject, Radio
  <2> QED BY <1>3, <1>f, <2>1, <2>2, <2>3 DEF Radio
<1>4. CASE job.code \in Reset
  <2>1. s.op = "mark" /\ s.u = job.u /\ s.v = Fresh /\ job.v = Fresh BY <1>1, <1>4 DEF Shape, Reset, Writes, JobOK
  <2>2. s.u \in Far BY <1>4, <2>1 DEF JobOK
  <2>3. Subject = {job.u} BY <1>4 DEF Subject, Reset
  <2> QED BY <1>4, <1>f, <2>1, <2>2, <2>3 DEF Reset
<1>5. CASE job.code = "C_CARD_SET"
  <2>1. s.op \in {"base", "save"} /\ s.v = job.v /\ (s.op = "save" => s.u \in Ports /\ known = "FE8")
    BY <1>1, <1>5 DEF Shape, Writes
  <2>2. known = "FE8" => Subject = Ports BY <1>5 DEF Subject
  <2> QED BY <1>5, <1>p, <2>1, <2>2
<1>6. CASE job.code = "C_ONU_SET"
  <2>1. s.op = "name" /\ s.u = "remote" BY <1>1, <1>6 DEF Shape
  <2>2. Subject = {} BY <1>6 DEF Subject
  <2> QED BY <1>6, <1>f, <1>p, <2>1, <2>2
<1>7. CASE job.code = "config"
  <2>1. known # "none" /\ known # "FE8" BY <1>1, <1>7 DEF Shape, JobOK, Writes
  <2>2. CASE known = "FSA600"
    <3>1. s.op \in {"save", "mark", "unmark"} /\ s.u \in Far /\ Alike(s.u, Means(s.u), s.v)
          /\ (s.op \in {"mark", "unmark"} => s.v = Fresh)
      BY <1>1, <1>7, <2>2 DEF Shape, Writes
    <3> QED BY <1>7, <1>f, <2>2, <3>1
  <2>3. CASE known = "FSA"
    <3>1. s.op \in {"nobase", "norows"} /\ s.u = "all" BY <1>1, <1>7, <2>3 DEF Shape
    <3> QED BY <1>7, <1>p, <2>3, <3>1
  <2> QED BY <1>0, <2>1, <2>2, <2>3 DEF Types
<1>8. job.code \notin {"none", "C_FE8_PORT_GET"} BY <1>1 DEF Shape, Writes
<1> QED BY <1>0, <1>2, <1>3, <1>4, <1>5, <1>6, <1>7, <1>8 DEF Codes, Whole, Radio, Reset

Rows == [v : Value, flag : {1, 2}]

LEMMA RowFacts ==
  /\ NoRow \notin Rows
  /\ \A v \in Value, f \in {1, 2} : [v |-> v, flag |-> f] \in Rows
  /\ \A r \in Rows : r.v \in Value /\ r.flag \in {1, 2} /\ [r EXCEPT !.flag = 2] \in Rows
                   /\ [r EXCEPT !.flag = 2].flag = 2
  /\ TableDefault \in Rows
<1>1. NoRow \notin Rows BY CardSettingsAssumption DEF CardSettingsAssumption, Rows
<1>2. <<1, 1>> \in Value BY ValueFacts DEF Bit
<1> HIDE DEF Value
<1>3. \A v \in Value, f \in {1, 2} : [v |-> v, flag |-> f] \in Rows BY DEF Rows
<1>4. \A r \in Rows : r.v \in Value /\ r.flag \in {1, 2} /\ [r EXCEPT !.flag = 2] \in Rows
                   /\ [r EXCEPT !.flag = 2].flag = 2
  BY DEF Rows
<1>5. TableDefault \in Rows BY <1>2, <1>3 DEF TableDefault
<1> QED BY <1>1, <1>3, <1>4, <1>5

LEMMA DatabaseDoes ==
  ASSUME IInv, Database
  PROVE  /\ m \in Steps /\ m.op \in Writes
         /\ row' \in [Units -> Rows \cup {NoRow}] /\ base' \in BOOLEAN /\ (job.code # "config" => (base => base'))
         /\ \A u \in Units : u \notin Of(m.u) \/ m.op \in {"base", "nobase"} => row'[u] = row[u]
         /\ \A u \in Units : u = m.u =>
              /\ m.op = "save" /\ u \in Ports => row'[u] = [v |-> cache[u], flag |-> 1] /\ Means(u)' = cache[u]
              /\ m.op = "save" /\ u \in Far => Alike(u, Means(u)', m.v)
              /\ m.op \in {"mark", "unmark"} => Means(u)' = Fresh
         /\ m.op = "name" /\ row[m.u] # NoRow => row'[m.u] = row[m.u]
         /\ m.op = "norows" => \A p \in Ports : row'[p] = NoRow
<1> USE DEF IInv
<1>0. /\ todo # <<>> /\ todo' = Tail(todo) /\ m.op \in Writes
      /\ base' = ((base /\ m.op # "nobase") \/ m.op = "base")
      /\ row' = [u \in Units |-> IF u \in Of(m.u) /\ m.op \notin {"base", "nobase"}
                                THEN Stored(u) ELSE row[u]]
      /\ UNCHANGED <<job, known, cache>>
  BY DEF Database, Ready, Writes
<1>1. m \in Steps /\ m.v \in Value /\ m.u \in Units \cup {"all"} BY <1>0, StepTaken
<1> HIDE DEF m
<1>2. /\ m.op = "save" => m.u \in Units /\ Of(m.u) = {m.u}
      /\ m.op \in {"mark", "unmark"} => m.u \in Far /\ Of(m.u) = {m.u}
      /\ m.op = "name" => m.u \in Far /\ Of(m.u) = {m.u}
      /\ m.op \in {"nobase", "norows"} => job.code = "config" /\ Of(m.u) = Ports
  BY <1>0, <1>1, DatabaseOf, UnitFacts
<1>3. row \in [Units -> Rows \cup {NoRow}] /\ cache \in [Ports -> Value] /\ base \in BOOLEAN BY DEF TypeOK, Rows
<1>4. Ports \subseteq Units /\ Far \subseteq Units /\ Ports \cap Far = {} /\ Units = Ports \cup Far /\ "local" \notin Ports
  BY UnitFacts
<1>5. m.op = "save" =>
        /\ m.u \in Ports => Stored(m.u) = [v |-> cache[m.u], flag |-> 1]
        /\ m.u \in Far => Stored(m.u) = [v |-> IF m.u = "local" THEN <<m.v[1], m.v[1]>> ELSE m.v, flag |-> 1]
  BY <1>4 DEF Stored
<1>6. <<m.v[1], m.v[1]>> \in Value /\ <<m.v[1], m.v[1]>>[1] = m.v[1] BY <1>1, ValueFacts
<1>7. m.op = "save" => Stored(m.u) \in Rows /\ Stored(m.u).flag = 1
  <2> SUFFICES ASSUME m.op = "save" PROVE Stored(m.u) \in Rows /\ Stored(m.u).flag = 1 OBVIOUS
  <2>1. ASSUME NEW w \in Value PROVE [v |-> w, flag |-> 1] \in Rows
    <3> HIDE DEF Value
    <3> QED BY RowFacts
  <2>2. CASE m.u \in Ports
    <3>1. cache[m.u] \in Value BY <1>3, <2>2
    <3> QED BY <1>5, <2>1, <2>2, <3>1
  <2>3. CASE m.u \in Far
    <3> DEFINE w == IF m.u = "local" THEN <<m.v[1], m.v[1]>> ELSE m.v
    <3>1. w \in Value BY <1>1, <1>6
    <3>2. Stored(m.u) = [v |-> w, flag |-> 1] BY <1>5, <2>3
    <3> HIDE DEF w
    <3> QED BY <2>1, <3>1, <3>2
  <2> QED BY <1>2, <1>4, <2>2, <2>3
<1>8. m.op = "mark" => Stored(m.u) \in Rows /\ Stored(m.u).flag = 2
  <2> DEFINE r == IF row[m.u] = NoRow THEN TableDefault ELSE row[m.u]
  <2>1. m.op = "mark" => Stored(m.u) = [r EXCEPT !.flag = 2]
    BY DEF Stored
  <2>2. m.op = "mark" => r \in Rows BY <1>2, <1>3, <1>4, RowFacts
  <2> HIDE DEF r
  <2> QED BY <2>1, <2>2, RowFacts
<1>9. m.op \in {"unmark", "norows"} => \A u : Stored(u) = NoRow BY DEF Stored
<1>10. m.op = "name" => Stored(m.u) \in Rows /\ (row[m.u] # NoRow => Stored(m.u) = row[m.u])
  BY <1>2, <1>3, <1>4, RowFacts DEF Stored
<1>11. row' \in [Units -> Rows \cup {NoRow}]
  <2> SUFFICES ASSUME NEW u \in Units PROVE row'[u] \in Rows \cup {NoRow} BY <1>0
  <2>1. CASE u \in Of(m.u) /\ m.op \notin {"base", "nobase"}
    <3>1. row'[u] = Stored(u) BY <1>0, <2>1
    <3>2. m.op \in {"save", "mark", "unmark", "name"} => u = m.u BY <1>2, <2>1
    <3> QED BY <1>0, <1>7, <1>8, <1>9, <1>10, <2>1, <3>1, <3>2 DEF Writes
  <2>2. CASE ~(u \in Of(m.u) /\ m.op \notin {"base", "nobase"})
    <3>1. row'[u] = row[u] BY <1>0, <2>2
    <3> QED BY <1>3, <3>1
  <2> QED BY <2>1, <2>2
<1>12. \A u \in Units : u \notin Of(m.u) \/ m.op \in {"base", "nobase"} => row'[u] = row[u] BY <1>0
<1>13. m.op \in {"save", "mark", "unmark", "name"} => row'[m.u] = Stored(m.u)
  BY <1>0, <1>2, <1>4
<1>14. ASSUME NEW u \in Units, u = m.u
       PROVE  /\ m.op = "save" /\ u \in Ports => row'[u] = [v |-> cache[u], flag |-> 1] /\ Means(u)' = cache[u]
              /\ m.op = "save" /\ u \in Far => Alike(u, Means(u)', m.v)
              /\ m.op \in {"mark", "unmark"} => Means(u)' = Fresh
  <2>1. m.op \in {"save", "mark", "unmark"} => row'[u] = Stored(u) BY <1>13, <1>14
  <2>2. m.op = "save" => Means(u)' = Stored(u).v
    <3>1. m.op = "save" => row'[u] # NoRow /\ row'[u].flag = 1 BY <1>7, <1>14, <2>1, RowFacts
    <3> QED BY <2>1, <3>1 DEF Means
  <2>3. m.op \in {"mark", "unmark"} => Means(u)' = Fresh
    <3>1. m.op \in {"mark", "unmark"} => row'[u] = NoRow \/ row'[u].flag = 2 BY <1>8, <1>9, <1>14, <2>1
    <3> QED BY <3>1 DEF Means
  <2>4. m.op = "save" /\ u \in Ports => row'[u] = [v |-> cache[u], flag |-> 1] /\ Means(u)' = cache[u]
    BY <1>5, <1>14, <2>1, <2>2
  <2>5. ASSUME m.op = "save", u \in Far PROVE Alike(u, Means(u)', m.v)
    <3>1. Means(u)' = IF u = "local" THEN <<m.v[1], m.v[1]>> ELSE m.v BY <1>5, <1>14, <2>2, <2>5
    <3>2. <<"local", 2>> \notin Parts BY DEF Parts
    <3> QED BY <1>6, <3>1, <3>2 DEF Alike
  <2> QED BY <2>3, <2>4, <2>5
<1>18. m.op = "norows" => \A p \in Ports : row'[p] = NoRow BY <1>0, <1>2, <1>4, <1>9
<1> QED BY <1>0, <1>1, <1>2, <1>3, <1>10, <1>11, <1>12, <1>13, <1>14, <1>18

\* What a row means changes only for the unit of a save or a reset, and not for
\* a card that is being configured.
LEMMA DatabaseMeans ==
  ASSUME IInv, Database
  PROVE  /\ \A u \in Units : row'[u] = row[u] => Means(u)' = Means(u)
         /\ \A u \in Units : row'[u] # row[u] =>
              \/ m.op \in {"save", "mark"} /\ u = m.u
              \/ m.op = "unmark" /\ u = m.u /\ job.code = "config"
              \/ m.op = "norows" /\ u \in Ports /\ job.code = "config" /\ known = "FSA"
              \/ m.op = "name" /\ u = m.u /\ u = "remote" /\ row[u] = NoRow /\ job.code = "C_ONU_SET" /\ Subject = {}
         /\ job.code = "config" => known # "FE8"
         /\ job.code = "config" /\ known = "FSA600" => \A u \in Units : Alike(u, Means(u)', Means(u))
<1> USE DEF IInv
<1>1. /\ m \in Steps /\ m.op \in Writes
      /\ \A u \in Units : u \notin Of(m.u) \/ m.op \in {"base", "nobase"} => row'[u] = row[u]
      /\ \A u \in Units : u = m.u =>
           /\ m.op = "save" /\ u \in Far => Alike(u, Means(u)', m.v)
           /\ m.op \in {"mark", "unmark"} => Means(u)' = Fresh
      /\ m.op = "name" /\ row[m.u] # NoRow => row'[m.u] = row[m.u]
  BY DatabaseDoes
<1> HIDE DEF m
<1>2. /\ job.code = "config" => known # "FE8"
      /\ m.op = "save" => Of(m.u) = {m.u}
      /\ m.op = "mark" => Of(m.u) = {m.u} /\ m.v = Fresh
      /\ m.op = "unmark" => job.code = "config" /\ Of(m.u) = {m.u} /\ m.v = Fresh
      /\ m.op \in {"save", "mark", "unmark"} /\ job.code = "config" =>
           m.u \in Far /\ Alike(m.u, Means(m.u), m.v)
      /\ m.op = "name" => job.code = "C_ONU_SET" /\ m.u = "remote" /\ Of(m.u) = {m.u} /\ Subject = {}
      /\ m.op \in {"nobase", "norows"} => job.code = "config" /\ known = "FSA" /\ Of(m.u) = Ports
  BY <1>1, DatabaseOf
<1>3. \A u \in Units : row'[u] = row[u] => Means(u)' = Means(u) BY DEF Means
<1>4. \A u \in Units : row'[u] # row[u] =>
              \/ m.op \in {"save", "mark"} /\ u = m.u
              \/ m.op = "unmark" /\ u = m.u /\ job.code = "config"
              \/ m.op = "norows" /\ u \in Ports /\ job.code = "config" /\ known = "FSA"
              \/ m.op = "name" /\ u = m.u /\ u = "remote" /\ row[u] = NoRow /\ job.code = "C_ONU_SET" /\ Subject = {}
  <2> HIDE DEF IInv, Units, Ports
  <2> QED BY <1>1, <1>2 DEF Writes
<1>5. ASSUME job.code = "config", known = "FSA600", NEW u \in Units
      PROVE  Alike(u, Means(u)', Means(u))
  <2>1. CASE row'[u] = row[u] BY <1>3, <2>1 DEF Alike
  <2>2. CASE row'[u] # row[u]
    <3>1. m.op \in {"save", "mark", "unmark"} /\ u = m.u BY <1>4, <1>5, <2>2
    <3>2. u \in Far /\ Alike(u, Means(u), m.v) BY <1>2, <1>5, <3>1
    <3>3. Alike(u, Means(u)', m.v) BY <1>1, <1>2, <3>1, <3>2 DEF Alike
    <3> QED BY <3>2, <3>3 DEF Alike
  <2> QED BY <2>1, <2>2
<1> QED BY <1>2, <1>3, <1>4, <1>5

\* A saved row has the setting of the job.
LEMMA DatabaseSaves ==
  ASSUME IInv, Database, NEW u \in Units, m.op \in {"save", "mark"}, u = m.u
  PROVE  /\ u \in Ports => row'[u] # NoRow /\ row'[u].v = cache[u] /\ Means(u)' = cache[u]
         /\ job.code # "config" => /\ u \in Subject /\ m.v = job.v
                                   /\ Matches(u, Means(u)', job.v)
         /\ \A s \in Steps' : ~Tells(s, u) /\ ~Fills(s, u)
<1> USE DEF IInv
<1>0. todo # <<>> /\ todo' = Tail(todo) /\ (m.if => rsp) /\ UNCHANGED <<job, known>>
  BY DEF Database, Ready
<1>1. /\ m \in Steps /\ m.op \in Writes
      /\ m.op = "save" /\ u \in Ports => row'[u] = [v |-> cache[u], flag |-> 1] /\ Means(u)' = cache[u]
      /\ m.op = "save" /\ u \in Far => Alike(u, Means(u)', m.v)
      /\ m.op \in {"mark", "unmark"} => Means(u)' = Fresh
  BY DatabaseDoes
<1>2. /\ (\A s \in Steps : s = m \/ s \in Steps')
      /\ \A s \in Steps' : Saves(m, u) => ~Tells(s, u) /\ ~Fills(s, u)
  BY <1>0, StepTaken
<1> HIDE DEF m
<1>3. /\ m.op = "save" => job.code \in (IF m.u \in Ports THEN Whole \cup {"C_CARD_SET"} ELSE Radio \cup {"config"})
      /\ m.op = "mark" => m.u \in Far /\ m.v = Fresh /\ job.code \in Reset \cup {"config"}
      /\ m.op \in {"save", "mark"} /\ job.code # "config" => m.u \in Subject /\ m.v = job.v
      /\ job.code = "C_CARD_SET" /\ m.op # "base" => known = "FE8"
  BY <1>1, DatabaseOf
<1>4. \A s \in Steps' : ~Tells(s, u) /\ ~Fills(s, u) BY <1>2 DEF Saves
<1>5. u \in Ports => m.op = "save" /\ row'[u] # NoRow /\ row'[u].v = cache[u] /\ Means(u)' = cache[u]
  <2> SUFFICES ASSUME u \in Ports PROVE m.op = "save" /\ row'[u] # NoRow /\ row'[u].v = cache[u] /\ Means(u)' = cache[u]
    OBVIOUS
  <2>1. m.op = "save" BY <1>3, UnitFacts
  <2>2. cache[u] \in Value BY DEF TypeOK
  <2>3. [v |-> cache[u], flag |-> 1] # NoRow BY <2>2, RowFacts
  <2> QED BY <1>1, <2>1, <2>3
<1>6. ASSUME job.code # "config" PROVE Matches(u, Means(u)', job.v)
  <2>1. CASE u \in Ports
    <3>1. \A s \in Steps : ~Fills(s, u) BY <1>2, <1>4 DEF Fills
    <3>2. FilledFor(u) BY <2>1 DEF Filled
    <3>3. ~Dead BY <1>0, <1>1 DEF Dead
    <3>4. job.code \in Whole \cup {"C_CARD_SET"} BY <1>3, <1>5, <2>1
    <3>5. job.code \in Whole => u = job.u
      <4>1. job.code \in Whole => Subject = {job.u} BY DEF Subject, Whole
      <4> QED BY <1>3, <1>6, <4>1
    <3>6. job.code \in Whole => cache[u] = job.v BY <3>1, <3>2, <3>3, <3>5 DEF FilledFor
    <3>7. job.code = "C_CARD_SET" => cache[u][1] = job.v[1] BY <1>3, <1>5, <2>1, <3>1, <3>2, <3>3 DEF FilledFor
    <3> QED BY <1>5, <2>1, <3>4, <3>6, <3>7 DEF Matches, Alike, Whole
  <2>2. CASE u \in Far
    <3>1. job.code # "C_CARD_SET" BY <1>3, <2>2, UnitFacts DEF Radio, Reset
    <3>2. m.v = job.v BY <1>3, <1>6
    <3> QED BY <1>1, <1>3, <2>2, <3>1, <3>2 DEF Matches, Alike
  <2> QED BY <2>1, <2>2, UnitFacts
<1> QED BY <1>3, <1>4, <1>5, <1>6

LEMMA DatabaseKeeps ==
  ASSUME IInv, Database
  PROVE  IInv'
<1> USE DEF IInv
<1>0. /\ todo # <<>> /\ todo' = Tail(todo) /\ (m.if => rsp)
      /\ saved' = (IF m.op \in {"save", "mark"} THEN saved \cup {m.u} ELSE saved)
      /\ untrue' = untrue
           \cup (IF m.op = "save" /\ job.code = "C_CARD_SET" /\ m.u \notin synced THEN {<<m.u, 2>>} ELSE {})
           \cup (IF m.op = "name" /\ row[m.u] = NoRow THEN {m.u} \X {1, 2} ELSE {})
      /\ synced' = (IF m.op = "norows" THEN synced \ Ports
                   ELSE IF m.op = "name" /\ row[m.u] = NoRow THEN synced \ {m.u} ELSE synced)
      /\ wanted' = [x \in Units \X {1, 2} |-> IF m.op = "norows" /\ x[1] \in Ports THEN Unset ELSE wanted[x]]
      /\ UNCHANGED <<slot, has, known, cache, job, rsp, late, replied, hurt, used>>
  BY DEF Database, Ready
<1>1. /\ todo' \in Seq(Step) /\ m \in Steps /\ Steps' \subseteq Steps /\ (\A s \in Steps : s = m \/ s \in Steps')
      /\ Order' /\ Subject' = Subject /\ Set' = Set /\ job # NoJob /\ job.code # "none"
      /\ \A u \in Units \ hurt : Saves(m, u) => Matches(u, has[u], m.v)
      /\ \A i \in DOMAIN todo', u \in Units \ hurt : Saves(todo'[i], u) =>
           \/ \E j \in DOMAIN todo' : j < i /\ Tells(todo'[j], u)
           \/ Tells(m, u) /\ m.v = todo'[i].v
           \/ Matches(u, has[u], todo'[i].v)
  BY <1>0, StepTaken
<1>2. /\ m.op \in Writes /\ row' \in [Units -> Rows \cup {NoRow}] /\ base' \in BOOLEAN
      /\ m.op = "norows" => \A p \in Ports : row'[p] = NoRow
      /\ \A u \in Units : u = m.u =>
           /\ m.op = "save" /\ u \in Ports => row'[u] = [v |-> cache[u], flag |-> 1] /\ Means(u)' = cache[u]
           /\ m.op = "save" /\ u \in Far => Alike(u, Means(u)', m.v)
           /\ m.op \in {"mark", "unmark"} => Means(u)' = Fresh
  BY DatabaseDoes
<1>3. /\ \A u \in Units : row'[u] = row[u] => Means(u)' = Means(u)
      /\ \A u \in Units : row'[u] # row[u] =>
              \/ m.op \in {"save", "mark"} /\ u = m.u
              \/ m.op = "unmark" /\ u = m.u /\ job.code = "config"
              \/ m.op = "norows" /\ u \in Ports /\ job.code = "config" /\ known = "FSA"
              \/ m.op = "name" /\ u = m.u /\ u = "remote" /\ row[u] = NoRow /\ job.code = "C_ONU_SET" /\ Subject = {}
      /\ job.code = "config" => known # "FE8"
      /\ job.code = "config" /\ known = "FSA600" => \A u \in Units : Alike(u, Means(u)', Means(u))
  BY DatabaseMeans
<1>4. \A u \in Units : m.op \in {"save", "mark"} /\ u = m.u =>
        /\ u \in Ports => row'[u] # NoRow /\ row'[u].v = cache[u] /\ Means(u)' = cache[u]
        /\ job.code # "config" => /\ u \in Subject /\ m.v = job.v
                                  /\ Matches(u, Means(u)', job.v)
        /\ \A s \in Steps' : ~Tells(s, u) /\ ~Fills(s, u)
  BY DatabaseSaves
<1> HIDE DEF m
<1>5. /\ m.op = "save" => m.u \in Units
      /\ m.op = "mark" => m.u \in Far
      /\ m.op = "name" => m.u = "remote"
      /\ m.op \in {"save", "mark", "unmark"} /\ job.code = "config" => known = "FSA600" /\ m.u \in Far
      /\ job.code = "C_CARD_SET" /\ m.op # "base" => m.op = "save" /\ known = "FE8" /\ Subject = Ports
      /\ m.op = "mark" => job.code \in Reset \cup {"config"}
  BY <1>1, <1>2, DatabaseOf
<1>6. m.op \in {"save", "mark", "name"} => m.u \in Units BY <1>5, UnitFacts
<1>7. (\A u : ~Tells(m, u) /\ ~Fills(m, u)) /\ ~Dead BY <1>0, <1>1, <1>2 DEF Tells, Fills, Dead, Writes
<1>8. \A u, a, b : Matches(u, a, b)' <=> Matches(u, a, b) BY <1>0 DEF Matches, Alike
<1>9. saved \subseteq Units /\ synced \subseteq Units /\ untrue \subseteq Units \X {1, 2} /\ synced' \subseteq synced
  BY <1>0 DEF TypeOK
<1>10. TypeOK'
  <2>1. row' \in [Units -> [v : Value, flag : {1, 2}] \cup {NoRow}] BY <1>2 DEF Rows
  <2>2. saved' \subseteq Units /\ synced' \subseteq Units BY <1>0, <1>6, <1>9
  <2>3. untrue' \subseteq Units \X {1, 2} BY <1>0, <1>6, <1>9
  <2>4. wanted' \in [Units \X {1, 2} -> Bit \cup {Unset}] BY <1>0 DEF TypeOK
  <2> QED BY <1>0, <1>1, <1>2, <2>1, <2>2, <2>3, <2>4 DEF TypeOK
<1>11. JobOK'
  <2>1. ASSUME NEW p \in Ports, row'[p] # NoRow PROVE row'[p].flag = 1
    <3>1. p \in Units /\ p \notin Far /\ p # "remote" BY UnitFacts
    <3>2. CASE row'[p] = row[p] BY <2>1, <3>2 DEF JobOK
    <3>3. CASE row'[p] # row[p]
      <4>1. m.op = "save" /\ p = m.u BY <1>2, <1>3, <1>5, <2>1, <3>1, <3>3
      <4> QED BY <1>2, <2>1, <3>1, <4>1
    <3> QED BY <3>2, <3>3
  <2>2. ASSUME NEW s \in Steps' PROVE Shape(s)'
    <3>1. Shape(s) BY <1>1 DEF JobOK
    <3>2. CASE job.code # "config" BY <1>0, <3>1, <3>2 DEF Shape
    <3>3. CASE job.code = "config"
      <4>1. known # "FE8" BY <1>3, <3>3
      <4>2. ASSUME known = "FSA600", s.u \in Far, Alike(s.u, Means(s.u), s.v) PROVE Alike(s.u, Means(s.u), s.v)'
        <5>1. s.u \in Units BY <4>2, UnitFacts
        <5>2. Alike(s.u, Means(s.u)', Means(s.u)) BY <1>3, <3>3, <4>2, <5>1
        <5> QED BY <4>2, <5>2 DEF Alike
      <4>3. known \in Types /\ known # "none"
        <5> HIDE DEF Units, Value, Step
        <5> QED BY <3>3 DEF JobOK, TypeOK
      <4> QED BY <1>0, <3>1, <3>3, <4>1, <4>2, <4>3 DEF Shape, Types, Radio, Reset
    <3> QED BY <3>2, <3>3
  <2> QED BY <1>0, <1>1, <2>1, <2>2 DEF JobOK
<1>12. Filled'
  <2> SUFFICES ASSUME NEW u \in Ports, \A s \in Steps' : ~Fills(s, u)
               PROVE  /\ job.code \in Whole /\ u = job.u => cache[u] = job.v
                      /\ job.code = "C_CARD_SET" /\ known = "FE8" => cache[u][1] = job.v[1]
    BY <1>0 DEF Filled, FilledFor
  <2>1. \A s \in Steps : ~Fills(s, u) BY <1>1, <1>7
  <2> QED BY <1>7, <2>1 DEF Filled, FilledFor
<1>13. SavedOK'
  <2> SUFFICES ASSUME NEW u \in saved' PROVE SavedFor(u)' BY DEF SavedOK
  <2>0. u \in Units BY <1>0, <1>6, <1>9
  <2>1. CASE m.op \in {"save", "mark"} /\ u = m.u
    <3>1. /\ u \in Ports => row'[u] # NoRow /\ row'[u].v = cache[u]
          /\ job.code # "config" => u \in Subject /\ Matches(u, Means(u)', job.v)
          /\ \A s \in Steps' : ~Tells(s, u) /\ ~Fills(s, u)
      BY <1>4, <2>0, <2>1
    <3>2. job.code = "config" => known = "FSA600" /\ u \in Far BY <1>5, <2>1
    <3>3. ASSUME NEW i \in {1, 2}, <<u, i>> \in Set \cap Parts, job.code # "config" PROVE Means(u)'[i] = job.v[i]
      <4>1. job.code = "C_CARD_SET" => i = 1 BY <3>3 DEF Set
      <4> QED BY <3>1, <3>3, <4>1 DEF Matches, Alike
    <3> QED BY <1>0, <1>1, <3>1, <3>2, <3>3 DEF SavedFor
  <2>2. CASE u \in saved /\ ~(m.op \in {"save", "mark"} /\ u = m.u)
    <3>1. SavedFor(u) BY <2>2 DEF SavedOK
    <3>2. CASE row'[u] = row[u]
      <4>1. Means(u)' = Means(u) BY <1>3, <2>0, <3>2
      <4> QED BY <1>0, <1>1, <3>1, <3>2, <4>1 DEF SavedFor
    <3>3. CASE row'[u] # row[u]
      <4>1. job.code = "config" /\ known = "FSA600" /\ u \in Far
        BY <1>3, <2>0, <2>2, <3>1, <3>3 DEF SavedFor
      <4>2. u \notin Ports BY <4>1, UnitFacts
      <4> QED BY <1>0, <1>1, <3>1, <4>1, <4>2 DEF SavedFor
    <3> QED BY <3>2, <3>3
  <2> QED BY <1>0, <2>1, <2>2
<1>14. Told'
  <2>1. \A i \in DOMAIN todo' : \A u \in Units \ hurt : ToldFirst(i, u)'
    BY <1>0, <1>1, <1>7, <1>8 DEF ToldFirst
  <2>2. ASSUME NEW u \in saved' \ hurt PROVE Matches(u, has[u], Means(u)')
    <3>0. u \in Units BY <1>0, <1>6, <1>9
    <3>1. CASE m.op \in {"save", "mark"} /\ u = m.u
      <4>1. Matches(u, has[u], m.v) BY <1>1, <2>2, <3>0, <3>1 DEF Saves
      <4>2. CASE job.code # "config"
        <5>1. m.v = job.v /\ Matches(u, Means(u)', job.v) BY <1>4, <3>0, <3>1, <4>2
        <5> QED BY <4>1, <5>1 DEF Matches, Alike
      <4>3. CASE job.code = "config"
        <5>1. known = "FSA600" /\ u \in Far /\ u \notin Ports BY <1>5, <3>1, <4>3, UnitFacts
        <5>2. Alike(u, Means(u)', m.v)
          <6>1. CASE m.op = "save" BY <1>2, <3>0, <3>1, <5>1, <6>1
          <6>2. CASE m.op = "mark"
            <7>1. m.v = Fresh BY <1>1, <1>2, <6>2, DatabaseOf
            <7>2. Means(u)' = Fresh BY <1>2, <3>0, <3>1, <6>2
            <7> QED BY <7>1, <7>2 DEF Alike
          <6> QED BY <3>1, <6>1, <6>2
        <5> QED BY <4>1, <4>3, <5>2 DEF Matches, Alike
      <4> QED BY <4>2, <4>3
    <3>2. CASE u \in saved /\ ~(m.op \in {"save", "mark"} /\ u = m.u)
      <4>1. SavedFor(u) /\ Matches(u, has[u], Means(u)) BY <2>2, <3>2 DEF SavedOK, Told
      <4>2. CASE row'[u] = row[u] BY <1>3, <3>0, <4>1, <4>2
      <4>3. CASE row'[u] # row[u]
        <5>1. job.code = "config" /\ known = "FSA600"
          BY <1>3, <3>0, <3>2, <4>1, <4>3 DEF SavedFor
        <5>2. Alike(u, Means(u)', Means(u)) BY <1>3, <3>0, <5>1
        <5> QED BY <4>1, <5>1, <5>2 DEF Matches, Alike
      <4> QED BY <4>2, <4>3
    <3> QED BY <1>0, <2>2, <3>1, <3>2
  <2>3. \A u \in saved' \ hurt : Matches(u, has[u], Means(u))' BY <1>0, <1>8, <2>2
  <2> QED BY <1>0, <1>3, <2>1, <2>3 DEF Told, TypeOK
<1>15. ASSUME NEW p \in Ports, row'[p] # row[p], job.code # "config"
       PROVE  p = m.u /\ m.op = "save" /\ p \in Subject /\ Means(p)' = cache[p]
  <2>1. p \in Units /\ p # "remote" /\ p \notin Far BY UnitFacts
  <2>2. p = m.u /\ m.op \in {"save", "mark"} BY <1>3, <1>15, <2>1
  <2> QED BY <1>4, <1>5, <1>15, <2>1, <2>2
<1>16. SyncedOK'
  <2>1. ASSUME known = "FE8", job.code # "config", NEW p \in synced \cap Ports PROVE InMemory(p)'
    <3>1. InMemory(p) /\ p \in Units BY <1>9, <2>1 DEF SyncedOK
    <3>2. CASE row'[p] = row[p]
      <4>1. Means(p)' = Means(p) BY <1>3, <3>1, <3>2
      <4> QED BY <1>0, <1>1, <3>1, <4>1 DEF InMemory
    <3>3. CASE row'[p] # row[p]
      <4>1. p \in Subject /\ Means(p)' = cache[p] BY <1>15, <2>1, <3>3
      <4> QED BY <1>0, <1>1, <4>1 DEF InMemory
    <3> QED BY <3>2, <3>3
  <2>2. ASSUME slot = known, NEW u \in (synced' \cap UnitsOf(slot)) \ hurt PROVE InCard(u)'
    <3>1. InCard(u) /\ u \in Units /\ u \in synced BY <1>9, <2>2 DEF SyncedOK
    <3>2. job.code # "config"
      <4> SUFFICES ASSUME job.code = "config" PROVE FALSE OBVIOUS
      <4>1. synced \cap UnitsOf(known) = {} BY DEF SyncedOK
      <4> QED BY <2>2, <3>1, <4>1
    <3>3. CASE row'[u] = row[u]
      <4>1. Means(u)' = Means(u) BY <1>3, <3>1, <3>3
      <4>2. Alike(u, has[u], Means(u))' <=> Alike(u, has[u], Means(u)) BY <1>0, <4>1 DEF Alike
      <4> QED BY <1>0, <1>1, <3>1, <4>1, <4>2 DEF InCard
    <3>4. CASE row'[u] # row[u]
      <4>1. m.op \in {"save", "mark"} /\ u = m.u BY <1>0, <1>3, <2>2, <3>1, <3>2, <3>4
      <4>2. u \in Subject BY <1>4, <3>1, <3>2, <4>1
      <4>3. job.code = "C_CARD_SET" /\ u \in Ports => has[u][2] = Means(u)'[2]
        <5> SUFFICES ASSUME job.code = "C_CARD_SET", u \in Ports PROVE has[u][2] = Means(u)'[2] OBVIOUS
        <5>1. known = "FE8" BY <1>5, <4>1
        <5>2. InMemory(u) BY <3>1, <3>2, <5>1 DEF SyncedOK
        <5>3. Means(u)' = cache[u] BY <1>15, <3>2, <3>4
        <5> QED BY <3>1, <5>2, <5>3 DEF InMemory, InCard
      <4> QED BY <1>0, <1>1, <4>2, <4>3 DEF InCard
    <3> QED BY <3>3, <3>4
  <2>3. job.code = "config" => synced \cap UnitsOf(known) = {} BY DEF SyncedOK
  <2> QED BY <1>0, <1>9, <2>1, <2>2, <2>3 DEF SyncedOK, UnitsOf
<1>17. RowsMid'
  <2> SUFFICES ASSUME NEW x \in Parts \ untrue', ~(x \in Set /\ x[1] \in saved')
               PROVE  wanted'[x] \in {Unset, Means(x[1])'[x[2]]}
    BY <1>1 DEF RowsMid
  <2>1. x[1] \in Units /\ x[2] \in {1, 2} /\ x = <<x[1], x[2]>> /\ x \in Units \X {1, 2} BY UnitFacts
  <2>2. wanted[x] \in {Unset, Means(x[1])[x[2]]} BY <1>0 DEF RowsMid
  <2>3. wanted'[x] \in {Unset, wanted[x]} BY <1>0, <2>1
  <2>4. PICK u \in Units : u = x[1] BY <2>1
  <2>5. CASE row'[u] = row[u] BY <1>3, <2>2, <2>3, <2>4, <2>5
  <2>6. CASE row'[u] # row[u] /\ job.code = "config"
    <3>1. CASE m.op = "norows" /\ u \in Ports BY <1>0, <2>1, <2>4, <3>1
    <3>2. CASE known = "FSA600"
      <4>1. Alike(u, Means(u)', Means(u)) BY <1>3, <2>6, <3>2
      <4>2. Means(u)'[x[2]] = Means(u)[x[2]] BY <2>1, <2>4, <4>1 DEF Alike
      <4> QED BY <2>2, <2>3, <2>4, <4>2
    <3> QED BY <1>3, <1>5, <2>6, <3>1, <3>2
  <2>7. CASE row'[u] # row[u] /\ job.code # "config"
    <3>1. m.op \in {"save", "mark"} /\ u = m.u
      <4> SUFFICES ASSUME m.op = "name", u = m.u, row[u] = NoRow PROVE FALSE BY <1>3, <2>7
      <4> QED BY <1>0, <2>1, <2>4
    <3>2. u \in Subject /\ u \in saved' BY <1>0, <1>4, <2>7, <3>1
    <3>3. job.code = "C_CARD_SET" /\ x[2] = 2 BY <2>1, <2>4, <3>2 DEF Set
    <3>4. m.op = "save" /\ known = "FE8" /\ u \in Ports BY <1>5, <3>1, <3>2, <3>3
    <3>5. u \in synced BY <1>0, <2>1, <2>4, <3>1, <3>3, <3>4
    <3>6. InMemory(u) BY <2>7, <3>4, <3>5 DEF SyncedOK
    <3>7. Means(u)' = cache[u] BY <1>15, <2>7, <3>4
    <3> QED BY <2>2, <2>3, <2>4, <3>3, <3>6, <3>7 DEF InMemory
  <2> QED BY <2>5, <2>6, <2>7
<1> QED BY <1>1, <1>10, <1>11, <1>12, <1>13, <1>14, <1>16, <1>17

----------------------------------------------------------------------------
\* The end of a job, its own or that of the agent.
LEMMA SubjectType ==
  ASSUME TypeOK, JobOK
  PROVE  /\ Subject \subseteq Units /\ Set \subseteq Units \X {1, 2}
         /\ job.code \in {"none", "config"} => Subject = {} /\ Set = {}
         /\ \A x \in Set : x[1] \in Subject /\ x = <<x[1], x[2]>>
         /\ job.code = "C_CARD_SET" => Subject \subseteq Ports
<1>0. job.code \in Codes \cup {"none", "config"}
  <2> HIDE DEF Units, Value, Step
  <2> QED BY DEF TypeOK
<1>1. job.code \in Whole \cup Radio \cup Reset => job.u \in Units
  BY UnitFacts DEF JobOK
<1>2. Ports \subseteq Units BY UnitFacts
<1> HIDE DEF Units, Ports
<1>3. Subject \subseteq Units /\ (job.code \in {"none", "config"} => Subject = {})
      /\ (job.code = "C_CARD_SET" => Subject \subseteq Ports)
  BY <1>0, <1>1, <1>2 DEF Subject, Codes, Whole, Radio, Reset
<1>4. Set \subseteq Units \X {1, 2} /\ \A x \in Set : x[1] \in Subject /\ x = <<x[1], x[2]>>
  BY <1>3 DEF Set
<1>5. job.code \in {"none", "config"} => Set = {} BY <1>3 DEF Set
<1> QED BY <1>3, <1>4, <1>5

LEMMA OverRows ==
  ASSUME IInv, NEW said \in BOOLEAN, Over(said), row' = row, job' = NoJob
  PROVE  /\ wanted' \in [Units \X {1, 2} -> Bit \cup {Unset}] /\ untrue' \subseteq Units \X {1, 2} /\ synced' \subseteq Units
         /\ RowsMid'
<1> USE DEF IInv
<1>1. /\ wanted' = [x \in Units \X {1, 2} |-> IF said /\ x \in Set THEN job.v[x[2]] ELSE wanted[x]]
      /\ untrue' = {x \in untrue : ~(x \in Set /\ said /\ x[1] \in saved)}
                   \cup {x \in Set : said # (x[1] \in saved)}
  BY DEF Over
<1>2. /\ Subject \subseteq Units /\ Set \subseteq Units \X {1, 2}
      /\ job.code \in {"none", "config"} => Subject = {} /\ Set = {}
      /\ \A x \in Set : x[1] \in Subject /\ x = <<x[1], x[2]>>
  BY SubjectType
<1>3. /\ wanted \in [Units \X {1, 2} -> Bit \cup {Unset}] /\ untrue \subseteq Units \X {1, 2}
      /\ synced \subseteq Units /\ saved \subseteq Units /\ job.v \in Value
  <2> HIDE DEF Units, Value, Step
  <2> QED BY DEF TypeOK
<1>4. wanted' \in [Units \X {1, 2} -> Bit \cup {Unset}]
  <2> SUFFICES ASSUME NEW x \in Units \X {1, 2}
               PROVE  (IF said /\ x \in Set THEN job.v[x[2]] ELSE wanted[x]) \in Bit \cup {Unset}
    BY <1>1
  <2>1. x[2] \in {1, 2} OBVIOUS
  <2>2. job.v[1] \in Bit /\ job.v[2] \in Bit BY <1>3, ValueFacts
  <2> QED BY <1>3, <2>1, <2>2
<1>5. untrue' \subseteq Units \X {1, 2} BY <1>1, <1>2, <1>3
<1>6. synced' \subseteq Units
  <2>1. Ports \subseteq Units BY UnitFacts
  <2> HIDE DEF Units, Ports
  <2> QED BY <1>2, <1>3, <2>1 DEF Over
<1>7. RowsMid'
  <2> SUFFICES ASSUME NEW x \in Parts \ untrue' PROVE wanted'[x] \in {Unset, Means(x[1])'[x[2]]}
    BY DEF RowsMid
  <2>1. x[1] \in Units /\ x[2] \in {1, 2} /\ x = <<x[1], x[2]>> /\ x \in Units \X {1, 2} BY UnitFacts
  <2>2. Means(x[1])' = Means(x[1]) BY DEF Means
  <2>3. CASE x \in Set /\ said
    <3>1. x[1] \in saved BY <1>1, <2>3
    <3>2. SavedFor(x[1]) /\ job.code # "config" BY <1>2, <2>3, <3>1 DEF SavedOK
    <3>3. Means(x[1])[x[2]] = job.v[x[2]] BY <2>1, <2>3, <3>2 DEF SavedFor
    <3> QED BY <1>1, <2>1, <2>2, <2>3, <3>3
  <2>4. CASE ~(x \in Set /\ said)
    <3>1. x \notin untrue /\ ~(x \in Set /\ x[1] \in saved) BY <1>1, <2>4
    <3>2. wanted[x] \in {Unset, Means(x[1])[x[2]]} BY <3>1 DEF RowsMid
    <3> QED BY <1>1, <2>1, <2>2, <2>4, <3>2
  <2> QED BY <2>3, <2>4
<1> QED BY <1>4, <1>5, <1>6, <1>7

\* With no job there is little left to say.
LEMMA Idle ==
  ASSUME JobOK, job' = NoJob, todo' = <<>>, hurt' = {}, saved' = {}, row' = row, slot' = slot,
         known' \in {known, "none"}, TypeOK', SyncedOK', RowsMid'
  PROVE  IInv'
<1>1. job'.code = "none" /\ Steps' = {} /\ DOMAIN todo' = {} BY DEF NoJob, Steps
<1>2. JobOK' BY <1>1 DEF JobOK, Whole, Radio, Reset
<1>3. Order' BY <1>1 DEF Order, Ordered
<1>4. Filled' BY <1>1 DEF Filled, FilledFor, Whole
<1>5. SavedOK' BY DEF SavedOK
<1>6. Told' BY <1>1 DEF Told
<1> QED BY <1>2, <1>3, <1>4, <1>5, <1>6 DEF IInv

LEMMA EndKeeps ==
  ASSUME IInv, End
  PROVE  IInv'
<1> USE DEF IInv
<1>0. /\ job # NoJob /\ todo = <<>> /\ job' = NoJob /\ rsp' = TRUE /\ replied' = FALSE /\ hurt' = {} /\ saved' = {}
      /\ UNCHANGED <<slot, has, known, cache, todo, base, row, late, used>>
  BY DEF End, tables
<1>1. PICK said \in BOOLEAN : Over(said)
  <2>1. rsp \in BOOLEAN /\ replied \in BOOLEAN BY DEF TypeOK
  <2> QED BY <2>1 DEF End
<1>2. /\ wanted' \in [Units \X {1, 2} -> Bit \cup {Unset}] /\ untrue' \subseteq Units \X {1, 2} /\ synced' \subseteq Units
      /\ RowsMid'
  BY <1>0, <1>1, OverRows
<1>3. Subject \subseteq Units /\ (job.code = "C_CARD_SET" => Subject \subseteq Ports) BY SubjectType
<1>4. Steps = {} BY <1>0, NoSteps
<1>5. job'.code = "none" /\ job'.u = "all" /\ job'.v = <<0, 0>> /\ Subject' = {} BY <1>0 DEF NoJob, Subject
<1>6. \A u : Means(u)' = Means(u) BY <1>0 DEF Means
<1>7. TypeOK'
  <2>1. job' \in [code : Codes \cup {"none", "config"}, u : Units \cup {"all"}, v : Value]
    <3>1. <<0, 0>> \in Value BY ValueFacts DEF Bit
    <3> HIDE DEF Units, Value
    <3> QED BY <1>0, <3>1 DEF NoJob
  <2> QED BY <1>0, <1>2, <2>1 DEF TypeOK
<1>8. job.code # "config" => \A u \in synced' : u \notin hurt /\ (u \in Subject => u \in saved) /\ (u \notin Subject => u \in synced)
                                            /\ (job.code = "C_CARD_SET" => u \in synced)
  BY <1>1 DEF Over
<1>9. job.code = "config" => \A u \in synced' : u \notin hurt
         /\ (u \in synced \/ (slot = "FE8" /\ u \in Ports /\ base /\ row[u] # NoRow) \/ (slot # "FE8" /\ u \in saved))
  BY <1>1 DEF Over
<1>10. \A u \in Units : has[u] \in Value /\ Means(u) \in Value BY MeansType
<1>11. \A p \in Ports : row[p] # NoRow => Means(p) = row[p].v
  <2> SUFFICES ASSUME NEW p \in Ports, row[p] # NoRow PROVE Means(p) = row[p].v OBVIOUS
  <2>1. row[p].flag = 1 /\ p \in Units BY UnitFacts DEF JobOK
  <2> QED BY <2>1, MeansType
<1>12. job.code = "config" => synced \cap UnitsOf(known) = {} BY DEF SyncedOK
<1>13. ASSUME known = "FE8", NEW p \in synced' \cap Ports PROVE cache[p] = Means(p)
  <2>1. CASE job.code = "config"
    <3>1. slot = "FE8" /\ base /\ row[p] # NoRow
      <4>1. p \notin synced BY <1>12, <1>13, <2>1 DEF UnitsOf
      <4>2. p \notin saved BY <1>13, <2>1 DEF SavedOK, SavedFor
      <4> QED BY <1>9, <1>13, <2>1, <4>1, <4>2
    <3>2. p \notin hurt BY <1>9, <1>13, <2>1
    <3>3. ToldRow(p) BY <1>13, <2>1, <3>1, <3>2 DEF Told
    <3> QED BY <1>11, <3>1, <3>3 DEF ToldRow
  <2>2. CASE job.code # "config" /\ p \in Subject
    <3>1. SavedFor(p) BY <1>8, <1>13, <2>2 DEF SavedOK
    <3> QED BY <1>11, <3>1 DEF SavedFor
  <2>3. CASE job.code # "config" /\ p \notin Subject
    <3>1. p \in synced /\ p \notin hurt BY <1>8, <1>13, <2>3
    <3>2. InMemory(p) BY <1>13, <2>3, <3>1 DEF SyncedOK
    <3> QED BY <2>3, <3>1, <3>2 DEF InMemory
  <2> QED BY <2>1, <2>2, <2>3
<1>14. ASSUME slot = known, NEW u \in synced' \cap UnitsOf(slot) PROVE Alike(u, has[u], Means(u))
  <2>0. u \in Units BY <1>2
  <2>1. CASE job.code = "config"
    <3>1. u \notin synced /\ u \notin hurt BY <1>9, <1>12, <1>14, <2>1
    <3>2. CASE slot = "FE8" /\ u \in Ports /\ base /\ row[u] # NoRow
      <4>1. ToldRow(u) BY <1>14, <2>1, <3>1, <3>2 DEF Told
      <4>2. has[u] = Means(u) BY <1>4, <1>11, <3>2, <4>1 DEF ToldRow
      <4> QED BY <4>2 DEF Alike
    <3>3. CASE u \in saved
      <4>1. Matches(u, has[u], Means(u)) BY <3>1, <3>3 DEF Told
      <4> QED BY <2>1, <4>1 DEF Matches
    <3> QED BY <1>9, <1>14, <2>1, <3>1, <3>2, <3>3
  <2>2. CASE job.code # "config" /\ u \in Subject
    <3>1. u \in saved /\ u \notin hurt BY <1>8, <1>14, <2>2
    <3>2. Matches(u, has[u], Means(u)) BY <3>1 DEF Told
    <3>3. CASE job.code # "C_CARD_SET" BY <3>2, <3>3 DEF Matches
    <3>4. CASE job.code = "C_CARD_SET"
      <4>1. u \in synced /\ u \in Ports BY <1>3, <1>8, <1>14, <2>2, <3>4
      <4>2. InCard(u) BY <1>14, <3>1, <4>1 DEF SyncedOK
      <4> QED BY <3>2, <3>4, <4>1, <4>2 DEF Matches, InCard, Alike
    <3> QED BY <3>3, <3>4
  <2>3. CASE job.code # "config" /\ u \notin Subject
    <3>1. u \in synced /\ u \notin hurt BY <1>8, <1>14, <2>3
    <3>2. InCard(u) BY <1>14, <3>1 DEF SyncedOK
    <3> QED BY <2>3, <3>2 DEF InCard
  <2> QED BY <2>1, <2>2, <2>3
<1>15. SyncedOK'
  <2>1. \A w : Alike(w, has[w], Means(w))' <=> Alike(w, has[w], Means(w)) BY <1>0, <1>6 DEF Alike
  <2> QED BY <1>0, <1>5, <1>6, <1>13, <1>14, <2>1 DEF SyncedOK, InMemory, InCard, UnitsOf
<1> QED BY <1>0, <1>2, <1>7, <1>15, Idle

LEMMA RestartKeeps ==
  ASSUME IInv, Restart
  PROVE  IInv'
<1> USE DEF IInv
<1>0. /\ known' = "none" /\ cache' = [p \in Ports |-> <<0, 0>>] /\ job' = NoJob /\ todo' = <<>>
      /\ rsp' = TRUE /\ replied' = FALSE /\ hurt' = {} /\ saved' = {} /\ Fault
      /\ UNCHANGED <<slot, has, base, row, late>>
  BY DEF Restart, tables
<1>1. /\ wanted' \in [Units \X {1, 2} -> Bit \cup {Unset}] /\ untrue' \subseteq Units \X {1, 2} /\ synced' \subseteq Units
      /\ RowsMid'
  <2>1. CASE job.code = "config"
    <3>1. UNCHANGED <<wanted, untrue, synced>> BY <2>1 DEF Restart
    <3>2. Set = {} BY <2>1, SubjectType
    <3>3. \A u : Means(u)' = Means(u) BY <1>0 DEF Means
    <3> QED BY <3>1, <3>2, <3>3 DEF RowsMid, TypeOK
  <2>2. CASE job.code # "config"
    <3>1. replied \in BOOLEAN BY DEF TypeOK
    <3> QED BY <1>0, <2>2, <3>1, OverRows DEF Restart
  <2> QED BY <2>1, <2>2
<1>2. used' \in [req : 0..MaxRequests, pull : 0..MaxPulls, fault : 0..MaxFaults] BY <1>0, FaultType
<1>3. <<0, 0>> \in Value BY ValueFacts DEF Bit
<1>4. TypeOK'
  <2> HIDE DEF Units, Value, Step
  <2>1. job' \in [code : Codes \cup {"none", "config"}, u : Units \cup {"all"}, v : Value] BY <1>0, <1>3 DEF NoJob
  <2>2. todo' \in Seq(Step) BY <1>0
  <2>3. cache' \in [Ports -> Value] BY <1>0, <1>3
  <2> QED BY <1>0, <1>1, <1>2, <2>1, <2>2, <2>3 DEF TypeOK
<1>5. SyncedOK'
  <2>1. known' = "none" /\ UnitsOf("none") = {} /\ job'.code = "none" BY <1>0 DEF UnitsOf, NoJob
  <2> QED BY <1>0, <2>1 DEF SyncedOK
<1> QED BY <1>0, <1>1, <1>4, <1>5, Idle

----------------------------------------------------------------------------
\* The slot.
LEMMA NoticeKeeps ==
  ASSUME IInv, Notice
  PROVE  IInv'
<1> USE DEF IInv
<1>0. /\ job = NoJob /\ slot = "none" /\ known' = "none"
      /\ UNCHANGED <<slot, has, cache, job, todo, rsp, base, row, late, replied, hurt, saved,
                      wanted, untrue, synced, used>>
  BY DEF Notice, tables, history
<1>1. job.code = "none" /\ todo = <<>> /\ hurt = {} /\ saved = {} BY <1>0 DEF JobOK, NoJob
<1>2. TypeOK' BY <1>0 DEF TypeOK
<1>3. SyncedOK'
  <2>1. UnitsOf("none") = {} BY DEF UnitsOf
  <2> QED BY <1>0, <1>1, <2>1 DEF SyncedOK
<1>4. RowsMid'
  <2>1. \A u : Means(u)' = Means(u) BY <1>0 DEF Means
  <2>2. Set = {} /\ Set' = {} BY <1>0, <1>1 DEF Set, Subject
  <2> QED BY <1>0, <2>1, <2>2 DEF RowsMid
<1> QED BY <1>0, <1>1, <1>2, <1>3, <1>4, Idle

\* A card is pulled out or put in: what is being done stays, but for the card.
LEMMA SlotKeeps ==
  ASSUME IInv, TypeOK', slot' \in Types \cup {"none"}, known # "none" => slot' \in {known, "none"},
         UNCHANGED <<known, cache, job, todo, rsp, base, row, saved, wanted, untrue>>,
         hurt \subseteq hurt', synced' \subseteq synced,
         job = NoJob => hurt' = {},
         job # NoJob => \A u \in Units \ hurt' : has'[u] = has[u],
         synced' \cap UnitsOf(slot') = {}
  PROVE  IInv'
<1> USE DEF IInv
<1>1. Steps' = Steps /\ Subject' = Subject /\ Set' = Set BY DEF Steps, Subject, Set
<1>2. \A u : Means(u)' = Means(u) BY DEF Means
<1>3. \A u, a, b : Matches(u, a, b)' <=> Matches(u, a, b) BY DEF Matches, Alike
<1>4. JobOK'
  <2>1. ASSUME NEW s \in Steps' PROVE Shape(s)'
    <3>1. Shape(s) BY <1>1 DEF JobOK
    <3>2. Alike(s.u, Means(s.u), s.v)' <=> Alike(s.u, Means(s.u), s.v) BY <1>2 DEF Alike
    <3> QED BY <3>1, <3>2 DEF Shape
  <2> QED BY <2>1 DEF JobOK
<1>5. Order' BY DEF Order
<1>6. Filled'
  <2>1. Dead' <=> Dead BY <1>1 DEF Dead
  <2> QED BY <1>1, <2>1 DEF Filled, FilledFor
<1>7. SavedOK'
  <2> SUFFICES ASSUME NEW u \in saved PROVE SavedFor(u)' BY DEF SavedOK
  <2>1. SavedFor(u) BY DEF SavedOK
  <2> QED BY <2>1, <1>1, <1>2 DEF SavedFor
<1>8. Told'
  <2>1. CASE job = NoJob
    <3>1. DOMAIN todo = {} /\ saved = {} /\ job.code = "none" BY <2>1, NoSteps DEF JobOK
    <3> QED BY <3>1 DEF Told
  <2>2. CASE job # NoJob
    <3>0. \A u \in Units \ hurt' : has'[u] = has[u] /\ u \notin hurt BY <2>2
    <3>1. ASSUME NEW i \in DOMAIN todo, NEW u \in Units \ hurt' PROVE ToldFirst(i, u)'
      <4>1. ToldFirst(i, u) BY <3>0 DEF Told
      <4> QED BY <1>3, <3>0, <4>1 DEF ToldFirst
    <3>2. ASSUME NEW u \in saved \ hurt' PROVE Matches(u, has[u], Means(u))'
      <4>1. Matches(u, has[u], Means(u)) /\ u \in Units BY <3>2 DEF Told, TypeOK
      <4> QED BY <1>2, <1>3, <3>0, <3>2, <4>1
    <3>3. ASSUME job.code = "config", known = "FE8", base, NEW p \in Ports \ hurt' PROVE ToldRow(p)'
      <4>1. ToldRow(p) /\ p \in Units BY <3>3, UnitFacts DEF Told
      <4> QED BY <1>1, <3>0, <3>3, <4>1 DEF ToldRow
    <3> QED BY <3>1, <3>2, <3>3 DEF Told
  <2> QED BY <2>1, <2>2
<1>9. SyncedOK'
  <2>1. ASSUME known = "FE8", job.code # "config", NEW p \in synced' \cap Ports PROVE InMemory(p)'
    <3>1. InMemory(p) BY <2>1 DEF SyncedOK
    <3> QED BY <1>1, <1>2, <3>1 DEF InMemory
  <2> QED BY <2>1 DEF SyncedOK
<1>10. RowsMid' BY <1>1, <1>2 DEF RowsMid
<1> QED BY <1>4, <1>5, <1>6, <1>7, <1>8, <1>9, <1>10

LEMMA PullKeeps ==
  ASSUME IInv, Pull
  PROVE  IInv'
<1>0. /\ slot' = "none" /\ Use("pull", MaxPulls)
      /\ UNCHANGED <<has, known, cache, job, todo, rsp, base, row, late, replied, hurt, saved,
                      wanted, untrue, synced>>
  BY DEF Pull, agent, tables, history
<1>1. used' \in [req : 0..MaxRequests, pull : 0..MaxPulls, fault : 0..MaxFaults] BY <1>0, FaultType DEF IInv
<1>2. TypeOK' BY <1>0, <1>1 DEF TypeOK, IInv
<1>3. UnitsOf(slot') = {} BY <1>0 DEF UnitsOf
<1>4. job = NoJob => hurt = {} BY DEF IInv, JobOK
<1> QED BY <1>0, <1>2, <1>3, <1>4, SlotKeeps

LEMMA InsertKeeps ==
  ASSUME IInv, NEW t \in Types, Insert(t)
  PROVE  IInv'
<1>0. /\ slot = "none" /\ (known # "none" => t = known) /\ slot' = t
      /\ has' = [u \in Units |-> IF u \in UnitsOf(t) THEN Fresh ELSE has[u]]
      /\ hurt' = (IF job = NoJob THEN {} ELSE hurt \cup UnitsOf(t))
      /\ synced' = synced \ UnitsOf(t)
      /\ UNCHANGED <<known, cache, job, todo, rsp, base, row, late, replied, saved, wanted, untrue, used>>
  BY DEF Insert, agent, tables
<1>1. UnitsOf(t) \subseteq Units BY UnitFacts DEF UnitsOf
<1>2. TypeOK'
  <2>1. has \in [Units -> Value] /\ hurt \subseteq Units /\ synced \subseteq Units BY DEF TypeOK, IInv
  <2>2. Fresh \in Value BY ValueFacts
  <2> HIDE DEF Value, Units, UnitsOf
  <2>3. has' \in [Units -> Value] BY <1>0, <2>1, <2>2
  <2>4. hurt' \subseteq Units /\ synced' \subseteq Units BY <1>0, <1>1, <2>1
  <2> QED BY <1>0, <2>3, <2>4 DEF TypeOK, IInv
<1>3. hurt \subseteq hurt'
  <2>1. job = NoJob => hurt = {} BY DEF IInv, JobOK
  <2> QED BY <1>0, <2>1
<1>4. job # NoJob => \A u \in Units \ hurt' : has'[u] = has[u] BY <1>0
<1> HIDE DEF UnitsOf
<1> QED BY <1>0, <1>2, <1>3, <1>4, SlotKeeps

----------------------------------------------------------------------------
LEMMA Initially ==
  ASSUME Init
  PROVE  IInv
<1>0. /\ slot \in Types /\ has = [u \in Units |-> Fresh]
      /\ known = "none" /\ cache = [p \in Ports |-> <<0, 0>>]
      /\ base = FALSE /\ row = [u \in Units |-> NoRow]
      /\ job = NoJob /\ todo = <<>> /\ rsp = TRUE /\ late = None
      /\ replied = FALSE /\ hurt = {} /\ saved = {}
      /\ wanted = [x \in Units \X {1, 2} |-> Unset] /\ untrue = {} /\ synced = {}
      /\ used = [req |-> 0, pull |-> 0, fault |-> 0]
  BY DEF Init
<1>1. <<0, 0>> \in Value /\ Fresh \in Value BY ValueFacts DEF Bit
<1>2. MaxRequests \in Nat /\ MaxPulls \in Nat /\ MaxFaults \in Nat
  BY CardSettingsAssumption DEF CardSettingsAssumption
<1>3. Ports \subseteq Units BY UnitFacts
<1> HIDE DEF Units, Ports, Value, Step
<1>4. TypeOK
  <2>1. job \in [code : Codes \cup {"none", "config"}, u : Units \cup {"all"}, v : Value] BY <1>0, <1>1 DEF NoJob
  <2>2. todo \in Seq(Step) BY <1>0
  <2>3. late \in [kind : {"none", "set", "port"}, ok : BOOLEAN, v : Value] BY <1>0, <1>1 DEF None
  <2>4. has \in [Units -> Value] /\ cache \in [Ports -> Value]
        /\ row \in [Units -> [v : Value, flag : {1, 2}] \cup {NoRow}]
        /\ wanted \in [Units \X {1, 2} -> Bit \cup {Unset}]
    BY <1>0, <1>1
  <2>5. used \in [req : 0..MaxRequests, pull : 0..MaxPulls, fault : 0..MaxFaults] BY <1>0, <1>2
  <2> QED BY <1>0, <2>1, <2>2, <2>3, <2>4, <2>5 DEF TypeOK
<1>5. job.code = "none" /\ Steps = {} /\ DOMAIN todo = {} BY <1>0, NoSteps DEF NoJob
<1>6. JobOK BY <1>0, <1>3, <1>5 DEF JobOK, Whole, Radio, Reset
<1>7. Order /\ SavedOK /\ Told BY <1>0, <1>5 DEF Order, Ordered, SavedOK, Told
<1>8. Filled /\ SyncedOK BY <1>0, <1>5 DEF Filled, FilledFor, Whole, SyncedOK
<1>9. RowsMid
  <2> SUFFICES ASSUME NEW x \in Parts PROVE wanted[x] = Unset BY DEF RowsMid
  <2>1. x \in Units \X {1, 2} BY DEF Parts
  <2> QED BY <1>0, <2>1
<1> QED BY <1>4, <1>6, <1>7, <1>8, <1>9 DEF IInv

LEMMA StutterKeeps ==
  ASSUME IInv, UNCHANGED vars
  PROVE  IInv'
<1> USE DEF IInv
<1>0. UNCHANGED <<slot, has, known, cache, job, todo, rsp, base, row, late, replied, hurt, saved,
                  wanted, untrue, synced, used>>
  BY DEF vars, agent, tables, history
<1>1. Steps' = Steps /\ Subject' = Subject /\ Set' = Set BY <1>0 DEF Steps, Subject, Set
<1>2. \A u : Means(u)' = Means(u) BY <1>0 DEF Means
<1>3. \A u, a, b : Matches(u, a, b)' <=> Matches(u, a, b) BY <1>0 DEF Matches, Alike
<1>4. TypeOK' BY <1>0 DEF TypeOK
<1>5. JobOK'
  <2>1. ASSUME NEW s \in Steps' PROVE Shape(s)'
    <3>1. Shape(s) BY <1>1 DEF JobOK
    <3>2. Alike(s.u, Means(s.u), s.v)' <=> Alike(s.u, Means(s.u), s.v) BY <1>2 DEF Alike
    <3> QED BY <1>0, <3>1, <3>2 DEF Shape
  <2> QED BY <1>0, <2>1 DEF JobOK
<1>6. Order' BY <1>0 DEF Order
<1>7. Filled'
  <2>1. Dead' <=> Dead BY <1>0, <1>1 DEF Dead
  <2> QED BY <1>0, <1>1, <2>1 DEF Filled, FilledFor
<1>8. SavedOK'
  <2> SUFFICES ASSUME NEW u \in saved PROVE SavedFor(u)' BY <1>0 DEF SavedOK
  <2>1. SavedFor(u) BY DEF SavedOK
  <2> QED BY <2>1, <1>0, <1>1, <1>2 DEF SavedFor
<1>9. Told'
  <2>1. \A i, u : ToldFirst(i, u)' <=> ToldFirst(i, u) BY <1>0, <1>3 DEF ToldFirst
  <2>2. \A u : ToldRow(u)' <=> ToldRow(u) BY <1>0, <1>1 DEF ToldRow
  <2>3. \A u : Matches(u, has[u], Means(u))' <=> Matches(u, has[u], Means(u)) BY <1>0, <1>2, <1>3
  <2> QED BY <1>0, <2>1, <2>2, <2>3 DEF Told
<1>10. SyncedOK'
  <2>1. \A u : Alike(u, has[u], Means(u))' <=> Alike(u, has[u], Means(u)) BY <1>0, <1>2 DEF Alike
  <2>2. \A u : InMemory(u)' <=> InMemory(u) BY <1>0, <1>1, <1>2 DEF InMemory
  <2>3. \A u : InCard(u)' <=> InCard(u) BY <1>0, <1>1, <1>2, <2>1 DEF InCard
  <2> QED BY <1>0, <2>2, <2>3 DEF SyncedOK
<1>11. RowsMid' BY <1>0, <1>1, <1>2 DEF RowsMid
<1> QED BY <1>4, <1>5, <1>6, <1>7, <1>8, <1>9, <1>10, <1>11

LEMMA StepKeeps ==
  ASSUME IInv, [Next]_vars
  PROVE  IInv'
<1>1. CASE Page
  <2>1. PICK code, u, v : Legal(code, u, v) /\ Request(code, u, v) BY <1>1, PageLegal
  <2> QED BY <2>1, RequestKeeps
<1>2. CASE \E readable, linked \in BOOLEAN : Discover(readable, linked) BY <1>2, DiscoverKeeps
<1>3. CASE Agent
  BY <1>3, SkipKeeps, ExchangeKeeps, MemoryKeeps, ReplyKeeps, DatabaseKeeps, DatabaseFailsKeeps, EndKeeps
  DEF Agent
<1>4. CASE Restart BY <1>4, RestartKeeps
<1>5. CASE Pull BY <1>5, PullKeeps
<1>6. CASE Notice BY <1>6, NoticeKeeps
<1>7. CASE \E t \in Types : Insert(t) BY <1>7, InsertKeeps
<1>8. CASE UNCHANGED vars BY <1>8, StutterKeeps
<1> QED BY <1>1, <1>2, <1>3, <1>4, <1>5, <1>6, <1>7, <1>8 DEF Next

LEMMA Invariant == Spec => []IInv
<1>1. Init => IInv BY Initially
<1>2. IInv /\ [Next]_vars => IInv' BY StepKeeps
<1> QED BY <1>1, <1>2, PTL DEF Spec

\* Every variable keeps its type, whatever requests, faults, pulls and restarts
\* come between the steps of a job.
THEOREM TypeCorrect == Spec => []TypeOK
<1>1. IInv => TypeOK BY DEF IInv
<1> QED BY <1>1, Invariant, PTL

\* Between two jobs each row has what a page was last told that it set, as far
\* as pages know (the handlers' C_*_SET, which save after telling the card, and
\* configFE8Card and configFSA600AndRMT, card_mgmt.c:358 and on).
THEOREM RowsRightHolds == Spec => []RowsRight
<1>1. IInv => RowsRight
  <2> SUFFICES ASSUME IInv, job = NoJob, NEW x \in Parts \ untrue
               PROVE  wanted[x] \in {Unset, Means(x[1])[x[2]]}
    BY DEF RowsRight
  <2>1. Set = {} BY DEF Set, Subject, NoJob
  <2> QED BY <2>1 DEF IInv, RowsMid
<1> QED BY <1>1, Invariant, PTL

\* Between two jobs the units in step have one setting: that in the card is
\* that of the row, and for the ports of an FE8 card also that in the agent's
\* memory.
THEOREM SameEverywhereHolds == Spec => []SameEverywhere
<1>1. IInv => SameEverywhere
  <2> SUFFICES ASSUME IInv, job = NoJob, slot = known, NEW u \in synced \cap UnitsOf(slot)
               PROVE  /\ \A i \in {j \in {1, 2} : <<u, j>> \in Parts} : has[u][i] = Means(u)[i]
                      /\ u \in Ports => cache[u] = has[u]
    BY DEF SameEverywhere
  <2>1. job.code = "none" /\ Subject = {} /\ hurt = {} BY DEF Subject, NoJob, IInv, JobOK
  <2>2. InCard(u) BY <2>1 DEF IInv, SyncedOK
  <2>3. Alike(u, has[u], Means(u)) BY <2>1, <2>2 DEF InCard
  <2>4. ASSUME u \in Ports PROVE cache[u] = has[u]
    <3>1. known = "FE8" BY <2>4, UnitFacts DEF UnitsOf
    <3>2. InMemory(u) BY <2>1, <2>4, <3>1 DEF IInv, SyncedOK
    <3>3. cache[u] = Means(u) BY <2>1, <3>2 DEF InMemory
    <3>4. u \in Units /\ has[u] \in Value /\ Means(u) \in Value BY <2>4, UnitFacts, MeansType DEF IInv
    <3> QED BY <2>3, <2>4, <3>3, <3>4, AlikeFacts
  <2> QED BY <2>3, <2>4 DEF Alike
<1> QED BY <1>1, Invariant, PTL
=============================================================================
