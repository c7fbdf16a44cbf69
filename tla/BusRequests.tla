---------------------------- MODULE BusRequests ----------------------------
(***************************************************************************)
(* Time on the RS485 bus (common/serial_comm.c, EmsAgent/main.c,            *)
(* EmsAgent/alarm_proc.c, FSA/main.c).                                       *)
(*                                                                          *)
(* Pages (PageRequests) ask the agent for one thing after the other, and     *)
(* several pages at a time: whichever asks first is served (CmdPipe).  The   *)
(* agent waits for each answer as long as the function that makes the        *)
(* request says (AgentRequests).  An FSA card carries out one request at a   *)
(* time and answers when it has done so; a request about an ONU takes as     *)
(* long as the messages over the fibre it needs (OnuPrograms), and much      *)
(* longer if the ONU does not answer.  An answer that comes too late is on   *)
(* the wire, and the agent takes what is on the wire when it waits for an    *)
(* answer: it looks at the address, not at the sender or the code.  Every    *)
(* half second it polls the card, with the shortest deadline; if the card    *)
(* misses that twice in a row, it is declared gone.                          *)
(*                                                                          *)
(* A tick is 20 ms: the shortest deadline of the agent and the time between  *)
(* two looks of an FSA card at what has come from an ONU.  The work and the  *)
(* transmission of messages within a tick take no time.  One FSA card and    *)
(* any other card, which answers at once, are modelled.                      *)
(***************************************************************************)
EXTENDS PageRequests, OnuPrograms, FiniteSets

CONSTANTS Scripts,  \* bound: pages that are asked for, as sequences of what they ask
          Onus      \* what an ONU may be like while a request is carried out

Turn  == 5        \* ticks the loop of the agent waits for a page (TIMEOUT_CMDMSG_LOOP)
Every == 5        \* loops between two polls
Misses == 2       \* polls missed until the card is declared gone
Retry == 15       \* ticks until a message to an ONU is given up (3 times 100 ms)

Asks == UNION {{p[i] : i \in DOMAIN p} : p \in FsaPages(2) \cup OtherPages}

ASSUME BusRequestsAssumption ==
  /\ Scripts \subseteq Seq(Seq(Asks))
  /\ Onus \subseteq {"prompt", "off", "flaky"} /\ Onus # {}

VARIABLES
  phase, req, poll,  \* the agent: what it does, the request it waits for, and whether for itself
  left, loop,        \* ticks it still waits; loops modulo Every
  listed, missed,    \* cardData[].card_no # 0, cardTOcount[]
  pages, at,         \* what each page has still to ask; the page asking, or 0
  wire,              \* answers that have arrived at the agent
  inbox, job, work,  \* the card: requests that have arrived, the one it carries out, or NoJob;
                     \* ticks it still takes, and whether it succeeds
  asked,             \* another card has been asked
  calm,              \* history: see CalmIsRight
  idle,              \* history: the card had nothing to do when the request was sent
  heard              \* history: what came of the last exchange

agent   == <<phase, req, poll, left, loop, listed, missed, pages, at>>
history == <<calm, idle, heard>>
card    == <<inbox, job, work>>
vars    == <<agent, wire, card, asked, history>>

NoJob == [code |-> "none", tag |-> "old"]
Result(ticks, ok) == [ticks |-> ticks, ok |-> ok]

Init ==
  /\ phase = "select" /\ req = NoReq /\ poll = FALSE /\ left = Turn /\ loop = 0
  /\ listed = FALSE /\ missed = 0 /\ pages \in Scripts /\ at = 0
  /\ wire = <<>> /\ inbox = <<>> /\ job = NoJob /\ work = Result(0, FALSE) /\ asked = FALSE
  /\ calm = FALSE /\ idle = TRUE /\ heard = "own"

----------------------------------------------------------------------------
(* The work of the card. *)

\* Requests an ONU has no part in; and those it may have no part in, for ports
\* of the card itself.
Local  == {"C_CARD_GET", "C_FSA_GET", "C_CARD_SET", "C_FSA_SET", "GET_ALARMS", "C_FSA_GETCOUNT",
           "C_FSA_RESETCOUNT", "C_ONU_SET_ONUID", "C_ONU_GETDSN_LIST", "C_FSA_LOWSPD_STATRESET",
           "C_FSA_LOWSPD_SET", "C_FSA_NET_GET", "C_FSA_LOWSPD_GET", "C_FSA_LOWSPD_STAT"}
Ports  == {"C_ETHER_GET", "C_ETHER_SET", "GET_PORT_PERF", "SET_PERF_RESET"}

\* Messages an answer is waited for; those that are always sent.  How many they
\* are does not depend on the values set.
Messages(code) == Program(code, 1)
Waits(code)  == {i \in DOMAIN Messages(code) : Messages(code)[i].wait}
Always(code) == {i \in Waits(code) : ~Messages(code)[i].may}

\* Ticks it takes, and whether it succeeds.  An ONU that is off makes the first
\* message fail, unless that does not matter; one that is flaky answers the
\* first or every message only when it is sent for the third time.
Work(code, onu) ==
  CASE code \in Local          -> {Result(0, TRUE)}
    [] code = "C_FSA_NET_SET"  -> {Result(t, TRUE) : t \in 0..1}   \* runs ifconfig and route
    [] Waits(code) = {}        -> {Result(0, TRUE)}
    [] OTHER ->
       (IF code \in Ports THEN {Result(0, TRUE)}
        ELSE IF code = "C_SFP_GET" THEN {Result(t, TRUE) : t \in 1..2} ELSE {})
       \cup (CASE onu = "prompt" -> {Result(t, TRUE) :
                                      t \in Cardinality(Always(code))..Cardinality(Waits(code))}
               [] onu = "off"    -> {Result(Retry * (1 + Cardinality({i \in Waits(code) :
                                                           Messages(code)[i].go})), FALSE)}
               [] onu = "flaky"  -> {Result(Cardinality(Waits(code)) + Retry - 1, TRUE),
                                     Result(Retry * Cardinality(Waits(code)), TRUE)})

\* Length of the answer, with one entry in lists.
Length(code) ==
  CASE code = "C_CARD_GET" -> CARD_INFO               [] code = "C_FSA_GET" -> FSA_CARD_STATE
    [] code = "C_SFP_GET" -> SFP_INFO                 [] code = "C_ONU_GET" -> ONU_INFO
    [] code = "C_ETHER_GET" -> FE_PORT_STATE
    [] code = "GET_PORT_PERF" -> PORT_PERF            [] code = "C_FSA_GETCOUNT" -> PORT_COUNT
    [] code = "C_ONU_GETDATACH" -> 1 + ONU_UART_CONF  [] code = "C_ONU_GETDSN_LIST" -> ONUDSN_LIST
    [] code = "C_ONU_GETPORTMIRROR" -> ONU_PORTMIRROR_CONF
    [] code = "C_ONU_GETIO" -> ONU_IO                 [] code = "C_ONU_GETQoS" -> ONU_QoS_CONF
    [] code = "C_ONU_GETVLAN" -> 1 + ONU_VLAN_CONF    [] code = "C_FSA_NET_GET" -> FSA_NETWORK
    [] code = "C_FSA_LOWSPD_GET" -> FSA_LOWSPD_CONFIG
    [] code = "C_FSA_LOWSPD_STAT" -> FSA_LOWSPD_STATE
    [] code = "GET_ALARMS" -> 2                       [] OTHER -> 0

\* Requests the card cannot answer within the deadline of the agent.
Unfit == {"SET_PERF_RESET", "C_FSA_NET_SET"}

----------------------------------------------------------------------------
(* The agent. *)

Aged(m) == [m EXCEPT !.tag = "old"]

\* msg485_sendwaitrsp that does not read what is there before it sends.
SendUndrained(r, own) ==
  /\ ~asked /\ phase' = "wait" /\ req' = r /\ poll' = own /\ left' = r.for
  /\ wire' = [i \in DOMAIN wire |-> Aged(wire[i])]
  /\ inbox' = [i \in DOMAIN inbox |-> Aged(inbox[i])]
              \o (IF r.to = "fsa" THEN << [code |-> r.code, tag |-> "own"] >> ELSE <<>>)
  /\ job' = Aged(job) /\ asked' = (r.to = "other")
  /\ calm' = (calm /\ r.code \notin Unfit) /\ idle' = (inbox = <<>> /\ job = NoJob)
  /\ UNCHANGED <<work, heard>>

\* msg485_sendwaitrsp sends: first it reads and drops what is there.
Send(r, own) ==
  /\ ~asked /\ phase' = "wait" /\ req' = r /\ poll' = own /\ left' = r.for
  /\ wire' = <<>>
  /\ inbox' = [i \in DOMAIN inbox |-> Aged(inbox[i])]
              \o (IF r.to = "fsa" THEN << [code |-> r.code, tag |-> "own"] >> ELSE <<>>)
  /\ job' = Aged(job) /\ asked' = (r.to = "other")
  /\ calm' = (calm /\ r.code \notin Unfit) /\ idle' = (inbox = <<>> /\ job = NoJob)
  /\ UNCHANGED <<work, heard>>

\* A loop of main ends; every fifth time the card is looked for (check_cardUP)
\* or polled (check_cardAlarms).
LoopEnds ==
  /\ loop' = (loop + 1) % Every
  /\ IF loop' = 0 THEN phase' = "check" /\ left' = 0 ELSE phase' = "select" /\ left' = Turn

\* What a page asks for.
Asked(i)   == Head(pages[i])
Request(i) == [Asked(i).command.request EXCEPT !.to = Asked(i).to]
Legal(i)   == Asked(i).body \in Asked(i).command.body

\* The page has its answer: it goes on unless it must end.
Told(i, ok) == pages' = [pages EXCEPT ![i] = IF ok \/ ~Head(@).must THEN Tail(@) ELSE <<>>]

\* A page asks for something that has to be asked of a card.
Page(i) ==
  /\ phase = "select" /\ pages[i] # <<>> /\ Legal(i) /\ Asked(i).command.request # NoReq
  /\ Send(Request(i), FALSE) /\ at' = i
  /\ UNCHANGED <<loop, listed, missed, pages>>

\* Or for something the agent does itself or refuses.
Serve(i) ==
  /\ phase = "select" /\ pages[i] # <<>> /\ (Legal(i) => Asked(i).command.request = NoReq)
  /\ LET shown == Legal(i) /\ Asked(i).command.answer \subseteq Asked(i).takes
     IN Told(i, shown) /\ heard' = IF shown THEN "own" ELSE "misfit"
  /\ calm' = (calm /\ Asked(i).command # Unknown) /\ LoopEnds
  /\ UNCHANGED <<req, poll, at, listed, missed, wire, card, asked, idle>>
NoPage ==
  /\ phase = "select" /\ left = 0 /\ LoopEnds
  /\ UNCHANGED <<req, poll, at, listed, missed, pages, wire, card, asked, history>>
Check ==
  /\ phase = "check" /\ Send(IF listed THEN check_cardAlarms ELSE GetCardInfo, TRUE)
  /\ UNCHANGED <<loop, listed, missed, pages, at>>

\* An exchange is over.  A card that has just been found is polled at once.
Over(found, shown) ==
  /\ req' = NoReq /\ poll' = FALSE /\ at' = 0
  /\ IF at = 0 THEN UNCHANGED pages ELSE Told(at, shown)
  /\ IF ~poll THEN LoopEnds
     ELSE /\ UNCHANGED loop
          /\ IF found THEN phase' = "check" /\ left' = 0 ELSE phase' = "select" /\ left' = Turn

\* What has come is taken for the answer: by GetCardInfo if it is that of this
\* card, by others if the length fits, by a poll in any case.
Fits(a)    == Length(a.code) \in req.accepts /\ (req.code = "C_CARD_GET" => req.to = "fsa")
Accepts(a) == a.ok /\ (a.from = "fsa" => Fits(a))
\* And the page shows what it is told of it; another card answers as it should
\* if the agent does not look.
Expected(a) ==
  LET told == IF a.from = "fsa" THEN {Length(a.code)} ELSE Asked(at).command.answer
  IN at # 0 => told = AnyLength \/ told \subseteq Asked(at).takes
Take ==
  /\ phase = "wait" /\ wire # <<>>
  /\ wire' \in {<<>>, Tail(wire)}
  /\ LET a     == Head(wire)
         found == req.code = "C_CARD_GET" /\ req.to = "fsa" /\ Accepts(a)
     IN
     /\ listed' = (listed \/ found) /\ Over(poll /\ found, Accepts(a) /\ Expected(a))
     /\ missed' = IF poll /\ req.code = "GET_ALARMS" THEN 0 ELSE missed
     /\ heard' = IF a.ok /\ ~Accepts(a) THEN "refused"
                 ELSE IF a.tag = "own" THEN IF a.ok /\ ~Expected(a) THEN "misfit" ELSE "own"
                 ELSE IF Accepts(a) THEN "other" ELSE "refused"
  /\ UNCHANGED <<card, asked, calm, idle>>

\* Nothing has come.
Timeout ==
  /\ phase = "wait" /\ left = 0 /\ wire = <<>> /\ ~asked /\ Over(FALSE, FALSE)
  /\ IF poll /\ req.code = "GET_ALARMS"
     THEN /\ missed' = (missed + 1) % Misses
          /\ listed' = (missed + 1 < Misses)
     ELSE UNCHANGED <<listed, missed>>
  /\ heard' = "nothing"
  /\ UNCHANGED <<wire, card, asked, calm, idle>>

----------------------------------------------------------------------------
(* The cards, and time. *)

\* The card takes the next request out of its buffer.
Start(onu) ==
  /\ job = NoJob /\ inbox # <<>>
  /\ job' = Head(inbox) /\ inbox' = Tail(inbox) /\ work' \in Work(Head(inbox).code, onu)
  /\ calm' = (calm /\ onu # "flaky")
  /\ UNCHANGED <<agent, wire, asked, idle, heard>>

\* It answers.  When work and deadline end together, the answer is late.
Finish ==
  /\ job # NoJob /\ work.ticks = 0
  /\ phase = "wait" /\ left = 0 => job.tag = "old"
  /\ wire' = Append(wire, [from |-> "fsa", code |-> job.code, tag |-> job.tag, ok |-> work.ok])
  /\ job' = NoJob /\ work' = Result(0, FALSE)
  /\ UNCHANGED <<agent, inbox, asked, history>>

OtherAnswers ==
  /\ asked /\ asked' = FALSE
  /\ wire' = Append(wire, [from |-> "other", code |-> req.code, ok |-> TRUE,
                           tag |-> IF phase = "wait" THEN "own" ELSE "old"])
  /\ UNCHANGED <<agent, card, history>>

\* Time passes when nobody has anything to do at once.
Tick ==
  /\ phase \in {"select", "wait"} /\ left > 0 /\ ~asked
  /\ phase = "wait" => wire = <<>>
  /\ IF job = NoJob THEN inbox = <<>> /\ UNCHANGED work
     ELSE work.ticks > 0 /\ work' = Result(work.ticks - 1, work.ok)
  /\ left' = left - 1
  /\ UNCHANGED <<phase, req, poll, loop, listed, missed, pages, at>>
  /\ UNCHANGED <<wire, inbox, job, asked, history>>

\* History: everything has been done.
Settle ==
  /\ ~calm /\ phase = "select" /\ listed /\ missed = 0
  /\ wire = <<>> /\ inbox = <<>> /\ job = NoJob
  /\ calm' = TRUE /\ heard' = "own"
  /\ UNCHANGED <<agent, wire, card, asked, idle>>

Runs == NoPage \/ Check \/ Take \/ Timeout \/ (\E onu \in Onus : Start(onu)) \/ Finish
        \/ OtherAnswers \/ Tick
Next == (\E i \in DOMAIN pages : Page(i) \/ Serve(i)) \/ Runs \/ Settle

Spec == Init /\ [][Next]_vars

\* Time does not stop, and what is to be done at once is done.
FairSpec == Spec /\ WF_vars(Runs)

----------------------------------------------------------------------------
(* Properties. *)

\* Pages, agent and card fit each other: unless an ONU is flaky or something is
\* asked that is known not to fit (Unfit, Unknown), and until everything that
\* came of that is over, every request gets its own answer in time, also about an
\* ONU that is switched off, every page is told what it expects to be told, and
\* the card answers every poll (message_proc.c, check_cardAlarms;
\* send_fifomsg_waitrsp, ProcessMsg; Web/cgi).
CalmIsRight == calm => listed /\ missed = 0 /\ heard = "own"

\* However late answers are: what the agent takes for an answer is one if the
\* card had nothing left to do when the request was sent (msg485_sendwaitrsp).
IdleMeansOwn == phase = "wait" /\ idle /\ wire # <<>> => Head(wire).tag = "own"

\* A card that is in its slot and works is found again, whatever made the agent
\* declare it gone (check_cardUP).
FoundAgain == ~listed ~> listed

\* What the code does not keep.  A card that works is not declared gone: it is,
\* when a request about a flaky ONU takes it longer than two polls.
PresentIsListed == [][listed => listed']_vars

\* And no answer is taken for that of another request: it is, since only the
\* address and the length are compared.
AlwaysOwn == heard # "other"
=============================================================================
