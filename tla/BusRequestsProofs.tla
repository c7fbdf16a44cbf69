------------------------- MODULE BusRequestsProofs -------------------------
(***************************************************************************)
(* What pages ask, in three parts: proof that, whatever they ask for and    *)
(* however late answers are, the agent takes an answer for its own only      *)
(* wrongly if the card was busy when it asked (BusRequests); that what every *)
(* page asks for fits what the agent and the card do with it, in length and  *)
(* in time, so that while all is calm every request gets its own answer and  *)
(* the card every poll (BusRequests again: page by page, then program by     *)
(* program, then step by step); and that no page that keeps asking misses a  *)
(* change (RefreshCheck).  For any sequences of what pages may ask, any      *)
(* behaviour of the ONUs, any number of sessions, views and ids and any of   *)
(* the bounds.                                                               *)
(***************************************************************************)
EXTENDS BusRequests, RefreshCheck, FiniteSetTheorems, TLAPS

Requests == {[a.command.request EXCEPT !.to = a.to] : a \in Asks}
            \cup {GetCardInfo, check_cardAlarms, NoReq}
Sent     == {r.code : r \in Requests}
Tags     == {"own", "old"}
Order    == [code : Sent, tag : Tags]
Message  == [from : {"fsa", "other"}, code : Sent, tag : Tags, ok : BOOLEAN]

BusTypes ==
  /\ phase \in {"select", "check", "wait"} /\ req \in Requests /\ pages \in Seq(Seq(Asks))
  /\ phase \in {"select", "check"} => at = 0
  /\ at # 0 => at \in DOMAIN pages /\ pages[at] # <<>>
  /\ wire \in Seq(Message) /\ inbox \in Seq(Order) /\ job \in Order /\ work.ok \in BOOLEAN

\* Once the card had nothing left to do when a request was sent, all that is on
\* its way belongs to that request.
OnlyOwn ==
  phase = "wait" /\ idle => /\ \A i \in DOMAIN wire : wire[i].tag = "own"
                            /\ \A i \in DOMAIN inbox : inbox[i].tag = "own"
                            /\ job # NoJob => job.tag = "own"

Inv == BusTypes /\ OnlyOwn

----------------------------------------------------------------------------

\* Elements, heads and tails of sequences.
LEMMA ElementType ==
  ASSUME NEW S, NEW s \in Seq(S), NEW i \in DOMAIN s
  PROVE  s[i] \in S
  OBVIOUS

LEMMA HeadTail ==
  ASSUME NEW S, NEW s \in Seq(S), s # <<>>
  PROVE  /\ Head(s) \in S /\ Tail(s) \in Seq(S) /\ Head(s) = s[1] /\ 1 \in DOMAIN s
         /\ \A i \in DOMAIN Tail(s) : i + 1 \in DOMAIN s /\ Tail(s)[i] = s[i + 1]
  OBVIOUS

LEMMA AppendType ==
  ASSUME NEW S, NEW s \in Seq(S), NEW x \in S
  PROVE  /\ Append(s, x) \in Seq(S)
         /\ \A i \in DOMAIN Append(s, x) :
              IF i \in DOMAIN s THEN Append(s, x)[i] = s[i] ELSE Append(s, x)[i] = x
  OBVIOUS

LEMMA ReplaceType ==
  ASSUME NEW S, NEW s \in Seq(S), NEW i \in DOMAIN s, NEW x \in S
  PROVE  [s EXCEPT ![i] = x] \in Seq(S)
<1>1. PICK n \in Nat : s \in [1..n -> S] OBVIOUS
<1>2. [s EXCEPT ![i] = x] \in [1..n -> S] BY <1>1
<1>3. [1..n -> S] \subseteq Seq(S) OBVIOUS
<1> QED BY <1>2, <1>3

\* Work either succeeds or fails.
LEMMA WorkDecided ==
  ASSUME NEW code, NEW onu \in {"prompt", "off", "flaky"}, NEW w \in Work(code, onu)
  PROVE  w.ok \in BOOLEAN
<1>1. ASSUME NEW t, NEW b \in BOOLEAN
      PROVE  Result(t, b).ok \in BOOLEAN
  BY DEF Result
<1>2. \E t : \E b \in BOOLEAN : w = Result(t, b)
  <2> HIDE DEF Result
  <2>1. CASE onu = "prompt" BY <2>1 DEF Work
  <2>2. CASE onu = "off" BY <2>2 DEF Work
  <2>3. CASE onu = "flaky" BY <2>3 DEF Work
  <2> QED BY <2>1, <2>2, <2>3
<1> QED BY <1>1, <1>2
----------------------------------------------------------------------------

LEMMA SentType ==
  /\ \A r \in Requests : r.code \in Sent
  /\ NoReq \in Requests /\ NoJob \in Order
<1>1. \A r \in Requests : r.code \in Sent BY DEF Sent
<1>2. NoReq \in Requests BY DEF Requests
<1>3. NoReq.code = "none" BY DEF NoReq, Fsa
<1>4. NoJob \in Order BY <1>1, <1>2, <1>3 DEF NoJob, Order, Tags
<1> QED BY <1>1, <1>2, <1>4

\* What was on its way before belongs to an earlier request.
LEMMA AgedType ==
  ASSUME NEW m \in Order
  PROVE  Aged(m) \in Order /\ Aged(m).tag = "old" /\ Aged(m).code = m.code
  BY DEF Aged, Order, Tags

\* The requests the agent itself makes.
LEMMA OwnRequests == GetCardInfo \in Requests /\ check_cardAlarms \in Requests
  BY DEF Requests

\* Sending: the wire is empty, and if the card is too, the only request on its
\* way is the one just sent.
LEMMA SendKeeps ==
  ASSUME Inv, NEW r \in Requests, NEW own, Send(r, own)
  PROVE  /\ wire' = <<>> /\ wire' \in Seq(Message) /\ inbox' \in Seq(Order) /\ job' \in Order
         /\ work' = work /\ req' \in Requests /\ phase' = "wait"
         /\ OnlyOwn'
<1> DEFINE old == [i \in DOMAIN inbox |-> Aged(inbox[i])]
           new == IF r.to = "fsa" THEN << [code |-> r.code, tag |-> "own"] >> ELSE <<>>
<1>1. /\ wire' = <<>> /\ inbox' = old \o new /\ job' = Aged(job) /\ work' = work
      /\ req' = r /\ phase' = "wait" /\ idle' = (inbox = <<>> /\ job = NoJob)
  BY DEF Send
<1>2. inbox \in Seq(Order) /\ job \in Order BY DEF Inv, BusTypes
<1>3. \A i \in DOMAIN inbox : Aged(inbox[i]) \in Order BY <1>2, ElementType, AgedType
<1>4. old \in Seq(Order)
  <2>1. \E n \in Nat : DOMAIN inbox = 1..n BY <1>2
  <2> HIDE DEF Aged
  <2> QED BY <2>1, <1>3
<1>5. new \in Seq(Order)
  <2>1. [code |-> r.code, tag |-> "own"] \in Order BY SentType DEF Order, Tags
  <2> HIDE DEF Order
  <2>2. << [code |-> r.code, tag |-> "own"] >> \in Seq(Order) BY <2>1
  <2>3. <<>> \in Seq(Order) OBVIOUS
  <2> QED BY <2>2, <2>3
<1>6. old \o new \in Seq(Order)
  <2> HIDE DEF old, new, Order
  <2> QED BY <1>4, <1>5
<1>7. job' \in Order BY <1>1, <1>2, AgedType
<1>8. wire' \in Seq(Message)
  <2> HIDE DEF Message
  <2> QED BY <1>1
<1>9. OnlyOwn'
  <2> SUFFICES ASSUME idle'
               PROVE  /\ \A i \in DOMAIN wire' : wire'[i].tag = "own"
                      /\ \A i \in DOMAIN inbox' : inbox'[i].tag = "own"
                      /\ job' # NoJob => job'.tag = "own"
    BY DEF OnlyOwn
  <2>1. inbox = <<>> /\ job = NoJob BY <1>1
  <2>2. old = <<>> BY <2>1
  <2>3. inbox' = new
    <3> HIDE DEF old, new, Order
    <3> QED BY <2>2, <1>1, <1>5
  <2>4. \A i \in DOMAIN new : new[i].tag = "own" OBVIOUS
  <2>5. job' = NoJob BY <2>1, <1>1 DEF Aged, NoJob
  <2>6. \A i \in DOMAIN wire' : FALSE BY <1>1
  <2> QED BY <2>3, <2>4, <2>5, <2>6
<1> HIDE DEF old, new
<1> QED BY <1>1, <1>6, <1>7, <1>8, <1>9

LEMMA Initially == Init => Inv
<1> SUFFICES ASSUME Init PROVE Inv OBVIOUS
<1>1. req \in Requests /\ job \in Order BY SentType DEF Init
<1>2. pages \in Seq(Seq(Asks)) /\ at = 0 BY BusRequestsAssumption DEF Init
<1>3. wire \in Seq(Message)
  <2> HIDE DEF Message
  <2> QED BY DEF Init
<1>4. inbox \in Seq(Order)
  <2> HIDE DEF Order
  <2> QED BY DEF Init
<1>5. phase = "select" /\ work.ok \in BOOLEAN BY DEF Init, Result
<1> QED BY <1>1, <1>2, <1>3, <1>4, <1>5 DEF Inv, BusTypes, OnlyOwn

\* What a page asks for, and what is left to ask when it has been told.
LEMMA PageAsks ==
  ASSUME BusTypes, NEW i \in DOMAIN pages, pages[i] # <<>>
  PROVE  Request(i) \in Requests
<1>1. pages[i] \in Seq(Asks) BY ElementType DEF BusTypes
<1>2. Asked(i) \in Asks BY <1>1, HeadTail DEF Asked
<1> QED BY <1>2 DEF Request, Requests

LEMMA ToldType ==
  ASSUME BusTypes, NEW i \in DOMAIN pages, pages[i] # <<>>, NEW ok, Told(i, ok)
  PROVE  pages' \in Seq(Seq(Asks))
<1> DEFINE rest == IF ok \/ ~Head(pages[i]).must THEN Tail(pages[i]) ELSE <<>>
<1>1. pages \in Seq(Seq(Asks)) BY DEF BusTypes
<1>2. pages[i] \in Seq(Asks) BY <1>1, ElementType
<1>3. Tail(pages[i]) \in Seq(Asks) /\ <<>> \in Seq(Asks)
  <2> HIDE DEF Asks
  <2> QED BY <1>2, HeadTail
<1>4. rest \in Seq(Asks) BY <1>3
<1>5. pages' = [pages EXCEPT ![i] = rest] BY DEF Told
<1> HIDE DEF rest, Asks
<1> QED BY <1>1, <1>4, <1>5, ReplaceType

\* Where the agent goes when an exchange or a turn of its loop is over.
LEMMA OverGoes ==
  ASSUME BusTypes, NEW found, NEW shown, Over(found, shown)
  PROVE  /\ phase' \in {"select", "check"} /\ req' \in Requests
         /\ at' = 0 /\ pages' \in Seq(Seq(Asks))
<1>1. req' \in Requests /\ at' = 0 BY SentType DEF Over
<1>2. phase' \in {"select", "check"} BY DEF Over, LoopEnds
<1>3. pages' \in Seq(Seq(Asks))
  <2>1. CASE at = 0 BY <2>1 DEF Over, BusTypes
  <2>2. CASE at # 0
    <3>1. at \in DOMAIN pages /\ pages[at] # <<>> /\ Told(at, shown)
      BY <2>2 DEF Over, BusTypes
    <3> QED BY <3>1, ToldType
  <2> QED BY <2>1, <2>2
<1> QED BY <1>1, <1>2, <1>3

LEMMA StepKeeps == Inv /\ [Next]_vars => Inv'
<1> SUFFICES ASSUME Inv, [Next]_vars PROVE Inv' OBVIOUS
<1> USE DEF Inv
<1> HIDE DEF BusTypes, OnlyOwn
<1>1. CASE \E i \in DOMAIN pages : Page(i)
  <2> PICK i \in DOMAIN pages : Page(i) BY <1>1
  <2>1. pages[i] # <<>> /\ Send(Request(i), FALSE) /\ at' = i /\ pages' = pages BY DEF Page
  <2>2. Request(i) \in Requests BY <2>1, PageAsks
  <2>3. /\ wire' \in Seq(Message) /\ inbox' \in Seq(Order) /\ job' \in Order /\ work' = work
        /\ req' \in Requests /\ phase' = "wait" /\ OnlyOwn'
    BY <2>1, <2>2, SendKeeps
  <2> QED BY <2>1, <2>3 DEF BusTypes
<1>2. CASE \E i \in DOMAIN pages : Serve(i)
  <2> PICK i \in DOMAIN pages : Serve(i) BY <1>2
  <2>1. /\ phase = "select" /\ pages[i] # <<>> /\ \E ok : Told(i, ok)
        /\ LoopEnds /\ UNCHANGED <<req, at, wire, card, idle>>
    BY DEF Serve
  <2>2. pages' \in Seq(Seq(Asks)) BY <2>1, ToldType
  <2>3. phase' \in {"select", "check"} BY <2>1 DEF LoopEnds
  <2>4. at' = 0 BY <2>1 DEF BusTypes
  <2> QED BY <2>1, <2>2, <2>3, <2>4 DEF BusTypes, OnlyOwn, card
<1>3. CASE NoPage
  <2>1. /\ phase = "select" /\ phase' \in {"select", "check"}
        /\ UNCHANGED <<req, pages, at, wire, card>>
    BY <1>3 DEF NoPage, LoopEnds
  <2> QED BY <2>1 DEF BusTypes, OnlyOwn, card
<1>4. CASE Check
  <2>1. /\ phase = "check" /\ UNCHANGED <<pages, at>>
        /\ Send(IF listed THEN check_cardAlarms ELSE GetCardInfo, TRUE)
    BY <1>4, Zenon DEF Check
  <2>2. /\ wire' \in Seq(Message) /\ inbox' \in Seq(Order) /\ job' \in Order /\ work' = work
        /\ req' \in Requests /\ phase' = "wait" /\ OnlyOwn'
    BY <2>1, SendKeeps, OwnRequests
  <2> QED BY <2>1, <2>2 DEF BusTypes
<1>5. CASE Take
  <2>1. wire \in Seq(Message) /\ wire # <<>> BY <1>5 DEF Take, BusTypes
  <2>2. Tail(wire) \in Seq(Message) /\ <<>> \in Seq(Message)
    <3> HIDE DEF Message
    <3> QED BY <2>1, HeadTail
  <2>3. wire' \in Seq(Message) BY <1>5, <2>2 DEF Take
  <2>4. /\ phase' \in {"select", "check"} /\ req' \in Requests
        /\ at' = 0 /\ pages' \in Seq(Seq(Asks))
    <3>1. \E found, shown : Over(found, shown) BY <1>5 DEF Take
    <3> QED BY <3>1, OverGoes
  <2>5. UNCHANGED card BY <1>5 DEF Take
  <2> QED BY <2>3, <2>4, <2>5 DEF BusTypes, OnlyOwn, card
<1>6. CASE Timeout
  <2>1. /\ phase' \in {"select", "check"} /\ req' \in Requests
        /\ at' = 0 /\ pages' \in Seq(Seq(Asks))
    <3>1. Over(FALSE, FALSE) BY <1>6 DEF Timeout
    <3> QED BY <3>1, OverGoes
  <2>2. UNCHANGED <<wire, card>> BY <1>6 DEF Timeout
  <2> QED BY <2>1, <2>2 DEF BusTypes, OnlyOwn, card
<1>7. CASE \E onu \in Onus : Start(onu)
  <2> PICK onu \in Onus : Start(onu) BY <1>7
  <2>1. /\ job = NoJob /\ inbox # <<>> /\ job' = Head(inbox) /\ inbox' = Tail(inbox)
        /\ work' \in Work(Head(inbox).code, onu) /\ UNCHANGED <<agent, wire, idle>>
    BY DEF Start
  <2>2. inbox \in Seq(Order) BY DEF BusTypes
  <2>3. /\ Head(inbox) \in Order /\ Tail(inbox) \in Seq(Order)
        /\ Head(inbox) = inbox[1] /\ 1 \in DOMAIN inbox
        /\ \A i \in DOMAIN Tail(inbox) : i + 1 \in DOMAIN inbox /\ Tail(inbox)[i] = inbox[i + 1]
    BY <2>1, <2>2, HeadTail
  <2>4. work'.ok \in BOOLEAN BY <2>1, WorkDecided, BusRequestsAssumption
  <2>5. BusTypes' BY <2>1, <2>3, <2>4 DEF BusTypes, agent
  <2>6. OnlyOwn'
    <3> SUFFICES ASSUME phase' = "wait", idle'
                 PROVE  /\ \A i \in DOMAIN wire' : wire'[i].tag = "own"
                        /\ \A i \in DOMAIN inbox' : inbox'[i].tag = "own"
                        /\ job' # NoJob => job'.tag = "own"
      BY DEF OnlyOwn
    <3>1. phase = "wait" /\ idle /\ wire' = wire BY <2>1 DEF agent
    <3>2. /\ \A i \in DOMAIN wire : wire[i].tag = "own"
          /\ \A i \in DOMAIN inbox : inbox[i].tag = "own"
      BY <3>1 DEF OnlyOwn
    <3> QED BY <2>1, <2>3, <3>1, <3>2
  <2> QED BY <2>5, <2>6
<1>8. CASE Finish
  <2> DEFINE a == [from |-> "fsa", code |-> job.code, tag |-> job.tag, ok |-> work.ok]
  <2>1. /\ job # NoJob /\ job' = NoJob /\ work' = Result(0, FALSE) /\ wire' = Append(wire, a)
        /\ UNCHANGED <<agent, inbox, idle>>
    BY <1>8 DEF Finish, history
  <2>2. wire \in Seq(Message) /\ job \in Order /\ work.ok \in BOOLEAN BY DEF BusTypes
  <2>3. a \in Message BY <2>2 DEF Message, Order
  <2>4. /\ Append(wire, a) \in Seq(Message)
        /\ \A i \in DOMAIN Append(wire, a) :
             IF i \in DOMAIN wire THEN Append(wire, a)[i] = wire[i] ELSE Append(wire, a)[i] = a
    <3> HIDE DEF a
    <3> QED BY <2>2, <2>3, AppendType
  <2>5. work'.ok \in BOOLEAN BY <2>1 DEF Result
  <2>6. a.tag = job.tag OBVIOUS
  <2> HIDE DEF a
  <2>7. BusTypes' BY <2>1, <2>4, <2>5, SentType DEF BusTypes, agent
  <2>8. OnlyOwn'
    <3> SUFFICES ASSUME phase' = "wait", idle'
                 PROVE  /\ \A i \in DOMAIN wire' : wire'[i].tag = "own"
                        /\ \A i \in DOMAIN inbox' : inbox'[i].tag = "own"
                        /\ job' # NoJob => job'.tag = "own"
      BY DEF OnlyOwn
    <3>1. phase = "wait" /\ idle /\ inbox' = inbox BY <2>1 DEF agent
    <3>2. /\ \A i \in DOMAIN wire : wire[i].tag = "own"
          /\ \A i \in DOMAIN inbox : inbox[i].tag = "own"
          /\ job.tag = "own"
      BY <2>1, <3>1 DEF OnlyOwn
    <3> QED BY <2>1, <2>4, <2>6, <3>1, <3>2
  <2> QED BY <2>7, <2>8
<1>9. CASE OtherAnswers
  <2> DEFINE a == [from |-> "other", code |-> req.code, ok |-> TRUE,
                   tag |-> IF phase = "wait" THEN "own" ELSE "old"]
  <2>1. wire' = Append(wire, a) /\ UNCHANGED <<agent, card, idle>>
    BY <1>9 DEF OtherAnswers, history
  <2>2. wire \in Seq(Message) /\ req \in Requests BY DEF BusTypes
  <2>3. a \in Message BY <2>2, SentType DEF Message, Tags
  <2>4. /\ Append(wire, a) \in Seq(Message)
        /\ \A i \in DOMAIN Append(wire, a) :
             IF i \in DOMAIN wire THEN Append(wire, a)[i] = wire[i] ELSE Append(wire, a)[i] = a
    <3> HIDE DEF a
    <3> QED BY <2>2, <2>3, AppendType
  <2>5. phase = "wait" => a.tag = "own" OBVIOUS
  <2> HIDE DEF a
  <2>6. BusTypes' BY <2>1, <2>4 DEF BusTypes, agent, card
  <2>7. OnlyOwn'
    <3> SUFFICES ASSUME phase' = "wait", idle'
                 PROVE  /\ \A i \in DOMAIN wire' : wire'[i].tag = "own"
                        /\ \A i \in DOMAIN inbox' : inbox'[i].tag = "own"
                        /\ job' # NoJob => job'.tag = "own"
      BY DEF OnlyOwn
    <3>1. phase = "wait" /\ idle /\ inbox' = inbox /\ job' = job BY <2>1 DEF agent, card
    <3>2. /\ \A i \in DOMAIN wire : wire[i].tag = "own"
          /\ \A i \in DOMAIN inbox : inbox[i].tag = "own"
          /\ job # NoJob => job.tag = "own"
      BY <3>1 DEF OnlyOwn
    <3> QED BY <2>1, <2>4, <2>5, <3>1, <3>2
  <2> QED BY <2>6, <2>7
<1>10. CASE Tick
  <2>1. /\ UNCHANGED <<phase, req, pages, at, wire, inbox, job, idle>> BY <1>10 DEF Tick, history
  <2>2. work'.ok \in BOOLEAN
    <3>1. work.ok \in BOOLEAN BY DEF BusTypes
    <3>2. work' = work \/ work'.ok = work.ok BY <1>10 DEF Tick, Result
    <3> QED BY <3>1, <3>2
  <2> QED BY <2>1, <2>2 DEF BusTypes, OnlyOwn
<1>11. CASE Settle
  <2>1. UNCHANGED <<agent, wire, card, idle>> BY <1>11 DEF Settle
  <2> QED BY <2>1 DEF BusTypes, OnlyOwn, agent, card
<1>12. CASE UNCHANGED vars
  <2>1. UNCHANGED <<agent, wire, card, idle>> BY <1>12 DEF vars, history
  <2> QED BY <2>1 DEF BusTypes, OnlyOwn, agent, card
<1> QED BY <1>1, <1>2, <1>3, <1>4, <1>5, <1>6, <1>7, <1>8, <1>9, <1>10, <1>11, <1>12
    DEF Next, Runs

----------------------------------------------------------------------------

\* What the agent takes for an answer is one if the card had nothing left to do
\* when the request was sent (msg485_sendwaitrsp).
THEOREM IdleMeansOwnHolds == Spec => []IdleMeansOwn
<1>1. Inv => IdleMeansOwn
  <2> SUFFICES ASSUME Inv, phase = "wait", idle, wire # <<>> PROVE Head(wire).tag = "own"
    BY DEF IdleMeansOwn
  <2>1. wire \in Seq(Message) BY DEF Inv, BusTypes
  <2>2. Head(wire) = wire[1] /\ 1 \in DOMAIN wire BY <2>1, HeadTail
  <2> QED BY <2>2 DEF Inv, OnlyOwn
<1> QED BY <1>1, Initially, StepKeeps, PTL DEF Spec

----------------------------------------------------------------------------
(* Commands a page may send, and the answers to them.                       *)

\* The agent takes the body, and what it answers is what the page expects.
Shown(a) == a.command.answer \subseteq a.takes
            \/ (a.command.answer = AnyLength /\ a.command.request # NoReq)
Whole(r) == DOMAIN r = {"code", "to", "for", "accepts"}
Legit(a) ==
  /\ a.body \in a.command.body /\ Shown(a)
  /\ Whole(a.command.request) /\ a.command.request.for \in Nat
\* The answer of an FSA card to it is accepted, and in time.
InTime(r)   == r.for = Long \/ (r.for = Short /\ r.code \in Local \cup {"C_ONU_RESET"})
Shaped(a) == DOMAIN a = {"command", "to", "body", "takes", "must"}
Sane(a)   == Shaped(a) /\ (a.command = Unknown \/ Legit(a))
FsaGood(a) ==
  LET r == a.command.request
  IN r = NoReq \/ r.code \in Unfit
     \/ (Length(r.code) \in r.accepts \cap a.takes /\ InTime(r))
Good(a) == a.command = Unknown \/ (Legit(a) /\ (a.to = "other" \/ (a.to = "fsa" /\ FsaGood(a))))
SanePages(P) == \A p \in P : \A i \in DOMAIN p : Sane(p[i])
GoodPages(P) == \A p \in P : \A i \in DOMAIN p : Good(p[i])

\* Where the only request, or its answer, is while all is calm.
Mine == [code |-> req.code, tag |-> "own"]
Answer(from, ok) == [from |-> from, code |-> req.code, tag |-> "own", ok |-> ok]
CalmOther ==
  /\ inbox = <<>> /\ job = NoJob
  /\ IF asked THEN wire = <<>> ELSE wire = <<Answer("other", TRUE)>>
CalmFsa ==
  /\ ~asked /\ InTime(req) /\ Length(req.code) \in req.accepts
  /\ \/ wire = <<>> /\ job = NoJob /\ inbox = <<Mine>> /\ left = req.for
     \/ wire = <<>> /\ job = Mine /\ inbox = <<>> /\ work.ticks \in Nat /\ work.ticks < left
     \/ job = NoJob /\ inbox = <<>> /\ \E ok \in BOOLEAN : wire = <<Answer("fsa", ok)>>
CalmAsk ==
  IF at = 0 THEN req = check_cardAlarms
  ELSE ~poll /\ IF req.to = "fsa" THEN Length(req.code) \in Asked(at).takes
                ELSE Asked(at).command.answer \subseteq Asked(at).takes \/ Asked(at).command.answer = AnyLength
CalmWait ==
  /\ left \in Nat /\ CalmAsk
  /\ (req.to = "other" /\ CalmOther) \/ (req.to = "fsa" /\ CalmFsa)
CalmInv ==
  calm => /\ CalmIsRight
          /\ IF phase = "wait" THEN CalmWait ELSE inbox = <<>> /\ job = NoJob

----------------------------------------------------------------------------
(* What the pages ask, one command after the other. *)

LEMMA RequestIs ==
  ASSUME NEW code, NEW ticks, NEW lengths
  PROVE  /\ LET r == Fsa(code, ticks, lengths) IN
            Whole(r) /\ r.code = code /\ r.for = ticks /\ r.accepts = lengths /\ r.to = "fsa"
         /\ LET r == Other(code, ticks, lengths) IN
            Whole(r) /\ r.code = code /\ r.for = ticks /\ r.accepts = lengths /\ r.to = "other"
  BY DEF Whole, Other, Fsa

LEMMA AskIs ==
  ASSUME NEW c, NEW b, NEW t
  PROVE  /\ Shaped(Show(c, b, t)) /\ Show(c, b, t).command = c
         /\ Show(c, b, t).body = b /\ Show(c, b, t).takes = t /\ Show(c, b, t).to = c.request.to
  BY DEF Show, Shaped

LEMMA CommandIs ==
  ASSUME NEW b, NEW r, NEW a
  PROVE  /\ Command(b, r, a).body = b /\ Command(b, r, a).request = r /\ Command(b, r, a).answer = a
  BY DEF Command

LEMMA OnIs ==
  ASSUME NEW a, Shaped(a), NEW to
  PROVE  LET b == On(to, a) IN
         Shaped(b) /\ b.to = to /\ b.command = a.command /\ b.body = a.body /\ b.takes = a.takes
  BY DEF On, Shaped

\* A page that asks another card, or the agent itself.
LEMMA ShowSane ==
  ASSUME NEW body, NEW r, NEW answer, NEW b \in body, NEW takes, answer \subseteq takes, Whole(r),
         r.for \in Nat
  PROVE  Sane(Show(Command(body, r, answer), b, takes))
  BY AskIs, CommandIs DEF Legit, Shown, Sane

LEMMA GetSane ==
  ASSUME NEW code, NEW t \in Nat, NEW l, NEW b \in AnyLength, NEW takes, l \subseteq takes
  PROVE  /\ Sane(Show(Get(Other(code, t, l)), b, takes)) /\ Sane(Do(Get(Other(code, t, l)), b))
         /\ Sane(Show(Get(Fsa(code, t, l)), b, takes)) /\ Sane(Do(Get(Fsa(code, t, l)), b))
<1>1. ASSUME NEW r, Whole(r), r.for = t, r.accepts = l PROVE Sane(Show(Get(r), b, takes)) /\ Sane(Do(Get(r), b))
  <2>1. Command(AnyLength, r, r.accepts).answer = r.accepts BY CommandIs
  <2> QED BY <1>1, <2>1, ShowSane DEF Get, Do
<1> QED BY <1>1, RequestIs

\* A page that looks at the length where the agent does not.
LEMMA AnySane ==
  ASSUME NEW code, NEW t \in Nat \ {0}, NEW b \in AnyLength, NEW takes
  PROVE  Sane(Show(Get(Fsa(code, t, AnyLength)), b, takes))
<1>1. Fsa(code, t, AnyLength) # NoReq BY RequestIs DEF NoReq
<1>2. LET c == Get(Fsa(code, t, AnyLength)) IN
      c.body = AnyLength /\ c.answer = AnyLength /\ c.request = Fsa(code, t, AnyLength)
  BY RequestIs, CommandIs DEF Get
<1> QED BY <1>1, <1>2, RequestIs, AskIs DEF Sane, Legit, Shown

LEMMA DoSane ==
  ASSUME NEW body, NEW code, NEW t \in Nat, NEW l, NEW answer, NEW b \in body
  PROVE  /\ Sane(Do(Command(body, Other(code, t, l), answer), b))
         /\ Sane(Do(Command(body, Fsa(code, t, l), answer), b))
<1>1. ASSUME NEW r, Whole(r), r.for = t PROVE Sane(Do(Command(body, r, answer), b))
  <2>1. Command(body, r, answer).answer = answer BY CommandIs
  <2> QED BY <1>1, <2>1, ShowSane DEF Do
<1> QED BY <1>1, RequestIs

LEMMA SetSane ==
  ASSUME NEW code, NEW t \in Nat, NEW l, NEW b
  PROVE  Sane(Do(Set(b, Other(code, t, l)), b)) /\ Sane(Do(Set(b, Fsa(code, t, l)), b))
  BY DoSane DEF Set

LEMMA OwnSane ==
  ASSUME NEW body, NEW answer, NEW b \in body
  PROVE  /\ Sane(Do(Own(body, answer), b))
         /\ \A takes : answer \subseteq takes => Sane(Show(Own(body, answer), b, takes))
<1>1. NoReq.for = 0 /\ Whole(NoReq) BY RequestIs DEF NoReq
<1> QED BY <1>1, ShowSane, DoSane DEF Own, NoReq

\* Pages of sane asks.
LEMMA OneSane ==
  ASSUME NEW asks, \A a \in asks : Sane(a)
  PROVE  SanePages(One(asks))
<1> SUFFICES ASSUME NEW a \in asks PROVE \A i \in DOMAIN <<a>> : Sane(<<a>>[i])
  BY DEF SanePages, One
<1>1. DOMAIN <<a>> = {1} /\ <<a>>[1] = a OBVIOUS
<1> HIDE DEF Sane
<1> QED BY <1>1

LEMMA SeqSane ==
  ASSUME NEW asks, \A a \in asks : Sane(a), NEW pages2, pages2 \subseteq Seq(asks)
  PROVE  SanePages(pages2)
  BY DEF SanePages

LEMMA ThenSane ==
  ASSUME NEW asks, Sane(Card), \A a \in asks : Sane(a)
  PROVE  SanePages(Then(One(asks)))
<1> DEFINE all == {Card} \cup asks
<1>1. \A a \in all : Sane(a) OBVIOUS
<1>2. ASSUME NEW a \in asks PROVE <<Card>> \o <<a>> \in Seq(all)
  <2>1. Card \in all /\ a \in all OBVIOUS
  <2> HIDE DEF all, Card
  <2> QED BY <2>1
<1>3. Then(One(asks)) \subseteq Seq(all)
  <2> HIDE DEF all, Card
  <2> QED BY <1>2 DEF Then, One
<1> HIDE DEF all
<1> QED BY <1>1, <1>3, SeqSane

LEMMA OtherGood ==
  ASSUME NEW pages2, SanePages(pages2)
  PROVE  GoodPages(OnOther(pages2))
<1> SUFFICES ASSUME NEW p \in pages2, NEW i \in DOMAIN [j \in DOMAIN p |-> On("other", p[j])]
             PROVE  Good([j \in DOMAIN p |-> On("other", p[j])][i])
  BY DEF OnOther, GoodPages
<1>1. i \in DOMAIN p /\ Sane(p[i]) BY DEF SanePages
<1>2. Good(On("other", p[i])) BY <1>1, OnIs DEF Sane, Good, Legit, Shown
<1> QED BY <1>1, <1>2

LEMMA NumbersAre == 0 \in AnyLength /\ Short \in Nat /\ Long \in Nat /\ Second \in Nat
  BY DEF AnyLength, Short, Long, Second

LEMMA CardSane == Sane(Card) /\ Sane(SetCardPage) /\ Sane(SetStorm)
<1>1. Sane(Card) BY NumbersAre, GetSane DEF Card, C_CARD_GET, GetCardInfo
<1>2. Sane(SetCardPage) BY NumbersAre, SetSane DEF SetCardPage, C_CARD_SET, SetCard
<1>3. Sane(SetStorm) BY NumbersAre, SetSane DEF SetStorm, C_FE8_BROADCASTSTORM_SET, SetFE8BroadcastStorm
<1> QED BY <1>1, <1>2, <1>3

LEMMA CtrlSane == SanePages(CGetCard_Ctrl) /\ SanePages(CCardChg_Ctrl)
<1>1. SanePages(CGetCard_Ctrl)
  BY CardSane, NumbersAre, ThenSane, OwnSane DEF CGetCard_Ctrl, C_SW_GETPORTSTATE, C_SW_GETPARAM
<1>2. SanePages(CCardChg_Ctrl)
  BY CardSane, OneSane, OwnSane DEF CCardChg_Ctrl, C_SW_SETPARAM
<1> QED BY <1>1, <1>2

LEMMA Ge8Sane ==
  /\ SanePages(CGetGe8_Network) /\ SanePages(CGetGe8_Vlan) /\ SanePages(CGetGe8_Port)
  /\ SanePages(CGetGe8_Igmp) /\ SanePages(CCardChg_Ge8)
<1>1. SanePages(CGetGe8_Network)
  BY NumbersAre, OneSane, GetSane
  DEF CGetGe8_Network, C_GE8_NET_GET, C_GE8_PORTMODE, GetNetworkStateGe8, GetGe8PortLink,
      GE8_NET_STATE, FE_PORT_STATE, GE_PORT_STATE
<1>2. SanePages(CGetGe8_Vlan)
  BY NumbersAre, OneSane, GetSane, SetSane
  DEF CGetGe8_Vlan, C_GE8_GETVLAN, C_GE8_DELVLAN, C_GE8_SAVEVLAN, GetVLANge8, DelGE8VLAN, SaveGE8VLAN
<1>3. SanePages(CGetGe8_Port)
  BY NumbersAre, OneSane, DoSane
  DEF CGetGe8_Port, C_GE8_GETPORT, C_GE8_STATISTICS, GetGe8Port, GetGe8Statistics
<1>4. SanePages(CGetGe8_Igmp)
  <2>1. Sane(Show(C_GE8_GETIGMP, 0, {GE8_IGMP}))
    BY NumbersAre, RequestIs, ShowSane DEF C_GE8_GETIGMP, GetGe8IGMP
  <2> QED BY <2>1, OneSane DEF CGetGe8_Igmp
<1>5. SanePages(CCardChg_Ge8)
  BY NumbersAre, OneSane, SetSane
  DEF CCardChg_Ge8, C_GE8_NET_SET, C_GE8_SETPORT, C_GE8_STATISTICS_CLR, C_GE8_SETIGMP,
      SetNetworkGE8, SetGe8Port, ClrGe8Statistics, SetGe8IGMP
<1> QED BY <1>1, <1>2, <1>3, <1>4, <1>5

LEMMA LengthsAre ==
  /\ FE_PORT_STATE \in AnyLength /\ EPONU_ONU_REQ \in AnyLength /\ EPN_OLT_VLAN \in AnyLength
  /\ EPONU_UPPATH \in AnyLength /\ EPONU_NAME \in AnyLength /\ EPONU_NETWORK \in AnyLength
  /\ EPONU_UART \in AnyLength /\ EPONU_BW \in AnyLength /\ EPONU_IO \in AnyLength
  /\ EPONU_IOCTRL \in AnyLength /\ FSA_NETWORK \in AnyLength /\ FSA_LOWSPD_CONFIG \in AnyLength
  /\ HDEC_CFG + 3 \in AnyLength /\ 26 \in AnyLength /\ 3 \in AnyLength /\ FE_PORTINDEX \in AnyLength
  /\ SFP_INFO \in AnyLength /\ 1 \in AnyLength \ {0} /\ 64 \in AnyLength \ {0}
  BY DEF AnyLength, FE_PORT_STATE, EPONU_ONU_REQ, EPN_OLT_VLAN, EPONU_UPPATH, EPONU_NAME, EPONU_NETWORK,
         EPONU_UART, EPONU_BW, EPONU_IO, EPONU_IOCTRL, FSA_NETWORK, FSA_LOWSPD_CONFIG, HDEC_CFG,
         FE_PORTINDEX, SFP_INFO

LEMMA EpnSane ==
  /\ SanePages(CGetCard_Epn) /\ SanePages(CGetEPOnu) /\ SanePages(CEPOnuChg) /\ SanePages(CEpnView)
  /\ SanePages(CHDCard)
<1>1. Short \in Nat \ {0} BY DEF Short
<1>2. \A code, b : b \in AnyLength => \A takes : /\ Sane(Show(ReadCard(code), b, takes))
                                                /\ Sane(Show(QueryCard(code), b, takes))
  BY <1>1, AnySane DEF ReadCard, QueryCard, genericGetReq, genericGetReq2
<1>3. \A code, b : b \in AnyLength => Sane(Do(WriteCard(code), b))
  BY <1>1, DoSane DEF WriteCard, genericSetReq
<1>4. SanePages(CGetCard_Epn) BY <1>2, NumbersAre, CardSane, ThenSane DEF CGetCard_Epn
<1>5. SanePages(CGetEPOnu) BY <1>2, LengthsAre, OneSane DEF CGetEPOnu
<1>6. SanePages(CEPOnuChg)
  <2> DEFINE W == {<<"C_EP_RESET_ONU", EPONU_ONU_REQ>>, <<"C_EP_SET_ONUNAME", EPONU_NAME>>,
          <<"C_EP_SET_ONUNETWORK", EPONU_NETWORK>>, <<"C_EP_SET_ONUUART", EPONU_UART>>,
          <<"C_EP_SET_ONUBW", EPONU_BW>>, <<"C_EP_SET_ONUIO", EPONU_IO>>,
          <<"C_EP_SET_ONU_UPPATH", EPONU_UPPATH>>, <<"C_EP_SET_ONUIOCTRL", EPONU_IOCTRL>>}
  <2>1. \A w \in W : w[2] \in AnyLength BY LengthsAre
  <2>2. CEPOnuChg = One({Do(WriteCard(w[1]), w[2]) : w \in W}) BY DEF CEPOnuChg
  <2> HIDE DEF W
  <2> QED BY <1>3, <2>1, <2>2, OneSane
<1>7. SanePages(CEpnView) BY <1>3, LengthsAre, OneSane DEF CEpnView
<1>8. SanePages(CHDCard)
  <2>1. \A a \in {Show(QueryCard("C_HDC_GETCMD"), 3, {HDEC_CFG})} : Sane(a) BY <1>2, LengthsAre
  <2>2. \A a \in {Do(WriteCard("C_HDC_SETCMD"), n) : n \in {HDEC_CFG + 3, 26}} : Sane(a)
    BY <1>3, LengthsAre
  <2> QED BY <2>1, <2>2, OneSane DEF CHDCard
<1> QED BY <1>4, <1>5, <1>6, <1>7, <1>8

LEMMA Fe8Sane == SanePages(CGetCard_Fe8) /\ SanePages(CCardChg_Fe8) /\ SanePages(CCardChg_Ntt)
<1>1. SanePages(CGetCard_Fe8)
  BY CardSane, NumbersAre, LengthsAre, ThenSane, GetSane
  DEF CGetCard_Fe8, C_FE8_PORT_GET, GetCardFE8Port, C_FE8_BROADCASTSTORM_GET, GetFE8BroadcastStormInfo,
      BROADCASTSTORM_CTRL_FE
<1>2. SanePages(CCardChg_Fe8)
  BY CardSane, NumbersAre, OneSane, SetSane DEF CCardChg_Fe8, C_FE8_SET, SetCardFE8
<1>3. SanePages(CCardChg_Ntt)
  <2> DEFINE port == Do(C_NTT_SET, CARD_SET_485FE)
             all  == {SetCardPage, SetStorm, port}
  <2>1. Sane(port) BY NumbersAre, SetSane DEF C_NTT_SET, SetCardNTT, SetCardFE8
  <2>2. CCardChg_Ntt = {<<SetCardPage>>, <<SetStorm>> \o Times(8, port)} BY DEF CCardChg_Ntt
  <2>3. \A a \in all : Sane(a) BY <2>1, CardSane
  <2>4. <<SetCardPage>> \in Seq(all) /\ <<SetStorm>> \in Seq(all) /\ Times(8, port) \in Seq(all)
    <3>1. SetCardPage \in all /\ SetStorm \in all /\ port \in all OBVIOUS
    <3> HIDE DEF all, port
    <3> QED BY <3>1 DEF Times
  <2>5. <<SetStorm>> \o Times(8, port) \in Seq(all)
    <3> HIDE DEF all, port
    <3> QED BY <2>4
  <2> HIDE DEF all, port
  <2> QED BY <2>2, <2>3, <2>4, <2>5, SeqSane
<1> QED BY <1>1, <1>2, <1>3

LEMMA Fsa600Sane == SanePages(CGetCard_Fsa600) /\ SanePages(CCardChg_Fsa600)
<1>1. SanePages(CGetCard_Fsa600)
  BY CardSane, NumbersAre, ThenSane, GetSane
  DEF CGetCard_Fsa600, C_FSA600_GETRMT, C_FSA600_INFO, GetFSA600RMT, GetFsa600Info, FSA600_GETRMT,
      FSA600_PORT_485
<1>2. \A code : Sane(Do(C_FSA600_Do(code), 0)) BY NumbersAre, GetSane DEF C_FSA600_Do, FSA600resetAndDFT
<1>3. Sane(Do(C_FSA600_SET, FSA600_SET_485)) /\ Sane(Do(C_FSA600_SETRMT, FSA600_SETRMT))
  BY NumbersAre, SetSane DEF C_FSA600_SET, C_FSA600_SETRMT, SetFSA600, SetOnu100
<1>4. Sane(Do(Unknown, 0)) BY AskIs DEF Sane, Do
<1>5. SanePages(CCardChg_Fsa600) BY <1>2, <1>3, <1>4, CardSane, OneSane DEF CCardChg_Fsa600
<1> QED BY <1>1, <1>5

LEMMA EncoderSane == ASSUME NEW ch PROVE SanePages(EncoderPages(ch))
<1>1. Channel(ch) \in Nat /\ (IF ch < 2 THEN 30 ELSE 75) \in Nat BY NumbersAre DEF Channel
<1>2. SanePages(CGetCard_EncodeChannel(ch))
  BY <1>1, CardSane, NumbersAre, ThenSane, GetSane
  DEF CGetCard_EncodeChannel, C_ENCODE_PROTOCOL_GET, C_ENCODE_OSD_GET, C_ENCODE_PICTURE_GET,
      C_ENCODE_MODE_GET, GetPROTOCOLState, GetOSDState, GetPICTUREState, getPatten, ENCODE_PROTOCOL,
      ENCODE_OSD, ENCODE_PICTURE, ENCODE_MODE
<1>3. /\ Sane(Show(C_ENCODE_NET_GET(ch), 0, {ENCODE_NET_STATE}))
      /\ Sane(Show(C_ENCODE_VIDEO_GET(ch), 0, {ENCODE_VIDEO_STATE}))
      /\ Sane(Show(C_ENCODE_PROTOCOL_GET(ch), 0, {ENCODE_PROTOCOL}))
      /\ Sane(Show(C_ENCODE_MODE_GET(ch), 0, {ENCODE_MODE}))
  BY <1>1, NumbersAre, GetSane
  DEF C_ENCODE_NET_GET, C_ENCODE_VIDEO_GET, C_ENCODE_PROTOCOL_GET, C_ENCODE_MODE_GET, GetNetworkState,
      GetVideoState, GetPROTOCOLState, getPatten, ENCODE_NET_STATE, ENCODE_VIDEO_STATE, ENCODE_PROTOCOL,
      ENCODE_MODE
<1>4. /\ Sane(Show(C_ENCODE_SYSTIME_GET, 0, {ENCODE_SYSTIME})) /\ Sane(Show(C_ENCODE_NTP_GET, 0, {ENCODE_NTP}))
  BY NumbersAre, GetSane
  DEF C_ENCODE_SYSTIME_GET, C_ENCODE_NTP_GET, GetSysTime, GetNTP, ENCODE_SYSTIME, ENCODE_NTP
<1>5. SanePages(CGetCard_EncodeBox(ch)) BY <1>3, <1>4, CardSane, ThenSane DEF CGetCard_EncodeBox
<1>6. SanePages(CGetCard_Decode(ch)) BY <1>3, <1>4, CardSane, ThenSane DEF CGetCard_Decode
<1>7. /\ Sane(Do(C_ENCODE_PROTOCOL_SET(ch), ENCODE_PROTOCOL))
      /\ Sane(Do(C_ENCODE_VIDEO_SET(ch), ENCODE_VIDEO_STATE)) /\ Sane(Do(C_ENCODE_OSD_SET(ch), ENCODE_OSD))
      /\ Sane(Do(C_ENCODE_PICTURE_SET(ch), ENCODE_PICTURE)) /\ Sane(Do(C_ENCODE_MODE_SET(ch), ENCODE_MODE))
      /\ Sane(Do(C_ENCODE_NET_SET(ch), ENCODE_NET_STATE))
  BY <1>1, SetSane
  DEF C_ENCODE_PROTOCOL_SET, C_ENCODE_VIDEO_SET, C_ENCODE_OSD_SET, C_ENCODE_PICTURE_SET, C_ENCODE_MODE_SET,
      C_ENCODE_NET_SET, SetPROTOCOL, SetVIDEO, SetOSD, SetPicture, SetPatten, SetNetwork
<1>8. /\ Sane(Do(C_ENCODE_NTP_SET, ENCODE_NTP)) /\ Sane(Do(C_ENCODE_SYSTIME_SET, ENCODE_SYSTIME))
      /\ \A code : Sane(Do(ResetCard(code), 0))
  BY NumbersAre, SetSane, GetSane
  DEF C_ENCODE_NTP_SET, C_ENCODE_SYSTIME_SET, SetNTP, SetSysTime, ResetCard, genericReq
<1>9. SanePages(CCardChg_EncodeChannel(ch)) BY <1>7, OneSane DEF CCardChg_EncodeChannel
<1>10. SanePages(CCardChg_EncodeBox(ch)) BY <1>4, <1>7, <1>8, OneSane DEF CCardChg_EncodeBox
<1> QED BY <1>2, <1>5, <1>6, <1>9, <1>10 DEF EncoderPages, SanePages

LEMMA Ms4Sane == SanePages(CCardChg_Ms4) /\ SanePages(CCardChg_Fsa)
<1>1. Sane(Do(C_MS4_SWITCH, 1)) BY NumbersAre, DoSane DEF C_MS4_SWITCH, Ms4Switch
<1>2. \A n \in {1, 64} : Sane(Do(C_MS4_DEBUG, n)) BY NumbersAre, LengthsAre, DoSane DEF C_MS4_DEBUG, Ms4Debug
<1>3. SanePages(CCardChg_Ms4) BY <1>1, <1>2, OneSane DEF CCardChg_Ms4
<1>4. Sane(Do(ResetCard("C_CARD_RESET"), 0)) BY NumbersAre, GetSane DEF ResetCard, genericReq
<1>5. \A code, b : b \in AnyLength => Sane(Do(WriteCard(code), b))
  BY NumbersAre, DoSane DEF WriteCard, genericSetReq
<1>6. SanePages(CCardChg_Fsa) BY <1>4, <1>5, CardSane, LengthsAre, OneSane DEF CCardChg_Fsa
<1> QED BY <1>3, <1>6

LEMMA NttSane == SanePages(CGetCard_NttState) /\ SanePages(CGetCard_NttConfig) /\ SanePages(CNttPerfView)
<1> DEFINE port  == Show(C_NTT_INFO, FE_PORT_STATE, {FE_PORT_STATE})
           state == Show(C_NTT_GETSTATE, 0, {NTT_STATE})
           storm == Show(C_FE8_BROADCASTSTORM_GET, FE_PORT_STATE, {BROADCASTSTORM_CTRL_FE})
           all   == {Card, port, state, storm}
<1>1. Sane(port) /\ Sane(state) /\ Sane(storm)
  BY NumbersAre, LengthsAre, GetSane
  DEF C_NTT_INFO, C_NTT_GETSTATE, C_FE8_BROADCASTSTORM_GET, GetNttInfo, GetCardFE8Port, GetNttState,
      GetFE8BroadcastStormInfo, NTT_STATE, BROADCASTSTORM_CTRL_FE
<1>2. \A a \in all : Sane(a) BY <1>1, CardSane
<1>3. Card \in all /\ state \in all /\ storm \in all /\ port \in all OBVIOUS
<1>4. NttPorts = Times(8, port) BY DEF NttPorts
<1>5. /\ CGetCard_NttState = Then({<<state>> \o NttPorts})
      /\ CGetCard_NttConfig = Then({NttPorts \o <<storm>>, <<state>>})
  BY DEF CGetCard_NttState, CGetCard_NttConfig
<1> HIDE DEF port, state, storm, all
<1>6. NttPorts \in Seq(all) BY <1>3, <1>4 DEF Times
<1>7. <<state>> \o NttPorts \in Seq(all) /\ NttPorts \o <<storm>> \in Seq(all) /\ <<state>> \in Seq(all)
  BY <1>3, <1>6
<1>8. \A s \in Seq(all) : <<Card>> \o s \in Seq(all) BY <1>3
<1>9. CGetCard_NttState \subseteq Seq(all) /\ CGetCard_NttConfig \subseteq Seq(all)
  BY <1>5, <1>7, <1>8 DEF Then
<1>10. SanePages(CNttPerfView)
  <2>1. Sane(PortPerf) /\ Sane(PortReset)
    BY NumbersAre, LengthsAre, GetSane
    DEF PortPerf, PortReset, GET_PORT_PERF, SET_PERF_RESET, GetPerfState, ResetPerfState
  <2> DEFINE both == {PortPerf, PortReset}
  <2>2. Times(8, PortPerf) \in Seq(both) /\ Times(8, PortReset) \in Seq(both) BY DEF Times
  <2>3. \A a \in both : Sane(a) BY <2>1
  <2> HIDE DEF both
  <2> QED BY <2>2, <2>3, SeqSane DEF CNttPerfView
<1> QED BY <1>2, <1>9, <1>10, SeqSane

LEMMA OtherPagesGood == GoodPages(OtherPages)
<1> DEFINE E == UNION {EncoderPages(ch) : ch \in 1..2}
<1>1. SanePages(E) BY EncoderSane DEF SanePages
<1> HIDE DEF E
<1>2. SanePages(CGetCard_Ctrl \cup CGetCard_Epn \cup CGetCard_Fe8 \cup CGetCard_Fsa600
    \cup CGetCard_NttState \cup CGetCard_NttConfig
    \cup CCardChg_Ctrl \cup CCardChg_Fsa \cup CCardChg_Ntt \cup CCardChg_Fe8
    \cup CCardChg_Fsa600 \cup CCardChg_Ge8 \cup CCardChg_Ms4
    \cup CGetGe8_Network \cup CGetGe8_Vlan \cup CGetGe8_Port \cup CGetGe8_Igmp
    \cup CHDCard \cup CNttPerfView \cup CGetEPOnu \cup CEPOnuChg \cup CEpnView \cup E)
  BY <1>1, CtrlSane, Ge8Sane, EpnSane, Fe8Sane, Fsa600Sane, Ms4Sane, NttSane DEF SanePages
<1> QED BY <1>2, OtherGood DEF OtherPages, E

----------------------------------------------------------------------------
(* What the pages of an FSA card ask of it: the card answers in time and with *)
(* what the agent and the page expect.                                       *)

LEMMA LengthIs ==
  /\ Length("C_CARD_GET") = CARD_INFO /\ Length("C_FSA_GET") = FSA_CARD_STATE
  /\ Length("C_SFP_GET") = SFP_INFO /\ Length("C_ONU_GET") = ONU_INFO
  /\ Length("C_ETHER_GET") = FE_PORT_STATE /\ Length("GET_PORT_PERF") = PORT_PERF
  /\ Length("C_FSA_GETCOUNT") = PORT_COUNT /\ Length("C_ONU_GETDATACH") = 1 + ONU_UART_CONF
  /\ Length("C_ONU_GETDSN_LIST") = ONUDSN_LIST /\ Length("C_ONU_GETPORTMIRROR") = ONU_PORTMIRROR_CONF
  /\ Length("C_ONU_GETIO") = ONU_IO /\ Length("C_ONU_GETQoS") = ONU_QoS_CONF
  /\ Length("C_ONU_GETVLAN") = 1 + ONU_VLAN_CONF /\ Length("C_FSA_NET_GET") = FSA_NETWORK
  /\ Length("C_FSA_LOWSPD_GET") = FSA_LOWSPD_CONFIG /\ Length("C_FSA_LOWSPD_STAT") = FSA_LOWSPD_STATE
  /\ Length("GET_ALARMS") = 2
  /\ \A code \in {"C_FSA_RESETCOUNT", "C_CARD_SET", "C_FSA_SET", "C_ONU_RESET", "C_ONU_SET", "C_ETHER_SET",
                  "C_ONU_SETDATACH", "C_ONU_SETIO", "C_ONU_SETPORTMIRROR", "C_ONU_SETQoS",
                  "C_ONU_SAVEVLAN", "C_ONU_DELVLAN", "C_ONU_SET_ONUID", "C_FSA_LOWSPD_SET",
                  "C_FSA_LOWSPD_STATRESET"} : Length(code) = 0
  BY DEF Length

\* The answer to a request fits and comes in time.
Suit(code, t, l, takes) ==
  \/ code \in Unfit
  \/ Length(code) \in l /\ Length(code) \in takes
     /\ (t = Long \/ (t = Short /\ code \in Local \cup {"C_ONU_RESET"}))

LEMMA FsaSuits ==
  ASSUME NEW code, NEW t, NEW l, NEW c, NEW b, NEW takes, c.request = Fsa(code, t, l),
         Sane(Show(c, b, takes)),
         Suit(code, t, l, takes)
  PROVE  Good(Show(c, b, takes))
<1> HIDE DEF Unfit, Local, Length
<1>1. /\ c.request.code = code /\ c.request.for = t /\ c.request.accepts = l /\ c.request.to = "fsa"
  BY RequestIs
<1>2. /\ Show(c, b, takes).command = c /\ Show(c, b, takes).takes = takes
      /\ Show(c, b, takes).to = "fsa"
  BY <1>1, AskIs
<1>3. FsaGood(Show(c, b, takes)) BY <1>1, <1>2 DEF FsaGood, InTime, Suit
<1> QED BY <1>2, <1>3 DEF Good, Sane

LEMMA GetGood ==
  ASSUME NEW code, NEW t \in Nat, NEW l, NEW b \in AnyLength, NEW takes,
         l \subseteq takes \/ (l = AnyLength /\ t # 0), Suit(code, t, l, takes)
  PROVE  Good(Show(Get(Fsa(code, t, l)), b, takes))
<1>1. Get(Fsa(code, t, l)).request = Fsa(code, t, l) BY CommandIs DEF Get
<1>2. Sane(Show(Get(Fsa(code, t, l)), b, takes)) BY GetSane, AnySane
<1> QED BY <1>1, <1>2, FsaSuits

LEMMA SetGood ==
  ASSUME NEW code, NEW t \in Nat, NEW body, NEW b \in body, Suit(code, t, Nothing, Nothing)
  PROVE  /\ Good(Do(Command(body, Fsa(code, t, Nothing), Nothing), b))
         /\ Good(Do(Set(b, Fsa(code, t, Nothing)), b))
<1>1. ASSUME NEW bs, b \in bs
      PROVE  Good(Do(Command(bs, Fsa(code, t, Nothing), Nothing), b))
  <2>1. LET c == Command(bs, Fsa(code, t, Nothing), Nothing) IN
        c.request = Fsa(code, t, Nothing) /\ c.answer = Nothing
    BY CommandIs
  <2>2. Sane(Do(Command(bs, Fsa(code, t, Nothing), Nothing), b)) BY <1>1, DoSane
  <2> QED BY <2>1, <2>2, FsaSuits DEF Do
<1> QED BY <1>1 DEF Set

LEMMA DoGetGood ==
  ASSUME NEW code, NEW t \in Nat, NEW l, NEW b \in AnyLength, Suit(code, t, l, l)
  PROVE  Good(Do(Get(Fsa(code, t, l)), b)) /\ Good(Show(Get(Fsa(code, t, l)), b, l))
<1>1. Get(Fsa(code, t, l)).answer = l BY CommandIs, RequestIs DEF Get
<1> QED BY <1>1, GetGood DEF Do

LEMMA OwnGood ==
  ASSUME NEW body, NEW answer, NEW b \in body
  PROVE  /\ Good(Do(Own(body, answer), b))
         /\ \A takes : answer \subseteq takes => Good(Show(Own(body, answer), b, takes))
<1>1. Own(body, answer).request = NoReq /\ NoReq.to = "fsa" BY CommandIs, RequestIs DEF Own, NoReq
<1>2. ASSUME NEW takes, Sane(Show(Own(body, answer), b, takes)) PROVE Good(Show(Own(body, answer), b, takes))
  <2>1. LET a == Show(Own(body, answer), b, takes) IN a.to = "fsa" /\ FsaGood(a)
    BY <1>1, AskIs DEF FsaGood
  <2> QED BY <1>2, <2>1 DEF Good, Sane
<1> QED BY <1>2, OwnSane DEF Do

LEMMA OneGood ==
  ASSUME NEW asks, \A a \in asks : Good(a)
  PROVE  GoodPages(One(asks))
<1> SUFFICES ASSUME NEW a \in asks PROVE \A i \in DOMAIN <<a>> : Good(<<a>>[i])
  BY DEF GoodPages, One
<1>1. DOMAIN <<a>> = {1} /\ <<a>>[1] = a OBVIOUS
<1> QED BY <1>1

LEMMA SuitsLong ==
  /\ Suit("C_SFP_GET", Long, {SFP_INFO}, {SFP_INFO}) /\ Suit("C_ONU_GET", Long, {ONU_INFO}, {ONU_INFO})
  /\ Suit("C_ETHER_GET", Long, {FE_PORT_STATE}, {FE_PORT_STATE})
  /\ Suit("GET_PORT_PERF", Long, {PORT_PERF}, {PORT_PERF})
  /\ Suit("C_FSA_GETCOUNT", Long, {PORT_COUNT}, {PORT_COUNT})
  /\ Suit("C_ONU_GETDATACH", Long, List(ONU_UART_CONF), List(ONU_UART_CONF))
  /\ Suit("C_ONU_GETDSN_LIST", Long, {ONUDSN_LIST}, {ONUDSN_LIST})
  /\ Suit("C_ONU_GETPORTMIRROR", Long, {ONU_PORTMIRROR_CONF}, {ONU_PORTMIRROR_CONF})
  /\ Suit("C_ONU_GETIO", Long, {ONU_IO}, {ONU_IO})
  /\ Suit("C_ONU_GETQoS", Long, {ONU_QoS_CONF}, {ONU_QoS_CONF})
  /\ Suit("C_ONU_GETVLAN", Long, List(ONU_VLAN_CONF), List(ONU_VLAN_CONF))
  /\ \A code \in {"C_FSA_RESETCOUNT", "C_ONU_SET", "C_ETHER_SET", "C_ONU_SETDATACH", "C_ONU_SETIO",
                  "C_ONU_SETPORTMIRROR", "C_ONU_SETQoS", "C_ONU_SAVEVLAN", "C_ONU_DELVLAN",
                  "C_ONU_SET_ONUID"} : Suit(code, Long, Nothing, Nothing)
<1>1. ASSUME NEW code, NEW l, NEW takes, Length(code) \in l, Length(code) \in takes
      PROVE  Suit(code, Long, l, takes)
  BY <1>1 DEF Suit
<1>2. 0 \in Nothing BY DEF Nothing
<1>3. \A n \in Nat : 1 + n \in List(n)
  <2>1. ASSUME NEW n \in Nat PROVE 1 + 1 * n \in List(n) BY DEF List
  <2> QED BY <2>1
<1>4. ONU_UART_CONF \in Nat /\ ONU_VLAN_CONF \in Nat BY DEF ONU_UART_CONF, ONU_VLAN_CONF
<1>5. \A code \in {"C_FSA_RESETCOUNT", "C_ONU_SET", "C_ETHER_SET", "C_ONU_SETDATACH", "C_ONU_SETIO",
                  "C_ONU_SETPORTMIRROR", "C_ONU_SETQoS", "C_ONU_SAVEVLAN", "C_ONU_DELVLAN",
                  "C_ONU_SET_ONUID"} : Suit(code, Long, Nothing, Nothing)
  BY <1>1, <1>2, LengthIs
<1>6. /\ Suit("C_ONU_GETDATACH", Long, List(ONU_UART_CONF), List(ONU_UART_CONF))
      /\ Suit("C_ONU_GETVLAN", Long, List(ONU_VLAN_CONF), List(ONU_VLAN_CONF))
  BY <1>1, <1>3, <1>4, LengthIs
<1> QED BY <1>1, <1>5, <1>6, LengthIs

LEMMA SuitsShort ==
  /\ Suit("C_CARD_GET", Short, {CARD_INFO}, {CARD_INFO})
  /\ Suit("C_FSA_GET", Short, {FSA_CARD_STATE}, {FSA_CARD_STATE})
  /\ Suit("C_FSA_NET_GET", Short, AnyLength, {FSA_NETWORK})
  /\ Suit("C_FSA_LOWSPD_GET", Short, AnyLength, {FSA_LOWSPD_CONFIG})
  /\ Suit("C_FSA_LOWSPD_STAT", Short, AnyLength, {FSA_LOWSPD_STATE})
  /\ \A code \in {"C_CARD_SET", "C_FSA_SET", "C_ONU_RESET", "C_FSA_LOWSPD_SET", "C_FSA_LOWSPD_STATRESET",
                  "C_FSA_NET_SET", "SET_PERF_RESET"} : Suit(code, Short, Nothing, Nothing)
<1>1. ASSUME NEW code \in Local \cup {"C_ONU_RESET"}, NEW l, NEW takes, Length(code) \in l,
             Length(code) \in takes
      PROVE  Suit(code, Short, l, takes)
  BY <1>1 DEF Suit
<1>2. ASSUME NEW code \in Unfit, NEW l, NEW takes PROVE Suit(code, Short, l, takes) BY DEF Suit
<1>3. 0 \in Nothing BY DEF Nothing
<1>4. FSA_NETWORK \in AnyLength /\ FSA_LOWSPD_CONFIG \in AnyLength /\ FSA_LOWSPD_STATE \in AnyLength
  BY DEF FSA_NETWORK, FSA_LOWSPD_CONFIG, FSA_LOWSPD_STATE, AnyLength
<1>5. {"C_CARD_GET", "C_FSA_GET", "C_FSA_NET_GET", "C_FSA_LOWSPD_GET", "C_FSA_LOWSPD_STAT", "C_CARD_SET",
       "C_FSA_SET", "C_ONU_RESET", "C_FSA_LOWSPD_SET", "C_FSA_LOWSPD_STATRESET"}
      \subseteq Local \cup {"C_ONU_RESET"}
  BY DEF Local
<1>6. {"C_FSA_NET_SET", "SET_PERF_RESET"} \subseteq Unfit BY DEF Unfit
<1>7. \A code \in {"C_CARD_SET", "C_FSA_SET", "C_ONU_RESET", "C_FSA_LOWSPD_SET",
                   "C_FSA_LOWSPD_STATRESET"} : Suit(code, Short, Nothing, Nothing)
  BY <1>1, <1>3, <1>5, LengthIs
<1>8. /\ Suit("C_FSA_NET_GET", Short, AnyLength, {FSA_NETWORK})
      /\ Suit("C_FSA_LOWSPD_GET", Short, AnyLength, {FSA_LOWSPD_CONFIG})
      /\ Suit("C_FSA_LOWSPD_STAT", Short, AnyLength, {FSA_LOWSPD_STATE})
  BY <1>1, <1>4, <1>5, LengthIs
<1>9. /\ Suit("C_CARD_GET", Short, {CARD_INFO}, {CARD_INFO})
      /\ Suit("C_FSA_GET", Short, {FSA_CARD_STATE}, {FSA_CARD_STATE})
  BY <1>1, <1>5, LengthIs
<1> QED BY <1>2, <1>6, <1>7, <1>8, <1>9

LEMMA OnuGood ==
  /\ GoodPages(CGetOnu_Base) /\ GoodPages(CGetOnu_Settings) /\ GoodPages(CGetOnu_Ports)
  /\ GoodPages(COnuChg) /\ GoodPages(COnuChg_Mirror) /\ GoodPages(COnuChg_Vlan) /\ GoodPages(CONUIDmgmt)
<1>1. GoodPages(CGetOnu_Base)
  BY SuitsLong, NumbersAre, DoGetGood, OneGood
  DEF CGetOnu_Base, C_ONU_GET, C_ONU_GETDATACH, GetOnuInfo, GetUartInfo
<1>2. GoodPages(CGetOnu_Settings)
  <2>1. Good(Show(C_ONU_GETIO, 0, {ONU_IO})) BY SuitsLong, NumbersAre, DoGetGood DEF C_ONU_GETIO, GetIO
  <2>2. Good(Show(C_ONU_GETPORTMIRROR, 0, {ONU_PORTMIRROR_CONF}))
    BY SuitsLong, NumbersAre, DoGetGood DEF C_ONU_GETPORTMIRROR, GetPortMirror
  <2>3. Good(Show(C_ONU_GETQoS, 0, {ONU_QoS_CONF}))
    BY SuitsLong, NumbersAre, DoGetGood DEF C_ONU_GETQoS, GetQoS
  <2> QED BY <2>1, <2>2, <2>3, OneGood DEF CGetOnu_Settings
<1>3. GoodPages(CGetOnu_Ports)
  <2>1. Good(Show(C_ONU_GETVLAN, 0, List(ONU_VLAN_CONF)))
    BY SuitsLong, NumbersAre, DoGetGood DEF C_ONU_GETVLAN, GetVLAN
  <2>2. Good(Show(C_ETHER_GET, FE_PORT_STATE, {FE_PORT_STATE}))
    <3>1. C_ETHER_GET.request = Fsa("C_ETHER_GET", Long, {FE_PORT_STATE})
      BY CommandIs DEF C_ETHER_GET, GetEtherportInfo
    <3>2. Sane(Show(C_ETHER_GET, FE_PORT_STATE, {FE_PORT_STATE}))
      BY NumbersAre, RequestIs, ShowSane DEF C_ETHER_GET, GetEtherportInfo
    <3> QED BY <3>1, <3>2, SuitsLong, FsaSuits
  <2> QED BY <2>1, <2>2, OneGood DEF CGetOnu_Ports
<1>4. Good(Do(ResetCard("C_ONU_RESET"), 0))
  BY SuitsShort, NumbersAre, DoGetGood DEF ResetCard, genericReq
<1>5. GoodPages(COnuChg)
  BY <1>4, SuitsLong, NumbersAre, SetGood, OneGood
  DEF COnuChg, C_ONU_SET, C_ETHER_SET, C_ONU_SETDATACH, C_ONU_SETIO, SetOnu, SetEtherPort, SetOnuUart,
      SetOnuIO
<1>6. GoodPages(COnuChg_Mirror)
  BY SuitsLong, NumbersAre, SetGood, OneGood
  DEF COnuChg_Mirror, C_ONU_SETPORTMIRROR, C_ONU_SETQoS, SetOnuPortMirror, SetOnuQoS
<1>7. GoodPages(COnuChg_Vlan)
  BY SuitsLong, NumbersAre, SetGood, OneGood
  DEF COnuChg_Vlan, C_ONU_SAVEVLAN, C_ONU_DELVLAN, SaveONUVLAN, DelONUVLAN
<1>8. GoodPages(CONUIDmgmt)
  <2>1. Good(Do(C_ONU_GETDSN_LIST, 0))
    BY SuitsLong, NumbersAre, DoGetGood DEF C_ONU_GETDSN_LIST, GetONUDSNList
  <2>2. Good(Do(C_ONU_SET_ONUID, ONU_SETID)) BY SuitsLong, NumbersAre, SetGood DEF C_ONU_SET_ONUID, SetOnuID
  <2> QED BY <1>4, <2>1, <2>2, OneGood DEF CONUIDmgmt
<1> QED BY <1>1, <1>2, <1>3, <1>5, <1>6, <1>7, <1>8

LEMMA FsaGoodPages ==
  /\ GoodPages(CFsaCard_Base) /\ GoodPages(CFsaCard_Net) /\ GoodPages(CFsaCard_Stat(2))
  /\ GoodPages({<<SetCardPage>>}) /\ GoodPages(CGetCard)
<1>1. Good(Card) /\ Good(SetCardPage)
  BY SuitsShort, NumbersAre, DoGetGood, SetGood DEF Card, C_CARD_GET, GetCardInfo, SetCardPage, C_CARD_SET, SetCard
<1>2. GoodPages(CGetCard) /\ GoodPages({<<SetCardPage>>})
  <2>1. CGetCard = One({Card}) /\ {<<SetCardPage>>} = One({SetCardPage}) BY DEF CGetCard, One
  <2> QED BY <1>1, <2>1, OneGood
<1>3. GoodPages(CFsaCard_Base)
  <2>1. Good(Show(C_FSA_GET, 0, {FSA_CARD_STATE}))
    BY SuitsShort, NumbersAre, DoGetGood DEF C_FSA_GET, GetCardFsa
  <2>2. Good(Do(C_FSA_SET, CARD_SET_FSA)) BY SuitsShort, NumbersAre, SetGood DEF C_FSA_SET, SetCardFSA
  <2> QED BY <2>1, <2>2, OneGood DEF CFsaCard_Base
<1>4. Short # 0 BY DEF Short
<1>5. /\ Good(Show(ReadCard("C_FSA_NET_GET"), 0, {FSA_NETWORK}))
      /\ Good(Show(ReadCard("C_FSA_LOWSPD_GET"), 0, {FSA_LOWSPD_CONFIG}))
      /\ Good(LowSpeed)
  BY <1>4, SuitsShort, NumbersAre, GetGood DEF ReadCard, genericGetReq, LowSpeed
<1>6. /\ Good(Do(WriteCard("C_FSA_NET_SET"), FSA_NETWORK))
      /\ Good(Do(WriteCard("C_FSA_LOWSPD_SET"), FSA_LOWSPD_CONFIG))
  BY SuitsShort, NumbersAre, LengthsAre, SetGood DEF WriteCard, genericSetReq
<1>7. GoodPages(CFsaCard_Net) BY <1>5, <1>6, OneGood DEF CFsaCard_Net
<1>8. GoodPages(CFsaCard_Stat(2))
  <2> DEFINE more  == [LowSpeed EXCEPT !.must = FALSE]
             reset == Do(ResetCard("C_FSA_LOWSPD_STATRESET"), 0)
             all   == {LowSpeed, more, reset}
  <2>1. Good(reset) BY SuitsShort, NumbersAre, DoGetGood DEF ResetCard, genericReq
  <2>2. Good(more)
    <3>1. Shaped(LowSpeed) BY AskIs DEF LowSpeed
    <3>2. /\ more.command = LowSpeed.command /\ more.body = LowSpeed.body /\ more.takes = LowSpeed.takes
          /\ more.to = LowSpeed.to
      BY <3>1 DEF Shaped
    <3> HIDE DEF more
    <3> QED BY <1>5, <3>2 DEF Good, Legit, Shown, FsaGood
  <2>3. \A a \in all : Good(a) BY <1>5, <2>1, <2>2
  <2>4. CFsaCard_Stat(2) = {<<LowSpeed>> \o Times(2, more), <<reset>>} BY DEF CFsaCard_Stat
  <2>5. LowSpeed \in all /\ more \in all /\ reset \in all OBVIOUS
  <2> HIDE DEF more, reset, all
  <2>6. Times(2, more) \in Seq(all) /\ <<LowSpeed>> \in Seq(all) /\ <<reset>> \in Seq(all)
    BY <2>5 DEF Times
  <2>7. <<LowSpeed>> \o Times(2, more) \in Seq(all) BY <2>6
  <2>8. CFsaCard_Stat(2) \subseteq Seq(all) BY <2>4, <2>6, <2>7
  <2> QED BY <2>3, <2>8 DEF GoodPages
<1> QED BY <1>2, <1>3, <1>7, <1>8

LEMMA CountGood ==
  /\ GoodPages(CCount) /\ GoodPages(CGetSfp) /\ GoodPages(CPerf) /\ GoodPages(CVlan) /\ GoodPages(CL3Config)
  /\ GoodPages(CMulticast) /\ GoodPages(CFrameView)
<1>1. Good(Do(C_FSA_RESETCOUNT, 0)) /\ Good(Show(C_FSA_GETCOUNT, 0, {PORT_COUNT}))
  BY SuitsLong, NumbersAre, DoGetGood
  DEF C_FSA_RESETCOUNT, C_FSA_GETCOUNT, ReseStatisticCount, getStatisticCount
<1>2. Good(Show(C_SW_GETCOUNT, 0, {SW_PORT_COUNT})) /\ Good(Do(C_SW_RESETCOUNT, 0))
  BY NumbersAre, OwnGood DEF C_SW_GETCOUNT, C_SW_RESETCOUNT
<1>3. GoodPages(CCount) BY <1>1, <1>2, OneGood DEF CCount
<1>4. GoodPages(CGetSfp)
  <2>1. Good(Show(C_SFP_GET, SFP_INFO, {SFP_INFO}))
    BY SuitsLong, LengthsAre, NumbersAre, DoGetGood DEF C_SFP_GET, GetSfpInfo
  <2> QED BY <2>1, OneGood DEF CGetSfp
<1>5. GoodPages(CPerf)
  <2>1. Good(PortPerf)
    BY SuitsLong, LengthsAre, NumbersAre, DoGetGood DEF PortPerf, GET_PORT_PERF, GetPerfState
  <2>2. Good(PortReset)
    BY SuitsShort, LengthsAre, NumbersAre, DoGetGood DEF PortReset, SET_PERF_RESET, ResetPerfState
  <2> QED BY <2>1, <2>2, OneGood DEF CPerf
<1>6. GoodPages(CVlan) BY NumbersAre, OwnGood, OneGood DEF CVlan, C_SW_GETVLAN, C_SW_VLAN
<1>7. GoodPages(CL3Config) BY OwnGood, OneGood DEF CL3Config, C_SW_L3INTF
<1>8. GoodPages(CMulticast) BY NumbersAre, OwnGood, OneGood DEF CMulticast, C_SW_GETALLMC, C_SW_MCG
<1>9. GoodPages(CFrameView)
  <2>1. Good(Do(C_SHELF_SET, SHELF_INFO)) BY OwnGood DEF C_SHELF_SET
  <2>2. Good(Show(C_SHELF_GET, 0, {SHELF_INFO})) BY NumbersAre, OwnGood DEF C_SHELF_GET
  <2> QED BY <2>1, <2>2, OneGood DEF CFrameView
<1> QED BY <1>3, <1>4, <1>5, <1>6, <1>7, <1>8, <1>9

\* Every command of every page is one the agent accepts, and its answer is one
\* that agent and page expect.
LEMMA AllGood == \A a \in Asks : Good(a)
<1>1. GoodPages(FsaPages(2)) BY OnuGood, FsaGoodPages, CountGood DEF FsaPages, GoodPages
<1> QED BY <1>1, OtherPagesGood DEF Asks, GoodPages

----------------------------------------------------------------------------
(* How long the card takes.  No program has more than nine messages, and only *)
(* its first may be one that the card goes on after if it is not answered.    *)

Stays(m) == DOMAIN m = DOMAIN Msg /\ ~m.go

LEMMA StaysAs ==
  ASSUME NEW m, Stays(m), NEW x
  PROVE  /\ Stays([m EXCEPT !.type = x]) /\ Stays([m EXCEPT !.get = x]) /\ Stays([m EXCEPT !.set = x])
         /\ Stays([m EXCEPT !.zero = x]) /\ Stays([m EXCEPT !.one = x]) /\ Stays([m EXCEPT !.keep = x])
         /\ Stays([m EXCEPT !.select = x]) /\ Stays([m EXCEPT !.sum = x]) /\ Stays([m EXCEPT !.wait = x])
         /\ Stays([m EXCEPT !.may = x])
  BY DEF Stays, Msg

LEMMA MessagesStay ==
  /\ Stays(Msg)
  /\ \A x : Stays(Ask(x)) /\ Stays(Read(x)) /\ Stays(Select(x))
  /\ \A x, y : Stays(Tell(x, y)) /\ Stays(Write(x, y))
<1>1. Stays(Msg) BY DEF Stays, Msg
<1>2. ASSUME NEW x PROVE Stays(Ask(x)) /\ Stays(Read(x)) BY <1>1, StaysAs DEF Ask, Read
<1>3. ASSUME NEW x PROVE Stays(Select(x)) BY <1>1 DEF Select, Stays, Msg
<1>4. ASSUME NEW x, NEW y PROVE Stays(Tell(x, y)) BY <1>1 DEF Tell, Stays, Msg
<1>5. ASSUME NEW x, NEW y PROVE Stays(Write(x, y)) BY <1>1 DEF Write, Stays, Msg
<1> QED BY <1>1, <1>2, <1>3, <1>4, <1>5

\* A program the card gives up when a message is not answered.
Brief(p) == (\E k \in 0..9 : DOMAIN p = 1..k) /\ \A i \in DOMAIN p : p[i].go => i = 1

LEMMA BriefOf ==
  ASSUME NEW S, \A m \in S : Stays(m), NEW p \in Seq(S), Len(p) <= 9
  PROVE  Brief(p)
<1>1. Len(p) \in 0..9 /\ DOMAIN p = 1..Len(p) /\ \A i \in DOMAIN p : p[i] \in S
  <2>1. DOMAIN p = 1..Len(p) /\ Len(p) \in Nat /\ \A i \in DOMAIN p : p[i] \in S OBVIOUS
  <2>2. \A n \in Nat : n <= 9 => n \in 0..9 OBVIOUS
  <2> QED BY <2>1, <2>2
<1>2. \A i \in DOMAIN p : ~p[i].go BY <1>1 DEF Stays
<1> QED BY <1>1, <1>2 DEF Brief

LEMMA SeqJoin ==
  ASSUME NEW S, NEW s \in Seq(S), NEW t \in Seq(S)
  PROVE  s \o t \in Seq(S) /\ Len(s \o t) = Len(s) + Len(t)
  OBVIOUS

LEMMA BriefLists ==
  ASSUME NEW a, Stays(a)
  PROVE  /\ Brief(<<a>>)
         /\ \A b : Stays(b) => Brief(<<a, b>>)
         /\ \A b, c : Stays(b) /\ Stays(c) => Brief(<<a, b, c>>)
         /\ \A b, c, d, e : Stays(b) /\ Stays(c) /\ Stays(d) /\ Stays(e) => Brief(<<a, b, c, d, e>>)
<1>1. Brief(<<a>>)
  <2> DEFINE S == {a}
  <2>1. <<a>> \in Seq(S) /\ Len(<<a>>) <= 9 OBVIOUS
  <2> QED BY <2>1, BriefOf
<1>2. ASSUME NEW b, Stays(b) PROVE Brief(<<a, b>>)
  <2> DEFINE S == {a, b}
  <2>1. <<a, b>> \in Seq(S) /\ Len(<<a, b>>) <= 9 OBVIOUS
  <2>2. \A m \in S : Stays(m) BY <1>2
  <2> QED BY <2>1, <2>2, BriefOf
<1>3. ASSUME NEW b, NEW c, Stays(b), Stays(c) PROVE Brief(<<a, b, c>>)
  <2> DEFINE S == {a, b, c}
  <2>1. <<a, b, c>> \in Seq(S) /\ Len(<<a, b, c>>) <= 9 OBVIOUS
  <2>2. \A m \in S : Stays(m) BY <1>3
  <2> QED BY <2>1, <2>2, BriefOf
<1>4. ASSUME NEW b, NEW c, NEW d, NEW e, Stays(b), Stays(c), Stays(d), Stays(e)
      PROVE  Brief(<<a, b, c, d, e>>)
  <2> DEFINE S == {a, b, c, d, e}
  <2>1. <<a, b, c, d, e>> \in Seq(S) /\ Len(<<a, b, c, d, e>>) <= 9 OBVIOUS
  <2>2. \A m \in S : Stays(m) BY <1>4
  <2> QED BY <2>1, <2>2, BriefOf
<1> QED BY <1>1, <1>2, <1>3, <1>4

LEMMA VlanBrief == Brief(getONUVLAN)
<1> DEFINE a == [Select("other") EXCEPT !.go = TRUE]
           s == Select("other")
           r == Read({})
           p == <<a, s, r, s, r, s, r, s, r>>
<1>1. ~s.go /\ ~r.go BY MessagesStay DEF Stays
<1>2. getONUVLAN = p BY DEF getONUVLAN
<1> HIDE DEF a, s, r
<1>3. DOMAIN p = 1..9 OBVIOUS
<1>4. ASSUME NEW i \in DOMAIN p, i # 1 PROVE p[i] = s \/ p[i] = r
  <2>1. i \in 2..9 BY <1>3, <1>4
  <2> QED BY <2>1
<1>5. \A i \in DOMAIN p : p[i].go => i = 1
  <2> HIDE DEF p
  <2> QED BY <1>1, <1>4
<1> HIDE DEF p
<1> QED BY <1>2, <1>3, <1>5 DEF Brief

LEMMA JoinedBrief ==
  /\ Brief(getPortPerf) /\ 1 \in DOMAIN getPortPerf /\ getPortPerf[1].wait
  /\ Brief(setONUAdmin \o setONUName \o setONUStorm(1))
<1>1. Brief(getPortPerf) /\ 1 \in DOMAIN getPortPerf /\ getPortPerf[1].wait
  <2> DEFINE T    == {Select(c) : c \in {"rxlo", "rxhi", "txlo"}}
                     \cup {[Read({}) EXCEPT !.sum = s] : s \in {"rx", "tx"}}
  <2>0. \A m \in T : m.wait
    <3>1. \A c : Select(c).wait BY DEF Select, Msg
    <3>2. \A s : [Read({}) EXCEPT !.sum = s].wait BY DEF Read, Msg
    <3> QED BY <3>1, <3>2
  <2>1. \A m \in T : Stays(m)
    <3>1. \A s : Stays([Read({}) EXCEPT !.sum = s]) BY MessagesStay, StaysAs
    <3> QED BY <3>1, MessagesStay
  <2>2. ASSUME NEW c \in {"rxlo", "rxhi", "txlo"}, NEW s \in {"rx", "tx"}
        PROVE  readPerfReg(c, s) \in Seq(T) /\ Len(readPerfReg(c, s)) = 2
    <3> DEFINE x == Select(c)
               y == [Read({}) EXCEPT !.sum = s]
    <3>1. x \in T /\ y \in T OBVIOUS
    <3>2. readPerfReg(c, s) = <<x, y>> BY DEF readPerfReg
    <3> HIDE DEF x, y, T
    <3> QED BY <3>1, <3>2
  <2> HIDE DEF T
  <2>3. getPortPerf \in Seq(T) /\ Len(getPortPerf) = 8
    <3> DEFINE q1 == readPerfReg("rxlo", "rx")
               q2 == readPerfReg("rxhi", "rx")
               q3 == readPerfReg("txlo", "tx")
    <3>1. q1 \in Seq(T) /\ q2 \in Seq(T) /\ q3 \in Seq(T) /\ Len(q1) = 2 /\ Len(q2) = 2 /\ Len(q3) = 2
      BY <2>2
    <3>2. getPortPerf = q1 \o q2 \o q3 \o q3 BY DEF getPortPerf
    <3> HIDE DEF q1, q2, q3
    <3>3. q1 \o q2 \in Seq(T) /\ Len(q1 \o q2) = Len(q1) + Len(q2) BY <3>1, SeqJoin
    <3>4. q1 \o q2 \o q3 \in Seq(T) /\ Len(q1 \o q2 \o q3) = 6 BY <3>1, <3>3, SeqJoin
    <3> QED BY <3>1, <3>2, <3>4, SeqJoin
  <2>4. Len(getPortPerf) <= 9 BY <2>3
  <2>5. 1 \in DOMAIN getPortPerf
    <3>1. Len(getPortPerf) = 8 /\ DOMAIN getPortPerf = 1..Len(getPortPerf) BY <2>3
    <3> QED BY <3>1
  <2>6. getPortPerf[1].wait BY <2>0, <2>3, <2>5
  <2> QED BY <2>1, <2>3, <2>4, <2>5, <2>6, BriefOf
<1>2. Brief(setONUAdmin \o setONUName \o setONUStorm(1))
  <2> DEFINE a == Tell("ADMINW", {"admin"})
             b == Tell("NAMEW", {"name"})
             c == Read({"storm", "prio1", "threshold"})
             d == Write({"storm"} \cup (IF 1 = 1 THEN {"threshold"} ELSE {}),
                        [f \in {"prio1", "prio2"} |-> "prio1"])
             T == {a, b, c, d}
  <2>1. \A m \in T : Stays(m) BY MessagesStay
  <2>2. setONUAdmin = <<a>> /\ setONUName = <<b>> /\ setONUStorm(1) = <<c, d>>
    BY DEF setONUAdmin, setONUName, setONUStorm
  <2>3. a \in T /\ b \in T /\ c \in T /\ d \in T OBVIOUS
  <2> HIDE DEF a, b, c, d, T
  <2>4. <<a>> \in Seq(T) /\ <<b>> \in Seq(T) /\ <<c, d>> \in Seq(T) BY <2>3
  <2>5. <<a>> \o <<b>> \in Seq(T) /\ Len(<<a>> \o <<b>>) = 2 BY <2>3
  <2>6. <<a>> \o <<b>> \o <<c, d>> \in Seq(T) /\ Len(<<a>> \o <<b>> \o <<c, d>>) = 4 
    BY <2>4, <2>5, SeqJoin, Len(<<c, d>>) = 2
  <2>7. Len(<<a>> \o <<b>> \o <<c, d>>) <= 9 BY <2>6
  <2> QED BY <2>1, <2>2, <2>6, <2>7, BriefOf
<1> QED BY <1>1, <1>2

LEMMA ProgramsBrief == \A code : Brief(Messages(code))
<1>1. /\ Brief(getONUInfo) /\ Brief(getONUUartInfo) /\ Brief(getONUIO) /\ Brief(getONUPortMirror)
      /\ Brief(getONUQoS)
  BY MessagesStay, BriefLists DEF getONUInfo, getONUUartInfo, getONUIO, getONUPortMirror, getONUQoS
<1>2. Brief(getSFPInfo) /\ Brief(getONUFEPort) BY MessagesStay, StaysAs, BriefLists DEF getSFPInfo, getONUFEPort
<1>3. Brief(setONUUart) /\ Brief(setONUIO) /\ Brief(setONUPortMirror) /\ Brief(resetONU)
  BY MessagesStay, StaysAs, BriefLists DEF setONUUart, setONUIO, setONUPortMirror, resetONU
<1>4. Brief(setONUQoS) BY MessagesStay, BriefLists DEF setONUQoS
<1>5. Brief(setONUFEPort) BY MessagesStay, StaysAs, BriefLists DEF setONUFEPort
<1>6. Brief(saveONUVLAN) /\ Brief(delONUVLAN)
  <2>1. Stays([Write({"vlan"}, Same({"scheme", "both"})) EXCEPT !.one = {"vlanOn"}, !.select = "other"])
    BY MessagesStay DEF Stays, Msg
  <2> QED BY <2>1, MessagesStay, BriefLists DEF saveONUVLAN, delONUVLAN
<1> QED BY <1>1, <1>2, <1>3, <1>4, <1>5, <1>6, VlanBrief, JoinedBrief DEF Messages, Program

LEMMA CountsAre ==
  ASSUME NEW code
  PROVE  /\ Cardinality(Waits(code)) \in 0..9 /\ Cardinality(Always(code)) \in 0..9
         /\ Cardinality({i \in Waits(code) : Messages(code)[i].go}) \in 0..1
<1> DEFINE p == Messages(code)
           G == {i \in Waits(code) : p[i].go}
<1>1. PICK k \in 0..9 : DOMAIN p = 1..k BY ProgramsBrief DEF Brief
<1>2. Waits(code) \subseteq 1..k /\ Always(code) \subseteq 1..k
  <2>1. Waits(code) \subseteq DOMAIN Messages(code) BY DEF Waits
  <2>2. Always(code) \subseteq Waits(code) BY DEF Always
  <2> QED BY <1>1, <2>1, <2>2
<1>3. IsFiniteSet(1..k) /\ Cardinality(1..k) = k
  <2>1. k \in Int /\ (IF 1 > k THEN 0 ELSE k - 1 + 1) = k OBVIOUS
  <2> QED BY <2>1, FS_Interval
<1>4. \A T \in SUBSET (1..k) : Cardinality(T) \in Nat /\ Cardinality(T) <= k
  BY <1>3, FS_Subset, FS_CardinalityType
<1>5. \A n \in Nat : n <= k => n \in 0..9 OBVIOUS
<1>6. G \subseteq {1} BY ProgramsBrief DEF Brief, Waits
<1> HIDE DEF G
<1>7. Cardinality(G) \in 0..1
  <2>1. IsFiniteSet({1}) /\ Cardinality({1}) = 1 BY FS_Singleton
  <2>2. Cardinality(G) \in Nat /\ Cardinality(G) <= 1 BY <1>6, <2>1, FS_Subset, FS_CardinalityType
  <2>3. \A n \in Nat : n <= 1 => n \in 0..1 OBVIOUS
  <2> QED BY <2>2, <2>3
<1> QED BY <1>2, <1>4, <1>5, <1>7 DEF G

LEMMA ResultIs == \A t, ok : Result(t, ok).ticks = t /\ Result(t, ok).ok = ok
  BY DEF Result

\* Short work: an ONU has no part in it, or is not waited for.
LEMMA ShortWork ==
  ASSUME NEW code \in Local \cup {"C_ONU_RESET"}, NEW onu, NEW w \in Work(code, onu)
  PROVE  w = Result(0, TRUE)
<1> HIDE DEF Result
<1>1. CASE code \in Local
  <2>1. code # "C_FSA_NET_SET" BY <1>1 DEF Local
  <2> HIDE DEF Local
  <2> QED BY <1>1, <2>1 DEF Work
<1>2. CASE code = "C_ONU_RESET"
  <2>1. Messages(code) = resetONU BY <1>2 DEF Messages, Program
  <2> DEFINE m == [Ask("RESET") EXCEPT !.wait = FALSE]
  <2>a. ~m.wait BY DEF Ask, Msg
  <2>b. resetONU = <<m>> BY DEF resetONU
  <2> HIDE DEF m
  <2>2. DOMAIN resetONU = {1} /\ ~resetONU[1].wait BY <2>a, <2>b
  <2>3. Waits(code) = {} BY <2>1, <2>2 DEF Waits
  <2>4. code \notin Local /\ code # "C_FSA_NET_SET" BY <1>2 DEF Local
  <2> HIDE DEF Local
  <2> QED BY <2>3, <2>4 DEF Work
<1> QED BY <1>1, <1>2

LEMMA LongWork ==
  ASSUME NEW code, NEW onu \in {"prompt", "off"}, NEW w \in Work(code, onu)
  PROVE  \E t \in 0..39, ok \in BOOLEAN : w = Result(t, ok)
<1> DEFINE waits  == Cardinality(Waits(code))
           always == Cardinality(Always(code))
           far    == Retry * (1 + Cardinality({i \in Waits(code) : Messages(code)[i].go}))
<1>1. far \in 0..39 /\ always..waits \subseteq 0..39
  <2> DEFINE goes == Cardinality({i \in Waits(code) : Messages(code)[i].go})
  <2>1. waits \in 0..9 /\ always \in 0..9 /\ goes \in 0..1 BY CountsAre
  <2>2. far = Retry * (1 + goes) OBVIOUS
  <2> HIDE DEF waits, always, goes, far
  <2> QED BY <2>1, <2>2 DEF Retry
<1> DEFINE onuSays == CASE onu = "prompt" -> {Result(t, TRUE) : t \in always..waits}
                        [] onu = "off"    -> {Result(far, FALSE)}
                        [] onu = "flaky"  -> {Result(waits + Retry - 1, TRUE), Result(Retry * waits, TRUE)}
           mostly == (IF code \in Ports THEN {Result(0, TRUE)}
                      ELSE IF code = "C_SFP_GET" THEN {Result(t, TRUE) : t \in 1..2} ELSE {})
                     \cup onuSays
           short  == Waits(code) = {}
           local  == code \in Local
           net    == code = "C_FSA_NET_SET"
<1>2. Work(code, onu) = CASE local -> {Result(0, TRUE)}
                          [] net   -> {Result(t, TRUE) : t \in 0..1}
                          [] short -> {Result(0, TRUE)}
                          [] OTHER -> mostly
  BY Zenon DEF Work
<1> DEFINE all == {Result(t, TRUE) : t \in 0..39} \cup {Result(t, FALSE) : t \in 0..39}
<1> HIDE DEF Result, waits, always, far
<1>3. \A t \in 0..39 : Result(t, TRUE) \in all /\ Result(t, FALSE) \in all OBVIOUS
<1>4. 0..1 \subseteq 0..39 /\ 1..2 \subseteq 0..39 /\ Result(0, TRUE) \in all
  <2>1. 0 \in 0..39 OBVIOUS
  <2> QED BY <1>3, <2>1
<1> HIDE DEF all, short, local
<1>5. onuSays \subseteq all
  <2>1. CASE onu = "prompt" BY <1>1, <1>3, <2>1
  <2>2. CASE onu = "off" BY <1>1, <1>3, <2>2
  <2> QED BY <2>1, <2>2
<1> HIDE DEF onuSays
<1>6. mostly \subseteq all BY <1>3, <1>4, <1>5
<1> HIDE DEF mostly, net
<1>7. Work(code, onu) \subseteq all
  <2>1. ~(local /\ net) BY DEF local, net, Local
  <2>2. CASE local /\ short BY <1>2, <1>3, <1>4, <2>1, <2>2
  <2>3. CASE local /\ ~short BY <1>2, <1>3, <1>4, <2>1, <2>3
  <2>4. CASE net /\ ~short BY <1>2, <1>3, <1>4, <2>1, <2>4
  <2>5. ~(net /\ short) BY JoinedBrief DEF net, short, Waits, Messages, Program
  <2>6. CASE ~local /\ ~net /\ short BY <1>2, <1>3, <1>4, <2>6
  <2>7. CASE ~local /\ ~net /\ ~short BY <1>2, <1>6, <2>7
  <2> QED BY <2>2, <2>3, <2>4, <2>5, <2>6, <2>7
<1> QED BY <1>7 DEF all

\* A request that is in time is: the ONU answers at once or is switched off.
LEMMA WorkInTime ==
  ASSUME NEW r, InTime(r), NEW onu \in {"prompt", "off"}, NEW w \in Work(r.code, onu)
  PROVE  w.ticks \in Nat /\ w.ticks < r.for /\ w.ok \in BOOLEAN
<1> HIDE DEF Result
<1>1. CASE r.for = Short
  <2>1. r.code \in Local \cup {"C_ONU_RESET"} BY <1>1 DEF InTime, Short, Long
  <2>2. w = Result(0, TRUE) BY <2>1, ShortWork
  <2>3. w.ticks = 0 /\ w.ok = TRUE BY <2>2, ResultIs
  <2>4. w.ticks \in Nat /\ w.ticks < r.for BY <1>1, <2>3 DEF Short
  <2>5. w.ok \in BOOLEAN BY <2>3
  <2> QED BY <2>4, <2>5
<1>2. CASE r.for = Long
  <2>1. PICK t \in 0..39, ok \in BOOLEAN : w = Result(t, ok) BY LongWork
  <2> QED BY <1>2, <2>1, ResultIs DEF Long
<1> QED BY <1>1, <1>2 DEF InTime

----------------------------------------------------------------------------
(* The steps keep the calm. *)

CInv == Inv /\ CalmInv

LEMMA AskedGood ==
  ASSUME BusTypes, NEW i \in DOMAIN pages, pages[i] # <<>>
  PROVE  Good(Asked(i)) /\ i # 0
<1>1. pages \in Seq(Seq(Asks)) BY DEF BusTypes
<1>2. pages[i] \in Seq(Asks) /\ i # 0
  <2> HIDE DEF Asks
  <2> QED BY <1>1
<1>3. Asked(i) \in Asks
  <2> HIDE DEF Asks
  <2> QED BY <1>2, HeadTail DEF Asked
<1> QED BY <1>2, <1>3, AllGood

\* A request is sent when nothing is on its way.
LEMMA CalmSent ==
  ASSUME Inv, CalmInv, calm, phase # "wait", NEW r, NEW own, Send(r, own), CalmAsk', r.for \in Nat,
         r.to = "other" \/ (r.to = "fsa" /\ InTime(r) /\ Length(r.code) \in r.accepts)
  PROVE  CalmWait' /\ phase' = "wait"
<1> DEFINE old == [i \in DOMAIN inbox |-> Aged(inbox[i])]
           new == IF r.to = "fsa" THEN << [code |-> r.code, tag |-> "own"] >> ELSE <<>>
<1>1. /\ wire' = <<>> /\ inbox' = old \o new /\ job' = Aged(job) /\ left' = r.for
      /\ req' = r /\ phase' = "wait" /\ asked' = (r.to = "other")
  BY DEF Send
<1>2. inbox = <<>> /\ job = NoJob BY DEF CalmInv
<1>3. old = <<>> BY <1>2
<1>4. inbox' = new
  <2>1. CASE r.to = "fsa"
    <3> DEFINE m == [code |-> r.code, tag |-> "own"]
    <3>1. new = <<m>> BY <2>1
    <3>2. \A x : <<>> \o <<x>> = <<x>> OBVIOUS
    <3> HIDE DEF new, m
    <3> QED BY <1>1, <1>3, <3>1, <3>2
  <2>2. CASE r.to # "fsa"
    <3>1. new = <<>> BY <2>2
    <3>2. <<>> \o <<>> = <<>> OBVIOUS
    <3> HIDE DEF new
    <3> QED BY <1>1, <1>3, <3>1, <3>2
  <2> QED BY <2>1, <2>2
<1>5. job' = NoJob BY <1>1, <1>2 DEF Aged, NoJob
<1>6. Mine' = [code |-> r.code, tag |-> "own"] BY <1>1 DEF Mine
<1> HIDE DEF old
<1>7. CASE r.to = "other"
  <2>1. CalmOther' BY <1>1, <1>4, <1>5, <1>7 DEF CalmOther
  <2> QED BY <1>1, <1>7, <2>1 DEF CalmWait
<1>8. CASE r.to = "fsa"
  <2>1. InTime(req)' /\ (Length(req.code) \in req.accepts)' BY <1>1, <1>8
  <2>2. inbox' = <<Mine'>> BY <1>4, <1>6, <1>8
  <2>3. CalmFsa' BY <1>1, <1>5, <1>8, <2>1, <2>2 DEF CalmFsa
  <2> QED BY <1>1, <1>8, <2>3 DEF CalmWait
<1> QED BY <1>1, <1>7, <1>8

LEMMA CalmPage ==
  ASSUME Inv, CalmInv, NEW i \in DOMAIN pages, Page(i)
  PROVE  CalmInv'
<1> DEFINE a == Asked(i)
           r == Request(i)
<1> SUFFICES ASSUME calm' PROVE CalmInv' BY DEF CalmInv
<1>1. /\ phase = "select" /\ pages[i] # <<>> /\ Legal(i) /\ a.command.request # NoReq
      /\ Send(r, FALSE) /\ at' = i /\ UNCHANGED <<listed, missed, pages>>
  BY DEF Page
<1>2. calm /\ r.code \notin Unfit /\ heard' = heard /\ poll' = FALSE /\ req' = r BY <1>1 DEF Send
<1>3. Good(a) /\ i # 0 BY <1>1, AskedGood DEF Inv
<1>4. a.command # Unknown
  <2>1. Unknown.request = NoReq BY CommandIs DEF Unknown, Own
  <2> QED BY <1>1, <2>1
<1>5. Legit(a) /\ (a.to = "other" \/ (a.to = "fsa" /\ FsaGood(a))) BY <1>3, <1>4 DEF Good
<1>6. /\ r.code = a.command.request.code /\ r.for = a.command.request.for
      /\ r.accepts = a.command.request.accepts /\ r.to = a.to
  BY <1>5 DEF Request, Legit, Whole
<1> HIDE DEF r
<1>7. a.to = "fsa" => InTime(r) /\ Length(r.code) \in r.accepts /\ Length(r.code) \in a.takes
  BY <1>1, <1>2, <1>5, <1>6 DEF FsaGood, InTime
<1>8. Asked(at)' = a BY <1>1 DEF Asked
<1> HIDE DEF a
<1>9. CalmAsk'
  <2>1. CASE a.to = "fsa" BY <1>1, <1>2, <1>3, <1>6, <1>7, <1>8, <2>1 DEF CalmAsk
  <2>2. CASE a.to = "other" BY <1>1, <1>2, <1>3, <1>5, <1>6, <1>8, <2>2 DEF CalmAsk, Legit, Shown
  <2> QED BY <1>5, <2>1, <2>2
<1>10. CalmWait' /\ phase' = "wait"
  BY <1>1, <1>2, <1>5, <1>6, <1>7, <1>9, CalmSent DEF Legit
<1> QED BY <1>1, <1>2, <1>10 DEF CalmInv, CalmIsRight

LEMMA CalmServe ==
  ASSUME Inv, CalmInv, NEW i \in DOMAIN pages, Serve(i)
  PROVE  CalmInv'
<1> DEFINE a == Asked(i)
<1> SUFFICES ASSUME calm' PROVE CalmInv' BY DEF CalmInv
<1>1. /\ phase = "select" /\ pages[i] # <<>> /\ (Legal(i) => a.command.request = NoReq)
      /\ calm /\ a.command # Unknown /\ UNCHANGED <<listed, missed, inbox, job>> /\ LoopEnds
      /\ heard' = IF Legal(i) /\ a.command.answer \subseteq a.takes THEN "own" ELSE "misfit"
  BY DEF Serve, card
<1>2. Good(a) BY <1>1, AskedGood DEF Inv
<1>3. Legit(a) BY <1>1, <1>2 DEF Good
<1>4. Legal(i) BY <1>3 DEF Legit, Legal
<1>5. a.command.answer \subseteq a.takes BY <1>1, <1>3, <1>4 DEF Legit, Shown
<1>6. phase' # "wait" BY <1>1 DEF LoopEnds
<1> QED BY <1>1, <1>4, <1>5, <1>6 DEF CalmInv, CalmIsRight

LEMMA CalmCheck == ASSUME Inv, CalmInv, Check PROVE CalmInv'
<1> SUFFICES ASSUME calm' PROVE CalmInv' BY DEF CalmInv
<1> DEFINE r == check_cardAlarms
<1>1. /\ phase = "check" /\ Send(IF listed THEN r ELSE GetCardInfo, TRUE)
      /\ UNCHANGED <<listed, missed, pages, at>>
  BY Zenon DEF Check
<1>2. calm BY <1>1 DEF Send
<1>3. listed BY <1>2 DEF CalmInv, CalmIsRight
<1>4. Send(r, TRUE)
  <2>1. (IF listed THEN r ELSE GetCardInfo) = r BY <1>3, Zenon
  <2> QED BY <1>1, <2>1, Zenon
<1>5. r.code = "GET_ALARMS" /\ r.for = Short /\ r.accepts = AnyLength /\ r.to = "fsa"
  BY RequestIs DEF check_cardAlarms
<1> HIDE DEF r
<1>6. "GET_ALARMS" \in Local BY DEF Local
<1>7. InTime(r) BY <1>5, <1>6 DEF InTime
<1>8. Length(r.code) \in r.accepts BY <1>5, LengthIs DEF AnyLength
<1>9. r.for \in Nat BY <1>5 DEF Short
<1>10. req' = r /\ heard' = heard BY <1>4 DEF Send
<1>11. at' = 0 BY <1>1 DEF Inv, BusTypes
<1>12. CalmAsk' BY <1>10, <1>11 DEF CalmAsk, r
<1>13. CalmWait' /\ phase' = "wait" BY <1>1, <1>2, <1>4, <1>5, <1>7, <1>8, <1>9, <1>12, CalmSent
<1> QED BY <1>1, <1>2, <1>10, <1>13 DEF CalmInv, CalmIsRight

LEMMA CalmTake == ASSUME Inv, CalmInv, Take PROVE CalmInv'
<1> SUFFICES ASSUME calm' PROVE CalmInv' BY DEF CalmInv
<1> DEFINE a == Head(wire)
<1>1. calm /\ phase = "wait" /\ wire # <<>> /\ UNCHANGED <<inbox, job>> BY DEF Take, card
<1>2. listed /\ missed = 0 /\ heard = "own" /\ CalmWait BY <1>1 DEF CalmInv, CalmIsRight
<1>3. \/ req.to = "other" /\ inbox = <<>> /\ job = NoJob /\ wire = <<Answer("other", TRUE)>>
      \/ /\ req.to = "fsa" /\ inbox = <<>> /\ job = NoJob /\ Length(req.code) \in req.accepts
         /\ \E ok \in BOOLEAN : wire = <<Answer("fsa", ok)>>
  BY <1>1, <1>2 DEF CalmWait, CalmOther, CalmFsa
<1>4. PICK ok \in BOOLEAN : a = Answer(req.to, ok)
  <2>1. \A x : Head(<<x>>) = x OBVIOUS
  <2>2. \E from, ok : ok \in BOOLEAN /\ from = req.to /\ wire = <<Answer(from, ok)>>
    BY <1>3, Zenon
  <2> HIDE DEF Answer
  <2> QED BY <2>1, <2>2, Zenon
<1>5. a.from = req.to /\ a.code = req.code /\ a.tag = "own" BY <1>4 DEF Answer
<1> HIDE DEF a
<1>6. Accepts(a) \/ ~a.ok BY <1>3, <1>5 DEF Accepts, Fits
<1>7. Expected(a) BY <1>2, <1>3, <1>5 DEF Expected, CalmWait, CalmAsk
<1>8. heard' = "own" BY <1>5, <1>6, <1>7 DEF Take, a
<1>9. listed' /\ missed' = 0 BY <1>2 DEF Take
<1>10. phase' # "wait"
  <2>1. \E found, shown : Over(found, shown) BY DEF Take
  <2>2. phase' \in {"select", "check"} BY <2>1, OverGoes DEF Inv
  <2> QED BY <2>2
<1> QED BY <1>1, <1>3, <1>8, <1>9, <1>10 DEF CalmInv, CalmIsRight

\* No request is given up.
LEMMA CalmTimeout == ASSUME CalmInv, Timeout PROVE CalmInv'
<1> SUFFICES ASSUME calm' PROVE FALSE BY DEF CalmInv
<1>1. calm /\ phase = "wait" /\ left = 0 /\ wire = <<>> /\ ~asked BY DEF Timeout
<1>2. CalmWait BY <1>1 DEF CalmInv
<1>3. req.to = "fsa" /\ CalmFsa BY <1>1, <1>2 DEF CalmWait, CalmOther
<1>4. req.for # 0 BY <1>3 DEF CalmFsa, InTime, Short, Long
<1> QED BY <1>1, <1>3, <1>4 DEF CalmFsa

LEMMA CalmStart == ASSUME CalmInv, NEW onu \in Onus, Start(onu) PROVE CalmInv'
<1> SUFFICES ASSUME calm' PROVE CalmInv' BY DEF CalmInv
<1>1. /\ job = NoJob /\ inbox # <<>> /\ job' = Head(inbox) /\ inbox' = Tail(inbox)
      /\ work' \in Work(Head(inbox).code, onu) /\ calm /\ onu # "flaky"
      /\ UNCHANGED <<agent, wire, asked, heard>>
  BY DEF Start
<1>2. onu \in {"prompt", "off"} BY <1>1, BusRequestsAssumption
<1>3. phase = "wait" /\ CalmWait BY <1>1 DEF CalmInv
<1>4. /\ req.to = "fsa" /\ ~asked /\ InTime(req) /\ Length(req.code) \in req.accepts
      /\ wire = <<>> /\ inbox = <<Mine>> /\ left = req.for
  BY <1>1, <1>3 DEF CalmWait, CalmOther, CalmFsa
<1>5. Head(inbox) = Mine /\ Tail(inbox) = <<>> BY <1>4
<1>6. Mine.code = req.code BY DEF Mine
<1>7. work'.ticks \in Nat /\ work'.ticks < req.for BY <1>1, <1>2, <1>4, <1>5, <1>6, WorkInTime
<1>8. UNCHANGED <<phase, req, poll, left, listed, missed, pages, at>> BY <1>1 DEF agent
<1>9. Mine' = Mine /\ CalmAsk' BY <1>3, <1>8 DEF Mine, CalmWait, CalmAsk, Asked
<1>10. CalmFsa' BY <1>1, <1>4, <1>5, <1>7, <1>8, <1>9 DEF CalmFsa, InTime
<1>11. CalmWait' BY <1>3, <1>4, <1>8, <1>9, <1>10 DEF CalmWait
<1> QED BY <1>1, <1>3, <1>8, <1>11 DEF CalmInv, CalmIsRight

LEMMA CalmFinish == ASSUME Inv, CalmInv, Finish PROVE CalmInv'
<1> SUFFICES ASSUME calm' PROVE CalmInv' BY DEF CalmInv
<1>1. /\ job # NoJob /\ job' = NoJob /\ calm /\ UNCHANGED <<agent, inbox, asked, heard>>
      /\ wire' = Append(wire, [from |-> "fsa", code |-> job.code, tag |-> job.tag, ok |-> work.ok])
  BY DEF Finish, history
<1>2. phase = "wait" /\ CalmWait BY <1>1 DEF CalmInv
<1>3. /\ req.to = "fsa" /\ ~asked /\ InTime(req) /\ Length(req.code) \in req.accepts
      /\ wire = <<>> /\ inbox = <<>> /\ job = Mine
  BY <1>1, <1>2 DEF CalmWait, CalmOther, CalmFsa
<1>4. job.code = req.code /\ job.tag = "own" BY <1>3 DEF Mine
<1>5. wire' = <<Answer("fsa", work.ok)>> BY <1>1, <1>3, <1>4 DEF Answer
<1>6. UNCHANGED <<phase, req, poll, left, listed, missed, pages, at>> BY <1>1 DEF agent
<1>7. work.ok \in BOOLEAN BY DEF Inv, BusTypes
<1>8. \A ok : Answer("fsa", ok)' = Answer("fsa", ok) BY <1>6 DEF Answer
<1>9. CalmAsk' BY <1>2, <1>6 DEF CalmWait, CalmAsk, Asked
<1>10. CalmFsa' BY <1>1, <1>3, <1>5, <1>6, <1>7, <1>8 DEF CalmFsa, InTime
<1>11. CalmWait' BY <1>2, <1>3, <1>6, <1>9, <1>10 DEF CalmWait
<1> QED BY <1>1, <1>2, <1>6, <1>11 DEF CalmInv, CalmIsRight

LEMMA CalmAnswers == ASSUME CalmInv, OtherAnswers PROVE CalmInv'
<1> SUFFICES ASSUME calm' PROVE CalmInv' BY DEF CalmInv
<1>1. /\ asked /\ ~asked' /\ calm /\ UNCHANGED <<agent, card, heard>>
      /\ wire' = Append(wire, [from |-> "other", code |-> req.code, ok |-> TRUE,
                               tag |-> IF phase = "wait" THEN "own" ELSE "old"])
  BY DEF OtherAnswers, history
<1>2. UNCHANGED <<phase, req, poll, left, listed, missed, pages, at, inbox, job>> BY <1>1 DEF agent, card
<1>3. CASE phase # "wait" BY <1>1, <1>2, <1>3 DEF CalmInv, CalmIsRight
<1>4. CASE phase = "wait"
  <2>1. CalmWait BY <1>1, <1>4 DEF CalmInv
  <2>2. req.to = "other" /\ inbox = <<>> /\ job = NoJob /\ wire = <<>>
    BY <1>1, <2>1 DEF CalmWait, CalmOther, CalmFsa
  <2>3. wire' = <<Answer("other", TRUE)>> BY <1>1, <1>4, <2>2 DEF Answer
  <2>4. Answer("other", TRUE)' = Answer("other", TRUE) BY <1>2 DEF Answer
  <2>5. CalmOther' BY <1>1, <1>2, <2>2, <2>3, <2>4 DEF CalmOther
  <2>6. CalmAsk' BY <2>1, <1>2 DEF CalmWait, CalmAsk, Asked
  <2>7. CalmWait' BY <1>2, <2>1, <2>2, <2>5, <2>6 DEF CalmWait
  <2> QED BY <1>1, <1>2, <1>4, <2>7 DEF CalmInv, CalmIsRight
<1> QED BY <1>3, <1>4

LEMMA CalmTick == ASSUME CalmInv, Tick PROVE CalmInv'
<1> SUFFICES ASSUME calm' PROVE CalmInv' BY DEF CalmInv
<1>1. /\ left > 0 /\ ~asked /\ (phase = "wait" => wire = <<>>) /\ calm /\ left' = left - 1
      /\ UNCHANGED <<phase, req, poll, listed, missed, pages, at, wire, inbox, job, asked, heard>>
      /\ IF job = NoJob THEN inbox = <<>> /\ UNCHANGED work
         ELSE work.ticks > 0 /\ work' = Result(work.ticks - 1, work.ok)
  BY DEF Tick, history
<1>2. CASE phase # "wait" BY <1>1, <1>2 DEF CalmInv, CalmIsRight
<1>3. CASE phase = "wait"
  <2>1. CalmWait BY <1>1, <1>3 DEF CalmInv
  <2>2. /\ req.to = "fsa" /\ ~asked /\ InTime(req) /\ Length(req.code) \in req.accepts
        /\ wire = <<>> /\ inbox = <<>> /\ job = Mine /\ work.ticks \in Nat /\ work.ticks < left
    <3>1. wire = <<>> BY <1>1, <1>3
    <3>2. Mine # NoJob /\ \A x : <<x>> # <<>> BY DEF Mine, NoJob
    <3>3. ~(req.to = "other" /\ CalmOther) BY <1>1, <3>1, <3>2, Zenon DEF CalmOther
    <3>4. req.to = "fsa" /\ CalmFsa BY <2>1, <3>3, Zenon DEF CalmWait
    <3>5. /\ InTime(req) /\ Length(req.code) \in req.accepts
          /\ \/ job = NoJob /\ inbox = <<Mine>>
             \/ job = Mine /\ inbox = <<>> /\ work.ticks \in Nat /\ work.ticks < left
             \/ \E ok \in BOOLEAN : wire = <<Answer("fsa", ok)>>
      BY <3>4, Zenon DEF CalmFsa
    <3> HIDE DEF Mine, NoJob
    <3>6. job = Mine /\ inbox = <<>> /\ work.ticks \in Nat /\ work.ticks < left
      BY <1>1, <3>1, <3>2, <3>5, Zenon
    <3> QED BY <1>1, <3>1, <3>4, <3>5, <3>6, Zenon
  <2>3. job # NoJob BY <2>2 DEF Mine, NoJob
  <2>4. work.ticks > 0 /\ work'.ticks = work.ticks - 1 BY <1>1, <2>3, ResultIs
  <2>5. left \in Nat BY <2>1 DEF CalmWait
  <2>6. left' \in Nat /\ work'.ticks \in Nat /\ work'.ticks < left' BY <1>1, <2>2, <2>4, <2>5
  <2>7. Mine' = Mine BY <1>1 DEF Mine
  <2>8. CalmFsa' BY <1>1, <2>2, <2>6, <2>7 DEF CalmFsa, InTime
  <2>9. CalmAsk' BY <1>1, <2>1 DEF CalmWait, CalmAsk, Asked
  <2>10. CalmWait' BY <1>1, <2>2, <2>6, <2>8, <2>9 DEF CalmWait
  <2> QED BY <1>1, <1>3, <2>10 DEF CalmInv, CalmIsRight
<1> QED BY <1>2, <1>3

LEMMA CalmKept == CInv /\ [Next]_vars => CInv'
<1> SUFFICES ASSUME CInv, [Next]_vars PROVE CInv' OBVIOUS
<1>0. Inv /\ CalmInv /\ Inv' BY StepKeeps, Zenon DEF CInv
<1> SUFFICES CalmInv' BY <1>0, Zenon DEF CInv
<1>1. ASSUME NEW i \in DOMAIN pages, Page(i) PROVE CalmInv' BY <1>0, <1>1, CalmPage, Zenon
<1>2. ASSUME NEW i \in DOMAIN pages, Serve(i) PROVE CalmInv' BY <1>0, <1>2, CalmServe, Zenon
<1>3. CASE NoPage
  <2>1. /\ phase = "select" /\ phase' # "wait" /\ UNCHANGED <<calm, listed, missed, heard, inbox, job>>
    BY <1>3 DEF NoPage, LoopEnds, card, history
  <2> QED BY <1>0, <2>1, Zenon DEF CalmInv, CalmIsRight
<1>4. CASE Check BY <1>0, <1>4, CalmCheck, Zenon
<1>5. CASE Take BY <1>0, <1>5, CalmTake, Zenon
<1>6. CASE Timeout BY <1>0, <1>6, CalmTimeout, Zenon
<1>7. ASSUME NEW onu \in Onus, Start(onu) PROVE CalmInv' BY <1>0, <1>7, CalmStart, Zenon
<1>8. CASE Finish BY <1>0, <1>8, CalmFinish, Zenon
<1>9. CASE OtherAnswers BY <1>0, <1>9, CalmAnswers, Zenon
<1>10. CASE Tick BY <1>0, <1>10, CalmTick, Zenon
<1>11. CASE Settle
  <2>1. /\ phase = "select" /\ listed /\ missed = 0 /\ inbox = <<>> /\ job = NoJob /\ heard' = "own"
        /\ UNCHANGED <<phase, listed, missed, inbox, job>>
    BY <1>11 DEF Settle, agent, card
  <2>2. CalmIsRight' BY <2>1, Zenon DEF CalmIsRight
  <2>3. phase' # "wait" BY <2>1
  <2> QED BY <2>1, <2>2, <2>3, Zenon DEF CalmInv
<1>12. CASE UNCHANGED vars
  <2>1. UNCHANGED <<phase, req, poll, left, listed, missed, pages, at, wire, inbox, job, work, asked, calm, heard>>
    BY <1>12 DEF vars, agent, card, history
  <2>2. UNCHANGED <<CalmAsk, Mine, CalmIsRight>> BY <2>1 DEF CalmAsk, Asked, Mine, CalmIsRight
  <2>3. \A from, ok : Answer(from, ok)' = Answer(from, ok) BY <2>1 DEF Answer
  <2>4. UNCHANGED <<CalmOther, CalmFsa>> BY <2>1, <2>2, <2>3 DEF CalmOther, CalmFsa, InTime
  <2> QED BY <1>0, <2>1, <2>2, <2>4, Zenon DEF CalmInv, CalmWait
<1> QED BY <1>0, <1>1, <1>2, <1>3, <1>4, <1>5, <1>6, <1>7, <1>8, <1>9, <1>10, <1>11, <1>12, Zenon DEF Next, Runs, CInv

\* Pages, agent and card fit each other: whatever pages ask, and with any number
\* of them at a time, as long as no ONU is flaky and nothing of Unfit or Unknown is
\* asked, every request gets its own answer in time, every page what it expects,
\* and the card answers every poll (ProcessMsg, msg485_sendwaitrsp, check_cardAlarms).
THEOREM CalmIsRightHolds == Spec => []CalmIsRight
<1>1. Init => CInv BY Initially DEF Init, CInv, CalmInv
<1>2. CInv => CalmIsRight BY DEF CInv, CalmInv, CalmIsRight
<1> QED BY <1>1, <1>2, CalmKept, PTL DEF Spec

----------------------------------------------------------------------------
(* RefreshCheck.  A page that asks and is not late has an entry that is     *)
(* young (AskingKnown below), so clearRefreshClient, which removes entries  *)
(* older than Idle, cannot remove it: that is OnlyIdleRemoved.              *)
(* ChangeIsFlagged is inductive with the type invariant, if no two sessions *)
(* have the same id.                                                        *)

USE RefreshCheckAssumption DEF RefreshCheckAssumption

LEMMA PageFacts ==
  ASSUME NEW p \in Pages
  PROVE  p[1] \in Sessions /\ p[2] \in Views /\ Id(p) \in Ids /\ Bit(p) \in Ids \X Views
  BY DEF Pages, Id, Bit

\* Every variable keeps its type.
THEOREM TypeCorrect == RefreshSpec => []TypeOK
<1>1. RefreshInit => TypeOK
  BY DEF RefreshInit, TypeOK, PageState
<1>2. TypeOK /\ [RefreshNext]_refreshVars => TypeOK'
  <2> SUFFICES ASSUME TypeOK, [RefreshNext]_refreshVars PROVE TypeOK'
    OBVIOUS
  <2>1. ASSUME NEW p \in Pages, Open(p) \/ Reload(p) PROVE TypeOK'
    BY <2>1 DEF TypeOK, Open, Reload, Load, agentVars, boundVars, PageState
  <2>2. ASSUME NEW p \in Pages, Close(p) PROVE TypeOK'
    BY <2>2 DEF TypeOK, Close, agentVars, boundVars, PageState
  <2>3. ASSUME NEW p \in Pages, CheckRefresh(p) PROVE TypeOK'
    BY <2>3, PageFacts DEF TypeOK, CheckRefresh, GetRefreshState, Missed, boundVars, PageState
  <2>4. ASSUME NEW p \in Pages, AskInVain(p) PROVE TypeOK'
    <3>1. known' \subseteq Ids /\ idleTime' \in [Ids -> 0..Idle+1] /\ flags' \subseteq Ids \X Views
          /\ excused' \subseteq Pages
      <4>1. CASE GetRefreshState(p) /\ excused' = excused \cup Missed(p) \cup (stale \cap {p})
        BY <4>1, PageFacts DEF TypeOK, GetRefreshState, Missed
      <4>2. CASE UNCHANGED <<agentVars, excused>>
        BY <4>2 DEF TypeOK, agentVars
      <4> QED BY <2>4, <4>1, <4>2 DEF AskInVain
    <3>2. page' \in [Pages -> PageState]
      BY <2>4 DEF TypeOK, AskInVain, PageState
    <3> QED BY <2>4, <3>1, <3>2 DEF TypeOK, AskInVain
  <2>5. ASSUME NEW s \in Sessions, Suspend(s) PROVE TypeOK'
    BY <2>5 DEF TypeOK, Suspend, agentVars
  <2>6. ASSUME NEW v \in Views, Change(v) PROVE TypeOK'
    BY <2>6 DEF TypeOK, Change, SetRefreshState
  <2>7. CASE ClockStep
    BY <2>7 DEF TypeOK, ClockStep, boundVars
  <2>8. CASE ClearRefreshClient
    BY <2>8 DEF TypeOK, ClearRefreshClient, Expired, boundVars
  <2>9. CASE UNCHANGED refreshVars
    BY <2>9 DEF TypeOK, refreshVars, agentVars, boundVars
  <2> QED BY <2>1, <2>2, <2>3, <2>4, <2>5, <2>6, <2>7, <2>8, <2>9 DEF RefreshNext
<1> QED BY <1>1, <1>2, PTL DEF RefreshSpec

----------------------------------------------------------------------------
\* What makes a client that asks safe from clearRefreshClient.
AskingKnown ==
  \A p \in Pages : page[p] = "asking" /\ p[1] \notin late
                     => Id(p) \in known /\ idleTime[Id(p)] <= Gap

LEMMA AskingKnownStep ==
  ASSUME TypeOK, AskingKnown, [RefreshNext]_refreshVars
  PROVE  AskingKnown'
<1>1. ASSUME NEW p \in Pages, Open(p) \/ Reload(p) PROVE AskingKnown'
  BY <1>1 DEF TypeOK, AskingKnown, Open, Reload, Load, agentVars, Id
<1>2. ASSUME NEW p \in Pages, Close(p) PROVE AskingKnown'
  BY <1>2 DEF TypeOK, AskingKnown, Close, agentVars, Id
<1>3. ASSUME NEW p \in Pages, CheckRefresh(p) PROVE AskingKnown'
  <2> SUFFICES ASSUME NEW q \in Pages, page'[q] = "asking", q[1] \notin late'
               PROVE  Id(q) \in known' /\ idleTime'[Id(q)] <= Gap
    BY DEF AskingKnown, Id
  <2>1. CASE Id(q) = Id(p)
    BY <1>3, <2>1, PageFacts DEF TypeOK, CheckRefresh, GetRefreshState
  <2>2. CASE Id(q) # Id(p)
    <3>1. q # p /\ q[1] # p[1]
      BY <2>2 DEF Id
    <3>2. page[q] = "asking" /\ q[1] \notin late
      BY <1>3, <3>1 DEF TypeOK, CheckRefresh
    <3> QED BY <1>3, <2>2, <3>2, PageFacts DEF TypeOK, AskingKnown, CheckRefresh, GetRefreshState
  <2> QED BY <2>1, <2>2
<1>4. ASSUME NEW p \in Pages, AskInVain(p) PROVE AskingKnown'
  <2> SUFFICES ASSUME NEW q \in Pages, page'[q] = "asking", q[1] \notin late'
               PROVE  Id(q) \in known' /\ idleTime'[Id(q)] <= Gap
    BY DEF AskingKnown, Id
  <2>1. page[q] = "asking" /\ q[1] \notin late
    BY <1>4 DEF TypeOK, AskInVain
  <2>2. Id(q) \in known /\ idleTime[Id(q)] <= Gap
    BY <2>1 DEF AskingKnown
  <2> QED BY <1>4, <2>2, PageFacts DEF TypeOK, AskInVain, GetRefreshState, agentVars
<1>5. ASSUME NEW s \in Sessions, Suspend(s) PROVE AskingKnown'
  BY <1>5 DEF AskingKnown, Suspend, agentVars, Id
<1>6. ASSUME NEW v \in Views, Change(v) PROVE AskingKnown'
  BY <1>6 DEF AskingKnown, Change, SetRefreshState, Id
<1>7. CASE ClockStep
  <2> SUFFICES ASSUME NEW q \in Pages, page'[q] = "asking", q[1] \notin late'
               PROVE  Id(q) \in known' /\ idleTime'[Id(q)] <= Gap
    BY DEF AskingKnown, Id
  <2>1. Id(q) \in known /\ idleTime[Id(q)] < Gap /\ Id(q) \in Ids
    BY <1>7, PageFacts DEF AskingKnown, ClockStep
  <2> QED BY <1>7, <2>1 DEF TypeOK, ClockStep
<1>8. CASE ClearRefreshClient
  <2> SUFFICES ASSUME NEW q \in Pages, page'[q] = "asking", q[1] \notin late'
               PROVE  Id(q) \in known' /\ idleTime'[Id(q)] <= Gap
    BY DEF AskingKnown, Id
  <2>1. Id(q) \in known /\ idleTime[Id(q)] <= Gap /\ Id(q) \in Ids
    BY <1>8, PageFacts DEF AskingKnown, ClearRefreshClient
  <2>2. Id(q) \notin Expired
    BY <2>1 DEF TypeOK, Expired
  <2> QED BY <1>8, <2>1, <2>2 DEF TypeOK, ClearRefreshClient
<1>9. CASE UNCHANGED refreshVars
  BY <1>9 DEF AskingKnown, refreshVars, agentVars, Id
<1> QED BY <1>1, <1>2, <1>3, <1>4, <1>5, <1>6, <1>7, <1>8, <1>9 DEF RefreshNext

\* clearRefreshClient removes no client that keeps asking, with or without
\* distinct ids.
THEOREM OnlyIdleRemovedHolds == RefreshSpec => OnlyIdleRemoved
<1> DEFINE Kept == \A p \in Pages : page[p] = "asking" /\ p[1] \notin late /\ Id(p) \in known
                                      => Id(p) \in known'
<1>1. RefreshInit => AskingKnown
  BY DEF RefreshInit, AskingKnown
<1>2. TypeOK /\ AskingKnown /\ [RefreshNext]_refreshVars => AskingKnown'
  BY AskingKnownStep
<1>3. TypeOK /\ AskingKnown /\ [RefreshNext]_refreshVars => Kept
  <2> SUFFICES ASSUME TypeOK, AskingKnown, [RefreshNext]_refreshVars, NEW q \in Pages,
                      page[q] = "asking", q[1] \notin late, Id(q) \in known
               PROVE  Id(q) \in known'
    OBVIOUS
  <2>1. CASE ClearRefreshClient
    <3>1. Id(q) \notin Expired
      BY PageFacts DEF TypeOK, AskingKnown, Expired
    <3> QED BY <2>1, <3>1 DEF ClearRefreshClient
  <2>2. CASE ~ClearRefreshClient
    <3>1. ASSUME NEW p \in Pages, Open(p) \/ Reload(p) \/ Close(p) \/ CheckRefresh(p) \/ AskInVain(p)
          PROVE  known \subseteq known'
      BY <3>1 DEF Open, Reload, Load, Close, CheckRefresh, AskInVain, GetRefreshState, agentVars
    <3>2. known \subseteq known'
      BY <2>2, <3>1 DEF RefreshNext, Suspend, Change, SetRefreshState, ClockStep, refreshVars, agentVars
    <3> QED BY <3>2
  <2> QED BY <2>1, <2>2
<1> HIDE DEF Kept
<1>4. RefreshSpec => [][Kept]_refreshVars
  BY <1>1, <1>2, <1>3, TypeCorrect, PTL DEF RefreshSpec
<1> QED BY <1>4, PTL DEF OnlyIdleRemoved, Kept

----------------------------------------------------------------------------
\* A change made while a client has an entry stays flagged until the page that
\* shows it is told, as long as ids are distinct.
THEOREM ChangeIsFlaggedHolds ==
  ASSUME Injective
  PROVE  RefreshSpec => []ChangeIsFlagged
<1>1. RefreshInit => ChangeIsFlagged
  BY DEF RefreshInit, ChangeIsFlagged
<1>2. TypeOK /\ ChangeIsFlagged /\ [RefreshNext]_refreshVars => ChangeIsFlagged'
  <2> SUFFICES ASSUME TypeOK, ChangeIsFlagged, [RefreshNext]_refreshVars, NEW q \in stale',
                      Live(q)', Id(q) \in known', q \notin excused'
               PROVE  Bit(q) \in flags'
    BY DEF ChangeIsFlagged, Id, Bit
  <2>0. q \in Pages
    <3>1. stale' \subseteq stale \cup Pages
      <4>1. ASSUME NEW p \in Pages, Open(p) \/ Reload(p) \/ Close(p) \/ CheckRefresh(p) \/ AskInVain(p)
            PROVE  stale' \subseteq stale
        BY <4>1 DEF Open, Reload, Load, Close, CheckRefresh, AskInVain
      <4>2. ASSUME NEW v \in Views, Change(v) PROVE stale' \subseteq stale \cup Pages
        BY <4>2 DEF Change
      <4> QED BY <4>1, <4>2 DEF RefreshNext, Suspend, ClockStep, ClearRefreshClient, refreshVars
    <3> QED BY <3>1 DEF TypeOK
  <2>1. ASSUME NEW p \in Pages, Open(p) \/ Reload(p) PROVE Bit(q) \in flags'
    BY <2>0, <2>1 DEF TypeOK, ChangeIsFlagged, Open, Reload, Load, agentVars, Live
  <2>2. ASSUME NEW p \in Pages, Close(p) PROVE Bit(q) \in flags'
    BY <2>0, <2>2 DEF TypeOK, ChangeIsFlagged, Close, agentVars, Live
  \* Only the page's own question clears its flag.
  <2>3. ASSUME NEW p \in Pages, GetRefreshState(p), q # p, q \in stale, Live(q),
               Id(q) \in known, q \notin excused
        PROVE  Bit(q) \in flags'
    <3>1. Bit(q) \in flags
      BY <2>3 DEF ChangeIsFlagged
    <3>2. Bit(q) # Bit(p)
      <4>1. p = <<p[1], p[2]>> /\ q = <<q[1], q[2]>>
        BY <2>0 DEF Pages
      <4>2. p[1] # q[1] \/ p[2] # q[2]
        BY <2>3, <4>1
      <4> QED BY <2>0, <4>2, PageFacts DEF Injective, Bit, Id
    <3> QED BY <2>3, <3>1, <3>2 DEF GetRefreshState
  <2>4. ASSUME NEW p \in Pages, CheckRefresh(p) PROVE Bit(q) \in flags'
    <3>1. q \in stale /\ q \notin excused /\ q \notin Missed(p)
      BY <2>4 DEF CheckRefresh
    <3>2. Id(q) \in known
      BY <2>4, <3>1 DEF CheckRefresh, GetRefreshState, Missed
    <3>3. CASE q = p
      <4>1. Bit(p) \in flags
        BY <2>4, <3>1, <3>2, <3>3 DEF ChangeIsFlagged, CheckRefresh
      <4>2. page'[p] = "told"
        BY <2>4, <4>1 DEF TypeOK, CheckRefresh
      <4> QED BY <3>3, <4>2 DEF Live
    <3>4. CASE q # p
      <4>1. Live(q)
        BY <2>0, <2>4, <3>4 DEF TypeOK, CheckRefresh, Live
      <4> QED BY <2>3, <2>4, <3>1, <3>2, <3>4, <4>1 DEF CheckRefresh
    <3> QED BY <3>3, <3>4
  <2>5. ASSUME NEW p \in Pages, AskInVain(p) PROVE Bit(q) \in flags'
    <3>1. q \in stale /\ Live(q)
      BY <2>0, <2>5 DEF TypeOK, AskInVain, Live
    <3>2. CASE UNCHANGED <<agentVars, excused>>
      BY <3>1, <3>2 DEF ChangeIsFlagged, agentVars
    <3>3. CASE GetRefreshState(p) /\ excused' = excused \cup Missed(p) \cup (stale \cap {p})
      <4>1. q \notin excused /\ q # p /\ q \notin Missed(p)
        BY <3>1, <3>3
      <4>2. Id(q) \in known
        BY <3>1, <3>3, <4>1 DEF GetRefreshState, Missed
      <4> QED BY <2>3, <3>1, <3>3, <4>1, <4>2
    <3> QED BY <2>5, <3>2, <3>3 DEF AskInVain
  <2>6. ASSUME NEW s \in Sessions, Suspend(s) PROVE Bit(q) \in flags'
    BY <2>6 DEF ChangeIsFlagged, Suspend, agentVars, Live
  <2>7. ASSUME NEW v \in Views, Change(v) PROVE Bit(q) \in flags'
    <3>1. Id(q) \in known /\ Live(q)
      BY <2>7 DEF Change, SetRefreshState, Live
    <3>2. CASE q[2] = v
      BY <2>7, <3>1, <3>2 DEF Change, SetRefreshState, Bit
    <3>3. CASE q[2] # v
      BY <2>7, <3>1, <3>3 DEF ChangeIsFlagged, Change, SetRefreshState
    <3> QED BY <3>2, <3>3
  <2>8. CASE ClockStep
    BY <2>8 DEF ChangeIsFlagged, ClockStep, Live
  <2>9. CASE ClearRefreshClient
    BY <2>9 DEF ChangeIsFlagged, ClearRefreshClient, Live, Bit
  <2>10. CASE UNCHANGED refreshVars
    BY <2>10 DEF ChangeIsFlagged, refreshVars, agentVars, Live
  <2> QED BY <2>1, <2>2, <2>4, <2>5, <2>6, <2>7, <2>8, <2>9, <2>10 DEF RefreshNext
<1> QED BY <1>1, <1>2, TypeCorrect, PTL DEF RefreshSpec
=============================================================================
