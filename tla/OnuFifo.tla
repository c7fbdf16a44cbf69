------------------------------ MODULE OnuFifo ------------------------------
(***************************************************************************)
(* How an FSA card reads and sets one ONU over the fibre (FSA/fsalib.c,      *)
(* FSA/message_proc.c).                                                      *)
(*                                                                          *)
(* The main thread carries out one request at a time (ProcessMsg).  A       *)
(* request is a short program of messages to the ONU, each sent up to three *)
(* times until its answer is there (send_fifomsg_waitrsp).  The thread      *)
(* handle_fifomsg takes what comes from the ONU: an answer belongs to the   *)
(* message the main thread waits for if node and type are the same, the     *)
(* registers it is about are not compared.  When the ONU starts again,      *)
(* handle_fifomsg also sends it the settings kept in the database, and      *)
(* nobody waits for the answers.                                             *)
(*                                                                          *)
(* A register is divided into fields of one bit.  Pages set all fields a    *)
(* request has (setFlag 0xFF), here to one value.  What is found in the     *)
(* place of a register in an answer about others is any value.              *)
(***************************************************************************)
EXTENDS OnuPrograms

CONSTANTS Scripts,   \* bound: sequences of requests, one of which is made
          MaxEvents, \* bound: messages lost or late, restarts of the ONU
          MaxCounts  \* bound: bytes the ONU counts

Kept     == {"port", "uart"}  \* those with a table: ONUPort, ONUUART
Counters == {"rxlo", "rxhi", "txlo", "txhi"}
NoRow    == 2
Any      == 3
MaxRetry == 3

ASSUME OnuFifoAssumption ==
  Scripts \subseteq Seq(Codes) /\ MaxEvents \in Nat /\ MaxCounts \in Nat

VARIABLES
  pc,     \* where the main thread is
  code, value,      \* the request and the value it sets
  n, tries, again,  \* its message, how often it was sent before, read again
  sent,   \* in the loop of send_fifomsg_waitrsp: the device has taken the message
  got,    \* buffer: what the last answer said of each field
  entry,  \* the entry of rsp_queue: the answer, or None
  toOnu, toCard,    \* on the fibre
  on, reg, sel, cnt,   \* the ONU: switched on, registers, 0x6E and 0x6F, counters
  db,     \* ONUPort, ONUUART
  perf,   \* perfData
  clean,  \* history: no message of this type was about when this one was sent, or since
  tainted,   \* history: see Taint
  wanted,    \* history: the last value each field was successfully set to
  spoilt,    \* history: fields that another request has overwritten since
  total,     \* history: what the ONU has counted
  before,    \* history: and had when the request came
  script, \* the requests to come
  events  \* how much of the bound is used

main    == <<pc, code, value, n, tries, again, sent, got>>
onu     == <<on, reg, sel, cnt>>
history == <<clean, tainted, wanted, spoilt, total, before>>
vars    == <<main, entry, toOnu, toCard, onu, db, perf, history, script, events>>

None   == [type |-> "none", bits |-> [f \in {} |-> 0], count |-> 0, valid |-> TRUE, tag |-> "own"]
Cmd    == Program(code, value)[n]
Bit    == 0..1
Zeros  == [f \in Fields |-> 0]
NoCounts == [c \in Counters |-> 0]
Of     == [rx |-> {"rxlo", "rxhi"}, tx |-> {"txlo", "txhi"}]
Sets   == UNION {Program(code, value)[i].set : i \in DOMAIN Program(code, value)}
Ones   == UNION {Program(code, value)[i].one : i \in DOMAIN Program(code, value)}
Others == UNION {Program(code, value)[i].zero \cup
                 {f \in DOMAIN Program(code, value)[i].keep : Program(code, value)[i].keep[f] # f} :
                   i \in DOMAIN Program(code, value)}

TypeOK ==
  /\ pc \in {"idle", "send", "wait", "store"} /\ code \in Codes \cup {"none"} /\ value \in Bit
  /\ n \in 1..9 /\ tries \in 0..(MaxRetry - 1) /\ again \in BOOLEAN /\ sent \in BOOLEAN
  /\ (pc # "idle" => code \in Codes /\ n \in DOMAIN Program(code, value))
  /\ got \in [Fields -> Bit]
  /\ on \in BOOLEAN /\ reg \in [Fields -> Bit] /\ sel \in Counters \cup {"other"}
  /\ cnt \in [Counters -> Nat] /\ perf \in [{"rx", "tx"} -> Nat]
  /\ db \in [Kept -> Bit \cup {NoRow}]
  /\ clean \in BOOLEAN /\ tainted \in BOOLEAN
  /\ wanted \in [Fields -> Bit \cup {Any}] /\ spoilt \subseteq Fields
  /\ total \in [{"rx", "tx"} -> Nat] /\ before \in [{"rx", "tx"} -> Nat]
  /\ script \in Seq(Codes) /\ events \in 0..MaxEvents

Init ==
  /\ pc = "idle" /\ code = "none" /\ value = 0 /\ n = 1 /\ tries = 0 /\ again = FALSE
  /\ sent = FALSE /\ got = [f \in Fields |-> 0] /\ entry = None /\ toOnu = <<>> /\ toCard = <<>>
  /\ on = TRUE /\ reg = [f \in Fields |-> 0] /\ sel = "other" /\ cnt = [c \in Counters |-> 0]
  /\ db = [f \in Kept |-> NoRow] /\ perf = [d \in {"rx", "tx"} |-> 0]
  /\ clean = TRUE /\ tainted = FALSE /\ wanted = [f \in Fields |-> Any] /\ spoilt = {}
  /\ total = perf /\ before = perf
  /\ script \in Scripts /\ events = 0

----------------------------------------------------------------------------
(* The main thread. *)

\* What a message writes.
Bits(m) == [f \in m.set \cup m.zero \cup m.one \cup DOMAIN m.keep |->
             IF f \in m.set THEN value ELSE IF f \in m.zero THEN 0 ELSE IF f \in m.one THEN 1
             ELSE got[m.keep[f]]]

\* tag: of the message waited for ("own"), of an earlier one ("old"), of one
\* nobody waits for ("once").
Request == [type |-> Cmd.type, get |-> Cmd.get, bits |-> Bits(Cmd), select |-> Cmd.select,
            count |-> Cmd.sum # "none", tag |-> IF Cmd.wait THEN "own" ELSE "once"]

\* What is on the fibre belongs to an earlier message from now on.
Old(s) == [i \in DOMAIN s |-> [s[i] EXCEPT !.tag = IF @ = "own" THEN "old" ELSE @]]

\* A message of this type, or the answer to one, is on the fibre.
About(type) == \/ \E i \in DOMAIN toOnu : toOnu[i].type = type
               \/ \E k \in DOMAIN toCard : toCard[k].type = type

\* ProcessMsg takes a request.
Call(v) ==
  /\ pc = "idle" /\ script # <<>>
  /\ pc' = "send" /\ code' = Head(script) /\ value' = v /\ n' = 1
  /\ before' = total /\ script' = Tail(script)
  /\ UNCHANGED <<tries, again, sent, got, entry, toOnu, toCard, onu, db, perf, clean, tainted,
                 wanted, spoilt, total, events>>

\* The request is over; what it has set is wanted from now on.
Done(ok) ==
  /\ pc' = "idle" /\ code' = "none" /\ value' = 0 /\ n' = 1 /\ again' = FALSE
  /\ wanted' = [f \in Fields |-> IF f \in Sets \cup Ones
                                 THEN IF ~ok THEN Any ELSE IF f \in Sets THEN value ELSE 1
                                 ELSE wanted[f]]
  /\ spoilt' = (spoilt \ (Sets \cup Ones)) \cup Others

\* The next message, or the end; what has been set may go to a table first.
Advance ==
  IF n < Len(Program(code, value))
  THEN \/ /\ pc' = "send" /\ n' = n + 1 /\ again' = FALSE
          /\ UNCHANGED <<code, value, wanted, spoilt>>
       \/ Program(code, value)[n + 1].may /\ Done(TRUE)
  ELSE IF Sets \cap Kept # {}
  THEN pc' = "store" /\ UNCHANGED <<code, value, n, again, wanted, spoilt>>
  ELSE Done(TRUE)

\* What resetPortPerf does when getPortPerf has returned, whatever it returned.
Cleared == pc' = "idle" /\ code = "SET_PERF_RESET"

\* send_fifomsg_waitrsp takes an entry.  Elsewhere send_fifomsg is called without
\* it, and returns whether the device has taken the message.
Send ==
  /\ pc = "send"
  /\ IF Cmd.wait
     THEN /\ pc' = "wait" /\ UNCHANGED <<code, value, n, again, got, toOnu, wanted, spoilt>>
          /\ clean' = ~About(Cmd.type)
     ELSE /\ \/ toOnu' = Append(toOnu, Request) /\ Advance
             \/ UNCHANGED toOnu /\ Done(FALSE)
          /\ got' = Zeros /\ UNCHANGED clean
  /\ entry' = None /\ tries' = 0
  /\ UNCHANGED <<sent, toCard, onu, db, perf, tainted, total, before, script, events>>

\* The loop of send_fifomsg_waitrsp: the device takes the message.  While it does
\* not, the loop neither waits nor counts, and looks at no answer.
WriteFifo ==
  /\ pc = "wait" /\ ~sent
  /\ sent' = TRUE /\ toOnu' = Append(toOnu, Request)
  /\ UNCHANGED <<pc, code, value, n, tries, again, got, entry, toCard, onu, db, perf, history,
                 script, events>>

\* The loop of send_fifomsg_waitrsp finds the answer; the caller looks only at
\* its data.  A counter that is not valid is read once more.
Take ==
  /\ pc = "wait" /\ sent /\ entry # None /\ sent' = FALSE
  /\ IF Cmd.sum = "none" \/ entry.valid THEN Advance
     ELSE IF again THEN Done(FALSE)
     ELSE pc' = "send" /\ again' = TRUE /\ UNCHANGED <<code, value, n, wanted, spoilt>>
  /\ \E v \in Bit :
       got' = [f \in Fields |->
                IF pc' = "idle" THEN 0
                ELSE IF entry.tag # "own" /\ f \in Cmd.get THEN v
                ELSE IF f \in DOMAIN entry.bits /\ entry.tag = "own" THEN entry.bits[f]
                ELSE got[f]]
  /\ perf' = IF Cleared THEN [d \in DOMAIN Of |-> 0]
             ELSE IF Cmd.sum # "none" THEN [perf EXCEPT ![Cmd.sum] = @ + entry.count] ELSE perf
  /\ total' = IF Cleared THEN [rx |-> cnt.rxlo + cnt.rxhi, tx |-> cnt.txlo + cnt.txhi] ELSE total
  /\ tainted' = (tainted \/ entry.tag # "own")
  /\ toOnu' = Old(toOnu) /\ toCard' = Old(toCard)
  /\ entry' = None /\ tries' = 0
  /\ UNCHANGED <<onu, db, clean, before, script, events>>

\* Timeout that waits for the last answer for ever.
TimeoutWaits ==
  /\ pc = "wait" /\ sent /\ entry = None /\ tries < MaxRetry - 1
  /\ sent' = FALSE /\ tries' = tries + 1
  /\ UNCHANGED <<pc, code, value, n, again, got, wanted, spoilt, toOnu, toCard, perf, total, entry,
                 onu, db, clean, before, script, events, tainted>>

\* No answer within 100 ms: it is lost or late.  The message is to be sent again,
\* and after the third time given up.
Timeout ==
  /\ pc = "wait" /\ sent /\ entry = None /\ sent' = FALSE
  /\ IF \/ \E i \in DOMAIN toOnu : toOnu[i].tag = "own"
        \/ \E k \in DOMAIN toCard : toCard[k].tag = "own"
     THEN events < MaxEvents /\ events' = events + 1
     ELSE UNCHANGED events
  /\ tainted' = (tainted \/ Cmd.sum # "none")
  /\ IF tries < MaxRetry - 1
     THEN /\ tries' = tries + 1
          /\ UNCHANGED <<pc, code, value, n, again, got, wanted, spoilt, toOnu, toCard, perf, total>>
     ELSE /\ tries' = 0
          /\ IF Cmd.go THEN Advance ELSE Done(FALSE)
          /\ got' = IF pc' = "idle" THEN Zeros ELSE got
          /\ perf' = IF Cleared THEN [d \in DOMAIN Of |-> 0] ELSE perf
          /\ total' = IF Cleared THEN [rx |-> cnt.rxlo + cnt.rxhi, tx |-> cnt.txlo + cnt.txhi]
                      ELSE total
          /\ toOnu' = Old(toOnu) /\ toCard' = Old(toCard)
  /\ UNCHANGED <<entry, onu, db, clean, before, script>>

\* updateONUPortCfgInDB, updateONUUARTCfgInDB.  What they return is not looked at.
Store(ok) ==
  /\ pc = "store"
  /\ IF ok THEN UNCHANGED <<tainted, events>>
     ELSE events < MaxEvents /\ events' = events + 1 /\ tainted' = TRUE
  /\ db' = [f \in Kept |-> IF ok /\ f \in Sets THEN value ELSE db[f]]
  /\ Done(TRUE) /\ got' = Zeros
  /\ UNCHANGED <<tries, sent, entry, toOnu, toCard, onu, perf, clean, total, before, script>>

----------------------------------------------------------------------------
(* The thread handle_fifomsg. *)

Up == [None EXCEPT !.type = "UP", !.tag = "once"]

\* Deliver that does not compare types.
DeliverAny ==
  /\ toCard # <<>> /\ Head(toCard).type # "UP"
  /\ toCard' = Tail(toCard)
  /\ entry' = IF pc = "wait" /\ entry = None THEN Head(toCard) ELSE entry
  /\ UNCHANGED <<main, toOnu, onu, db, perf, history, script, events>>

\* What comes from the ONU goes to the main thread if it waits for a message of
\* this type; other answers are not looked at.
Deliver ==
  /\ toCard # <<>> /\ Head(toCard).type # "UP"
  /\ toCard' = Tail(toCard)
  /\ entry' = IF pc = "wait" /\ entry = None /\ Head(toCard).type = Cmd.type THEN Head(toCard)
              ELSE entry
  /\ UNCHANGED <<main, toOnu, onu, db, perf, history, script, events>>

\* CMD_FPGA_UP: downloadONUCfg sends what the tables have, without waiting.
Stored(f) == [type |-> IF f = "port" THEN "KSW" ELSE "UARTW", get |-> {},
              bits |-> [g \in {f} |-> db[f]], select |-> IF f = "port" THEN "other" ELSE "none",
              count |-> FALSE, tag |-> "once"]
RestoreUart ==   \* that forgets the ports
  /\ toCard # <<>> /\ Head(toCard).type = "UP"
  /\ toCard' = Tail(toCard)
  /\ toOnu' = toOnu \o (IF db["uart"] = NoRow THEN <<>> ELSE << Stored("uart") >>)
  /\ clean' = FALSE /\ tainted' = (tainted \/ pc # "idle")
  /\ UNCHANGED <<main, entry, onu, db, perf, wanted, spoilt, total, before, script, events>>

Restore ==
  /\ toCard # <<>> /\ Head(toCard).type = "UP"
  /\ toCard' = Tail(toCard)
  /\ toOnu' = toOnu \o (IF db["port"] = NoRow THEN <<>> ELSE << Stored("port") >>)
                    \o (IF db["uart"] = NoRow THEN <<>> ELSE << Stored("uart") >>)
  /\ wanted' = [f \in Fields |-> IF f \in Kept /\ db[f] # NoRow THEN db[f] ELSE wanted[f]]
  /\ clean' = (clean /\ pc = "wait" /\ Cmd.type \notin {"KSW", "UARTW"})
  /\ tainted' = (tainted \/ pc # "idle")
  /\ UNCHANGED <<main, entry, onu, db, perf, spoilt, total, before, script, events>>

----------------------------------------------------------------------------
(* The ONU and the fibre. *)

Quiet == pc = "idle" /\ on /\ toOnu = <<>> /\ toCard = <<>>

\* It starts: its settings and counters are those of a new ONU.
Boot(pending) ==
  /\ on' = TRUE /\ reg' = Zeros /\ sel' = "other" /\ cnt' = NoCounts
  /\ toCard' = Append(toCard, Up)
  /\ wanted' = Zeros /\ spoilt' = {} /\ total' = perf
  /\ tainted' = (tainted \/ pc # "idle" \/ pending)

\* It carries out a message and answers.  A counter may not be valid yet.
Answer ==
  LET m == Head(toOnu)
      a(count, valid) == [type |-> m.type, bits |-> [f \in m.get |-> reg[f]], count |-> count,
                          valid |-> valid, tag |-> m.tag]
  IN
  /\ on /\ toOnu # <<>> /\ m.type # "RESET"
  /\ toOnu' = Tail(toOnu)
  /\ reg' = [f \in Fields |-> IF f \in DOMAIN m.bits THEN m.bits[f] ELSE reg[f]]
  /\ sel' = IF m.select = "none" THEN sel ELSE m.select
  /\ \/ /\ m.count /\ sel # "other"
        /\ toCard' = Append(toCard, a(cnt[sel], TRUE)) /\ cnt' = [cnt EXCEPT ![sel] = 0]
        /\ UNCHANGED events
     \/ /\ m.count /\ toCard' = Append(toCard, a(0, FALSE)) /\ UNCHANGED cnt
        /\ IF sel = "other" THEN UNCHANGED events
           ELSE events < MaxEvents /\ events' = events + 1
     \/ ~m.count /\ toCard' = Append(toCard, a(0, TRUE)) /\ UNCHANGED <<cnt, events>>
  /\ UNCHANGED <<main, entry, on, db, perf, history, script>>

\* A reset makes it start again, switching it off and on too.  Switched off it
\* hears nothing.
Reset ==
  /\ on /\ toOnu # <<>> /\ Head(toOnu).type = "RESET"
  /\ toOnu' = Tail(toOnu) /\ Boot(Tail(toOnu) # <<>> \/ toCard # <<>>)
  /\ UNCHANGED <<main, entry, db, perf, clean, before, script, events>>
SwitchOff ==
  /\ on /\ events < MaxEvents /\ events' = events + 1
  /\ on' = FALSE /\ tainted' = (tainted \/ ~Quiet)
  /\ UNCHANGED <<main, entry, toOnu, toCard, reg, sel, cnt, db, perf, clean, wanted, spoilt, total,
                 before, script>>
SwitchOn ==
  /\ ~on /\ Boot(toOnu # <<>> \/ toCard # <<>>)
  /\ UNCHANGED <<main, entry, toOnu, db, perf, clean, before, script, events>>
Unheard ==
  /\ ~on /\ toOnu # <<>> /\ toOnu' = Tail(toOnu)
  /\ tainted' = (tainted \/ Head(toOnu).tag = "once")
  /\ UNCHANGED <<main, entry, toCard, onu, db, perf, clean, wanted, spoilt, total, before, script, events>>

\* A message is lost.  If nobody waits for it, nobody sends it again.  Settings
\* to be restored that the device does not take are lost too.
Lose ==
  /\ events < MaxEvents /\ events' = events + 1
  /\ \/ /\ toOnu # <<>> /\ toOnu' = Tail(toOnu) /\ UNCHANGED toCard
        /\ tainted' = (tainted \/ Head(toOnu).tag = "once")
     \/ /\ toCard # <<>> /\ toCard' = Tail(toCard) /\ UNCHANGED toOnu
        /\ tainted' = (tainted \/ Head(toCard).type = "UP")
  /\ UNCHANGED <<main, entry, onu, db, perf, clean, wanted, spoilt, total, before, script>>

\* It counts bytes; while no request reads a counter, it does not matter when.
Count(c) ==
  /\ on /\ total.rx + total.tx < MaxCounts
  /\ code # "none" /\ \E i \in DOMAIN Program(code, value) : Program(code, value)[i].sum # "none"
  /\ cnt' = [cnt EXCEPT ![c] = @ + 1]
  /\ total' = [d \in DOMAIN Of |-> IF c \in Of[d] THEN total[d] + 1 ELSE total[d]]
  /\ UNCHANGED <<main, entry, toOnu, toCard, on, reg, sel, db, perf, clean, tainted, wanted,
                 spoilt, before, script, events>>

----------------------------------------------------------------------------

Main == Send \/ Take \/ Timeout \/ \E ok \in BOOLEAN : Store(ok)
Fifo == Deliver \/ Restore
Onu  == Answer \/ Reset \/ Unheard \/ SwitchOn

Next ==
  \/ \E v \in Bit : Call(v)
  \/ Main \/ WriteFifo \/ Fifo \/ Onu
  \/ SwitchOff \/ Lose \/ \E c \in Counters : Count(c)

Spec == Init /\ [][Next]_vars

\* Both threads run; the fibre carries what is not lost.  Nothing says that the
\* device ever takes a message (WriteFifo).
FairSpec == Spec /\ WF_vars(Main) /\ WF_vars(Fifo) /\ WF_vars(Answer \/ Reset \/ Unheard)

----------------------------------------------------------------------------
(* Properties. *)

\* Types are compared, registers are not; still an answer taken for that of a
\* message is its answer, unless another message of this type was on the fibre
\* when it was sent, or has been sent since to restore settings
\* (send_fifomsg_waitrsp, handle_fifomsg).
OwnAnswer == entry # None /\ clean => entry.tag = "own"

\* When nothing goes on, every field has the value it was last successfully
\* set to, or that its table has if the ONU has started since, whatever failed
\* requests, other settings of the same registers and restarts came in between;
\* except what two requests are known to overwrite (NothingSpoilt), and after a
\* mixed-up answer, a lost message nobody waits for, or a start of the ONU
\* during a request (setONU..., downloadONUCfg).
SettingsKept ==
  Quiet /\ ~tainted => \A f \in Fields \ spoilt : wanted[f] \in {reg[f], Any}

\* What the tables have is what the ONU does, and what it will be sent when it
\* starts (updateONUPortCfgInDB, updateONUUARTCfgInDB).
TablesTrue ==
  Quiet /\ ~tainted => \A f \in Kept : db[f] # NoRow /\ wanted[f] # Any => db[f] = reg[f]

\* Every byte the ONU has counted is counted once: reading clears a counter,
\* and it is added to the two sums (readPerfReg, getPortPerf, resetPortPerf).
NothingCountedTwice ==
  Quiet /\ ~tainted => /\ perf.rx + cnt.rxlo + cnt.rxhi = total.rx
                      /\ perf.tx + cnt.txlo + cnt.txhi = total.tx

\* Every request is answered, also when the ONU is switched off (ProcessMsg); or
\* from some time on the device takes nothing, and the main thread writes for
\* ever (send_fifomsg_waitrsp).
Stuck == pc = "wait" /\ ~sent
RequestEnds == pc # "idle" ~> (pc = "idle" \/ []Stuck)

\* What fsalib.c:4060 says ("read the Tx hi-priority"): the answer has all that
\* the ONU had sent when the request came.
TxComplete ==
  [][pc = "wait" /\ pc' = "idle" /\ code = "GET_PORT_PERF" /\ n = 8 /\ entry # None
       /\ entry.valid /\ ~tainted' => perf'.tx >= before.tx]_vars

\* What the loop of send_fifomsg_waitrsp leaves open: three tries, then an answer.
ThreeTries == pc # "idle" ~> pc = "idle"

\* What the page that sets a threshold is told was set (setONUStorm).
ThresholdSet ==
  [][pc = "wait" /\ pc' = "idle" /\ code = "C_ONU_SET" /\ wanted'["name"] # Any
       /\ wanted'["storm"] # Any => wanted'["threshold"] = value]_vars

\* What setONUStorm and setONUPortMirror spoil: they write registers that hold
\* other settings, without keeping them.
NothingSpoilt ==
  Quiet /\ ~tainted => \A f \in Fields : wanted[f] \in {reg[f], Any}

\* What a late answer spoils: the registers of another message are taken for
\* those asked for, and written back.
LateIsHarmless == entry # None => entry.tag = "own"
=============================================================================
