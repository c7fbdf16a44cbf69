------------------------------ MODULE CardMgmt ------------------------------
(***************************************************************************)
(* How EmsAgent learns which cards are in the shelf, and what the web pages *)
(* are told about it.                                                       *)
(*                                                                          *)
(* Every half second the agent runs check_cardUP (EmsAgent/card_mgmt.c),    *)
(* which asks the slots it has no card for, and check_cardAlarms            *)
(* (EmsAgent/alarm_proc.c), which polls the cards it has.  A card that      *)
(* answers the first gets a row in the table Card, an entry in cardData, an *)
(* ONLINE alarm and its configuration; one that misses the second twice in  *)
(* a row loses them with an OFFLINE alarm.  In between the agent serves     *)
(* C_CARD_GET requests of the CGI programs, which share GetCardInfo and its *)
(* write into cardData.  A browser keeps a copy of the table and reloads it *)
(* when the agent's refresh flag says so.                                   *)
(*                                                                          *)
(* The RS485 bus carries one request at a time.  An answer that comes after *)
(* the 20 ms may be taken for the answer of the next request, because       *)
(* msg485_sendwaitrsp looks at no more than the destination.                *)
(*                                                                          *)
(* An operator named after the action or helper that follows it, with a     *)
(* word added, is that definition with a bug a programmer could make; it is *)
(* used in no specification and only shows which property would notice.     *)
(***************************************************************************)
EXTENDS Integers, FiniteSets

CONSTANTS NumSlots,    \* MAX_CARD_NUM_UTN (13)
          Ctrl,        \* CTRL_CARDNO (7), the slot of the agent itself
          GW,          \* GW_CARDNO (17), what slot Ctrl is probed as
          Types,       \* the types of card that are told apart
          MaxPlugs,    \* bound: cards plugged in
          MaxFaults,   \* bound: late or negative answers on the bus
          MaxBusy,     \* bound: failures of the database
          MaxClicks    \* bound: C_CARD_GET requests

AllTypes == {"FE8", "FSA", "EPN", "GE8"}

ASSUME CardMgmtAssumption ==
  /\ NumSlots \in Nat \ {0}
  /\ Ctrl \in 1..NumSlots
  /\ GW \in Nat /\ GW > NumSlots
  /\ Types \subseteq AllTypes
  /\ MaxPlugs \in Nat /\ MaxFaults \in Nat /\ MaxBusy \in Nat /\ MaxClicks \in Nat

Slots == 1..NumSlots

\* The bus address a slot is asked under.
Addr(s) == IF s = Ctrl THEN GW ELSE s
Cards   == {Addr(s) : s \in Slots}
SlotOf(a) == IF a = GW THEN Ctrl ELSE a

VARIABLES
  card,      \* type of the card really at each address, or "none"
  raised,    \* cards with an alarm nobody has fetched yet
  running,   \* FE8 cards that have received their stored configuration
  stray,     \* an answer still on its way, or NoMsg
  cardNo,    \* cardData[s].card_no, 0 for none
  cardType,  \* cardData[s].card_type
  toCount,   \* cardTOcount of check_cardAlarms
  rows,      \* table Card of the dynamic database
  balance,   \* ONLINE minus OFFLINE alarms in table Alarm, per card
  log,       \* other alarms in table Alarm: <<card that raised it, slot it is
             \* filed under>>
  conf,      \* slots with a stored FE8 configuration (database CONF_DB)
  dirty,     \* CHANGE_FLAG_TREEV|CHANGE_FLAG_FRAMEV of the browser's session
  reload,    \* 1 if the browser has been told to reload and has not yet
  shown,     \* the rows the browser shows
  agent,     \* where the agent is: "loop", "up", "follow" or "alarms"
  curCard, endCard, timeout, loopEnd,     \* variables of check_cardUP
  todo,      \* exchanges left to configure or list the card just found
  pos,       \* i of check_cardAlarms
  db,        \* 1 if the running check has the database open
  plugs, faults, busy, clicks,            \* how much of each bound is used
  ghost,     \* history: 1 if C_CARD_GET has put an unlisted card in cardData
  unnoticed  \* history: 1 if a card was replaced before its removal was seen

shelfVars  == <<card, raised, running>>
cacheVars  == <<cardNo, cardType, toCount>>
tableVars  == <<rows, balance, log, conf>>
webVars    == <<dirty, reload, shown>>
upVars     == <<curCard, endCard, timeout, loopEnd, todo>>
boundVars  == <<plugs, faults, busy, clicks>>
histVars   == <<ghost, unnoticed>>
vars == <<shelfVars, stray, cacheVars, tableVars, webVars, agent, upVars, pos, db,
          boundVars, histVars>>

NoMsg  == [from |-> 0, kind |-> "none", data |-> "none"]
Answer == [from : Cards, kind : {"info"}, data : AllTypes]
          \cup [from : Cards, kind : {"alarms"}, data : {"alarm", "quiet"}]
          \cup [from : Cards, kind : {"other", "error"}, data : {"ok"}]
CtrlRow == [no |-> Ctrl, type |-> "CTRL"]
Row     == [no : Cards, type : AllTypes] \cup {CtrlRow}
Numbers(t) == {r.no : r \in t}

TypeOK ==
  /\ card \in [Cards -> AllTypes \cup {"none"}]
  /\ raised \subseteq Cards /\ running \subseteq Cards
  /\ stray \in Answer \cup {NoMsg}
  /\ cardNo \in [Slots -> Cards \cup {0}]
  /\ cardType \in [Slots -> AllTypes \cup {"none"}]
  /\ toCount \in [Slots -> Nat]
  /\ rows \subseteq Row /\ shown \subseteq Row
  /\ balance \in [Cards -> Int]
  /\ log \subseteq Cards \X Slots
  /\ conf \subseteq Slots
  /\ dirty \in {0, 1} /\ reload \in {0, 1}
  /\ agent \in {"loop", "up", "follow", "alarms"}
  /\ curCard \in Slots /\ endCard \in Slots
  /\ timeout \in 0..2 /\ loopEnd \in {0, 1} /\ todo \in 0..2
  /\ pos \in 1..NumSlots+1 /\ db \in {0, 1}
  /\ plugs \in 0..MaxPlugs /\ faults \in 0..MaxFaults
  /\ busy \in 0..MaxBusy /\ clicks \in 0..MaxClicks
  /\ ghost \in {0, 1} /\ unnoticed \in {0, 1}

\* cardmgmt_init, with an empty shelf and any stored configuration.
Init ==
  /\ card = [a \in Cards |-> "none"] /\ raised = {} /\ running = {}
  /\ stray = NoMsg
  /\ cardNo = [s \in Slots |-> 0] /\ cardType = [s \in Slots |-> "none"]
  /\ toCount = [s \in Slots |-> 0]
  /\ rows = {CtrlRow} /\ shown = {CtrlRow}
  /\ balance = [a \in Cards |-> 0] /\ log = {} /\ conf \in SUBSET Slots
  /\ dirty = 0 /\ reload = 0
  /\ agent = "loop"
  /\ curCard = 1 /\ endCard = 1 /\ timeout = 0 /\ loopEnd = 0 /\ todo = 0
  /\ pos = 1 /\ db = 0
  /\ plugs = 0 /\ faults = 0 /\ busy = 0 /\ clicks = 0
  /\ ghost = 0 /\ unnoticed = 0

----------------------------------------------------------------------------
(* The shelf. *)

Present(a) == card[a] # "none"

\* A card is plugged in, unconfigured.  It takes longer than any late answer.
\* The address GW is that of a switch.
Plug(a, t) ==
  /\ ~Present(a) /\ plugs < MaxPlugs
  /\ a = GW => t = "GE8"
  /\ stray = NoMsg
  /\ plugs' = plugs + 1
  /\ card' = [card EXCEPT ![a] = t]
  /\ unnoticed' = IF cardNo[SlotOf(a)] # 0 THEN 1 ELSE unnoticed
  /\ UNCHANGED <<raised, running, stray, cacheVars, tableVars, webVars, agent,
                 upVars, pos, db, faults, busy, clicks, ghost>>

\* A card is pulled out, and all it knew is gone.
Unplug(a) ==
  /\ Present(a)
  /\ card' = [card EXCEPT ![a] = "none"]
  /\ raised' = raised \ {a} /\ running' = running \ {a}
  /\ UNCHANGED <<stray, cacheVars, tableVars, webVars, agent, upVars, pos, db,
                 boundVars, histVars>>

\* A card has an alarm for the agent.
Raise(a) ==
  /\ Present(a) /\ a \notin raised
  /\ raised' = raised \cup {a}
  /\ UNCHANGED <<card, running, stray, cacheVars, tableVars, webVars, agent,
                 upVars, pos, db, boundVars, histVars>>

\* What card a answers to a request.
Reply(a, kind) ==
  [from |-> a, kind |-> kind,
   data |-> CASE kind = "info"   -> card[a]
              [] kind = "alarms" -> IF a \in raised THEN "alarm" ELSE "quiet"
              [] OTHER           -> "ok"]

\* msg485_sendwaitrsp: what the caller gets (NoMsg for a timeout), what is left
\* on the bus, and the faults it took: the card's own answer; none, the card
\* being absent; its answer coming late; a refusal; or the answer of an earlier
\* request, the card's own coming after it or in time to be thrown away.
Outcome(a, kind) ==
  {[ans |-> IF Present(a) THEN Reply(a, kind) ELSE NoMsg,
    left |-> NoMsg, faults |-> faults]}
  \cup {[ans |-> NoMsg, left |-> Reply(a, kind), faults |-> f] :
          f \in IF Present(a) THEN {faults + 1} \cap 0..MaxFaults ELSE {}}
  \cup {[ans |-> [from |-> a, kind |-> "error", data |-> "ok"],
         left |-> NoMsg, faults |-> f] :
          f \in IF Present(a) THEN {faults + 1} \cap 0..MaxFaults ELSE {}}
  \cup {[ans |-> stray, left |-> m, faults |-> faults] :
          m \in IF stray = NoMsg THEN {}
                ELSE {NoMsg} \cup IF Present(a) THEN {Reply(a, kind)} ELSE {}}

\* A card forgets its alarms once it has answered GET_ALARMS.
Exchange(a, kind, o) ==
  /\ o \in Outcome(a, kind)
  /\ stray' = o.left /\ faults' = o.faults
  /\ raised' = IF kind = "alarms" THEN raised \ {a} ELSE raised

\* GetCardInfo accepts only an answer with the number it asked for.
IsInfoAny(o, a) == o.ans.kind = "info"
IsInfo(o, a) == o.ans.kind = "info" /\ o.ans.from = a

----------------------------------------------------------------------------
(* The agent between two checks: C_CARD_GET, and the browser. *)

\* The browser asks for a card it shows.  GetCardInfo copies the answer into
\* cardData whether the card is listed or not; for GW that is cardData[17],
\* past the end of the array, and no slot of it.
CardGet(a) ==
  /\ agent = "loop" /\ clicks < MaxClicks
  /\ a \in Numbers(shown) \ {Ctrl}
  /\ clicks' = clicks + 1
  /\ \E o \in Outcome(a, "info") :
       /\ Exchange(a, "info", o)
       /\ IF IsInfo(o, a) /\ a \in Slots
          THEN /\ cardNo' = [cardNo EXCEPT ![a] = a]
               /\ cardType' = [cardType EXCEPT ![a] = o.ans.data]
               /\ ghost' = IF cardNo[a] = 0 THEN 1 ELSE ghost
          ELSE UNCHANGED <<cardNo, cardType, ghost>>
  /\ UNCHANGED <<card, running, toCount, tableVars, webVars, agent, upVars, pos,
                 db, plugs, busy, unnoticed>>

\* The browser's poll: getRefreshState tests and clears its flag.
RefreshForgotten ==
  /\ agent = "loop" /\ dirty = 1
  /\ dirty' = 0
  /\ UNCHANGED <<shelfVars, stray, cacheVars, tableVars, reload, shown, agent,
                 upVars, pos, db, boundVars, histVars>>
Refresh ==
  /\ agent = "loop" /\ dirty = 1
  /\ dirty' = 0 /\ reload' = 1
  /\ UNCHANGED <<shelfVars, stray, cacheVars, tableVars, shown, agent, upVars,
                 pos, db, boundVars, histVars>>

\* The page is built from the table, whatever the agent does meanwhile.
Reload ==
  /\ reload = 1
  /\ reload' = 0 /\ shown' = rows
  /\ UNCHANGED <<shelfVars, stray, cacheVars, tableVars, dirty, agent, upVars,
                 pos, db, boundVars, histVars>>

----------------------------------------------------------------------------
(* check_cardUP. *)

StartUpFromOne ==
  /\ agent = "loop"
  /\ agent' = "up"
  /\ curCard' = 1 /\ endCard' = 1
  /\ timeout' = 0 /\ loopEnd' = 0 /\ db' = 0
  /\ UNCHANGED <<shelfVars, stray, cacheVars, tableVars, webVars, todo,
                 pos, boundVars, histVars>>
StartUp ==
  /\ agent = "loop"
  /\ agent' = "up"
  /\ endCard' = curCard /\ timeout' = 0 /\ loopEnd' = 0 /\ db' = 0
  /\ UNCHANGED <<shelfVars, stray, cacheVars, tableVars, webVars, curCard, todo,
                 pos, boundVars, histVars>>

NextCard == IF curCard = NumSlots THEN 1 ELSE curCard + 1

\* The loop test and its first statements: the next slot, and whether it is
\* the last one of this round.
Advance ==
  /\ agent = "up" /\ timeout < 2 /\ loopEnd = 0
  /\ curCard' = NextCard
  /\ loopEnd' = IF NextCard = endCard THEN 1 ELSE 0

\* The slot has a card: not asked.
SkipListed ==
  /\ Advance
  /\ cardNo[NextCard] # 0
  /\ UNCHANGED <<shelfVars, stray, cacheVars, tableVars, webVars, agent, endCard,
                 timeout, todo, pos, db, boundVars, histVars>>

\* No card information came: counted as a timeout whatever it was.
ProbeMissed ==
  /\ Advance
  /\ cardNo[NextCard] = 0
  /\ \E o \in Outcome(Addr(NextCard), "info") :
       Exchange(Addr(NextCard), "info", o) /\ ~IsInfo(o, Addr(NextCard))
  /\ timeout' = timeout + 1
  /\ UNCHANGED <<card, running, cacheVars, tableVars, webVars, agent, endCard,
                 todo, pos, db, plugs, busy, clicks, histVars>>

\* The exchanges that follow the discovery of a card of type t in slot s: one
\* that sets an FE8 card up if there is something stored, one list for an FSA
\* card, one list for each of the two PONs of an EPN card.
FollowUpsNoFE8(t, s) ==
  CASE t = "FSA" -> 1
    [] t = "EPN" -> 2
    [] OTHER     -> 0
FollowUps(t, s) ==
  CASE t = "FE8" -> IF s \in conf THEN 1 ELSE 0
    [] t = "FSA" -> 1
    [] t = "EPN" -> 2
    [] OTHER     -> 0

\* Insert into a table whose key is the card number.
InsertedNot(t, r) == t
Inserted(t, r) == IF r.no \in Numbers(t) THEN t ELSE t \cup {r}

\* The card answers.  It goes into cardData, the table and the alarms; failed
\* statements are logged and nothing else.  rmConfigFE8Card drops what was
\* stored for the slot if the card is of a type that has no settings.
ProbeFound ==
  /\ Advance
  /\ cardNo[NextCard] = 0
  /\ \E o \in Outcome(Addr(NextCard), "info"), fail \in SUBSET {"row", "alarm"} :
       LET a == Addr(NextCard)
           t == o.ans.data
       IN /\ Exchange(a, "info", o) /\ IsInfo(o, a)
          /\ busy + Cardinality(fail) <= MaxBusy
          /\ busy' = busy + Cardinality(fail)
          /\ rows' = IF "row" \in fail THEN rows ELSE Inserted(rows, [no |-> a, type |-> t])
          /\ balance' = IF "alarm" \in fail THEN balance
                        ELSE [balance EXCEPT ![a] = @ + 1]
          /\ cardNo' = [cardNo EXCEPT ![NextCard] = a]
          /\ cardType' = [cardType EXCEPT ![NextCard] = t]
          /\ conf' = IF t \in {"FE8", "EPN"} THEN conf ELSE conf \ {NextCard}
          /\ todo' = FollowUps(t, NextCard)
  /\ db' = 1 /\ agent' = "follow"
  /\ UNCHANGED <<card, running, toCount, log, webVars, endCard, timeout, pos,
                 plugs, clicks, histVars>>

\* The card answers and the database does not open: the loop goes on, with
\* what GetCardInfo has left in cardData.
ProbeNoDb ==
  /\ Advance
  /\ cardNo[NextCard] = 0
  /\ db = 0 /\ busy < MaxBusy
  /\ busy' = busy + 1
  /\ \E o \in Outcome(Addr(NextCard), "info") :
       /\ Exchange(Addr(NextCard), "info", o) /\ IsInfo(o, Addr(NextCard))
       /\ IF NextCard = Ctrl THEN UNCHANGED <<cardNo, cardType>>
          ELSE /\ cardNo' = [cardNo EXCEPT ![NextCard] = NextCard]
               /\ cardType' = [cardType EXCEPT ![NextCard] = o.ans.data]
  /\ UNCHANGED <<card, running, toCount, tableVars, webVars, agent, endCard,
                 timeout, todo, pos, db, plugs, clicks, histVars>>

\* configFE8Card, UpdateOnuList, UpdateEPOnuList: one exchange with the card.
\* Only UpdateEPOnuList repeats a request nobody answers, and gives up on an
\* answer of the wrong length.
Follow ==
  /\ agent = "follow" /\ todo > 0
  /\ \E o \in Outcome(cardNo[curCard], "other") :
       /\ Exchange(cardNo[curCard], "other", o)
       /\ running' = IF /\ cardType[curCard] = "FE8"
                        /\ card[cardNo[curCard]] = "FE8"
                        /\ o.ans.kind # "error"
                     THEN running \cup {cardNo[curCard]} ELSE running
       /\ todo' = IF cardType[curCard] # "EPN" THEN todo - 1
                  ELSE IF o.ans = NoMsg THEN todo
                  ELSE IF o.ans.kind \in {"other", "error"} THEN todo - 1
                  ELSE 0
  /\ UNCHANGED <<card, cacheVars, tableVars, webVars, agent, curCard, endCard,
                 timeout, loopEnd, pos, db, plugs, busy, clicks, histVars>>

\* setRefreshState, and on with the loop.
AnnounceNothing ==
  /\ agent = "follow" /\ todo = 0
  /\ agent' = "up"
  /\ UNCHANGED <<shelfVars, stray, cacheVars, tableVars, webVars, upVars, pos,
                 db, boundVars, histVars>>
Announce ==
  /\ agent = "follow" /\ todo = 0
  /\ dirty' = 1 /\ agent' = "up"
  /\ UNCHANGED <<shelfVars, stray, cacheVars, tableVars, reload, shown, upVars, pos,
                 db, boundVars, histVars>>

----------------------------------------------------------------------------
(* check_cardAlarms. *)

StartAlarms ==
  /\ agent = "up"
  /\ timeout >= 2 \/ loopEnd = 1
  /\ agent' = "alarms" /\ pos' = 1 /\ db' = 0
  /\ UNCHANGED <<shelfVars, stray, cacheVars, tableVars, webVars, upVars, boundVars,
                 histVars>>

AtSlot == agent = "alarms" /\ pos <= NumSlots

\* genCardAlarm: alarms are filed under the slot that was asked.
FiledNot(o, s) == log
FiledSwapped(o, s) == log \cup {<<s, o.ans.from>>}
FiledStale(o, s) == log \cup {<<o.ans.from, curCard>>}
Filed(o, s) == log \cup {<<o.ans.from, s>>}

\* No card there, or the agent itself.
SkipAbsent ==
  /\ AtSlot
  /\ cardNo[pos] \in {0, Ctrl}
  /\ pos' = pos + 1
  /\ UNCHANGED <<shelfVars, stray, cacheVars, tableVars, webVars, agent, upVars, db,
                 boundVars, histVars>>

\* Something came back: the card is alive.
PollAnswered ==
  /\ AtSlot
  /\ cardNo[pos] \notin {0, Ctrl}
  /\ \E o \in Outcome(cardNo[pos], "alarms") :
       /\ Exchange(cardNo[pos], "alarms", o)
       /\ o.ans # NoMsg
       /\ log' = IF o.ans.kind = "alarms" /\ o.ans.data = "alarm"
                 THEN Filed(o, pos) ELSE log
  /\ toCount' = [toCount EXCEPT ![pos] = 0]
  /\ pos' = pos + 1
  /\ UNCHANGED <<card, running, cardNo, cardType, rows, balance, conf, webVars,
                 agent, upVars, db, plugs, busy, clicks, histVars>>

\* Nothing came back.
Missed ==
  /\ AtSlot
  /\ cardNo[pos] \notin {0, Ctrl}
  /\ \E o \in Outcome(cardNo[pos], "alarms") :
       Exchange(cardNo[pos], "alarms", o) /\ o.ans = NoMsg

\* How many polls in a row a card may miss before it is gone.
MissLimitOne == 1
MissLimit == 2

\* Not yet: wait for the next poll.
PollMissedForgets ==
  /\ Missed
  /\ toCount[pos] + 1 < MissLimit
  /\ pos' = pos + 1
  /\ UNCHANGED <<card, running, cacheVars, tableVars, webVars, agent, upVars, db,
                 plugs, busy, clicks, histVars>>
PollMissed ==
  /\ Missed
  /\ toCount[pos] + 1 < MissLimit
  /\ toCount' = [toCount EXCEPT ![pos] = @ + 1]
  /\ pos' = pos + 1
  /\ UNCHANGED <<card, running, cardNo, cardType, tableVars, webVars, agent, upVars,
                 db, plugs, busy, clicks, histVars>>

\* Delete from the table, by card number.
WithoutSlot(t, a) == {r \in t : r.no # SlotOf(a)}
Without(t, a) == {r \in t : r.no # a}

\* Once too often: the card is gone.  Failed statements are only logged.
Remove ==
  /\ Missed
  /\ toCount[pos] + 1 >= MissLimit
  /\ \E fail \in SUBSET {"row", "alarm"} :
       /\ busy + Cardinality(fail) <= MaxBusy
       /\ busy' = busy + Cardinality(fail)
       /\ rows' = IF "row" \in fail THEN rows
                  ELSE Without(rows, cardNo[pos])
       /\ balance' = IF "alarm" \in fail THEN balance
                     ELSE [balance EXCEPT ![cardNo[pos]] = @ - 1]
  /\ cardNo' = [cardNo EXCEPT ![pos] = 0]
  /\ cardType' = [cardType EXCEPT ![pos] = "none"]
  /\ toCount' = [toCount EXCEPT ![pos] = 0]
  /\ dirty' = 1 /\ db' = 1
  /\ pos' = pos + 1
  /\ UNCHANGED <<card, running, log, conf, reload, shown, agent, upVars, plugs,
                 clicks, histVars>>

\* Once too often, and the database does not open: the whole check is over.
RemoveNoDb ==
  /\ Missed
  /\ toCount[pos] + 1 >= MissLimit
  /\ db = 0 /\ busy < MaxBusy
  /\ busy' = busy + 1
  /\ toCount' = [toCount EXCEPT ![pos] = @ + 1]
  /\ pos' = NumSlots + 1
  /\ UNCHANGED <<card, running, cardNo, cardType, tableVars, webVars, agent, upVars,
                 db, plugs, clicks, histVars>>

\* Back to select.  What is still on the bus arrives in the 100 ms it takes
\* and is thrown away as garbage.
EndChecks ==
  /\ agent = "alarms" /\ pos = NumSlots + 1
  /\ agent' = "loop" /\ pos' = 1 /\ stray' = NoMsg
  /\ UNCHANGED <<shelfVars, cacheVars, tableVars, webVars, upVars, db, boundVars,
                 histVars>>

----------------------------------------------------------------------------
CheckUp     == StartUp \/ SkipListed \/ ProbeMissed \/ ProbeFound \/ ProbeNoDb
               \/ Follow \/ Announce
CheckAlarms == StartAlarms \/ SkipAbsent \/ PollAnswered \/ PollMissed \/ Remove
               \/ RemoveNoDb \/ EndChecks
Browser     == Refresh \/ Reload

Next == \/ \E a \in Cards : \/ \E t \in Types : Plug(a, t)
                            \/ Unplug(a) \/ Raise(a) \/ CardGet(a)
        \/ Browser \/ CheckUp \/ CheckAlarms

Spec == Init /\ [][Next]_vars

\* The agent's loop runs for ever.  The browser goes on polling; its request
\* waits in the pipe for the next time the agent is in select, hence strong
\* fairness.
FairSpec == /\ Spec
            /\ WF_vars(CheckUp \/ CheckAlarms)
            /\ SF_vars(Refresh) /\ WF_vars(Reload)

----------------------------------------------------------------------------
(* Properties. *)

\* No database failure, and no card put in cardData behind check_cardUP's back.
Clean == busy = 0 /\ ghost = 0

Listed == {cardNo[s] : s \in Slots} \ {0}

\* cardData and the table Card name the same cards, whatever is plugged, late
\* or refused (check_cardUP and check_cardAlarms keep the two by hand).
Listing == Clean => Numbers(rows) = {Ctrl} \cup Listed

\* ONLINE and OFFLINE alarms of a card alternate, and the last one agrees with
\* the table.
AlarmsMatchTable ==
  Clean => \A a \in Cards : balance[a] = IF a \in Numbers(rows) THEN 1 ELSE 0

\* A page with no refresh outstanding shows the table as it is, outside the
\* part of check_cardUP that has inserted a card and not yet said so.
PageFresh == dirty = 0 /\ reload = 0 /\ agent # "follow" => shown = rows

\* The table has the right type for every card that is there, unless a card was
\* swapped too fast for the polls to see.
TypesTrue ==
  Clean /\ unnoticed = 0 =>
    \A r \in rows \ {CtrlRow} : card[r.no] \in {"none", r.type}

\* An FE8 card that is listed and has stored settings runs with them: discovery
\* is the only place that sends them.
Configured ==
  Clean /\ unnoticed = 0 /\ faults = 0 /\ agent # "follow" =>
    \A s \in Slots : /\ cardType[s] = "FE8" /\ s \in conf
                     /\ cardNo[s] # 0 /\ Present(cardNo[s])
                     => cardNo[s] \in running

\* An alarm is filed under the card that raised it.
RightCard == faults = 0 => \A e \in log : SlotOf(e[1]) = e[2]

\* A card is declared offline while it is in its slot only if two answers were
\* late, or it had been out and back unseen ("no more than 2 times").
OfflineMeansGone ==
  [][\A a \in Cards : balance'[a] < balance[a] /\ Present(a)
                      => faults' >= 2 \/ unnoticed = 1]_vars

\* What check_cardUP's comment says (card_mgmt.c:1303): a card that has
\* answered is marked up and gets its record.
AnsweredMeansListed == Listed \subseteq Numbers(rows)

\* msg485_sendwaitrsp "send 485 message and wait for the response"
\* (serial_comm.c:500): alarms are those of the card that was asked.
ResponseIsOwn == \A e \in log : SlotOf(e[1]) = e[2]

\* check_cardUP goes back to the main loop (card_mgmt.c:1324 "then yeild to the
\* main process").
AgentYields == agent # "loop" ~> agent = "loop"

\* A card that stays in gets listed, whatever else is absent from the shelf.
EventuallyListed ==
  \A a \in Cards : Present(a) ~> ~Present(a) \/ a \in Numbers(rows)

\* A card that stays out gets removed.
EventuallyRemoved ==
  \A a \in Cards : ~Present(a) ~> Present(a) \/ a \notin Numbers(rows)

\* The browser catches up with the table.
PageCatchesUp == shown # rows ~> shown = rows

\* On a bus without faults an alarm of a card that stays in is filed.
AlarmsArrive ==
  \A a \in Cards : a \in raised ~> ~Present(a) \/ <<a, SlotOf(a)>> \in log
=============================================================================
