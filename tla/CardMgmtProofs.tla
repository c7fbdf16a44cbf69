--------------------------- MODULE CardMgmtProofs ---------------------------
(***************************************************************************)
(* Theorems about CardMgmt, for any number of slots and any value of the    *)
(* bounds.                                                                  *)
(***************************************************************************)
EXTENDS CardMgmt, FiniteSetTheorems, TLAPS

USE CardMgmtAssumption DEF CardMgmtAssumption, AllTypes, MissLimit

----------------------------------------------------------------------------
(* Slots and addresses. *)

LEMMA AddrType == ASSUME NEW s \in Slots PROVE Addr(s) \in Cards
  BY DEF Cards

LEMMA AddrInjective == ASSUME NEW s \in Slots, NEW u \in Slots, Addr(s) = Addr(u)
                       PROVE  s = u
  BY DEF Addr, Slots

LEMMA NotCards == Ctrl \notin Cards /\ 0 \notin Cards
  BY DEF Cards, Addr, Slots

LEMMA SlotOfType == ASSUME NEW a \in Cards PROVE SlotOf(a) \in Slots
  BY DEF Cards, Addr, Slots, SlotOf

LEMMA NextCardType == ASSUME curCard \in Slots PROVE NextCard \in Slots
  BY DEF NextCard, Slots

\* How many of the two statements fail.
LEMMA FailCount == ASSUME NEW fail \in SUBSET {"row", "alarm"}
                   PROVE  /\ Cardinality(fail) \in Nat
                          /\ Cardinality(fail) = 0 => fail = {}
  <1>1. IsFiniteSet({"row", "alarm"})
    <2>1. IsFiniteSet({"row"})
      BY FS_Singleton
    <2>2. IsFiniteSet({"row"} \cup {"alarm"})
      BY <2>1, FS_AddElement
    <2>3. {"row"} \cup {"alarm"} = {"row", "alarm"}
      OBVIOUS
    <2> QED BY <2>2, <2>3
  <1>2. IsFiniteSet(fail)
    BY <1>1, FS_Subset
  <1> QED BY <1>2, FS_CardinalityType, FS_EmptySet

----------------------------------------------------------------------------
(* Types. *)

LEMMA ReplyType ==
  ASSUME TypeOK, NEW a \in Cards, Present(a), NEW kind \in {"info", "alarms", "other"}
  PROVE  Reply(a, kind) \in Answer
  BY DEF TypeOK, Present, Reply, Answer

LEMMA OutcomeType ==
  ASSUME TypeOK, NEW a \in Cards, NEW kind \in {"info", "alarms", "other"},
         NEW o \in Outcome(a, kind)
  PROVE  /\ o.ans \in Answer \cup {NoMsg}
         /\ o.left \in Answer \cup {NoMsg}
         /\ o.faults \in 0..MaxFaults
  <1>1. faults \in 0..MaxFaults /\ stray \in Answer \cup {NoMsg}
    BY DEF TypeOK
  <1>2. Present(a) => Reply(a, kind) \in Answer
    BY ReplyType
  <1>3. [from |-> a, kind |-> "error", data |-> "ok"] \in Answer
    BY DEF Answer
  <1> QED BY <1>1, <1>2, <1>3 DEF Outcome

\* What an exchange does to the bus.
LEMMA ExchangeType ==
  ASSUME TypeOK, NEW a \in Cards, NEW kind \in {"info", "alarms", "other"},
         NEW o, Exchange(a, kind, o)
  PROVE  /\ o.ans \in Answer \cup {NoMsg}
         /\ stray' \in Answer \cup {NoMsg}
         /\ faults' \in 0..MaxFaults
         /\ raised' \subseteq Cards
  <1>1. raised \subseteq Cards
    BY DEF TypeOK
  <1>2. o \in Outcome(a, kind)
    BY DEF Exchange
  <1> QED BY <1>1, <1>2, OutcomeType DEF Exchange

LEMMA InfoType == ASSUME NEW a \in Cards, NEW o, o.ans \in Answer \cup {NoMsg}, IsInfo(o, a)
                  PROVE  o.ans.data \in AllTypes
  BY DEF IsInfo, Answer, NoMsg

\* The follow-up exchanges are with a card that is in cardData.
FollowCard == agent = "follow" => cardNo[curCard] # 0

LEMMA TypeInit == Init => TypeOK /\ FollowCard
  BY DEF Init, TypeOK, FollowCard, Slots, Row, Answer

LEMMA FollowCardNext == TypeOK /\ FollowCard /\ [Next]_vars => FollowCard'
  <1> SUFFICES ASSUME TypeOK, FollowCard, [Next]_vars, agent' = "follow"
               PROVE  cardNo'[curCard'] # 0
      BY DEF FollowCard
  <1> USE DEF TypeOK, FollowCard, shelfVars, cacheVars, tableVars, webVars, upVars,
              boundVars, histVars
  <1>1. CASE ProbeFound
    <2>1. NextCard \in Slots
      BY NextCardType
    <2>2. curCard' = NextCard /\ cardNo' = [cardNo EXCEPT ![NextCard] = Addr(NextCard)]
      BY <1>1 DEF ProbeFound, Advance
    <2>3. Addr(NextCard) # 0
      BY <2>1, AddrType, NotCards
    <2> QED BY <2>1, <2>2, <2>3
  <1>2. ASSUME agent = "follow", agent' = "follow", ~ProbeFound
        PROVE  UNCHANGED <<cardNo, curCard>>
    BY <1>2 DEF Next, Plug, Unplug, Raise, CardGet, Browser, Refresh, Reload, CheckUp,
           StartUp, SkipListed, ProbeMissed, ProbeNoDb, Advance, Follow, Announce,
           CheckAlarms, StartAlarms, SkipAbsent, PollAnswered, PollMissed, Remove,
           RemoveNoDb, EndChecks, Missed, AtSlot, vars
  <1>3. agent # "follow" => ProbeFound
    BY DEF Next, Plug, Unplug, Raise, CardGet, Browser, Refresh, Reload, CheckUp,
           StartUp, SkipListed, ProbeMissed, ProbeNoDb, Advance, Follow, Announce,
           CheckAlarms, StartAlarms, SkipAbsent, PollAnswered, PollMissed, Remove,
           RemoveNoDb, EndChecks, Missed, AtSlot, vars
  <1> QED BY <1>1, <1>2, <1>3

LEMMA TypeNext == TypeOK /\ FollowCard /\ [Next]_vars => TypeOK'
  <1> SUFFICES ASSUME TypeOK, FollowCard, [Next]_vars PROVE TypeOK'
      OBVIOUS
  <1> USE DEF TypeOK, shelfVars, cacheVars, tableVars, webVars, upVars, boundVars, histVars
  <1>a. NextCard \in Slots
    BY NextCardType
  <1>b. Addr(NextCard) \in Cards
    BY <1>a, AddrType
  <1>1. ASSUME NEW a \in Cards, NEW t \in Types, Plug(a, t) PROVE TypeOK'
    BY <1>1 DEF Plug
  <1>2. ASSUME NEW a \in Cards, Unplug(a) PROVE TypeOK'
    BY <1>2 DEF Unplug
  <1>3. ASSUME NEW a \in Cards, Raise(a) PROVE TypeOK'
    BY <1>3 DEF Raise
  <1>4. ASSUME NEW a \in Cards, CardGet(a) PROVE TypeOK'
    <2>1. PICK o \in Outcome(a, "info") :
            /\ Exchange(a, "info", o)
            /\ IF IsInfo(o, a) /\ a \in Slots
               THEN /\ cardNo' = [cardNo EXCEPT ![a] = a]
                    /\ cardType' = [cardType EXCEPT ![a] = o.ans.data]
                    /\ ghost' = IF cardNo[a] = 0 THEN 1 ELSE ghost
               ELSE UNCHANGED <<cardNo, cardType, ghost>>
      BY <1>4 DEF CardGet
    <2>2. /\ o.ans \in Answer \cup {NoMsg} /\ stray' \in Answer \cup {NoMsg}
          /\ faults' \in 0..MaxFaults /\ raised' \subseteq Cards
      BY <2>1, ExchangeType
    <2>3. /\ cardNo' \in [Slots -> Cards \cup {0}]
          /\ cardType' \in [Slots -> AllTypes \cup {"none"}]
          /\ ghost' \in {0, 1}
      BY <2>1, <2>2, InfoType
    <2> QED BY <1>4, <2>2, <2>3 DEF CardGet
  <1>5. CASE Refresh
    BY <1>5 DEF Refresh
  <1>6. CASE Reload
    BY <1>6 DEF Reload
  <1>7. CASE StartUp
    BY <1>7 DEF StartUp
  <1>8. CASE SkipListed
    BY <1>8, <1>a DEF SkipListed, Advance
  <1>9. CASE ProbeMissed
    <2>1. PICK o \in Outcome(Addr(NextCard), "info") : Exchange(Addr(NextCard), "info", o)
      BY <1>9 DEF ProbeMissed
    <2>2. /\ stray' \in Answer \cup {NoMsg}
          /\ faults' \in 0..MaxFaults /\ raised' \subseteq Cards
      BY <2>1, <1>b, ExchangeType
    <2> QED BY <1>9, <1>a, <2>2 DEF ProbeMissed, Advance
  <1>10. CASE ProbeFound
    <2> DEFINE a == Addr(NextCard)
    <2>1. PICK o \in Outcome(a, "info"), fail \in SUBSET {"row", "alarm"} :
            /\ Exchange(a, "info", o) /\ IsInfo(o, a)
            /\ busy + Cardinality(fail) <= MaxBusy
            /\ busy' = busy + Cardinality(fail)
            /\ rows' = IF "row" \in fail THEN rows
                       ELSE Inserted(rows, [no |-> a, type |-> o.ans.data])
            /\ balance' = IF "alarm" \in fail THEN balance
                          ELSE [balance EXCEPT ![a] = @ + 1]
            /\ cardNo' = [cardNo EXCEPT ![NextCard] = a]
            /\ cardType' = [cardType EXCEPT ![NextCard] = o.ans.data]
            /\ conf' = IF o.ans.data \in {"FE8", "EPN"} THEN conf ELSE conf \ {NextCard}
            /\ todo' = FollowUps(o.ans.data, NextCard)
      BY <1>10 DEF ProbeFound
    <2>2. /\ o.ans \in Answer \cup {NoMsg} /\ stray' \in Answer \cup {NoMsg}
          /\ faults' \in 0..MaxFaults /\ raised' \subseteq Cards
      BY <2>1, <1>b, ExchangeType
    <2>3. o.ans.data \in AllTypes
      BY <2>1, <2>2, <1>b, InfoType
    <2>4. rows' \subseteq Row
      BY <2>1, <2>3, <1>b DEF Inserted, Row
    <2>5. balance' \in [Cards -> Int]
      BY <2>1, <1>b
    <2>6. busy' \in 0..MaxBusy
      BY <2>1, FailCount
    <2>7. /\ cardNo' \in [Slots -> Cards \cup {0}]
          /\ cardType' \in [Slots -> AllTypes \cup {"none"}]
          /\ conf' \subseteq Slots
      BY <2>1, <2>3, <1>a, <1>b
    <2>8. todo' \in 0..2
      BY <2>1, <2>3 DEF FollowUps
    <2> QED BY <1>10, <1>a, <2>2, <2>4, <2>5, <2>6, <2>7, <2>8 DEF ProbeFound, Advance
  <1>11. CASE ProbeNoDb
    <2>1. PICK o \in Outcome(Addr(NextCard), "info") :
            /\ Exchange(Addr(NextCard), "info", o) /\ IsInfo(o, Addr(NextCard))
            /\ IF NextCard = Ctrl THEN UNCHANGED <<cardNo, cardType>>
               ELSE /\ cardNo' = [cardNo EXCEPT ![NextCard] = NextCard]
                    /\ cardType' = [cardType EXCEPT ![NextCard] = o.ans.data]
      BY <1>11 DEF ProbeNoDb
    <2>2. /\ o.ans \in Answer \cup {NoMsg} /\ stray' \in Answer \cup {NoMsg}
          /\ faults' \in 0..MaxFaults /\ raised' \subseteq Cards
      BY <2>1, <1>b, ExchangeType
    <2>3. o.ans.data \in AllTypes
      BY <2>1, <2>2, <1>b, InfoType
    <2>4. NextCard # Ctrl => NextCard \in Cards
      BY <1>b DEF Addr
    <2>5. /\ cardNo' \in [Slots -> Cards \cup {0}]
          /\ cardType' \in [Slots -> AllTypes \cup {"none"}]
      BY <2>1, <2>3, <2>4, <1>a
    <2> QED BY <1>11, <1>a, <2>2, <2>5 DEF ProbeNoDb, Advance
  <1>12. CASE Follow
    <2> DEFINE a == cardNo[curCard]
    <2>1. PICK o \in Outcome(a, "other") :
            /\ Exchange(a, "other", o)
            /\ running' = IF /\ cardType[curCard] = "FE8"
                             /\ card[a] = "FE8"
                             /\ o.ans.kind # "error"
                          THEN running \cup {a} ELSE running
            /\ todo' = IF cardType[curCard] # "EPN" THEN todo - 1
                       ELSE IF o.ans = NoMsg THEN todo
                       ELSE IF o.ans.kind \in {"other", "error"} THEN todo - 1
                       ELSE 0
      BY <1>12 DEF Follow
    <2>2. a \in Cards
      BY <1>12 DEF Follow, FollowCard
    <2>3. todo' \in 0..2
      BY <1>12, <2>1 DEF Follow
    <2>4. running' \subseteq Cards
      BY <2>1, <2>2
    <2>5. /\ stray' \in Answer \cup {NoMsg}
          /\ faults' \in 0..MaxFaults /\ raised' \subseteq Cards
      BY <2>1, <2>2, ExchangeType
    <2> QED BY <1>12, <2>3, <2>4, <2>5 DEF Follow
  <1>13. CASE Announce
    BY <1>13 DEF Announce
  <1>14. CASE StartAlarms
    BY <1>14 DEF StartAlarms
  <1>15. CASE SkipAbsent
    BY <1>15 DEF SkipAbsent, AtSlot
  <1>16. CASE PollAnswered
    <2>1. cardNo[pos] \in Cards /\ pos \in Slots
      BY <1>16 DEF PollAnswered, AtSlot, Slots
    <2>2. PICK o \in Outcome(cardNo[pos], "alarms") :
            /\ Exchange(cardNo[pos], "alarms", o)
            /\ log' = IF o.ans.kind = "alarms" /\ o.ans.data = "alarm"
                      THEN Filed(o, pos) ELSE log
      BY <1>16 DEF PollAnswered
    <2>3. /\ o.ans \in Answer \cup {NoMsg} /\ stray' \in Answer \cup {NoMsg}
          /\ faults' \in 0..MaxFaults /\ raised' \subseteq Cards
      BY <2>1, <2>2, ExchangeType
    <2>4. log' \subseteq Cards \X Slots
      <3>1. o.ans.kind = "alarms" => o.ans.from \in Cards
        BY <2>3 DEF Answer, NoMsg
      <3> QED BY <3>1, <2>1, <2>2 DEF Filed
    <2>5. toCount' \in [Slots -> Nat] /\ pos' \in 1..NumSlots+1
      BY <1>16, <2>1 DEF PollAnswered, AtSlot
    <2> QED BY <1>16, <2>3, <2>4, <2>5 DEF PollAnswered
  <1>17. Missed => /\ cardNo[pos] \in Cards /\ pos \in Slots
                   /\ stray' \in Answer \cup {NoMsg}
                   /\ faults' \in 0..MaxFaults /\ raised' \subseteq Cards
    <2> SUFFICES ASSUME Missed PROVE /\ cardNo[pos] \in Cards /\ pos \in Slots
                                     /\ stray' \in Answer \cup {NoMsg}
                                     /\ faults' \in 0..MaxFaults /\ raised' \subseteq Cards
      OBVIOUS
    <2>1. cardNo[pos] \in Cards /\ pos \in Slots
      BY DEF Missed, AtSlot, Slots
    <2>2. PICK o \in Outcome(cardNo[pos], "alarms") : Exchange(cardNo[pos], "alarms", o)
      BY DEF Missed
    <2> QED BY <2>1, <2>2, ExchangeType
  <1>18. CASE PollMissed
    <2>1. toCount' \in [Slots -> Nat] /\ pos' \in 1..NumSlots+1
      BY <1>17, <1>18 DEF PollMissed, Slots
    <2> QED BY <1>17, <1>18, <2>1 DEF PollMissed
  <1>19. CASE Remove
    <2>1. PICK fail \in SUBSET {"row", "alarm"} :
            /\ busy + Cardinality(fail) <= MaxBusy
            /\ busy' = busy + Cardinality(fail)
            /\ rows' = IF "row" \in fail THEN rows ELSE Without(rows, cardNo[pos])
            /\ balance' = IF "alarm" \in fail THEN balance
                          ELSE [balance EXCEPT ![cardNo[pos]] = @ - 1]
      BY <1>19 DEF Remove
    <2>2. cardNo[pos] \in Cards /\ pos \in Slots
      BY <1>17, <1>19 DEF Remove
    <2>3. busy' \in 0..MaxBusy
      BY <2>1, FailCount
    <2>4. rows' \subseteq Row /\ balance' \in [Cards -> Int]
      BY <2>1, <2>2 DEF Without
    <2>5. /\ cardNo' \in [Slots -> Cards \cup {0}]
          /\ cardType' \in [Slots -> AllTypes \cup {"none"}]
          /\ toCount' \in [Slots -> Nat] /\ pos' \in 1..NumSlots+1
      BY <1>19, <2>2 DEF Remove, Slots
    <2> QED BY <1>17, <1>19, <2>3, <2>4, <2>5 DEF Remove
  <1>20. CASE RemoveNoDb
    <2>1. toCount' \in [Slots -> Nat] /\ pos' \in 1..NumSlots+1
      BY <1>17, <1>20 DEF RemoveNoDb, Slots
    <2> QED BY <1>17, <1>20, <2>1 DEF RemoveNoDb
  <1>21. CASE EndChecks
    BY <1>21 DEF EndChecks
  <1>22. CASE UNCHANGED vars
    BY <1>22 DEF vars
  <1> QED BY <1>1, <1>2, <1>3, <1>4, <1>5, <1>6, <1>7, <1>8, <1>9, <1>10, <1>11,
             <1>12, <1>13, <1>14, <1>15, <1>16, <1>18, <1>19, <1>20, <1>21, <1>22
          DEF Next, Browser, CheckUp, CheckAlarms

\* Every variable keeps its type: the position of either check stays within
\* the slots, and cardData only ever holds numbers of cards.
THEOREM TypeCorrect == Spec => []TypeOK
  <1>1. TypeOK /\ FollowCard /\ [Next]_vars => (TypeOK /\ FollowCard)'
    BY TypeNext, FollowCardNext
  <1> QED BY TypeInit, <1>1, PTL DEF Spec
----------------------------------------------------------------------------
(* cardData, the table and the alarms. *)

\* A slot holds no card but the one that answers at its address.
OwnAddress == \A s \in Slots : cardNo[s] \in {0, Addr(s)}

IInv == TypeOK /\ FollowCard /\ OwnAddress /\ Listing /\ AlarmsMatchTable

LEMMA IInvInit == Init => IInv
  <1> SUFFICES ASSUME Init PROVE IInv
      OBVIOUS
  <1>1. TypeOK /\ FollowCard
    BY TypeInit
  <1>2. Listed = {} /\ Numbers(rows) = {Ctrl}
    BY DEF Init, Listed, Numbers, CtrlRow
  <1>3. OwnAddress
    BY DEF Init, OwnAddress
  <1>4. AlarmsMatchTable
    BY <1>2, NotCards DEF AlarmsMatchTable, Init
  <1> QED BY <1>1, <1>2, <1>3, <1>4 DEF IInv, Listing

\* What CardGet leaves of cardData: changed at most where it was in place.
LEMMA CardGetKeeps ==
  ASSUME IInv, NEW a \in Cards, CardGet(a)
  PROVE  /\ OwnAddress'
         /\ ghost' = 0 => ghost = 0 /\ cardNo' = cardNo
         /\ UNCHANGED <<rows, balance, busy>>
  <1>1. PICK o \in Outcome(a, "info") :
          IF IsInfo(o, a) /\ a \in Slots
          THEN /\ cardNo' = [cardNo EXCEPT ![a] = a]
               /\ ghost' = IF cardNo[a] = 0 THEN 1 ELSE ghost
          ELSE UNCHANGED <<cardNo, ghost>>
    BY DEF CardGet
  <1>2. a \in Slots => Addr(a) = a
    BY NotCards DEF Addr
  <1>3. cardNo \in [Slots -> Cards \cup {0}] /\ OwnAddress /\ ghost \in {0, 1}
    BY DEF IInv, TypeOK
  <1>4. OwnAddress'
    BY <1>1, <1>2, <1>3 DEF OwnAddress
  <1>5. ghost' = 0 => ghost = 0 /\ cardNo' = cardNo
    <2> SUFFICES ASSUME ghost' = 0 PROVE ghost = 0 /\ cardNo' = cardNo
        OBVIOUS
    <2>1. CASE IsInfo(o, a) /\ a \in Slots
      <3>1. cardNo[a] # 0
        BY <1>1, <2>1
      <3>2. cardNo[a] = a
        BY <3>1, <2>1, <1>2, <1>3 DEF OwnAddress
      <3> QED BY <3>1, <3>2, <1>1, <1>3, <2>1
    <2>2. CASE ~(IsInfo(o, a) /\ a \in Slots)
      BY <1>1, <2>2
    <2> QED BY <2>1, <2>2
  <1> QED BY <1>4, <1>5 DEF CardGet, tableVars

\* A card that has just answered and was not there.
LEMMA ProbeFoundKeeps ==
  ASSUME IInv, ProbeFound
  PROVE  (OwnAddress /\ Listing /\ AlarmsMatchTable)'
  <1> DEFINE a == Addr(NextCard)
  <1>1. PICK o \in Outcome(a, "info"), fail \in SUBSET {"row", "alarm"} :
          /\ busy' = busy + Cardinality(fail)
          /\ rows' = IF "row" \in fail THEN rows
                     ELSE Inserted(rows, [no |-> a, type |-> o.ans.data])
          /\ balance' = IF "alarm" \in fail THEN balance
                        ELSE [balance EXCEPT ![a] = @ + 1]
          /\ cardNo' = [cardNo EXCEPT ![NextCard] = a]
    BY DEF ProbeFound
  <1>2. ghost' = ghost /\ cardNo[NextCard] = 0
    BY DEF ProbeFound, histVars
  <1>3. /\ cardNo \in [Slots -> Cards \cup {0}] /\ balance \in [Cards -> Int]
        /\ busy \in Nat /\ NextCard \in Slots /\ a \in Cards
    BY NextCardType, AddrType DEF IInv, TypeOK
  <1> HIDE DEF a
  <1>4. OwnAddress'
    BY <1>1, <1>3 DEF IInv, OwnAddress, a
  <1> SUFFICES ASSUME Clean' PROVE (Listing /\ AlarmsMatchTable)'
      BY <1>4 DEF Listing, AlarmsMatchTable
  <1>5. Clean /\ fail = {}
    BY <1>1, <1>2, <1>3, FailCount DEF Clean
  <1>6. a \notin Listed
    <2> SUFFICES ASSUME NEW s \in Slots, cardNo[s] = a, a # 0 PROVE FALSE
        BY DEF Listed
    <2>1. Addr(s) = Addr(NextCard)
      BY <1>3 DEF IInv, OwnAddress, a
    <2>2. s = NextCard
      BY <2>1, <1>3, AddrInjective
    <2> QED BY <2>2, <1>2
  <1>7. a # Ctrl /\ a # 0
    BY <1>3, NotCards
  <1>8. Numbers(rows) = {Ctrl} \cup Listed
    BY <1>5 DEF IInv, Listing
  <1>9. Listed' = Listed \cup {a}
    <2>1. \A s \in Slots : cardNo'[s] = IF s = NextCard THEN a ELSE cardNo[s]
      BY <1>1, <1>3
    <2>2. \A x : x \in Listed <=> x # 0 /\ \E s \in Slots : cardNo[s] = x
      BY DEF Listed
    <2>3. \A x : x \in Listed' <=> x # 0 /\ \E s \in Slots : cardNo'[s] = x
      BY DEF Listed
    <2>4. a \in Listed'
      BY <2>1, <2>3, <1>3, <1>7
    <2>5. ASSUME NEW x \in Listed PROVE x \in Listed'
      <3>1. PICK s \in Slots : cardNo[s] = x
        BY <2>2
      <3>2. x # 0 /\ s # NextCard
        BY <2>2, <3>1, <1>2
      <3> QED BY <2>1, <2>3, <3>1, <3>2
    <2>6. ASSUME NEW x \in Listed', x # a PROVE x \in Listed
      BY <2>1, <2>2, <2>3, <2>6
    <2> QED BY <2>4, <2>5, <2>6
  <1>10. Numbers(rows') = Numbers(rows) \cup {a}
    <2> DEFINE r == [no |-> a, type |-> o.ans.data]
    <2>1. a \notin Numbers(rows) /\ r.no = a
      BY <1>6, <1>7, <1>8
    <2>2. rows' = Inserted(rows, r)
      BY <1>1, <1>5
    <2> HIDE DEF r
    <2>3. rows' = rows \cup {r}
      BY <2>1, <2>2 DEF Inserted
    <2> QED BY <2>1, <2>3 DEF Numbers
  <1>11. Listing'
    BY <1>8, <1>9, <1>10 DEF Listing, Numbers
  <1>12. balance' = [balance EXCEPT ![a] = @ + 1]
    BY <1>1, <1>5
  <1>13. \A c \in Cards : balance[c] = IF c \in Numbers(rows) THEN 1 ELSE 0
    BY <1>5 DEF IInv, AlarmsMatchTable
  <1>14. \A c \in Cards : balance'[c] = IF c \in Numbers(rows') THEN 1 ELSE 0
    BY <1>3, <1>6, <1>7, <1>8, <1>10, <1>12, <1>13
  <1>15. AlarmsMatchTable'
    BY <1>14 DEF AlarmsMatchTable, Numbers
  <1> QED BY <1>11, <1>15

\* A card that has missed its polls.
LEMMA RemoveKeeps ==
  ASSUME IInv, Remove
  PROVE  (OwnAddress /\ Listing /\ AlarmsMatchTable)'
  <1> DEFINE a == cardNo[pos]
  <1>1. PICK fail \in SUBSET {"row", "alarm"} :
          /\ busy' = busy + Cardinality(fail)
          /\ rows' = IF "row" \in fail THEN rows ELSE Without(rows, a)
          /\ balance' = IF "alarm" \in fail THEN balance
                        ELSE [balance EXCEPT ![a] = @ - 1]
    BY DEF Remove
  <1>2. ghost' = ghost /\ cardNo' = [cardNo EXCEPT ![pos] = 0]
    BY DEF Remove, histVars
  <1>3. /\ cardNo \in [Slots -> Cards \cup {0}] /\ balance \in [Cards -> Int]
        /\ busy \in Nat /\ pos \in Slots /\ a \in Cards
    BY DEF IInv, TypeOK, Remove, Missed, AtSlot, Slots
  <1>4. OwnAddress'
    BY <1>2, <1>3 DEF IInv, OwnAddress
  <1> SUFFICES ASSUME Clean' PROVE (Listing /\ AlarmsMatchTable)'
      BY <1>4 DEF Listing, AlarmsMatchTable
  <1>5. Clean /\ fail = {}
    BY <1>1, <1>2, <1>3, FailCount DEF Clean
  <1>6. a # Ctrl /\ a # 0
    BY <1>3, NotCards
  <1>7. \A s \in Slots : cardNo[s] = a => s = pos
    <2> SUFFICES ASSUME NEW s \in Slots, cardNo[s] = a PROVE s = pos
        OBVIOUS
    <2>1. Addr(s) = Addr(pos)
      BY <1>3, <1>6 DEF IInv, OwnAddress
    <2> QED BY <2>1, <1>3, AddrInjective
  <1>8. Numbers(rows) = {Ctrl} \cup Listed
    BY <1>5 DEF IInv, Listing
  <1> HIDE DEF a
  <1>9. Listed' = Listed \ {a}
    BY <1>2, <1>3, <1>6, <1>7 DEF Listed, a
  <1>10. Numbers(rows') = Numbers(rows) \ {a}
    <2>1. rows' = {r \in rows : r.no # a}
      BY <1>1, <1>5 DEF Without
    <2> QED BY <2>1 DEF Numbers
  <1>11. Listing'
    BY <1>6, <1>8, <1>9, <1>10 DEF Listing, Numbers
  <1>12. balance' = [balance EXCEPT ![a] = @ - 1]
    BY <1>1, <1>5
  <1>13. a \in Numbers(rows)
    BY <1>3, <1>6, <1>8 DEF Listed, a
  <1>14. \A c \in Cards : balance[c] = IF c \in Numbers(rows) THEN 1 ELSE 0
    BY <1>5 DEF IInv, AlarmsMatchTable
  <1>15. \A c \in Cards : balance'[c] = IF c \in Numbers(rows') THEN 1 ELSE 0
    BY <1>3, <1>10, <1>12, <1>13, <1>14
  <1>16. AlarmsMatchTable'
    BY <1>15 DEF AlarmsMatchTable, Numbers
  <1> QED BY <1>11, <1>16

LEMMA IInvNext == IInv /\ [Next]_vars => IInv'
  <1> SUFFICES ASSUME IInv, [Next]_vars PROVE IInv'
      OBVIOUS
  <1>1. TypeOK' /\ FollowCard'
    BY TypeNext, FollowCardNext DEF IInv
  <1>2. ASSUME NEW a \in Cards, CardGet(a) PROVE (OwnAddress /\ Listing /\ AlarmsMatchTable)'
    <2>1. OwnAddress' /\ UNCHANGED <<rows, balance>> /\ (Clean' => Clean /\ cardNo' = cardNo)
      BY <1>2, CardGetKeeps DEF Clean
    <2>2. Listing' /\ AlarmsMatchTable'
      BY <2>1 DEF IInv, Listing, AlarmsMatchTable, Listed, Numbers
    <2> QED BY <2>1, <2>2
  <1>3. CASE ProbeFound
    BY <1>3, ProbeFoundKeeps, <1>1 DEF IInv
  <1>4. CASE Remove
    BY <1>4, RemoveKeeps, <1>1 DEF IInv
  <1>5. CASE ProbeNoDb
    <2>1. PICK o : IF NextCard = Ctrl THEN UNCHANGED cardNo
                   ELSE cardNo' = [cardNo EXCEPT ![NextCard] = NextCard]
      BY <1>5 DEF ProbeNoDb
    <2>2. OwnAddress /\ cardNo \in [Slots -> Cards \cup {0}]
      BY DEF IInv, TypeOK
    <2>3. OwnAddress'
      BY <2>1, <2>2 DEF OwnAddress, Addr
    <2>4. ~Clean'
      BY <1>5 DEF ProbeNoDb, IInv, TypeOK, Clean
    <2>5. Listing' /\ AlarmsMatchTable'
      BY <2>4 DEF Listing, AlarmsMatchTable
    <2> QED BY <2>3, <2>5, <1>1 DEF IInv
  <1>6. CASE RemoveNoDb
    <2>1. ~Clean'
      BY <1>6 DEF RemoveNoDb, IInv, TypeOK, Clean
    <2>2. OwnAddress'
      BY <1>6 DEF RemoveNoDb, IInv, OwnAddress
    <2>3. Listing' /\ AlarmsMatchTable'
      BY <2>1 DEF Listing, AlarmsMatchTable
    <2> QED BY <2>2, <2>3, <1>1 DEF IInv
  <1>7. ASSUME UNCHANGED <<cardNo, rows, balance, busy, ghost>>
        PROVE  (OwnAddress /\ Listing /\ AlarmsMatchTable)'
    BY <1>7 DEF IInv, OwnAddress, Listing, AlarmsMatchTable, Clean, Listed, Numbers
  <1>8. \/ \E a \in Cards : CardGet(a)
        \/ ProbeFound \/ Remove \/ ProbeNoDb \/ RemoveNoDb
        \/ UNCHANGED <<cardNo, rows, balance, busy, ghost>>
    BY DEF Next, Plug, Unplug, Raise, Browser, Refresh, Reload, CheckUp,
           StartUp, SkipListed, ProbeMissed, Follow, Announce,
           CheckAlarms, StartAlarms, SkipAbsent, PollAnswered, PollMissed,
           EndChecks, vars, shelfVars, cacheVars, tableVars, webVars, upVars,
           boundVars, histVars
  <1> QED BY <1>1, <1>2, <1>3, <1>4, <1>5, <1>6, <1>7, <1>8 DEF IInv

\* As long as the database works and no page asks for an unlisted card,
\* cardData and the table name the same cards, whatever cards come and go and
\* whatever the bus loses, delays or swaps.
THEOREM ListingHolds == Spec => []Listing
  <1>1. IInv => Listing
    BY DEF IInv
  <1> QED BY IInvInit, IInvNext, <1>1, PTL DEF Spec

\* Under the same conditions ONLINE and OFFLINE alarms of every card alternate
\* and agree with the table.
THEOREM AlarmsMatchTableHolds == Spec => []AlarmsMatchTable
  <1>1. IInv => AlarmsMatchTable
    BY DEF IInv
  <1> QED BY IInvInit, IInvNext, <1>1, PTL DEF Spec

----------------------------------------------------------------------------
(* The page. *)

\* A page with no refresh outstanding shows the table, even if the database
\* fails or cards slip into cardData unlisted.
THEOREM PageFreshHolds == Spec => []PageFresh
  <1>1. Init => PageFresh
    BY DEF Init, PageFresh
  <1>2. PageFresh /\ [Next]_vars => PageFresh'
    <2> SUFFICES ASSUME PageFresh, [Next]_vars PROVE PageFresh'
        OBVIOUS
    <2>1. CASE ProbeFound
      BY <2>1 DEF ProbeFound, PageFresh
    <2>2. CASE Announce
      BY <2>2 DEF Announce, PageFresh
    <2>3. CASE Remove
      BY <2>3 DEF Remove, PageFresh
    <2>4. CASE Refresh
      BY <2>4 DEF Refresh, PageFresh
    <2>5. CASE Reload
      BY <2>5 DEF Reload, PageFresh, tableVars
    <2>6. ASSUME UNCHANGED <<rows, shown, dirty, reload>>,
                 agent = "follow" => agent' = "follow"
          PROVE  PageFresh'
      BY <2>6 DEF PageFresh
    <2>7. \/ ProbeFound \/ Announce \/ Remove \/ Refresh \/ Reload
          \/ /\ UNCHANGED <<rows, shown, dirty, reload>>
             /\ agent = "follow" => agent' = "follow"
      BY DEF Next, Plug, Unplug, Raise, CardGet, Browser, CheckUp,
             StartUp, SkipListed, ProbeMissed, ProbeNoDb, Advance, Follow,
             CheckAlarms, StartAlarms, SkipAbsent, PollAnswered, PollMissed,
             RemoveNoDb, EndChecks, Missed, AtSlot, vars, tableVars, webVars
    <2> QED BY <2>1, <2>2, <2>3, <2>4, <2>5, <2>6, <2>7
  <1> QED BY <1>1, <1>2, PTL DEF Spec

----------------------------------------------------------------------------
(* The bus, the types, the alarms of a card, and the polls it misses. *)

\* What a requester gets, and what it costs.
LEMMA OutcomeFacts ==
  ASSUME faults \in Nat, NEW a \in Cards, NEW kind \in {"info", "alarms", "other"},
         NEW o \in Outcome(a, kind)
  PROVE  /\ o.faults \in {faults, faults + 1}
         /\ o.left = NoMsg \/ (Present(a) /\ o.left = Reply(a, kind))
         /\ o.faults = 0 /\ stray = NoMsg =>
              o.left = NoMsg /\ (o.ans = NoMsg \/ o.ans = Reply(a, kind))
         /\ o.ans = NoMsg /\ Present(a) => o.faults = faults + 1
         /\ o.ans.kind = "info" => o.ans = stray \/ (Present(a) /\ o.ans = Reply(a, kind))
  <1>1. NoMsg.kind = "none" /\ Reply(a, kind).kind = kind
    BY DEF NoMsg, Reply
  <1>2. CASE o = [ans |-> IF Present(a) THEN Reply(a, kind) ELSE NoMsg,
                  left |-> NoMsg, faults |-> faults]
    BY <1>1, <1>2
  <1>3. ASSUME NEW f, Present(a), f = faults + 1,
               o = [ans |-> NoMsg, left |-> Reply(a, kind), faults |-> f]
        PROVE  /\ o.faults = faults + 1 /\ o.ans = NoMsg /\ o.left = Reply(a, kind)
    BY <1>3
  <1>4. ASSUME NEW f, Present(a), f = faults + 1,
               o = [ans |-> [from |-> a, kind |-> "error", data |-> "ok"],
                    left |-> NoMsg, faults |-> f]
        PROVE  /\ o.faults = faults + 1 /\ o.ans.kind = "error" /\ o.left = NoMsg
    BY <1>4
  <1>5. ASSUME NEW m, stray # NoMsg, m = NoMsg \/ (Present(a) /\ m = Reply(a, kind)),
               o = [ans |-> stray, left |-> m, faults |-> faults]
        PROVE  /\ o.faults = faults /\ o.ans = stray /\ o.left = m
    BY <1>5
  <1>6. \/ o = [ans |-> IF Present(a) THEN Reply(a, kind) ELSE NoMsg,
                left |-> NoMsg, faults |-> faults]
        \/ \E f : /\ Present(a) /\ f = faults + 1
                  /\ o = [ans |-> NoMsg, left |-> Reply(a, kind), faults |-> f]
        \/ \E f : /\ Present(a) /\ f = faults + 1
                  /\ o = [ans |-> [from |-> a, kind |-> "error", data |-> "ok"],
                          left |-> NoMsg, faults |-> f]
        \/ \E m : /\ stray # NoMsg /\ (m = NoMsg \/ (Present(a) /\ m = Reply(a, kind)))
                  /\ o = [ans |-> stray, left |-> m, faults |-> faults]
    BY DEF Outcome
  <1>7. ASSUME o.faults = faults + 1, o.ans = NoMsg, o.left = Reply(a, kind), Present(a)
        PROVE  /\ o.faults \in {faults, faults + 1} /\ o.faults # 0 /\ o.ans.kind # "info"
    BY <1>1, <1>7
  <1>8. CASE \E f : /\ Present(a) /\ f = faults + 1
                    /\ o = [ans |-> NoMsg, left |-> Reply(a, kind), faults |-> f]
    <2>1. o.faults = faults + 1 /\ o.ans = NoMsg /\ o.left = Reply(a, kind) /\ Present(a)
      BY <1>3, <1>8
    <2> QED BY <2>1, <1>7
  <1>9. CASE \E f : /\ Present(a) /\ f = faults + 1
                    /\ o = [ans |-> [from |-> a, kind |-> "error", data |-> "ok"],
                            left |-> NoMsg, faults |-> f]
    <2>1. o.faults = faults + 1 /\ o.ans.kind = "error" /\ o.left = NoMsg /\ Present(a)
      BY <1>4, <1>9
    <2> QED BY <2>1, <1>1
  <1>10. CASE \E m : /\ stray # NoMsg /\ (m = NoMsg \/ (Present(a) /\ m = Reply(a, kind)))
                     /\ o = [ans |-> stray, left |-> m, faults |-> faults]
    <2>1. PICK m : /\ stray # NoMsg /\ (m = NoMsg \/ (Present(a) /\ m = Reply(a, kind)))
                   /\ o = [ans |-> stray, left |-> m, faults |-> faults]
      BY <1>10
    <2>2. o.faults = faults /\ o.ans = stray /\ o.left = m
      BY <2>1, <1>5
    <2> QED BY <2>1, <2>2
  <1> QED BY <1>2, <1>6, <1>8, <1>9, <1>10

\* What is still on the bus took a fault, and says what card it is from.
BusTrue ==
  /\ faults = 0 => stray = NoMsg
  /\ stray.kind = "info" => card[stray.from] \in {"none", stray.data}

\* A card that has missed a poll while it was there was not heard, or was put
\* there unnoticed.
MissesTrue ==
  \A s \in Slots :
    /\ cardNo[s] = 0 => toCount[s] = 0
    /\ cardNo[s] # 0 /\ Present(cardNo[s]) /\ toCount[s] > 0 => faults >= 1 \/ unnoticed = 1

LEMMA ExchangeKeepsBus ==
  ASSUME TypeOK, BusTrue, NEW a \in Cards, NEW kind \in {"info", "alarms", "other"}, NEW o,
         Exchange(a, kind, o), UNCHANGED card
  PROVE  BusTrue' /\ faults' \in {faults, faults + 1} /\ faults' = o.faults
  <1>1. o \in Outcome(a, kind) /\ stray' = o.left /\ faults' = o.faults
    BY DEF Exchange
  <1>2. faults \in Nat
    BY DEF TypeOK
  <1>3. /\ o.faults \in {faults, faults + 1}
        /\ o.left = NoMsg \/ (Present(a) /\ o.left = Reply(a, kind))
        /\ o.faults = 0 /\ stray = NoMsg => o.left = NoMsg
    BY <1>1, <1>2, OutcomeFacts
  <1>4. faults' = 0 => stray' = NoMsg
    BY <1>1, <1>2, <1>3 DEF BusTrue
  <1>5. ASSUME stray'.kind = "info" PROVE card'[stray'.from] = stray'.data
    <2>1. NoMsg.kind = "none" /\ Reply(a, kind).kind = kind /\ Reply(a, kind).from = a
      BY DEF NoMsg, Reply
    <2>2. stray' = Reply(a, kind)
      BY <1>1, <1>3, <1>5, <2>1
    <2>3. kind = "info"
      BY <1>5, <2>1, <2>2
    <2>4. Reply(a, kind).data = card[a]
      BY <2>3 DEF Reply
    <2> QED BY <2>1, <2>2, <2>4
  <1> QED BY <1>1, <1>3, <1>4, <1>5 DEF BusTrue

\* The steps that use the bus, and what else changes cards or bus.
LEMMA BusSteps ==
  ASSUME TypeOK, FollowCard, [Next]_vars
  PROVE  \/ \E a \in Cards, kind \in {"info", "alarms", "other"} :
              \E o : Exchange(a, kind, o) /\ UNCHANGED card
         \/ \E a \in Cards, t \in Types : Plug(a, t)
         \/ \E a \in Cards : Unplug(a)
         \/ EndChecks
         \/ UNCHANGED <<card, stray, faults>>
  <1> USE DEF shelfVars, boundVars
  <1>1. Addr(NextCard) \in Cards
    BY NextCardType, AddrType DEF TypeOK
  <1>2. agent = "follow" => cardNo[curCard] \in Cards
    BY DEF TypeOK, FollowCard
  <1>3. AtSlot /\ cardNo[pos] \notin {0, Ctrl} => cardNo[pos] \in Cards
    BY DEF TypeOK, AtSlot, Slots
  <1>4. ASSUME NEW a \in Cards, CardGet(a)
        PROVE  \E o : Exchange(a, "info", o) /\ UNCHANGED card
    BY <1>4 DEF CardGet
  <1>5. ProbeMissed \/ ProbeFound \/ ProbeNoDb =>
          \E o : Exchange(Addr(NextCard), "info", o) /\ UNCHANGED card
    BY DEF ProbeMissed, ProbeFound, ProbeNoDb
  <1>6. Follow => \E o : Exchange(cardNo[curCard], "other", o) /\ UNCHANGED card
    BY DEF Follow
  <1>7. PollAnswered \/ PollMissed \/ Remove \/ RemoveNoDb =>
          \E o : Exchange(cardNo[pos], "alarms", o) /\ UNCHANGED card
    BY DEF PollAnswered, PollMissed, Remove, RemoveNoDb, Missed
  <1>8. /\ Follow => agent = "follow"
        /\ PollAnswered \/ PollMissed \/ Remove \/ RemoveNoDb =>
             AtSlot /\ cardNo[pos] \notin {0, Ctrl}
    BY DEF Follow, PollAnswered, PollMissed, Remove, RemoveNoDb, Missed
  <1>9. \/ \E a \in Cards, t \in Types : Plug(a, t)
        \/ \E a \in Cards : Unplug(a) \/ CardGet(a)
        \/ ProbeMissed \/ ProbeFound \/ ProbeNoDb \/ Follow
        \/ PollAnswered \/ PollMissed \/ Remove \/ RemoveNoDb \/ EndChecks
        \/ UNCHANGED <<card, stray, faults>>
    BY DEF Next, Raise, Browser, Refresh, Reload, CheckUp, StartUp, SkipListed, Announce,
           CheckAlarms, StartAlarms, SkipAbsent, vars
  <1> QED BY <1>1, <1>2, <1>3, <1>4, <1>5, <1>6, <1>7, <1>8, <1>9

LEMMA BusNext == TypeOK /\ FollowCard /\ BusTrue /\ [Next]_vars =>
                   BusTrue' /\ faults' \in {faults, faults + 1}
  <1> SUFFICES ASSUME TypeOK, FollowCard, BusTrue, [Next]_vars
               PROVE  BusTrue' /\ faults' \in {faults, faults + 1}
      OBVIOUS
  <1>1. ASSUME NEW a \in Cards, NEW t \in Types, Plug(a, t)
        PROVE  BusTrue' /\ faults' = faults
    BY <1>1 DEF Plug, BusTrue, NoMsg
  <1>2. ASSUME NEW a \in Cards, Unplug(a) PROVE BusTrue' /\ faults' = faults
    <2>1. card \in [Cards -> AllTypes \cup {"none"}] /\ stray \in Answer \cup {NoMsg}
      BY DEF TypeOK
    <2>2. stray.kind = "info" => stray.from \in Cards
      BY <2>1 DEF Answer, NoMsg
    <2>3. card' = [card EXCEPT ![a] = "none"] /\ UNCHANGED <<stray, faults>>
      BY <1>2 DEF Unplug, boundVars
    <2> QED BY <2>1, <2>2, <2>3 DEF BusTrue
  <1>3. CASE EndChecks
    BY <1>3 DEF EndChecks, BusTrue, NoMsg, boundVars, shelfVars
  <1>4. CASE UNCHANGED <<card, stray, faults>>
    BY <1>4 DEF BusTrue
  <1> QED BY <1>1, <1>2, <1>3, <1>4, BusSteps, ExchangeKeepsBus

----------------------------------------------------------------------------

\* An alarm is filed under the slot of the card that was asked.
LEMMA RightCardNext ==
  ASSUME TypeOK, OwnAddress, BusTrue, RightCard, [Next]_vars, faults' \in {faults, faults + 1}
  PROVE  RightCard'
  <1> SUFFICES ASSUME faults' = 0, RightCard PROVE \A e \in log' : SlotOf(e[1]) = e[2]
      BY DEF RightCard
  <1>1. faults = 0 /\ stray = NoMsg /\ \A e \in log : SlotOf(e[1]) = e[2]
    BY DEF TypeOK, BusTrue, RightCard
  <1>2. CASE PollAnswered
    <2> DEFINE a == cardNo[pos]
    <2>1. PICK o \in Outcome(a, "alarms") :
            /\ o.faults = 0 /\ o.ans # NoMsg
            /\ log' = log \/ log' = log \cup {<<o.ans.from, pos>>}
      BY <1>2 DEF PollAnswered, Exchange, Filed
    <2>2. pos \in Slots /\ a \in Cards /\ a # 0
      BY <1>2, NotCards DEF PollAnswered, AtSlot, TypeOK, Slots
    <2>3. a = Addr(pos)
      BY <2>2 DEF OwnAddress
    <2>4. o.ans = Reply(a, "alarms")
      <3> HIDE DEF a
      <3> QED BY <1>1, <2>1, <2>2, OutcomeFacts
    <2>5. o.ans.from = a
      BY <2>4 DEF Reply
    <2>6. SlotOf(a) = pos
      BY <2>2, <2>3 DEF SlotOf, Addr, Slots
    <2> QED BY <1>1, <2>1, <2>5, <2>6
  <1>3. CASE UNCHANGED log
    BY <1>1, <1>3
  <1>4. PollAnswered \/ UNCHANGED log
    BY DEF Next, Plug, Unplug, Raise, CardGet, Browser, Refresh, Reload, CheckUp,
           StartUp, SkipListed, ProbeMissed, ProbeFound, ProbeNoDb, Follow, Announce,
           CheckAlarms, StartAlarms, SkipAbsent, PollMissed, Remove, RemoveNoDb,
           EndChecks, Missed, AtSlot, vars, tableVars
  <1> QED BY <1>2, <1>3, <1>4

\* What a poll that nobody answers means.
LEMMA MissedFacts ==
  ASSUME TypeOK, Missed
  PROVE  /\ pos \in Slots /\ cardNo[pos] \in Cards
         /\ Present(cardNo[pos]) => faults' = faults + 1
  <1> DEFINE a == cardNo[pos]
  <1>1. pos \in Slots /\ a \in Cards
    BY DEF Missed, AtSlot, TypeOK, Slots
  <1>2. PICK o \in Outcome(a, "alarms") : faults' = o.faults /\ o.ans = NoMsg
    BY DEF Missed, Exchange
  <1>3. faults \in Nat
    BY DEF TypeOK
  <1>4. Present(a) => o.faults = faults + 1
    <2> HIDE DEF a
    <2> QED BY <1>1, <1>2, <1>3, OutcomeFacts
  <1> QED BY <1>1, <1>2, <1>4

\* Missed polls are counted from nought for each card, and every one of a card
\* that is there has a cause.
LEMMA MissesNext ==
  ASSUME TypeOK, OwnAddress, MissesTrue, [Next]_vars, faults' \in {faults, faults + 1}
  PROVE  MissesTrue'
  <1>t. /\ cardNo \in [Slots -> Cards \cup {0}] /\ toCount \in [Slots -> Nat]
        /\ card \in [Cards -> AllTypes \cup {"none"}]
        /\ faults \in Nat /\ unnoticed \in {0, 1}
    BY DEF TypeOK
  <1>1. ASSUME NEW a \in Cards, NEW t \in Types, Plug(a, t) PROVE MissesTrue'
    <2>1. /\ card' = [card EXCEPT ![a] = t] /\ UNCHANGED <<cardNo, toCount, faults>>
          /\ unnoticed' = IF cardNo[SlotOf(a)] # 0 THEN 1 ELSE unnoticed
      BY <1>1 DEF Plug, cacheVars
    <2>2. ASSUME NEW s \in Slots, cardNo[s] = a PROVE unnoticed' = 1
      <3>1. SlotOf(a) = s /\ a # 0
        BY <2>2, NotCards DEF OwnAddress, SlotOf, Addr, Slots
      <3> QED BY <2>1, <2>2, <3>1
    <2>3. unnoticed = 1 => unnoticed' = 1
      BY <2>1
    <2> QED BY <1>t, <2>1, <2>2, <2>3 DEF MissesTrue, Present
  <1>2. ASSUME NEW a \in Cards, Unplug(a) PROVE MissesTrue'
    BY <1>t, <1>2 DEF Unplug, MissesTrue, Present, cacheVars, boundVars, histVars
  <1>3. ASSUME NEW s \in Slots, NEW x \in Cards, cardNo[s] \in {0, x},
               cardNo' = [cardNo EXCEPT ![s] = x], UNCHANGED <<card, toCount, unnoticed>>
        PROVE  MissesTrue'
    BY <1>t, <1>3, NotCards DEF MissesTrue, Present
  <1>4. ASSUME UNCHANGED <<card, cardNo, toCount, unnoticed>> PROVE MissesTrue'
    BY <1>t, <1>4 DEF MissesTrue, Present
  <1>5. ASSUME NEW a \in Cards, CardGet(a) PROVE MissesTrue'
    <2>1. UNCHANGED <<card, toCount, unnoticed>>
      BY <1>5 DEF CardGet
    <2>2. cardNo' = cardNo \/ (a \in Slots /\ cardNo' = [cardNo EXCEPT ![a] = a])
      BY <1>5 DEF CardGet
    <2>3. a \in Slots => cardNo[a] \in {0, a}
      BY NotCards DEF OwnAddress, Addr
    <2> QED BY <1>3, <1>4, <2>1, <2>2, <2>3
  <1>6. CASE ProbeFound \/ ProbeNoDb
    <2>1. NextCard \in Slots /\ Addr(NextCard) \in Cards
      BY NextCardType, AddrType DEF TypeOK
    <2>2. UNCHANGED <<card, toCount, unnoticed>> /\ cardNo[NextCard] = 0
      BY <1>6 DEF ProbeFound, ProbeNoDb, histVars
    <2>3. \/ cardNo' = cardNo
          \/ cardNo' = [cardNo EXCEPT ![NextCard] = Addr(NextCard)]
      BY <1>6 DEF ProbeFound, ProbeNoDb, Addr
    <2> QED BY <1>3, <1>4, <2>1, <2>2, <2>3
  <1>7. CASE PollAnswered
    BY <1>t, <1>7 DEF PollAnswered, MissesTrue, Present, histVars, TypeOK
  <1>8. CASE PollMissed \/ RemoveNoDb
    <2>1. /\ UNCHANGED <<card, cardNo, unnoticed>>
          /\ toCount' = [toCount EXCEPT ![pos] = @ + 1]
      BY <1>8 DEF PollMissed, RemoveNoDb, histVars
    <2>2. Missed
      BY <1>8 DEF PollMissed, RemoveNoDb
    <2>3. /\ pos \in Slots /\ cardNo[pos] # 0
          /\ Present(cardNo[pos]) => faults' = faults + 1
      BY <2>2, MissedFacts, NotCards
    <2> QED BY <1>t, <2>1, <2>3 DEF MissesTrue, Present
  <1>9. CASE Remove
    <2>1. /\ UNCHANGED <<card, unnoticed>>
          /\ cardNo' = [cardNo EXCEPT ![pos] = 0]
          /\ toCount' = [toCount EXCEPT ![pos] = 0]
      BY <1>9 DEF Remove, histVars
    <2> QED BY <1>t, <2>1 DEF MissesTrue, Present
  <1>10. \/ \E a \in Cards, t \in Types : Plug(a, t)
         \/ \E a \in Cards : Unplug(a) \/ CardGet(a)
         \/ ProbeFound \/ ProbeNoDb \/ PollAnswered \/ PollMissed \/ RemoveNoDb \/ Remove
         \/ UNCHANGED <<card, cardNo, toCount, unnoticed>>
    BY DEF Next, Raise, Browser, Refresh, Reload, CheckUp, StartUp, SkipListed,
           ProbeMissed, Follow, Announce, CheckAlarms, StartAlarms, SkipAbsent,
           EndChecks, vars, shelfVars, cacheVars, histVars
  <1> QED BY <1>1, <1>2, <1>4, <1>5, <1>6, <1>7, <1>8, <1>9, <1>10

\* The type in a new row is that of the card, if the card is still there.
LEMMA FoundType ==
  ASSUME TypeOK, BusTrue, NEW a \in Cards, NEW o \in Outcome(a, "info"), IsInfo(o, a)
  PROVE  card[a] \in {"none", o.ans.data}
  <1>1. faults \in Nat
    BY DEF TypeOK
  <1>2. o.ans = stray \/ (Present(a) /\ o.ans = Reply(a, "info"))
    BY <1>1, OutcomeFacts DEF IsInfo
  <1>3. CASE o.ans = stray
    BY <1>3 DEF IsInfo, BusTrue
  <1>4. CASE o.ans = Reply(a, "info")
    BY <1>4 DEF Reply
  <1> QED BY <1>2, <1>3, <1>4

LEMMA TypesTrueNext ==
  ASSUME IInv, BusTrue, TypesTrue, [Next]_vars PROVE TypesTrue'
  <1> SUFFICES ASSUME busy' = 0, ghost' = 0, unnoticed' = 0, NEW r \in rows' \ {CtrlRow}
               PROVE  card'[r.no] \in {"none", r.type}
      BY DEF TypesTrue, Clean
  <1>t. /\ cardNo \in [Slots -> Cards \cup {0}]
        /\ card \in [Cards -> AllTypes \cup {"none"}]
        /\ rows \subseteq Row /\ busy \in Nat
      BY DEF IInv, TypeOK
  <1>r. ASSUME NEW q \in rows \ {CtrlRow} PROVE q.no \in Cards
    BY <1>t, <1>r DEF Row
  <1>1. ASSUME NEW a \in Cards, NEW t \in Types, Plug(a, t) PROVE card'[r.no] \in {"none", r.type}
    <2>1. /\ card' = [card EXCEPT ![a] = t] /\ UNCHANGED <<rows, busy, ghost>>
          /\ cardNo[SlotOf(a)] = 0 /\ unnoticed = 0
      BY <1>1 DEF Plug, tableVars
    <2>2. Numbers(rows) = {Ctrl} \cup Listed
      BY <2>1 DEF IInv, Listing, Clean
    <2>3. a \notin Numbers(rows)
      <3>1. SUFFICES ASSUME NEW s \in Slots, cardNo[s] = a PROVE FALSE
        BY <2>2, NotCards DEF Listed
      <3>2. SlotOf(a) = s /\ a # 0
        BY <3>1, NotCards DEF IInv, OwnAddress, SlotOf, Addr, Slots
      <3> QED BY <2>1, <3>1, <3>2
    <2>4. r.no # a /\ r.no \in Cards
      BY <1>r, <2>1, <2>3 DEF Numbers
    <2> QED BY <1>t, <2>1, <2>4 DEF TypesTrue, Clean
  <1>2. ASSUME NEW a \in Cards, Unplug(a) PROVE card'[r.no] \in {"none", r.type}
    <2>1. card' = [card EXCEPT ![a] = "none"] /\ UNCHANGED <<rows, busy, ghost, unnoticed>>
      BY <1>2 DEF Unplug, tableVars, boundVars, histVars
    <2> QED BY <1>t, <1>r, <2>1 DEF TypesTrue, Clean
  <1>3. ASSUME UNCHANGED card, r \in rows, busy = 0, ghost = 0, unnoticed = 0
        PROVE  card'[r.no] \in {"none", r.type}
    BY <1>3 DEF TypesTrue, Clean
  <1>4. CASE ProbeFound
    <2> DEFINE a == Addr(NextCard)
    <2>1. PICK o \in Outcome(a, "info"), fail \in SUBSET {"row", "alarm"} :
            /\ IsInfo(o, a)
            /\ busy' = busy + Cardinality(fail)
            /\ rows' = IF "row" \in fail THEN rows
                       ELSE Inserted(rows, [no |-> a, type |-> o.ans.data])
      BY <1>4 DEF ProbeFound
    <2>2. UNCHANGED <<card, ghost, unnoticed>>
      BY <1>4 DEF ProbeFound, histVars
    <2>3. busy = 0
      BY <1>t, <2>1, FailCount
    <2>4. r \in rows \/ r = [no |-> a, type |-> o.ans.data]
      BY <2>1 DEF Inserted
    <2>5. card[a] \in {"none", o.ans.data}
      <3>1. a \in Cards /\ TypeOK
        BY NextCardType, AddrType DEF IInv, TypeOK
      <3> HIDE DEF a
      <3> QED BY <2>1, <3>1, FoundType
    <2> QED BY <1>3, <2>2, <2>3, <2>4, <2>5
  <1>5. CASE Remove
    <2>1. PICK fail \in SUBSET {"row", "alarm"} :
            /\ busy' = busy + Cardinality(fail)
            /\ rows' = IF "row" \in fail THEN rows ELSE Without(rows, cardNo[pos])
      BY <1>5 DEF Remove
    <2>2. UNCHANGED <<card, ghost, unnoticed>>
      BY <1>5 DEF Remove, histVars
    <2>3. busy = 0
      BY <1>t, <2>1, FailCount
    <2> QED BY <1>3, <2>1, <2>2, <2>3 DEF Without
  <1>6. ASSUME NEW a \in Cards, CardGet(a) PROVE card'[r.no] \in {"none", r.type}
    <2>1. ghost = 0 /\ UNCHANGED <<rows, busy>>
      BY <1>6, CardGetKeeps
    <2>2. UNCHANGED <<card, unnoticed>>
      BY <1>6 DEF CardGet
    <2> QED BY <1>3, <2>1, <2>2
  <1>7. ProbeNoDb \/ RemoveNoDb => busy' # 0
    BY <1>t DEF ProbeNoDb, RemoveNoDb
  <1>8. CASE UNCHANGED <<card, rows, busy, ghost, unnoticed>>
    BY <1>3, <1>8
  <1>9. \/ \E a \in Cards, t \in Types : Plug(a, t)
        \/ \E a \in Cards : Unplug(a) \/ CardGet(a)
        \/ ProbeFound \/ Remove \/ ProbeNoDb \/ RemoveNoDb
        \/ UNCHANGED <<card, rows, busy, ghost, unnoticed>>
    BY DEF Next, Raise, Browser, Refresh, Reload, CheckUp, StartUp, SkipListed,
           ProbeMissed, Follow, Announce, CheckAlarms, StartAlarms, SkipAbsent,
           PollAnswered, PollMissed, EndChecks, vars, shelfVars, tableVars, boundVars,
           histVars
  <1> QED BY <1>1, <1>2, <1>4, <1>5, <1>6, <1>7, <1>8, <1>9

\* What the last three theorems rest on.
BusInv == IInv /\ BusTrue /\ MissesTrue

LEMMA BusInvHolds == Spec => []BusInv
  <1>1. Init => BusTrue /\ MissesTrue
    BY DEF Init, BusTrue, MissesTrue, NoMsg
  <1>2. BusInv /\ [Next]_vars => BusInv'
    BY IInvNext, BusNext, MissesNext DEF BusInv, IInv
  <1> QED BY IInvInit, <1>1, <1>2, PTL DEF Spec, BusInv

\* As long as no answer was late or refused, every alarm in the table stands
\* under the card that raised it.
THEOREM RightCardHolds == Spec => []RightCard
  <1>1. Init => RightCard
    BY DEF Init, RightCard
  <1>2. BusInv /\ RightCard /\ [Next]_vars => RightCard'
    BY BusNext, RightCardNext DEF BusInv, IInv
  <1> QED BY BusInvHolds, <1>1, <1>2, PTL DEF Spec

\* A row of the table has the type of the card that is in the slot, late
\* answers included, as long as the database works and no card was swapped
\* between two polls.
THEOREM TypesTrueHolds == Spec => []TypesTrue
  <1>1. Init => TypesTrue
    BY DEF Init, TypesTrue
  <1>2. BusInv /\ TypesTrue /\ [Next]_vars => TypesTrue'
    BY TypesTrueNext DEF BusInv
  <1> QED BY BusInvHolds, <1>1, <1>2, PTL DEF Spec

\* A card that is there is declared offline only after two answers that came
\* late, or if it was put there unnoticed.
THEOREM OfflineMeansGoneHolds == Spec => OfflineMeansGone
  <1> DEFINE Step == \A a \in Cards : balance'[a] < balance[a] /\ Present(a)
                                      => faults' >= 2 \/ unnoticed = 1
  <1>1. BusInv /\ [Next]_vars => [Step]_vars
    <2> SUFFICES ASSUME BusInv, Next, NEW a \in Cards, balance'[a] < balance[a], Present(a),
                        unnoticed # 1
                 PROVE  faults' >= 2
        OBVIOUS
    <2>t. /\ balance \in [Cards -> Int] /\ toCount \in [Slots -> Nat]
          /\ faults \in Nat /\ TypeOK
      BY DEF BusInv, IInv, TypeOK
    <2>1. Remove \/ ProbeFound \/ UNCHANGED balance
      BY DEF Next, Plug, Unplug, Raise, CardGet, Browser, Refresh, Reload, CheckUp,
             StartUp, SkipListed, ProbeMissed, ProbeNoDb, Follow, Announce, CheckAlarms,
             StartAlarms, SkipAbsent, PollAnswered, PollMissed, RemoveNoDb, EndChecks,
             tableVars
    <2>2. UNCHANGED balance => FALSE
      BY <2>t
    <2>3. ProbeFound => FALSE
      BY <2>t DEF ProbeFound
    <2>4. Remove
      BY <2>1, <2>2, <2>3
    <2>5. Missed /\ toCount[pos] + 1 >= 2
      BY <2>4 DEF Remove
    <2>6. balance' = balance \/ balance' = [balance EXCEPT ![cardNo[pos]] = @ - 1]
      BY <2>4 DEF Remove
    <2>7. cardNo[pos] = a
      BY <2>t, <2>6
    <2>8. pos \in Slots /\ cardNo[pos] # 0 /\ faults' = faults + 1
      BY <2>t, <2>5, <2>7, MissedFacts, NotCards
    <2>9. faults >= 1
      BY <2>t, <2>5, <2>7, <2>8 DEF BusInv, MissesTrue
    <2> QED BY <2>t, <2>8, <2>9
  <1> QED BY BusInvHolds, <1>1, PTL DEF Spec, OfflineMeansGone
=============================================================================
